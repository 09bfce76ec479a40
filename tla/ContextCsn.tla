----------------------------- MODULE ContextCsn -----------------------------
(***************************************************************************)
(* The life of a change sequence number (CSN) in slapd: it is issued inside *)
(* a back-mdb write, queued as pending (servers/slapd/ctxcsn.c), marked     *)
(* committed by the response callback of the syncprov overlay, which raises *)
(* the contextCSN of its server ID, and graduated from the queue at the end *)
(* of the operation.  The contextCSN is the cookie replication consumers    *)
(* resume from, so what it may and may not cover is what matters here.      *)
(*                                                                          *)
(* A writer is a slapd worker thread.  It performs one update at a time; a  *)
(* writer of TxnWriters performs an LDAP transaction (RFC 5805) of one or   *)
(* more updates in a single LMDB transaction.  The databases of DBs are     *)
(* glued under one suffix: they share one CSN queue and one syncprov        *)
(* instance, and each has its own LMDB writer lock.                         *)
(***************************************************************************)
EXTENDS Integers, Sequences, FiniteSets

CONSTANTS
  Writers,      \* worker threads performing updates
  TxnWriters,   \* those that perform LDAP transactions
  NoWriter,     \* "the writer lock is free"
  DBs,          \* glued databases
  Root,         \* the one that holds the suffix entry and its contextCSN
  Entries,      \* entries that updates are made to
  DbOf,         \* the database an entry lives in
  Kinds,        \* operations in use, among "add", "modify", "delete"
  Sids,         \* server IDs
  LocalSid,     \* slap_serverID
  InitCtx,      \* contextCSN values the database is first opened with
  ChkOps,       \* si_chkops: operations per checkpoint, 0 for none
  ChkTime,      \* whether si_chktime is configured
  CkptMayFail,  \* whether the checkpoint's modify may return an error
  MaxCsn,       \* bound: CSNs issued
  MaxStops      \* bound: shutdowns and crashes

ASSUME WritersAssumption ==
  TxnWriters \subseteq Writers /\ NoWriter \notin Writers
ASSUME DbAssumption == Entries # {} /\ Root \in DBs /\ DbOf \in [Entries -> DBs]
ASSUME KindsAssumption == Kinds \subseteq {"add", "modify", "delete"}
ASSUME SidsAssumption == LocalSid \in Sids /\ InitCtx \in [Sids -> Nat]
ASSUME CheckpointAssumption ==
  ChkOps \in Nat /\ ChkTime \in BOOLEAN /\ CkptMayFail \in BOOLEAN
ASSUME BoundsAssumption == MaxCsn \in Nat /\ MaxStops \in Nat

\* A CSN is its place in the order of issue and the server ID it carries.
Csn     == [t : Nat, sid : Sids]
NoCsn   == [t |-> 0, sid |-> LocalSid]
NoDraft == [e \in Entries |-> NoCsn]
NoCtx   == [s \in Sids |-> 0]
Pc      == {"idle", "begun", "issued", "queued", "done", "ckpt", "answered",
            "failed", "graduated", "aborted", "next", "rollback"}

VARIABLES
  up,         \* slapd is running and the databases are open
  clock,      \* last CSN issued
  pc,         \* where each writer is
  db,         \* the database its LMDB write transaction is on
  ent,        \* the entry of its current update
  kind,       \* and the operation
  csn,        \* o_csn of its current update
  queue,      \* be_pcsn_list
  wlock,      \* LMDB writer lock of each database
  store,      \* entryCSN of each entry, as last committed (NoCsn: no entry)
  stored,     \* contextCSN attribute of the suffix entry, as last committed
  draft,      \* the entryCSN values each open write transaction sees
  draftCtx,   \* and the contextCSN attribute it sees
  made,       \* CSNs of the updates made in it (history variable)
  ctxcsn,     \* si_ctxcsn: the contextCSN kept in memory (0: no value)
  numops,     \* si_numops
  dirty,      \* si_dirty
  resp,       \* holder of si_resp_mutex across a checkpoint
  history,    \* CSNs of committed updates, and generated ones (history variable)
  clean,      \* the last stop was a clean shutdown (history variable)
  stops       \* shutdowns and crashes so far

writerVars == <<pc, db, ent, kind, csn>>
diskVars   == <<store, stored>>
draftVars  == <<draft, draftCtx, made>>
provVars   == <<ctxcsn, numops, dirty, resp>>
lifeVars   == <<up, clean, stops>>
vars == <<up, clock, pc, db, ent, kind, csn, queue, wlock, store, stored, draft,
          draftCtx, made, ctxcsn, numops, dirty, resp, history, clean, stops>>

-----------------------------------------------------------------------------
(***************************************************************************)
(* The queue of pending CSNs: servers/slapd/ctxcsn.c.                      *)
(***************************************************************************)
QueueEntry == [op : Writers, t : Nat, sid : Sids, state : {"PENDING", "COMMIT"}]

Enqueue(q, w, c) ==
  Append(q, [op |-> w, t |-> c.t, sid |-> c.sid, state |-> "PENDING"])

\* Mutant of MarkCommit: every entry is marked, whoever it belongs to.
MarkCommitAll(q, w) == [i \in 1 .. Len(q) |-> [q[i] EXCEPT !.state = "COMMIT"]]

\* slap_get_commit_csn first marks the entry of the operation itself.
MarkCommit(q, w) ==
  [i \in 1 .. Len(q) |->
     IF q[i].op = w THEN [q[i] EXCEPT !.state = "COMMIT"] ELSE q[i]]

\* Mutant of Passed: the state of the entries is not looked at.
PassedAnyState(q, sid) == {i \in 1 .. Len(q) : q[i].sid = sid}

\* It then walks the entries of the same server ID up to the first pending
\* one: the committed entries it passes ...
Passed(q, sid) ==
  {i \in 1 .. Len(q) :
     /\ q[i].sid = sid /\ q[i].state = "COMMIT"
     /\ \A j \in 1 .. i - 1 : q[j].sid = sid => q[j].state # "PENDING"}

\* ... and returns the last of them, or an empty CSN.
CommitCsn(q, sid) ==
  LET Last(i) == i \in Passed(q, sid) /\ \A j \in Passed(q, sid) : j <= i
  IN  IF \E i \in 1 .. Len(q) : Last(i)
      THEN q[CHOOSE i \in 1 .. Len(q) : Last(i)].t ELSE 0

\* Mutant of Graduated: the oldest entry goes, not the operation's own.
GraduatedOldest(q, w) == IF q = <<>> THEN q ELSE Tail(q)

\* slap_graduate_commit_csn removes the operation's entry, if it has one.
Graduated(q, w) ==
  LET Own(k) == q[k].op = w /\ \A j \in 1 .. k - 1 : q[j].op # w
  IN  IF \E k \in 1 .. Len(q) : Own(k)
      THEN LET k == CHOOSE k \in 1 .. Len(q) : Own(k)
           IN  [i \in 1 .. Len(q) - 1 |-> IF i < k THEN q[i] ELSE q[i + 1]]
      ELSE q

-----------------------------------------------------------------------------
Init ==
  /\ up = FALSE /\ clean = TRUE /\ stops = 0
  /\ clock \in {InitCtx[s] : s \in Sids} /\ \A s \in Sids : InitCtx[s] <= clock
  /\ pc = [w \in Writers |-> "idle"]
  /\ db = [w \in Writers |-> Root]
  /\ ent = [w \in Writers |-> CHOOSE e \in Entries : TRUE]
  /\ kind = [w \in Writers |-> "modify"]
  /\ csn = [w \in Writers |-> NoCsn]
  /\ queue = <<>>
  /\ wlock = [d \in DBs |-> NoWriter]
  /\ store = NoDraft /\ stored = InitCtx
  /\ draft = [w \in Writers |-> NoDraft]
  /\ draftCtx = [w \in Writers |-> NoCtx] /\ made = [w \in Writers |-> {}]
  /\ ctxcsn = NoCtx /\ numops = 0 /\ dirty = FALSE /\ resp = NoWriter
  /\ history = {}

Goto(w, label) == pc' = [pc EXCEPT ![w] = label]

-----------------------------------------------------------------------------
(***************************************************************************)
(* Starting and stopping: syncprov_db_open and syncprov_db_close.          *)
(***************************************************************************)

\* The stored contextCSN is read.  back-mdb calls every database clean
\* (SLAP_DBFLAG_CLEAN, back-mdb/init.c), so that the entries are not searched for
\* newer CSNs.  If there is none, one is generated: the server is in charge of its
\* ID (it is no SLAP_SINGLE_SHADOW), and the suffix entry exists.
Open ==
  /\ ~up
  /\ up' = TRUE
  /\ IF stored = NoCtx
     THEN /\ clock < MaxCsn
          /\ clock' = clock + 1
          /\ ctxcsn' = [NoCtx EXCEPT ![LocalSid] = clock + 1]
          /\ history' = history \cup {[t |-> clock + 1, sid |-> LocalSid]}
          /\ numops' = numops + 1
     ELSE UNCHANGED <<clock, history, numops>> /\ ctxcsn' = stored
  /\ UNCHANGED <<writerVars, queue, wlock, diskVars, draftVars, dirty, resp,
                 clean, stops>>

\* At shutdown no operation is left; a checkpoint is written if contextCSN
\* changed since the last one.  Its result is not looked at.
Close ==
  /\ up /\ stops < MaxStops
  /\ \A w \in Writers : pc[w] = "idle"
  /\ up' = FALSE /\ clean' = TRUE /\ stops' = stops + 1
  /\ \/ numops > 0 /\ stored' = ctxcsn
     \/ (numops = 0 \/ CkptMayFail) /\ stored' = stored
  /\ ctxcsn' = NoCtx /\ numops' = 0 /\ dirty' = FALSE
  /\ UNCHANGED <<clock, writerVars, queue, wlock, store, draftVars, resp, history>>

\* A crash loses everything but what LMDB has committed.
Crash ==
  /\ up /\ stops < MaxStops
  /\ up' = FALSE /\ clean' = FALSE /\ stops' = stops + 1
  /\ pc' = [w \in Writers |-> "idle"]
  /\ csn' = [w \in Writers |-> NoCsn]
  /\ queue' = <<>> /\ wlock' = [d \in DBs |-> NoWriter]
  /\ draft' = [w \in Writers |-> NoDraft]
  /\ draftCtx' = [w \in Writers |-> NoCtx] /\ made' = [w \in Writers |-> {}]
  /\ ctxcsn' = NoCtx /\ numops' = 0 /\ dirty' = FALSE /\ resp' = NoWriter
  /\ UNCHANGED <<clock, db, ent, kind, diskVars, history>>

-----------------------------------------------------------------------------
(***************************************************************************)
(* An update in back-mdb: mdb_add, mdb_modify (mdb_modrdn treats the CSN    *)
(* the same way) and mdb_delete.                                            *)
(***************************************************************************)
TakeLock(w, d) ==
  /\ wlock[d] = NoWriter
  /\ wlock' = [wlock EXCEPT ![d] = w]
  /\ draft' = [draft EXCEPT ![w] = store]
  /\ draftCtx' = [draftCtx EXCEPT ![w] = stored]
  /\ UNCHANGED made

\* Mutant of DropLock: the transaction is dropped without ending it.
LeakLock(w) ==
  /\ wlock' = wlock
  /\ draft' = [draft EXCEPT ![w] = NoDraft]
  /\ draftCtx' = [draftCtx EXCEPT ![w] = NoCtx]
  /\ made' = [made EXCEPT ![w] = {}]

DropLock(w) ==
  /\ wlock' = [d \in DBs |-> IF wlock[d] = w THEN NoWriter ELSE wlock[d]]
  /\ draft' = [draft EXCEPT ![w] = NoDraft]
  /\ draftCtx' = [draftCtx EXCEPT ![w] = NoCtx]
  /\ made' = [made EXCEPT ![w] = {}]

\* mdb_opinfo_get, or SLAP_TXN_BEGIN for an LDAP transaction.  The guard on the
\* clock keeps a CSN for every writer that has not been issued its own.
Begin(w) ==
  /\ up /\ pc[w] = "idle"
  /\ clock + Cardinality({v \in Writers : pc[v] = "begun"}) < MaxCsn
  /\ \E d \in DBs : TakeLock(w, d) /\ db' = [db EXCEPT ![w] = d]
  /\ Goto(w, "begun")
  /\ UNCHANGED <<up, clock, ent, kind, csn, queue, diskVars, provVars, history,
                 clean, stops>>

\* slap_add_opattrs, slap_mods_opattrs, mdb_delete: the CSN is generated here
\* (slap_get_csn), or is the entryCSN that came with an add or a modify.
IssueCsn(w) ==
  /\ pc[w] = "begun" \/ (pc[w] = "next" /\ clock < MaxCsn)
  /\ clock' = clock + 1
  /\ \E k \in Kinds, e \in {x \in Entries : DbOf[x] = db[w]}, s \in Sids :
       /\ k = "delete" => s = LocalSid
       /\ kind' = [kind EXCEPT ![w] = k]
       /\ ent' = [ent EXCEPT ![w] = e]
       /\ csn' = [csn EXCEPT ![w] = [t |-> clock + 1, sid |-> s]]
  /\ Goto(w, "issued")
  /\ UNCHANGED <<up, db, queue, wlock, diskVars, draftVars, provVars, history,
                 clean, stops>>

\* slap_queue_csn: a step of its own, as be_pcsn_mutex is not held before it.
QueueCsn(w) ==
  /\ pc[w] = "issued"
  /\ queue' = Enqueue(queue, w, csn[w])
  /\ Goto(w, "queued")
  /\ UNCHANGED <<up, clock, db, ent, kind, csn, wlock, diskVars, draftVars,
                 provVars, history, clean, stops>>

\* An add needs the entry absent, a modify or a delete needs it present.
Applicable(w) == (kind[w] = "add") = (draft[w][ent[w]] = NoCsn)
Outcome(w)    == IF kind[w] = "delete" THEN NoCsn ELSE csn[w]

\* The update is made and mdb_txn_commit succeeds.
Commit(w) ==
  /\ pc[w] = "queued" /\ w \notin TxnWriters /\ Applicable(w)
  /\ store' = [store EXCEPT ![ent[w]] = Outcome(w)]
  /\ history' = history \cup {csn[w]}
  /\ DropLock(w)
  /\ Goto(w, "done")
  /\ UNCHANGED <<up, clock, db, ent, kind, csn, queue, stored, provVars, clean,
                 stops>>

\* The update is made inside an LDAP transaction, which stays open.
ApplyInTxn(w) ==
  /\ pc[w] = "queued" /\ w \in TxnWriters /\ Applicable(w)
  /\ draft' = [draft EXCEPT ![w][ent[w]] = Outcome(w)]
  /\ made' = [made EXCEPT ![w] = @ \cup {csn[w]}]
  /\ Goto(w, "done")
  /\ UNCHANGED <<up, clock, db, ent, kind, csn, queue, wlock, diskVars, draftCtx,
                 provVars, history, clean, stops>>

\* The update is refused (or is a no-op); mdb_delete aborts the transaction
\* before it answers, the others answer first.
Fail(w) ==
  /\ pc[w] = "queued"
  /\ IF kind[w] = "delete" /\ w \notin TxnWriters
     THEN DropLock(w) /\ Goto(w, "aborted")
     ELSE Goto(w, "failed") /\ UNCHANGED <<wlock, draftVars>>
  /\ UNCHANGED <<up, clock, db, ent, kind, csn, queue, diskVars, provVars,
                 history, clean, stops>>

\* mdb_txn_commit returns an error: the transaction is gone.
CommitFails(w) ==
  /\ pc[w] = "queued" /\ w \notin TxnWriters /\ Applicable(w)
  /\ DropLock(w)
  /\ Goto(w, "aborted")
  /\ UNCHANGED <<up, clock, db, ent, kind, csn, queue, diskVars, provVars,
                 history, clean, stops>>

(***************************************************************************)
(* syncprov_op_response, called by send_ldap_result of a successful update  *)
(* with si_resp_mutex held throughout.  A failed update leaves at once.     *)
(***************************************************************************)
\* Mutant of Raises: the comparison with the current value is dropped.
RaisesAlways(maxcsn, current) == maxcsn # 0

Raises(maxcsn, current) == maxcsn # 0 /\ maxcsn > current

CheckpointDue(n, elapsed) == (ChkOps > 0 /\ n >= ChkOps) \/ elapsed

\* Mutants of NumopsLeft: the count is reset one operation too early; the
\* threshold is subtracted whether or not it was reached.
NumopsLeftEarly(n)    == IF ChkOps > 0 /\ n >= ChkOps - 1 THEN 0 ELSE n
NumopsLeftSubtract(n) == n - ChkOps

NumopsLeft(n) == IF ChkOps > 0 /\ n >= ChkOps THEN 0 ELSE n

Respond(w) ==
  /\ pc[w] = "done" /\ resp = NoWriter
  /\ queue' = MarkCommit(queue, w)
  /\ LET s       == csn[w].sid
         maxcsn  == CommitCsn(queue', s)
         changed == Raises(maxcsn, ctxcsn[s])
         count   == IF changed THEN numops + 1 ELSE numops
     IN  /\ ctxcsn' = IF changed THEN [ctxcsn EXCEPT ![s] = maxcsn] ELSE ctxcsn
         /\ dirty' = ~changed
         /\ \E elapsed \in IF ChkTime THEN BOOLEAN ELSE {FALSE} :
              /\ numops' = NumopsLeft(count)
              /\ IF CheckpointDue(count, elapsed)
                 THEN resp' = w /\ Goto(w, "ckpt")
                 ELSE resp' = resp /\ Goto(w, "answered")
  /\ UNCHANGED <<up, clock, db, ent, kind, csn, wlock, diskVars, draftVars,
                 history, clean, stops>>

\* syncprov_checkpoint: an internal modify of the suffix entry, in the writer's
\* own transaction when that is an LDAP transaction on the same database, and
\* otherwise in one of its own, for which the writer lock must be free.
Checkpoint(w) ==
  /\ pc[w] = "ckpt"
  /\ \/ /\ wlock[Root] = w
        /\ draftCtx' = [draftCtx EXCEPT ![w] = ctxcsn] /\ stored' = stored
     \/ /\ wlock[Root] = NoWriter
        /\ stored' = ctxcsn /\ draftCtx' = draftCtx
     \/ /\ wlock[Root] \in {w, NoWriter} /\ CkptMayFail
        /\ UNCHANGED <<stored, draftCtx>>
  /\ resp' = NoWriter
  /\ Goto(w, "answered")
  /\ UNCHANGED <<up, clock, db, ent, kind, csn, queue, wlock, store, draft, made,
                 ctxcsn, numops, dirty, history, clean, stops>>

\* After a refusal mdb_add aborts before it graduates the CSN, and mdb_modify
\* after; an LDAP transaction is aborted by txn_end_extop, or its SLAP_TXN_COMMIT
\* fails.
Abort(w) ==
  /\ \/ pc[w] = "failed" /\ kind[w] = "add" /\ w \notin TxnWriters
        /\ Goto(w, "aborted")
     \/ pc[w] \in {"graduated", "rollback", "next"} /\ Goto(w, "idle")
  /\ DropLock(w)
  /\ UNCHANGED <<up, clock, db, ent, kind, csn, queue, diskVars, provVars, history,
                 clean, stops>>

\* slap_graduate_commit_csn, the last thing any update does with its CSN.
Graduate(w) ==
  /\ \/ pc[w] \in {"answered", "aborted"}
        /\ Goto(w, IF w \in TxnWriters THEN "next" ELSE "idle")
     \/ pc[w] = "failed" /\ (kind[w] # "add" \/ w \in TxnWriters)
        /\ Goto(w, IF w \in TxnWriters THEN "rollback" ELSE "graduated")
  /\ queue' = Graduated(queue, w)
  /\ csn' = [csn EXCEPT ![w] = NoCsn]
  /\ UNCHANGED <<up, clock, db, ent, kind, wlock, diskVars, draftVars, provVars,
                 history, clean, stops>>

\* SLAP_TXN_COMMIT: every update of the LDAP transaction takes effect.
EndTxn(w) ==
  /\ pc[w] = "next"
  /\ store' = [e \in Entries |->
                 IF DbOf[e] = db[w] THEN draft[w][e] ELSE store[e]]
  /\ stored' = IF db[w] = Root THEN draftCtx[w] ELSE stored
  /\ history' = history \cup made[w]
  /\ DropLock(w)
  /\ Goto(w, "idle")
  /\ UNCHANGED <<up, clock, db, ent, kind, csn, queue, provVars, clean, stops>>

-----------------------------------------------------------------------------
Step(w) ==
  \/ IssueCsn(w) \/ QueueCsn(w)
  \/ Commit(w) \/ ApplyInTxn(w) \/ Fail(w) \/ CommitFails(w)
  \/ Respond(w) \/ Checkpoint(w)
  \/ Graduate(w) \/ Abort(w) \/ EndTxn(w)

Next ==
  \/ Open \/ Close \/ Crash
  \/ \E w \in Writers : Begin(w) \/ Step(w)

Spec == Init /\ [][Next]_vars

\* A worker thread that has begun an update carries on with it.
FairSpec == Spec /\ \A w \in Writers : WF_vars(Step(w))

-----------------------------------------------------------------------------
(***************************************************************************)
(* Correctness.                                                            *)
(***************************************************************************)

TypeOK ==
  /\ up \in BOOLEAN /\ clock \in Nat
  /\ pc \in [Writers -> Pc]
  /\ db \in [Writers -> DBs]
  /\ ent \in [Writers -> Entries]
  /\ kind \in [Writers -> {"add", "modify", "delete"}]
  /\ csn \in [Writers -> Csn]
  /\ queue \in Seq(QueueEntry)
  /\ wlock \in [DBs -> Writers \cup {NoWriter}]
  /\ store \in [Entries -> Csn] /\ stored \in [Sids -> Nat]
  /\ draft \in [Writers -> [Entries -> Csn]]
  /\ draftCtx \in [Writers -> [Sids -> Nat]]
  /\ made \in [Writers -> SUBSET Csn]
  /\ ctxcsn \in [Sids -> Nat] /\ numops \in Nat /\ dirty \in BOOLEAN
  /\ resp \in Writers \cup {NoWriter}
  /\ history \in SUBSET Csn
  /\ clean \in BOOLEAN /\ stops \in Nat

\* The CSNs of updates that are under way and not yet committed.
Outstanding ==
  (UNION {made[w] : w \in Writers})
    \cup {csn[w] : w \in {v \in Writers : pc[v] \in {"issued", "queued"}}}

\* contextCSN never covers an update that may still commit: a consumer that
\* holds the cookie would never be sent it
\* (doc/guide/admin/replication.sdf, "no transactions for an entry having
\* smaller entryCSN value remains outstanding").
NothingOutstandingCovered ==
  \A c \in Outstanding : c.t > ctxcsn[c.sid]

\* contextCSN names only updates that did commit, a value the database was first
\* opened with or the one generated for it: never an update that was refused or
\* rolled back.
CoversCommitted ==
  \A s \in Sids :
    ctxcsn[s] \in {0, InitCtx[s]} \/ [t |-> ctxcsn[s], sid |-> s] \in history

\* The queue holds one entry for each update between slap_queue_csn and
\* slap_graduate_commit_csn and no other: an entry left pending would keep
\* contextCSN from ever advancing past it.
HoldsEntry == {"queued", "done", "ckpt", "answered", "failed", "aborted"}

QueueMatchesUpdates ==
  /\ \A i, j \in 1 .. Len(queue) : queue[i].op = queue[j].op => i = j
  /\ {queue[i].op : i \in 1 .. Len(queue)} = {w \in Writers : pc[w] \in HoldsEntry}
  /\ \A i \in 1 .. Len(queue) :
       LET w == queue[i].op
       IN  /\ csn[w] = [t |-> queue[i].t, sid |-> queue[i].sid]
           /\ queue[i].state = "COMMIT" <=> pc[w] \in {"ckpt", "answered"}

\* While slapd runs, no contextCSN goes back; the stored one never does, not
\* even across crashes and checkpoints made inside transactions.
ContextMonotone ==
  [][\A s \in Sids : /\ up /\ up' => ctxcsn'[s] >= ctxcsn[s]
                     /\ stored'[s] >= stored[s]]_vars

\* "changes to the contextCSN ... will not be written to the database until the
\* server is cleanly shut down" (replication.sdf): then, they are.
ShutdownKeepsContext ==
  [][up /\ ~up' /\ clean' => stored' = ctxcsn]_vars

\* At startup "the database will still be scanned for any entryCSN values greater
\* than" the stored contextCSN (replication.sdf): no entry of this server's ID is
\* newer than the contextCSN the database opens with.
RestartFindsNewest ==
  [][~up /\ up' =>
       \A e \in Entries : store[e].sid = LocalSid
                            => store[e].t <= ctxcsn'[LocalSid]]_vars

\* Every update that has begun comes to its end.
UpdatesEnd == \A w \in Writers : pc[w] = "begun" ~> pc[w] = "idle"
=============================================================================
