----------------------------- MODULE Replication -----------------------------
(***************************************************************************)
(* Content replication: the provider overlay (overlays/syncprov.c) with its  *)
(* contextCSN, persistent searches and session log, the connections, and     *)
(* the consumers of module Syncrepl.                                        *)
(*                                                                          *)
(* An entry is outside the consumers' filter or inside it, and its version   *)
(* is the CSN of its last change.  Issuing a CSN and committing the change   *)
(* is one step here, since both happen under the backend's writer lock;      *)
(* module ContextCsn has them apart, with checkpoints and transactions.      *)
(***************************************************************************)
EXTENDS Syncrepl, FiniteSets, SequencesExt

CONSTANTS
  Existing,    \* entries that are there from the start, inside the filter
  Writers, NoWriter,
  Consumers,
  Persist,     \* those that search with refreshAndPersist
  Empty,       \* those that start with nothing and no cookie
  LogSize,     \* entries of the session log (sl_size), 0 without one
  Checkpoints, \* whether a response may find a checkpoint due
  DbClean,     \* what the backend may say of how it was shut down
  Interrupts,  \* sessions may end anywhere, not only between two changes
  MaxCsn, MaxDrops, MaxStops

ASSUME ReplicationAssumption ==
  /\ Existing \subseteq Entries /\ Persist \subseteq Consumers /\ Empty \subseteq Consumers
  /\ NoWriter \notin Writers /\ LogSize \in Nat
  /\ DbClean \subseteq BOOLEAN
  /\ Checkpoints \subseteq BOOLEAN /\ Interrupts \in BOOLEAN
  /\ MaxCsn \in Nat /\ MaxDrops \in Nat /\ MaxStops \in Nat
ASSUME EntriesAssumption == IsFiniteSet(Entries)
ASSUME TypesAssumption == Entries # {} /\ IsFiniteSet(Writers)

VARIABLES
  db,       \* entries: CSN of the last change, and where the entry is
  clock,    \* the newest CSN issued
  pending,  \* CSNs in the queue of pending ones (be_pending_csn_list)
  marked,   \* those of them marked committed
  ctxcsn,   \* si_ctxcsn
  stored,   \* contextCSN as last written to the database
  dirty,    \* si_dirty
  slog,     \* the session log: records of a change
  mincsn,   \* sl_mincsn
  resp,     \* the update that holds si_resp_mutex
  wr,       \* updates in progress
  srch,     \* the search of each consumer
  queue,    \* responses queued to each persistent search (s_res)
  chan,     \* messages on the way to each consumer
  con,      \* the consumers
  drops, stops

provider == <<db, clock, pending, marked, ctxcsn, stored, dirty, slog, mincsn, resp, wr>>
channels == <<queue, chan>>
faults == <<drops, stops>>
vars == <<provider, srch, channels, con, faults>>

------------------------------------------------------------------------------
(* Entries *)

Places == {"unborn", "in", "out", "gone"}
Matches(e) == db[e].place = "in"
Exists(e) == db[e].place \in {"in", "out"}

\* What a consumer should hold of an entry.
Visible(e) == IF Matches(e) THEN db[e].csn ELSE NoCsn

Applicable(e, tag) == IF tag = "ADD" THEN db[e].place = "unborn" ELSE Exists(e)

Leads(tag) == IF tag = "DELETE" THEN {"gone"} ELSE {"in", "out"}

------------------------------------------------------------------------------
(* Initial state: the consumers that are not empty hold what is there. *)

Free == [pc |-> "idle", entry |-> CHOOSE e \in Entries : TRUE, tag |-> "ADD",
         place |-> "in", csn |-> 0, watched |-> FALSE, matched |-> {}, changed |-> FALSE]

Off == [pc |-> "off", ctx |-> 0, cookie |-> NoCsn, changed |-> FALSE,
        present |-> FALSE, at |-> NoCsn, log |-> {}]

Init ==
  /\ db = [e \in Entries |->
             [csn |-> 0, place |-> IF e \in Existing THEN "in" ELSE "unborn"]]
  /\ clock = 0 /\ pending = {} /\ marked = {}
  /\ ctxcsn = 0 /\ stored = 0 /\ dirty = FALSE
  /\ slog = {} /\ mincsn = 0 /\ resp = NoWriter
  /\ wr = [w \in Writers |-> Free]
  /\ srch = [c \in Consumers |-> Off]
  /\ queue = [c \in Consumers |-> <<>>] /\ chan = [c \in Consumers |-> <<>>]
  /\ con = [c \in Consumers |->
       Consumer([e \in Entries |-> IF c \notin Empty /\ e \in Existing THEN 0 ELSE NoCsn],
                IF c \in Empty THEN NoCsn ELSE 0)]
  /\ drops = 0 /\ stops = 0

------------------------------------------------------------------------------
(* Persistent searches registered (si_ops), and updates between             *)
(* syncprov_op_mod and syncprov_op_cleanup (si_active).                     *)

Psearches == {c \in Persist : srch[c].pc \notin {"off", "wait"}}
Active == {w \in Writers : wr[w].pc # "idle"}

------------------------------------------------------------------------------
(* Updates *)

Goto(w, pc) == wr' = [wr EXCEPT ![w].pc = pc]

\* syncprov_op_mod counts the update and looks for persistent searches.  An
\* update that cannot apply would change nothing; MaxCsn bounds those begun.
Begin(w) ==
  /\ wr[w].pc = "idle"
  /\ clock + Cardinality(Active) < MaxCsn
  /\ \E e \in Entries, tag \in {"ADD", "MODIFY", "DELETE"} :
       /\ Applicable(e, tag)
       /\ \E place \in Leads(tag) :
            wr' = [wr EXCEPT ![w] = [Free EXCEPT
              !.pc = "begun", !.entry = e, !.tag = tag, !.place = place,
              !.watched = (Psearches # {})]]
  /\ UNCHANGED <<db, clock, pending, marked, ctxcsn, stored, dirty, slog, mincsn, resp>>
  /\ UNCHANGED <<srch, channels, con, faults>>

\* While there are persistent searches, updates of one entry take turns (si_mods).
Turn(w) ==
  wr[w].watched => \A o \in Writers \ {w} :
    ~(/\ wr[o].watched /\ wr[o].entry = wr[w].entry
      /\ wr[o].pc \notin {"idle", "begun"})

\* The searches that the entry matches before the change.
MatchBefore(w) ==
  /\ wr[w].pc = "begun" /\ Turn(w)
  /\ wr' = [wr EXCEPT ![w].pc = "ready",
              ![w].matched = IF wr[w].tag # "ADD" /\ Matches(wr[w].entry)
                               THEN Psearches ELSE {}]
  /\ UNCHANGED <<db, clock, pending, marked, ctxcsn, stored, dirty, slog, mincsn, resp>>
  /\ UNCHANGED <<srch, channels, con, faults>>

Commit(w) ==
  /\ wr[w].pc = "ready" /\ Applicable(wr[w].entry, wr[w].tag)
  /\ clock' = clock + 1
  /\ pending' = pending \cup {clock'}
  /\ db' = [db EXCEPT ![wr[w].entry] = [csn |-> clock', place |-> wr[w].place]]
  /\ wr' = [wr EXCEPT ![w].pc = "committed", ![w].csn = clock']
  /\ UNCHANGED <<marked, ctxcsn, stored, dirty, slog, mincsn, resp>>
  /\ UNCHANGED <<srch, channels, con, faults>>

\* Another update has added or deleted the entry first.
Refused(w) ==
  /\ wr[w].pc = "ready" /\ ~Applicable(wr[w].entry, wr[w].tag)
  /\ Goto(w, "answered")
  /\ UNCHANGED <<db, clock, pending, marked, ctxcsn, stored, dirty, slog, mincsn, resp>>
  /\ UNCHANGED <<srch, channels, con, faults>>

\* slap_get_commit_csn: the newest marked CSN with nothing unmarked before it.
CommitCsn(q, m) ==
  LET settled == {k \in m : \A p \in q \ m : k < p}
  IN  IF settled = {} THEN NoCsn ELSE Max(settled)

\* syncprov_op_response, up to the checkpoint that may follow.
Respond(w) ==
  /\ wr[w].pc = "committed" /\ resp = NoWriter
  /\ resp' = w
  /\ marked' = marked \cup {wr[w].csn}
  /\ LET csn == CommitCsn(pending, marked')
     IN  /\ ctxcsn' = IF csn > ctxcsn THEN csn ELSE ctxcsn
         /\ dirty' = ~(csn > ctxcsn)
         /\ wr' = [wr EXCEPT ![w].pc = "responding", ![w].changed = csn > ctxcsn]
  /\ \E due \in Checkpoints : stored' = IF due THEN ctxcsn' ELSE stored
  /\ UNCHANGED <<db, clock, pending, slog, mincsn>>
  /\ UNCHANGED <<srch, channels, con, faults>>

\* syncprov_matchops after the change: what each persistent search is told.
Told(w, c) ==
  LET e == wr[w].entry
      found == c \in wr[w].matched
      cookie == IF wr[w].changed THEN ctxcsn ELSE NoCsn
      now == wr[w].tag # "DELETE" /\ Matches(e)
  IN  IF now THEN Message(IF found THEN "MODIFY" ELSE "ADD", {e}, db[e].csn, cookie)
      ELSE IF found THEN Message("DELETE", {e}, NoCsn, cookie)
      ELSE Message("NEW_COOKIE", {}, NoCsn, ctxcsn)

\* An entry that another update has deleted in the meantime is not reported.
Reported(w) == wr[w].tag \in {"ADD", "DELETE"} \/ Exists(wr[w].entry)

\* syncprov_add_slog: unless a search is going through it (sl_playing), the log
\* is cut down to the newest LogSize changes, and sl_mincsn is the newest one it
\* has let go.
Playing == {c \in Consumers : srch[c].pc = "pick"}

Logged(w) == slog \cup {[csn |-> wr[w].csn, entry |-> wr[w].entry, tag |-> wr[w].tag]}

Expired(log) ==
  IF Playing # {} THEN {}
  ELSE {r \in log : Cardinality({q \in log : q.csn > r.csn}) >= LogSize}

\* Mutant: what is let go is not accounted for.
AddSlogForgets(w) == slog' = Logged(w) \ Expired(Logged(w)) /\ UNCHANGED mincsn

AddSlog(w) ==
  LET gone == Expired(Logged(w))
  IN  /\ slog' = Logged(w) \ gone
      /\ mincsn' = IF gone = {} THEN mincsn ELSE Max({r.csn : r \in gone})

\* The rest of syncprov_op_response.
Deliver(w) ==
  /\ wr[w].pc = "responding"
  /\ queue' = [c \in Consumers |->
       IF c \in Psearches /\ Reported(w) THEN Append(queue[c], Told(w, c)) ELSE queue[c]]
  /\ IF LogSize > 0 THEN AddSlog(w) ELSE UNCHANGED <<slog, mincsn>>
  /\ resp' = NoWriter
  /\ Goto(w, "answered")
  /\ UNCHANGED <<db, clock, pending, marked, ctxcsn, stored, dirty>>
  /\ UNCHANGED <<srch, chan, con, faults>>

\* Mutant: the CSN is not graduated.
FinishUngraduated(w) ==
  /\ wr[w].pc = "answered"
  /\ wr' = [wr EXCEPT ![w] = Free]
  /\ UNCHANGED <<db, clock, pending, marked, ctxcsn, stored, dirty, slog, mincsn, resp>>
  /\ UNCHANGED <<srch, channels, con, faults>>

\* syncprov_op_cleanup, then slap_graduate_commit_csn.
Finish(w) ==
  /\ wr[w].pc = "answered"
  /\ pending' = pending \ {wr[w].csn} /\ marked' = marked \ {wr[w].csn}
  /\ wr' = [wr EXCEPT ![w] = Free]
  /\ UNCHANGED <<db, clock, ctxcsn, stored, dirty, slog, mincsn, resp>>
  /\ UNCHANGED <<srch, channels, con, faults>>

------------------------------------------------------------------------------
(* Searches.  The provider's side of one: waiting for the active updates,    *)
(* the snapshot of contextCSN, the session log, the lookups of the present   *)
(* phase, the search itself, and the persist phase.  ctx is the snapshot,    *)
(* cookie the state of the consumer the provider goes by.                   *)

Send(c, messages) == chan' = [chan EXCEPT ![c] = @ \o messages]

Connect(c) ==
  /\ srch[c].pc = "off" /\ chan[c] = <<>>
  /\ srch' = [srch EXCEPT ![c] = [Off EXCEPT
       !.pc = IF c \in Persist THEN "wait" ELSE "start", !.cookie = con[c].cookie]]
  /\ con' = [con EXCEPT ![c] = Reset(con[c])]
  /\ UNCHANGED <<provider, channels, faults>>

\* A persistent search waits for the active updates, which may have looked for
\* persistent searches before it is one.
Register(c) ==
  /\ srch[c].pc = "wait" /\ Active = {}
  /\ srch' = [srch EXCEPT ![c].pc = "start"]
  /\ UNCHANGED <<provider, channels, con, faults>>

Snapshot(c, pc) ==
  srch' = [srch EXCEPT ![c].pc = pc, ![c].ctx = ctxcsn,
                       ![c].changed = srch[c].cookie < ctxcsn,
                       ![c].present = srch[c].cookie # NoCsn]

\* The end of a search; a cookie is sent when the snapshot is newer than the
\* consumer's.
EndTag(c, present) ==
  IF c \in Persist
    THEN IF present THEN "REFRESH_PRESENT" ELSE "REFRESH_DELETE"
    ELSE IF present THEN "DONE_PRESENT" ELSE "DONE_DELETES"

End(c, present, cookie) == <<Message(EndTag(c, present), {}, NoCsn, cookie)>>

Ended(c) == [Off EXCEPT !.pc = IF c \in Persist THEN "persist" ELSE "off"]

StartRefused(c) ==
  /\ srch[c].pc = "start" /\ srch[c].cookie > ctxcsn
  /\ Send(c, <<Message("REFUSED", {}, NoCsn, NoCsn)>>)
  /\ srch' = [srch EXCEPT ![c] = Off]
  /\ queue' = [queue EXCEPT ![c] = <<>>]
  /\ UNCHANGED <<provider, con, faults>>

NothingNew(c) == srch[c].cookie = ctxcsn /\ ~dirty

StartNoChange(c) ==
  /\ srch[c].pc = "start" /\ NothingNew(c)
  /\ Send(c, End(c, FALSE, NoCsn))
  /\ srch' = [srch EXCEPT ![c] = Ended(c)]
  /\ UNCHANGED <<provider, queue, con, faults>>

Start(c) ==
  /\ srch[c].pc = "start" /\ srch[c].cookie <= ctxcsn /\ ~NothingNew(c)
  /\ Snapshot(c, IF srch[c].cookie = NoCsn THEN "search"
                 ELSE IF LogSize > 0 THEN "log" ELSE "find")
  /\ UNCHANGED <<provider, channels, con, faults>>

\* syncprov_play_sessionlog, when the log goes back to the consumer's cookie ...
LogReaches(c) == slog # {} /\ srch[c].cookie >= mincsn

PlayLog(c) ==
  /\ srch[c].pc = "log"
  /\ srch' = [srch EXCEPT ![c] =
       IF LogReaches(c)
         THEN [srch[c] EXCEPT !.pc = "pick", !.present = FALSE,
                                 !.at = srch[c].cookie, !.log = {}]
         ELSE [srch[c] EXCEPT !.pc = "find"]]
  /\ UNCHANGED <<provider, channels, con, faults>>

\* ... picks the changes since, up to the snapshot, one by one: sl_mutex is given
\* up after each, and others may be added before or behind it.
Ahead(c) == {r \in slog : srch[c].at < r.csn /\ r.csn <= srch[c].ctx}

PickNext(c) ==
  /\ srch[c].pc = "pick"
  /\ \E r \in Ahead(c) :
       /\ \A q \in Ahead(c) : r.csn <= q.csn
       /\ srch' = [srch EXCEPT ![c].at = r.csn,
                               ![c].log = IF r.tag = "ADD" THEN @ ELSE @ \cup {r}]
  /\ UNCHANGED <<provider, channels, con, faults>>

Picked(c) ==
  /\ srch[c].pc = "pick" /\ Ahead(c) = {}
  /\ srch' = [srch EXCEPT ![c].pc = "send", ![c].at = NoCsn]
  /\ UNCHANGED <<provider, channels, con, faults>>

\* One change stands for each entry, its delete or else the oldest; a modified
\* entry is reported gone unless it is still there and matches.
Disappeared(log) ==
  {r \in log :
     \/ r.tag = "DELETE"
     \/ /\ \A q \in log : q.entry = r.entry => q.tag = "MODIFY" /\ q.csn >= r.csn
        /\ ~Matches(r.entry)}

\* The i-th record of a log, in the order of the changes.
Nth(log, i) == CHOOSE r \in log : Cardinality({q \in log : q.csn <= r.csn}) = i

SendLog(c) ==
  /\ srch[c].pc = "send"
  /\ LET gone == Disappeared(srch[c].log)
     IN  Send(c, [i \in 1 .. Cardinality(gone) |->
                    Message("DELETES", {Nth(gone, i).entry}, NoCsn, srch[c].cookie)])
  /\ srch' = [srch EXCEPT ![c].pc = "search", ![c].log = {}]
  /\ UNCHANGED <<provider, queue, con, faults>>

\* syncprov_findcsn(FIND_CSN): without an entry as old as the cookie, the
\* consumer's state is ignored.
FindCsn(c) ==
  /\ srch[c].pc = "find"
  /\ IF \E e \in Entries : Exists(e) /\ db[e].csn <= srch[c].cookie
       THEN srch' = [srch EXCEPT ![c].pc = "list"]
       ELSE srch' = [srch EXCEPT ![c].pc = "search", ![c].cookie = NoCsn]
  /\ UNCHANGED <<provider, channels, con, faults>>

\* syncprov_findcsn(FIND_PRESENT)
FindPresent(c) ==
  /\ srch[c].pc = "list"
  /\ Send(c, <<Message("PRESENT", {e \in Entries : Matches(e)}, NoCsn, NoCsn)>>)
  /\ srch' = [srch EXCEPT ![c].pc = "search"]
  /\ UNCHANGED <<provider, queue, con, faults>>

\* syncprov_search_response: a search that only refreshes leaves what is newer
\* than the snapshot to the next one.
Found(c) ==
  {e \in Entries : /\ Matches(e) /\ db[e].csn > srch[c].cookie
                   /\ c \notin Persist => db[e].csn <= srch[c].ctx}

\* Mutant: the cookie names the contextCSN of the end of the search.
EndCookieNow(c) == IF srch[c].changed THEN ctxcsn ELSE NoCsn

EndCookie(c) == IF srch[c].changed THEN srch[c].ctx ELSE NoCsn

Search(c) ==
  /\ srch[c].pc = "search"
  /\ LET found == SetToSeq(Found(c))
     IN  Send(c, [i \in DOMAIN found |->
                    Message("ADD", {found[i]}, db[found[i]].csn, NoCsn)]
                 \o End(c, srch[c].present, EndCookie(c)))
  /\ srch' = [srch EXCEPT ![c] = Ended(c)]
  /\ UNCHANGED <<provider, queue, con, faults>>

\* Mutant: responses are sent while the refresh goes on.
QueuedEarly(c) == srch[c].pc # "off" /\ queue[c] # <<>>

\* Mutant: the last response waits for another one.
QueuedBehind(c) == srch[c].pc = "persist" /\ Len(queue[c]) > 1

\* syncprov_qplay: one response at a time, once the refresh is over.
Queued(c) == srch[c].pc = "persist" /\ queue[c] # <<>>

SendQueued(c) ==
  /\ Queued(c)
  /\ Send(c, <<Head(queue[c])>>)
  /\ queue' = [queue EXCEPT ![c] = Tail(@)]
  /\ UNCHANGED <<provider, srch, con, faults>>

------------------------------------------------------------------------------
(* Consumers, connections and crashes *)

Handle(c) ==
  /\ chan[c] # <<>>
  /\ con' = [con EXCEPT ![c] = Receive(@, Head(chan[c]))]
  /\ chan' = [chan EXCEPT ![c] = Tail(@)]
  /\ UNCHANGED <<provider, srch, queue, faults>>

Disconnect(cs) ==
  /\ srch' = [c \in Consumers |-> IF c \in cs THEN Off ELSE srch[c]]
  /\ queue' = [c \in Consumers |-> IF c \in cs THEN <<>> ELSE queue[c]]
  /\ chan' = [c \in Consumers |-> IF c \in cs THEN <<>> ELSE chan[c]]

\* A connection is lost with what is on the way.
Drop(c) ==
  /\ drops < MaxDrops
  /\ srch[c].pc # "off" \/ chan[c] # <<>>
  /\ Interrupts \/ con[c].refreshDone
  /\ drops' = drops + 1
  /\ Disconnect({c})
  /\ UNCHANGED <<provider, con, stops>>

\* A consumer stops after it has applied a message, before it saves the cookie.
StopConsumer(c) ==
  /\ Interrupts /\ drops < MaxDrops /\ chan[c] # <<>>
  /\ con' = [con EXCEPT
       ![c] = [Receive(con[c], Head(chan[c])) EXCEPT !.cookie = con[c].cookie]]
  /\ drops' = drops + 1
  /\ Disconnect({c})
  /\ UNCHANGED <<provider, stops>>

\* The provider crashes and starts again (syncprov_db_open): contextCSN is what
\* was stored, or the newest entryCSN if the backend does not say it was shut
\* down cleanly; the session log is empty and starts there.
Reopened(clean) ==
  IF clean THEN stored ELSE Max({stored} \cup {db[e].csn : e \in {f \in Entries : Exists(f)}})

Restart ==
  /\ stops < MaxStops
  /\ stops' = stops + 1
  /\ \E clean \in DbClean : ctxcsn' = Reopened(clean)
  /\ dirty' = FALSE
  /\ slog' = {} /\ mincsn' = ctxcsn'
  /\ pending' = {} /\ marked' = {} /\ resp' = NoWriter
  /\ wr' = [w \in Writers |-> Free]
  /\ Disconnect(Consumers)
  /\ UNCHANGED <<db, clock, stored, con, drops>>

------------------------------------------------------------------------------
Progress(w) == MatchBefore(w) \/ Commit(w) \/ Refused(w) \/ Respond(w) \/ Deliver(w) \/ Finish(w)

Serve(c) ==
  \/ Register(c) \/ StartRefused(c) \/ StartNoChange(c) \/ Start(c)
  \/ PlayLog(c) \/ PickNext(c) \/ Picked(c) \/ SendLog(c)
  \/ FindCsn(c) \/ FindPresent(c) \/ Search(c)

Next ==
  \/ \E w \in Writers : Begin(w) \/ Progress(w)
  \/ \E c \in Consumers :
       Connect(c) \/ Serve(c) \/ SendQueued(c) \/ Handle(c) \/ Drop(c) \/ StopConsumer(c)
  \/ Restart

\* An update under way goes on, a consumer connects again and reads, searches
\* are served and responses sent.  Clients need not update anything, and
\* nothing need fail.
Fairness ==
  /\ \A w \in Writers : WF_vars(Progress(w))
  /\ \A c \in Consumers :
       WF_vars(Connect(c)) /\ WF_vars(Serve(c)) /\ WF_vars(SendQueued(c)) /\ WF_vars(Handle(c))

Spec == Init /\ [][Next]_vars /\ Fairness

------------------------------------------------------------------------------
(* Properties *)

Csns == 0 .. MaxCsn
CsnOrNone == Csns \cup {NoCsn}
ChangeTags == {"ADD", "MODIFY", "DELETE"}

Messages == [tag : Tags, entries : SUBSET Entries, csn : CsnOrNone, cookie : CsnOrNone]

\* The types of the variables; the queue of pending CSNs holds no more than the
\* updates in progress (syncprov.c:1500).
TypeOK ==
  /\ db \in [Entries -> [csn : Csns, place : Places]]
  /\ {clock, ctxcsn, stored, mincsn} \subseteq Csns
  /\ pending \subseteq Csns \cap {wr[w].csn : w \in Writers} /\ marked \subseteq pending
  /\ dirty \in BOOLEAN /\ resp \in Writers \cup {NoWriter}
  /\ slog \subseteq [csn : Csns, entry : Entries, tag : ChangeTags]
  /\ wr \in [Writers ->
       [pc : {"idle", "begun", "ready", "committed", "responding", "answered"},
        entry : Entries, tag : ChangeTags, place : Places, csn : Csns,
        watched : BOOLEAN, matched : SUBSET Consumers, changed : BOOLEAN]]
  /\ \A c \in Consumers :
       /\ srch[c].pc \in {"off", "wait", "start", "log", "pick", "send", "find",
                          "list", "search", "persist"}
       /\ srch[c].ctx \in Csns /\ {srch[c].cookie, srch[c].at} \subseteq CsnOrNone
       /\ srch[c].present \in BOOLEAN /\ srch[c].changed \in BOOLEAN
       /\ srch[c].log \subseteq [csn : Csns, entry : Entries, tag : ChangeTags]
       /\ \A i \in DOMAIN queue[c] : queue[c][i] \in Messages
       /\ \A i \in DOMAIN chan[c] : chan[c][i] \in Messages
       /\ con[c].content \in [Entries -> CsnOrNone] /\ con[c].cookie \in CsnOrNone
       /\ con[c].present \subseteq Entries
       /\ {con[c].refreshDone, con[c].refreshPresent} \subseteq BOOLEAN
  /\ drops \in 0 .. MaxDrops /\ stops \in 0 .. MaxStops

\* A consumer's cookie covers what it holds: every entry last changed no later
\* than the cookie is, at the consumer, as it is at the provider.  A cookie that
\* covers a change the consumer does not have loses that change for good, for
\* the next refresh starts after it (syncprov.c:3270, syncrepl.c:1490).
CookieCovers ==
  \A c \in Consumers, e \in Entries :
    db[e].csn <= con[c].cookie => con[c].content[e] = Visible(e)

\* A consumer removes an entry only when the version it holds is no longer
\* the provider's: no present list, session log or late message makes it drop
\* what it should keep (syncrepl.c:5862, syncprov.c:3320).
OnlyStaleRemoved ==
  [][\A c \in Consumers, e \in Entries :
       con[c].content[e] # NoCsn /\ con'[c].content[e] = NoCsn
         => con[c].content[e] # Visible(e)]_vars

\* A consumer has every entry that it should: one that matches and was last
\* changed no later than the consumer's cookie is there in that version.  The
\* cookie moves with each persistent change, while a refresh, a log playback or
\* a lost connection may have left entries behind (syncprov.c:1010,
\* syncrepl.c:1593).
EntriesCovered ==
  \A c \in Consumers, e \in Entries :
    Matches(e) /\ db[e].csn <= con[c].cookie => con[c].content[e] = db[e].csn

\* The session log has no gap behind sl_mincsn: the last change of an entry, once
\* its update is answered, is in the log unless sl_mincsn covers it; a consumer
\* is served from the log on that promise (syncprov.c:1713, 2006).
Unanswered(csn) == \E w \in Writers : wr[w].csn = csn /\ wr[w].pc # "answered"

LogWhole ==
  \A e \in Entries :
    db[e].csn > mincsn /\ ~Unanswered(db[e].csn) => \E r \in slog : r.csn = db[e].csn

\* Entries arrive: when updates and failures cease and the last change is
\* published in contextCSN, every consumer comes to hold the current version of
\* every entry that matches, for whatever has been lost, repeated or passed over
\* as too old before (syncprov.c:3072, syncrepl.c:1490).
EntriesArrive ==
  \A c \in Consumers :
    <>[](ctxcsn = clock =>
           \A e \in Entries : Matches(e) => con[c].content[e] = db[e].csn)
==============================================================================
