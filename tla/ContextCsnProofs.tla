-------------------------- MODULE ContextCsnProofs --------------------------
(***************************************************************************)
(* Proofs about ContextCsn, for any writers, databases, entries and server *)
(* IDs and without the bounds of the model-checked instances.               *)
(***************************************************************************)
EXTENDS ContextCsn, TLAPS

USE DEF Csn, NoCsn, NoCtx, NoDraft, Goto
-----------------------------------------------------------------------------
(***************************************************************************)
(* Lemmas about the queue.                                                 *)
(***************************************************************************)

\* The queue operations keep a queue a queue, and slap_get_commit_csn returns
\* the CSN of a committed entry of the server ID, or none.
LEMMA EnqueueType ==
  ASSUME NEW q \in Seq(QueueEntry), NEW w \in Writers, NEW c \in Csn
  PROVE  /\ Enqueue(q, w, c) \in Seq(QueueEntry)
         /\ Len(Enqueue(q, w, c)) = Len(q) + 1
         /\ \A i \in 1 .. Len(q) : Enqueue(q, w, c)[i] = q[i]
         /\ Enqueue(q, w, c)[Len(q) + 1] =
              [op |-> w, t |-> c.t, sid |-> c.sid, state |-> "PENDING"]
<1> DEFINE x == [op |-> w, t |-> c.t, sid |-> c.sid, state |-> "PENDING"]
<1>1. x \in QueueEntry
  BY DEF QueueEntry
<1> HIDE DEF x
<1>2. Enqueue(q, w, c) = Append(q, x)
  BY DEF Enqueue, x
<1>3. /\ Append(q, x) \in Seq(QueueEntry) /\ Len(Append(q, x)) = Len(q) + 1
      /\ \A i \in 1 .. Len(q) : Append(q, x)[i] = q[i]
      /\ Append(q, x)[Len(q) + 1] = x
  BY <1>1
<1> QED BY <1>2, <1>3 DEF x

\* Marking entries COMMIT keeps a queue a queue.
LEMMA MarkCommitType ==
  ASSUME NEW q \in Seq(QueueEntry), NEW w \in Writers
  PROVE  /\ MarkCommit(q, w) \in Seq(QueueEntry)
         /\ Len(MarkCommit(q, w)) = Len(q)
         /\ \A i \in 1 .. Len(q) :
              /\ MarkCommit(q, w)[i].op = q[i].op
              /\ MarkCommit(q, w)[i].t = q[i].t
              /\ MarkCommit(q, w)[i].sid = q[i].sid
              /\ MarkCommit(q, w)[i].state =
                   IF q[i].op = w THEN "COMMIT" ELSE q[i].state
<1> DEFINE m == MarkCommit(q, w)
<1>1. Len(q) \in Nat /\ \A i \in 1 .. Len(q) : q[i] \in QueueEntry
  OBVIOUS
<1>2. m \in [1 .. Len(q) -> QueueEntry]
  BY <1>1 DEF MarkCommit, QueueEntry
<1>3. m \in Seq(QueueEntry) /\ Len(m) = Len(q)
  BY <1>1, <1>2
<1>4. \A i \in 1 .. Len(q) :
        m[i] = IF q[i].op = w THEN [q[i] EXCEPT !.state = "COMMIT"] ELSE q[i]
  BY DEF MarkCommit
<1> HIDE DEF m
<1>5. \A i \in 1 .. Len(q) :
        /\ m[i].op = q[i].op /\ m[i].t = q[i].t /\ m[i].sid = q[i].sid
        /\ m[i].state = IF q[i].op = w THEN "COMMIT" ELSE q[i].state
  BY <1>1, <1>4 DEF QueueEntry
<1> QED BY <1>3, <1>5 DEF m

\* slap_get_commit_csn finds nothing, or the CSN of a COMMIT entry of the server ID.
LEMMA CommitCsnValue ==
  ASSUME NEW q \in Seq(QueueEntry), NEW sid \in Sids
  PROVE  \/ CommitCsn(q, sid) = 0
         \/ \E i \in 1 .. Len(q) :
              /\ q[i].sid = sid /\ q[i].state = "COMMIT"
              /\ CommitCsn(q, sid) = q[i].t
<1> DEFINE Last(i) == i \in Passed(q, sid) /\ \A j \in Passed(q, sid) : j <= i
<1>1. CASE \E i \in 1 .. Len(q) : Last(i)
  <2> DEFINE k == CHOOSE i \in 1 .. Len(q) : Last(i)
  <2>1. k \in 1 .. Len(q) /\ Last(k)
    BY <1>1
  <2>2. CommitCsn(q, sid) = q[k].t
    BY <1>1 DEF CommitCsn
  <2> HIDE DEF k
  <2> QED BY <2>1, <2>2 DEF Passed
<1>2. CASE ~ \E i \in 1 .. Len(q) : Last(i)
  BY <1>2 DEF CommitCsn
<1> QED BY <1>1, <1>2

\* So what it returns is a time, or 0.
LEMMA CommitCsnType ==
  ASSUME NEW q \in Seq(QueueEntry), NEW sid \in Sids
  PROVE  CommitCsn(q, sid) \in Nat
<1>1. \A i \in 1 .. Len(q) : q[i] \in QueueEntry
  OBVIOUS
<1>2. \A i \in 1 .. Len(q) : q[i].t \in Nat
  BY <1>1 DEF QueueEntry
<1> QED BY <1>2, CommitCsnValue

\* Graduating leaves a queue, whatever the queue was.
LEMMA GraduatedType ==
  ASSUME NEW q \in Seq(QueueEntry), NEW w \in Writers
  PROVE  Graduated(q, w) \in Seq(QueueEntry)
<1> DEFINE Own(k) == q[k].op = w /\ \A j \in 1 .. k - 1 : q[j].op # w
<1>0. Len(q) \in Nat /\ \A i \in 1 .. Len(q) : q[i] \in QueueEntry
  OBVIOUS
<1>1. CASE \E k \in 1 .. Len(q) : Own(k)
  <2> DEFINE k == CHOOSE i \in 1 .. Len(q) : Own(i)
             g == [i \in 1 .. Len(q) - 1 |-> IF i < k THEN q[i] ELSE q[i + 1]]
  <2>1. k \in 1 .. Len(q) /\ Graduated(q, w) = g
    BY <1>1 DEF Graduated
  <2> HIDE DEF k
  <2>2. Len(q) - 1 \in Nat /\ g \in [1 .. Len(q) - 1 -> QueueEntry]
    BY <1>0, <2>1
  <2>3. g \in Seq(QueueEntry)
    BY <2>2
  <2> QED BY <2>1, <2>3
<1>2. CASE ~ \E k \in 1 .. Len(q) : Own(k)
  BY <1>2 DEF Graduated
<1> QED BY <1>1, <1>2

\* If each writer has at most one entry, graduating one removes exactly its own.
LEMMA GraduatedEffect ==
  ASSUME NEW q \in Seq(QueueEntry), NEW w \in Writers,
         \A i, j \in 1 .. Len(q) : q[i].op = q[j].op => i = j
  PROVE  /\ Graduated(q, w) \in Seq(QueueEntry)
         /\ \A i, j \in 1 .. Len(Graduated(q, w)) :
              Graduated(q, w)[i].op = Graduated(q, w)[j].op => i = j
         /\ \A x : (\E i \in 1 .. Len(Graduated(q, w)) : Graduated(q, w)[i] = x)
                     <=> (\E i \in 1 .. Len(q) : q[i] = x /\ q[i].op # w)
<1> DEFINE Own(k) == q[k].op = w /\ \A j \in 1 .. k - 1 : q[j].op # w
<1>0. Len(q) \in Nat /\ \A i \in 1 .. Len(q) : q[i] \in QueueEntry
  OBVIOUS
<1>1. CASE \E k \in 1 .. Len(q) : Own(k)
  <2> DEFINE k == CHOOSE i \in 1 .. Len(q) : Own(i)
             g == [i \in 1 .. Len(q) - 1 |-> IF i < k THEN q[i] ELSE q[i + 1]]
  <2>1. k \in 1 .. Len(q) /\ q[k].op = w
    BY <1>1
  <2>2. Graduated(q, w) = g
    BY <1>1 DEF Graduated
  <2> HIDE DEF k
  <2>3. Len(q) - 1 \in Nat /\ g \in [1 .. Len(q) - 1 -> QueueEntry]
    BY <1>0, <2>1
  <2>4. g \in Seq(QueueEntry) /\ Len(g) = Len(q) - 1
    BY <2>3
  <2>5. \A i \in 1 .. Len(q) - 1 : g[i] = IF i < k THEN q[i] ELSE q[i + 1]
    OBVIOUS
  <2> HIDE DEF g
  <2>6. \A i, j \in 1 .. Len(g) : g[i].op = g[j].op => i = j
    BY <1>0, <2>1, <2>4, <2>5
  <2>7. ASSUME NEW i \in 1 .. Len(g)
        PROVE  \E j \in 1 .. Len(q) : q[j] = g[i] /\ q[j].op # w
    <3>1. CASE i < k
      <4>1. g[i] = q[i] /\ i \in 1 .. Len(q) /\ i # k
        BY <3>1, <1>0, <2>1, <2>4, <2>5
      <4>2. q[i].op # w
        BY <4>1, <2>1
      <4> QED BY <4>1, <4>2
    <3>2. CASE ~(i < k)
      <4>1. g[i] = q[i + 1] /\ i + 1 \in 1 .. Len(q) /\ i + 1 # k
        BY <3>2, <1>0, <2>1, <2>4, <2>5
      <4>2. q[i + 1].op # w
        BY <4>1, <2>1
      <4> QED BY <4>1, <4>2
    <3> QED BY <3>1, <3>2
  <2>8. ASSUME NEW j \in 1 .. Len(q), q[j].op # w
        PROVE  \E i \in 1 .. Len(g) : g[i] = q[j]
    <3>1. CASE j < k
      BY <3>1, <1>0, <2>1, <2>4, <2>5
    <3>2. CASE ~(j < k)
      <4>1. j - 1 \in 1 .. Len(g) /\ ~(j - 1 < k)
        BY <3>2, <2>8, <1>0, <2>1, <2>4
      <4>2. g[j - 1] = q[j - 1 + 1] /\ j - 1 + 1 = j
        BY <4>1, <1>0, <2>4, <2>5
      <4> QED BY <4>1, <4>2
    <3> QED BY <3>1, <3>2
  <2>9. \A x : (\E i \in 1 .. Len(g) : g[i] = x)
                <=> (\E i \in 1 .. Len(q) : q[i] = x /\ q[i].op # w)
    <3>1. \A i \in 1 .. Len(g) : \E j \in 1 .. Len(q) : q[j] = g[i] /\ q[j].op # w
      BY <2>7
    <3>2. \A j \in 1 .. Len(q) : q[j].op # w => \E i \in 1 .. Len(g) : g[i] = q[j]
      BY <2>8
    <3> HIDE <2>5
    <3> QED BY ONLY <3>1, <3>2
  <2> QED BY ONLY <2>2, <2>4, <2>6, <2>9
<1>2. CASE ~ \E k \in 1 .. Len(q) : Own(k)
  <2>1. Graduated(q, w) = q
    BY <1>2 DEF Graduated
  <2>2. ASSUME NEW i \in 1 .. Len(q), q[i].op = w PROVE FALSE
    <3>1. \A j \in 1 .. i - 1 : q[j].op # w
      BY <2>2, <1>0
    <3> QED BY <3>1, <2>2, <1>2
  <2> QED BY <2>1, <2>2
<1> QED BY <1>1, <1>2

-----------------------------------------------------------------------------
(***************************************************************************)
(* Type correctness.                                                       *)
(***************************************************************************)

\* Csn values are made of a Nat and a server ID, and the empty ones are typed.
LEMMA EmptyValuesType ==
  /\ NoCsn \in Csn /\ NoDraft \in [Entries -> Csn] /\ NoCtx \in [Sids -> Nat]
BY SidsAssumption

\* Counting a checkpoint keeps si_numops a natural number.
LEMMA NumopsLeftType == ASSUME NEW n \in Nat PROVE NumopsLeft(n) \in Nat
BY DEF NumopsLeft

\* The types hold at first, and startup, shutdown, a crash keep them.
LEMMA InitType == Init => TypeOK
<1> SUFFICES ASSUME Init PROVE TypeOK
  OBVIOUS
<1> USE EmptyValuesType, WritersAssumption, DbAssumption, SidsAssumption DEF Init
<1> HIDE DEF Csn, NoCsn, NoDraft, NoCtx
<1>1. up \in BOOLEAN /\ clock \in Nat /\ clean \in BOOLEAN /\ stops \in Nat
  OBVIOUS
<1>2. /\ pc \in [Writers -> Pc] /\ db \in [Writers -> DBs]
      /\ kind \in [Writers -> {"add", "modify", "delete"}]
      /\ csn \in [Writers -> Csn]
  BY DEF Pc
<1>3. ent \in [Writers -> Entries]
  <2>1. (CHOOSE e \in Entries : TRUE) \in Entries
    BY DbAssumption
  <2> QED BY <2>1
<1>4. queue \in Seq(QueueEntry) /\ wlock \in [DBs -> Writers \cup {NoWriter}]
  OBVIOUS
<1>5. /\ store \in [Entries -> Csn] /\ stored \in [Sids -> Nat]
      /\ draft \in [Writers -> [Entries -> Csn]]
      /\ draftCtx \in [Writers -> [Sids -> Nat]]
      /\ made \in [Writers -> SUBSET Csn]
  OBVIOUS
<1>6. /\ ctxcsn \in [Sids -> Nat] /\ numops \in Nat /\ dirty \in BOOLEAN
      /\ resp \in Writers \cup {NoWriter} /\ history \in SUBSET Csn
  OBVIOUS
<1> QED BY <1>1, <1>2, <1>3, <1>4, <1>5, <1>6 DEF TypeOK

\* Dropping the writer lock keeps the types of what it touches.
LEMMA DropLockType ==
  ASSUME TypeOK, NEW w \in Writers, DropLock(w)
  PROVE  /\ wlock' \in [DBs -> Writers \cup {NoWriter}]
         /\ draft' \in [Writers -> [Entries -> Csn]]
         /\ draftCtx' \in [Writers -> [Sids -> Nat]]
         /\ made' \in [Writers -> SUBSET Csn]
<1> HIDE DEF Csn, NoCsn, NoDraft, NoCtx
<1> QED BY EmptyValuesType DEF TypeOK, DropLock

\* Startup: contextCSN comes from the database or is made.
LEMMA OpenType == ASSUME TypeOK, Open PROVE TypeOK'
<1> USE DEF Open
<1>1. clock' \in Nat /\ history' \in SUBSET Csn
  <2>1. CASE stored = NoCtx
    <3>1. [t |-> clock + 1, sid |-> LocalSid] \in Csn
      BY SidsAssumption DEF TypeOK
    <3> HIDE DEF Csn, NoCtx
    <3> QED BY <2>1, <3>1 DEF TypeOK
  <2>2. CASE stored # NoCtx
    <3> HIDE DEF Csn, NoCtx
    <3> QED BY <2>2 DEF TypeOK
  <2> QED BY <2>1, <2>2
<1>2. ctxcsn' \in [Sids -> Nat]
  <2>1. CASE stored = NoCtx
    <3> HIDE DEF Csn, NoCtx
    <3>1. clock + 1 \in Nat
      BY DEF TypeOK
    <3>2. [NoCtx EXCEPT ![LocalSid] = clock + 1] \in [Sids -> Nat]
      BY <3>1, EmptyValuesType
    <3>3. ctxcsn' = [NoCtx EXCEPT ![LocalSid] = clock + 1]
      BY <2>1
    <3> QED BY <3>2, <3>3
  <2>2. CASE stored # NoCtx
    BY <2>2 DEF TypeOK
  <2> QED BY <2>1, <2>2
<1>3. numops' \in Nat
  BY DEF TypeOK
<1> HIDE DEF Csn, NoCsn, NoDraft, NoCtx
<1> QED BY <1>1, <1>2, <1>3
     DEF TypeOK, writerVars, diskVars, draftVars

\* Shutdown: what is in memory is gone; contextCSN may have been stored.
LEMMA CloseType == ASSUME TypeOK, Close PROVE TypeOK'
<1> HIDE DEF Csn, NoCsn, NoDraft, NoCtx
<1>1. stored' \in [Sids -> Nat]
  BY DEF Close, TypeOK
<1>2. /\ up' \in BOOLEAN /\ clean' \in BOOLEAN
      /\ ctxcsn' \in [Sids -> Nat] /\ numops' \in Nat /\ dirty' \in BOOLEAN
  BY EmptyValuesType DEF Close
<1>4. stops' \in Nat
  BY DEF Close, TypeOK
<1>3. UNCHANGED <<clock, pc, db, ent, kind, csn, queue, wlock, store, draft,
                  draftCtx, made, resp, history>>
  BY DEF Close, writerVars, draftVars
<1> QED BY <1>1, <1>2, <1>3, <1>4 DEF TypeOK

\* A crash: nothing of the memory is left, the database stays as committed.
LEMMA CrashType == ASSUME TypeOK, Crash PROVE TypeOK'
<1> HIDE DEF Csn, NoCsn, NoDraft, NoCtx
<1>1. /\ up' \in BOOLEAN /\ clean' \in BOOLEAN
      /\ pc' \in [Writers -> Pc] /\ csn' \in [Writers -> Csn]
      /\ wlock' \in [DBs -> Writers \cup {NoWriter}]
  BY EmptyValuesType DEF Crash, Pc
<1>3. stops' \in Nat
  BY DEF Crash, TypeOK
<1>0. queue' \in Seq(QueueEntry)
  BY DEF Crash
<1>2. /\ draft' \in [Writers -> [Entries -> Csn]]
      /\ draftCtx' \in [Writers -> [Sids -> Nat]]
      /\ made' \in [Writers -> SUBSET Csn]
      /\ ctxcsn' \in [Sids -> Nat] /\ numops' \in Nat /\ dirty' \in BOOLEAN
      /\ resp' \in Writers \cup {NoWriter}
  BY EmptyValuesType DEF Crash
<1> QED BY <1>0, <1>1, <1>2, <1>3 DEF Crash, TypeOK, diskVars

\* Each step of a writer keeps the types.
LEMMA WriterType ==
  ASSUME TypeOK, NEW w \in Writers, Begin(w) \/ Step(w)
  PROVE  TypeOK'
<1> USE DEF Pc
<1> HIDE DEF Csn, NoCsn, NoDraft, NoCtx
<1>1. CASE Begin(w)
  BY <1>1 DEF Begin, TakeLock, TypeOK, diskVars, provVars
<1>2. CASE IssueCsn(w)
  <2>1. PICK k \in Kinds, e \in Entries, s \in Sids :
          /\ kind' = [kind EXCEPT ![w] = k]
          /\ ent' = [ent EXCEPT ![w] = e]
          /\ csn' = [csn EXCEPT ![w] = [t |-> clock + 1, sid |-> s]]
    BY <1>2 DEF IssueCsn
  <2>2. [t |-> clock + 1, sid |-> s] \in Csn /\ clock' \in Nat
    BY <1>2 DEF Csn, TypeOK, IssueCsn
  <2>3. /\ kind' \in [Writers -> {"add", "modify", "delete"}]
        /\ ent' \in [Writers -> Entries] /\ csn' \in [Writers -> Csn]
    BY <2>1, <2>2, KindsAssumption DEF TypeOK
  <2> QED BY <1>2, <2>2, <2>3 DEF IssueCsn, TypeOK, diskVars, draftVars, provVars
<1>3. CASE QueueCsn(w)
  <2>1. queue' \in Seq(QueueEntry)
    BY <1>3, EnqueueType DEF QueueCsn, TypeOK
  <2> QED BY <1>3, <2>1 DEF QueueCsn, TypeOK, diskVars, draftVars, provVars
<1>4. CASE Commit(w)
  <2>1. store' \in [Entries -> Csn] /\ history' \in SUBSET Csn
    BY <1>4, EmptyValuesType DEF Commit, Outcome, TypeOK
  <2> QED BY <1>4, <2>1, DropLockType DEF Commit, TypeOK, provVars
<1>5. CASE ApplyInTxn(w)
  <2>1. /\ draft' \in [Writers -> [Entries -> Csn]]
        /\ made' \in [Writers -> SUBSET Csn]
    BY <1>5, EmptyValuesType DEF ApplyInTxn, Outcome, TypeOK
  <2> QED BY <1>5, <2>1 DEF ApplyInTxn, TypeOK, diskVars, provVars
<1>6. CASE Fail(w)
  <2>1. /\ wlock' \in [DBs -> Writers \cup {NoWriter}]
        /\ draft' \in [Writers -> [Entries -> Csn]]
        /\ draftCtx' \in [Writers -> [Sids -> Nat]]
        /\ made' \in [Writers -> SUBSET Csn]
        /\ pc' \in [Writers -> Pc]
    BY <1>6, DropLockType DEF Fail, TypeOK, draftVars
  <2> QED BY <1>6, <2>1 DEF Fail, TypeOK, diskVars, provVars
<1>7. CASE CommitFails(w)
  BY <1>7, DropLockType DEF CommitFails, TypeOK, diskVars, provVars
<1>8. CASE Respond(w)
  <2>1. queue' \in Seq(QueueEntry)
    BY <1>8, MarkCommitType DEF Respond, TypeOK
  <2>2. csn[w].sid \in Sids
    BY DEF TypeOK, Csn
  <2>3. CommitCsn(queue', csn[w].sid) \in Nat
    BY <2>1, <2>2, CommitCsnType
  <2>4. ctxcsn' \in [Sids -> Nat] /\ dirty' \in BOOLEAN
    BY <1>8, <2>2, <2>3 DEF Respond, TypeOK
  <2>5. numops' \in Nat
    BY <1>8, NumopsLeftType DEF Respond, TypeOK
  <2>6. resp' \in Writers \cup {NoWriter} /\ pc' \in [Writers -> Pc]
    BY <1>8 DEF Respond, TypeOK
  <2> QED BY <1>8, <2>1, <2>4, <2>5, <2>6 DEF Respond, TypeOK, diskVars, draftVars
<1>9. CASE Checkpoint(w)
  <2>1. stored' \in [Sids -> Nat] /\ draftCtx' \in [Writers -> [Sids -> Nat]]
    BY <1>9 DEF Checkpoint, TypeOK
  <2> QED BY <1>9, <2>1 DEF Checkpoint, TypeOK
<1>10. CASE Graduate(w)
  <2>1. queue' \in Seq(QueueEntry)
    BY <1>10, GraduatedType DEF Graduate, TypeOK
  <2>2. pc' \in [Writers -> Pc] /\ csn' \in [Writers -> Csn]
    BY <1>10, EmptyValuesType DEF Graduate, TypeOK
  <2> QED BY <1>10, <2>1, <2>2 DEF Graduate, TypeOK, diskVars, draftVars, provVars
<1>11. CASE Abort(w)
  <2>1. pc' \in [Writers -> Pc]
    BY <1>11 DEF Abort, TypeOK
  <2> QED BY <1>11, <2>1, DropLockType DEF Abort, TypeOK, diskVars, provVars
<1>12. CASE EndTxn(w)
  <2>1. store' \in [Entries -> Csn] /\ stored' \in [Sids -> Nat]
    BY <1>12 DEF EndTxn, TypeOK
  <2>2. history' \in SUBSET Csn
    BY <1>12 DEF EndTxn, TypeOK
  <2> QED BY <1>12, <2>1, <2>2, DropLockType DEF EndTxn, TypeOK, provVars
<1> QED
  BY <1>1, <1>2, <1>3, <1>4, <1>5, <1>6, <1>7, <1>8, <1>9, <1>10, <1>11, <1>12
     DEF Step

\* The variables keep their types, whatever the number of writers, databases,
\* entries and server IDs.
THEOREM TypeCorrect == Spec => []TypeOK
<1>1. TypeOK /\ [Next]_vars => TypeOK'
  <2> SUFFICES ASSUME TypeOK, [Next]_vars PROVE TypeOK'
    OBVIOUS
  <2>1. CASE Next
    BY <2>1, OpenType, CloseType, CrashType, WriterType DEF Next
  <2>2. CASE UNCHANGED vars
    <3> HIDE DEF Csn, NoCsn, NoDraft, NoCtx
    <3> QED BY <2>2 DEF vars, TypeOK
  <2> QED BY <2>1, <2>2
<1> QED BY InitType, <1>1, PTL DEF Spec

-----------------------------------------------------------------------------
(***************************************************************************)
(* The queue and the updates under way.                                    *)
(***************************************************************************)

\* A step that leaves the queue alone, and moves no update into or out of the
\* states in which it has an entry, preserves the correspondence.
LEMMA QueueUntouched ==
  ASSUME TypeOK, QueueMatchesUpdates, queue' = queue,
         \A w \in Writers : pc[w] \in HoldsEntry => csn'[w] = csn[w],
         \A w \in Writers :
           /\ pc'[w] \in HoldsEntry <=> pc[w] \in HoldsEntry
           /\ pc'[w] \in {"ckpt", "answered"} <=> pc[w] \in {"ckpt", "answered"}
  PROVE  QueueMatchesUpdates'
<1>1. \A i \in 1 .. Len(queue) : queue[i].op \in Writers /\ pc[queue[i].op] \in HoldsEntry
  BY DEF QueueMatchesUpdates
<1>2. {w \in Writers : pc'[w] \in HoldsEntry} = {w \in Writers : pc[w] \in HoldsEntry}
  OBVIOUS
<1>3. ASSUME NEW i \in 1 .. Len(queue)
      PROVE  /\ csn'[queue[i].op] = [t |-> queue[i].t, sid |-> queue[i].sid]
             /\ queue[i].state = "COMMIT" <=> pc'[queue[i].op] \in {"ckpt", "answered"}
  <2>1. /\ csn[queue[i].op] = [t |-> queue[i].t, sid |-> queue[i].sid]
        /\ queue[i].state = "COMMIT" <=> pc[queue[i].op] \in {"ckpt", "answered"}
    BY DEF QueueMatchesUpdates
  <2> QED BY <1>1, <2>1
<1> HIDE DEF HoldsEntry
<1> QED BY <1>2, <1>3 DEF QueueMatchesUpdates

\* The writers with an entry, in terms of the entries.
LEMMA QueueMembers ==
  ASSUME TypeOK, QueueMatchesUpdates
  PROVE  /\ Len(queue) \in Nat
         /\ \A i \in 1 .. Len(queue) : queue[i] \in QueueEntry
         /\ \A i \in 1 .. Len(queue) : pc[queue[i].op] \in HoldsEntry
         /\ \A w \in Writers : pc[w] \in HoldsEntry =>
              \E i \in 1 .. Len(queue) : queue[i].op = w
<1>1. Len(queue) \in Nat /\ \A i \in 1 .. Len(queue) : queue[i] \in QueueEntry
  BY DEF TypeOK
<1> QED BY <1>1 DEF QueueMatchesUpdates

\* slap_queue_csn appends an entry, of the update that is now queued.
LEMMA QueueCsnMatches ==
  ASSUME TypeOK, QueueMatchesUpdates, NEW w \in Writers, QueueCsn(w)
  PROVE  QueueMatchesUpdates'
<1> DEFINE n == Len(queue)
<1>1. /\ queue' \in Seq(QueueEntry) /\ Len(queue') = n + 1 /\ n \in Nat
      /\ \A i \in 1 .. n : queue'[i] = queue[i]
      /\ queue'[n + 1] =
           [op |-> w, t |-> csn[w].t, sid |-> csn[w].sid, state |-> "PENDING"]
  <2>1. csn[w] \in Csn /\ queue \in Seq(QueueEntry)
    BY DEF TypeOK
  <2>2. queue' = Enqueue(queue, w, csn[w]) /\ n \in Nat
    BY <2>1 DEF QueueCsn
  <2> HIDE DEF Csn
  <2> QED BY <2>1, <2>2, EnqueueType
<1>2. /\ pc[w] = "issued" /\ pc' = [pc EXCEPT ![w] = "queued"] /\ csn' = csn
      /\ pc \in [Writers -> Pc] /\ csn[w] = [t |-> csn[w].t, sid |-> csn[w].sid]
  BY DEF QueueCsn, TypeOK
<1>3. \A i \in 1 .. n : queue[i].op \in Writers \ {w}
  BY <1>2, QueueMembers DEF HoldsEntry, QueueEntry
<1> HIDE DEF n
<1>4. \A i \in 1 .. n + 1 : i \in 1 .. n \/ i = n + 1
  BY <1>1
<1>5. queue'[n + 1].op = w /\ queue'[n + 1].state = "PENDING"
      /\ queue'[n + 1].t = csn[w].t /\ queue'[n + 1].sid = csn[w].sid
  BY <1>1
<1>6. \A i, j \in 1 .. n + 1 : queue'[i].op = queue'[j].op => i = j
  <2>1. \A i, j \in 1 .. n : queue[i].op = queue[j].op => i = j
    BY DEF QueueMatchesUpdates, n
  <2> QED BY <2>1, <1>1, <1>3, <1>4, <1>5
<1>7. {queue'[i].op : i \in 1 .. n + 1} = {v \in Writers : pc'[v] \in HoldsEntry}
  <2>1. {queue[i].op : i \in 1 .. n} = {v \in Writers : pc[v] \in HoldsEntry}
    BY DEF QueueMatchesUpdates, n
  <2>2. {v \in Writers : pc'[v] \in HoldsEntry}
          = {v \in Writers : pc[v] \in HoldsEntry} \cup {w}
    BY <1>2 DEF HoldsEntry
  <2>3. {queue'[i].op : i \in 1 .. n + 1} = {queue[i].op : i \in 1 .. n} \cup {w}
    BY <1>1, <1>4, <1>5
  <2> QED BY <2>1, <2>2, <2>3
<1>8. ASSUME NEW i \in 1 .. n + 1
      PROVE  /\ csn'[queue'[i].op] = [t |-> queue'[i].t, sid |-> queue'[i].sid]
             /\ queue'[i].state = "COMMIT" <=> pc'[queue'[i].op] \in {"ckpt", "answered"}
  <2>1. CASE i \in 1 .. n
    <3>1. /\ csn[queue[i].op] = [t |-> queue[i].t, sid |-> queue[i].sid]
          /\ queue[i].state = "COMMIT" <=> pc[queue[i].op] \in {"ckpt", "answered"}
      BY <2>1 DEF QueueMatchesUpdates, n
    <3> QED BY <2>1, <3>1, <1>1, <1>2, <1>3
  <2>2. CASE i = n + 1
    BY <2>2, <1>2, <1>5
  <2> QED BY <1>4, <2>1, <2>2
<1> HIDE DEF HoldsEntry
<1> QED BY <1>1, <1>6, <1>7, <1>8 DEF QueueMatchesUpdates

\* A response marks entries and moves none.
LEMMA RespondMatches ==
  ASSUME TypeOK, QueueMatchesUpdates, NEW w \in Writers, Respond(w)
  PROVE  QueueMatchesUpdates'
<1>1. /\ Len(queue') = Len(queue)
      /\ \A i \in 1 .. Len(queue) :
           /\ queue'[i].op = queue[i].op /\ queue'[i].t = queue[i].t
           /\ queue'[i].sid = queue[i].sid
           /\ queue'[i].state =
                IF queue[i].op = w THEN "COMMIT" ELSE queue[i].state
  BY MarkCommitType DEF Respond, TypeOK
<1>2. /\ pc[w] = "done" /\ csn' = csn /\ pc \in [Writers -> Pc]
      /\ \/ pc' = [pc EXCEPT ![w] = "ckpt"]
         \/ pc' = [pc EXCEPT ![w] = "answered"]
  BY DEF Respond, TypeOK
<1>3. {v \in Writers : pc'[v] \in HoldsEntry} = {v \in Writers : pc[v] \in HoldsEntry}
  BY <1>2 DEF HoldsEntry
<1>4. {queue'[i].op : i \in 1 .. Len(queue)} = {queue[i].op : i \in 1 .. Len(queue)}
  BY <1>1
<1>5. ASSUME NEW i \in 1 .. Len(queue)
      PROVE  /\ csn'[queue'[i].op] = [t |-> queue'[i].t, sid |-> queue'[i].sid]
             /\ queue'[i].state = "COMMIT" <=> pc'[queue'[i].op] \in {"ckpt", "answered"}
  <2>1. /\ csn[queue[i].op] = [t |-> queue[i].t, sid |-> queue[i].sid]
        /\ queue[i].state = "COMMIT" <=> pc[queue[i].op] \in {"ckpt", "answered"}
        /\ queue[i].op \in Writers
    BY QueueMembers DEF QueueMatchesUpdates, QueueEntry
  <2>2. CASE queue[i].op = w
    BY <2>1, <2>2, <1>1, <1>2
  <2>3. CASE queue[i].op # w
    BY <2>1, <2>3, <1>1, <1>2
  <2> QED BY <2>2, <2>3
<1> HIDE DEF HoldsEntry
<1> QED BY <1>1, <1>3, <1>4, <1>5 DEF QueueMatchesUpdates

\* slap_graduate_commit_csn removes the entry of the update that ends.
LEMMA GraduateMatches ==
  ASSUME TypeOK, QueueMatchesUpdates, NEW w \in Writers, Graduate(w)
  PROVE  QueueMatchesUpdates'
<1> DEFINE g == Graduated(queue, w)
<1>1. /\ g \in Seq(QueueEntry)
      /\ \A i, j \in 1 .. Len(g) : g[i].op = g[j].op => i = j
      /\ \A x : (\E i \in 1 .. Len(g) : g[i] = x)
                  <=> (\E i \in 1 .. Len(queue) : queue[i] = x /\ queue[i].op # w)
  <2>1. queue \in Seq(QueueEntry)
    BY DEF TypeOK
  <2>2. \A i, j \in 1 .. Len(queue) : queue[i].op = queue[j].op => i = j
    BY DEF QueueMatchesUpdates
  <2> QED BY <2>1, <2>2, GraduatedEffect
<1>2. /\ queue' = g /\ pc \in [Writers -> Pc] /\ csn \in [Writers -> Csn]
      /\ csn' = [csn EXCEPT ![w] = NoCsn]
      /\ pc[w] \in HoldsEntry /\ pc'[w] \notin HoldsEntry
      /\ \A v \in Writers \ {w} : pc'[v] = pc[v]
  BY DEF Graduate, TypeOK, HoldsEntry
<1> HIDE DEF g
<1>3. \A i \in 1 .. Len(g) : \E j \in 1 .. Len(queue) : queue[j] = g[i] /\ queue[j].op # w
  BY <1>1
<1>4. \A j \in 1 .. Len(queue) : queue[j].op # w => \E i \in 1 .. Len(g) : g[i] = queue[j]
  BY <1>1
<1>5. {g[i].op : i \in 1 .. Len(g)} = {v \in Writers : pc'[v] \in HoldsEntry}
  <2>1. ASSUME NEW i \in 1 .. Len(g)
        PROVE  g[i].op \in Writers /\ pc'[g[i].op] \in HoldsEntry
    <3>1. PICK j \in 1 .. Len(queue) : queue[j] = g[i] /\ queue[j].op # w
      BY <1>3
    <3>2. queue[j].op \in Writers /\ pc[queue[j].op] \in HoldsEntry
      BY QueueMembers DEF QueueEntry
    <3> HIDE DEF HoldsEntry
    <3> QED BY <3>1, <3>2, <1>2
  <2>2. ASSUME NEW v \in Writers, pc'[v] \in HoldsEntry
        PROVE  \E i \in 1 .. Len(g) : g[i].op = v
    <3>1. v # w /\ pc[v] \in HoldsEntry
      BY <2>2, <1>2
    <3>2. PICK j \in 1 .. Len(queue) : queue[j].op = v
      BY <3>1, QueueMembers
    <3> QED BY <3>1, <3>2, <1>4
  <2> HIDE DEF HoldsEntry
  <2> QED BY <2>1, <2>2
<1>6. ASSUME NEW i \in 1 .. Len(g)
      PROVE  /\ csn'[g[i].op] = [t |-> g[i].t, sid |-> g[i].sid]
             /\ g[i].state = "COMMIT" <=> pc'[g[i].op] \in {"ckpt", "answered"}
  <2>1. PICK j \in 1 .. Len(queue) : queue[j] = g[i] /\ queue[j].op # w
    BY <1>3
  <2>2. /\ csn[queue[j].op] = [t |-> queue[j].t, sid |-> queue[j].sid]
        /\ queue[j].state = "COMMIT" <=> pc[queue[j].op] \in {"ckpt", "answered"}
        /\ queue[j].op \in Writers
    BY QueueMembers DEF QueueMatchesUpdates, QueueEntry
  <2>3. csn'[queue[j].op] = csn[queue[j].op] /\ pc'[queue[j].op] = pc[queue[j].op]
    BY <2>1, <2>2, <1>2
  <2> QED BY <2>1, <2>2, <2>3
<1> HIDE DEF HoldsEntry
<1> QED BY <1>1, <1>2, <1>5, <1>6 DEF QueueMatchesUpdates

\* slap_get_csn and slap_graduate_commit_csn keep the queue of pending CSNs in
\* step with the updates: no entry is left behind on any path an update can
\* take, a refusal, a failed commit or a rolled back LDAP transaction included.
THEOREM QueueMatches == Spec => []QueueMatchesUpdates
<1>1. Init => QueueMatchesUpdates
  BY DEF Init, QueueMatchesUpdates, HoldsEntry
<1>2. TypeOK /\ QueueMatchesUpdates /\ [Next]_vars => QueueMatchesUpdates'
  <2> SUFFICES ASSUME TypeOK, QueueMatchesUpdates, [Next]_vars
               PROVE  QueueMatchesUpdates'
    OBVIOUS
  <2> USE DEF HoldsEntry
  <2>0. pc \in [Writers -> Pc] /\ csn \in [Writers -> Csn]
    BY DEF TypeOK
  <2>1. CASE Open
    BY <2>1, QueueUntouched DEF Open, writerVars
  <2>2. CASE Close
    BY <2>2, QueueUntouched DEF Close, writerVars
  <2>3. CASE Crash
    BY <2>3 DEF Crash, QueueMatchesUpdates
  <2>4. ASSUME NEW w \in Writers, Begin(w) PROVE QueueMatchesUpdates'
    BY <2>0, <2>4, QueueUntouched DEF Begin
  <2>5. ASSUME NEW w \in Writers, IssueCsn(w) PROVE QueueMatchesUpdates'
    <3>1. pc[w] \in {"begun", "next"} /\ pc' = [pc EXCEPT ![w] = "issued"]
      BY <2>5 DEF IssueCsn
    <3>2. \A v \in Writers \ {w} : csn'[v] = csn[v]
      BY <2>0, <2>5 DEF IssueCsn
    <3> QED BY <2>0, <2>5, <3>1, <3>2, QueueUntouched DEF IssueCsn
  <2>6. ASSUME NEW w \in Writers, QueueCsn(w) PROVE QueueMatchesUpdates'
    BY <2>6, QueueCsnMatches
  <2>7. ASSUME NEW w \in Writers, Commit(w) PROVE QueueMatchesUpdates'
    BY <2>0, <2>7, QueueUntouched DEF Commit
  <2>8. ASSUME NEW w \in Writers, ApplyInTxn(w) PROVE QueueMatchesUpdates'
    BY <2>0, <2>8, QueueUntouched DEF ApplyInTxn
  <2>9. ASSUME NEW w \in Writers, Fail(w) PROVE QueueMatchesUpdates'
    BY <2>0, <2>9, QueueUntouched DEF Fail
  <2>10. ASSUME NEW w \in Writers, CommitFails(w) PROVE QueueMatchesUpdates'
    BY <2>0, <2>10, QueueUntouched DEF CommitFails
  <2>11. ASSUME NEW w \in Writers, Respond(w) PROVE QueueMatchesUpdates'
    BY <2>11, RespondMatches
  <2>12. ASSUME NEW w \in Writers, Checkpoint(w) PROVE QueueMatchesUpdates'
    BY <2>0, <2>12, QueueUntouched DEF Checkpoint
  <2>13. ASSUME NEW w \in Writers, Graduate(w) PROVE QueueMatchesUpdates'
    BY <2>13, GraduateMatches
  <2>14. ASSUME NEW w \in Writers, Abort(w) PROVE QueueMatchesUpdates'
    BY <2>0, <2>14, QueueUntouched DEF Abort
  <2>15. ASSUME NEW w \in Writers, EndTxn(w) PROVE QueueMatchesUpdates'
    BY <2>0, <2>15, QueueUntouched DEF EndTxn
  <2>16. CASE UNCHANGED vars
    BY <2>16, QueueUntouched DEF vars
  <2> QED
    BY <2>1, <2>2, <2>3, <2>4, <2>5, <2>6, <2>7, <2>8, <2>9, <2>10, <2>11, <2>12,
       <2>13, <2>14, <2>15, <2>16 DEF Next, Step
<1> QED BY <1>1, <1>2, TypeCorrect, PTL DEF Spec

-----------------------------------------------------------------------------
(***************************************************************************)
(* What contextCSN covers, when no LDAP transactions are in use.           *)
(***************************************************************************)

\* Where a writer that performs no LDAP transaction can be.
PlainUpdates ==
  \A w \in Writers : pc[w] \notin {"next", "rollback"} /\ made[w] = {}

\* Without LDAP transactions, updates stay plain.
LEMMA PlainUpdatesKept ==
  ASSUME TxnWriters = {}, TypeOK, PlainUpdates, [Next]_vars
  PROVE  PlainUpdates'
<1>0. pc \in [Writers -> Pc] /\ made \in [Writers -> SUBSET Csn]
  BY DEF TypeOK
<1> USE DEF PlainUpdates
<1>1. CASE Open \/ Close
  BY <1>1 DEF Open, Close, writerVars, draftVars
<1>2. CASE Crash
  BY <1>2 DEF Crash
<1>3. ASSUME NEW w \in Writers, Begin(w) PROVE PlainUpdates'
  BY <1>0, <1>3 DEF Begin, TakeLock
<1>4. ASSUME NEW w \in Writers, IssueCsn(w) \/ QueueCsn(w) PROVE PlainUpdates'
  BY <1>0, <1>4 DEF IssueCsn, QueueCsn, draftVars
<1>5. ASSUME NEW w \in Writers, Commit(w) \/ Fail(w) \/ CommitFails(w)
      PROVE PlainUpdates'
  BY <1>0, <1>5 DEF Commit, Fail, CommitFails, DropLock, draftVars
<1>6. ASSUME NEW w \in Writers, ApplyInTxn(w) \/ EndTxn(w) PROVE PlainUpdates'
  BY <1>6 DEF ApplyInTxn, EndTxn
<1>7. ASSUME NEW w \in Writers, Respond(w) PROVE PlainUpdates'
  BY <1>0, <1>7 DEF Respond, draftVars
<1>8. ASSUME NEW w \in Writers, Checkpoint(w) PROVE PlainUpdates'
  BY <1>0, <1>8 DEF Checkpoint
<1>9. ASSUME NEW w \in Writers, Graduate(w) \/ Abort(w) PROVE PlainUpdates'
  BY <1>0, <1>9 DEF Graduate, Abort, DropLock, draftVars
<1>10. CASE UNCHANGED vars
  BY <1>10 DEF vars
<1> QED
  BY <1>1, <1>2, <1>3, <1>4, <1>5, <1>6, <1>7, <1>8, <1>9, <1>10 DEF Next, Step

\* A value contextCSN may have: none, the one the database was first opened
\* with, or the CSN of a committed update.
Covered(s, t) == t \in {0, InitCtx[s]} \/ [t |-> t, sid |-> s] \in history

\* The inductive invariant behind CoversCommitted: updates that have answered
\* are committed, and so is what the stored contextCSN and the entryCSNs name.
CommittedInv ==
  /\ \A w \in Writers : pc[w] \in {"done", "ckpt", "answered"} => csn[w] \in history
  /\ \A e \in Entries : store[e].t = 0 \/ store[e] \in history
  /\ \A s \in Sids : Covered(s, stored[s]) /\ Covered(s, ctxcsn[s])

\* What slap_get_commit_csn returns to the response of a committed update is
\* the CSN of a committed update.
LEMMA RespondCovers ==
  ASSUME TypeOK, QueueMatchesUpdates, CommittedInv, NEW w \in Writers, Respond(w)
  PROVE  \A s \in Sids : Covered(s, ctxcsn'[s])
<1> DEFINE s == csn[w].sid
           m == CommitCsn(queue', s)
<1>1. s \in Sids /\ pc[w] = "done"
  BY DEF TypeOK, Respond
<1>2. \/ ctxcsn' = ctxcsn
      \/ ctxcsn' = [ctxcsn EXCEPT ![s] = m]
  BY DEF Respond
<1>3. Covered(s, m)
  <2>1. queue' \in Seq(QueueEntry)
    BY MarkCommitType DEF Respond, TypeOK
  <2>2. CASE m = 0
    BY <2>2 DEF Covered
  <2>3. CASE m # 0
    <3>1. PICK i \in 1 .. Len(queue') :
            queue'[i].sid = s /\ queue'[i].state = "COMMIT" /\ m = queue'[i].t
      BY <2>1, <2>3, <1>1, CommitCsnValue
    <3>2. /\ i \in 1 .. Len(queue)
          /\ queue'[i].t = queue[i].t /\ queue'[i].sid = queue[i].sid
          /\ queue[i].op = w \/ queue[i].state = "COMMIT"
      BY <3>1, MarkCommitType DEF Respond, TypeOK
    <3>3. /\ queue[i].op \in Writers
          /\ csn[queue[i].op] = [t |-> queue[i].t, sid |-> queue[i].sid]
          /\ queue[i].state = "COMMIT" => pc[queue[i].op] \in {"ckpt", "answered"}
      BY <3>2, QueueMembers DEF QueueMatchesUpdates, QueueEntry
    <3>4. csn[queue[i].op] \in history
      BY <3>2, <3>3, <1>1 DEF CommittedInv
    <3> QED BY <3>1, <3>2, <3>3, <3>4 DEF Covered
  <2> QED BY <2>2, <2>3
<1> HIDE DEF s, m
<1> QED BY <1>1, <1>2, <1>3 DEF CommittedInv, TypeOK

\* The contextCSN a database opens with is the stored one or a generated one.
LEMMA OpenCovers ==
  ASSUME TypeOK, CommittedInv, Open
  PROVE  \A s \in Sids : Covered(s, ctxcsn[s])'
<1>0. history \subseteq history'
  BY DEF Open
<1>1. CASE stored = NoCtx
  <2>1. /\ ctxcsn' = [NoCtx EXCEPT ![LocalSid] = clock + 1]
        /\ [t |-> clock + 1, sid |-> LocalSid] \in history'
    BY <1>1 DEF Open
  <2>2. ASSUME NEW s \in Sids
        PROVE  ctxcsn'[s] = 0 \/ [t |-> ctxcsn'[s], sid |-> s] \in history'
    BY <2>1
  <2> QED BY <2>2 DEF Covered
<1>2. CASE stored # NoCtx
  <2>1. ctxcsn' = stored
    BY <1>2 DEF Open
  <2> QED BY <2>1, <1>0 DEF CommittedInv, Covered
<1> QED BY <1>1, <1>2

\* A step that adds to history at most, and changes neither of the CSNs that
\* are named, keeps them covered.
LEMMA StillCommitted ==
  ASSUME CommittedInv, history \subseteq history',
         \A w \in Writers : pc'[w] \in {"done", "ckpt", "answered"}
                              => csn'[w] \in history',
         \A e \in Entries : store'[e] = store[e] \/ store'[e].t = 0
                              \/ store'[e] \in history',
         \A s \in Sids : stored'[s] \in {stored[s], ctxcsn[s]},
         \A s \in Sids : Covered(s, ctxcsn[s])'
  PROVE  CommittedInv'
BY DEF CommittedInv, Covered

\* Entries and contextCSN, stored or not, name committed updates after each step.
LEMMA CommittedKept ==
  ASSUME TxnWriters = {}, TypeOK, QueueMatchesUpdates, PlainUpdates, CommittedInv,
         [Next]_vars
  PROVE  CommittedInv'
<1>0. pc \in [Writers -> Pc] /\ csn \in [Writers -> Csn] /\ store \in [Entries -> Csn]
  BY DEF TypeOK
<1>a. ASSUME ctxcsn' = ctxcsn, history \subseteq history'
      PROVE  \A s \in Sids : Covered(s, ctxcsn[s])'
  BY <1>a DEF CommittedInv, Covered
<1>b. ASSUME \A s \in Sids : ctxcsn'[s] = 0
      PROVE  \A s \in Sids : Covered(s, ctxcsn[s])'
  BY <1>b DEF Covered
<1>c. \A w \in Writers : pc[w] \in {"done", "ckpt", "answered"} => csn[w] \in history
  BY DEF CommittedInv
<1> HIDE DEF Csn
<1>1. CASE Open
  <2>1. /\ history \subseteq history' /\ UNCHANGED <<pc, csn, store, stored>>
    BY <1>1 DEF Open, writerVars, diskVars
  <2> QED BY <2>1, <1>1, <1>c, OpenCovers, StillCommitted
<1>2. CASE Close
  <2>1. /\ UNCHANGED <<pc, csn, store, history>> /\ ctxcsn' = NoCtx
        /\ stored' \in {stored, ctxcsn}
    BY <1>2 DEF Close, writerVars
  <2> QED BY <2>1, <1>b, <1>c, StillCommitted
<1>3. CASE Crash
  <2>1. /\ UNCHANGED <<store, stored, history>> /\ ctxcsn' = NoCtx
        /\ \A w \in Writers : pc'[w] = "idle"
    BY <1>3 DEF Crash, diskVars
  <2> QED BY <2>1, <1>b, StillCommitted
<1>4. ASSUME NEW w \in Writers, Begin(w) PROVE CommittedInv'
  <2>1. UNCHANGED <<csn, store, stored, ctxcsn, history>>
    BY <1>4 DEF Begin, diskVars, provVars
  <2>2. \A v \in Writers : pc'[v] \in {"done", "ckpt", "answered"} => csn'[v] \in history'
    BY <2>1, <1>0, <1>4, <1>c DEF Begin
  <2> QED BY <2>1, <2>2, <1>a, StillCommitted
<1>5. ASSUME NEW w \in Writers, IssueCsn(w) \/ QueueCsn(w) PROVE CommittedInv'
  <2>1. UNCHANGED <<store, stored, ctxcsn, history>>
    BY <1>5 DEF IssueCsn, QueueCsn, diskVars, provVars
  <2>2. \A v \in Writers : pc'[v] \in {"done", "ckpt", "answered"} => csn'[v] \in history'
    <3>1. \A v \in Writers \ {w} : csn'[v] = csn[v] /\ pc'[v] = pc[v]
      BY <1>0, <1>5 DEF IssueCsn, QueueCsn
    <3>2. pc'[w] \in {"issued", "queued"}
      BY <1>0, <1>5 DEF IssueCsn, QueueCsn
    <3> QED BY <2>1, <3>1, <3>2, <1>c
  <2> QED BY <2>1, <2>2, <1>a, StillCommitted
<1>6. ASSUME NEW w \in Writers, Commit(w) PROVE CommittedInv'
  <2>1. /\ UNCHANGED <<csn, stored, ctxcsn>>
        /\ history' = history \cup {csn[w]} /\ pc' = [pc EXCEPT ![w] = "done"]
        /\ store' = [store EXCEPT ![ent[w]] = Outcome(w)]
    BY <1>6 DEF Commit, provVars
  <2>2. \A v \in Writers : pc'[v] \in {"done", "ckpt", "answered"} => csn'[v] \in history'
    BY <2>1, <1>0, <1>c
  <2>3. \A e \in Entries : store'[e] = store[e] \/ store'[e].t = 0 \/ store'[e] \in history'
    BY <2>1, <1>0 DEF Outcome
  <2> QED BY <2>1, <2>2, <2>3, <1>a, StillCommitted
<1>7. ASSUME NEW w \in Writers, Fail(w) \/ CommitFails(w) PROVE CommittedInv'
  <2>1. UNCHANGED <<csn, store, stored, ctxcsn, history>>
    BY <1>7 DEF Fail, CommitFails, diskVars, provVars
  <2>2. \A v \in Writers : pc'[v] \in {"done", "ckpt", "answered"} => csn'[v] \in history'
    BY <2>1, <1>0, <1>7, <1>c DEF Fail, CommitFails
  <2> QED BY <2>1, <2>2, <1>a, StillCommitted
<1>8. ASSUME NEW w \in Writers, ApplyInTxn(w) \/ EndTxn(w) PROVE CommittedInv'
  BY <1>8 DEF ApplyInTxn, EndTxn, PlainUpdates
<1>9. ASSUME NEW w \in Writers, Respond(w) PROVE CommittedInv'
  <2>1. UNCHANGED <<csn, store, stored, history>>
    BY <1>9 DEF Respond, diskVars
  <2>2. \A v \in Writers : pc'[v] \in {"done", "ckpt", "answered"} => csn'[v] \in history'
    <3>1. \A v \in Writers : pc'[v] \in {"done", "ckpt", "answered"}
                               => pc[v] \in {"done", "ckpt", "answered"}
      BY <1>0, <1>9 DEF Respond
    <3> QED BY <2>1, <3>1, <1>c
  <2>3. \A s \in Sids : Covered(s, ctxcsn[s])'
    BY <2>1, <1>9, RespondCovers DEF Covered
  <2> QED BY <2>1, <2>2, <2>3, StillCommitted
<1>10. ASSUME NEW w \in Writers, Checkpoint(w) PROVE CommittedInv'
  <2>1. UNCHANGED <<csn, store, ctxcsn, history>> /\ stored' \in {stored, ctxcsn}
    BY <1>10 DEF Checkpoint
  <2>2. \A v \in Writers : pc'[v] \in {"done", "ckpt", "answered"} => csn'[v] \in history'
    BY <2>1, <1>0, <1>10, <1>c DEF Checkpoint
  <2> QED BY <2>1, <2>2, <1>a, StillCommitted
<1>11. ASSUME NEW w \in Writers, Graduate(w) \/ Abort(w) PROVE CommittedInv'
  <2>1. UNCHANGED <<store, stored, ctxcsn, history>>
    BY <1>11 DEF Graduate, Abort, diskVars, provVars
  <2>2. \A v \in Writers : pc'[v] \in {"done", "ckpt", "answered"} => csn'[v] \in history'
    <3>1. \A v \in Writers \ {w} : csn'[v] = csn[v] /\ pc'[v] = pc[v]
      BY <1>0, <1>11 DEF Graduate, Abort
    <3>2. pc'[w] \notin {"done", "ckpt", "answered"}
      BY <1>0, <1>11 DEF Graduate, Abort
    <3> QED BY <2>1, <3>1, <3>2, <1>c
  <2> QED BY <2>1, <2>2, <1>a, StillCommitted
<1>12. CASE UNCHANGED vars
  <2>1. UNCHANGED <<pc, csn, store, stored, ctxcsn, history>>
    BY <1>12 DEF vars
  <2> QED BY <2>1, <1>a, <1>c, StillCommitted
<1> QED
  BY <1>1, <1>2, <1>3, <1>4, <1>5, <1>6, <1>7, <1>8, <1>9, <1>10, <1>11, <1>12
     DEF Next, Step

\* Both hold in every reachable state.
LEMMA PlainAndCommitted ==
  ASSUME TxnWriters = {}
  PROVE  Spec => [](PlainUpdates /\ CommittedInv)
<1>1. Init => PlainUpdates /\ CommittedInv
  BY DEF Init, PlainUpdates, CommittedInv, Covered
<1>2. TypeOK /\ QueueMatchesUpdates /\ (PlainUpdates /\ CommittedInv) /\ [Next]_vars
        => (PlainUpdates /\ CommittedInv)'
  BY PlainUpdatesKept, CommittedKept
<1> QED BY <1>1, <1>2, TypeCorrect, QueueMatches, PTL DEF Spec

\* Without LDAP transactions contextCSN names only committed updates, for any
\* number of writers, glued databases and server IDs, across crashes, failed
\* commits and failed checkpoints.
THEOREM CommittedOnly ==
  ASSUME TxnWriters = {}
  PROVE  Spec => []CoversCommitted
<1>1. CommittedInv => CoversCommitted
  BY DEF CommittedInv, CoversCommitted, Covered
<1> QED BY <1>1, PlainAndCommitted, PTL

-----------------------------------------------------------------------------
(***************************************************************************)
(* One database and no LDAP transactions: the LMDB writer lock is then held *)
(* from before a CSN is issued until its update is committed or refused.    *)
(***************************************************************************)

\* The inductive invariant behind NothingOutstandingCovered.
UnderLock ==
  \A w \in Writers : pc[w] \in {"begun", "issued", "queued"} => wlock[Root] = w

NoneAfterClock ==
  /\ \A w \in Writers : csn[w].t <= clock
  /\ \A e \in Entries : store[e].t <= clock
  /\ \A s \in Sids : stored[s] <= clock /\ ctxcsn[s] <= clock
  /\ \A w \in Writers, e \in Entries : draft[w][e].t <= clock
  /\ \A w \in Writers, s \in Sids : draftCtx[w][s] <= clock

IdleWhenDown == ~up => \A w \in Writers : pc[w] = "idle"

NewestOutstanding ==
  \A w \in Writers : pc[w] \in {"issued", "queued"} =>
    /\ \A s \in Sids : ctxcsn[s] < csn[w].t
    /\ \A v \in Writers \ {w} : csn[v].t < csn[w].t

SerialInv == UnderLock /\ NoneAfterClock /\ IdleWhenDown /\ NewestOutstanding

\* The lock is taken only when free, and given up only with the update.
LEMMA UnderLockKept ==
  ASSUME TxnWriters = {}, DBs = {Root}, TypeOK, PlainUpdates, UnderLock, [Next]_vars
  PROVE  UnderLock'
<1>0. /\ pc \in [Writers -> Pc] /\ wlock \in [DBs -> Writers \cup {NoWriter}]
      /\ NoWriter \notin Writers
  BY WritersAssumption DEF TypeOK
<1> USE DEF UnderLock
<1>1. CASE Open \/ Close
  BY <1>1 DEF Open, Close, writerVars
<1>2. CASE Crash
  BY <1>2 DEF Crash
<1>3. ASSUME NEW w \in Writers, Begin(w) PROVE UnderLock'
  <2>1. wlock[Root] = NoWriter /\ wlock' = [wlock EXCEPT ![Root] = w]
    BY <1>3 DEF Begin, TakeLock
  <2>2. pc' = [pc EXCEPT ![w] = "begun"]
    BY <1>3 DEF Begin
  <2> QED BY <2>1, <2>2, <1>0
<1>4. ASSUME NEW w \in Writers, IssueCsn(w) \/ QueueCsn(w) PROVE UnderLock'
  BY <1>0, <1>4 DEF IssueCsn, QueueCsn, draftVars, PlainUpdates
<1>5. ASSUME NEW w \in Writers, DropLock(w), pc'[w] \notin {"begun", "issued", "queued"},
             \A v \in Writers \ {w} : pc'[v] = pc[v]
      PROVE  UnderLock'
  <2>1. \A v \in Writers \ {w} : wlock[Root] = v => wlock'[Root] = v
    BY <1>0, <1>5 DEF DropLock
  <2> QED BY <2>1, <1>5
<1>6. ASSUME NEW w \in Writers, Commit(w) \/ CommitFails(w) PROVE UnderLock'
  BY <1>0, <1>5, <1>6 DEF Commit, CommitFails
<1>7. ASSUME NEW w \in Writers, Fail(w) PROVE UnderLock'
  <2>1. CASE DropLock(w) /\ pc' = [pc EXCEPT ![w] = "aborted"]
    BY <2>1, <1>0, <1>5
  <2>2. CASE wlock' = wlock /\ pc' = [pc EXCEPT ![w] = "failed"]
    BY <2>2, <1>0
  <2> QED BY <2>1, <2>2, <1>7 DEF Fail
<1>8. ASSUME NEW w \in Writers, ApplyInTxn(w) \/ EndTxn(w) PROVE UnderLock'
  BY <1>8 DEF ApplyInTxn, EndTxn, PlainUpdates
<1>9. ASSUME NEW w \in Writers, Respond(w) PROVE UnderLock'
  BY <1>0, <1>9 DEF Respond
<1>10. ASSUME NEW w \in Writers, Checkpoint(w) PROVE UnderLock'
  BY <1>0, <1>10 DEF Checkpoint
<1>11. ASSUME NEW w \in Writers, Graduate(w) PROVE UnderLock'
  BY <1>0, <1>11 DEF Graduate
<1>12. ASSUME NEW w \in Writers, Abort(w) PROVE UnderLock'
  BY <1>0, <1>5, <1>12 DEF Abort
<1>13. CASE UNCHANGED vars
  BY <1>13 DEF vars
<1> QED
  BY <1>1, <1>2, <1>3, <1>4, <1>6, <1>7, <1>8, <1>9, <1>10, <1>11, <1>12, <1>13
     DEF Next, Step

\* Every update ends before slapd is down.
LEMMA IdleWhenDownKept ==
  ASSUME TypeOK, IdleWhenDown, [Next]_vars
  PROVE  IdleWhenDown'
<1>0. up \in BOOLEAN
  BY DEF TypeOK
<1> USE DEF IdleWhenDown
<1>1. CASE Open
  BY <1>1 DEF Open
<1>2. CASE Close
  BY <1>2 DEF Close, writerVars
<1>3. CASE Crash
  BY <1>3 DEF Crash
<1>4. ASSUME NEW w \in Writers, Begin(w) PROVE IdleWhenDown'
  BY <1>4 DEF Begin
<1>5. ASSUME NEW w \in Writers, Step(w) PROVE IdleWhenDown'
  <2>1. pc[w] # "idle" /\ up' = up
    BY <1>5 DEF Step, IssueCsn, QueueCsn, Commit, ApplyInTxn, Fail, CommitFails,
                Respond, Checkpoint, Graduate, Abort, EndTxn
  <2> QED BY <2>1
<1>6. CASE UNCHANGED vars
  BY <1>6 DEF vars
<1> QED BY <1>1, <1>2, <1>3, <1>4, <1>5, <1>6 DEF Next

\* A response publishes the CSN of an update that is no longer outstanding.
LEMMA RespondPublishes ==
  ASSUME TypeOK, QueueMatchesUpdates, NEW w \in Writers, Respond(w), NEW s \in Sids
  PROVE  \/ ctxcsn'[s] = ctxcsn[s]
         \/ ctxcsn'[s] = 0
         \/ \E v \in Writers : /\ pc[v] \in {"done", "ckpt", "answered"}
                               /\ ctxcsn'[s] = csn[v].t
<1> DEFINE r == csn[w].sid
           m == CommitCsn(queue', r)
<1>1. r \in Sids /\ pc[w] = "done" /\ queue' \in Seq(QueueEntry)
  BY MarkCommitType DEF TypeOK, Respond
<1>2. \/ ctxcsn' = ctxcsn
      \/ ctxcsn' = [ctxcsn EXCEPT ![r] = m]
  BY DEF Respond
<1>3. m = 0 \/ \E v \in Writers : pc[v] \in {"done", "ckpt", "answered"} /\ m = csn[v].t
  <2>1. ASSUME NEW i \in 1 .. Len(queue'), queue'[i].state = "COMMIT", m = queue'[i].t
        PROVE  \E v \in Writers : pc[v] \in {"done", "ckpt", "answered"} /\ m = csn[v].t
    <3>1. /\ i \in 1 .. Len(queue) /\ queue'[i].t = queue[i].t
          /\ queue[i].op = w \/ queue[i].state = "COMMIT"
      BY <2>1, MarkCommitType DEF Respond, TypeOK
    <3>2. /\ queue[i].op \in Writers
          /\ csn[queue[i].op] = [t |-> queue[i].t, sid |-> queue[i].sid]
          /\ queue[i].state = "COMMIT" => pc[queue[i].op] \in {"ckpt", "answered"}
      BY <3>1, QueueMembers DEF QueueMatchesUpdates, QueueEntry
    <3> QED BY <2>1, <3>1, <3>2, <1>1
  <2> QED BY <2>1, <1>1, CommitCsnValue
<1> HIDE DEF r, m
<1> QED BY <1>1, <1>2, <1>3 DEF TypeOK

\* A step after which every CSN is an old one, or not after the clock.
LEMMA StillNoneAfter ==
  ASSUME TypeOK, NoneAfterClock, clock' \in Nat, clock <= clock',
         \A w \in Writers : csn'[w] = csn[w] \/ csn'[w].t <= clock',
         \A e \in Entries : store'[e] = store[e] \/ store'[e].t <= clock',
         \A s \in Sids : stored'[s] = stored[s] \/ stored'[s] <= clock',
         \A s \in Sids : ctxcsn'[s] = ctxcsn[s] \/ ctxcsn'[s] <= clock',
         \A w \in Writers, e \in Entries :
           draft'[w][e] = draft[w][e] \/ draft'[w][e].t <= clock',
         \A w \in Writers, s \in Sids :
           draftCtx'[w][s] = draftCtx[w][s] \/ draftCtx'[w][s] <= clock'
  PROVE  NoneAfterClock'
<1>1. /\ clock \in Nat
      /\ \A w \in Writers : csn[w].t \in Nat /\ csn[w].t <= clock
      /\ \A e \in Entries : store[e].t \in Nat /\ store[e].t <= clock
      /\ \A s \in Sids : stored[s] \in Nat /\ stored[s] <= clock
      /\ \A s \in Sids : ctxcsn[s] \in Nat /\ ctxcsn[s] <= clock
      /\ \A w \in Writers, e \in Entries : draft[w][e].t \in Nat /\ draft[w][e].t <= clock
      /\ \A w \in Writers, s \in Sids : draftCtx[w][s] \in Nat /\ draftCtx[w][s] <= clock
  <2>1. \A w \in Writers, e \in Entries : draft[w][e] \in Csn
    BY DEF TypeOK
  <2>2. \A w \in Writers, s \in Sids : draftCtx[w][s] \in Nat
    BY DEF TypeOK
  <2>3. /\ \A w \in Writers : csn[w] \in Csn
        /\ \A e \in Entries : store[e] \in Csn
    BY DEF TypeOK
  <2> QED BY <2>1, <2>2, <2>3 DEF TypeOK, NoneAfterClock
<1> QED BY <1>1 DEF NoneAfterClock

\* Dropping the writer lock empties the draft.
LEMMA DropLockEmpties ==
  ASSUME TypeOK, NEW w \in Writers, DropLock(w)
  PROVE  /\ \A v \in Writers, e \in Entries :
              draft'[v][e] = draft[v][e] \/ draft'[v][e].t = 0
         /\ \A v \in Writers, s \in Sids :
              draftCtx'[v][s] = draftCtx[v][s] \/ draftCtx'[v][s] = 0
<1>1. /\ draft' = [draft EXCEPT ![w] = NoDraft]
      /\ draftCtx' = [draftCtx EXCEPT ![w] = NoCtx]
  BY DEF DropLock
<1>2. \A v \in Writers : draft'[v] = draft[v] \/ draft'[v] = NoDraft
  BY <1>1 DEF TypeOK
<1>3. \A v \in Writers : draftCtx'[v] = draftCtx[v] \/ draftCtx'[v] = NoCtx
  BY <1>1 DEF TypeOK
<1> QED BY <1>2, <1>3

\* No CSN in memory, on disk or in a transaction is newer than the last one issued.
LEMMA NoneAfterClockKept ==
  ASSUME TypeOK, QueueMatchesUpdates, NoneAfterClock, [Next]_vars
  PROVE  NoneAfterClock'
<1>0. /\ clock \in Nat /\ csn \in [Writers -> Csn] /\ store \in [Entries -> Csn]
      /\ stored \in [Sids -> Nat] /\ ctxcsn \in [Sids -> Nat]
      /\ draft \in [Writers -> [Entries -> Csn]]
      /\ draftCtx \in [Writers -> [Sids -> Nat]] /\ ent \in [Writers -> Entries]
  BY DEF TypeOK
<1>n. /\ \A w \in Writers : csn[w].t <= clock
      /\ \A e \in Entries : store[e].t <= clock
      /\ \A s \in Sids : stored[s] <= clock /\ ctxcsn[s] <= clock
      /\ \A w \in Writers, e \in Entries : draft[w][e].t <= clock
      /\ \A w \in Writers, s \in Sids : draftCtx[w][s] <= clock
  BY DEF NoneAfterClock
<1>1. CASE Open
  <2>1. /\ clock' \in Nat /\ clock <= clock'
        /\ UNCHANGED <<csn, store, stored, draft, draftCtx>>
    BY <1>0, <1>1 DEF Open, writerVars, diskVars, draftVars
  <2>2. \A s \in Sids : ctxcsn'[s] <= clock'
    <3>1. CASE stored = NoCtx
      <4>1. \A s \in Sids : ctxcsn'[s] \in {0, clock + 1} /\ clock' = clock + 1
        BY <1>1, <3>1 DEF Open
      <4>2. 0 <= clock + 1 /\ clock + 1 <= clock + 1
        BY <1>0
      <4> HIDE DEF Csn, NoCtx
      <4> QED BY <4>1, <4>2
    <3>2. CASE stored # NoCtx
      BY <1>0, <1>1, <1>n, <3>2 DEF Open
    <3> QED BY <3>1, <3>2
  <2> HIDE DEF Csn
  <2> QED BY <2>1, <2>2, StillNoneAfter
<1>2. CASE Close
  <2>1. /\ UNCHANGED <<clock, csn, store, draft, draftCtx>>
        /\ stored' \in {stored, ctxcsn} /\ \A s \in Sids : ctxcsn'[s] = 0
    BY <1>2 DEF Close, writerVars, draftVars
  <2> HIDE DEF Csn
  <2> QED BY <1>0, <1>n, <2>1, StillNoneAfter
<1>3. CASE Crash
  <2>1. /\ UNCHANGED <<clock, store, stored>> /\ \A s \in Sids : ctxcsn'[s] = 0
        /\ \A w \in Writers : csn'[w].t = 0
        /\ \A w \in Writers, e \in Entries : draft'[w][e].t = 0
        /\ \A w \in Writers, s \in Sids : draftCtx'[w][s] = 0
    BY <1>3 DEF Crash, diskVars
  <2> HIDE DEF Csn
  <2> QED BY <1>0, <2>1, StillNoneAfter
<1>4. ASSUME NEW w \in Writers, Begin(w) PROVE NoneAfterClock'
  <2>1. UNCHANGED <<clock, csn, store, stored, ctxcsn>>
    BY <1>4 DEF Begin, diskVars, provVars
  <2>2. /\ draft' = [draft EXCEPT ![w] = store]
        /\ draftCtx' = [draftCtx EXCEPT ![w] = stored]
    BY <1>4 DEF Begin, TakeLock
  <2>3. \A v \in Writers, e \in Entries :
          draft'[v][e] = draft[v][e] \/ draft'[v][e] = store[e]
    BY <1>0, <2>2
  <2>4. \A v \in Writers, s \in Sids :
          draftCtx'[v][s] = draftCtx[v][s] \/ draftCtx'[v][s] = stored[s]
    BY <1>0, <2>2
  <2> HIDE DEF Csn
  <2> QED BY <1>0, <1>n, <2>1, <2>3, <2>4, StillNoneAfter
<1>5. ASSUME NEW w \in Writers, IssueCsn(w) PROVE NoneAfterClock'
  <2>1. UNCHANGED <<store, stored, ctxcsn, draft, draftCtx>> /\ clock' = clock + 1
    BY <1>5 DEF IssueCsn, diskVars, provVars, draftVars
  <2>2. \A v \in Writers : csn'[v] = csn[v] \/ csn'[v].t = clock + 1
    BY <1>0, <1>5 DEF IssueCsn
  <2>3. clock' \in Nat /\ clock <= clock' /\ clock + 1 <= clock'
    BY <1>0, <2>1
  <2> HIDE DEF Csn
  <2> QED BY <2>1, <2>2, <2>3, StillNoneAfter
<1>6. ASSUME NEW w \in Writers, QueueCsn(w) PROVE NoneAfterClock'
  BY <1>6 DEF NoneAfterClock, QueueCsn, diskVars, provVars, draftVars
<1>o. ASSUME NEW w \in Writers PROVE Outcome(w).t <= clock
  BY <1>0, <1>n DEF Outcome
<1>7. ASSUME NEW w \in Writers, Commit(w) PROVE NoneAfterClock'
  <2>1. /\ UNCHANGED <<clock, csn, stored, ctxcsn>> /\ DropLock(w)
        /\ store' = [store EXCEPT ![ent[w]] = Outcome(w)]
    BY <1>7 DEF Commit, provVars
  <2>2. \A e \in Entries : store'[e] = store[e] \/ store'[e] = Outcome(w)
    BY <1>0, <2>1
  <2> HIDE DEF Csn
  <2>3. 0 <= clock /\ clock <= clock
    BY <1>0
  <2> QED BY <1>0, <1>o, <2>1, <2>2, <2>3, DropLockEmpties, StillNoneAfter
<1>8. ASSUME NEW w \in Writers, Fail(w) \/ CommitFails(w) \/ Abort(w) PROVE NoneAfterClock'
  <2>1. UNCHANGED <<clock, csn, store, stored, ctxcsn>>
    BY <1>8 DEF Fail, CommitFails, Abort, diskVars, provVars
  <2>2. DropLock(w) \/ UNCHANGED <<draft, draftCtx>>
    BY <1>8 DEF Fail, CommitFails, Abort, draftVars
  <2> HIDE DEF Csn
  <2>3. 0 <= clock /\ clock <= clock
    BY <1>0
  <2> QED BY <1>0, <2>1, <2>2, <2>3, DropLockEmpties, StillNoneAfter
<1>9. ASSUME NEW w \in Writers, ApplyInTxn(w) PROVE NoneAfterClock'
  <2>1. /\ UNCHANGED <<clock, csn, store, stored, ctxcsn, draftCtx>>
        /\ draft' = [draft EXCEPT ![w][ent[w]] = Outcome(w)]
    BY <1>9 DEF ApplyInTxn, diskVars, provVars
  <2>2. \A v \in Writers, e \in Entries :
          draft'[v][e] = draft[v][e] \/ draft'[v][e] = Outcome(w)
    BY <1>0, <2>1
  <2> HIDE DEF Csn
  <2> QED BY <1>0, <1>o, <2>1, <2>2, StillNoneAfter
<1>10. ASSUME NEW w \in Writers, EndTxn(w) PROVE NoneAfterClock'
  <2>1. /\ UNCHANGED <<clock, csn, ctxcsn>> /\ DropLock(w)
        /\ \A e \in Entries : store'[e] = store[e] \/ store'[e] = draft[w][e]
        /\ stored' = stored \/ stored' = draftCtx[w]
    BY <1>10 DEF EndTxn, provVars
  <2> HIDE DEF Csn
  <2>2. 0 <= clock /\ clock <= clock
    BY <1>0
  <2> QED BY <1>0, <1>n, <2>1, <2>2, DropLockEmpties, StillNoneAfter
<1>11. ASSUME NEW w \in Writers, Respond(w) PROVE NoneAfterClock'
  <2>1. UNCHANGED <<clock, csn, store, stored, draft, draftCtx>>
    BY <1>11 DEF Respond, diskVars, draftVars
  <2>2. \A s \in Sids : ctxcsn'[s] <= clock
    <3> SUFFICES ASSUME NEW s \in Sids PROVE ctxcsn'[s] <= clock
      OBVIOUS
    <3>1. \/ ctxcsn'[s] = ctxcsn[s]
          \/ ctxcsn'[s] = 0
          \/ \E v \in Writers : ctxcsn'[s] = csn[v].t
      BY <1>11, RespondPublishes
    <3>2. 0 <= clock
      BY <1>0
    <3> HIDE DEF Csn
    <3> QED BY <1>n, <3>1, <3>2
  <2> HIDE DEF Csn
  <2> QED BY <1>0, <2>1, <2>2, StillNoneAfter
<1>12. ASSUME NEW w \in Writers, Checkpoint(w) PROVE NoneAfterClock'
  <2>1. /\ UNCHANGED <<clock, csn, store, ctxcsn, draft>> /\ stored' \in {stored, ctxcsn}
        /\ draftCtx' \in {draftCtx, [draftCtx EXCEPT ![w] = ctxcsn]}
    BY <1>12 DEF Checkpoint
  <2>2. \A v \in Writers, s \in Sids :
          draftCtx'[v][s] = draftCtx[v][s] \/ draftCtx'[v][s] = ctxcsn[s]
    BY <1>0, <2>1
  <2> HIDE DEF Csn
  <2> QED BY <1>0, <1>n, <2>1, <2>2, StillNoneAfter
<1>13. ASSUME NEW w \in Writers, Graduate(w) PROVE NoneAfterClock'
  <2>1. UNCHANGED <<clock, store, stored, ctxcsn, draft, draftCtx>>
    BY <1>13 DEF Graduate, diskVars, provVars, draftVars
  <2>2. \A v \in Writers : csn'[v] = csn[v] \/ csn'[v].t = 0
    BY <1>0, <1>13 DEF Graduate
  <2> HIDE DEF Csn
  <2> QED BY <1>0, <2>1, <2>2, StillNoneAfter
<1>14. CASE UNCHANGED vars
  BY <1>14 DEF vars, NoneAfterClock
<1> QED
  BY <1>1, <1>2, <1>3, <1>4, <1>5, <1>6, <1>7, <1>8, <1>9, <1>10, <1>11, <1>12,
     <1>13, <1>14 DEF Next, Step

\* A step that issues no CSN, publishes none newer than those answered, and
\* makes no update outstanding keeps the outstanding one the newest.
LEMMA StillNewest ==
  ASSUME TypeOK, NewestOutstanding,
         \A w \in Writers : pc'[w] \in {"issued", "queued"} =>
           pc[w] \in {"issued", "queued"} /\ csn'[w] = csn[w],
         \A w \in Writers : csn'[w].t \in {csn[w].t, 0},
         \A s \in Sids :
           \/ ctxcsn'[s] \in {ctxcsn[s], 0}
           \/ \E v \in Writers :
                pc[v] \notin {"issued", "queued"} /\ ctxcsn'[s] = csn[v].t
  PROVE  NewestOutstanding'
<1> SUFFICES ASSUME NEW w \in Writers, pc'[w] \in {"issued", "queued"}
             PROVE  /\ \A s \in Sids : ctxcsn'[s] < csn'[w].t
                    /\ \A v \in Writers \ {w} : csn'[v].t < csn'[w].t
  BY DEF NewestOutstanding
<1>1. /\ pc[w] \in {"issued", "queued"} /\ csn'[w] = csn[w]
      /\ \A s \in Sids : ctxcsn[s] < csn[w].t
      /\ \A v \in Writers \ {w} : csn[v].t < csn[w].t
  BY DEF NewestOutstanding
<1>2. /\ \A s \in Sids : ctxcsn[s] \in Nat
      /\ \A v \in Writers : csn[v].t \in Nat
  BY DEF TypeOK
<1>3. 0 < csn[w].t
  BY <1>1, <1>2, SidsAssumption
<1>4. \A v \in Writers \ {w} : csn'[v].t < csn'[w].t
  BY <1>1, <1>3
<1>5. ASSUME NEW s \in Sids PROVE ctxcsn'[s] < csn'[w].t
  <2>1. CASE ctxcsn'[s] \in {ctxcsn[s], 0}
    BY <2>1, <1>1, <1>3
  <2>2. ASSUME NEW v \in Writers, pc[v] \notin {"issued", "queued"},
               ctxcsn'[s] = csn[v].t
        PROVE  ctxcsn'[s] < csn'[w].t
    BY <2>2, <1>1
  <2> QED BY <2>1, <2>2
<1> QED BY <1>4, <1>5

\* An update that is outstanding stays newer than all that was published.
LEMMA NewestOutstandingKept ==
  ASSUME TxnWriters = {}, TypeOK, QueueMatchesUpdates, PlainUpdates, SerialInv,
         [Next]_vars
  PROVE  NewestOutstanding'
<1>0. /\ pc \in [Writers -> Pc] /\ csn \in [Writers -> Csn] /\ clock \in Nat
      /\ ctxcsn \in [Sids -> Nat] /\ wlock \in [DBs -> Writers \cup {NoWriter}]
      /\ NewestOutstanding
  BY DEF TypeOK, SerialInv
<1>1. CASE Open
  <2>1. \A w \in Writers : pc'[w] = "idle"
    BY <1>1 DEF Open, writerVars, SerialInv, IdleWhenDown
  <2> QED BY <2>1 DEF NewestOutstanding
<1>2. CASE Close
  BY <1>2 DEF Close, writerVars, NewestOutstanding
<1>3. CASE Crash
  BY <1>3 DEF Crash, NewestOutstanding
<1>4. ASSUME NEW w \in Writers, IssueCsn(w) PROVE NewestOutstanding'
  <2>1. /\ pc[w] = "begun" /\ ctxcsn' = ctxcsn
        /\ pc' = [pc EXCEPT ![w] = "issued"]
    BY <1>4 DEF IssueCsn, PlainUpdates, provVars
  <2>2. csn'[w].t = clock + 1 /\ \A v \in Writers \ {w} : csn'[v] = csn[v]
    BY <1>0, <1>4 DEF IssueCsn
  <2>3. \A v \in Writers \ {w} : pc'[v] \notin {"issued", "queued"}
    <3>1. \A v \in Writers \ {w} : pc[v] \notin {"begun", "issued", "queued"}
      BY <2>1 DEF SerialInv, UnderLock
    <3> QED BY <1>0, <2>1, <3>1
  <2>4. /\ \A s \in Sids : ctxcsn[s] \in Nat /\ ctxcsn[s] <= clock
        /\ \A v \in Writers : csn[v].t \in Nat /\ csn[v].t <= clock
    BY <1>0 DEF SerialInv, NoneAfterClock
  <2>5. /\ \A s \in Sids : ctxcsn'[s] < csn'[w].t
        /\ \A v \in Writers \ {w} : csn'[v].t < csn'[w].t
    BY <1>0, <2>1, <2>2, <2>4
  <2> QED BY <2>3, <2>5 DEF NewestOutstanding
<1>5. ASSUME NEW w \in Writers, Begin(w) \/ QueueCsn(w) \/ Commit(w) \/ Fail(w)
                                  \/ CommitFails(w) \/ Checkpoint(w) \/ Abort(w)
      PROVE NewestOutstanding'
  <2>1. UNCHANGED <<csn, ctxcsn>>
    BY <1>5 DEF Begin, QueueCsn, Commit, Fail, CommitFails, Checkpoint, Abort, provVars
  <2>2. \A v \in Writers : pc'[v] \in {"issued", "queued"} => pc[v] \in {"issued", "queued"}
    BY <1>0, <1>5 DEF Begin, QueueCsn, Commit, Fail, CommitFails, Checkpoint, Abort
  <2> QED BY <2>1, <2>2, <1>0, StillNewest
<1>6. ASSUME NEW w \in Writers, ApplyInTxn(w) \/ EndTxn(w) PROVE NewestOutstanding'
  BY <1>6 DEF ApplyInTxn, EndTxn, PlainUpdates
<1>7. ASSUME NEW w \in Writers, Respond(w) PROVE NewestOutstanding'
  <2>1. csn' = csn
    BY <1>7 DEF Respond
  <2>2. \A v \in Writers : pc'[v] \in {"issued", "queued"} => pc[v] \in {"issued", "queued"}
    BY <1>0, <1>7 DEF Respond
  <2>3. \A s \in Sids :
          \/ ctxcsn'[s] \in {ctxcsn[s], 0}
          \/ \E v \in Writers :
               pc[v] \notin {"issued", "queued"} /\ ctxcsn'[s] = csn[v].t
    <3> SUFFICES ASSUME NEW s \in Sids
                 PROVE  \/ ctxcsn'[s] \in {ctxcsn[s], 0}
                        \/ \E v \in Writers :
                             pc[v] \notin {"issued", "queued"} /\ ctxcsn'[s] = csn[v].t
      OBVIOUS
    <3>1. \/ ctxcsn'[s] = ctxcsn[s]
          \/ ctxcsn'[s] = 0
          \/ \E v \in Writers : /\ pc[v] \in {"done", "ckpt", "answered"}
                                /\ ctxcsn'[s] = csn[v].t
      BY <1>7, RespondPublishes
    <3>2. \A v \in Writers : pc[v] \in {"done", "ckpt", "answered"}
                               => pc[v] \notin {"issued", "queued"}
      OBVIOUS
    <3> QED BY <3>1, <3>2
  <2> QED BY <2>1, <2>2, <2>3, <1>0, StillNewest
<1>8. ASSUME NEW w \in Writers, Graduate(w) PROVE NewestOutstanding'
  <2>1. ctxcsn' = ctxcsn /\ pc'[w] \notin {"issued", "queued"}
    BY <1>0, <1>8 DEF Graduate, provVars
  <2>2. /\ csn'[w].t = 0
        /\ \A v \in Writers \ {w} : csn'[v] = csn[v] /\ pc'[v] = pc[v]
    BY <1>0, <1>8 DEF Graduate
  <2> HIDE DEF Csn
  <2>3. \A v \in Writers : csn'[v].t \in {csn[v].t, 0}
    BY <2>2
  <2>4. \A v \in Writers : pc'[v] \in {"issued", "queued"} =>
          pc[v] \in {"issued", "queued"} /\ csn'[v] = csn[v]
    BY <2>1, <2>2
  <2> QED BY <2>1, <2>3, <2>4, <1>0, StillNewest
<1>9. CASE UNCHANGED vars
  BY <1>9 DEF vars, SerialInv, NewestOutstanding
<1> QED
  BY <1>1, <1>2, <1>3, <1>4, <1>5, <1>6, <1>7, <1>8, <1>9 DEF Next, Step

\* With one database and no LDAP transactions contextCSN covers no update that
\* may still commit: the CSN of the one update that is outstanding is newer than
\* every contextCSN, because the writer lock spans its issue and its commit.
THEOREM OutstandingNotCovered ==
  ASSUME TxnWriters = {}, DBs = {Root}
  PROVE  Spec => []NothingOutstandingCovered
<1>1. Init => SerialInv
  BY SidsAssumption
     DEF Init, SerialInv, UnderLock, NoneAfterClock, IdleWhenDown, NewestOutstanding
<1>2. TypeOK /\ QueueMatchesUpdates /\ (PlainUpdates /\ CommittedInv) /\ SerialInv
        /\ [Next]_vars => SerialInv'
  BY UnderLockKept, NoneAfterClockKept, IdleWhenDownKept, NewestOutstandingKept
     DEF SerialInv
<1>3. TypeOK /\ (PlainUpdates /\ CommittedInv) /\ SerialInv
        => NothingOutstandingCovered
  <2> SUFFICES ASSUME TypeOK, PlainUpdates, SerialInv, NEW c \in Outstanding
               PROVE  c.t > ctxcsn[c.sid]
    BY DEF NothingOutstandingCovered
  <2>1. PICK w \in Writers : pc[w] \in {"issued", "queued"} /\ c = csn[w]
    <3>1. UNION {made[w] : w \in Writers} = {}
      BY DEF PlainUpdates
    <3> QED BY <3>1 DEF Outstanding
  <2>2. c.sid \in Sids /\ c.t \in Nat /\ ctxcsn[c.sid] \in Nat
    BY <2>1 DEF TypeOK
  <2>3. ctxcsn[c.sid] < c.t
    BY <2>1, <2>2 DEF SerialInv, NewestOutstanding
  <2> QED BY <2>2, <2>3
<1> QED BY <1>1, <1>2, <1>3, TypeCorrect, QueueMatches, PlainAndCommitted, PTL DEF Spec

-----------------------------------------------------------------------------
(***************************************************************************)
(* contextCSN never goes back: for any writers, LDAP transactions included, *)
(* any glued databases, and checkpoints that may fail.  What is on disk is   *)
(* never ahead of what is in memory, and a transaction on the suffix         *)
(* database carries a value between the two.                                *)
(***************************************************************************)

\* Who holds a writer lock is in the middle of an update or an LDAP
\* transaction on that database; past its commit a plain update holds none.
LockOwner ==
  \A d \in DBs, w \in Writers : wlock[d] = w =>
    /\ pc[w] # "idle" /\ db[w] = d
    /\ w \in TxnWriters \/ pc[w] \in {"begun", "issued", "queued", "failed", "graduated"}

\* An LDAP transaction holds its lock from beginning to end.
LockHeld == \A w \in TxnWriters : pc[w] # "idle" => wlock[db[w]] = w

\* Only an LDAP transaction goes on to a next update.
NextInTxn == \A w \in Writers : pc[w] = "next" => w \in TxnWriters

StoredBehind == up => \A s \in Sids : stored[s] <= ctxcsn[s]

DraftBetween ==
  \A w \in Writers : wlock[Root] = w =>
    \A s \in Sids : stored[s] <= draftCtx[w][s] /\ draftCtx[w][s] <= ctxcsn[s]

OrderInv ==
  /\ IdleWhenDown /\ LockOwner /\ LockHeld /\ NextInTxn
  /\ StoredBehind /\ DraftBetween

\* Giving up the lock leaves the other writers theirs.
LEMMA DropLockLocks ==
  ASSUME TypeOK, NEW w \in Writers, DropLock(w)
  PROVE  /\ \A d \in DBs : wlock'[d] # w
         /\ \A d \in DBs, v \in Writers \ {w} : wlock'[d] = v <=> wlock[d] = v
         /\ \A v \in Writers \ {w} : draftCtx'[v] = draftCtx[v]
<1>1. /\ wlock' = [d \in DBs |-> IF wlock[d] = w THEN NoWriter ELSE wlock[d]]
      /\ draftCtx' = [draftCtx EXCEPT ![w] = NoCtx]
      /\ NoWriter \notin Writers /\ draftCtx \in [Writers -> [Sids -> Nat]]
  BY WritersAssumption DEF DropLock, TypeOK
<1> HIDE DEF NoCtx
<1> QED BY <1>1

\* LockOwner and LockHeld are kept together by a step that drops a lock.
LEMMA DropLockKeepsLocks ==
  ASSUME TypeOK, LockOwner, LockHeld, NEW w \in Writers, DropLock(w),
         w \in TxnWriters => pc'[w] = "idle",
         db' = db, \A v \in Writers \ {w} : pc'[v] = pc[v]
  PROVE  LockOwner' /\ LockHeld'
<1>1. TxnWriters \subseteq Writers
  BY WritersAssumption
<1>2. \A v \in Writers : db[v] \in DBs
  BY DEF TypeOK
<1>3. LockOwner'
  <2> SUFFICES ASSUME NEW d \in DBs, NEW v \in Writers, wlock'[d] = v
               PROVE  /\ pc'[v] # "idle" /\ db'[v] = d
                      /\ \/ v \in TxnWriters
                         \/ pc'[v] \in {"begun", "issued", "queued", "failed", "graduated"}
    BY DEF LockOwner
  <2>1. v # w /\ wlock[d] = v
    BY DropLockLocks
  <2> QED BY <2>1 DEF LockOwner
<1>4. LockHeld'
  BY <1>1, <1>2, DropLockLocks DEF LockHeld
<1> QED BY <1>3, <1>4

\* A step that keeps the locks and moves one writer on inside its update.
LEMMA MovesOnKeepsLocks ==
  ASSUME TypeOK, LockOwner, LockHeld, NEW w \in Writers,
         UNCHANGED <<wlock, db>>, \A v \in Writers \ {w} : pc'[v] = pc[v],
         pc[w] # "idle",
         w \in TxnWriters => pc'[w] # "idle",
         w \notin TxnWriters =>
           \/ pc'[w] \in {"begun", "issued", "queued", "failed", "graduated"}
           \/ pc[w] \notin {"begun", "issued", "queued", "failed", "graduated"}
  PROVE  LockOwner' /\ LockHeld'
<1>1. TxnWriters \subseteq Writers
  BY WritersAssumption
<1>2. LockOwner'
  <2> SUFFICES ASSUME NEW d \in DBs, NEW v \in Writers, wlock'[d] = v
               PROVE  /\ pc'[v] # "idle" /\ db'[v] = d
                      /\ \/ v \in TxnWriters
                         \/ pc'[v] \in {"begun", "issued", "queued", "failed", "graduated"}
    BY DEF LockOwner
  <2>1. /\ pc[v] # "idle" /\ db[v] = d
        /\ v \in TxnWriters \/ pc[v] \in {"begun", "issued", "queued", "failed", "graduated"}
    BY DEF LockOwner
  <2>2. CASE v = w
    BY <2>1, <2>2
  <2>3. CASE v # w
    BY <2>1, <2>3
  <2> QED BY <2>2, <2>3
<1>3. LockHeld'
  BY <1>1 DEF LockHeld
<1> QED BY <1>2, <1>3

\* The locks are held as the two say, whatever the step.
LEMMA LocksKept ==
  ASSUME TypeOK, IdleWhenDown, LockOwner, LockHeld, [Next]_vars
  PROVE  LockOwner' /\ LockHeld'
<1>0. /\ pc \in [Writers -> Pc] /\ wlock \in [DBs -> Writers \cup {NoWriter}]
      /\ db \in [Writers -> DBs] /\ NoWriter \notin Writers
      /\ TxnWriters \subseteq Writers
  BY WritersAssumption DEF TypeOK
<1>1. CASE Open \/ Close
  BY <1>1 DEF Open, Close, writerVars, LockOwner, LockHeld
<1>2. CASE Crash
  BY <1>0, <1>2 DEF Crash, LockOwner, LockHeld
<1>3. ASSUME NEW w \in Writers, Begin(w) PROVE LockOwner' /\ LockHeld'
  <2>1. PICK d \in DBs : TakeLock(w, d) /\ db' = [db EXCEPT ![w] = d]
    BY <1>3 DEF Begin
  <2>2. /\ wlock[d] = NoWriter /\ wlock' = [wlock EXCEPT ![d] = w]
    BY <2>1 DEF TakeLock
  <2>3. pc[w] = "idle" /\ pc' = [pc EXCEPT ![w] = "begun"]
    BY <1>3 DEF Begin
  <2>4. LockOwner'
    <3> SUFFICES ASSUME NEW c \in DBs, NEW v \in Writers, wlock'[c] = v
                 PROVE  /\ pc'[v] # "idle" /\ db'[v] = c
                        /\ \/ v \in TxnWriters
                           \/ pc'[v] \in {"begun", "issued", "queued", "failed", "graduated"}
      BY DEF LockOwner
    <3>1. CASE c = d
      <4>1. v = w
        BY <1>0, <2>2, <3>1
      <4> QED BY <1>0, <2>1, <2>3, <3>1, <4>1
    <3>2. CASE c # d
      <4>1. wlock[c] = v
        BY <1>0, <2>2, <3>2
      <4>2. v # w
        BY <2>3, <4>1 DEF LockOwner
      <4> QED BY <1>0, <2>1, <2>3, <4>1, <4>2 DEF LockOwner
    <3> QED BY <3>1, <3>2
  <2>5. LockHeld'
    <3> SUFFICES ASSUME NEW v \in TxnWriters, pc'[v] # "idle" PROVE wlock'[db'[v]] = v
      BY DEF LockHeld
    <3>1. CASE v = w
      BY <1>0, <2>1, <2>2, <3>1
    <3>2. CASE v # w
      <4>1. pc[v] # "idle" /\ db'[v] = db[v] /\ db[v] \in DBs
        BY <1>0, <2>1, <2>3, <3>2
      <4>2. wlock[db[v]] = v
        BY <4>1 DEF LockHeld
      <4>3. db[v] # d
        BY <1>0, <2>2, <4>2
      <4> QED BY <1>0, <2>2, <4>1, <4>2, <4>3
    <3> QED BY <3>1, <3>2
  <2> QED BY <2>4, <2>5
<1>4. ASSUME NEW w \in Writers, IssueCsn(w) PROVE LockOwner' /\ LockHeld'
  <2>1. /\ UNCHANGED <<wlock, db>> /\ pc' = [pc EXCEPT ![w] = "issued"]
        /\ pc[w] # "idle"
    BY <1>4 DEF IssueCsn
  <2> QED BY <1>0, <2>1, MovesOnKeepsLocks
<1>5. ASSUME NEW w \in Writers, QueueCsn(w) PROVE LockOwner' /\ LockHeld'
  <2>1. /\ UNCHANGED <<wlock, db>> /\ pc' = [pc EXCEPT ![w] = "queued"]
        /\ pc[w] # "idle"
    BY <1>5 DEF QueueCsn
  <2> QED BY <1>0, <2>1, MovesOnKeepsLocks
<1>6. ASSUME NEW w \in Writers, Commit(w) \/ CommitFails(w) PROVE LockOwner' /\ LockHeld'
  <2>1. /\ db' = db /\ w \notin TxnWriters /\ DropLock(w)
        /\ \A v \in Writers \ {w} : pc'[v] = pc[v]
    BY <1>0, <1>6 DEF Commit, CommitFails
  <2> QED BY <2>1, DropLockKeepsLocks
<1>7. ASSUME NEW w \in Writers, ApplyInTxn(w) PROVE LockOwner' /\ LockHeld'
  <2>1. /\ UNCHANGED <<wlock, db>> /\ pc' = [pc EXCEPT ![w] = "done"]
        /\ pc[w] # "idle" /\ w \in TxnWriters
    BY <1>7 DEF ApplyInTxn
  <2> QED BY <1>0, <2>1, MovesOnKeepsLocks
<1>8. ASSUME NEW w \in Writers, Fail(w) PROVE LockOwner' /\ LockHeld'
  <2>1. CASE kind[w] = "delete" /\ w \notin TxnWriters
    <3>1. /\ db' = db /\ DropLock(w) /\ \A v \in Writers \ {w} : pc'[v] = pc[v]
      BY <1>0, <1>8, <2>1 DEF Fail
    <3> QED BY <2>1, <3>1, DropLockKeepsLocks
  <2>2. CASE ~(kind[w] = "delete" /\ w \notin TxnWriters)
    <3>1. /\ UNCHANGED <<wlock, db>> /\ pc' = [pc EXCEPT ![w] = "failed"]
          /\ pc[w] # "idle"
      BY <1>8, <2>2 DEF Fail
    <3> QED BY <1>0, <3>1, MovesOnKeepsLocks
  <2> QED BY <2>1, <2>2
<1>9. ASSUME NEW w \in Writers, Respond(w) \/ Checkpoint(w) PROVE LockOwner' /\ LockHeld'
  <2>1. /\ UNCHANGED <<wlock, db>> /\ pc[w] \in {"done", "ckpt"}
        /\ pc' = [pc EXCEPT ![w] = "ckpt"] \/ pc' = [pc EXCEPT ![w] = "answered"]
    BY <1>9 DEF Respond, Checkpoint
  <2>2. \A v \in Writers \ {w} : pc'[v] = pc[v]
    BY <1>0, <2>1
  <2>3. pc'[w] # "idle" /\ pc[w] # "idle"
        /\ pc[w] \notin {"begun", "issued", "queued", "failed", "graduated"}
    BY <1>0, <2>1
  <2> QED BY <2>1, <2>2, <2>3, MovesOnKeepsLocks
<1>10. ASSUME NEW w \in Writers, Graduate(w) PROVE LockOwner' /\ LockHeld'
  <2>1. UNCHANGED <<wlock, db>> /\ \A v \in Writers \ {w} : pc'[v] = pc[v]
    BY <1>0, <1>10 DEF Graduate
  <2>2. /\ pc[w] # "idle" /\ (w \in TxnWriters => pc'[w] # "idle")
        /\ w \notin TxnWriters => pc'[w] = "graduated" \/ pc[w] \in {"answered", "aborted"}
    BY <1>0, <1>10 DEF Graduate
  <2> QED BY <2>1, <2>2, MovesOnKeepsLocks
<1>11. ASSUME NEW w \in Writers, Abort(w) \/ EndTxn(w) PROVE LockOwner' /\ LockHeld'
  <2>1. /\ db' = db /\ DropLock(w) /\ \A v \in Writers \ {w} : pc'[v] = pc[v]
        /\ w \in TxnWriters => pc'[w] = "idle"
    BY <1>0, <1>11 DEF Abort, EndTxn
  <2> QED BY <2>1, DropLockKeepsLocks
<1>12. CASE UNCHANGED vars
  BY <1>12 DEF vars, LockOwner, LockHeld
<1> QED
  BY <1>1, <1>2, <1>3, <1>4, <1>5, <1>6, <1>7, <1>8, <1>9, <1>10, <1>11, <1>12
     DEF Next, Step

\* And only after graduating its CSN.
LEMMA NextInTxnKept ==
  ASSUME TypeOK, NextInTxn, [Next]_vars
  PROVE  NextInTxn'
<1>0. pc \in [Writers -> Pc]
  BY DEF TypeOK
<1>1. CASE Open \/ Close \/ Crash
  BY <1>1 DEF Open, Close, Crash, writerVars, NextInTxn
<1>2. ASSUME NEW w \in Writers, Begin(w) \/ Step(w) PROVE NextInTxn'
  <2>1. /\ \A v \in Writers \ {w} : pc'[v] = pc[v]
        /\ pc'[w] = "next" => w \in TxnWriters
    BY <1>0, <1>2
       DEF Begin, Step, IssueCsn, QueueCsn, Commit, ApplyInTxn, Fail, CommitFails,
           Respond, Checkpoint, Graduate, Abort, EndTxn
  <2> QED BY <2>1 DEF NextInTxn
<1>3. CASE UNCHANGED vars
  BY <1>3 DEF vars, NextInTxn
<1> QED BY <1>1, <1>2, <1>3 DEF Next

\* What ContextMonotone says of one step.
NoneGoesBack ==
  \A s \in Sids : /\ up /\ up' => ctxcsn'[s] >= ctxcsn[s]
                  /\ stored'[s] >= stored[s]

Ordered == StoredBehind' /\ DraftBetween' /\ NoneGoesBack

\* A step that changes neither contextCSN and begins no transaction on the
\* suffix database.
LEMMA SameContexts ==
  ASSUME TypeOK, StoredBehind, DraftBetween, UNCHANGED <<up, stored, ctxcsn>>,
         \A w \in Writers : wlock'[Root] = w =>
           wlock[Root] = w /\ draftCtx'[w] = draftCtx[w]
  PROVE  Ordered
<1>1. \A s \in Sids : stored[s] \in Nat /\ ctxcsn[s] \in Nat
  BY DEF TypeOK
<1> QED BY <1>1 DEF StoredBehind, DraftBetween, NoneGoesBack, Ordered

\* While no update is under way nobody holds the lock of the suffix database.
LEMMA IdleHoldsNothing ==
  ASSUME LockOwner, \A w \in Writers : pc[w] = "idle"
  PROVE  \A w \in Writers : wlock[Root] # w
BY DbAssumption DEF LockOwner

\* The contextCSN slapd opens with is not behind the stored one.
LEMMA OpenNotBehind ==
  ASSUME TypeOK, Open, NEW s \in Sids
  PROVE  stored[s] <= ctxcsn'[s]
<1>0. stored \in [Sids -> Nat] /\ ctxcsn' \in [Sids -> Nat] /\ LocalSid \in Sids
  BY OpenType, SidsAssumption DEF TypeOK
<1>1. CASE stored = NoCtx
  <2>1. stored[s] = 0 /\ ctxcsn'[s] \in Nat
    BY <1>0, <1>1
  <2> QED BY <2>1
<1>2. CASE stored # NoCtx
  BY <1>0, <1>2 DEF Open
<1> QED BY <1>1, <1>2

\* A response never lowers a contextCSN, and never leaves 0 where a value was.
LEMMA RespondRaises ==
  ASSUME TypeOK, NEW w \in Writers, Respond(w), NEW s \in Sids
  PROVE  ctxcsn[s] <= ctxcsn'[s]
<1> DEFINE r == csn[w].sid
           m == CommitCsn(queue', r)
<1>1. r \in Sids /\ queue' \in Seq(QueueEntry) /\ ctxcsn \in [Sids -> Nat]
  BY MarkCommitType DEF TypeOK, Respond
<1>2. m \in Nat
  BY <1>1, CommitCsnType
<1>3. \/ ctxcsn' = ctxcsn
      \/ Raises(m, ctxcsn[r]) /\ ctxcsn' = [ctxcsn EXCEPT ![r] = m]
  BY DEF Respond
<1> HIDE DEF r, m
<1> QED BY <1>1, <1>2, <1>3 DEF Raises

\* Every step keeps the order of the stored contextCSN, the one a transaction
\* carries and the one in memory, and lowers neither of the outer two.
LEMMA OrderStep ==
  ASSUME TypeOK, OrderInv, [Next]_vars
  PROVE  Ordered
<1>0. /\ pc \in [Writers -> Pc] /\ wlock \in [DBs -> Writers \cup {NoWriter}]
      /\ db \in [Writers -> DBs] /\ NoWriter \notin Writers /\ Root \in DBs
      /\ TxnWriters \subseteq Writers /\ up \in BOOLEAN
      /\ stored \in [Sids -> Nat] /\ ctxcsn \in [Sids -> Nat]
      /\ draftCtx \in [Writers -> [Sids -> Nat]]
  BY WritersAssumption, DbAssumption DEF TypeOK
<1>i. /\ IdleWhenDown /\ LockOwner /\ LockHeld /\ NextInTxn
      /\ StoredBehind /\ DraftBetween
  BY DEF OrderInv
<1>1. CASE Open
  <2>1. /\ ~up /\ UNCHANGED <<stored, wlock>>
        /\ \A s \in Sids : stored[s] <= ctxcsn'[s]
    BY <1>1, OpenNotBehind DEF Open, diskVars
  <2>2. \A w \in Writers : wlock[Root] # w
    BY <1>i, <2>1, IdleHoldsNothing DEF IdleWhenDown
  <2> QED BY <1>0, <2>1, <2>2 DEF StoredBehind, DraftBetween, NoneGoesBack, Ordered
<1>2. CASE Close
  <2>1. /\ up /\ ~up' /\ wlock' = wlock /\ stored' \in {stored, ctxcsn}
        /\ \A w \in Writers : pc[w] = "idle"
    BY <1>2 DEF Close
  <2>2. \A w \in Writers : wlock[Root] # w
    BY <1>i, <2>1, IdleHoldsNothing
  <2> QED BY <1>0, <1>i, <2>1, <2>2 DEF StoredBehind, DraftBetween, NoneGoesBack, Ordered
<1>3. CASE Crash
  <2>1. /\ ~up' /\ stored' = stored /\ \A w \in Writers : wlock'[Root] # w
    BY <1>0, <1>3 DEF Crash, diskVars
  <2> QED BY <1>0, <2>1 DEF StoredBehind, DraftBetween, NoneGoesBack, Ordered
<1>4. ASSUME NEW w \in Writers, Begin(w) PROVE Ordered
  <2>1. PICK d \in DBs : TakeLock(w, d)
    BY <1>4 DEF Begin
  <2>2. /\ up /\ UNCHANGED <<up, stored, ctxcsn>> /\ wlock' = [wlock EXCEPT ![d] = w]
        /\ draftCtx' = [draftCtx EXCEPT ![w] = stored] /\ pc[w] = "idle"
    BY <1>4, <2>1 DEF Begin, TakeLock, diskVars, provVars
  <2>3. \A v \in Writers : wlock'[Root] = v /\ v # w =>
          wlock[Root] = v /\ draftCtx'[v] = draftCtx[v]
    BY <1>0, <2>2
  <2>4. draftCtx'[w] = stored
    BY <1>0, <2>2
  <2>5. \A s \in Sids : stored[s] <= ctxcsn[s] /\ stored[s] <= stored[s]
                          /\ ctxcsn[s] <= ctxcsn[s]
    BY <1>0, <1>i, <2>2 DEF StoredBehind
  <2>6. DraftBetween'
    BY <1>i, <2>2, <2>3, <2>4, <2>5 DEF DraftBetween
  <2> QED BY <1>0, <2>2, <2>5, <2>6 DEF StoredBehind, NoneGoesBack, Ordered
<1>5. ASSUME NEW w \in Writers,
             IssueCsn(w) \/ QueueCsn(w) \/ ApplyInTxn(w) \/ Graduate(w)
      PROVE Ordered
  <2>1. UNCHANGED <<up, stored, ctxcsn, wlock, draftCtx>>
    BY <1>5 DEF IssueCsn, QueueCsn, ApplyInTxn, Graduate, diskVars, provVars, draftVars
  <2> QED BY <1>i, <2>1, SameContexts
<1>6. ASSUME NEW w \in Writers, Commit(w) \/ CommitFails(w) \/ Fail(w) \/ Abort(w)
      PROVE Ordered
  <2>1. UNCHANGED <<up, stored, ctxcsn>>
    BY <1>6 DEF Commit, CommitFails, Fail, Abort, diskVars, provVars
  <2>2. DropLock(w) \/ UNCHANGED <<wlock, draftCtx>>
    BY <1>6 DEF Commit, CommitFails, Fail, Abort, draftVars
  <2>3. CASE DropLock(w)
    BY <1>0, <1>i, <2>1, <2>3, DropLockLocks, SameContexts
  <2>4. CASE UNCHANGED <<wlock, draftCtx>>
    BY <1>i, <2>1, <2>4, SameContexts
  <2> QED BY <2>2, <2>3, <2>4
<1>7. ASSUME NEW w \in Writers, Respond(w) PROVE Ordered
  <2>1. UNCHANGED <<up, stored, wlock, draftCtx>>
    BY <1>7 DEF Respond, diskVars, draftVars
  <2>2. \A s \in Sids : ctxcsn[s] <= ctxcsn'[s] /\ ctxcsn'[s] \in Nat
    BY <1>7, RespondRaises, WriterType DEF Step, TypeOK
  <2>3. StoredBehind'
    BY <1>0, <1>i, <2>1, <2>2 DEF StoredBehind
  <2>4. DraftBetween'
    <3> SUFFICES ASSUME NEW v \in Writers, wlock[Root] = v, NEW s \in Sids
                 PROVE  stored[s] <= draftCtx[v][s] /\ draftCtx[v][s] <= ctxcsn'[s]
      BY <2>1 DEF DraftBetween
    <3>1. /\ stored[s] <= draftCtx[v][s] /\ draftCtx[v][s] <= ctxcsn[s]
          /\ draftCtx[v][s] \in Nat
      BY <1>0, <1>i DEF DraftBetween
    <3> QED BY <1>0, <2>2, <3>1
  <2> QED BY <1>0, <2>1, <2>2, <2>3, <2>4 DEF NoneGoesBack, Ordered
<1>8. ASSUME NEW w \in Writers, Checkpoint(w) PROVE Ordered
  <2>0. up /\ pc[w] = "ckpt" /\ UNCHANGED <<up, ctxcsn, wlock>>
    BY <1>0, <1>8, <1>i DEF Checkpoint, IdleWhenDown
  <2>o. \A s \in Sids : stored[s] <= ctxcsn[s]
    BY <1>i, <2>0 DEF StoredBehind
  <2>r. \A s \in Sids : ctxcsn[s] <= ctxcsn[s] /\ stored[s] <= stored[s]
    BY <1>0
  <2>1. CASE wlock[Root] = w /\ draftCtx' = [draftCtx EXCEPT ![w] = ctxcsn]
             /\ stored' = stored
    <3>1. draftCtx'[w] = ctxcsn /\ \A v \in Writers : wlock[Root] = v => v = w
      BY <1>0, <2>1
    <3>2. DraftBetween'
      BY <2>0, <2>1, <2>o, <2>r, <3>1 DEF DraftBetween
    <3> QED BY <1>0, <2>0, <2>1, <2>o, <3>2 DEF StoredBehind, NoneGoesBack, Ordered
  <2>2. CASE wlock[Root] = NoWriter /\ stored' = ctxcsn /\ draftCtx' = draftCtx
    <3>1. DraftBetween'
      BY <1>0, <2>0, <2>2 DEF DraftBetween
    <3> QED BY <1>0, <2>0, <2>2, <2>o, <2>r, <3>1 DEF StoredBehind, NoneGoesBack, Ordered
  <2>3. CASE UNCHANGED <<stored, draftCtx>>
    BY <1>i, <2>0, <2>3, SameContexts
  <2> QED BY <1>8, <2>1, <2>2, <2>3 DEF Checkpoint
<1>9. ASSUME NEW w \in Writers, EndTxn(w) PROVE Ordered
  <2>1. /\ pc[w] = "next" /\ UNCHANGED <<up, ctxcsn>> /\ DropLock(w)
        /\ stored' = IF db[w] = Root THEN draftCtx[w] ELSE stored
    BY <1>9 DEF EndTxn, provVars
  <2>2. CASE db[w] = Root /\ w \in TxnWriters
    <3>1. wlock[Root] = w /\ stored' = draftCtx[w]
      BY <1>i, <2>1, <2>2 DEF LockHeld
    <3>2. \A s \in Sids : stored[s] <= stored'[s] /\ stored'[s] <= ctxcsn[s]
                            /\ stored'[s] \in Nat
      BY <1>0, <1>i, <3>1 DEF DraftBetween
    <3>3. \A v \in Writers : wlock'[Root] # v
      BY <1>0, <2>1, <3>1, DropLockLocks
    <3> QED BY <1>0, <2>1, <3>2, <3>3 DEF StoredBehind, DraftBetween, NoneGoesBack, Ordered
  <2>3. CASE db[w] # Root
    BY <1>0, <1>i, <2>1, <2>3, DropLockLocks, SameContexts
  <2>4. w \in TxnWriters
    BY <1>i, <2>1 DEF NextInTxn
  <2> QED BY <2>2, <2>3, <2>4
<1>10. CASE UNCHANGED vars
  <2>1. UNCHANGED <<up, stored, ctxcsn, wlock, draftCtx>>
    BY <1>10 DEF vars
  <2> QED BY <1>i, <2>1, SameContexts
<1> QED
  BY <1>1, <1>2, <1>3, <1>4, <1>5, <1>6, <1>7, <1>8, <1>9, <1>10 DEF Next, Step

\* OrderInv holds in every reachable state.
LEMMA OrderAlways == Spec => []OrderInv
<1>1. Init => OrderInv
  BY WritersAssumption, DbAssumption
     DEF Init, OrderInv, IdleWhenDown, LockOwner, LockHeld, NextInTxn, StoredBehind,
         DraftBetween
<1>2. TypeOK /\ OrderInv /\ [Next]_vars => OrderInv'
  BY IdleWhenDownKept, LocksKept, NextInTxnKept, OrderStep DEF OrderInv, Ordered
<1> QED BY <1>1, <1>2, TypeCorrect, PTL DEF Spec

\* While slapd runs no contextCSN goes back, and the stored one never does, not
\* even across crashes, failed checkpoints and checkpoints made inside LDAP
\* transactions that commit later: for any writers, databases and server IDs.
THEOREM ContextNeverBack == Spec => ContextMonotone
<1>1. TypeOK /\ OrderInv /\ [Next]_vars => [NoneGoesBack]_vars
  BY OrderStep DEF Ordered
<1>2. NoneGoesBack
        <=> \A s \in Sids : /\ up /\ up' => ctxcsn'[s] >= ctxcsn[s]
                            /\ stored'[s] >= stored[s]
  BY DEF NoneGoesBack
<1> QED BY <1>1, <1>2, TypeCorrect, OrderAlways, PTL DEF Spec, ContextMonotone

-----------------------------------------------------------------------------
(***************************************************************************)
(* Shutdown without LDAP transactions, when the checkpoint does not fail:   *)
(* si_numops counts every change of contextCSN since the last checkpoint.    *)
(***************************************************************************)

\* si_resp_mutex is kept only by a writer at its checkpoint.
RespAtCheckpoint == resp # NoWriter => pc[resp] = "ckpt"

\* No operation counted and no checkpoint under way: nothing is left to store.
StoredWhenQuiet == up /\ numops = 0 /\ resp = NoWriter => stored = ctxcsn

\* The mutex is taken with the decision to checkpoint and given up after it.
LEMMA RespAtCheckpointKept ==
  ASSUME TypeOK, RespAtCheckpoint, [Next]_vars
  PROVE  RespAtCheckpoint'
<1>0. /\ pc \in [Writers -> Pc] /\ resp \in Writers \cup {NoWriter}
      /\ NoWriter \notin Writers
  BY WritersAssumption DEF TypeOK
<1> USE DEF RespAtCheckpoint
<1>1. CASE Open \/ Close \/ Crash
  BY <1>1 DEF Open, Close, Crash, writerVars
<1>2. ASSUME NEW w \in Writers,
             Begin(w) \/ IssueCsn(w) \/ QueueCsn(w) \/ Commit(w) \/ ApplyInTxn(w)
               \/ Fail(w) \/ CommitFails(w) \/ Graduate(w) \/ Abort(w) \/ EndTxn(w)
      PROVE RespAtCheckpoint'
  <2>1. /\ resp' = resp /\ pc[w] # "ckpt" /\ \A v \in Writers \ {w} : pc'[v] = pc[v]
    BY <1>0, <1>2 DEF Begin, IssueCsn, QueueCsn, Commit, ApplyInTxn, Fail, CommitFails,
                      Graduate, Abort, EndTxn, provVars
  <2> QED BY <1>0, <2>1
<1>3. ASSUME NEW w \in Writers, Respond(w) PROVE RespAtCheckpoint'
  <2>1. \/ resp' = w /\ pc' = [pc EXCEPT ![w] = "ckpt"]
        \/ resp' = NoWriter
    BY <1>3 DEF Respond
  <2> QED BY <1>0, <2>1
<1>4. ASSUME NEW w \in Writers, Checkpoint(w) PROVE RespAtCheckpoint'
  BY <1>4 DEF Checkpoint
<1>5. CASE UNCHANGED vars
  BY <1>5 DEF vars
<1> QED BY <1>1, <1>2, <1>3, <1>4, <1>5 DEF Next, Step

\* A change of contextCSN is counted, and the count reset only with a checkpoint.
LEMMA StoredWhenQuietKept ==
  ASSUME TxnWriters = {}, ~CkptMayFail, TypeOK, OrderInv, RespAtCheckpoint,
         StoredWhenQuiet, [Next]_vars
  PROVE  StoredWhenQuiet'
<1>0. numops \in Nat
  BY DEF TypeOK
<1>1. CASE Open
  <2>1. stored' = stored /\ (numops' = numops + 1 \/ ctxcsn' = stored)
    BY <1>1 DEF Open, diskVars
  <2> QED BY <1>0, <2>1 DEF StoredWhenQuiet
<1>2. CASE Close \/ Crash
  BY <1>2 DEF Close, Crash, StoredWhenQuiet
<1>3. ASSUME NEW w \in Writers,
             Begin(w) \/ IssueCsn(w) \/ QueueCsn(w) \/ Commit(w) \/ ApplyInTxn(w)
               \/ Fail(w) \/ CommitFails(w) \/ Graduate(w) \/ Abort(w)
      PROVE StoredWhenQuiet'
  <2>1. UNCHANGED <<up, numops, resp, stored, ctxcsn>>
    BY <1>3 DEF Begin, IssueCsn, QueueCsn, Commit, ApplyInTxn, Fail, CommitFails,
                Graduate, Abort, provVars, diskVars
  <2> QED BY <2>1 DEF StoredWhenQuiet
<1>4. ASSUME NEW w \in Writers, EndTxn(w) PROVE StoredWhenQuiet'
  BY <1>4 DEF EndTxn, OrderInv, NextInTxn
<1>5. ASSUME NEW w \in Writers, Respond(w) PROVE StoredWhenQuiet'
  <2> SUFFICES ASSUME up', numops' = 0, resp' = NoWriter
               PROVE  stored' = ctxcsn'
    BY DEF StoredWhenQuiet
  <2>1. up /\ resp = NoWriter /\ stored' = stored
    BY <1>5 DEF Respond, diskVars
  <2> DEFINE changed == Raises(CommitCsn(queue', csn[w].sid), ctxcsn[csn[w].sid])
             count == IF changed THEN numops + 1 ELSE numops
  <2>2. /\ ctxcsn' # ctxcsn => changed
        /\ \E elapsed \in BOOLEAN :
             /\ numops' = NumopsLeft(count)
             /\ CheckpointDue(count, elapsed) => resp' = w
    BY <1>5 DEF Respond
  <2>3. w # NoWriter
    BY WritersAssumption
  <2>4. numops' = NumopsLeft(count) /\ ~(ChkOps > 0 /\ count >= ChkOps)
    BY <2>2, <2>3 DEF CheckpointDue
  <2>5. count = 0
    BY <2>4 DEF NumopsLeft
  <2>6. ~changed /\ numops = 0
    BY <1>0, <2>5
  <2> QED BY <2>1, <2>2, <2>6 DEF StoredWhenQuiet
<1>6. ASSUME NEW w \in Writers, Checkpoint(w) PROVE StoredWhenQuiet'
  <2>1. wlock[Root] # w
    BY <1>6, DbAssumption DEF Checkpoint, OrderInv, LockOwner
  <2>2. stored' = ctxcsn /\ ctxcsn' = ctxcsn
    BY <1>6, <2>1 DEF Checkpoint
  <2> QED BY <2>2 DEF StoredWhenQuiet
<1>7. CASE UNCHANGED vars
  BY <1>7 DEF vars, StoredWhenQuiet
<1> QED BY <1>1, <1>2, <1>3, <1>4, <1>5, <1>6, <1>7 DEF Next, Step

\* Without LDAP transactions, and unless the checkpoint's modify fails, a clean
\* shutdown stores the contextCSN of memory: the one case that stores nothing is
\* the one where nothing has changed since the last checkpoint.
THEOREM ShutdownStoresContext ==
  ASSUME TxnWriters = {}, ~CkptMayFail
  PROVE  Spec => ShutdownKeepsContext
<1> DEFINE QuietInv == RespAtCheckpoint /\ StoredWhenQuiet
           Kept == up /\ ~up' /\ clean' => stored' = ctxcsn
<1>1. Init => QuietInv
  BY DEF Init, RespAtCheckpoint, StoredWhenQuiet
<1>2. TypeOK /\ OrderInv /\ QuietInv /\ [Next]_vars => QuietInv'
  BY RespAtCheckpointKept, StoredWhenQuietKept
<1>3. TypeOK /\ OrderInv /\ QuietInv /\ [Next]_vars => [Kept]_vars
  <2> SUFFICES ASSUME TypeOK, QuietInv, Next, up, ~up', clean' PROVE stored' = ctxcsn
    BY DEF TypeOK
  <2>1. CASE Close
    <3>1. resp = NoWriter
      BY <2>1 DEF Close, RespAtCheckpoint, TypeOK
    <3> QED BY <2>1, <3>1 DEF Close, StoredWhenQuiet
  <2>2. ~Crash /\ ~Open
    BY DEF Crash, Open
  <2>3. ASSUME NEW w \in Writers, Begin(w) \/ Step(w) PROVE FALSE
    <3>1. up' = up
      BY <2>3 DEF Begin, Step, IssueCsn, QueueCsn, Commit, ApplyInTxn, Fail, CommitFails,
                  Respond, Checkpoint, Graduate, Abort, EndTxn
    <3> QED BY <3>1
  <2> QED BY <2>1, <2>2, <2>3 DEF Next
<1>4. Kept <=> (up /\ ~up' /\ clean' => stored' = ctxcsn)
  OBVIOUS
<1> HIDE DEF QuietInv, Kept
<1>5. Spec => [][Kept]_vars
  BY <1>1, <1>2, <1>3, TypeCorrect, OrderAlways, PTL DEF Spec
<1> QED BY <1>4, <1>5, PTL DEF ShutdownKeepsContext

=============================================================================
