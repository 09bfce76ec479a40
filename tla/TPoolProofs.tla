---------------------------- MODULE TPoolProofs ----------------------------
(***************************************************************************)
(* Proofs about TPool, for any queues and threads.                         *)
(***************************************************************************)
EXTENDS TPool, FiniteSetTheorems, TLAPS

Shapes ==
  /\ pc \in [Threads -> Pc] /\ todo \in [Threads -> SUBSET Queues]
  /\ pool \in Threads \cup {Nobody} /\ hidden \in SUBSET Queues

\* These places come with the pool's mutex; ...
Holding == {"want", "hide", "restore", "store", "show"}
\* ... these belong to the thread that pauses the pool.
Pausing == {"hide", "await", "restore", "store", "alone"}
Special == Holding \cup Pausing

Holders == \A t \in Threads : pc[t] \in Holding => pool = t
OnePause ==
  /\ \A t, u \in Threads : pc[t] \in Pausing /\ pc[u] \in Pausing => t = u
  /\ \A t \in Threads : pc[t] \in Pausing => pause # "NOT_PAUSED"
  /\ \A t \in Threads : pc[t] \in {"want", "show"} => pause = "NOT_PAUSED"
  /\ pause # "NOT_PAUSED" => \E t \in Threads : pc[t] \in Pausing
Hidden ==
  \A t \in Threads :
    /\ pc[t] = "hide" => Queues \ todo[t] \subseteq hidden
    /\ pc[t] \in Pausing \ {"hide"} => hidden = Queues
PauseInv == Holders /\ OnePause /\ Hidden

-----------------------------------------------------------------------------
\* What a step that has nothing to do with a pause leaves alone.
Quiet ==
  /\ \A u \in Threads : pc'[u] = pc[u] \/ (pc[u] \notin Special /\ pc'[u] \notin Special)
  /\ pause' = pause /\ hidden' = hidden /\ todo' = todo
  /\ pool' = pool \/ pool = Nobody \/ \E t \in Threads : pool = t /\ pc[t] \notin Special

\* Such a step keeps the invariant.
LEMMA QuietKeeps == ASSUME PauseInv, Quiet PROVE PauseInv'
<1>1. Holders'
  BY PoolAssumption DEF PauseInv, Holders, Quiet, Special
<1>2. OnePause'
  BY DEF PauseInv, OnePause, Quiet, Special, Holding
<1>3. Hidden'
  BY DEF PauseInv, Hidden, Quiet, Special, Pausing
<1> QED
  BY <1>1, <1>2, <1>3 DEF PauseInv

\* A signal wakes at most one thread, which slept.
LEMMA SignalWakes ==
  ASSUME NEW q \in Queues, NEW after \in [Threads -> Pc], Signal(q, after)
  PROVE  /\ pc' \in [Threads -> Pc]
         /\ \A t \in Threads : pc'[t] = after[t] \/ (after[t] = "sleep" /\ pc'[t] = "woken")
  BY DEF Signal, Pc

\* Every step but those of a pause is one.
LEMMA QuietSteps ==
  ASSUME Shapes, sub \in {<<>>} \cup (Queues \X Queues),
         \/ Submitting \/ Close \/ Closing
         \/ \E t \in Threads : AskPause(t) \/ Start(t)
              \/ StartWait(t) \/ Ready(t) \/ Look(t) \/ Last(t) \/ Tell(t)
              \/ Sleep(t) \/ PoolWoken(t) \/ Wake(t) \/ Exit(t) \/ ExitUnlocked(t)
              \/ EndTask(t) \/ GoIdle(t) \/ NoWait(t)
  PROVE  Quiet
<1>1. CASE Choose
  BY <1>1 DEF Choose, Quiet, poolVars, threadVars
<1>2. CASE TryNext
  BY <1>2 DEF TryNext, Quiet, poolVars, threadVars
<1>3. CASE Submit
  <2>1. PICK after \in [Threads -> Pc] :
          /\ pc' = after \/ Signal(sub[1], after)
          /\ \A u \in Threads : after[u] = pc[u] \/ (pc[u] = "none" /\ after[u] = "start")
    <3>1. CASE pc' = pc \/ Signal(sub[1], pc)
      BY <3>1 DEF Shapes
    <3>2. ASSUME NEW t \in Threads, pc[t] = "none", Signal(sub[1], [pc EXCEPT ![t] = "start"])
          PROVE  \E after \in [Threads -> Pc] :
                   /\ pc' = after \/ Signal(sub[1], after)
                   /\ \A u \in Threads :
                        after[u] = pc[u] \/ (pc[u] = "none" /\ after[u] = "start")
      <4> DEFINE started == [pc EXCEPT ![t] = "start"]
      <4>1. /\ started \in [Threads -> Pc] /\ Signal(sub[1], started)
            /\ \A u \in Threads : started[u] = pc[u] \/ (pc[u] = "none" /\ started[u] = "start")
        BY <3>2 DEF Shapes, Pc
      <4> HIDE DEF started
      <4> QED
        BY <4>1
    <3> QED
      BY <1>3, <3>1, <3>2 DEF Submit, Workers
  <2>2. sub[1] \in Queues
    BY <1>3 DEF Submit
  <2> QED
    BY <1>3, <2>1, <2>2, SignalWakes DEF Submit, Quiet, Special, Holding, Pausing,
       poolVars, threadVars
<1>4. CASE SubmitFails
  BY <1>4 DEF SubmitFails, Quiet, poolVars, threadVars
<1>5. CASE Close
  BY <1>5 DEF Close, Woken, PoolSleepers, Quiet, Special, Holding, Pausing, threadVars
<1>6. CASE CloseLook
  BY <1>6 DEF CloseLook, Woken, Sleepers, Quiet, Special, Holding, Pausing, poolVars,
     threadVars
<1>7. CASE CloseWait
  BY <1>7 DEF CloseWait, Quiet, poolVars, threadVars
<1>8. CASE CloseNext
  BY <1>8 DEF CloseNext, Quiet, poolVars, threadVars
<1>9. ASSUME NEW t \in Threads, AskPause(t) PROVE Quiet
  BY <1>9 DEF AskPause, Goto, Shapes, Quiet, Special, Holding, Pausing, poolVars
<1>10. ASSUME NEW t \in Threads, Start(t) PROVE Quiet
  BY <1>10 DEF Start, Goto, Quiet, Special, Holding, Pausing, poolVars, threadVars
<1>11. ASSUME NEW t \in Threads, StartWait(t) PROVE Quiet
  BY <1>11 DEF StartWait, Goto, Quiet, Special, Holding, Pausing, poolVars, threadVars
<1>12. ASSUME NEW t \in Threads, Ready(t) PROVE Quiet
  BY <1>12 DEF Ready, Goto, Quiet, Special, Holding, Pausing, poolVars, threadVars
<1>13. ASSUME NEW t \in Threads, Look(t) PROVE Quiet
  BY <1>13 DEF Look, Goto, TakeTask, Shapes, Quiet, Special, Holding, Pausing, poolVars
<1>14. ASSUME NEW t \in Threads, Last(t) PROVE Quiet
  BY <1>14 DEF Last, Goto, Shapes, Quiet, Special, Holding, Pausing, poolVars,
     threadVars
<1>15. ASSUME NEW t \in Threads, Tell(t) PROVE Quiet
  BY <1>15 DEF Tell, Goto, Quiet, Special, Holding, Pausing, threadVars
<1>16. ASSUME NEW t \in Threads, Sleep(t) PROVE Quiet
  BY <1>16 DEF Sleep, Goto, Shapes, Quiet, Special, Holding, Pausing, poolVars,
     threadVars
<1>17. ASSUME NEW t \in Threads, PoolWoken(t) PROVE Quiet
  BY <1>17 DEF PoolWoken, Goto, Shapes, Quiet, Special, Holding, Pausing, poolVars,
     threadVars
<1>18. ASSUME NEW t \in Threads, Wake(t) PROVE Quiet
  BY <1>18 DEF Wake, Goto, TakeTask, Shapes, Quiet, Special, Holding, Pausing, poolVars
<1>19. ASSUME NEW t \in Threads, Exit(t) PROVE Quiet
  BY <1>19 DEF Exit, Leaves, Goto, Shapes, Quiet, Special, Holding, Pausing, poolVars
<1>23. ASSUME NEW t \in Threads, ExitUnlocked(t) PROVE Quiet
  BY <1>23 DEF ExitUnlocked, Leaves, Goto, Shapes, Quiet, Special, Holding, Pausing, poolVars
<1>20. ASSUME NEW t \in Threads, EndTask(t) PROVE Quiet
  BY <1>20 DEF EndTask, Goto, Quiet, Special, Holding, Pausing, poolVars, threadVars
<1>21. ASSUME NEW t \in Threads, GoIdle(t) PROVE Quiet
  BY <1>21 DEF GoIdle, Goto, Quiet, Special, Holding, Pausing, threadVars
<1>22. ASSUME NEW t \in Threads, NoWait(t) PROVE Quiet
  BY <1>22 DEF NoWait, Goto, Quiet, Special, Holding, Pausing, poolVars, threadVars
<1> QED
  BY <1>1, <1>2, <1>3, <1>4, <1>5, <1>6, <1>7, <1>8, <1>9, <1>10, <1>11, <1>12, <1>13,
     <1>14, <1>15, <1>16, <1>17, <1>18, <1>19, <1>20, <1>21, <1>22, <1>23 DEF Submitting,
     Closing

\* A pause is announced and ended with the pool's mutex, by one thread at a time;
\* only its thread hides lists, and shows them when the pause is over.
LEMMA PauseSteps ==
  ASSUME Shapes, PauseInv, NEW t \in Threads,
         \/ GoUnidle(t) \/ Want(t) \/ Await(t) \/ Restore(t) \/ Resume(t) \/ Resumed(t)
         \/ \E q \in Queues : Hide(t, q) \/ Show(t, q)
  PROVE  PauseInv'
<1>1. ASSUME GoUnidle(t) PROVE PauseInv'
  BY <1>1, PoolAssumption DEF GoUnidle, Goto, Shapes, PauseInv, Holders, OnePause,
     Hidden, Holding, Pausing, poolVars
<1>2. ASSUME Want(t) PROVE PauseInv'
  <2>1. Holders'
    BY <1>2, PoolAssumption DEF Want, Goto, PauseInv, Holders, Holding
  <2>2. OnePause'
    BY <1>2, PoolAssumption DEF Want, Goto, Shapes, PauseInv, Holders, Holding,
       OnePause, Pausing
  <2>3. Hidden'
    BY <1>2 DEF Want, Goto, Shapes, PauseInv, Hidden
  <2> QED
    BY <2>1, <2>2, <2>3 DEF PauseInv
<1>3. ASSUME Await(t) PROVE PauseInv'
  BY <1>3 DEF Await, Goto, PauseInv, Holders, OnePause, Hidden, Holding, Pausing,
     poolVars
<1>4. ASSUME Restore(t) PROVE PauseInv'
  BY <1>4 DEF Restore, Goto, Shapes, PauseInv, Holders, OnePause, Hidden, Holding,
     Pausing
<1>5. ASSUME Resume(t) PROVE PauseInv'
  BY <1>5 DEF Resume, Goto, Shapes, PauseInv, Holders, OnePause, Hidden, Holding,
     Pausing
<1>6. ASSUME Resumed(t) PROVE PauseInv'
  BY <1>6 DEF Resumed, Woken, PoolSleepers, PauseInv, Holders, OnePause, Hidden,
     Holding, Pausing, poolVars
<1>7. ASSUME NEW q \in Queues, Hide(t, q) PROVE PauseInv'
  BY <1>7 DEF Hide, Goto, HideList, Others, Shapes, PauseInv, Holders, OnePause, Hidden,
     Holding, Pausing
<1>8. ASSUME NEW q \in Queues, Show(t, q) PROVE PauseInv'
  <2>1. Holders'
    BY <1>8 DEF Show, Woken, Sleepers, PauseInv, Holders, Holding
  <2>2. OnePause'
    BY <1>8 DEF Show, Woken, Sleepers, PauseInv, poolVars, OnePause, Pausing
  <2>3. Hidden'
    BY <1>8 DEF Show, Woken, Sleepers, PauseInv, OnePause, Hidden, Pausing
  <2> QED
    BY <2>1, <2>2, <2>3 DEF PauseInv
<1> QED
  BY <1>1, <1>2, <1>3, <1>4, <1>5, <1>6, <1>7, <1>8

-----------------------------------------------------------------------------
\* TypeOK without what it takes the counts to show.
CountTypes ==
  /\ list \in [Queues -> Nat] /\ open \in [Queues -> Int]
  /\ pending \in [Queues -> Int] /\ active \in [Queues -> Int]
RestTypes ==
  /\ pause \in {"NOT_PAUSED", "WANT_PAUSE", "PAUSED"}
  /\ finishing \in BOOLEAN /\ activeQueues \in Int
  /\ mutex \in [Queues -> Threads \cup {Nobody, "main"}]
  /\ rejecting \in SUBSET Queues
  /\ asked \in [Threads -> BOOLEAN] /\ copy \in [Threads -> Int]
  /\ sub \in {<<>>} \cup (Queues \X Queues) /\ submitted \in 0 .. MaxSubmits
  /\ closer \in {"off", "lock", "sleep", "wait", "woken", "next", "closed"}
  /\ closing \in Queues
  /\ \A t \in Threads : pc[t] = "exit" => finishing
Typed == Shapes /\ CountTypes /\ RestTypes

OpenIn(q) == {t \in Workers(q) : pc[t] # "none"}

\* What the counts count, ltp_open_count until the pool is closed.
CountedIn(q) ==
  /\ pending[q] = list[q] + Cardinality(IdleIn(q))
  /\ ~finishing => open[q] = Cardinality(OpenIn(q))
Counted == \A q \in Queues : CountedIn(q)

\* Only t goes from one class of places to another.
Waiting == {"sleep", "woken", "poolsleep", "poolwoken"}
Stays(u) == todo'[u] = todo[u] /\ (pc'[u] = pc[u] \/ (pc[u] \in Waiting /\ pc'[u] \in Waiting))
Only(t) == \A u \in Threads \ {t} : Stays(u)
Still   == \A u \in Threads : Stays(u)

Is(b) == IF b THEN 1 ELSE 0
Idle(t)   == pc[t] \in {"idlepausing", "idlewaiting"}
Active(t) == \/ pc[t] \in {"look", "run", "pausing", "waiting", "want", "alone", "show"}
             \/ pc[t] = "hide" /\ todo[t] = Queues

\* A step of t that changes no count keeps t in its class; ...
Moves(t) ==
  /\ Only(t) /\ UNCHANGED countVars
  /\ Idle(t)' <=> Idle(t)
  /\ Active(t)' <=> Active(t)
  /\ pc'[t] = "none" <=> pc[t] = "none"

\* ... the others change the counts of its queue as t changes classes.
Changed(f, t, n) ==
  \A r \in Queues : f'[r] = IF r = QueueOf[t] THEN f[r] + n ELSE f[r]
Books(t, listed, opened, activated) ==
  /\ Only(t)
  /\ Changed(list, t, listed)
  /\ Changed(pending, t, listed + Is(Idle(t)') - Is(Idle(t)))
  /\ Changed(open, t, opened)
  /\ finishing \/ opened = Is(pc'[t] # "none") - Is(pc[t] # "none")
  /\ Changed(active, t, activated)
  /\ \/ pc[t] \in {"restore", "store"}
     \/ activated = Is(Active(t)') - Is(Active(t))

\* The sizes of two sets that agree but on one element.
LEMMA OneApart ==
  ASSUME NEW S, NEW R, NEW t, IsFiniteSet(S), IsFiniteSet(R), S \ {t} = R \ {t}
  PROVE  /\ Cardinality(S) \in Nat /\ Cardinality(R) \in Nat
         /\ Cardinality(R) = Cardinality(S) + Is(t \in R) - Is(t \in S)
<1>1. Cardinality(S) \in Nat /\ Cardinality(R) \in Nat
  BY FS_CardinalityType
<1>2. Cardinality(S \ {t}) = Cardinality(S) - Is(t \in S)
  BY <1>1, FS_RemoveElement DEF Is
<1>3. Cardinality(R \ {t}) = Cardinality(R) - Is(t \in R)
  BY <1>1, FS_RemoveElement DEF Is
<1> QED
  BY <1>1, <1>2, <1>3 DEF Is

\* Every set of a queue's threads is finite.
LEMMA WorkersFinite ==
  ASSUME NEW q \in Queues, NEW S \in SUBSET Workers(q)
  PROVE  IsFiniteSet(S)
<1>1. S \subseteq Threads
  BY DEF Workers
<1> QED
  BY <1>1, PoolAssumption, FS_Subset

\* How the classes change when one thread moves, ...
LEMMA Recount ==
  ASSUME Shapes, Shapes', NEW t \in Threads, Only(t), NEW q \in Queues
  PROVE  /\ Cardinality(IdleIn(q)) \in Nat /\ Cardinality(IdleIn(q)') \in Nat
         /\ Cardinality(OpenIn(q)) \in Nat /\ Cardinality(OpenIn(q)') \in Nat
         /\ Cardinality(ActiveIn(q)) \in Nat /\ Cardinality(ActiveIn(q)') \in Nat
         /\ q # QueueOf[t] =>
              /\ Cardinality(IdleIn(q)') = Cardinality(IdleIn(q))
              /\ Cardinality(OpenIn(q)') = Cardinality(OpenIn(q))
              /\ Cardinality(ActiveIn(q)') = Cardinality(ActiveIn(q))
         /\ q = QueueOf[t] =>
              /\ Cardinality(IdleIn(q)') = Cardinality(IdleIn(q)) + Is(Idle(t)') - Is(Idle(t))
              /\ Cardinality(OpenIn(q)') =
                   Cardinality(OpenIn(q)) + Is(pc'[t] # "none") - Is(pc[t] # "none")
              /\ Cardinality(ActiveIn(q)') =
                   Cardinality(ActiveIn(q)) + Is(Active(t)') - Is(Active(t))
<1>1. /\ IdleIn(q) \in SUBSET Workers(q) /\ IdleIn(q)' \in SUBSET Workers(q)
      /\ OpenIn(q) \in SUBSET Workers(q) /\ OpenIn(q)' \in SUBSET Workers(q)
      /\ ActiveIn(q) \in SUBSET Workers(q) /\ ActiveIn(q)' \in SUBSET Workers(q)
  BY DEF IdleIn, OpenIn, ActiveIn
<1>2. /\ IsFiniteSet(IdleIn(q)) /\ IsFiniteSet(IdleIn(q)')
      /\ IsFiniteSet(OpenIn(q)) /\ IsFiniteSet(OpenIn(q)')
      /\ IsFiniteSet(ActiveIn(q)) /\ IsFiniteSet(ActiveIn(q)')
  BY <1>1, WorkersFinite
<1>3. IdleIn(q) \ {t} = IdleIn(q)' \ {t}
  BY DEF IdleIn, Workers, Only, Stays, Waiting
<1>4. OpenIn(q) \ {t} = OpenIn(q)' \ {t}
  BY DEF OpenIn, Workers, Only, Stays, Waiting
<1>5. ActiveIn(q) \ {t} = ActiveIn(q)' \ {t}
  BY DEF ActiveIn, Workers, Only, Stays, Waiting
<1>6. CASE q = QueueOf[t]
  <2>1. /\ t \in IdleIn(q) <=> Idle(t)
        /\ t \in IdleIn(q)' <=> Idle(t)'
        /\ t \in OpenIn(q) <=> pc[t] # "none"
        /\ t \in OpenIn(q)' <=> pc'[t] # "none"
        /\ t \in ActiveIn(q) <=> Active(t)
        /\ t \in ActiveIn(q)' <=> Active(t)'
    BY <1>6 DEF IdleIn, OpenIn, ActiveIn, Workers, Idle, Active
  <2> QED
    BY <1>2, <1>3, <1>4, <1>5, <1>6, <2>1, OneApart DEF Is
<1>7. CASE q # QueueOf[t]
  <2>1. IdleIn(q)' = IdleIn(q) /\ OpenIn(q)' = OpenIn(q) /\ ActiveIn(q)' = ActiveIn(q)
    BY <1>3, <1>4, <1>5, <1>7 DEF IdleIn, OpenIn, ActiveIn, Workers
  <2> QED
    BY <1>2, <1>7, <2>1, FS_CardinalityType
<1> QED
  BY <1>6, <1>7

\* ... and that they do not when none does.
LEMMA Unmoved ==
  ASSUME Still, NEW q \in Queues
  PROVE  /\ IdleIn(q)' = IdleIn(q) /\ OpenIn(q)' = OpenIn(q)
         /\ ActiveIn(q)' = ActiveIn(q)
<1>1. /\ IdleIn(q)' = IdleIn(q) /\ OpenIn(q)' = OpenIn(q)
  BY DEF IdleIn, OpenIn, Workers, Still, Stays, Waiting
<1>2. ActiveIn(q)' = ActiveIn(q)
  BY DEF ActiveIn, Workers, Still, Stays, Waiting
<1> QED
  BY <1>1, <1>2

\* The classes have sizes.
LEMMA CardinalitiesNat ==
  ASSUME NEW q \in Queues
  PROVE  /\ Cardinality(IdleIn(q)) \in Nat /\ Cardinality(OpenIn(q)) \in Nat
         /\ Cardinality(ActiveIn(q)) \in Nat
<1>1. /\ IdleIn(q) \in SUBSET Workers(q) /\ OpenIn(q) \in SUBSET Workers(q)
      /\ ActiveIn(q) \in SUBSET Workers(q)
  BY DEF IdleIn, OpenIn, ActiveIn
<1> QED
  BY <1>1, WorkersFinite, FS_CardinalityType

\* No count of pending tasks is negative.
LEMMA CountsAreTyped == ASSUME Typed, Counted PROVE TypeOK
<1>1. \A q \in Queues : pending[q] \in Nat
  BY CardinalitiesNat DEF Typed, CountTypes, Counted, CountedIn
<1>2. pending \in [Queues -> Nat]
  BY <1>1 DEF Typed, CountTypes
<1> QED
  BY <1>2 DEF Typed, CountTypes, RestTypes, Shapes, TypeOK

\* A task is queued and perhaps a thread created: it is the only one that moves.
LEMMA SubmitMoves ==
  ASSUME Shapes, Submit, sub \in {<<>>} \cup (Queues \X Queues)
  PROVE  /\ sub[1] \in Queues /\ pc' \in [Threads -> Pc]
         /\ \/ Still /\ open' = open
            \/ \E t \in Threads :
                 /\ QueueOf[t] = sub[1] /\ pc[t] = "none" /\ pc'[t] = "start" /\ Only(t)
                 /\ open' = Add(open, sub[1], 1)
<1>1. sub[1] \in Queues /\ todo' = todo
  BY DEF Submit, threadVars
<1>2. CASE (pc' = pc \/ Signal(sub[1], pc)) /\ open' = open
  BY <1>1, <1>2, SignalWakes DEF Shapes, Still, Stays, Waiting
<1>3. ASSUME NEW t \in Workers(sub[1]), pc[t] = "none",
             Signal(sub[1], [pc EXCEPT ![t] = "start"]), open' = Add(open, sub[1], 1)
      PROVE  /\ pc' \in [Threads -> Pc] /\ Only(t) /\ pc'[t] = "start"
             /\ QueueOf[t] = sub[1] /\ t \in Threads
  <2> DEFINE started == [pc EXCEPT ![t] = "start"]
  <2>1. t \in Threads /\ QueueOf[t] = sub[1]
    BY DEF Workers
  <2>2. /\ started \in [Threads -> Pc] /\ started[t] = "start"
        /\ \A u \in Threads \ {t} : started[u] = pc[u]
    BY <2>1 DEF Shapes, Pc
  <2>3. Signal(sub[1], started)
    BY <1>3
  <2> HIDE DEF started
  <2>4. /\ pc' \in [Threads -> Pc]
        /\ \A u \in Threads :
             pc'[u] = started[u] \/ (started[u] = "sleep" /\ pc'[u] = "woken")
    BY <1>1, <2>2, <2>3, SignalWakes
  <2> QED
    BY <1>1, <2>1, <2>2, <2>4 DEF Only, Stays, Waiting
<1>4. \/ (pc' = pc \/ Signal(sub[1], pc)) /\ open' = open
      \/ \E t \in Workers(sub[1]) : /\ pc[t] = "none" /\ open' = Add(open, sub[1], 1)
                                    /\ Signal(sub[1], [pc EXCEPT ![t] = "start"])
  BY DEF Submit
<1> QED
  BY <1>1, <1>2, <1>3, <1>4

\* The counts change by one at most, and no task is taken from an empty list.
Added ==
  \E q \in Queues :
    /\ pending' = pending \/ pending' = Add(pending, q, 1) \/ pending' = Add(pending, q, -1)
    /\ active' = active \/ active' = Add(active, q, 1) \/ active' = Add(active, q, -1)
    /\ open' = open \/ open' = Add(open, q, 1) \/ open' = Add(open, q, -1)
    /\ \/ list' = list \/ list' = Add(list, q, 1)
       \/ list' = Add(list, q, -1) /\ HasWork(q)

\* Such a step keeps the types of the counts.
LEMMA AddedTypes == ASSUME CountTypes, Added PROVE CountTypes'
<1> PICK q \in Queues :
      /\ pending' = pending \/ pending' = Add(pending, q, 1) \/ pending' = Add(pending, q, -1)
      /\ active' = active \/ active' = Add(active, q, 1) \/ active' = Add(active, q, -1)
      /\ open' = open \/ open' = Add(open, q, 1) \/ open' = Add(open, q, -1)
      /\ \/ list' = list \/ list' = Add(list, q, 1)
         \/ list' = Add(list, q, -1) /\ HasWork(q)
  BY DEF Added
<1>1. pending' \in [Queues -> Int]
  BY DEF CountTypes, Add
<1>2. active' \in [Queues -> Int]
  BY DEF CountTypes, Add
<1>3. open' \in [Queues -> Int]
  BY DEF CountTypes, Add
<1>4. list' \in [Queues -> Nat]
  <2>1. CASE list' = list \/ list' = Add(list, q, 1)
    BY <2>1 DEF CountTypes, Add
  <2>2. CASE list' = Add(list, q, -1) /\ HasWork(q)
    BY <2>2 DEF CountTypes, Add, HasWork
  <2> QED
    BY <2>1, <2>2
<1> QED
  BY <1>1, <1>2, <1>3, <1>4 DEF CountTypes

\* A step that books the move of its thread keeps the counts right.
LEMMA BooksKeepCounts ==
  ASSUME Typed, Typed', Counted, NEW t \in Threads,
         NEW listed \in Int, NEW opened \in Int, NEW activated \in Int,
         Books(t, listed, opened, activated), finishing => finishing'
  PROVE  Counted'
<1>1. SUFFICES ASSUME NEW r \in Queues PROVE CountedIn(r)'
  BY DEF Counted
<1>2. /\ CountedIn(r) /\ Only(t) /\ Shapes /\ Shapes'
      /\ pending[r] \in Int /\ list[r] \in Int /\ open[r] \in Int
  BY DEF Counted, Typed, CountTypes, Books
<1>3. /\ Is(Idle(t)) \in Int /\ Is(Idle(t)') \in Int
      /\ Is(pc[t] # "none") \in Int /\ Is(pc'[t] # "none") \in Int
  BY DEF Is
<1>4. CASE r = QueueOf[t]
  <2>1. /\ Cardinality(IdleIn(r)) \in Nat /\ Cardinality(OpenIn(r)) \in Nat
        /\ Cardinality(IdleIn(r)') = Cardinality(IdleIn(r)) + Is(Idle(t)') - Is(Idle(t))
        /\ Cardinality(OpenIn(r)') =
             Cardinality(OpenIn(r)) + Is(pc'[t] # "none") - Is(pc[t] # "none")
    BY <1>2, <1>4, Recount
  <2>2. /\ pending'[r] = pending[r] + (listed + Is(Idle(t)') - Is(Idle(t)))
        /\ list'[r] = list[r] + listed
        /\ ~finishing => open'[r] = open[r] + (Is(pc'[t] # "none") - Is(pc[t] # "none"))
    BY <1>4 DEF Books, Changed
  <2> QED
    BY <1>2, <1>3, <2>1, <2>2 DEF CountedIn
<1>5. CASE r # QueueOf[t]
  <2>1. /\ Cardinality(IdleIn(r)') = Cardinality(IdleIn(r))
        /\ Cardinality(OpenIn(r)') = Cardinality(OpenIn(r))
    BY <1>2, <1>5, Recount
  <2>2. pending'[r] = pending[r] /\ list'[r] = list[r] /\ open'[r] = open[r]
    BY <1>5 DEF Books, Changed
  <2> QED
    BY <1>2, <2>1, <2>2 DEF CountedIn
<1> QED
  BY <1>4, <1>5

\* A step that keeps its thread in its class books nothing.
LEMMA MovesKeepCounts ==
  ASSUME Typed, Typed', Counted, NEW t \in Threads, Moves(t), finishing => finishing'
  PROVE  Counted'
<1>1. /\ Is(Idle(t)') - Is(Idle(t)) = 0 /\ Is(Active(t)') - Is(Active(t)) = 0
      /\ Is(pc'[t] # "none") - Is(pc[t] # "none") = 0
      /\ 0 + Is(Idle(t)') - Is(Idle(t)) = 0
  BY DEF Moves, Is
<1>2. /\ Changed(list, t, 0) /\ Changed(pending, t, 0) /\ Changed(open, t, 0)
      /\ Changed(active, t, 0)
  BY DEF Moves, Changed, countVars, Typed, CountTypes
<1>3. Books(t, 0, 0, 0)
  BY <1>1, <1>2 DEF Books, Moves
<1> QED
  BY <1>3, BooksKeepCounts

\* A function on a finite set has a least value: the sets that hold with an element
\* all those of lesser value are ordered by inclusion, and a minimal one of them is
\* made of elements of the least value.
LEMMA LeastExists ==
  ASSUME NEW S, IsFiniteSet(S), S # {}, NEW f \in [S -> Int]
  PROVE  \E x \in S : \A y \in S : f[x] <= f[y]
<1> DEFINE Lower(x) == {y \in S : f[y] < f[x]}
           Closed   == {A \in SUBSET S : A # {} /\ \A x \in A : Lower(x) \subseteq A}
<1>1. S \in Closed
  OBVIOUS
<1>2. Closed \subseteq FiniteSubsetsOf(S)
  BY FS_Subset DEF FiniteSubsetsOf
<1>3. PICK A \in Closed : \A B \in Closed : <<B, A>> \notin StrictSubsetOrdering(S)
  <2> HIDE DEF Closed
  <2> QED
    BY <1>1, <1>2, FS_StrictSubsetOrderingWellFounded, WFMin
<1>4. PICK x \in A : TRUE
  OBVIOUS
<1>5. Lower(x) \subseteq A /\ x \notin Lower(x) /\ x \in S
  BY <1>4
<1>6. \A y \in Lower(x) : Lower(y) \subseteq Lower(x)
  BY <1>5
<1>7. Lower(x) # {} => Lower(x) \in Closed
  BY <1>6
<1>8. Lower(x) = {}
  <2> HIDE DEF Closed, Lower
  <2>1. A \in SUBSET S
    BY DEF Closed
  <2> QED
    BY <1>3, <1>4, <1>5, <1>7, <2>1, <1>2 DEF StrictSubsetOrdering, FiniteSubsetsOf
<1> QED
  BY <1>5, <1>8

\* The queue a task goes to first exists.
LEMMA PreferredExists ==
  ASSUME active \in [Queues -> Int], pending \in [Queues -> Int]
  PROVE  Preferred \in Queues
<1>1. IsFiniteSet(Queues) /\ Queues # {} /\ Queues \subseteq Int /\ 0 \in Queues
  <2>1. 0 \in Int /\ NumQueues - 1 \in Int /\ 0 \in 0 .. NumQueues - 1
    BY PoolAssumption
  <2> QED
    BY <2>1, FS_Interval DEF Queues
<1>2. ASSUME NEW A \in SUBSET Queues, A # {}
      PROVE  (CHOOSE q \in A : \A r \in A : q <= r) \in A
  <2> DEFINE id == [q \in A |-> q]
  <2>1. IsFiniteSet(A) /\ id \in [A -> Int]
    BY <1>1, FS_Subset
  <2>2. \E q \in A : \A r \in A : id[q] <= id[r]
    <3> HIDE DEF id
    <3> QED
      BY <1>2, <2>1, LeastExists
  <2> QED
    BY <2>2
<1>3. {q \in Queues : \A r \in Queues : Load(q) <= Load(r)} # {}
  <2> DEFINE load == [q \in Queues |-> Load(q)]
  <2>1. load \in [Queues -> Int]
    BY DEF Load
  <2>2. \E q \in Queues : \A r \in Queues : load[q] <= load[r]
    <3> HIDE DEF load
    <3> QED
      BY <1>1, <2>1, LeastExists
  <2> QED
    BY <2>2
<1> DEFINE idle == {q \in Queues : active[q] = 0}
           low  == {q \in Queues : \A r \in Queues : Load(q) <= Load(r)}
           First(A) == CHOOSE q \in A : \A r \in A : q <= r
<1>4. CASE idle # {}
  <2>1. Preferred = First(idle)
    BY <1>4, Zenon DEF Preferred
  <2>2. First(idle) \in idle
    BY <1>2, <1>4
  <2> QED
    BY <2>1, <2>2
<1>5. CASE idle = {}
  <2>1. Preferred \in {First(low), 0}
    BY <1>5, Zenon DEF Preferred
  <2>2. First(low) \in low
    BY <1>2, <1>3
  <2> QED
    BY <1>1, <2>1, <2>2
<1> QED
  BY <1>4, <1>5

\* Whatever an unlocked change of a count leaves is a number.
LEMMA TornIsInt ==
  ASSUME NEW read \in Int, NEW now \in Int, NEW n \in Int
  PROVE  Torn(read, now, n) \subseteq Int
  BY DEF Torn

\* Types are kept.
LEMMA TypedStep ==
  ASSUME Typed, Next
  PROVE  Typed'
<1> Shapes
  BY DEF Typed
<1>1. CASE Choose
  <2>1. Preferred \in Queues
    BY PreferredExists DEF Typed, CountTypes
  <2>2. sub' \in {<<>>} \cup (Queues \X Queues) /\ submitted' \in 0 .. MaxSubmits
    BY <1>1, <2>1, PoolAssumption DEF Choose, Typed, RestTypes
  <2> QED
    BY <1>1, <2>2 DEF Choose, Typed, Shapes, CountTypes, RestTypes, poolVars, countVars,
       threadVars
<1>2. CASE TryNext
  <2>1. sub[1] \in Queues /\ sub[2] \in Queues
    BY <1>2 DEF TryNext, Typed, RestTypes
  <2>2. (sub[1] + 1) % NumQueues \in Queues
    BY <2>1, PoolAssumption, SMTT(30) DEF Queues
  <2>3. sub' \in {<<>>} \cup (Queues \X Queues)
    BY <1>2, <2>1, <2>2 DEF TryNext
  <2> QED
    BY <1>2, <2>3 DEF TryNext, Typed, Shapes, CountTypes, RestTypes, poolVars,
       countVars, threadVars
<1>3. CASE Submit
  <2>1. sub[1] \in Queues /\ pc' \in [Threads -> Pc]
    BY <1>3, SubmitMoves DEF Typed, RestTypes
  <2>2. Added
    BY <1>3, <2>1 DEF Submit, Added
  <2>3. \A t \in Threads : pc'[t] = "exit" => pc[t] = "exit"
    BY <1>3, SubmitMoves DEF Typed, RestTypes, Still, Stays, Only, Waiting
  <2>4. RestTypes'
    BY <1>3, <2>3 DEF Submit, Typed, RestTypes, poolVars, threadVars
  <2> QED
    BY <1>3, <2>1, <2>2, <2>4, AddedTypes DEF Submit, Typed, Shapes, threadVars
<1>4. CASE SubmitFails
  BY <1>4 DEF SubmitFails, Typed, CountTypes, RestTypes, Shapes, poolVars, countVars,
     threadVars
<1>5. CASE Close
  <2>1. 0 \in Queues
    BY PoolAssumption DEF Queues
  <2>2. Added
    BY <1>5, <2>1 DEF Close, countVars, Added
  <2>3. Shapes'
    BY <1>5 DEF Close, Woken, PoolSleepers, threadVars, Shapes, Pc
  <2>4. RestTypes'
    BY <1>5, <2>1 DEF Close, Woken, PoolSleepers, threadVars, Typed, RestTypes
  <2> QED
    BY <2>2, <2>3, <2>4, AddedTypes DEF Typed
<1>6. CASE CloseLook
  BY <1>6 DEF CloseLook, Lock, Woken, Sleepers, Typed, CountTypes, RestTypes, Shapes,
     Pc, poolVars, countVars, threadVars
<1>7. CASE CloseWait
  BY <1>7 DEF CloseWait, Unlock, Typed, CountTypes, RestTypes, Shapes, poolVars,
     countVars, threadVars
<1>8. CASE CloseNext
  BY <1>8 DEF CloseNext, Unlock, Typed, CountTypes, RestTypes, Shapes, poolVars,
     countVars, threadVars
<1>9. ASSUME NEW t \in Threads, AskPause(t) PROVE Typed'
  BY <1>9 DEF AskPause, Goto, Typed, CountTypes, RestTypes, Shapes, Pc, poolVars,
     countVars, outerVars
<1>10. ASSUME NEW t \in Threads, Start(t) PROVE Typed'
  BY <1>10 DEF Start, Goto, Typed, CountTypes, RestTypes, Shapes, Pc, poolVars,
     countVars, threadVars, outerVars
<1>11. ASSUME NEW t \in Threads, StartWait(t) PROVE Typed'
  BY <1>11 DEF StartWait, Goto, Typed, CountTypes, RestTypes, Shapes, Pc, poolVars,
     countVars, threadVars, outerVars
<1>12. ASSUME NEW t \in Threads, Ready(t) PROVE Typed'
  <2>1. Added
    BY <1>12, PoolAssumption DEF Ready, Added
  <2>2. Shapes'
    BY <1>12 DEF Ready, Goto, threadVars, Shapes, Pc
  <2>3. RestTypes'
    BY <1>12 DEF Ready, Goto, Lock, poolVars, threadVars, outerVars, Typed, RestTypes,
       Shapes
  <2> QED
    BY <2>1, <2>2, <2>3, AddedTypes DEF Typed
<1>13. ASSUME NEW t \in Threads, Look(t) PROVE Typed'
  <2>1. Added
    BY <1>13, PoolAssumption DEF Look, TakeTask, Added
  <2>2. Shapes'
    BY <1>13 DEF Look, Goto, TakeTask, Shapes, Pc
  <2>3. RestTypes'
    BY <1>13 DEF Look, Goto, TakeTask, Unlock, poolVars, outerVars, Typed, RestTypes,
       Shapes
  <2> QED
    BY <2>1, <2>2, <2>3, AddedTypes DEF Typed
<1>14. ASSUME NEW t \in Threads, Last(t) PROVE Typed'
  BY <1>14 DEF Last, Goto, Unlock, Typed, CountTypes, RestTypes, Shapes, Pc, poolVars,
     countVars, threadVars, outerVars
<1>15. ASSUME NEW t \in Threads, Tell(t) PROVE Typed'
  BY <1>15 DEF Tell, Goto, Typed, CountTypes, RestTypes, Shapes, Pc, countVars,
     threadVars, outerVars
<1>16. ASSUME NEW t \in Threads, Sleep(t) PROVE Typed'
  BY <1>16 DEF Sleep, Goto, Unlock, Typed, CountTypes, RestTypes, Shapes, Pc, poolVars,
     countVars, threadVars, outerVars
<1>17. ASSUME NEW t \in Threads, PoolWoken(t) PROVE Typed'
  BY <1>17 DEF PoolWoken, Goto, Typed, CountTypes, RestTypes, Shapes, Pc, poolVars,
     countVars, threadVars, outerVars
<1>18. ASSUME NEW t \in Threads, Wake(t) PROVE Typed'
  <2>1. Added
    BY <1>18, PoolAssumption DEF Wake, TakeTask, Added
  <2>2. Shapes'
    BY <1>18 DEF Wake, Goto, TakeTask, Shapes, Pc
  <2>3. /\ mutex' \in [Queues -> Threads \cup {Nobody, "main"}]
        /\ asked' \in [Threads -> BOOLEAN]
    <3>1. \/ mutex' = [mutex EXCEPT ![QueueOf[t]] = t] /\ asked' = asked
          \/ mutex' = [mutex EXCEPT ![QueueOf[t]] = Nobody] /\ asked' = [asked EXCEPT ![t] = FALSE]
      BY <1>18 DEF Wake, TakeTask, Unlock
    <3> QED
      BY <3>1 DEF Typed, RestTypes
  <2>4. RestTypes'
    BY <1>18, <2>3 DEF Wake, Goto, TakeTask, poolVars, outerVars, Typed, RestTypes,
       Shapes
  <2> QED
    BY <2>1, <2>2, <2>4, AddedTypes DEF Typed
<1>19. ASSUME NEW t \in Threads, Exit(t) PROVE Typed'
  <2>1. Shapes'
    BY <1>19 DEF Exit, Leaves, Goto, Shapes, Pc
  <2>2. QueueOf[t] \in Queues /\ open[QueueOf[t]] \in Int
    BY PoolAssumption DEF Typed, CountTypes
  <2>3. CountTypes'
    BY <1>19, <2>2 DEF Exit, Leaves, Typed, CountTypes
  <2>4. RestTypes'
    BY <1>19, <2>2 DEF Exit, Leaves, Goto, Unlock, poolVars, Typed, RestTypes, Shapes
  <2> QED
    BY <2>1, <2>3, <2>4 DEF Typed
<1>31. ASSUME NEW t \in Threads, ExitUnlocked(t) PROVE Typed'
  <2>1. Shapes'
    BY <1>31 DEF ExitUnlocked, Leaves, Goto, Shapes, Pc
  <2>2. QueueOf[t] \in Queues /\ open[QueueOf[t]] \in Int /\ copy[t] \in Int
    BY PoolAssumption DEF Typed, CountTypes, RestTypes
  <2>3. PICK n \in Int : Leaves(t, n)
    BY <1>31, <2>2, TornIsInt DEF ExitUnlocked
  <2>4. CountTypes'
    BY <1>31, <2>2, <2>3 DEF ExitUnlocked, Leaves, Typed, CountTypes
  <2>5. RestTypes'
    BY <1>31, <2>2, <2>3 DEF ExitUnlocked, Leaves, Goto, poolVars, Typed, RestTypes, Shapes
  <2> QED
    BY <2>1, <2>4, <2>5 DEF Typed
<1>20. ASSUME NEW t \in Threads, EndTask(t) PROVE Typed'
  BY <1>20 DEF EndTask, Goto, Lock, Typed, CountTypes, RestTypes, Shapes, Pc, poolVars,
     countVars, threadVars, outerVars
<1>21. ASSUME NEW t \in Threads, GoIdle(t) PROVE Typed'
  <2>1. Added
    BY <1>21, PoolAssumption DEF GoIdle, Added
  <2>2. Shapes'
    BY <1>21 DEF GoIdle, Goto, threadVars, Shapes, Pc
  <2>3. RestTypes'
    BY <1>21 DEF GoIdle, Goto, threadVars, outerVars, Typed, RestTypes
  <2> QED
    BY <2>1, <2>2, <2>3, AddedTypes DEF Typed
<1>22. ASSUME NEW t \in Threads, GoUnidle(t) PROVE Typed'
  <2>1. Added
    BY <1>22, PoolAssumption DEF GoUnidle, Added
  <2>2. Shapes'
    BY <1>22 DEF GoUnidle, Goto, threadVars, Shapes, Pc
  <2>3. RestTypes'
    BY <1>22 DEF GoUnidle, Goto, poolVars, threadVars, outerVars, Typed, RestTypes,
       Shapes
  <2> QED
    BY <2>1, <2>2, <2>3, AddedTypes DEF Typed
<1>23. ASSUME NEW t \in Threads, NoWait(t) PROVE Typed'
  BY <1>23 DEF NoWait, Goto, Typed, CountTypes, RestTypes, Shapes, Pc, poolVars,
     countVars, threadVars, outerVars
<1>24. ASSUME NEW t \in Threads, Want(t) PROVE Typed'
  BY <1>24 DEF Want, Goto, Typed, CountTypes, RestTypes, Shapes, Pc, countVars,
     outerVars
<1>25. ASSUME NEW t \in Threads, Await(t) PROVE Typed'
  BY <1>25 DEF Await, Goto, Typed, CountTypes, RestTypes, Shapes, Pc, poolVars,
     countVars, threadVars, outerVars
<1>26. ASSUME NEW t \in Threads, Restore(t) PROVE Typed'
  <2>1. Shapes'
    BY <1>26 DEF Restore, Goto, Shapes, Pc
  <2>2. copy' \in [Threads -> Int]
    BY <1>26, PoolAssumption DEF Restore, Typed, CountTypes, RestTypes
  <2>3. \A u \in Threads : pc'[u] = "exit" => pc[u] = "exit"
    BY <1>26 DEF Restore, Goto, Shapes
  <2>4. UNCHANGED <<finishing, activeQueues, mutex, asked, outerVars>> /\ pause' \in {pause, "PAUSED"}
    BY <1>26 DEF Restore
  <2>5. Shapes' /\ RestTypes'
    BY <2>1, <2>2, <2>3, <2>4 DEF outerVars, Typed, RestTypes
  <2>6. QueueOf[t] \in Queues /\ active[QueueOf[t]] \in Int /\ copy[t] \in Int
    BY PoolAssumption DEF Typed, CountTypes, RestTypes
  <2>7. active' = active \/ \E n \in Int : active' = [active EXCEPT ![QueueOf[t]] = n]
    BY <1>26, <2>6, TornIsInt DEF Restore
  <2>8. active' \in [Queues -> Int]
    BY <2>7 DEF Typed, CountTypes
  <2> QED
    BY <1>26, <2>5, <2>8 DEF Restore, Typed, CountTypes
<1>27. ASSUME NEW t \in Threads, Resume(t) PROVE Typed'
  BY <1>27 DEF Resume, Goto, Typed, CountTypes, RestTypes, Shapes, Pc, countVars,
     outerVars
<1>28. ASSUME NEW t \in Threads, Resumed(t) PROVE Typed'
  BY <1>28 DEF Resumed, Woken, PoolSleepers, Typed, CountTypes, RestTypes, Shapes, Pc,
     poolVars, countVars, threadVars, outerVars
<1>29. ASSUME NEW t \in Threads, NEW q \in Queues, Hide(t, q) PROVE Typed'
  <2>1. Shapes'
    BY <1>29 DEF Hide, Goto, HideList, Shapes, Pc
  <2>2. active' \in [Queues -> Int]
    BY <1>29 DEF Hide, Others, Typed, CountTypes
  <2>3. RestTypes'
    BY <1>29 DEF Hide, Goto, outerVars, Typed, RestTypes, Shapes
  <2> QED
    BY <1>29, <2>1, <2>2, <2>3 DEF Hide, Typed, CountTypes
<1>30. ASSUME NEW t \in Threads, NEW q \in Queues, Show(t, q) PROVE Typed'
  BY <1>30 DEF Show, Woken, Sleepers, Typed, CountTypes, RestTypes, Shapes, Pc,
     poolVars, countVars
<1> QED
  BY <1>1, <1>2, <1>3, <1>4, <1>5, <1>6, <1>7, <1>8, <1>9, <1>10, <1>11, <1>12, <1>13,
     <1>14, <1>15, <1>16, <1>17, <1>18, <1>19, <1>20, <1>21, <1>22, <1>23, <1>24, <1>25,
     <1>26, <1>27, <1>28, <1>29, <1>30, <1>31 DEF Next, Submitting, Closing, Thread

\* These steps change no count.
LEMMA MovingSteps ==
  ASSUME Shapes, NEW t \in Threads,
         \/ AskPause(t) \/ Start(t) \/ StartWait(t) \/ Last(t) \/ Tell(t) \/ Sleep(t) \/ PoolWoken(t)
         \/ EndTask(t) \/ NoWait(t) \/ Want(t) \/ Await(t) \/ Resume(t) \/ Resumed(t) \/ \E q \in Queues : Show(t, q)
  PROVE  Moves(t)
<1>1. ASSUME AskPause(t) PROVE Moves(t)
  BY <1>1 DEF AskPause, Goto, Moves, Idle, Active, Only, Stays, Shapes
<1>2. ASSUME Start(t) PROVE Moves(t)
  BY <1>2 DEF Start, Goto, Moves, Idle, Active, Only, Stays, threadVars
<1>3. ASSUME StartWait(t) PROVE Moves(t)
  BY <1>3 DEF StartWait, Goto, Moves, Idle, Active, Only, Stays, threadVars
<1>4. ASSUME Last(t) PROVE Moves(t)
  BY <1>4 DEF Last, Goto, Moves, Idle, Active, Only, Stays, Shapes, threadVars
<1>5. ASSUME Tell(t) PROVE Moves(t)
  BY <1>5 DEF Tell, Goto, Moves, Idle, Active, Only, Stays, threadVars
<1>6. ASSUME Sleep(t) PROVE Moves(t)
  BY <1>6 DEF Sleep, Goto, Moves, Idle, Active, Only, Stays, Shapes, threadVars
<1>7. ASSUME PoolWoken(t) PROVE Moves(t)
  BY <1>7 DEF PoolWoken, Goto, Moves, Idle, Active, Only, Stays, Shapes, threadVars
<1>8. ASSUME EndTask(t) PROVE Moves(t)
  BY <1>8 DEF EndTask, Goto, Moves, Idle, Active, Only, Stays, threadVars
<1>9. ASSUME NoWait(t) PROVE Moves(t)
  BY <1>9 DEF NoWait, Goto, Moves, Idle, Active, Only, Stays, threadVars
<1>10. ASSUME Want(t) PROVE Moves(t)
  BY <1>10 DEF Want, Goto, Moves, Idle, Active, Only, Stays, Shapes
<1>11. ASSUME Await(t) PROVE Moves(t)
  BY <1>11 DEF Await, Goto, Moves, Idle, Active, Only, Stays, threadVars
<1>12. ASSUME Resume(t) PROVE Moves(t)
  BY <1>12 DEF Resume, Goto, Moves, Idle, Active, Only, Stays
<1>13. ASSUME Resumed(t) PROVE Moves(t)
  BY <1>13 DEF Resumed, Woken, PoolSleepers, Moves, Idle, Active, Only, Stays, Waiting,
     threadVars
<1>14. ASSUME NEW q \in Queues, Show(t, q) PROVE Moves(t)
  BY <1>14 DEF Show, Woken, Sleepers, Moves, Idle, Active, Only, Stays, Waiting
<1> QED
  BY <1>1, <1>2, <1>3, <1>4, <1>5, <1>6, <1>7, <1>8, <1>9, <1>10, <1>11, <1>12, <1>13,
     <1>14

\* These steps change the counts of the thread's queue, ...
LEMMA CountingSteps ==
  ASSUME Typed, NEW t \in Threads,
         \/ Ready(t) \/ Look(t) \/ Wake(t) \/ Exit(t) \/ ExitUnlocked(t)
         \/ GoIdle(t) \/ GoUnidle(t) \/ Restore(t) \/ \E q \in Queues : Hide(t, q)
  PROVE  \E listed, opened, activated \in Int : Books(t, listed, opened, activated)
<1> Shapes /\ QueueOf[t] \in Queues
  BY PoolAssumption DEF Typed
<1>1. ASSUME Ready(t) PROVE Books(t, 0, 0, 1)
  <2>1. Only(t)
    BY <1>1 DEF Ready, Goto, threadVars, Only, Stays
  <2>2. Is(Idle(t)') - Is(Idle(t)) = 0 /\ Is(pc'[t] # "none") - Is(pc[t] # "none") = 0
        /\ Is(Active(t)') - Is(Active(t)) = 1
    BY <1>1 DEF Ready, Goto, Is, Idle, Active, Shapes
  <2>3. /\ Changed(list, t, 0) /\ Changed(pending, t, 0)
        /\ Changed(open, t, 0) /\ Changed(active, t, 1)
    BY <1>1 DEF Ready, Add, Changed, Typed, CountTypes
  <2>4. 0 + Is(Idle(t)') - Is(Idle(t)) = 0
    BY <2>2 DEF Is
  <2> QED
    BY <2>1, <2>2, <2>3, <2>4 DEF Books
<1>2. ASSUME Look(t) PROVE Books(t, -1, 0, 0) \/ Books(t, 0, 0, -1)
  <2>1. Only(t)
    BY <1>2 DEF Look, Goto, TakeTask, Only, Stays, Shapes
  <2>2. ASSUME HasWork(QueueOf[t]) PROVE Books(t, -1, 0, 0)
    <3>1. Is(Idle(t)') - Is(Idle(t)) = 0 /\ Is(pc'[t] # "none") - Is(pc[t] # "none") = 0
          /\ Is(Active(t)') - Is(Active(t)) = 0
      BY <1>2, <2>2 DEF Look, Goto, TakeTask, Is, Idle, Active, Shapes
    <3>2. /\ Changed(list, t, -1) /\ Changed(pending, t, -1)
          /\ Changed(open, t, 0) /\ Changed(active, t, 0)
      BY <1>2, <2>2 DEF Look, Add, TakeTask, Changed, Typed, CountTypes
    <3>3. -1 + Is(Idle(t)') - Is(Idle(t)) = -1
      BY <3>1 DEF Is
    <3> QED
      BY <2>1, <3>1, <3>2, <3>3 DEF Books
  <2>3. ASSUME ~HasWork(QueueOf[t]) PROVE Books(t, 0, 0, -1)
    <3>1. Is(Idle(t)') - Is(Idle(t)) = 0 /\ Is(pc'[t] # "none") - Is(pc[t] # "none") = 0
          /\ Is(Active(t)') - Is(Active(t)) = -1
      BY <1>2, <2>3 DEF Look, Goto, Is, Idle, Active, Shapes
    <3>2. /\ Changed(list, t, 0) /\ Changed(pending, t, 0)
          /\ Changed(open, t, 0) /\ Changed(active, t, -1)
      BY <1>2, <2>3 DEF Look, Add, Changed, Typed, CountTypes
    <3>3. 0 + Is(Idle(t)') - Is(Idle(t)) = 0
      BY <3>1 DEF Is
    <3> QED
      BY <2>1, <3>1, <3>2, <3>3 DEF Books
  <2> QED
    BY <2>2, <2>3
<1>3. ASSUME Wake(t) PROVE Books(t, -1, 0, 1) \/ Books(t, 0, 0, 0)
  <2>1. Only(t)
    BY <1>3 DEF Wake, Goto, TakeTask, Only, Stays, Shapes
  <2>2. ASSUME HasWork(QueueOf[t]) PROVE Books(t, -1, 0, 1)
    <3>1. Is(Idle(t)') - Is(Idle(t)) = 0 /\ Is(pc'[t] # "none") - Is(pc[t] # "none") = 0
          /\ Is(Active(t)') - Is(Active(t)) = 1
      BY <1>3, <2>2 DEF Wake, Goto, TakeTask, Is, Idle, Active, Shapes
    <3>2. /\ Changed(list, t, -1) /\ Changed(pending, t, -1)
          /\ Changed(open, t, 0) /\ Changed(active, t, 1)
      BY <1>3, <2>2 DEF Wake, TakeTask, Add, Changed, Typed, CountTypes
    <3>3. -1 + Is(Idle(t)') - Is(Idle(t)) = -1
      BY <3>1 DEF Is
    <3> QED
      BY <2>1, <3>1, <3>2, <3>3 DEF Books
  <2>3. ASSUME ~HasWork(QueueOf[t]) PROVE Books(t, 0, 0, 0)
    <3>1. Is(Idle(t)') - Is(Idle(t)) = 0 /\ Is(pc'[t] # "none") - Is(pc[t] # "none") = 0
          /\ Is(Active(t)') - Is(Active(t)) = 0
      BY <1>3, <2>3 DEF Wake, Goto, Is, Idle, Active, Shapes
    <3>2. /\ Changed(list, t, 0) /\ Changed(pending, t, 0)
          /\ Changed(open, t, 0) /\ Changed(active, t, 0)
      BY <1>3, <2>3 DEF Wake, Changed, Typed, CountTypes
    <3>3. 0 + Is(Idle(t)') - Is(Idle(t)) = 0
      BY <3>1 DEF Is
    <3> QED
      BY <2>1, <3>1, <3>2, <3>3 DEF Books
  <2> QED
    BY <2>2, <2>3
<1>4. ASSUME Exit(t) PROVE Books(t, 0, -1, 0) \/ Books(t, 0, 0, 0)
  <2>1. Only(t) /\ finishing
    BY <1>4 DEF Exit, Leaves, Goto, Only, Stays, Shapes
  <2>2. Is(Idle(t)') - Is(Idle(t)) = 0 /\ Is(Active(t)') - Is(Active(t)) = 0
        /\ 0 + Is(Idle(t)') - Is(Idle(t)) = 0
    BY <1>4 DEF Exit, Leaves, Goto, Is, Idle, Active, Shapes
  <2>3. /\ Changed(list, t, 0) /\ Changed(pending, t, 0) /\ Changed(active, t, 0)
        /\ Changed(open, t, 0) \/ Changed(open, t, -1)
    BY <1>4 DEF Exit, Leaves, Changed, Typed, CountTypes
  <2> QED
    BY <2>1, <2>2, <2>3 DEF Books
<1>10. ASSUME ExitUnlocked(t) PROVE \E n \in Int : Books(t, 0, n, 0)
  <2>1. Only(t) /\ finishing
    BY <1>10 DEF ExitUnlocked, Leaves, Goto, Only, Stays, Typed, RestTypes
  <2>2. open[QueueOf[t]] \in Int /\ copy[t] \in Int
    BY DEF Typed, CountTypes, RestTypes
  <2>3. PICK m \in Int : Leaves(t, m)
    BY <1>10, <2>2, TornIsInt DEF ExitUnlocked
  <2>4. m - open[QueueOf[t]] \in Int /\ open[QueueOf[t]] + (m - open[QueueOf[t]]) = m
    BY <2>2
  <2>5. Is(Idle(t)') - Is(Idle(t)) = 0 /\ Is(Active(t)') - Is(Active(t)) = 0
        /\ 0 + Is(Idle(t)') - Is(Idle(t)) = 0
    BY <1>10, <2>3 DEF ExitUnlocked, Leaves, Goto, Is, Idle, Active, Shapes
  <2>6. /\ Changed(list, t, 0) /\ Changed(pending, t, 0) /\ Changed(active, t, 0)
        /\ Changed(open, t, m - open[QueueOf[t]])
    BY <1>10, <2>3, <2>4 DEF ExitUnlocked, Leaves, Changed, Typed, CountTypes
  <2>7. Books(t, 0, m - open[QueueOf[t]], 0)
    BY <2>1, <2>5, <2>6 DEF Books
  <2> QED
    BY <2>4, <2>7
<1>5. ASSUME GoIdle(t) PROVE Books(t, 0, 0, -1)
  <2>1. Only(t)
    BY <1>5 DEF GoIdle, Goto, threadVars, Only, Stays
  <2>2. Is(Idle(t)') - Is(Idle(t)) = 1 /\ Is(pc'[t] # "none") - Is(pc[t] # "none") = 0
        /\ Is(Active(t)') - Is(Active(t)) = -1
    BY <1>5 DEF GoIdle, Goto, Is, Idle, Active, Shapes
  <2>3. /\ Changed(list, t, 0) /\ Changed(pending, t, 1)
        /\ Changed(open, t, 0) /\ Changed(active, t, -1)
    BY <1>5 DEF GoIdle, Add, Changed, Typed, CountTypes
  <2>4. 0 + Is(Idle(t)') - Is(Idle(t)) = 1
    BY <2>2 DEF Is
  <2> QED
    BY <2>1, <2>2, <2>3, <2>4 DEF Books
<1>6. ASSUME GoUnidle(t) PROVE Books(t, 0, 0, 1)
  <2>1. Only(t)
    BY <1>6 DEF GoUnidle, Goto, threadVars, Only, Stays, Shapes
  <2>2. Is(Idle(t)') - Is(Idle(t)) = -1 /\ Is(pc'[t] # "none") - Is(pc[t] # "none") = 0
        /\ Is(Active(t)') - Is(Active(t)) = 1
    BY <1>6 DEF GoUnidle, Goto, Is, Idle, Active, Shapes
  <2>3. /\ Changed(list, t, 0) /\ Changed(pending, t, -1)
        /\ Changed(open, t, 0) /\ Changed(active, t, 1)
    BY <1>6 DEF GoUnidle, Add, Changed, Typed, CountTypes
  <2>4. 0 + Is(Idle(t)') - Is(Idle(t)) = -1
    BY <2>2 DEF Is
  <2> QED
    BY <2>1, <2>2, <2>3, <2>4 DEF Books
<1>7. ASSUME NEW q \in Queues, Hide(t, q) PROVE Books(t, 0, 0, -1) \/ Books(t, 0, 0, 0)
  <2>1. Only(t)
    BY <1>7 DEF Hide, Goto, Others, Only, Stays, Shapes
  <2>2. ASSUME q = QueueOf[t] PROVE Books(t, 0, 0, -1)
    <3>1. Is(Idle(t)') - Is(Idle(t)) = 0 /\ Is(pc'[t] # "none") - Is(pc[t] # "none") = 0
          /\ Is(Active(t)') - Is(Active(t)) = -1
      BY <1>7, <2>2 DEF Hide, Goto, Is, Idle, Active, Shapes
    <3>2. /\ Changed(list, t, 0) /\ Changed(pending, t, 0)
          /\ Changed(open, t, 0) /\ Changed(active, t, -1)
      BY <1>7, <2>2 DEF Hide, Others, Changed, Typed, CountTypes
    <3>3. 0 + Is(Idle(t)') - Is(Idle(t)) = 0
      BY <3>1 DEF Is
    <3> QED
      BY <2>1, <3>1, <3>2, <3>3 DEF Books
  <2>3. ASSUME q # QueueOf[t] PROVE Books(t, 0, 0, 0)
    <3>1. Is(Idle(t)') - Is(Idle(t)) = 0 /\ Is(pc'[t] # "none") - Is(pc[t] # "none") = 0
          /\ Is(Active(t)') - Is(Active(t)) = 0
      BY <1>7, <2>3 DEF Hide, Goto, Is, Idle, Active, Shapes
    <3>2. /\ Changed(list, t, 0) /\ Changed(pending, t, 0)
          /\ Changed(open, t, 0) /\ Changed(active, t, 0)
      BY <1>7, <2>3 DEF Hide, Others, Changed, Typed, CountTypes
    <3>3. 0 + Is(Idle(t)') - Is(Idle(t)) = 0
      BY <3>1 DEF Is
    <3> QED
      BY <2>1, <3>1, <3>2, <3>3 DEF Books
  <2> QED
    BY <2>2, <2>3
<1>8. ASSUME Restore(t) PROVE \E n \in Int : Books(t, 0, 0, n)
  <2>1. Only(t)
    BY <1>8 DEF Restore, Goto, Only, Stays, Shapes
  <2>2. QueueOf[t] \in Queues /\ active[QueueOf[t]] \in Int
    BY DEF Typed, CountTypes
  <2>3. PICK n \in Int : Changed(active, t, n)
    <3>1. CASE active' = active
      <4>1. Changed(active, t, 0)
        BY <3>1 DEF Changed, Typed, CountTypes
      <4> QED
        BY <4>1
    <3>2. ASSUME NEW m \in Int, active' = [active EXCEPT ![QueueOf[t]] = m]
          PROVE  \E n \in Int : Changed(active, t, n)
      <4>1. m - active[QueueOf[t]] \in Int /\ active[QueueOf[t]] + (m - active[QueueOf[t]]) = m
        BY <2>2
      <4>2. Changed(active, t, m - active[QueueOf[t]])
        BY <3>2, <4>1 DEF Changed, Typed, CountTypes
      <4> QED
        BY <4>1, <4>2
    <3>3. copy[t] \in Int
      BY DEF Typed, RestTypes
    <3>4. active' = active \/ \E m \in Int : active' = [active EXCEPT ![QueueOf[t]] = m]
      BY <1>8, <2>2, <3>3, TornIsInt DEF Restore
    <3> QED
      BY <3>1, <3>2, <3>4
  <2>4. Is(Idle(t)') - Is(Idle(t)) = 0 /\ Is(pc'[t] # "none") - Is(pc[t] # "none") = 0
        /\ 0 + Is(Idle(t)') - Is(Idle(t)) = 0
    BY <1>8 DEF Restore, Goto, Is, Idle, Shapes
  <2>5. Changed(list, t, 0) /\ Changed(pending, t, 0) /\ Changed(open, t, 0)
    BY <1>8 DEF Restore, Changed, Typed, CountTypes
  <2>6. Books(t, 0, 0, n)
    BY <1>8, <2>1, <2>3, <2>4, <2>5 DEF Books, Restore
  <2> QED
    BY <2>6
<1>9. 0 \in Int /\ 1 \in Int /\ -1 \in Int
  OBVIOUS
<1> QED
  BY <1>1, <1>2, <1>3, <1>4, <1>5, <1>6, <1>7, <1>8, <1>9, <1>10, Zenon

\* ... and so do a task that is queued and the thread created for it.
LEMMA SubmitCounts ==
  ASSUME Typed, Typed', Counted, Submit
  PROVE  Counted'
<1>1. sub[1] \in Queues /\ pc' \in [Threads -> Pc]
  BY SubmitMoves DEF Typed, RestTypes
<1>2. \A r \in Queues : /\ pending'[r] = IF r = sub[1] THEN pending[r] + 1 ELSE pending[r]
                        /\ list'[r] = IF r = sub[1] THEN list[r] + 1 ELSE list[r]
                        /\ active'[r] = active[r]
  BY <1>1 DEF Submit, Add, Typed, CountTypes
<1>3. CASE Still /\ open' = open
  <2> SUFFICES ASSUME NEW r \in Queues PROVE CountedIn(r)'
    BY DEF Counted
  <2>1. /\ CountedIn(r) /\ pending[r] \in Int /\ list[r] \in Int
        /\ Cardinality(IdleIn(r)) \in Nat
    BY CardinalitiesNat DEF Typed, CountTypes, Counted
  <2>2. IdleIn(r)' = IdleIn(r) /\ OpenIn(r)' = OpenIn(r)
    BY <1>3, Unmoved
  <2>3. finishing' = finishing
    BY DEF Submit, poolVars
  <2> QED
    BY <1>2, <1>3, <2>1, <2>2, <2>3 DEF CountedIn
<1>4. ASSUME NEW t \in Threads, QueueOf[t] = sub[1], pc[t] = "none", pc'[t] = "start",
             Only(t), open' = Add(open, sub[1], 1)
      PROVE  Counted'
  <2>1. /\ Is(Idle(t)') - Is(Idle(t)) = 0 /\ Is(Active(t)') - Is(Active(t)) = 0
        /\ Is(pc'[t] # "none") - Is(pc[t] # "none") = 1
        /\ 1 + Is(Idle(t)') - Is(Idle(t)) = 1
    BY <1>4 DEF Is, Idle, Active
  <2>2. Changed(list, t, 1) /\ Changed(pending, t, 1) /\ Changed(active, t, 0)
    BY <1>2, <1>4 DEF Changed, Typed, CountTypes
  <2>3. Changed(open, t, 1)
    BY <1>4 DEF Changed, Add, Typed, CountTypes
  <2>4. Books(t, 1, 1, 0)
    BY <1>4, <2>1, <2>2, <2>3 DEF Books
  <2>5. finishing' = finishing
    BY DEF Submit, poolVars
  <2> QED
    BY <2>4, <2>5, BooksKeepCounts
<1> QED
  BY <1>3, <1>4, SubmitMoves DEF Typed, RestTypes

\* The submitter, otherwise, and pool_close move threads between waits only.
LEMMA OuterSteps ==
  ASSUME Shapes, Choose \/ TryNext \/ SubmitFails \/ Close \/ Closing
  PROVE  Still /\ UNCHANGED countVars
<1>1. CASE Choose
  BY <1>1 DEF Choose, Still, Stays, threadVars
<1>2. CASE TryNext
  BY <1>2 DEF TryNext, Still, Stays, threadVars
<1>3. CASE SubmitFails
  BY <1>3 DEF SubmitFails, Still, Stays, threadVars
<1>4. CASE Close
  BY <1>4 DEF Close, Woken, PoolSleepers, Still, Stays, Waiting, threadVars
<1>5. CASE CloseLook
  BY <1>5 DEF CloseLook, Woken, Sleepers, Still, Stays, Waiting, threadVars
<1>6. CASE CloseWait
  BY <1>6 DEF CloseWait, Still, Stays, threadVars
<1>7. CASE CloseNext
  BY <1>7 DEF CloseNext, Still, Stays, threadVars
<1> QED
  BY <1>1, <1>2, <1>3, <1>4, <1>5, <1>6, <1>7 DEF Closing

\* A pool that closes goes on closing.
LEMMA ClosesForGood == ASSUME Next PROVE finishing => finishing'
<1>1. CASE Submitting \/ Close \/ Closing
  BY <1>1 DEF Submitting, Choose, TryNext, Submit, SubmitFails, Close, Closing, CloseLook,
     CloseWait, CloseNext, poolVars
<1>2. ASSUME NEW t \in Threads,
             \/ AskPause(t) \/ Start(t) \/ StartWait(t) \/ Ready(t) \/ Look(t) \/ Last(t)
             \/ Tell(t) \/ Sleep(t) \/ PoolWoken(t) \/ Wake(t) \/ Exit(t) \/ ExitUnlocked(t)
      PROVE  finishing => finishing'
  BY <1>2 DEF AskPause, Start, StartWait, Ready, Look, Last, Tell, Sleep, PoolWoken, Wake,
     Exit, ExitUnlocked, poolVars
<1>3. ASSUME NEW t \in Threads,
             \/ EndTask(t) \/ GoIdle(t) \/ GoUnidle(t) \/ NoWait(t) \/ Want(t) \/ Await(t)
             \/ Restore(t) \/ Resume(t) \/ Resumed(t)
             \/ \E q \in Queues : Hide(t, q) \/ Show(t, q)
      PROVE  finishing => finishing'
  BY <1>3 DEF EndTask, GoIdle, GoUnidle, NoWait, Want, Await, Restore, Resume, Resumed,
     Hide, Show, poolVars
<1> QED
  BY <1>1, <1>2, <1>3 DEF Next, Thread

\* The counts agree after each step.
LEMMA CountedStep ==
  ASSUME Typed, Typed', Counted, Next
  PROVE  Counted'
<1> Shapes
  BY DEF Typed
<1>1. CASE Submit
  BY <1>1, SubmitCounts
<1>2. CASE Still /\ UNCHANGED countVars
  BY <1>2, ClosesForGood, Unmoved DEF Counted, CountedIn, countVars
<1>3. ASSUME NEW t \in Threads, AskPause(t) \/ Thread(t) PROVE Counted'
  <2>1. CASE Moves(t)
    BY <2>1, ClosesForGood, MovesKeepCounts
  <2>2. CASE \E listed, opened, activated \in Int : Books(t, listed, opened, activated)
    BY <2>2, ClosesForGood, BooksKeepCounts
  <2> QED
    BY <1>3, <2>1, <2>2, MovingSteps, CountingSteps DEF Thread
<1> QED
  BY <1>1, <1>2, <1>3, OuterSteps DEF Next, Submitting

-----------------------------------------------------------------------------
IInv == Typed /\ Counted /\ PauseInv

\* The invariant holds at first, ...
LEMMA IInvInit == Init => IInv
<1> SUFFICES ASSUME Init PROVE IInv
  OBVIOUS
<1>1. 0 \in Queues /\ \A q \in Queues : MaxCount(q) \in Nat
  <2>1. \A q \in Queues : Workers(q) \in SUBSET Workers(q)
    OBVIOUS
  <2> QED
    BY <2>1, PoolAssumption, WorkersFinite, FS_CardinalityType DEF Queues, MaxCount
<1>2. Typed
  <2>1. /\ Shapes /\ mutex \in [Queues -> Threads \cup {Nobody, "main"}]
        /\ asked \in [Threads -> BOOLEAN] /\ copy \in [Threads -> Int]
        /\ \A t \in Threads : pc[t] # "exit"
    BY <1>1 DEF Init
  <2>2. /\ list \in [Queues -> Nat] /\ pending \in [Queues -> Int]
        /\ active \in [Queues -> Int] /\ open \in [Queues -> Int]
    BY <1>1 DEF Init
  <2>3. submitted \in 0 .. MaxSubmits /\ closing \in Queues
    BY <1>1 DEF Init
  <2> QED
    BY <2>1, <2>2, <2>3 DEF Init, CountTypes, RestTypes
<1>3. ASSUME NEW q \in Queues PROVE CountedIn(q)
  <2>1. IdleIn(q) = {}
    BY DEF Init, IdleIn, Workers
  <2>2. OpenIn(q) = IF Opened THEN Workers(q) ELSE {}
    BY DEF Init, OpenIn, Workers
  <2> QED
    BY <2>1, <2>2, <1>1, FS_EmptySet DEF Init, CountedIn, MaxCount
<1>4. PauseInv
  BY DEF Init, PauseInv, Holders, OnePause, Hidden, Holding, Pausing
<1> QED
  BY <1>2, <1>3, <1>4 DEF IInv, Counted

\* ... each step keeps what it says of pauses, ...
LEMMA PauseNext ==
  ASSUME Typed, PauseInv, Next
  PROVE  PauseInv'
<1> Shapes /\ sub \in {<<>>} \cup (Queues \X Queues)
  BY DEF Typed, RestTypes
<1>1. CASE Submitting \/ Close \/ Closing
  BY <1>1, QuietSteps, QuietKeeps
<1>2. ASSUME NEW t \in Threads,
             \/ AskPause(t) \/ Start(t) \/ StartWait(t) \/ Ready(t) \/ Look(t)
             \/ Last(t) \/ Tell(t) \/ Sleep(t) \/ PoolWoken(t) \/ Wake(t)
             \/ Exit(t) \/ ExitUnlocked(t) \/ EndTask(t) \/ GoIdle(t) \/ NoWait(t)
      PROVE  PauseInv'
  BY <1>2, QuietSteps, QuietKeeps
<1>3. ASSUME NEW t \in Threads,
             \/ GoUnidle(t) \/ Want(t) \/ Await(t) \/ Restore(t) \/ Resume(t) \/ Resumed(t)
             \/ \E q \in Queues : Hide(t, q) \/ Show(t, q)
      PROVE  PauseInv'
  BY <1>3, PauseSteps
<1> QED
  BY <1>1, <1>3, <1>2 DEF Next, Thread

\* ... and all of it, ...
LEMMA IInvNext == IInv /\ [Next]_vars => IInv'
<1> SUFFICES ASSUME IInv, [Next]_vars PROVE IInv'
  OBVIOUS
<1>1. CASE Next
  BY <1>1, TypedStep, CountedStep, PauseNext DEF IInv
<1>2. CASE UNCHANGED vars
  <2> USE <1>2 DEF vars, poolVars, countVars, threadVars, outerVars
  <2>1. Typed'
    BY DEF IInv, Typed, CountTypes, RestTypes, Shapes
  <2>2. PauseInv'
    BY DEF IInv, PauseInv, Holders, OnePause, Hidden
  <2>3. Counted'
    <3>1. Still
      BY DEF Still, Stays
    <3> QED
      BY <3>1, Unmoved DEF IInv, Counted, CountedIn
  <2> QED
    BY <2>1, <2>2, <2>3 DEF IInv
<1> QED
  BY <1>1, <1>2

\* ... so it holds in every reachable state.
LEMMA IInvHolds == Spec => []IInv
  BY IInvInit, IInvNext, PTL DEF Spec

\* Types: no count of pending tasks is ever negative.
THEOREM TypeCorrect == Spec => []TypeOK
<1>1. IInv => TypeOK
  BY CountsAreTyped DEF IInv
<1> QED
  BY <1>1, IInvHolds, PTL

\* While a pool pauses and nobody holds its mutex, all work lists are hidden
\* (handle_pause, ldap_pvt_thread_pool_resume): no thread can start a task then.
THEOREM PauseHides == Spec => []HiddenWhilePaused
<1>1. IInv => HiddenWhilePaused
  <2> SUFFICES ASSUME IInv, pause # "NOT_PAUSED", pool = Nobody PROVE hidden = Queues
    BY DEF HiddenWhilePaused
  <2>1. PICK t \in Threads : pc[t] \in Pausing
    BY DEF IInv, PauseInv, OnePause
  <2>2. pc[t] # "hide"
    BY PoolAssumption DEF IInv, PauseInv, Holders, Holding
  <2> QED
    BY <2>1, <2>2 DEF IInv, PauseInv, Hidden
<1> QED
  BY <1>1, IInvHolds, PTL

\* The count of pending tasks is exact, and the count of open threads is until the
\* pool is closed (ldap_pvt_thread_pool_submit2, handle_pause), for any queues and
\* whatever becomes of ltp_active_count, which handle_pause changes without the
\* queue's mutex.
THEOREM TasksMatch == Spec => []TasksCounted
<1>1. IInv => TasksCounted
  BY DEF IInv, Counted, CountedIn, TasksCounted, OpenIn
<1> QED
  BY <1>1, IInvHolds, PTL

-----------------------------------------------------------------------------
(***************************************************************************)
(* A pool of one queue whose threads are all open, and that is not closed: *)
(* there a pause leaves its task alone.                                     *)
(***************************************************************************)
Warm == NumQueues = 1 /\ Opened = TRUE /\ MayClose = FALSE

\* All threads stay open: none is created and none exits.
AllOpen ==
  /\ ~finishing /\ closer = "off" /\ open[0] = MaxCount(0)
  /\ \A t \in Threads : pc[t] \notin {"none", "start", "startwait", "ready", "exit"}

\* Where a thread has the mutex of its queue, or of the pool in its place.
MutexHeld ==
  \A t \in Threads :
    /\ pc[t] \in {"look", "last"} => mutex[0] = t
    /\ pc[t] = "check" => pool = t \/ mutex[0] = t

\* The count of active threads is exact, torn increments or not: the thread that
\* restores itself reads a count nobody changes before it writes.
ActiveExact == \A q \in Queues : active[q] = Cardinality(ActiveIn(q))
CopyExact   == \A t \in Threads : pc[t] = "store" => copy[t] = active[0]

\* Who is about to report to a pause is the only one, is the last active thread,
\* and is waited for.
Reports ==
  /\ \A t \in Threads : pc[t] \in {"last", "tell"} =>
       /\ active[0] = 0
       /\ pause # "NOT_PAUSED" \/ pc[t] = "tell"
            => activeQueues = 1 /\ \E p \in Threads : pc[p] = "await"
  /\ \A t, u \in Threads :
       pc[t] \in {"last", "tell"} /\ pc[u] \in {"last", "tell"} => t = u

\* Who waits for the others does so as long as one is active.
Waits ==
  \A p \in Threads :
    /\ pc[p] = "hide" => todo[p] = Queues /\ activeQueues = 0
    /\ pc[p] = "await" =>
         activeQueues \in {0, 1} /\ (activeQueues = 0 => active[0] = 0)

\* From then on nobody runs a task, nor is about to report.
Busy == {"look", "run", "pausing", "waiting"}
Settled ==
  \A p \in Threads : pc[p] \in {"restore", "store", "alone"} =>
    \A u \in Threads \ {p} : pc[u] \notin Busy \cup {"last", "tell"}

PauseProgress == CopyExact /\ Reports /\ Waits /\ Settled
WarmInv == AllOpen /\ MutexHeld /\ ActiveExact /\ PauseProgress

\* There is one queue, and every thread belongs to it.
LEMMA OneQueue ==
  ASSUME NumQueues = 1
  PROVE  /\ Queues = {0} /\ \A t \in Threads : QueueOf[t] = 0
<1>1. Queues = {0}
  BY DEF Queues
<1> QED
  BY <1>1, PoolAssumption

\* What the count of active threads says of them.
LEMMA ActiveCount ==
  ASSUME NumQueues = 1, ActiveExact
  PROVE  /\ active[0] \in Nat
         /\ \A t \in Threads : Active(t) => active[0] >= 1
         /\ \A t, u \in Threads : Active(t) /\ Active(u) /\ active[0] = 1 => t = u
         /\ active[0] = 0 => \A t \in Threads : ~Active(t)
<1> DEFINE S == ActiveIn(0)
<1>1. 0 \in Queues /\ \A t \in Threads : QueueOf[t] = 0
  BY OneQueue
<1>2. S \in SUBSET Workers(0) /\ active[0] = Cardinality(S)
  BY <1>1 DEF ActiveIn, ActiveExact
<1>3. IsFiniteSet(S) /\ Cardinality(S) \in Nat
  BY <1>1, <1>2, WorkersFinite, FS_CardinalityType
<1>4. \A t \in Threads : t \in S <=> Active(t)
  BY <1>1 DEF ActiveIn, Workers, Active
<1> HIDE DEF S
<1>5. Cardinality(S) = 0 => S = {}
  BY <1>3, FS_EmptySet
<1>6. \A t \in S : Cardinality(S \ {t}) = Cardinality(S) - 1 /\ IsFiniteSet(S \ {t})
  BY <1>3, FS_RemoveElement
<1>7. ASSUME NEW t \in S, NEW u \in S, Cardinality(S) = 1 PROVE t = u
  <2>1. Cardinality(S \ {t}) = 0 /\ IsFiniteSet(S \ {t})
    BY <1>6, <1>7
  <2>2. S \ {t} = {}
    BY <2>1, FS_EmptySet
  <2> QED
    BY <2>2
<1>8. \A t \in S : Cardinality(S) >= 1
  BY <1>3, <1>5
<1>9. /\ \A t \in Threads : Active(t) => Cardinality(S) >= 1
      /\ Cardinality(S) = 0 => \A t \in Threads : ~Active(t)
  BY <1>4, <1>5, <1>8
<1>10. \A t, u \in Threads : Active(t) /\ Active(u) /\ Cardinality(S) = 1 => t = u
  BY <1>4, <1>7
<1> QED
  BY <1>2, <1>3, <1>9, <1>10

-----------------------------------------------------------------------------
\* In a warm pool no thread is created, even for a task that finds none idle.
LEMMA WarmSubmit ==
  ASSUME Warm, Typed, AllOpen, Submit
  PROVE  /\ open' = open /\ UNCHANGED <<poolVars, pool, mutex, hidden, active, threadVars, closer>>
         /\ \A u \in Threads : pc'[u] = pc[u] \/ (pc[u] = "sleep" /\ pc'[u] = "woken")
<1>1. sub[1] = 0 /\ pc \in [Threads -> Pc]
  BY OneQueue DEF Warm, Submit, Typed, RestTypes, Shapes
<1>2. ~NeedsThread(sub[1])
  <2>1. MaxCount(0) \in Nat
    <3>1. Workers(0) \in SUBSET Workers(0) /\ 0 \in Queues
      BY OneQueue DEF Warm
    <3> QED
      BY <3>1, WorkersFinite, FS_CardinalityType DEF MaxCount
  <2> QED
    BY <1>1, <2>1 DEF NeedsThread, AllOpen
<1>3. (pc' = pc \/ Signal(0, pc)) /\ open' = open
  BY <1>1, <1>2 DEF Submit
<1>4. \A u \in Threads : pc'[u] = pc[u] \/ (pc[u] = "sleep" /\ pc'[u] = "woken")
  <2>1. CASE pc' = pc
    BY <2>1
  <2>2. CASE Signal(0, pc)
    BY <2>2, <1>1, OneQueue, SignalWakes DEF Warm
  <2> QED
    BY <1>3, <2>1, <2>2
<1> QED
  BY <1>3, <1>4 DEF Submit

\* The steps a warm pool takes.
WarmOuter == Submit \/ Choose \/ TryNext \/ SubmitFails
WarmThread(t) ==
  \/ AskPause(t) \/ Look(t) \/ Last(t) \/ Tell(t) \/ Sleep(t) \/ PoolWoken(t) \/ Wake(t)
  \/ EndTask(t) \/ GoIdle(t) \/ GoUnidle(t) \/ NoWait(t)
  \/ Want(t) \/ Await(t) \/ Restore(t) \/ Resume(t) \/ Resumed(t)
  \/ \E q \in Queues : Hide(t, q) \/ Show(t, q)

LEMMA WarmSteps ==
  ASSUME Warm, AllOpen, Next
  PROVE  WarmOuter \/ \E t \in Threads : WarmThread(t)
<1>1. ~Close /\ ~Closing
  BY DEF Warm, AllOpen, Close, Closing, CloseLook, CloseWait, CloseNext
<1>2. ASSUME NEW t \in Threads, Thread(t) PROVE WarmThread(t)
  BY <1>2 DEF Thread, WarmThread, AllOpen, Start, StartWait, Ready, Exit, ExitUnlocked
<1>3. ASSUME NEW t \in Threads, AskPause(t) PROVE WarmThread(t)
  BY <1>3 DEF WarmThread
<1> QED
  BY <1>1, <1>2, <1>3 DEF Next, Submitting, WarmOuter

\* A thread's step moves that thread alone, but for those woken from a wait.
LEMMA WarmOnly ==
  ASSUME Typed, NEW t \in Threads, WarmThread(t)
  PROVE  Only(t)
<1> Shapes
  BY DEF Typed
<1> QED
  BY MovingSteps, CountingSteps DEF WarmThread, Moves, Books

\* Only Restore changes the count of active threads otherwise than it counts.
LEMMA ActiveKept ==
  ASSUME Warm, Typed, Typed', ActiveExact, CopyExact, NEW t \in Threads, WarmThread(t)
  PROVE  ActiveExact'
<1>0. Shapes /\ Shapes' /\ Only(t) /\ 0 \in Queues /\ Queues = {0} /\ QueueOf[t] = 0
      /\ active \in [Queues -> Int] /\ active[0] = Cardinality(ActiveIn(0))
  BY WarmOnly, OneQueue DEF Typed, CountTypes, Warm, ActiveExact
<1>1. Cardinality(ActiveIn(0)) \in Nat
      /\ Cardinality(ActiveIn(0)') = Cardinality(ActiveIn(0)) + Is(Active(t)') - Is(Active(t))
  BY <1>0, Recount
<1>2. ASSUME NEW n \in Int, Changed(active, t, n), n = Is(Active(t)') - Is(Active(t))
      PROVE  ActiveExact'
  <2>1. active'[0] = active[0] + n
    BY <1>0, <1>2 DEF Changed
  <2>2. Is(Active(t)') \in Int /\ Is(Active(t)) \in Int
    BY DEF Is
  <2>3. active'[0] = Cardinality(ActiveIn(0)')
    BY <1>0, <1>1, <1>2, <2>1, <2>2
  <2> QED
    BY <1>0, <2>3 DEF ActiveExact
<1>3. CASE Moves(t)
  <2>1. Changed(active, t, 0) /\ 0 = Is(Active(t)') - Is(Active(t))
    BY <1>0, <1>3 DEF Moves, Changed, countVars, Is
  <2> QED
    BY <1>2, <2>1
<1>4. ASSUME NEW l \in Int, NEW o \in Int, NEW n \in Int, Books(t, l, o, n), ~Restore(t),
             pc[t] \notin {"restore", "store"}
      PROVE  ActiveExact'
  BY <1>2, <1>4 DEF Books
<1>5. CASE Restore(t)
  <2>1. CASE pc'[t] = "store"
    <3>1. active' = active /\ ~Active(t) /\ ~Active(t)'
      BY <1>5, <2>1, <1>0 DEF Restore, Goto, Shapes, Active
    <3>2. Changed(active, t, 0) /\ 0 = Is(Active(t)') - Is(Active(t))
      BY <1>0, <3>1 DEF Changed, Is
    <3> QED
      BY <1>2, <3>2
  <2>2. CASE pc'[t] # "store"
    <3>1. /\ pc'[t] = "alone" /\ pc[t] \in {"restore", "store"}
          /\ \E n \in Torn(copy[t], active[0], 1) : active' = [active EXCEPT ![0] = n]
          /\ pc[t] = "store"
      BY <1>5, <2>2, <1>0 DEF Restore, Goto, Shapes
    <3>2. active'[0] = active[0] + 1
      BY <1>0, <3>1 DEF CopyExact, Torn
    <3>3. Changed(active, t, 1)
      BY <1>0, <3>2 DEF Changed
    <3>4. 1 = Is(Active(t)') - Is(Active(t))
      BY <3>1 DEF Is, Active
    <3> QED
      BY <1>2, <3>3, <3>4
  <2> QED
    BY <2>1, <2>2
<1>6. CASE Look(t) \/ Wake(t) \/ GoIdle(t) \/ GoUnidle(t) \/ \E q \in Queues : Hide(t, q)
  <2>1. pc[t] \notin {"restore", "store"}
    BY <1>6 DEF Look, Wake, GoIdle, GoUnidle, Hide
  <2>2. PICK l \in Int, o \in Int, n \in Int : Books(t, l, o, n)
    BY <1>6, CountingSteps
  <2>3. ~Restore(t)
    BY <2>1 DEF Restore
  <2> QED
    BY <1>4, <2>1, <2>2, <2>3
<1> QED
  BY <1>0, <1>3, <1>5, <1>6, MovingSteps DEF WarmThread

\* The threads stay open, ...
LEMMA AllOpenKept ==
  ASSUME Warm, Typed, AllOpen, Next
  PROVE  AllOpen'
<1>0. pc \in [Threads -> Pc] /\ open \in [Queues -> Int]
  BY DEF Typed, Shapes, CountTypes
<1>1. CASE WarmOuter
  <2>1. UNCHANGED <<finishing, closer, open>>
        /\ \A u \in Threads : pc'[u] = pc[u] \/ pc'[u] = "woken"
    BY <1>1, WarmSubmit
       DEF WarmOuter, Choose, TryNext, SubmitFails, poolVars, countVars, outerVars
  <2> QED
    BY <2>1 DEF AllOpen
<1>2. ASSUME NEW t \in Threads, WarmThread(t) PROVE AllOpen'
  <2>1. Only(t)
    BY <1>2, WarmOnly
  <2>2. \A u \in Threads \ {t} : pc'[u] \notin {"none", "start", "startwait", "ready", "exit"}
    BY <2>1 DEF Only, Stays, Waiting, AllOpen
  <2>3. CASE \E q \in Queues : Hide(t, q) \/ Show(t, q)
    BY <2>2, <2>3, <1>0
       DEF AllOpen, Hide, Show, Goto, Woken, Sleepers, poolVars, outerVars, countVars
  <2>4. CASE AskPause(t) \/ Look(t) \/ Last(t) \/ Tell(t) \/ Sleep(t) \/ PoolWoken(t) \/ Wake(t)
    BY <2>2, <2>4, <1>0
       DEF AllOpen, AskPause, Look, Last, Tell, Sleep, PoolWoken, Wake, TakeTask, Goto,
           poolVars, outerVars, countVars
  <2>5. CASE EndTask(t) \/ GoIdle(t) \/ GoUnidle(t) \/ NoWait(t) \/ Want(t) \/ Await(t)
             \/ Restore(t) \/ Resume(t)
    BY <2>2, <2>5, <1>0
       DEF AllOpen, EndTask, GoIdle, GoUnidle, NoWait, Want, Await, Restore, Resume, Goto,
           poolVars, outerVars, countVars
  <2>6. CASE Resumed(t)
    BY <2>2, <2>6, <1>0
       DEF AllOpen, Resumed, Woken, PoolSleepers, poolVars, outerVars, countVars
  <2> QED
    BY <1>2, <2>3, <2>4, <2>5, <2>6 DEF WarmThread
<1> QED
  BY <1>1, <1>2, WarmSteps

\* ... the mutexes with whom they were given to, ...
LEMMA MutexKept ==
  ASSUME Warm, Typed, AllOpen, PauseInv, MutexHeld, Next
  PROVE  MutexHeld'
<1>0. /\ pc \in [Threads -> Pc] /\ mutex \in [Queues -> Threads \cup {Nobody, "main"}]
      /\ pool \in Threads \cup {Nobody} /\ 0 \in Queues
      /\ \A t \in Threads : QueueOf[t] = 0 /\ t # Nobody
  BY OneQueue, PoolAssumption DEF Typed, Shapes, RestTypes, Warm
<1>1. CASE WarmOuter
  <2>1. UNCHANGED <<pool, mutex>>
        /\ \A u \in Threads : pc'[u] = pc[u] \/ pc'[u] = "woken"
    BY <1>1, WarmSubmit DEF WarmOuter, Choose, TryNext, SubmitFails
  <2> QED
    BY <2>1 DEF MutexHeld
<1>2. ASSUME NEW t \in Threads, WarmThread(t) PROVE MutexHeld'
  <2>0. \A u \in Threads \ {t} :
          /\ pc'[u] \in {"look", "last"} => mutex[0] = u
          /\ pc'[u] = "check" => pool = u \/ mutex[0] = u
    BY <1>2, WarmOnly DEF Only, Stays, Waiting, MutexHeld
  <2>t. /\ pc[t] \in {"look", "last"} => mutex[0] = t
        /\ pc[t] = "check" => pool = t \/ mutex[0] = t
    BY DEF MutexHeld
  <2>h. pc[t] \in Holding => pool = t
    BY DEF PauseInv, Holders
  <2>p. ASSUME pool = Nobody \/ pool = t, mutex' = mutex,
               pc'[t] = "check" => pool' = t, pc'[t] \notin {"look", "last"}
        PROVE  MutexHeld'
    BY <1>0, <2>0, <2>p DEF MutexHeld
  <2>m. ASSUME pool' = pool, mutex[0] = Nobody \/ mutex[0] = t,
               pc'[t] \in {"look", "last", "check"} => mutex'[0] = t
        PROVE  MutexHeld'
    BY <1>0, <2>0, <2>m DEF MutexHeld
  <2>u. ASSUME UNCHANGED <<pool, mutex>>, pc'[t] \notin {"look", "last", "check"}
        PROVE  MutexHeld'
    BY <2>0, <2>u DEF MutexHeld
  <2>1. CASE AskPause(t) \/ NoWait(t)
    BY <1>0, <2>1, <2>u DEF AskPause, NoWait, Goto, Pc
  <2>2. CASE GoIdle(t)
    BY <1>0, <2>2, <2>u DEF GoIdle, Goto
  <2>3. CASE \E q \in Queues : Show(t, q)
    BY <1>0, <2>3, <2>u DEF Show, Woken, Sleepers
  <2>4. CASE Look(t)
    <3>1. mutex[0] = t /\ pool' = pool
      BY <2>t, <2>4 DEF Look
    <3>2. pc'[t] \in {"look", "last", "check"} => mutex'[0] = t
      BY <1>0, <2>4, <3>1 DEF Look, TakeTask, Goto
    <3> QED
      BY <3>1, <3>2, <2>m
  <2>5. CASE Last(t)
    <3>1. mutex[0] = t /\ pool' = pool
      BY <2>t, <2>5 DEF Last, poolVars
    <3>2. pc'[t] \in {"look", "last", "check"} => mutex'[0] = t
      BY <1>0, <2>5, <3>1 DEF Last, Goto
    <3> QED
      BY <3>1, <3>2, <2>m
  <2>6. CASE Wake(t)
    <3>1. mutex[0] = Nobody /\ pool' = pool
      BY <1>0, <2>6 DEF Wake, Free
    <3>2. pc'[t] \in {"look", "last", "check"} => mutex'[0] = t
      BY <1>0, <2>6 DEF Wake, TakeTask, Goto
    <3> QED
      BY <3>1, <3>2, <2>m
  <2>7. CASE EndTask(t)
    <3>1. mutex[0] = Nobody /\ pool' = pool /\ mutex'[0] = t
      BY <1>0, <2>7 DEF EndTask, Lock, Free
    <3> QED
      BY <3>1, <2>m
  <2>8. CASE Sleep(t)
    <3>1. CASE pool = t
      BY <1>0, <2>8, <2>p, <3>1 DEF Sleep, Goto
    <3>2. CASE pool # t
      <4>1. mutex[0] = t /\ pool' = pool /\ pc'[t] = "sleep"
        BY <1>0, <2>t, <2>8, <3>2 DEF Sleep, Goto
      <4> QED
        BY <4>1, <2>m
    <3> QED
      BY <3>1, <3>2
  <2>9. CASE Tell(t) \/ PoolWoken(t) \/ GoUnidle(t) \/ Want(t) \/ Await(t) \/ Resume(t)
    <3>1. mutex' = mutex /\ (pool = Nobody \/ pool = t)
      BY <2>h, <2>9 DEF Tell, PoolWoken, GoUnidle, Want, Await, Resume, Holding
    <3>2. (pc'[t] = "check" => pool' = t) /\ pc'[t] \notin {"look", "last"}
      BY <1>0, <2>9 DEF Tell, PoolWoken, GoUnidle, Want, Await, Resume, Goto
    <3> QED
      BY <3>1, <3>2, <2>p
  <2>10. CASE Restore(t) \/ \E q \in Queues : Hide(t, q)
    <3>1. mutex' = mutex /\ pool = t
      BY <2>h, <2>10 DEF Restore, Hide, Holding
    <3>2. pc'[t] \notin {"look", "last", "check"}
      BY <1>0, <2>10 DEF Restore, Hide, Goto
    <3> QED
      BY <3>1, <3>2, <2>p
  <2>11. CASE Resumed(t)
    <3>1. mutex' = mutex /\ pool = t /\ pc'[t] = "run"
      BY <1>0, <2>h, <2>11 DEF Resumed, Holding, Woken
    <3> QED
      BY <3>1, <2>p
  <2> QED
    BY <1>2, <2>1, <2>2, <2>3, <2>4, <2>5, <2>6, <2>7, <2>8, <2>9, <2>10, <2>11
       DEF WarmThread
<1> QED
  BY <1>1, <1>2, WarmSteps

\* ... and a pause gets on as it should.  A step that leaves nobody who waits for
\* the others, reports, or is alone, has nothing to keep; ...
LEMMA NobodyPauses ==
  ASSUME \A u \in Threads :
           /\ pc'[u] \notin {"last", "tell", "await", "restore", "store", "alone"}
           /\ pc'[u] = "hide" => todo'[u] = Queues /\ activeQueues' = 0
  PROVE  PauseProgress'
<1>1. CopyExact' /\ Reports'
  BY DEF CopyExact, Reports
<1>2. Waits' /\ Settled'
  BY DEF Waits, Settled
<1> QED
  BY <1>1, <1>2 DEF PauseProgress

\* ... nor has one that makes nobody busy, or a reporter, that was not before.
Concern == Busy \cup {"last", "tell", "hide", "await", "restore", "store", "alone"}
LEMMA NothingNew ==
  ASSUME PauseProgress, UNCHANGED <<active, activeQueues, pause, copy, todo>>,
         \A u \in Threads :
           \/ pc'[u] = pc[u]
           \/ pc'[u] \notin Concern /\ pc[u] # "await"
           \/ pc[u] \in Busy /\ pc'[u] \in Busy
  PROVE  PauseProgress'
<1>1. CopyExact'
  BY DEF PauseProgress, CopyExact, Concern, Busy
<1>2. Reports'
  <2>1. \A u \in Threads : pc'[u] \in {"last", "tell"} => pc'[u] = pc[u]
    BY DEF Concern, Busy
  <2>2. \A u \in Threads : pc[u] = "await" => pc'[u] = "await"
    BY DEF Busy
  <2> QED
    BY <2>1, <2>2 DEF PauseProgress, Reports
<1>3. Waits'
  <2>1. \A u \in Threads : pc'[u] \in {"hide", "await"} => pc'[u] = pc[u]
    BY DEF Concern, Busy
  <2> QED
    BY <2>1 DEF PauseProgress, Waits
<1>4. Settled'
  <2>1. \A u \in Threads :
          /\ pc'[u] \in {"restore", "store", "alone"} => pc'[u] = pc[u]
          /\ pc'[u] \in Busy \cup {"last", "tell"} => pc[u] \in Busy \cup {"last", "tell"}
    BY DEF Concern, Busy
  <2> QED
    BY <2>1 DEF PauseProgress, Settled
<1> QED
  BY <1>1, <1>2, <1>3, <1>4 DEF PauseProgress

\* While a thread is active nobody reports; nor does anybody once a pause has begun.
LEMMA NoReporter ==
  ASSUME Warm, ActiveExact, PauseInv, PauseProgress
  PROVE  /\ \A t, u \in Threads : Active(t) => pc[u] \notin {"last", "tell"}
         /\ \A u \in Threads : pc[u] = "tell" => pause # "NOT_PAUSED" /\ hidden = Queues
<1>1. \A t \in Threads : Active(t) => active[0] # 0
  BY ActiveCount DEF Warm
<1>2. \A u \in Threads : pc[u] \in {"last", "tell"} => active[0] = 0
  BY DEF PauseProgress, Reports
<1>3. \A u \in Threads : pc[u] = "tell" => \E p \in Threads : pc[p] = "await"
  BY DEF PauseProgress, Reports
<1>4. \A p \in Threads : pc[p] = "await" => pause # "NOT_PAUSED" /\ hidden = Queues
  BY DEF PauseInv, OnePause, Hidden, Pausing
<1> QED
  BY <1>1, <1>2, <1>3, <1>4

\* A task is found by nobody but before the lists are hidden.
LEMMA NoTaskInPause ==
  ASSUME Warm, PauseInv, HasWork(0)
  PROVE  \A p \in Threads : pc[p] \notin {"await", "restore", "store", "alone"}
<1>1. Queues = {0}
  BY OneQueue DEF Warm
<1> QED
  BY <1>1 DEF HasWork, PauseInv, Hidden, Pausing

\* Steps that are of no concern to a pause.
LEMMA ProgressCalm ==
  ASSUME Warm, Typed, PauseProgress, NEW t \in Threads,
         \/ AskPause(t) \/ NoWait(t) \/ EndTask(t) \/ PoolWoken(t) \/ Sleep(t)
         \/ Last(t) /\ pause = "NOT_PAUSED"
         \/ Wake(t) /\ ~HasWork(QueueOf[t])
  PROVE  PauseProgress'
<1>0. pc \in [Threads -> Pc]
  BY DEF Typed, Shapes
<1>1. UNCHANGED <<active, activeQueues, pause, copy, todo>>
  BY DEF AskPause, NoWait, EndTask, PoolWoken, Sleep, Last, Wake, TakeTask, poolVars,
         countVars, threadVars
<1>2. \A u \in Threads \ {t} : pc'[u] = pc[u]
  BY <1>0 DEF AskPause, NoWait, EndTask, PoolWoken, Sleep, Last, Wake, TakeTask, Goto
<1>3. \/ pc'[t] \notin Concern /\ pc[t] # "await"
      \/ pc[t] \in Busy /\ pc'[t] \in Busy
  BY <1>0 DEF AskPause, NoWait, EndTask, PoolWoken, Sleep, Last, Wake, Goto, Concern, Busy
<1> QED
  BY <1>1, <1>2, <1>3, NothingNew

\* A thread takes a task, or goes on after a pause: nobody pauses then, or the
\* lists are not yet hidden.
LEMMA ProgressBusier ==
  ASSUME Warm, Typed, MutexHeld, ActiveExact, PauseInv, PauseProgress, NEW t \in Threads,
         \/ Look(t) /\ HasWork(QueueOf[t])
         \/ Wake(t) /\ HasWork(QueueOf[t])
         \/ GoUnidle(t)
  PROVE  PauseProgress'
<1>0. /\ pc \in [Threads -> Pc] /\ QueueOf[t] = 0
      /\ \A u \in Threads : u # Nobody
  BY OneQueue, PoolAssumption DEF Typed, Shapes, Warm
<1>1. UNCHANGED <<activeQueues, todo>> /\ \A u \in Threads \ {t} : pc'[u] = pc[u]
  BY <1>0 DEF Look, Wake, GoUnidle, TakeTask, Goto, poolVars, threadVars
<1>2. pc'[t] \in {"run", "want"}
  BY <1>0 DEF Look, Wake, GoUnidle, TakeTask, Goto
<1>3. \A p \in Threads : pc[p] \notin {"await", "restore", "store", "alone"}
  <2>1. CASE GoUnidle(t)
    BY <2>1 DEF GoUnidle, PauseInv, OnePause, Pausing
  <2>2. CASE ~GoUnidle(t)
    BY <1>0, <2>2, NoTaskInPause
  <2> QED
    BY <2>1, <2>2
<1>4. \A p \in Threads : pc[p] \notin {"last", "tell"}
  <2>1. CASE Look(t)
    BY <2>1, NoReporter DEF Look, Active
  <2>2. CASE Wake(t) \/ GoUnidle(t)
    <3>1. \A p \in Threads : pc[p] # "last"
      BY <1>0, <2>2 DEF Wake, GoUnidle, Free, MutexHeld
    <3>2. \A p \in Threads : pc[p] # "tell"
      BY <1>3 DEF PauseProgress, Reports
    <3> QED
      BY <3>1, <3>2
  <2> QED
    BY <2>1, <2>2
<1>5. \A p \in Threads : pc[p] = "hide" => todo[p] = Queues /\ activeQueues = 0
  BY DEF PauseProgress, Waits
<1> QED
  BY <1>1, <1>2, <1>3, <1>4, <1>5, NobodyPauses

\* A pause is announced, and ended.
LEMMA ProgressEnds ==
  ASSUME Warm, Typed, ActiveExact, PauseInv, PauseProgress, NEW t \in Threads,
         Want(t) \/ Resume(t) \/ Resumed(t) \/ \E q \in Queues : Show(t, q)
  PROVE  PauseProgress'
<1>0. pc \in [Threads -> Pc] /\ todo \in [Threads -> SUBSET Queues]
  BY DEF Typed, Shapes
<1>1. Active(t)
  BY DEF Want, Resume, Resumed, Show, Active
<1>2. \A u \in Threads : pc[u] \notin {"last", "tell"}
  BY <1>1, NoReporter
<1>3. \A u \in Threads \ {t} : pc[u] \notin Pausing
  BY DEF Want, Resume, Resumed, Show, PauseInv, OnePause, Pausing
<1>4. \A u \in Threads \ {t} : pc'[u] = pc[u] \/ pc'[u] \in {"woken", "poolwoken"}
  BY <1>0 DEF Want, Resume, Resumed, Show, Goto, Woken, Sleepers, PoolSleepers
<1>5. \/ pc'[t] \in {"show", "run"}
      \/ pc'[t] = "hide" /\ todo'[t] = Queues /\ activeQueues' = 0
  BY <1>0 DEF Want, Resume, Resumed, Show, Goto, Woken, Sleepers, PoolSleepers
<1> QED
  BY <1>2, <1>3, <1>4, <1>5, NobodyPauses DEF Pausing

\* Of a pause the thread that pauses is the only one at work.
LEMMA PauserElsewhere ==
  ASSUME Warm, Typed, ActiveExact, PauseInv, PauseProgress, pause # "NOT_PAUSED",
         NEW t \in Threads, pc[t] \in Busy
  PROVE  \E p \in Threads \ {t} :
           /\ \A u \in Threads : pc[u] \in Pausing => u = p
           /\ \/ pc[p] = "hide" /\ pool = p /\ Active(p)
              \/ pc[p] = "await" /\ activeQueues = 1
<1>1. PICK p \in Threads : pc[p] \in Pausing
  BY DEF PauseInv, OnePause
<1>2. p # t /\ \A u \in Threads : pc[u] \in Pausing => u = p
  BY <1>1 DEF PauseInv, OnePause, Pausing, Busy
<1>3. pc[p] \in {"hide", "await"}
  BY <1>1, <1>2 DEF PauseProgress, Settled, Pausing
<1>4. CASE pc[p] = "hide"
  BY <1>2, <1>4 DEF PauseProgress, Waits, PauseInv, Holders, Holding, Active
<1>5. CASE pc[p] = "await"
  <2>1. active[0] # 0
    BY ActiveCount DEF Warm, Active, Busy
  <2> QED
    BY <1>2, <1>5, <2>1 DEF PauseProgress, Waits
<1> QED
  BY <1>2, <1>3, <1>4, <1>5

\* A thread finds no task: if it was the last active one and there is a pause, the
\* pause waits for its report.
LEMMA ProgressIdler ==
  ASSUME Warm, Typed, ActiveExact, PauseInv, PauseProgress, NEW t \in Threads,
         Look(t), ~HasWork(QueueOf[t])
  PROVE  PauseProgress'
<1>0. /\ pc \in [Threads -> Pc] /\ active \in [Queues -> Int] /\ QueueOf[t] = 0
      /\ 0 \in Queues
  BY OneQueue DEF Typed, Shapes, CountTypes, Warm
<1>1. /\ pc[t] = "look" /\ active'[0] = active[0] - 1
      /\ UNCHANGED <<pause, activeQueues, copy, todo>>
      /\ \A u \in Threads \ {t} : pc'[u] = pc[u]
      /\ pc'[t] = IF active[0] - 1 < 1 THEN "last" ELSE "check"
  BY <1>0 DEF Look, Add, Goto, poolVars
<1>2. Active(t) /\ active[0] >= 1 /\ active[0] \in Nat
  BY <1>1, ActiveCount DEF Warm, Active
<1>3. \A u \in Threads : pc[u] \notin {"last", "tell"}
  BY <1>2, NoReporter
<1>4. \A p \in Threads : pc[p] \notin {"restore", "store", "alone"}
  BY <1>1 DEF PauseProgress, Settled, Busy
<1>5. CopyExact' /\ Settled'
  BY <1>1, <1>4 DEF CopyExact, Settled
<1>6. Waits'
  <2>1. \A p \in Threads : pc[p] = "await" => activeQueues = 1
    BY <1>2 DEF PauseProgress, Waits
  <2>2. \A p \in Threads : pc'[p] \in {"hide", "await"} => pc'[p] = pc[p]
    BY <1>1
  <2> QED
    BY <1>1, <2>1, <2>2 DEF PauseProgress, Waits
<1>7. Reports'
  <2>1. \A u \in Threads : pc'[u] \in {"last", "tell"} => u = t /\ pc'[u] = "last"
    BY <1>1, <1>3
  <2>2. ASSUME pc'[t] = "last" PROVE active'[0] = 0
    BY <1>1, <1>2, <2>2
  <2>3. ASSUME pc'[t] = "last", pause # "NOT_PAUSED"
        PROVE  activeQueues = 1 /\ \E p \in Threads : pc'[p] = "await"
    <3>1. PICK p \in Threads \ {t} :
            \/ pc[p] = "hide" /\ Active(p)
            \/ pc[p] = "await" /\ activeQueues = 1
      BY <1>1, <2>3, PauserElsewhere DEF Busy
    <3>2. active[0] = 1
      BY <1>1, <1>2, <2>3
    <3>3. ~Active(p)
      BY <1>2, <3>2, ActiveCount DEF Warm
    <3> QED
      BY <1>1, <3>1, <3>3
  <2> QED
    BY <1>1, <2>1, <2>2, <2>3 DEF Reports
<1> QED
  BY <1>5, <1>6, <1>7 DEF PauseProgress

\* It goes to report, ...
LEMMA ProgressTells ==
  ASSUME Typed, PauseProgress, NEW t \in Threads, Last(t), pause # "NOT_PAUSED"
  PROVE  PauseProgress'
<1>0. pc \in [Threads -> Pc]
  BY DEF Typed, Shapes
<1>1. /\ pc[t] = "last" /\ pc'[t] = "tell" /\ \A u \in Threads \ {t} : pc'[u] = pc[u]
      /\ UNCHANGED <<pause, activeQueues, active, copy, todo>>
  BY <1>0 DEF Last, Goto, poolVars, countVars, threadVars
<1>2. CopyExact' /\ Waits'
  BY <1>1 DEF PauseProgress, CopyExact, Waits
<1>3. Settled'
  BY <1>1 DEF PauseProgress, Settled, Busy
<1>4. Reports'
  BY <1>1 DEF PauseProgress, Reports
<1> QED
  BY <1>2, <1>3, <1>4 DEF PauseProgress

\* ... and does: the pause waits for nobody else.
LEMMA ProgressTold ==
  ASSUME Typed, PauseProgress, NEW t \in Threads, Tell(t)
  PROVE  PauseProgress'
<1>0. pc \in [Threads -> Pc]
  BY DEF Typed, Shapes
<1>1. /\ pc[t] = "tell" /\ pc'[t] = "check" /\ \A u \in Threads \ {t} : pc'[u] = pc[u]
      /\ UNCHANGED <<pause, active, copy, todo>> /\ activeQueues' = activeQueues - 1
  BY <1>0 DEF Tell, Goto, countVars, threadVars
<1>2. /\ active[0] = 0 /\ activeQueues = 1
      /\ \A u \in Threads \ {t} : pc[u] \notin {"last", "tell"}
  BY <1>1 DEF PauseProgress, Reports
<1>3. CopyExact' /\ Settled'
  BY <1>1 DEF PauseProgress, CopyExact, Settled, Busy
<1>4. Reports'
  BY <1>1, <1>2 DEF Reports
<1>5. Waits'
  <2>1. activeQueues' = 0
    BY <1>1, <1>2
  <2>2. \A p \in Threads : pc'[p] = "hide" => todo'[p] = Queues /\ activeQueues' = 0
    BY <1>1, <2>1 DEF PauseProgress, Waits
  <2> QED
    BY <1>1, <1>2, <2>1, <2>2 DEF Waits
<1> QED
  BY <1>3, <1>4, <1>5 DEF PauseProgress

\* A task lets the pause have its way.
LEMMA ProgressIdles ==
  ASSUME Warm, Typed, ActiveExact, PauseInv, PauseProgress, NEW t \in Threads, GoIdle(t)
  PROVE  PauseProgress'
<1>0. /\ pc \in [Threads -> Pc] /\ active \in [Queues -> Int] /\ QueueOf[t] = 0
      /\ 0 \in Queues /\ \A u \in Threads : u # Nobody
  BY OneQueue, PoolAssumption DEF Typed, Shapes, CountTypes, Warm
<1>1. /\ pc[t] \in {"pausing", "waiting"} /\ active'[0] = active[0] - 1
      /\ pool = Nobody /\ pause # "NOT_PAUSED"
      /\ UNCHANGED <<pause, copy, todo>>
      /\ \A u \in Threads \ {t} : pc'[u] = pc[u]
      /\ pc'[t] \in {"idlepausing", "idlewaiting"}
      /\ activeQueues' = IF active[0] - 1 < 1 THEN activeQueues - 1 ELSE activeQueues
  BY <1>0 DEF GoIdle, Add, Goto, threadVars
<1>2. active[0] >= 1 /\ active[0] \in Nat /\ \A u \in Threads : pc[u] \notin {"last", "tell"}
  BY <1>1, ActiveCount, NoReporter DEF Warm, Active
<1>3. PICK p \in Threads \ {t} :
        /\ \A u \in Threads : pc[u] \in Pausing => u = p
        /\ pc[p] = "await" /\ activeQueues = 1
  <2>1. PICK p \in Threads \ {t} :
          /\ \A u \in Threads : pc[u] \in Pausing => u = p
          /\ \/ pc[p] = "hide" /\ pool = p /\ Active(p)
             \/ pc[p] = "await" /\ activeQueues = 1
    BY <1>1, PauserElsewhere DEF Busy
  <2> QED
    BY <1>0, <1>1, <2>1
<1>4. CopyExact' /\ Settled' /\ Reports'
  <2>1. \A u \in Threads : pc'[u] \notin {"last", "tell", "restore", "store", "alone"}
    BY <1>1, <1>2, <1>3 DEF Pausing
  <2> QED
    BY <2>1 DEF CopyExact, Settled, Reports
<1>5. Waits'
  <2>1. \A u \in Threads : pc'[u] # "hide"
    BY <1>1, <1>3 DEF Pausing
  <2>2. activeQueues' \in {0, 1} /\ (activeQueues' = 0 => active'[0] = 0)
    BY <1>1, <1>2, <1>3
  <2> QED
    BY <2>1, <2>2 DEF Waits
<1> QED
  BY <1>4, <1>5 DEF PauseProgress

\* The list is hidden; the pause waits if any other thread is active.
LEMMA ProgressHides ==
  ASSUME Warm, Typed, ActiveExact, ActiveExact', PauseInv, PauseProgress,
         NEW t \in Threads, NEW q \in Queues, Hide(t, q)
  PROVE  PauseProgress'
<1>0. /\ pc \in [Threads -> Pc] /\ active \in [Queues -> Int] /\ QueueOf[t] = 0
      /\ q = 0 /\ Queues = {0}
  BY OneQueue DEF Typed, Shapes, CountTypes, Warm
<1>1. /\ pc[t] = "hide" /\ todo[t] = Queues /\ activeQueues = 0
  BY DEF Hide, PauseProgress, Waits
<1>2. /\ active'[0] = active[0] - 1
      /\ activeQueues' = IF active[0] - 1 > 0 THEN 1 ELSE 0
      /\ pc'[t] = IF active[0] - 1 > 0 THEN "await" ELSE "restore"
      /\ \A u \in Threads \ {t} : pc'[u] = pc[u]
      /\ UNCHANGED <<pause, copy>>
  BY <1>0, <1>1 DEF Hide, Others, ActiveSome, Goto
<1>3. Active(t) /\ active[0] >= 1 /\ active[0] \in Nat
  BY <1>1, ActiveCount DEF Warm, Active
<1>4. \A u \in Threads : pc[u] \notin {"last", "tell"}
  BY <1>3, NoReporter
<1>5. \A u \in Threads \ {t} : pc[u] \notin Pausing
  BY <1>1 DEF PauseInv, OnePause, Pausing
<1>6. CopyExact' /\ Reports'
  <2>1. \A u \in Threads : pc'[u] \notin {"store", "last", "tell"}
    BY <1>2, <1>4, <1>5 DEF Pausing
  <2> QED
    BY <2>1 DEF CopyExact, Reports
<1>7. Waits'
  <2>1. \A u \in Threads \ {t} : pc'[u] \notin {"hide", "await"}
    BY <1>2, <1>5 DEF Pausing
  <2>2. pc'[t] # "hide" /\ (pc'[t] = "await" => activeQueues' = 1)
    BY <1>2
  <2> QED
    BY <2>1, <2>2 DEF Waits
<1>8. Settled'
  <2> SUFFICES ASSUME NEW p \in Threads, pc'[p] \in {"restore", "store", "alone"},
                      NEW u \in Threads \ {p}
               PROVE  pc'[u] \notin Busy \cup {"last", "tell"}
    BY DEF Settled
  <2>1. p = t
    BY <1>2, <1>5 DEF Pausing
  <2>2. active'[0] = 0
    BY <1>2, <1>3, <2>1
  <2>3. ~Active(u)'
    <3>1. active'[0] = Cardinality(ActiveIn(0)')
      BY <1>0 DEF ActiveExact
    <3>2. ActiveIn(0)' = {}
      <4>1. ActiveIn(0)' \in SUBSET Workers(0)
        BY DEF ActiveIn
      <4>2. IsFiniteSet(ActiveIn(0)')
        BY <1>0, <4>1, WorkersFinite
      <4> QED
        BY <2>2, <3>1, <4>2, FS_EmptySet
    <3> QED
      BY <1>0, <3>2, OneQueue DEF ActiveIn, Workers, Active, Warm
  <2> QED
    BY <1>2, <1>4, <2>1, <2>3 DEF Active, Busy
<1> QED
  BY <1>6, <1>7, <1>8 DEF PauseProgress

\* The last report was made, or the last task idles: the pause may begin.
LEMMA ProgressAwaits ==
  ASSUME Warm, Typed, ActiveExact, PauseInv, PauseProgress, NEW t \in Threads, Await(t)
  PROVE  PauseProgress'
<1>0. pc \in [Threads -> Pc]
  BY DEF Typed, Shapes
<1>1. /\ pc[t] = "await" /\ pc'[t] = "restore" /\ \A u \in Threads \ {t} : pc'[u] = pc[u]
      /\ UNCHANGED <<pause, active, activeQueues, copy, todo>> /\ activeQueues < 1
  BY <1>0 DEF Await, Goto, poolVars, countVars, threadVars
<1>2. activeQueues = 0 /\ active[0] = 0
  BY <1>1 DEF PauseProgress, Waits
<1>3. \A u \in Threads : ~Active(u)
  BY <1>2, ActiveCount DEF Warm
<1>4. \A u \in Threads : pc[u] \notin {"last", "tell"}
  <2>1. \A u \in Threads : pc[u] \in {"last", "tell"} => activeQueues = 1
    BY <1>1 DEF PauseProgress, Reports, PauseInv, OnePause, Pausing
  <2> QED
    BY <1>2, <2>1
<1>5. \A u \in Threads \ {t} : pc[u] \notin Pausing
  BY <1>1 DEF PauseInv, OnePause, Pausing
<1>6. CopyExact' /\ Reports' /\ Waits'
  <2>1. \A u \in Threads : pc'[u] \notin {"store", "last", "tell", "hide", "await"}
    BY <1>1, <1>4, <1>5 DEF Pausing
  <2> QED
    BY <2>1 DEF CopyExact, Reports, Waits
<1>7. Settled'
  <2>1. \A u \in Threads \ {t} : pc'[u] \notin {"restore", "store", "alone"}
    BY <1>1, <1>5 DEF Pausing
  <2>2. \A u \in Threads \ {t} : pc'[u] \notin Busy \cup {"last", "tell"}
    BY <1>1, <1>3, <1>4 DEF Busy, Active
  <2> QED
    BY <2>1, <2>2 DEF Settled
<1> QED
  BY <1>6, <1>7 DEF PauseProgress

\* It begins: nobody else is active while the thread counts itself again.
LEMMA ProgressRestores ==
  ASSUME Warm, Typed, PauseInv, PauseProgress, NEW t \in Threads, Restore(t)
  PROVE  PauseProgress'
<1>0. pc \in [Threads -> Pc] /\ copy \in [Threads -> Int] /\ QueueOf[t] = 0
  BY OneQueue DEF Typed, Shapes, RestTypes, Warm
<1>1. /\ pc[t] \in {"restore", "store"} /\ pc'[t] \in {"store", "alone"}
      /\ \A u \in Threads \ {t} : pc'[u] = pc[u]
      /\ pc'[t] = "store" => active' = active /\ copy'[t] = active[0]
  BY <1>0 DEF Restore, Goto
<1>2. \A u \in Threads \ {t} : pc[u] \notin Pausing \cup Busy \cup {"last", "tell"}
  BY <1>1 DEF PauseInv, OnePause, Pausing, PauseProgress, Settled
<1>3. CopyExact'
  <2>1. \A u \in Threads \ {t} : pc'[u] # "store"
    BY <1>1, <1>2 DEF Pausing
  <2> QED
    BY <1>1, <2>1 DEF CopyExact
<1>4. Reports' /\ Waits'
  <2>1. \A u \in Threads : pc'[u] \notin {"last", "tell", "hide", "await"}
    BY <1>1, <1>2 DEF Pausing
  <2> QED
    BY <2>1 DEF Reports, Waits
<1>5. Settled'
  <2>1. \A u \in Threads \ {t} :
          pc'[u] \notin {"restore", "store", "alone", "last", "tell"} \cup Busy
    BY <1>1, <1>2 DEF Pausing
  <2> QED
    BY <2>1 DEF Settled
<1> QED
  BY <1>3, <1>4, <1>5 DEF PauseProgress

\* So every step of a thread keeps a pause on its way.
LEMMA PauseProgressKept ==
  ASSUME Warm, Typed, PauseInv, MutexHeld, ActiveExact, ActiveExact', PauseProgress,
         NEW t \in Threads, WarmThread(t)
  PROVE  PauseProgress'
<1>1. CASE Look(t) \/ Wake(t)
  BY <1>1, ProgressBusier, ProgressIdler, ProgressCalm
<1>2. CASE Last(t)
  BY <1>2, ProgressCalm, ProgressTells
<1>3. CASE AskPause(t) \/ NoWait(t) \/ EndTask(t) \/ PoolWoken(t) \/ Sleep(t)
  BY <1>3, ProgressCalm
<1>4. CASE Want(t) \/ Resume(t) \/ Resumed(t) \/ \E q \in Queues : Show(t, q)
  BY <1>4, ProgressEnds
<1>5. CASE Tell(t) \/ GoIdle(t) \/ GoUnidle(t)
  BY <1>5, ProgressTold, ProgressIdles, ProgressBusier
<1>6. CASE Await(t) \/ Restore(t) \/ \E q \in Queues : Hide(t, q)
  BY <1>6, ProgressAwaits, ProgressRestores, ProgressHides
<1> QED
  BY <1>1, <1>2, <1>3, <1>4, <1>5, <1>6 DEF WarmThread

\* Nor do steps that are no thread's get in its way.
LEMMA OuterKept ==
  ASSUME ActiveExact, PauseProgress,
         UNCHANGED <<active, activeQueues, pause, copy, todo>>,
         \A u \in Threads : pc'[u] = pc[u] \/ (pc[u] = "sleep" /\ pc'[u] = "woken")
  PROVE  ActiveExact' /\ PauseProgress'
<1>1. Still
  BY DEF Still, Stays, Waiting
<1>2. ActiveExact'
  BY <1>1, Unmoved DEF ActiveExact
<1>3. PauseProgress'
  BY NothingNew DEF Concern, Busy
<1> QED
  BY <1>2, <1>3

-----------------------------------------------------------------------------
\* A warm pool starts so, ...
LEMMA WarmInvInit == Warm /\ Init => WarmInv
<1> SUFFICES ASSUME Warm, Init PROVE WarmInv
  OBVIOUS
<1>1. \A t \in Threads : pc[t] = "sleep"
  BY DEF Init, Warm
<1>2. AllOpen
  BY <1>1, OneQueue DEF AllOpen, Init, Warm
<1>3. MutexHeld
  BY <1>1 DEF MutexHeld
<1>4. ActiveExact
  <2>1. \A q \in Queues : ActiveIn(q) = {} /\ active[q] = 0
    BY <1>1 DEF Init, ActiveIn, Workers
  <2> QED
    BY <2>1, FS_EmptySet DEF ActiveExact
<1>5. PauseProgress
  <2>1. CopyExact /\ Reports /\ Waits /\ Settled
    BY <1>1 DEF CopyExact, Reports, Waits, Settled
  <2> QED
    BY <2>1 DEF PauseProgress
<1> QED
  BY <1>2, <1>3, <1>4, <1>5 DEF WarmInv

\* ... and remains so.
LEMMA WarmInvNext ==
  ASSUME Warm, IInv, WarmInv, [Next]_vars
  PROVE  WarmInv'
<1> USE DEF WarmInv, IInv
<1>0. IInv'
  BY IInvNext
<1>1. CASE UNCHANGED vars
  <2>1. UNCHANGED <<active, activeQueues, pause, copy, todo, pc, finishing, closer, open,
                    mutex, pool>>
    BY <1>1 DEF vars, poolVars, countVars, threadVars, outerVars
  <2>2. ActiveExact' /\ PauseProgress'
    BY <2>1, OuterKept
  <2>3. AllOpen' /\ MutexHeld'
    BY <2>1 DEF AllOpen, MutexHeld
  <2> QED
    BY <2>2, <2>3
<1>2. CASE Next
  <2>1. AllOpen' /\ MutexHeld'
    BY <1>2, AllOpenKept, MutexKept
  <2>2. CASE WarmOuter
    <3>1. /\ UNCHANGED <<active, activeQueues, pause, copy, todo>>
          /\ \A u \in Threads : pc'[u] = pc[u] \/ (pc[u] = "sleep" /\ pc'[u] = "woken")
      BY <2>2, WarmSubmit
         DEF WarmOuter, Choose, TryNext, SubmitFails, poolVars, countVars, threadVars
    <3> QED
      BY <2>1, <3>1, OuterKept
  <2>3. ASSUME NEW t \in Threads, WarmThread(t) PROVE WarmInv'
    <3>1. ActiveExact'
      BY <1>0, <2>3, ActiveKept DEF PauseProgress
    <3>2. PauseProgress'
      BY <2>3, <3>1, PauseProgressKept
    <3> QED
      BY <2>1, <3>1, <3>2
  <2> QED
    BY <1>2, <2>2, <2>3, WarmSteps
<1> QED
  BY <1>1, <1>2

LEMMA WarmInvHolds == Warm => (Spec => [](IInv /\ WarmInv))
<1> SUFFICES ASSUME Warm PROVE Spec => [](IInv /\ WarmInv)
  OBVIOUS
<1>1. Init => WarmInv
  BY WarmInvInit
<1>2. IInv /\ WarmInv /\ [Next]_vars => WarmInv'
  BY WarmInvNext
<1> QED
  BY <1>1, <1>2, IInvHolds, PTL DEF Spec

\* "Return when all other tasks are paused or idle" (ldap_pvt_thread_pool_pause):
\* in such a pool the task that a pause was given to is the only one that runs,
\* even where the count it restores without the queue's mutex may be torn.
THEOREM PauseAlone ==
  NumQueues = 1 /\ Opened = TRUE /\ MayClose = FALSE => (Spec => []AloneWhilePaused)
<1> SUFFICES ASSUME Warm PROVE Spec => []AloneWhilePaused
  BY DEF Warm
<1>1. WarmInv => AloneWhilePaused
  BY DEF WarmInv, PauseProgress, Settled, Busy, AloneWhilePaused
<1> QED
  BY <1>1, WarmInvHolds, PTL

\* The increment that handle_pause makes without the queue's mutex does no harm
\* there: the counts of the queue are those of its threads, torn or not.
THEOREM CountsMatchWarm ==
  NumQueues = 1 /\ Opened = TRUE /\ MayClose = FALSE => (Spec => []CountsAgree)
<1> SUFFICES ASSUME Warm PROVE Spec => []CountsAgree
  BY DEF Warm
<1>1. IInv /\ WarmInv => CountsAgree
  BY DEF IInv, Counted, CountedIn, WarmInv, ActiveExact, CountsAgree, TasksCounted, OpenIn
<1> QED
  BY <1>1, WarmInvHolds, PTL
=============================================================================
