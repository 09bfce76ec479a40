------------------------------- MODULE TPool -------------------------------
(***************************************************************************)
(* The thread pool that runs slapd's and lloadd's tasks                    *)
(* (libraries/libldap/tpool.c): queues of tasks with their worker threads, *)
(* and the pause that lets one task be the only one running.               *)
(*                                                                         *)
(* A step is what the code does while no other thread can interfere: the   *)
(* sections that hold a mutex are split where they read or write what the  *)
(* mutex does not protect.  Tasks are anonymous; each may ask for a pause  *)
(* once.                                                                   *)
(***************************************************************************)
EXTENDS Integers, FiniteSets

CONSTANTS
  NumQueues,      \* ltp_numqs ("threadqueues")
  Threads,        \* the threads that may be open at a time
  QueueOf,        \* the queue each belongs to
  MaxPending,     \* ltp_max_pending of each queue
  MaxSubmits,     \* bound: the tasks submitted
  Opened,         \* whether all of them are open and idle at first
  CreateMayFail,  \* whether ldap_pvt_thread_create may fail
  MayClose,       \* whether the pool may be closed
  Nobody          \* the holder of a free mutex

Queues      == 0 .. NumQueues - 1
Workers(q)  == {t \in Threads : QueueOf[t] = q}
MaxCount(q) == Cardinality(Workers(q))

ASSUME PoolAssumption ==
  /\ NumQueues \in Nat \ {0} /\ MaxPending \in Nat \ {0} /\ MaxSubmits \in Nat
  /\ IsFiniteSet(Threads) /\ QueueOf \in [Threads -> Queues]
  /\ \A q \in Queues : Workers(q) # {}
  /\ {Opened, CreateMayFail, MayClose} \subseteq BOOLEAN
  /\ Nobody \notin Threads /\ "main" \notin Threads /\ Nobody # "main"

VARIABLES
  pause,         \* ltp_pause: NOT_PAUSED, WANT_PAUSE or PAUSED
  finishing,     \* ltp_finishing
  activeQueues,  \* ltp_active_queues
  pool,          \* who holds the pool's mutex
  mutex,         \* who holds each queue's mutex
  hidden,        \* queues whose ltp_work_list is the empty list
  list,          \* length of ltp_pending_list
  pending,       \* ltp_pending_count
  active,        \* ltp_active_count
  open,          \* ltp_open_count
  rejecting,     \* queues whose ltp_max_pending was negated by pool_close
  pc,            \* where each thread is
  asked,         \* its task has asked for a pause, or to wait for one
  todo,          \* queues it has not yet hidden, or shown again
  copy,          \* the count it has read and not yet changed, without a mutex
  sub,           \* the submitter: the queue it looks at and the first it tried
  submitted,     \* tasks submitted
  closer,        \* where pool_close is
  closing        \* the queue it waits for

poolVars   == <<pause, finishing, activeQueues>>
countVars  == <<list, pending, active, open>>
threadVars == <<asked, todo, copy>>
outerVars  == <<sub, submitted, closer, closing, rejecting>>
vars == <<poolVars, pool, mutex, hidden, countVars, pc, threadVars, outerVars>>

Init ==
  /\ pause = "NOT_PAUSED" /\ finishing = FALSE /\ activeQueues = 0
  /\ pool = Nobody /\ mutex = [q \in Queues |-> Nobody]
  /\ hidden = {} /\ list = [q \in Queues |-> 0]
  /\ pending = [q \in Queues |-> 0] /\ active = [q \in Queues |-> 0]
  /\ open = [q \in Queues |-> IF Opened THEN MaxCount(q) ELSE 0] /\ rejecting = {}
  /\ pc = [t \in Threads |-> IF Opened THEN "sleep" ELSE "none"]
  /\ asked = [t \in Threads |-> FALSE]
  /\ todo = [t \in Threads |-> {}] /\ copy = [t \in Threads |-> 0]
  /\ sub = <<>> /\ submitted = 0 /\ closer = "off" /\ closing = 0

Add(f, q, n)   == [f EXCEPT ![q] = @ + n]
Goto(t, label) == pc' = [pc EXCEPT ![t] = label]
Free(q)        == mutex[q] = Nobody
Lock(q, t)     == Free(q) /\ mutex' = [mutex EXCEPT ![q] = t]
Unlock(q)      == mutex' = [mutex EXCEPT ![q] = Nobody]

\* What adding n to a count may leave when its mutex is not held: if others have
\* changed it since it was read, what they or what this thread did may be lost.
Torn(read, now, n) == {read + n} \cup IF now = read THEN {} ELSE {now, now + n}

\* Mutants of HasWork: the list is not looked at; its last task is not seen.
HasWorkAlways(q)  == q \notin hidden
HasMoreWork(q)    == q \notin hidden /\ list[q] > 1

\* Whether a thread of queue q finds a task at the head of its work list.
HasWork(q) == q \notin hidden /\ list[q] > 0

\* Threads that wait for a condition of the queue, or of the pool.
Sleepers(q)  == {t \in Workers(q) : pc[t] = "sleep"}
PoolSleepers == {t \in Threads : pc[t] = "poolsleep"}
Woken(woken, label) == [t \in Threads |-> IF t \in woken THEN label ELSE pc[t]]

-----------------------------------------------------------------------------
(***************************************************************************)
(* ldap_pvt_thread_pool_submit2                                            *)
(***************************************************************************)
Load(q) == active[q] + pending[q]

\* The first queue with nothing active, or else the first with the least load.
Preferred ==
  LET idle  == {q \in Queues : active[q] = 0}
      among == IF idle # {} THEN idle ELSE {q \in Queues : \A r \in Queues : Load(q) <= Load(r)}
      first == CHOOSE q \in among : \A r \in among : q <= r
      limit == IF 0 \in rejecting THEN MaxCount(0) - MaxPending ELSE MaxCount(0) + MaxPending
  IN  IF idle # {} \/ Load(first) < limit THEN first ELSE 0

\* The counts are read without a mutex.
Choose ==
  /\ sub = <<>> /\ submitted < MaxSubmits
  /\ sub' = <<Preferred, Preferred>>
  /\ submitted' = submitted + 1
  /\ UNCHANGED <<poolVars, pool, mutex, hidden, countVars, pc, threadVars,
                 closer, closing, rejecting>>

Room(q) == q \notin rejecting /\ pending[q] < MaxPending

\* A full queue: the next one is tried, until all were.
TryNext ==
  /\ sub # <<>> /\ Free(sub[1]) /\ ~Room(sub[1])
  /\ LET next == (sub[1] + 1) % NumQueues
     IN  sub' = IF next = sub[2] THEN <<>> ELSE <<next, sub[2]>>
  /\ UNCHANGED <<poolVars, pool, mutex, hidden, countVars, pc, threadVars,
                 submitted, closer, closing, rejecting>>

\* Whether a thread is opened for the task.
NeedsThread(q) == open[q] < active[q] + pending[q] + 1 /\ open[q] < MaxCount(q)

\* ldap_pvt_thread_cond_signal wakes one of the threads that wait, if any.
Signal(q, after) ==
  IF {t \in Workers(q) : after[t] = "sleep"} = {} THEN pc' = after
  ELSE \E t \in Workers(q) : after[t] = "sleep" /\ pc' = [after EXCEPT ![t] = "woken"]

\* The task is queued.  Unless the pool pauses, a thread is created when there
\* are not enough, and a waiting one is woken.
Submit ==
  /\ sub # <<>> /\ Free(sub[1]) /\ Room(sub[1])
  /\ LET q == sub[1] IN
       \/ /\ pause # "NOT_PAUSED"
          /\ pc' = pc /\ open' = open
       \/ /\ pause = "NOT_PAUSED" /\ ~NeedsThread(q)
          /\ Signal(q, pc) /\ open' = open
       \/ /\ pause = "NOT_PAUSED" /\ NeedsThread(q)
          /\ \E t \in Workers(q) : pc[t] = "none" /\ Signal(q, [pc EXCEPT ![t] = "start"])
          /\ open' = Add(open, q, 1)
       \/ /\ pause = "NOT_PAUSED" /\ NeedsThread(q) /\ CreateMayFail /\ open[q] > 0
          /\ Signal(q, pc) /\ open' = open
  /\ list' = Add(list, sub[1], 1) /\ pending' = Add(pending, sub[1], 1)
  /\ sub' = <<>>
  /\ UNCHANGED <<poolVars, pool, mutex, hidden, active, threadVars, submitted, closer,
                 closing, rejecting>>

\* The first thread of the queue cannot be created: the task is taken back.
SubmitFails ==
  /\ sub # <<>> /\ Free(sub[1]) /\ Room(sub[1])
  /\ pause = "NOT_PAUSED" /\ NeedsThread(sub[1]) /\ CreateMayFail /\ open[sub[1]] = 0
  /\ sub' = <<>>
  /\ UNCHANGED <<poolVars, pool, mutex, hidden, countVars, pc, threadVars, submitted,
                 closer, closing, rejecting>>

-----------------------------------------------------------------------------
(***************************************************************************)
(* ldap_int_thread_pool_wrapper: the life of a worker thread.              *)
(***************************************************************************)

\* A new thread waits for a pause to end, if it sees one.
Start(t) ==
  /\ pc[t] = "start"
  /\ Goto(t, IF pause = "NOT_PAUSED" THEN "ready" ELSE "startwait")
  /\ UNCHANGED <<poolVars, pool, mutex, hidden, countVars, threadVars, outerVars>>

StartWait(t) ==
  /\ pc[t] = "startwait" /\ pool = Nobody /\ pause = "NOT_PAUSED"
  /\ Goto(t, "ready")
  /\ UNCHANGED <<poolVars, pool, mutex, hidden, countVars, threadVars, outerVars>>

Ready(t) ==
  /\ pc[t] = "ready" /\ Lock(QueueOf[t], t)
  /\ active' = Add(active, QueueOf[t], 1)
  /\ Goto(t, "look")
  /\ UNCHANGED <<poolVars, pool, hidden, list, pending, open, threadVars, outerVars>>

\* Mutant of TakeTask: ltp_pending_count is not decremented.
TakeTaskPending(t) ==
  /\ list' = Add(list, QueueOf[t], -1) /\ pending' = pending
  /\ asked' = [asked EXCEPT ![t] = FALSE]
  /\ Unlock(QueueOf[t])
  /\ Goto(t, "run")

\* A task is removed from the list and run, without the queue's mutex.
TakeTask(t) ==
  /\ list' = Add(list, QueueOf[t], -1) /\ pending' = Add(pending, QueueOf[t], -1)
  /\ asked' = [asked EXCEPT ![t] = FALSE]
  /\ Unlock(QueueOf[t])
  /\ Goto(t, "run")

Look(t) ==
  /\ pc[t] = "look"
  /\ \/ HasWork(QueueOf[t]) /\ TakeTask(t) /\ active' = active
     \/ /\ ~HasWork(QueueOf[t])
        /\ active' = Add(active, QueueOf[t], -1)
        /\ Goto(t, IF active[QueueOf[t]] - 1 < 1 THEN "last" ELSE "check")
        /\ UNCHANGED <<list, pending, mutex, asked>>
  /\ UNCHANGED <<poolVars, pool, hidden, open, todo, copy, outerVars>>

\* The last active thread of a queue tells the task that waits to pause.
Last(t) ==
  /\ pc[t] = "last"
  /\ IF pause # "NOT_PAUSED" THEN Unlock(QueueOf[t]) /\ Goto(t, "tell")
     ELSE mutex' = mutex /\ Goto(t, "check")
  /\ UNCHANGED <<poolVars, pool, hidden, countVars, threadVars, outerVars>>

Tell(t) ==
  /\ pc[t] = "tell" /\ pool = Nobody
  /\ pool' = t
  /\ activeQueues' = activeQueues - 1
  /\ Goto(t, "check")
  /\ UNCHANGED <<pause, finishing, mutex, hidden, countVars, threadVars, outerVars>>

\* pool_lock: the thread holds the pool's mutex instead of the queue's.
Sleep(t) ==
  /\ pc[t] = "check" /\ ~finishing
  /\ IF pool = t
     THEN pool' = Nobody /\ mutex' = mutex /\ Goto(t, "poolsleep")
     ELSE pool' = pool /\ Unlock(QueueOf[t]) /\ Goto(t, "sleep")
  /\ UNCHANGED <<poolVars, hidden, countVars, threadVars, outerVars>>

\* After a wait on the pool's condition the thread goes back to its queue.  If the
\* pool pauses still or again, all lists are hidden (HiddenWhilePaused).
PoolWoken(t) ==
  /\ pc[t] = "poolwoken" /\ pool = Nobody
  /\ IF pause = "NOT_PAUSED" THEN pool' = pool /\ Goto(t, "woken")
     ELSE pool' = t /\ Goto(t, "check")
  /\ UNCHANGED <<poolVars, mutex, hidden, countVars, threadVars, outerVars>>

\* A thread that holds its queue's mutex again looks for a task.
Wake(t) ==
  /\ pc[t] = "woken" /\ Free(QueueOf[t])
  /\ \/ /\ HasWork(QueueOf[t]) /\ TakeTask(t)
        /\ active' = Add(active, QueueOf[t], 1)
     \/ /\ ~HasWork(QueueOf[t])
        /\ mutex' = [mutex EXCEPT ![QueueOf[t]] = t] /\ Goto(t, "check")
        /\ UNCHANGED <<list, pending, active, asked>>
  /\ UNCHANGED <<poolVars, pool, hidden, open, todo, copy, outerVars>>

\* The count of open threads becomes n; pool_close is woken when there are none.
Leaves(t, n) ==
  /\ open' = [open EXCEPT ![QueueOf[t]] = n]
  /\ Goto(t, "none")
  /\ closer' = IF n = 0 /\ closer = "wait" /\ closing = QueueOf[t] THEN "woken" ELSE closer

\* The thread exits.  If it holds the pool's mutex, not the queue's, it changes
\* ltp_open_count all the same.
Exit(t) ==
  /\ pc[t] = "check" /\ finishing
  /\ \/ /\ pool = t
        /\ copy' = [copy EXCEPT ![t] = open[QueueOf[t]]]
        /\ Goto(t, "exit")
        /\ UNCHANGED <<open, mutex, closer>>
     \/ /\ pool # t
        /\ Leaves(t, open[QueueOf[t]] - 1)
        /\ Unlock(QueueOf[t]) /\ copy' = copy
  /\ UNCHANGED <<poolVars, pool, hidden, list, pending, active, asked, todo, sub,
                 submitted, closing, rejecting>>

ExitUnlocked(t) ==
  /\ pc[t] = "exit" /\ pool = t
  /\ \E n \in Torn(copy[t], open[QueueOf[t]], -1) : Leaves(t, n)
  /\ pool' = Nobody /\ copy' = [copy EXCEPT ![t] = 0]
  /\ UNCHANGED <<poolVars, mutex, hidden, list, pending, active, asked, todo, sub,
                 submitted, closing, rejecting>>

EndTask(t) ==
  /\ pc[t] = "run" /\ Lock(QueueOf[t], t)
  /\ Goto(t, "look")
  /\ UNCHANGED <<poolVars, pool, hidden, countVars, threadVars, outerVars>>

-----------------------------------------------------------------------------
(***************************************************************************)
(* handle_pause and ldap_pvt_thread_pool_resume, called by a task.         *)
(***************************************************************************)

\* pool_pause, or pool_pausewait when a pause has been requested.
AskPause(t) ==
  /\ pc[t] = "run" /\ ~asked[t]
  /\ asked' = [asked EXCEPT ![t] = TRUE]
  /\ \/ Goto(t, "pausing")
     \/ pause # "NOT_PAUSED" /\ Goto(t, "waiting")
  /\ UNCHANGED <<poolVars, pool, mutex, hidden, countVars, todo, copy, outerVars>>

\* GO_IDLE: while another task wants a pause or has it, this one counts as pending.
GoIdle(t) ==
  /\ pc[t] \in {"pausing", "waiting"} /\ pool = Nobody /\ Free(QueueOf[t])
  /\ pause # "NOT_PAUSED"
  /\ pending' = Add(pending, QueueOf[t], 1) /\ active' = Add(active, QueueOf[t], -1)
  /\ activeQueues' = IF active[QueueOf[t]] - 1 < 1 THEN activeQueues - 1 ELSE activeQueues
  /\ Goto(t, IF pc[t] = "pausing" THEN "idlepausing" ELSE "idlewaiting")
  /\ UNCHANGED <<pause, finishing, pool, mutex, hidden, list, open, threadVars, outerVars>>

\* GO_UNIDLE: the pause has ended; who asked for one gets the next.
GoUnidle(t) ==
  /\ pc[t] \in {"idlepausing", "idlewaiting"} /\ pool = Nobody /\ Free(QueueOf[t])
  /\ pause = "NOT_PAUSED"
  /\ pending' = Add(pending, QueueOf[t], -1) /\ active' = Add(active, QueueOf[t], 1)
  /\ IF pc[t] = "idlewaiting" THEN pool' = pool /\ Goto(t, "run")
     ELSE pool' = t /\ Goto(t, "want")
  /\ UNCHANGED <<poolVars, mutex, hidden, list, open, threadVars, outerVars>>

\* The pause was over before pausewait had the pool's mutex.
NoWait(t) ==
  /\ pc[t] = "waiting" /\ pool = Nobody /\ pause = "NOT_PAUSED"
  /\ Goto(t, "run")
  /\ UNCHANGED <<poolVars, pool, mutex, hidden, countVars, threadVars, outerVars>>

\* DO_PAUSE: with the pool's mutex, a pause is announced ...
Want(t) ==
  /\ \/ pc[t] = "pausing" /\ pool = Nobody /\ pause = "NOT_PAUSED"
     \/ pc[t] = "want"
  /\ pool' = t /\ pause' = "WANT_PAUSE" /\ activeQueues' = 0
  /\ todo' = [todo EXCEPT ![t] = Queues]
  /\ Goto(t, "hide")
  /\ UNCHANGED <<finishing, mutex, hidden, countVars, asked, copy, outerVars>>

\* ... and each queue's tasks are hidden from its threads, the caller's queue
\* first, which no longer counts the caller.  Queues with active threads are
\* counted: they are waited for.  (Mutants: a queue with active threads is not
\* hidden; a queue with one active thread is not
\* counted; every queue is.)
HideIdle(q) == IF active[q] > 0 THEN hidden ELSE hidden \cup {q}
HideList(q) == hidden \cup {q}

Others(t, q)    == IF q = QueueOf[t] THEN active[q] - 1 ELSE active[q]

ActiveMany(n) == n > 1
ActiveAny(n)  == n >= 0
ActiveSome(n) == n > 0

Hide(t, q) ==
  /\ pc[t] = "hide" /\ q \in todo[t] /\ Free(q)
  /\ todo[t] = Queues <=> q = QueueOf[t]
  /\ hidden' = HideList(q)
  /\ LET count == IF ActiveSome(Others(t, q)) THEN activeQueues + 1 ELSE activeQueues
     IN  /\ active' = [active EXCEPT ![q] = Others(t, q)]
         /\ activeQueues' = count
         /\ todo' = [todo EXCEPT ![t] = @ \ {q}]
         /\ IF todo[t] # {q} THEN pool' = pool /\ pc' = pc
            ELSE IF count > 0 THEN pool' = Nobody /\ Goto(t, "await")
            ELSE pool' = pool /\ Goto(t, "restore")
  /\ UNCHANGED <<pause, finishing, mutex, list, pending, open, asked, copy, outerVars>>

Await(t) ==
  /\ pc[t] = "await" /\ pool = Nobody /\ activeQueues < 1
  /\ pool' = t
  /\ Goto(t, "restore")
  /\ UNCHANGED <<poolVars, mutex, hidden, countVars, threadVars, outerVars>>

\* The caller is counted again, without the mutex of its queue.
Restore(t) ==
  /\ \/ /\ pc[t] = "restore"
        /\ copy' = [copy EXCEPT ![t] = active[QueueOf[t]]]
        /\ Goto(t, "store")
        /\ UNCHANGED <<active, pause, pool>>
     \/ /\ pc[t] = "store"
        /\ \E n \in Torn(copy[t], active[QueueOf[t]], 1) :
             active' = [active EXCEPT ![QueueOf[t]] = n]
        /\ pause' = "PAUSED" /\ pool' = Nobody
        /\ copy' = [copy EXCEPT ![t] = 0]
        /\ Goto(t, "alone")
  /\ UNCHANGED <<finishing, activeQueues, mutex, hidden, list, pending, open, asked, todo,
                 outerVars>>

\* The pause ends: with the pool's mutex only, the lists are shown again and the
\* threads that wait on each queue are woken, ...
Resume(t) ==
  /\ pc[t] = "alone" /\ pool = Nobody
  /\ pool' = t /\ pause' = "NOT_PAUSED"
  /\ todo' = [todo EXCEPT ![t] = Queues]
  /\ Goto(t, "show")
  /\ UNCHANGED <<finishing, activeQueues, mutex, hidden, countVars, asked, copy, outerVars>>

Show(t, q) ==
  /\ pc[t] = "show" /\ q \in todo[t]
  /\ hidden' = hidden \ {q}
  /\ todo' = [todo EXCEPT ![t] = @ \ {q}]
  /\ pc' = Woken(Sleepers(q), "woken")
  /\ closer' = IF closer = "wait" /\ closing = q THEN "woken" ELSE closer
  /\ UNCHANGED <<poolVars, pool, mutex, countVars, asked, copy, sub, submitted, closing,
                 rejecting>>

\* ... and then those that wait on the pool.
Resumed(t) ==
  /\ pc[t] = "show" /\ todo[t] = {}
  /\ pool' = Nobody
  /\ pc' = [Woken(PoolSleepers, "poolwoken") EXCEPT ![t] = "run"]
  /\ UNCHANGED <<poolVars, mutex, hidden, countVars, threadVars, outerVars>>

-----------------------------------------------------------------------------
(***************************************************************************)
(* ldap_pvt_thread_pool_close, which runs what is pending.                 *)
(***************************************************************************)
Close ==
  /\ MayClose /\ closer = "off" /\ pool = Nobody
  /\ finishing' = TRUE
  /\ pc' = Woken(PoolSleepers, "poolwoken")
  /\ closer' = "lock" /\ closing' = 0
  /\ UNCHANGED <<pause, activeQueues, pool, mutex, hidden, countVars, threadVars, sub,
                 submitted, rejecting>>

\* Each queue's threads are woken and waited for.
CloseLook ==
  /\ closer \in {"lock", "woken"} /\ Lock(closing, "main")
  /\ rejecting' = rejecting \cup {closing}
  /\ IF open[closing] = 0 THEN closer' = "next" /\ pc' = pc
     ELSE closer' = "sleep" /\ pc' = Woken(Sleepers(closing), "woken")
  /\ UNCHANGED <<poolVars, pool, hidden, countVars, threadVars, sub, submitted, closing>>

CloseWait ==
  /\ closer = "sleep"
  /\ Unlock(closing) /\ closer' = "wait"
  /\ UNCHANGED <<poolVars, pool, hidden, countVars, pc, threadVars, sub, submitted, closing,
                 rejecting>>

CloseNext ==
  /\ closer = "next"
  /\ Unlock(closing)
  /\ IF closing + 1 \in Queues THEN closer' = "lock" /\ closing' = closing + 1
     ELSE closer' = "closed" /\ closing' = closing
  /\ UNCHANGED <<poolVars, pool, hidden, countVars, pc, threadVars, sub, submitted, rejecting>>

-----------------------------------------------------------------------------
Submitting == Choose \/ TryNext \/ Submit \/ SubmitFails
Closing    == CloseLook \/ CloseWait \/ CloseNext

\* What a thread does by itself once it runs, a task ending among it.
Thread(t) ==
  \/ Start(t) \/ StartWait(t) \/ Ready(t) \/ Look(t) \/ Last(t) \/ Tell(t)
  \/ Sleep(t) \/ PoolWoken(t) \/ Wake(t) \/ Exit(t) \/ ExitUnlocked(t)
  \/ EndTask(t)
  \/ GoIdle(t) \/ GoUnidle(t) \/ NoWait(t)
  \/ Want(t) \/ Await(t) \/ Restore(t) \/ Resume(t) \/ Resumed(t)
  \/ \E q \in Queues : Hide(t, q) \/ Show(t, q)

Next == Submitting \/ Close \/ Closing \/ \E t \in Threads : AskPause(t) \/ Thread(t)

Spec == Init /\ [][Next]_vars

\* Every thread gets its turn, and mutexes are given fairly: a thread that often
\* can take one eventually does.
Fairness == WF_vars(Submitting) /\ WF_vars(Closing) /\ \A t \in Threads : SF_vars(Thread(t))
FairSpec == Spec /\ Fairness

-----------------------------------------------------------------------------
Pc == {"none", "start", "startwait", "ready", "look", "last", "tell", "check", "sleep",
       "poolsleep", "poolwoken", "woken", "exit", "run", "pausing", "waiting", "idlepausing",
       "idlewaiting", "want", "hide", "await", "restore", "store", "alone", "show"}

TypeOK ==
  /\ pause \in {"NOT_PAUSED", "WANT_PAUSE", "PAUSED"}
  /\ finishing \in BOOLEAN /\ activeQueues \in Int
  /\ pool \in Threads \cup {Nobody}
  /\ mutex \in [Queues -> Threads \cup {Nobody, "main"}]
  /\ hidden \in SUBSET Queues /\ rejecting \in SUBSET Queues
  /\ {list, pending} \subseteq [Queues -> Nat] /\ {active, open} \subseteq [Queues -> Int]
  /\ pc \in [Threads -> Pc] /\ asked \in [Threads -> BOOLEAN]
  /\ todo \in [Threads -> SUBSET Queues] /\ copy \in [Threads -> Int]
  /\ sub \in {<<>>} \cup (Queues \X Queues) /\ submitted \in 0 .. MaxSubmits
  /\ closer \in {"off", "lock", "sleep", "wait", "woken", "next", "closed"}
  /\ closing \in Queues

\* "Return when all other tasks are paused or idle" (pool_pause).
AloneWhilePaused ==
  \A t, u \in Threads : pc[t] = "alone" /\ u # t => pc[u] # "run"

\* While a pause lasts no task can be seen by any thread.
HiddenWhilePaused == pause # "NOT_PAUSED" /\ pool = Nobody => hidden = Queues

\* ltp_pending_count is the number of tasks that are pending or idle, a task taken
\* back for want of a thread among neither; ltp_open_count is the number of threads
\* until the pool is closed, when the threads that exit may spoil it.
IdleIn(q) == {t \in Workers(q) : pc[t] \in {"idlepausing", "idlewaiting"}}
TasksCounted ==
  \A q \in Queues :
    /\ pending[q] = list[q] + Cardinality(IdleIn(q))
    /\ ~finishing => open[q] = Cardinality({t \in Workers(q) : pc[t] # "none"})

\* In a pool all of whose threads are open ltp_active_count also is the number of
\* threads between taking a task and going to wait, but for those with a task that
\* is idle or about to be alone: nobody changes it while handle_pause adds to it
\* without the queue's mutex.
ActiveIn(q) == {t \in Workers(q) :
                  \/ pc[t] \in {"look", "run", "pausing", "waiting", "want", "alone", "show"}
                  \/ pc[t] = "hide" /\ todo[t] = Queues}
CountsAgree ==
  TasksCounted /\ \A q \in Queues : active[q] = Cardinality(ActiveIn(q))

\* A task that is pending is eventually taken, unless the pool was closed.
PendingTaken == \A q \in Queues : (list[q] > 0) ~> (list[q] = 0 \/ finishing)

\* A pause that was requested eventually begins.
PauseGranted == \A t \in Threads : (pc[t] = "await") ~> (pc[t] = "alone")
=============================================================================
