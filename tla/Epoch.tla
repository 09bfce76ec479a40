------------------------------- MODULE Epoch -------------------------------
(***************************************************************************)
(* Epoch-based reclamation in lloadd (servers/lloadd/epoch.c) together with *)
(* the reference counts of the objects it protects: connections, which hold *)
(* one reference for being linked (c_live) and one for each task they are   *)
(* passed to, and operations, which hold the first only ("o_refcnt is set   *)
(* to 1, never incremented").                                               *)
(*                                                                          *)
(* A thread joins an epoch, finds objects that are linked, may take counted *)
(* references to them, unlinks some, and leaves.  The object whose last     *)
(* reference is released is put on a list of the current epoch, and is      *)
(* disposed of when nobody can hold a pointer to it any more.  References    *)
(* are also released by threads that observe no epoch, as upstream_bind and *)
(* the shutdown do.                                                         *)
(***************************************************************************)
EXTENDS Integers, FiniteSets

CONSTANTS
  Threads,
  Objects,     \* connections and operations
  Operations,
  Present,     \* the sets of objects there may be at first
  Mask,        \* EPOCH_MASK: epochs are numbered modulo it
  NoEpoch,     \* "observes no epoch"
  NoObject,
  Link         \* the reference an object holds for being linked

\* "Has to be >= 3".
ASSUME MaskAssumption == Mask \in Nat /\ Mask >= 3
ASSUME NamesAssumption ==
  /\ NoEpoch \notin Nat /\ NoObject \notin Objects /\ Link \notin Threads
  /\ Operations \subseteq Objects /\ Present \subseteq SUBSET Objects

Epochs       == 0 .. Mask - 1
EpochPrev(e) == (e + Mask - 1) % Mask
\* Mutant of EpochNext: epochs are not numbered modulo Mask.
NextUnbounded(e) == e + 1

EpochNext(e) == (e + 1) % Mask

Pc == {"out", "joined", "swap", "advance", "in", "leave", "lock", "prev", "cur",
       "take", "takecur", "dispose", "release", "unlink", "append", "push"}

VARIABLES
  current,   \* current_epoch
  observed,  \* the epoch each thread is counted in (epoch_threads counts them)
  refs,      \* references: the objects pending in each epoch
  pc,        \* where each thread is in the calls below
  again,     \* its epoch_leave was called by epoch_join, which will retry
  got,       \* objects it has claimed and not yet disposed of
  obj,       \* the object it releases
  slot,      \* the epoch epoch_leave left, or the one epoch_append has read
  ptr,       \* pointers it has found while observing an epoch
  linked,    \* objects that can be found
  owners,    \* who holds the references counted by an object's refcnt
  freed      \* objects disposed of

epochVars  == <<current, observed, refs>>
objectVars == <<linked, owners>>
vars == <<current, observed, refs, pc, again, got, obj, slot, ptr, linked, owners,
          freed>>

Registered(e) == {t \in Threads : observed[t] = e}

\* Threads that are in one of the sections holding epoch_mutex for reading.
Readers == {t \in Threads : pc[t] \in {"prev", "cur", "take", "takecur"}}

Init ==
  /\ current = 0
  /\ observed = [t \in Threads |-> NoEpoch]
  /\ refs = [e \in Epochs |-> {}]
  /\ pc = [t \in Threads |-> "out"]
  /\ again = [t \in Threads |-> FALSE]
  /\ got = [t \in Threads |-> {}]
  /\ obj = [t \in Threads |-> NoObject] /\ slot = [t \in Threads |-> 0]
  /\ ptr = [t \in Threads |-> {}]
  /\ linked \in Present /\ freed = Objects \ linked
  /\ owners = [o \in Objects |-> IF o \in linked THEN {Link} ELSE {}]

Goto(t, label) == pc' = [pc EXCEPT ![t] = label]

\* What a thread does when a call is over.
Resume(t) == Goto(t, IF observed[t] = NoEpoch THEN "out" ELSE "in")

-----------------------------------------------------------------------------
(***************************************************************************)
(* epoch_join                                                              *)
(***************************************************************************)

\* Under the read lock: current_epoch is read and the thread counted in it.
Join(t) ==
  /\ pc[t] = "out"
  /\ observed' = [observed EXCEPT ![t] = current]
  /\ Goto(t, "joined")
  /\ UNCHANGED <<current, refs, again, got, obj, slot, ptr, objectVars, freed>>

\* While someone still observes the previous epoch there is nothing to do.
\* (Mutant of Before: EpochNext.)
Before(e) == EpochPrev(e)

LookBack(t) ==
  /\ pc[t] = "joined"
  /\ Goto(t, IF Registered(Before(observed[t])) # {} THEN "in" ELSE "swap")
  /\ UNCHANGED <<epochVars, again, got, obj, slot, ptr, objectVars, freed>>

\* Otherwise the objects of the previous epoch are claimed ...
Claim(t) ==
  /\ pc[t] = "swap"
  /\ got' = [got EXCEPT ![t] = refs[EpochPrev(observed[t])]]
  /\ refs' = [refs EXCEPT ![EpochPrev(observed[t])] = {}]
  /\ Goto(t, "advance")
  /\ UNCHANGED <<current, observed, again, obj, slot, ptr, objectVars, freed>>

\* ... and the epoch is advanced under the write lock.  If there are objects to
\* dispose of, the epoch is left first, and joined anew afterwards.
Advance(t) ==
  /\ pc[t] = "advance" /\ Readers = {}
  /\ current' = EpochNext(observed[t])
  /\ Goto(t, IF got[t] = {} THEN "in" ELSE "leave")
  /\ UNCHANGED <<observed, refs, again, got, obj, slot, ptr, objectVars, freed>>

-----------------------------------------------------------------------------
(***************************************************************************)
(* epoch_leave                                                             *)
(***************************************************************************)
AfterLeave(retry) == IF retry THEN "dispose" ELSE "out"

\* The thread is no longer counted, and its pointers are no longer valid.  It
\* goes on only if it was the last to observe its epoch.
Leave(t) ==
  /\ pc[t] \in {"in", "leave"}
  /\ again' = [again EXCEPT ![t] = pc[t] = "leave"]
  /\ observed' = [observed EXCEPT ![t] = NoEpoch]
  /\ ptr' = [ptr EXCEPT ![t] = {}]
  /\ IF Registered(observed[t]) # {t}
     THEN slot' = slot /\ Goto(t, AfterLeave(again'[t]))
     ELSE slot' = [slot EXCEPT ![t] = observed[t]] /\ Goto(t, "lock")
  /\ UNCHANGED <<current, refs, got, obj, objectVars, freed>>

\* The read lock is taken; the epoch may have run away in the meantime.
LockEpochs(t) ==
  /\ pc[t] = "lock"
  /\ Goto(t, IF slot[t] \in {current, EpochPrev(current)}
             THEN "prev" ELSE AfterLeave(again[t]))
  /\ slot' = [slot EXCEPT ![t] = 0]
  /\ UNCHANGED <<epochVars, again, got, obj, ptr, objectVars, freed>>

\* Mutant of SecondLook: only the previous epoch is looked at.
PrevTwice(e) == EpochPrev(e)

\* Another thread still running in the previous epoch, or in the current one,
\* ends the call.
FirstLook(e)  == EpochPrev(e)
SecondLook(e) == e

CheckEpochs(t) ==
  /\ \/ /\ pc[t] = "prev"
        /\ Goto(t, IF Registered(FirstLook(current)) = {} THEN "cur"
                   ELSE AfterLeave(again[t]))
     \/ /\ pc[t] = "cur"
        /\ Goto(t, IF Registered(SecondLook(current)) = {} THEN "take"
                   ELSE AfterLeave(again[t]))
  /\ UNCHANGED <<epochVars, again, got, obj, slot, ptr, objectVars, freed>>

\* Mutant of Collect: what was claimed before is forgotten.
CollectOver(t, e) ==
  /\ got' = [got EXCEPT ![t] = refs[e]]
  /\ refs' = [refs EXCEPT ![e] = {}]

\* The lists of both epochs are claimed, the previous one's first, and the lock
\* is given up.
Collect(t, e) ==
  /\ got' = [got EXCEPT ![t] = @ \cup refs[e]]
  /\ refs' = [refs EXCEPT ![e] = {}]

Take(t) ==
  /\ \/ /\ pc[t] = "take"
        /\ Collect(t, EpochPrev(current)) /\ Goto(t, "takecur")
     \/ /\ pc[t] = "takecur"
        /\ Collect(t, current) /\ Goto(t, "dispose")
  /\ UNCHANGED <<current, observed, again, obj, slot, ptr, objectVars, freed>>

\* The claimed objects are disposed of, outside any epoch.
Dispose(t) ==
  /\ pc[t] = "dispose"
  /\ freed' = freed \cup got[t]
  /\ got' = [got EXCEPT ![t] = {}]
  /\ again' = [again EXCEPT ![t] = FALSE]
  /\ IF again[t]
     THEN observed' = [observed EXCEPT ![t] = current] /\ Goto(t, "joined")
     ELSE observed' = observed /\ Goto(t, "out")
  /\ UNCHANGED <<current, refs, obj, slot, ptr, objectVars>>

-----------------------------------------------------------------------------
(***************************************************************************)
(* What threads do with objects.                                           *)
(***************************************************************************)

\* A linked object is found: an entry of a list of connections, an operation of
\* a connection.
Find(t, o) ==
  /\ pc[t] = "in" /\ o \in linked
  /\ ptr' = [ptr EXCEPT ![t] = @ \cup {o}]
  /\ UNCHANGED <<epochVars, pc, again, got, obj, slot, objectVars, freed>>

\* Mutant of CanAcquire: the count is incremented whatever it was.
AlwaysAcquire(o) == TRUE

\* acquire_ref succeeds only while there is a reference.
CanAcquire(o) == owners[o] # {}

AcquireRef(t, o) ==
  /\ pc[t] = "in" /\ o \in ptr[t] \ Operations /\ CanAcquire(o)
  /\ owners' = [owners EXCEPT ![o] = @ \cup {t}]
  /\ UNCHANGED <<epochVars, pc, again, got, obj, slot, ptr, linked, freed>>

\* RELEASE_REF: whoever takes the count to zero hands the object to epoch_append.
Release(t, o, owner) ==
  /\ owners' = [owners EXCEPT ![o] = @ \ {owner}]
  /\ IF owners[o] = {owner}
     THEN obj' = [obj EXCEPT ![t] = o] /\ Goto(t, "append")
     ELSE obj' = [obj EXCEPT ![t] = NoObject] /\ Resume(t)

ReleaseRef(t, o) ==
  /\ pc[t] \in {"in", "out"}
  /\ t \in owners[o]
  /\ Release(t, o, t)
  /\ UNCHANGED <<epochVars, again, got, slot, ptr, linked, freed>>

\* CONNECTION_UNLINK_: whoever is first takes the connection out of the lists it
\* can be found in, then releases the reference it held for that.
Unlink(t, o) ==
  /\ pc[t] \in {"in", "out"} /\ (o \in ptr[t] \/ t \in owners[o])
  /\ o \in linked \ Operations
  /\ linked' = linked \ {o}
  /\ obj' = [obj EXCEPT ![t] = o]
  /\ Goto(t, "release")
  /\ UNCHANGED <<epochVars, again, got, slot, ptr, owners, freed>>

ReleaseLink(t) ==
  /\ pc[t] = "release"
  /\ Release(t, obj[t], Link)
  /\ UNCHANGED <<epochVars, again, got, slot, ptr, linked, freed>>

\* OPERATION_UNLINK, by try_release_ref: whoever takes the operation's only
\* reference takes it out of the lists it can be found in afterwards, ...
Retire(t, o) ==
  /\ pc[t] = "in" /\ o \in ptr[t] \cap Operations /\ CanAcquire(o)
  /\ owners' = [owners EXCEPT ![o] = {}]
  /\ obj' = [obj EXCEPT ![t] = o]
  /\ Goto(t, "unlink")
  /\ UNCHANGED <<epochVars, again, got, slot, ptr, linked, freed>>

\* ... and appends it then.
Detach(t) ==
  /\ pc[t] = "unlink"
  /\ linked' = linked \ {obj[t]}
  /\ Goto(t, "append")
  /\ UNCHANGED <<epochVars, again, got, obj, slot, ptr, owners, freed>>

\* epoch_append reads current_epoch, not the epoch the thread entered ...
ReadCurrent(t) ==
  /\ pc[t] = "append"
  /\ slot' = [slot EXCEPT ![t] = current]
  /\ Goto(t, "push")
  /\ UNCHANGED <<epochVars, again, got, obj, ptr, objectVars, freed>>

\* ... and later pushes the object on that epoch's list.
Push(t) ==
  /\ pc[t] = "push"
  /\ refs' = [refs EXCEPT ![slot[t]] = @ \cup {obj[t]}]
  /\ obj' = [obj EXCEPT ![t] = NoObject] /\ slot' = [slot EXCEPT ![t] = 0]
  /\ Resume(t)
  /\ UNCHANGED <<current, observed, again, got, ptr, objectVars, freed>>

-----------------------------------------------------------------------------
\* A thread inside one of the calls, other than waiting for the write lock.
Call(t) ==
  \/ LookBack(t) \/ Claim(t) \/ (pc[t] = "leave" /\ Leave(t))
  \/ LockEpochs(t) \/ CheckEpochs(t) \/ Take(t) \/ Dispose(t)
  \/ ReleaseLink(t) \/ Detach(t) \/ ReadCurrent(t) \/ Push(t)

Next ==
  \E t \in Threads :
    \/ Join(t) \/ Leave(t) \/ Advance(t) \/ Call(t)
    \/ \E o \in Objects :
         Find(t, o) \/ AcquireRef(t, o) \/ ReleaseRef(t, o) \/ Unlink(t, o) \/ Retire(t, o)

\* Calls go on; threads need not end their work, nor get the write lock.
Fairness == \A t \in Threads : WF_vars(Call(t))

Spec == Init /\ [][Next]_vars /\ Fairness

-----------------------------------------------------------------------------
TypeOK ==
  /\ current \in Epochs
  /\ observed \in [Threads -> Epochs \cup {NoEpoch}]
  /\ refs \in [Epochs -> SUBSET Objects]
  /\ pc \in [Threads -> Pc]
  /\ again \in [Threads -> BOOLEAN]
  /\ got \in [Threads -> SUBSET Objects]
  /\ obj \in [Threads -> Objects \cup {NoObject}]
  /\ slot \in [Threads -> Epochs]
  /\ ptr \in [Threads -> SUBSET Objects]
  /\ linked \in SUBSET Objects
  /\ owners \in [Objects -> SUBSET (Threads \cup {Link})]
  /\ freed \in SUBSET Objects

\* "After calling this, it is guaranteed that no reachable objects will be freed"
\* (epoch.h): no object is disposed of while a thread has a pointer to it that
\* it found in the epoch it still observes, or holds a reference to it.
NoUseAfterFree ==
  \A o \in freed : owners[o] = {} /\ \A t \in Threads : o \notin ptr[t]

\* An object is given up once: it is in one list, or claimed by one thread, or
\* disposed of, and in none of these while it is linked or referenced.
Places(o) ==
  {<<"list", e>> : e \in {x \in Epochs : o \in refs[x]}}
    \cup {<<"claimed", t>> : t \in {x \in Threads : o \in got[x]}}
    \cup {<<"appended", t>> :
            t \in {x \in Threads : pc[x] \in {"append", "push"} /\ obj[x] = o}}
    \cup {<<"freed", x>> : x \in freed \cap {o}}

DisposedOnce ==
  \A o \in Objects :
    /\ \A p, q \in Places(o) : p = q
    /\ Places(o) # {} => o \notin linked /\ owners[o] = {}

\* "We might be a thread lagging behind in the previous epoch" (epoch_append): a
\* thread that observes an epoch appends to the current list, or to the previous
\* one while it is itself what keeps that list from being claimed, however long
\* ago it has read current_epoch.
AppendsRecent ==
  \A t \in Threads :
    pc[t] = "push" /\ observed[t] # NoEpoch =>
      \/ slot[t] = current
      \/ (slot[t] = EpochPrev(current) /\ observed[t] = slot[t])

\* Whatever has lost its last reference is disposed of, as long as the epoch keeps
\* advancing: no list is passed over, no claimed object forgotten, wherever the
\* reference was released (epoch_join, epoch_append).
EventuallyFreed ==
  (\A e \in Epochs : []<>(current = e)) =>
    \A o \in Objects : owners[o] = {} ~> o \in freed
=============================================================================
