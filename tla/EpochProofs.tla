---------------------------- MODULE EpochProofs ----------------------------
(***************************************************************************)
(* Proofs about Epoch, for any threads, any objects and any EPOCH_MASK.    *)
(***************************************************************************)
EXTENDS Epoch, TLAPS

\* A thread observes an epoch exactly while it is in these places.
Observing    == {"joined", "swap", "advance", "in", "leave"}
NotObserving == {"out", "lock", "prev", "cur", "take", "takecur", "dispose"}
Using        == {"in", "release", "unlink", "append", "push"}

ObservedWhere ==
  \A t \in Threads :
    /\ pc[t] \in Observing => observed[t] # NoEpoch
    /\ pc[t] \in NotObserving => observed[t] = NoEpoch

\* Only the current and the previous epoch are observed.
ObservedRecent ==
  \A t \in Threads : observed[t] \in {NoEpoch, current, EpochPrev(current)}

\* Nobody observes the epoch before that of a thread about to advance.
PreviousLeft ==
  \A t \in Threads :
    pc[t] \in {"swap", "advance"} => Registered(EpochPrev(observed[t])) = {}

\* What epoch_leave has found stays true while it holds the lock: nobody observes
\* the previous epoch, and who observes the current one is still in epoch_join.
ReadersAlone ==
  \A t \in Threads :
    /\ pc[t] \in {"cur", "take", "takecur"} => Registered(EpochPrev(current)) = {}
    /\ pc[t] \in {"take", "takecur"} =>
         \A u \in Registered(current) : pc[u] \in {"joined", "swap", "advance"}

\* Pointers are held by threads at work inside an epoch.
PointersInside ==
  \A t \in Threads : ptr[t] # {} => pc[t] \in Using /\ observed[t] # NoEpoch

\* Who is giving an object up: it has taken the last reference, and unlinks the
\* object only then if that is an operation.
Handed(t, o) == obj[t] = o /\ pc[t] \in {"unlink", "append", "push"}
GivenUp(o) ==
  \/ \E e \in Epochs : o \in refs[e]
  \/ \E t \in Threads : o \in got[t] \/ Handed(t, o)
  \/ o \in freed

\* A linked object has the reference for that, until a thread about to unlink it
\* has taken it; an object that is given up has no references.
Unreachable ==
  /\ \A t \in Threads : pc[t] = "release" => obj[t] \in Objects \ linked
  /\ \A t \in Threads : pc[t] \in {"unlink", "append", "push"} => obj[t] \in Objects
  /\ \A o \in linked :
       Link \in owners[o] \/ \E t \in Threads : pc[t] = "unlink" /\ obj[t] = o
  /\ \A o \in Objects : GivenUp(o) => owners[o] = {}

\* Who still has a pointer to an object in list e.
Safe(o, e) ==
  \A t \in Threads : o \in ptr[t] =>
    e = current \/ (e = EpochPrev(current) /\ observed[t] = e)
HoldersKnown ==
  /\ \A e \in Epochs : \A o \in refs[e] : Safe(o, e)
  /\ \A t \in Threads : pc[t] = "push" => Safe(obj[t], slot[t])

\* Nobody has a pointer to an object that was claimed or disposed of.
NoHolders ==
  \A o \in Objects : (o \in freed \/ \E t \in Threads : o \in got[t]) =>
    \A u \in Threads : o \notin ptr[u]

\* An object is in one place only on its way to being disposed of.
InOnePlace ==
  \A o \in Objects :
    /\ \A e, f \in Epochs : o \in refs[e] /\ o \in refs[f] => e = f
    /\ \A t, u \in Threads : o \in got[t] /\ o \in got[u] => t = u
    /\ \A t, u \in Threads : Handed(t, o) /\ Handed(u, o) => t = u
    /\ \A e \in Epochs : o \in refs[e] =>
         o \notin freed /\ \A t \in Threads : o \notin got[t] /\ ~Handed(t, o)
    /\ \A t \in Threads : o \in got[t] =>
         o \notin freed /\ \A u \in Threads : ~Handed(u, o)
    /\ \A t \in Threads : Handed(t, o) => o \notin freed

-----------------------------------------------------------------------------
\* One step of one thread.
Step(t) ==
  \/ Join(t) \/ Leave(t) \/ Advance(t) \/ Call(t)
  \/ \E o \in Objects : Find(t, o) \/ AcquireRef(t, o) \/ ReleaseRef(t, o)
                          \/ Unlink(t, o) \/ Retire(t, o)

\* Epochs go round, and with at least three of them the previous epoch, the
\* current one and the next one differ.
LEMMA EpochArith ==
  \A e \in Epochs :
    /\ EpochPrev(e) \in Epochs /\ EpochNext(e) \in Epochs
    /\ EpochNext(EpochPrev(e)) = e /\ EpochPrev(EpochNext(e)) = e
    /\ EpochPrev(e) # e /\ EpochNext(e) # e /\ EpochPrev(EpochPrev(e)) # e
  BY MaskAssumption, SMTT(30) DEF EpochPrev, EpochNext, Epochs

\* The name for "no epoch" is not an epoch; 0 is.
LEMMA NoEpochOutside == NoEpoch \notin Epochs /\ 0 \in Epochs
  BY MaskAssumption, NamesAssumption DEF Epochs

\* A step keeps the types.
LEMMA TypeStep ==
  ASSUME TypeOK, ObservedWhere, Unreachable, NEW t \in Threads, Step(t)
  PROVE  TypeOK'
<1>1. CASE Join(t)
  BY <1>1, EpochArith, NoEpochOutside DEF Join, Goto, TypeOK, Pc, epochVars, objectVars
<1>2. CASE LookBack(t)
  BY <1>2, EpochArith, NoEpochOutside DEF LookBack, Before, Goto, TypeOK, Pc, epochVars, objectVars
<1>3. CASE Claim(t)
  BY <1>3, EpochArith, NoEpochOutside DEF Claim, Goto, TypeOK, Pc, epochVars,
     objectVars, ObservedWhere, Observing
<1>4. CASE Advance(t)
  BY <1>4, EpochArith, NoEpochOutside DEF Advance, Goto, TypeOK, Pc, epochVars,
     objectVars, ObservedWhere, Observing
<1>5. CASE Leave(t)
  BY <1>5, EpochArith, NoEpochOutside DEF Leave, Goto, AfterLeave, TypeOK, Pc, epochVars,
     objectVars, ObservedWhere, Observing
<1>6. CASE LockEpochs(t)
  BY <1>6, EpochArith, NoEpochOutside DEF LockEpochs, Goto, AfterLeave, TypeOK, Pc,
     epochVars, objectVars
<1>7. CASE CheckEpochs(t)
  BY <1>7, EpochArith, NoEpochOutside DEF CheckEpochs, Goto, AfterLeave, FirstLook,
     SecondLook, TypeOK, Pc, epochVars, objectVars
<1>8. CASE Take(t)
  BY <1>8, EpochArith, NoEpochOutside DEF Take, Goto, Collect, TypeOK, Pc,
     epochVars, objectVars
<1>9. CASE Dispose(t)
  BY <1>9, EpochArith, NoEpochOutside DEF Dispose, Goto, TypeOK, Pc, epochVars, objectVars
<1>10. ASSUME NEW o \in Objects, Find(t, o) PROVE TypeOK'
  BY <1>10, EpochArith, NoEpochOutside DEF Find, Goto, TypeOK, Pc, epochVars, objectVars
<1>11. ASSUME NEW o \in Objects, AcquireRef(t, o) PROVE TypeOK'
  BY <1>11, EpochArith, NoEpochOutside DEF AcquireRef, Goto, CanAcquire, TypeOK, Pc,
     epochVars, objectVars
<1>12. ASSUME NEW o \in Objects, ReleaseRef(t, o) PROVE TypeOK'
  BY <1>12, EpochArith, NoEpochOutside DEF ReleaseRef, Goto, Release, Resume, TypeOK, Pc,
     epochVars, objectVars
<1>13. ASSUME NEW o \in Objects, Unlink(t, o) PROVE TypeOK'
  BY <1>13, EpochArith, NoEpochOutside DEF Unlink, Goto, TypeOK, Pc, epochVars, objectVars
<1>14. CASE ReleaseLink(t)
  BY <1>14, EpochArith, NoEpochOutside DEF ReleaseLink, Goto, Release, Resume, TypeOK, Pc,
     epochVars, objectVars, Unreachable
<1>15. CASE ReadCurrent(t)
  BY <1>15, EpochArith, NoEpochOutside DEF ReadCurrent, Goto, TypeOK, Pc,
     epochVars, objectVars
<1>16. CASE Push(t)
  BY <1>16, EpochArith, NoEpochOutside DEF Push, Goto, Resume, TypeOK, Pc, epochVars,
     objectVars, Unreachable
<1>17. ASSUME NEW o \in Objects, Retire(t, o) PROVE TypeOK'
  BY <1>17, EpochArith, NoEpochOutside DEF Retire, Goto, CanAcquire, TypeOK, Pc,
     epochVars, objectVars, Unreachable
<1>18. CASE Detach(t)
  BY <1>18, EpochArith, NoEpochOutside DEF Detach, Goto, TypeOK, Pc, epochVars,
     objectVars, Unreachable
<1> QED
  BY <1>1, <1>2, <1>3, <1>4, <1>5, <1>6, <1>7, <1>8, <1>9, <1>10, <1>11, <1>12, <1>13,
     <1>14, <1>15, <1>16, <1>17, <1>18 DEF Step, Call

\* A step keeps who observes an epoch apart from who does not.
LEMMA ObservedWhereStep ==
  ASSUME TypeOK, TypeOK', ObservedWhere, NEW t \in Threads, Step(t)
  PROVE  ObservedWhere'
<1>1. CASE Join(t)
  BY <1>1, NoEpochOutside DEF Join, Goto, TypeOK, ObservedWhere, Observing, NotObserving,
     Pc, epochVars, objectVars
<1>2. CASE LookBack(t)
  BY <1>2, NoEpochOutside DEF LookBack, Before, Goto, TypeOK, ObservedWhere, Observing,
     NotObserving, Pc, epochVars, objectVars
<1>3. CASE Claim(t)
  BY <1>3, NoEpochOutside DEF Claim, Goto, TypeOK, ObservedWhere, Observing,
     NotObserving, Pc, epochVars, objectVars
<1>4. CASE Advance(t)
  BY <1>4, NoEpochOutside DEF Advance, Goto, TypeOK, ObservedWhere, Observing,
     NotObserving, Pc, epochVars, objectVars
<1>5. CASE Leave(t)
  BY <1>5, NoEpochOutside DEF Leave, Goto, AfterLeave, TypeOK, ObservedWhere, Observing,
     NotObserving, Pc, epochVars, objectVars
<1>6. CASE LockEpochs(t)
  BY <1>6, NoEpochOutside DEF LockEpochs, Goto, AfterLeave, TypeOK, ObservedWhere,
     Observing, NotObserving, Pc, epochVars, objectVars
<1>7. CASE CheckEpochs(t)
  BY <1>7, NoEpochOutside DEF CheckEpochs, Goto, AfterLeave, FirstLook, SecondLook,
     TypeOK, ObservedWhere, Observing, NotObserving, Pc, epochVars, objectVars
<1>8. CASE Take(t)
  BY <1>8, NoEpochOutside DEF Take, Goto, Collect, TypeOK, ObservedWhere,
     Observing, NotObserving, Pc, epochVars, objectVars
<1>9. CASE Dispose(t)
  BY <1>9, NoEpochOutside DEF Dispose, Goto, TypeOK, ObservedWhere, Observing,
     NotObserving, Pc, epochVars, objectVars
<1>10. ASSUME NEW o \in Objects, Find(t, o) PROVE ObservedWhere'
  BY <1>10, NoEpochOutside DEF Find, Goto, TypeOK, ObservedWhere, Observing, NotObserving,
     Pc, epochVars, objectVars
<1>11. ASSUME NEW o \in Objects, AcquireRef(t, o) PROVE ObservedWhere'
  BY <1>11, NoEpochOutside DEF AcquireRef, Goto, CanAcquire, TypeOK, ObservedWhere,
     Observing, NotObserving, Pc, epochVars, objectVars
<1>12. ASSUME NEW o \in Objects, ReleaseRef(t, o) PROVE ObservedWhere'
  BY <1>12, NoEpochOutside DEF ReleaseRef, Goto, Release, Resume, TypeOK, ObservedWhere,
     Observing, NotObserving, Pc, epochVars, objectVars
<1>13. ASSUME NEW o \in Objects, Unlink(t, o) PROVE ObservedWhere'
  BY <1>13, NoEpochOutside DEF Unlink, Goto, TypeOK, ObservedWhere, Observing,
     NotObserving, Pc, epochVars, objectVars
<1>14. CASE ReleaseLink(t)
  BY <1>14, NoEpochOutside DEF ReleaseLink, Goto, Release, Resume, TypeOK, ObservedWhere,
     Observing, NotObserving, Pc, epochVars, objectVars
<1>15. CASE ReadCurrent(t)
  BY <1>15, NoEpochOutside DEF ReadCurrent, Goto, TypeOK, ObservedWhere,
     Observing, NotObserving, Pc, epochVars, objectVars
<1>16. CASE Push(t)
  BY <1>16, NoEpochOutside DEF Push, Goto, Resume, TypeOK, ObservedWhere, Observing,
     NotObserving, Pc, epochVars, objectVars
<1>17. ASSUME NEW o \in Objects, Retire(t, o) PROVE ObservedWhere'
  BY <1>17, NoEpochOutside DEF Retire, Goto, CanAcquire, TypeOK, ObservedWhere,
     Observing, NotObserving, Pc, epochVars, objectVars
<1>18. CASE Detach(t)
  BY <1>18, NoEpochOutside DEF Detach, Goto, TypeOK, ObservedWhere, Observing,
     NotObserving, Pc, epochVars, objectVars
<1> QED
  BY <1>1, <1>2, <1>3, <1>4, <1>5, <1>6, <1>7, <1>8, <1>9, <1>10, <1>11, <1>12, <1>13,
     <1>14, <1>15, <1>16, <1>17, <1>18 DEF Step, Call

\* The epoch advances only when nobody is left in the one before, so no thread is
\* more than one epoch behind.
LEMMA ObservedRecentStep ==
  ASSUME TypeOK, TypeOK', ObservedRecent, ObservedWhere, PreviousLeft, NEW t \in Threads, Step(t)
  PROVE  ObservedRecent'
<1>1. CASE Join(t)
  BY <1>1, NoEpochOutside, EpochArith DEF Join, Goto, TypeOK, ObservedRecent, epochVars,
     objectVars
<1>2. CASE LookBack(t)
  BY <1>2, NoEpochOutside, EpochArith DEF LookBack, Before, Goto, TypeOK, ObservedRecent,
     epochVars, objectVars
<1>3. CASE Claim(t)
  BY <1>3, NoEpochOutside, EpochArith DEF Claim, Goto, TypeOK, ObservedRecent,
     epochVars, objectVars
<1>4. CASE Advance(t)
  BY <1>4, NoEpochOutside, EpochArith DEF Advance, Goto, TypeOK, ObservedRecent,
     epochVars, objectVars, PreviousLeft, Registered, ObservedWhere, Observing
<1>5. CASE Leave(t)
  BY <1>5, NoEpochOutside, EpochArith DEF Leave, Goto, AfterLeave, TypeOK, ObservedRecent,
     epochVars, objectVars
<1>6. CASE LockEpochs(t)
  BY <1>6, NoEpochOutside, EpochArith DEF LockEpochs, Goto, AfterLeave, TypeOK,
     ObservedRecent, epochVars, objectVars
<1>7. CASE CheckEpochs(t)
  BY <1>7, NoEpochOutside, EpochArith DEF CheckEpochs, Goto, AfterLeave, FirstLook,
     SecondLook, TypeOK, ObservedRecent, epochVars, objectVars
<1>8. CASE Take(t)
  BY <1>8, NoEpochOutside, EpochArith DEF Take, Goto, Collect, TypeOK,
     ObservedRecent, epochVars, objectVars
<1>9. CASE Dispose(t)
  BY <1>9, NoEpochOutside, EpochArith DEF Dispose, Goto, TypeOK, ObservedRecent,
     epochVars, objectVars
<1>10. ASSUME NEW o \in Objects, Find(t, o) PROVE ObservedRecent'
  BY <1>10, NoEpochOutside, EpochArith DEF Find, Goto, TypeOK, ObservedRecent, epochVars,
     objectVars
<1>11. ASSUME NEW o \in Objects, AcquireRef(t, o) PROVE ObservedRecent'
  BY <1>11, NoEpochOutside, EpochArith DEF AcquireRef, Goto, CanAcquire, TypeOK,
     ObservedRecent, epochVars, objectVars
<1>12. ASSUME NEW o \in Objects, ReleaseRef(t, o) PROVE ObservedRecent'
  BY <1>12, NoEpochOutside, EpochArith DEF ReleaseRef, Goto, Release, Resume, TypeOK,
     ObservedRecent, epochVars, objectVars
<1>13. ASSUME NEW o \in Objects, Unlink(t, o) PROVE ObservedRecent'
  BY <1>13, NoEpochOutside, EpochArith DEF Unlink, Goto, TypeOK, ObservedRecent,
     epochVars, objectVars
<1>14. CASE ReleaseLink(t)
  BY <1>14, NoEpochOutside, EpochArith DEF ReleaseLink, Goto, Release, Resume, TypeOK,
     ObservedRecent, epochVars, objectVars
<1>15. CASE ReadCurrent(t)
  BY <1>15, NoEpochOutside, EpochArith DEF ReadCurrent, Goto, TypeOK,
     ObservedRecent, epochVars, objectVars
<1>16. CASE Push(t)
  BY <1>16, NoEpochOutside, EpochArith DEF Push, Goto, Resume, TypeOK, ObservedRecent,
     epochVars, objectVars
<1>17. ASSUME NEW o \in Objects, Retire(t, o) PROVE ObservedRecent'
  BY <1>17, NoEpochOutside, EpochArith DEF Retire, Goto, CanAcquire, TypeOK,
     ObservedRecent, epochVars, objectVars
<1>18. CASE Detach(t)
  BY <1>18, NoEpochOutside, EpochArith DEF Detach, Goto, TypeOK, ObservedRecent,
     epochVars, objectVars
<1> QED
  BY <1>1, <1>2, <1>3, <1>4, <1>5, <1>6, <1>7, <1>8, <1>9, <1>10, <1>11, <1>12, <1>13,
     <1>14, <1>15, <1>16, <1>17, <1>18 DEF Step, Call

\* Threads join the current epoch, never the one a thread has seen empty.
LEMMA PreviousLeftStep ==
  ASSUME TypeOK, TypeOK', ObservedRecent, ObservedWhere, PreviousLeft, NEW t \in Threads, Step(t)
  PROVE  PreviousLeft'
<1>1. CASE Join(t)
  BY <1>1, NoEpochOutside, EpochArith DEF Join, Goto, TypeOK, PreviousLeft, Registered,
     ObservedRecent, ObservedWhere, Observing, epochVars, objectVars
<1>2. CASE LookBack(t)
  BY <1>2, NoEpochOutside, EpochArith DEF LookBack, Before, Goto, TypeOK, PreviousLeft,
     Registered, ObservedRecent, ObservedWhere, Observing, epochVars, objectVars
<1>3. CASE Claim(t)
  BY <1>3, NoEpochOutside, EpochArith DEF Claim, Goto, TypeOK, PreviousLeft,
     Registered, ObservedRecent, ObservedWhere, Observing, epochVars, objectVars
<1>4. CASE Advance(t)
  BY <1>4, NoEpochOutside, EpochArith DEF Advance, Goto, TypeOK, PreviousLeft, Registered,
     ObservedRecent, ObservedWhere, Observing, epochVars, objectVars
<1>5. CASE Leave(t)
  BY <1>5, NoEpochOutside, EpochArith DEF Leave, Goto, AfterLeave, TypeOK, PreviousLeft,
     Registered, ObservedRecent, ObservedWhere, Observing, epochVars, objectVars
<1>6. CASE LockEpochs(t)
  BY <1>6, NoEpochOutside, EpochArith DEF LockEpochs, Goto, AfterLeave, TypeOK,
     PreviousLeft, Registered, ObservedRecent, ObservedWhere, Observing, epochVars,
     objectVars
<1>7. CASE CheckEpochs(t)
  BY <1>7, NoEpochOutside, EpochArith DEF CheckEpochs, Goto, AfterLeave, FirstLook,
     SecondLook, TypeOK, PreviousLeft, Registered, ObservedRecent, ObservedWhere,
     Observing, epochVars, objectVars
<1>8. CASE Take(t)
  BY <1>8, NoEpochOutside, EpochArith DEF Take, Goto, Collect, TypeOK,
     PreviousLeft, Registered, ObservedRecent, ObservedWhere, Observing, epochVars,
     objectVars
<1>9. CASE Dispose(t)
  BY <1>9, NoEpochOutside, EpochArith DEF Dispose, Goto, TypeOK, PreviousLeft, Registered,
     ObservedRecent, ObservedWhere, Observing, epochVars, objectVars
<1>10. ASSUME NEW o \in Objects, Find(t, o) PROVE PreviousLeft'
  BY <1>10, NoEpochOutside, EpochArith DEF Find, Goto, TypeOK, PreviousLeft, Registered,
     ObservedRecent, ObservedWhere, Observing, epochVars, objectVars
<1>11. ASSUME NEW o \in Objects, AcquireRef(t, o) PROVE PreviousLeft'
  BY <1>11, NoEpochOutside, EpochArith DEF AcquireRef, Goto, CanAcquire, TypeOK,
     PreviousLeft, Registered, ObservedRecent, ObservedWhere, Observing, epochVars,
     objectVars
<1>12. ASSUME NEW o \in Objects, ReleaseRef(t, o) PROVE PreviousLeft'
  BY <1>12, NoEpochOutside, EpochArith DEF ReleaseRef, Goto, Release, Resume, TypeOK,
     PreviousLeft, Registered, ObservedRecent, ObservedWhere, Observing, epochVars,
     objectVars
<1>13. ASSUME NEW o \in Objects, Unlink(t, o) PROVE PreviousLeft'
  BY <1>13, NoEpochOutside, EpochArith DEF Unlink, Goto, TypeOK, PreviousLeft, Registered,
     ObservedRecent, ObservedWhere, Observing, epochVars, objectVars
<1>14. CASE ReleaseLink(t)
  BY <1>14, NoEpochOutside, EpochArith DEF ReleaseLink, Goto, Release, Resume, TypeOK,
     PreviousLeft, Registered, ObservedRecent, ObservedWhere, Observing, epochVars,
     objectVars
<1>15. CASE ReadCurrent(t)
  BY <1>15, NoEpochOutside, EpochArith DEF ReadCurrent, Goto, TypeOK,
     PreviousLeft, Registered, ObservedRecent, ObservedWhere, Observing, epochVars,
     objectVars
<1>16. CASE Push(t)
  BY <1>16, NoEpochOutside, EpochArith DEF Push, Goto, Resume, TypeOK, PreviousLeft,
     Registered, ObservedRecent, ObservedWhere, Observing, epochVars, objectVars
<1>17. ASSUME NEW o \in Objects, Retire(t, o) PROVE PreviousLeft'
  BY <1>17, NoEpochOutside, EpochArith DEF Retire, Goto, CanAcquire, TypeOK,
     PreviousLeft, Registered, ObservedRecent, ObservedWhere, Observing, epochVars,
     objectVars
<1>18. CASE Detach(t)
  BY <1>18, NoEpochOutside, EpochArith DEF Detach, Goto, TypeOK, PreviousLeft,
     Registered, ObservedRecent, ObservedWhere, Observing, epochVars, objectVars
<1> QED
  BY <1>1, <1>2, <1>3, <1>4, <1>5, <1>6, <1>7, <1>8, <1>9, <1>10, <1>11, <1>12, <1>13,
     <1>14, <1>15, <1>16, <1>17, <1>18 DEF Step, Call

\* While a thread has the read lock of epoch_leave the epoch does not advance, and
\* who joins gets no further than the lock.
LEMMA ReadersAloneStep ==
  ASSUME TypeOK, TypeOK', ObservedRecent, ObservedWhere, ReadersAlone, NEW t \in Threads, Step(t)
  PROVE  ReadersAlone'
<1>1. CASE Join(t)
  BY <1>1, NoEpochOutside, EpochArith DEF Join, Goto, TypeOK, ReadersAlone, Registered,
     ObservedRecent, ObservedWhere, Observing, epochVars, objectVars
<1>2. CASE LookBack(t)
  BY <1>2, NoEpochOutside, EpochArith DEF LookBack, Before, Goto, TypeOK, ReadersAlone,
     Registered, ObservedRecent, ObservedWhere, Observing, epochVars, objectVars
<1>3. CASE Claim(t)
  BY <1>3, NoEpochOutside, EpochArith DEF Claim, Goto, TypeOK, ReadersAlone,
     Registered, ObservedRecent, ObservedWhere, Observing, epochVars, objectVars
<1>4. CASE Advance(t)
  BY <1>4, NoEpochOutside, EpochArith DEF Advance, Goto, TypeOK, ReadersAlone, Registered,
     ObservedRecent, ObservedWhere, Observing, epochVars, objectVars, Readers
<1>5. CASE Leave(t)
  BY <1>5, NoEpochOutside, EpochArith DEF Leave, Goto, AfterLeave, TypeOK, ReadersAlone,
     Registered, ObservedRecent, ObservedWhere, Observing, epochVars, objectVars
<1>6. CASE LockEpochs(t)
  BY <1>6, NoEpochOutside, EpochArith DEF LockEpochs, Goto, AfterLeave, TypeOK,
     ReadersAlone, Registered, ObservedRecent, ObservedWhere, Observing, epochVars,
     objectVars
<1>7. CASE CheckEpochs(t)
  BY <1>7, NoEpochOutside, EpochArith DEF CheckEpochs, Goto, AfterLeave, FirstLook,
     SecondLook, TypeOK, ReadersAlone, Registered, ObservedRecent, ObservedWhere,
     Observing, epochVars, objectVars
<1>8. CASE Take(t)
  BY <1>8, NoEpochOutside, EpochArith DEF Take, Goto, Collect, TypeOK,
     ReadersAlone, Registered, ObservedRecent, ObservedWhere, Observing, epochVars,
     objectVars
<1>9. CASE Dispose(t)
  BY <1>9, NoEpochOutside, EpochArith DEF Dispose, Goto, TypeOK, ReadersAlone, Registered,
     ObservedRecent, ObservedWhere, Observing, epochVars, objectVars
<1>10. ASSUME NEW o \in Objects, Find(t, o) PROVE ReadersAlone'
  BY <1>10, NoEpochOutside, EpochArith DEF Find, Goto, TypeOK, ReadersAlone, Registered,
     ObservedRecent, ObservedWhere, Observing, epochVars, objectVars
<1>11. ASSUME NEW o \in Objects, AcquireRef(t, o) PROVE ReadersAlone'
  BY <1>11, NoEpochOutside, EpochArith DEF AcquireRef, Goto, CanAcquire, TypeOK,
     ReadersAlone, Registered, ObservedRecent, ObservedWhere, Observing, epochVars,
     objectVars
<1>12. ASSUME NEW o \in Objects, ReleaseRef(t, o) PROVE ReadersAlone'
  BY <1>12, NoEpochOutside, EpochArith DEF ReleaseRef, Goto, Release, Resume, TypeOK,
     ReadersAlone, Registered, ObservedRecent, ObservedWhere, Observing, epochVars,
     objectVars
<1>13. ASSUME NEW o \in Objects, Unlink(t, o) PROVE ReadersAlone'
  BY <1>13, NoEpochOutside, EpochArith DEF Unlink, Goto, TypeOK, ReadersAlone, Registered,
     ObservedRecent, ObservedWhere, Observing, epochVars, objectVars
<1>14. CASE ReleaseLink(t)
  BY <1>14, NoEpochOutside, EpochArith DEF ReleaseLink, Goto, Release, Resume, TypeOK,
     ReadersAlone, Registered, ObservedRecent, ObservedWhere, Observing, epochVars,
     objectVars
<1>15. CASE ReadCurrent(t)
  BY <1>15, NoEpochOutside, EpochArith DEF ReadCurrent, Goto, TypeOK,
     ReadersAlone, Registered, ObservedRecent, ObservedWhere, Observing, epochVars,
     objectVars
<1>16. CASE Push(t)
  BY <1>16, NoEpochOutside, EpochArith DEF Push, Goto, Resume, TypeOK, ReadersAlone,
     Registered, ObservedRecent, ObservedWhere, Observing, epochVars, objectVars
<1>17. ASSUME NEW o \in Objects, Retire(t, o) PROVE ReadersAlone'
  BY <1>17, NoEpochOutside, EpochArith DEF Retire, Goto, CanAcquire, TypeOK,
     ReadersAlone, Registered, ObservedRecent, ObservedWhere, Observing, epochVars,
     objectVars
<1>18. CASE Detach(t)
  BY <1>18, NoEpochOutside, EpochArith DEF Detach, Goto, TypeOK, ReadersAlone,
     Registered, ObservedRecent, ObservedWhere, Observing, epochVars, objectVars
<1> QED
  BY <1>1, <1>2, <1>3, <1>4, <1>5, <1>6, <1>7, <1>8, <1>9, <1>10, <1>11, <1>12, <1>13,
     <1>14, <1>15, <1>16, <1>17, <1>18 DEF Step, Call

\* Pointers are found inside an epoch and dropped before it is left.
LEMMA PointersInsideStep ==
  ASSUME TypeOK, TypeOK', ObservedWhere, PointersInside, NEW t \in Threads, Step(t)
  PROVE  PointersInside'
<1>1. CASE Join(t)
  BY <1>1, NoEpochOutside DEF Join, Goto, TypeOK, PointersInside, Using, ObservedWhere,
     Observing, Pc, epochVars, objectVars
<1>2. CASE LookBack(t)
  BY <1>2, NoEpochOutside DEF LookBack, Before, Goto, TypeOK, PointersInside, Using,
     ObservedWhere, Observing, Pc, epochVars, objectVars
<1>3. CASE Claim(t)
  BY <1>3, NoEpochOutside DEF Claim, Goto, TypeOK, PointersInside, Using,
     ObservedWhere, Observing, Pc, epochVars, objectVars
<1>4. CASE Advance(t)
  BY <1>4, NoEpochOutside DEF Advance, Goto, TypeOK, PointersInside, Using, ObservedWhere,
     Observing, Pc, epochVars, objectVars
<1>5. CASE Leave(t)
  BY <1>5, NoEpochOutside DEF Leave, Goto, AfterLeave, TypeOK, PointersInside, Using,
     ObservedWhere, Observing, Pc, epochVars, objectVars
<1>6. CASE LockEpochs(t)
  BY <1>6, NoEpochOutside DEF LockEpochs, Goto, AfterLeave, TypeOK, PointersInside, Using,
     ObservedWhere, Observing, Pc, epochVars, objectVars
<1>7. CASE CheckEpochs(t)
  BY <1>7, NoEpochOutside DEF CheckEpochs, Goto, AfterLeave, FirstLook, SecondLook,
     TypeOK, PointersInside, Using, ObservedWhere, Observing, Pc, epochVars, objectVars
<1>8. CASE Take(t)
  BY <1>8, NoEpochOutside DEF Take, Goto, Collect, TypeOK, PointersInside,
     Using, ObservedWhere, Observing, Pc, epochVars, objectVars
<1>9. CASE Dispose(t)
  BY <1>9, NoEpochOutside DEF Dispose, Goto, TypeOK, PointersInside, Using, ObservedWhere,
     Observing, Pc, epochVars, objectVars
<1>10. ASSUME NEW o \in Objects, Find(t, o) PROVE PointersInside'
  BY <1>10, NoEpochOutside DEF Find, Goto, TypeOK, PointersInside, Using, ObservedWhere,
     Observing, Pc, epochVars, objectVars
<1>11. ASSUME NEW o \in Objects, AcquireRef(t, o) PROVE PointersInside'
  BY <1>11, NoEpochOutside DEF AcquireRef, Goto, CanAcquire, TypeOK, PointersInside,
     Using, ObservedWhere, Observing, Pc, epochVars, objectVars
<1>12. ASSUME NEW o \in Objects, ReleaseRef(t, o) PROVE PointersInside'
  BY <1>12, NoEpochOutside DEF ReleaseRef, Goto, Release, Resume, TypeOK, PointersInside,
     Using, ObservedWhere, Observing, Pc, epochVars, objectVars
<1>13. ASSUME NEW o \in Objects, Unlink(t, o) PROVE PointersInside'
  BY <1>13, NoEpochOutside DEF Unlink, Goto, TypeOK, PointersInside, Using, ObservedWhere,
     Observing, Pc, epochVars, objectVars
<1>14. CASE ReleaseLink(t)
  BY <1>14, NoEpochOutside DEF ReleaseLink, Goto, Release, Resume, TypeOK, PointersInside,
     Using, ObservedWhere, Observing, Pc, epochVars, objectVars
<1>15. CASE ReadCurrent(t)
  BY <1>15, NoEpochOutside DEF ReadCurrent, Goto, TypeOK, PointersInside, Using,
     ObservedWhere, Observing, Pc, epochVars, objectVars
<1>16. CASE Push(t)
  BY <1>16, NoEpochOutside DEF Push, Goto, Resume, TypeOK, PointersInside, Using,
     ObservedWhere, Observing, Pc, epochVars, objectVars
<1>17. ASSUME NEW o \in Objects, Retire(t, o) PROVE PointersInside'
  BY <1>17, NoEpochOutside DEF Retire, Goto, CanAcquire, TypeOK, PointersInside, Using,
     ObservedWhere, Observing, Pc, epochVars, objectVars
<1>18. CASE Detach(t)
  BY <1>18, NoEpochOutside DEF Detach, Goto, TypeOK, PointersInside, Using,
     ObservedWhere, Observing, Pc, epochVars, objectVars
<1> QED
  BY <1>1, <1>2, <1>3, <1>4, <1>5, <1>6, <1>7, <1>8, <1>9, <1>10, <1>11, <1>12, <1>13,
     <1>14, <1>15, <1>16, <1>17, <1>18 DEF Step, Call

\* An object is given up only when it is unlinked and its last reference is gone,
\* and cannot be found or referenced again.
LEMMA UnreachableStep ==
  ASSUME TypeOK, TypeOK', Unreachable, NEW t \in Threads, Step(t)
  PROVE  Unreachable'
<1>1. CASE Join(t)
  BY <1>1, NamesAssumption, NoEpochOutside, EpochArith DEF Join, Goto, TypeOK,
     Unreachable, GivenUp, Handed, epochVars, objectVars
<1>2. CASE LookBack(t)
  BY <1>2, NamesAssumption, NoEpochOutside, EpochArith DEF LookBack, Before, Goto, TypeOK,
     Unreachable, GivenUp, Handed, epochVars, objectVars
<1>3. CASE Claim(t)
  BY <1>3, NamesAssumption, NoEpochOutside, EpochArith DEF Claim, Goto, TypeOK,
     Unreachable, GivenUp, Handed, epochVars, objectVars
<1>4. CASE Advance(t)
  BY <1>4, NamesAssumption, NoEpochOutside, EpochArith DEF Advance, Goto, TypeOK,
     Unreachable, GivenUp, Handed, epochVars, objectVars
<1>5. CASE Leave(t)
  BY <1>5, NamesAssumption, NoEpochOutside, EpochArith DEF Leave, Goto, AfterLeave,
     TypeOK, Unreachable, GivenUp, Handed, epochVars, objectVars
<1>6. CASE LockEpochs(t)
  BY <1>6, NamesAssumption, NoEpochOutside, EpochArith DEF LockEpochs, Goto, AfterLeave,
     TypeOK, Unreachable, GivenUp, Handed, epochVars, objectVars
<1>7. CASE CheckEpochs(t)
  BY <1>7, NamesAssumption, NoEpochOutside, EpochArith DEF CheckEpochs, Goto, AfterLeave,
     FirstLook, SecondLook, TypeOK, Unreachable, GivenUp, Handed, epochVars, objectVars
<1>8. CASE Take(t)
  BY <1>8, NamesAssumption, NoEpochOutside, EpochArith DEF Take, Goto, Collect, TypeOK, Unreachable, GivenUp, Handed, epochVars, objectVars
<1>9. CASE Dispose(t)
  BY <1>9, NamesAssumption, NoEpochOutside, EpochArith DEF Dispose, Goto, TypeOK,
     Unreachable, GivenUp, Handed, epochVars, objectVars
<1>10. ASSUME NEW o \in Objects, Find(t, o) PROVE Unreachable'
  BY <1>10, NamesAssumption, NoEpochOutside, EpochArith DEF Find, Goto, TypeOK,
     Unreachable, GivenUp, Handed, epochVars, objectVars
<1>11. ASSUME NEW o \in Objects, AcquireRef(t, o) PROVE Unreachable'
  BY <1>11, NamesAssumption, NoEpochOutside, EpochArith DEF AcquireRef, Goto, CanAcquire,
     TypeOK, Unreachable, GivenUp, Handed, epochVars, objectVars
<1>12. ASSUME NEW o \in Objects, ReleaseRef(t, o) PROVE Unreachable'
  BY <1>12, NamesAssumption, NoEpochOutside, EpochArith DEF ReleaseRef, Goto, Release,
     Resume, TypeOK, Unreachable, GivenUp, Handed, epochVars, objectVars
<1>13. ASSUME NEW o \in Objects, Unlink(t, o) PROVE Unreachable'
  BY <1>13, NamesAssumption, NoEpochOutside, EpochArith DEF Unlink, Goto, TypeOK,
     Unreachable, GivenUp, Handed, epochVars, objectVars
<1>14. CASE ReleaseLink(t)
  BY <1>14, NamesAssumption, NoEpochOutside, EpochArith DEF ReleaseLink, Goto, Release,
     Resume, TypeOK, Unreachable, GivenUp, Handed, epochVars, objectVars
<1>15. CASE ReadCurrent(t)
  BY <1>15, NamesAssumption, NoEpochOutside, EpochArith DEF ReadCurrent, Goto, TypeOK, Unreachable, GivenUp, Handed, epochVars, objectVars
<1>16. CASE Push(t)
  BY <1>16, NamesAssumption, NoEpochOutside, EpochArith DEF Push, Goto, Resume, TypeOK,
     Unreachable, GivenUp, Handed, epochVars, objectVars
<1>17. ASSUME NEW o \in Objects, Retire(t, o) PROVE Unreachable'
  BY <1>17, NamesAssumption, NoEpochOutside, EpochArith DEF Retire, Goto, CanAcquire,
     TypeOK, Unreachable, GivenUp, Handed, epochVars, objectVars
<1>18. CASE Detach(t)
  BY <1>18, NamesAssumption, NoEpochOutside, EpochArith DEF Detach, Goto, TypeOK,
     Unreachable, GivenUp, Handed, epochVars, objectVars
<1> QED
  BY <1>1, <1>2, <1>3, <1>4, <1>5, <1>6, <1>7, <1>8, <1>9, <1>10, <1>11, <1>12, <1>13,
     <1>14, <1>15, <1>16, <1>17, <1>18 DEF Step, Call

\* What can still be found is in no list, and neither claimed nor disposed of.
LEMMA LinkedNotGone ==
  ASSUME Unreachable, InOnePlace, NEW o \in Objects, o \in linked
  PROVE  /\ \A e \in Epochs : o \notin refs[e]
         /\ \A t \in Threads :
              o \notin got[t] /\ ~(obj[t] = o /\ pc[t] \in {"append", "push"})
         /\ o \notin freed
<1>1. CASE GivenUp(o)
  <2>1. PICK t \in Threads : pc[t] = "unlink" /\ obj[t] = o
    BY <1>1 DEF Unreachable
  <2> QED
    BY <2>1 DEF InOnePlace, Handed
<1>2. CASE ~GivenUp(o)
  BY <1>2 DEF GivenUp, Handed
<1> QED
  BY <1>1, <1>2

\* A pointer to a listed object is held only by threads in the epoch of that list.
LEMMA HoldersKnownStep ==
  ASSUME TypeOK, TypeOK', Unreachable, InOnePlace, PreviousLeft, ObservedRecent, ObservedWhere, PointersInside, HoldersKnown, NEW t \in Threads, Step(t)
  PROVE  HoldersKnown'
<1>1. CASE Join(t)
  BY <1>1, NoEpochOutside, EpochArith DEF Join, Goto, TypeOK, HoldersKnown, Safe,
     Unreachable, GivenUp, Handed, epochVars, objectVars, PointersInside, Using
<1>2. CASE LookBack(t)
  BY <1>2, NoEpochOutside, EpochArith DEF LookBack, Before, Goto, TypeOK, HoldersKnown, Safe,
     Unreachable, GivenUp, Handed, epochVars, objectVars
<1>3. CASE Claim(t)
  BY <1>3, NoEpochOutside, EpochArith DEF Claim, Goto, TypeOK, HoldersKnown,
     Safe, Unreachable, GivenUp, Handed, epochVars, objectVars
<1>4. CASE Advance(t)
  BY <1>4, NoEpochOutside, EpochArith DEF Advance, Goto, TypeOK, HoldersKnown, Safe,
     Unreachable, GivenUp, Handed, epochVars, objectVars, PreviousLeft, Registered,
     ObservedRecent, ObservedWhere, Observing, PointersInside
<1>5. CASE Leave(t)
  BY <1>5, NoEpochOutside, EpochArith DEF Leave, Goto, AfterLeave, TypeOK, HoldersKnown,
     Safe, Unreachable, GivenUp, Handed, epochVars, objectVars
<1>6. CASE LockEpochs(t)
  BY <1>6, NoEpochOutside, EpochArith DEF LockEpochs, Goto, AfterLeave, TypeOK,
     HoldersKnown, Safe, Unreachable, GivenUp, Handed, epochVars, objectVars
<1>7. CASE CheckEpochs(t)
  BY <1>7, NoEpochOutside, EpochArith DEF CheckEpochs, Goto, AfterLeave, FirstLook,
     SecondLook, TypeOK, HoldersKnown, Safe, Unreachable, GivenUp, Handed, epochVars,
     objectVars
<1>8. CASE Take(t)
  BY <1>8, NoEpochOutside, EpochArith DEF Take, Goto, Collect, TypeOK,
     HoldersKnown, Safe, Unreachable, GivenUp, Handed, epochVars, objectVars
<1>9. CASE Dispose(t)
  BY <1>9, NoEpochOutside, EpochArith DEF Dispose, Goto, TypeOK, HoldersKnown, Safe,
     Unreachable, GivenUp, Handed, epochVars, objectVars, PointersInside, Using
<1>10. ASSUME NEW o \in Objects, Find(t, o) PROVE HoldersKnown'
  BY <1>10, LinkedNotGone, NoEpochOutside, EpochArith DEF Find, Goto, TypeOK, HoldersKnown, Safe,
     Unreachable, GivenUp, Handed, epochVars, objectVars
<1>11. ASSUME NEW o \in Objects, AcquireRef(t, o) PROVE HoldersKnown'
  BY <1>11, NoEpochOutside, EpochArith DEF AcquireRef, Goto, CanAcquire, TypeOK,
     HoldersKnown, Safe, Unreachable, GivenUp, Handed, epochVars, objectVars
<1>12. ASSUME NEW o \in Objects, ReleaseRef(t, o) PROVE HoldersKnown'
  BY <1>12, NoEpochOutside, EpochArith DEF ReleaseRef, Goto, Release, Resume, TypeOK,
     HoldersKnown, Safe, Unreachable, GivenUp, Handed, epochVars, objectVars
<1>13. ASSUME NEW o \in Objects, Unlink(t, o) PROVE HoldersKnown'
  BY <1>13, NoEpochOutside, EpochArith DEF Unlink, Goto, TypeOK, HoldersKnown, Safe,
     Unreachable, GivenUp, Handed, epochVars, objectVars
<1>14. CASE ReleaseLink(t)
  BY <1>14, NoEpochOutside, EpochArith DEF ReleaseLink, Goto, Release, Resume, TypeOK,
     HoldersKnown, Safe, Unreachable, GivenUp, Handed, epochVars, objectVars
<1>15. CASE ReadCurrent(t)
  BY <1>15, NoEpochOutside, EpochArith DEF ReadCurrent, Goto, TypeOK,
     HoldersKnown, Safe, Unreachable, GivenUp, Handed, epochVars, objectVars
<1>16. CASE Push(t)
  BY <1>16, NoEpochOutside, EpochArith DEF Push, Goto, Resume, TypeOK, HoldersKnown, Safe,
     Unreachable, GivenUp, Handed, epochVars, objectVars
<1>17. ASSUME NEW o \in Objects, Retire(t, o) PROVE HoldersKnown'
  BY <1>17, NoEpochOutside, EpochArith DEF Retire, Goto, CanAcquire, TypeOK,
     HoldersKnown, Safe, Unreachable, GivenUp, Handed, epochVars, objectVars
<1>18. CASE Detach(t)
  BY <1>18, NoEpochOutside, EpochArith DEF Detach, Goto, TypeOK, HoldersKnown, Safe,
     Unreachable, GivenUp, Handed, epochVars, objectVars
<1> QED
  BY <1>1, <1>2, <1>3, <1>4, <1>5, <1>6, <1>7, <1>8, <1>9, <1>10, <1>11, <1>12, <1>13,
     <1>14, <1>15, <1>16, <1>17, <1>18 DEF Step, Call

\* A list is claimed when nobody observes its epoch: then nobody has a pointer.
LEMMA NoHoldersStep ==
  ASSUME TypeOK, TypeOK', Unreachable, InOnePlace, HoldersKnown, ReadersAlone, PreviousLeft, ObservedRecent, ObservedWhere, PointersInside, NoHolders, NEW t \in Threads, Step(t)
  PROVE  NoHolders'
<1>1. CASE Join(t)
  BY <1>1, NoEpochOutside, EpochArith DEF Join, Goto, TypeOK, NoHolders, Unreachable,
     GivenUp, Handed, epochVars, objectVars
<1>2. CASE LookBack(t)
  BY <1>2, NoEpochOutside, EpochArith DEF LookBack, Before, Goto, TypeOK, NoHolders, Unreachable,
     GivenUp, Handed, epochVars, objectVars
<1>3. CASE Claim(t)
  BY <1>3, NoEpochOutside, EpochArith DEF Claim, Goto, TypeOK, NoHolders,
     Unreachable, GivenUp, Handed, epochVars, objectVars, PreviousLeft, Registered,
     HoldersKnown, Safe, ObservedRecent, ObservedWhere, Observing
<1>4. CASE Advance(t)
  BY <1>4, NoEpochOutside, EpochArith DEF Advance, Goto, TypeOK, NoHolders, Unreachable,
     GivenUp, Handed, epochVars, objectVars
<1>5. CASE Leave(t)
  BY <1>5, NoEpochOutside, EpochArith DEF Leave, Goto, AfterLeave, TypeOK, NoHolders,
     Unreachable, GivenUp, Handed, epochVars, objectVars
<1>6. CASE LockEpochs(t)
  BY <1>6, NoEpochOutside, EpochArith DEF LockEpochs, Goto, AfterLeave, TypeOK, NoHolders,
     Unreachable, GivenUp, Handed, epochVars, objectVars
<1>7. CASE CheckEpochs(t)
  BY <1>7, NoEpochOutside, EpochArith DEF CheckEpochs, Goto, AfterLeave, FirstLook,
     SecondLook, TypeOK, NoHolders, Unreachable, GivenUp, Handed, epochVars, objectVars
<1>8. CASE Take(t)
  BY <1>8, NoEpochOutside, EpochArith DEF Take, Goto, Collect, TypeOK,
     NoHolders, Unreachable, GivenUp, Handed, epochVars, objectVars, ReadersAlone,
     Registered, ObservedRecent, PointersInside, Using
<1>9. CASE Dispose(t)
  BY <1>9, NoEpochOutside, EpochArith DEF Dispose, Goto, TypeOK, NoHolders, Unreachable,
     GivenUp, Handed, epochVars, objectVars
<1>10. ASSUME NEW o \in Objects, Find(t, o) PROVE NoHolders'
  BY <1>10, LinkedNotGone, NoEpochOutside, EpochArith DEF Find, Goto, TypeOK, NoHolders, Unreachable,
     GivenUp, Handed, epochVars, objectVars
<1>11. ASSUME NEW o \in Objects, AcquireRef(t, o) PROVE NoHolders'
  BY <1>11, NoEpochOutside, EpochArith DEF AcquireRef, Goto, CanAcquire, TypeOK,
     NoHolders, Unreachable, GivenUp, Handed, epochVars, objectVars
<1>12. ASSUME NEW o \in Objects, ReleaseRef(t, o) PROVE NoHolders'
  BY <1>12, NoEpochOutside, EpochArith DEF ReleaseRef, Goto, Release, Resume, TypeOK,
     NoHolders, Unreachable, GivenUp, Handed, epochVars, objectVars
<1>13. ASSUME NEW o \in Objects, Unlink(t, o) PROVE NoHolders'
  BY <1>13, NoEpochOutside, EpochArith DEF Unlink, Goto, TypeOK, NoHolders, Unreachable,
     GivenUp, Handed, epochVars, objectVars
<1>14. CASE ReleaseLink(t)
  BY <1>14, NoEpochOutside, EpochArith DEF ReleaseLink, Goto, Release, Resume, TypeOK,
     NoHolders, Unreachable, GivenUp, Handed, epochVars, objectVars
<1>15. CASE ReadCurrent(t)
  BY <1>15, NoEpochOutside, EpochArith DEF ReadCurrent, Goto, TypeOK, NoHolders,
     Unreachable, GivenUp, Handed, epochVars, objectVars
<1>16. CASE Push(t)
  BY <1>16, NoEpochOutside, EpochArith DEF Push, Goto, Resume, TypeOK, NoHolders,
     Unreachable, GivenUp, Handed, epochVars, objectVars
<1>17. ASSUME NEW o \in Objects, Retire(t, o) PROVE NoHolders'
  BY <1>17, NoEpochOutside, EpochArith DEF Retire, Goto, CanAcquire, TypeOK, NoHolders,
     Unreachable, GivenUp, Handed, epochVars, objectVars
<1>18. CASE Detach(t)
  BY <1>18, NoEpochOutside, EpochArith DEF Detach, Goto, TypeOK, NoHolders,
     Unreachable, GivenUp, Handed, epochVars, objectVars
<1> QED
  BY <1>1, <1>2, <1>3, <1>4, <1>5, <1>6, <1>7, <1>8, <1>9, <1>10, <1>11, <1>12, <1>13,
     <1>14, <1>15, <1>16, <1>17, <1>18 DEF Step, Call

\* An object moves from who gave it up to a list, to a claimant, to its disposal.
LEMMA InOnePlaceStep ==
  ASSUME TypeOK, TypeOK', Unreachable, ObservedWhere, InOnePlace, NEW t \in Threads, Step(t)
  PROVE  InOnePlace'
<1>1. CASE Join(t)
  BY <1>1, NamesAssumption, NoEpochOutside, EpochArith DEF Join, Goto, TypeOK, InOnePlace,
     Unreachable, GivenUp, Handed, epochVars, objectVars
<1>2. CASE LookBack(t)
  BY <1>2, NamesAssumption, NoEpochOutside, EpochArith DEF LookBack, Before, Goto, TypeOK,
     InOnePlace, Unreachable, GivenUp, Handed, epochVars, objectVars
<1>3. CASE Claim(t)
  BY <1>3, NamesAssumption, NoEpochOutside, EpochArith DEF Claim, Goto, TypeOK,
     InOnePlace, Unreachable, GivenUp, Handed, epochVars, objectVars, ObservedWhere,
     Observing
<1>4. CASE Advance(t)
  BY <1>4, NamesAssumption, NoEpochOutside, EpochArith DEF Advance, Goto, TypeOK,
     InOnePlace, Unreachable, GivenUp, Handed, epochVars, objectVars
<1>5. CASE Leave(t)
  BY <1>5, NamesAssumption, NoEpochOutside, EpochArith DEF Leave, Goto, AfterLeave,
     TypeOK, InOnePlace, Unreachable, GivenUp, Handed, epochVars, objectVars
<1>6. CASE LockEpochs(t)
  BY <1>6, NamesAssumption, NoEpochOutside, EpochArith DEF LockEpochs, Goto, AfterLeave,
     TypeOK, InOnePlace, Unreachable, GivenUp, Handed, epochVars, objectVars
<1>7. CASE CheckEpochs(t)
  BY <1>7, NamesAssumption, NoEpochOutside, EpochArith DEF CheckEpochs, Goto, AfterLeave,
     FirstLook, SecondLook, TypeOK, InOnePlace, Unreachable, GivenUp, Handed, epochVars,
     objectVars
<1>8. CASE Take(t)
  <2>1. PICK e \in Epochs : got' = [got EXCEPT ![t] = @ \cup refs[e]] /\ refs' = [refs EXCEPT ![e] = {}]
    BY <1>8, EpochArith DEF Take, Collect, TypeOK
  <2>2. /\ freed' = freed /\ obj' = obj
        /\ \A u \in Threads : pc'[u] \in {"unlink", "append", "push"}
                                <=> pc[u] \in {"unlink", "append", "push"}
    BY <1>8 DEF Take, Goto, TypeOK
  <2> QED
    BY <2>1, <2>2 DEF InOnePlace, Handed, TypeOK
<1>9. CASE Dispose(t)
  BY <1>9, NamesAssumption, NoEpochOutside, EpochArith DEF Dispose, Goto, TypeOK,
     InOnePlace, Unreachable, GivenUp, Handed, epochVars, objectVars
<1>10. ASSUME NEW o \in Objects, Find(t, o) PROVE InOnePlace'
  BY <1>10, NamesAssumption, NoEpochOutside, EpochArith DEF Find, Goto, TypeOK,
     InOnePlace, Unreachable, GivenUp, Handed, epochVars, objectVars
<1>11. ASSUME NEW o \in Objects, AcquireRef(t, o) PROVE InOnePlace'
  BY <1>11, NamesAssumption, NoEpochOutside, EpochArith DEF AcquireRef, Goto, CanAcquire,
     TypeOK, InOnePlace, Unreachable, GivenUp, Handed, epochVars, objectVars
<1>12. ASSUME NEW o \in Objects, ReleaseRef(t, o) PROVE InOnePlace'
  <2>1. refs' = refs /\ got' = got /\ freed' = freed
    BY <1>12 DEF ReleaseRef, epochVars
  <2>2. PICK v, l : obj' = [obj EXCEPT ![t] = v] /\ pc' = [pc EXCEPT ![t] = l]
    BY <1>12, SMTT(20) DEF ReleaseRef, Release, Resume, Goto
  <2>3. \A u \in Threads, p \in Objects : u # t => (Handed(u, p)' <=> Handed(u, p))
    BY <2>2 DEF Handed, TypeOK
  <2>4. CASE owners[o] = {t}
    <3>1. o \in Objects /\ ~GivenUp(o)
      BY <1>12, <2>4 DEF ReleaseRef, Unreachable
    <3>2. \A p \in Objects : Handed(t, p)' => p = o
      BY <1>12, <2>4 DEF ReleaseRef, Release, Handed, TypeOK
    <3> QED
      BY <2>1, <2>3, <3>1, <3>2 DEF InOnePlace, GivenUp
  <2>5. CASE owners[o] # {t}
    <3>1. \A p \in Objects : ~Handed(t, p)'
      BY <1>12, <2>5 DEF ReleaseRef, Release, Resume, Goto, Handed, TypeOK
    <3> QED
      BY <2>1, <2>3, <3>1 DEF InOnePlace
  <2> QED
    BY <2>4, <2>5
<1>13. ASSUME NEW o \in Objects, Unlink(t, o) PROVE InOnePlace'
  BY <1>13, NamesAssumption, NoEpochOutside, EpochArith DEF Unlink, Goto, TypeOK,
     InOnePlace, Unreachable, GivenUp, Handed, epochVars, objectVars
<1>14. CASE ReleaseLink(t)
  <2>1. refs' = refs /\ got' = got /\ freed' = freed
    BY <1>14 DEF ReleaseLink, epochVars
  <2>2. PICK v, l : obj' = [obj EXCEPT ![t] = v] /\ pc' = [pc EXCEPT ![t] = l]
    BY <1>14, SMTT(20) DEF ReleaseLink, Release, Resume, Goto
  <2>3. \A u \in Threads, p \in Objects : u # t => (Handed(u, p)' <=> Handed(u, p))
    BY <2>2 DEF Handed, TypeOK
  <2>4. CASE owners[obj[t]] = {Link}
    <3>1. obj[t] \in Objects /\ ~GivenUp(obj[t])
      BY <1>14, <2>4 DEF ReleaseLink, Unreachable
    <3>2. \A p \in Objects : Handed(t, p)' => p = obj[t]
      BY <1>14, <2>4 DEF ReleaseLink, Release, Handed, TypeOK
    <3> QED
      BY <2>1, <2>3, <3>1, <3>2 DEF InOnePlace, GivenUp
  <2>5. CASE owners[obj[t]] # {Link}
    <3>1. \A p \in Objects : ~Handed(t, p)'
      BY <1>14, <2>5 DEF ReleaseLink, Release, Resume, Goto, Handed, TypeOK
    <3> QED
      BY <2>1, <2>3, <3>1 DEF InOnePlace
  <2> QED
    BY <2>4, <2>5
<1>15. CASE ReadCurrent(t)
  BY <1>15, NamesAssumption, NoEpochOutside, EpochArith DEF ReadCurrent, Goto, TypeOK, InOnePlace, Unreachable, GivenUp, Handed, epochVars, objectVars
<1>16. CASE Push(t)
  BY <1>16, NamesAssumption, NoEpochOutside, EpochArith DEF Push, Goto, Resume, TypeOK,
     InOnePlace, Unreachable, GivenUp, Handed, epochVars, objectVars
<1>17. ASSUME NEW o \in Objects, Retire(t, o) PROVE InOnePlace'
  BY <1>17, NamesAssumption, NoEpochOutside, EpochArith DEF Retire, Goto, CanAcquire,
     TypeOK, InOnePlace, Unreachable, GivenUp, Handed, epochVars, objectVars
<1>18. CASE Detach(t)
  BY <1>18, NamesAssumption, NoEpochOutside, EpochArith DEF Detach, Goto, TypeOK,
     InOnePlace, Unreachable, GivenUp, Handed, epochVars, objectVars
<1> QED
  BY <1>1, <1>2, <1>3, <1>4, <1>5, <1>6, <1>7, <1>8, <1>9, <1>10, <1>11, <1>12, <1>13,
     <1>14, <1>15, <1>16, <1>17, <1>18 DEF Step, Call

\* The epoch a pusher has read cannot be left behind while it observes one.
LEMMA AppendsRecentStep ==
  ASSUME TypeOK, TypeOK', ObservedWhere, ObservedRecent, PreviousLeft, AppendsRecent, NEW t \in Threads, Step(t)
  PROVE  AppendsRecent'
<1>1. CASE Join(t)
  BY <1>1, NoEpochOutside, EpochArith DEF Join, Goto, TypeOK, AppendsRecent, ObservedWhere,
     Observing, NotObserving, epochVars, objectVars
<1>2. CASE LookBack(t)
  BY <1>2, NoEpochOutside, EpochArith DEF LookBack, Before, Goto, TypeOK, AppendsRecent,
     ObservedWhere, Observing, NotObserving, epochVars, objectVars
<1>3. CASE Claim(t)
  BY <1>3, NoEpochOutside, EpochArith DEF Claim, Goto, TypeOK, AppendsRecent,
     ObservedWhere, Observing, NotObserving, epochVars, objectVars
<1>4. CASE Advance(t)
  BY <1>4, NoEpochOutside, EpochArith DEF Advance, Goto, TypeOK, AppendsRecent,
     ObservedWhere, Observing, NotObserving, epochVars, objectVars, PreviousLeft,
     Registered, ObservedRecent
<1>5. CASE Leave(t)
  BY <1>5, NoEpochOutside, EpochArith DEF Leave, Goto, AfterLeave, TypeOK, AppendsRecent,
     ObservedWhere, Observing, NotObserving, epochVars, objectVars
<1>6. CASE LockEpochs(t)
  BY <1>6, NoEpochOutside, EpochArith DEF LockEpochs, Goto, AfterLeave, TypeOK,
     AppendsRecent, ObservedWhere, Observing, NotObserving, epochVars, objectVars
<1>7. CASE CheckEpochs(t)
  BY <1>7, NoEpochOutside, EpochArith DEF CheckEpochs, Goto, AfterLeave, FirstLook,
     SecondLook, TypeOK, AppendsRecent, ObservedWhere, Observing, NotObserving, epochVars,
     objectVars
<1>8. CASE Take(t)
  BY <1>8, NoEpochOutside, EpochArith DEF Take, Goto, Collect, TypeOK,
     AppendsRecent, ObservedWhere, Observing, NotObserving, epochVars, objectVars
<1>9. CASE Dispose(t)
  BY <1>9, NoEpochOutside, EpochArith DEF Dispose, Goto, TypeOK, AppendsRecent,
     ObservedWhere, Observing, NotObserving, epochVars, objectVars
<1>10. ASSUME NEW o \in Objects, Find(t, o) PROVE AppendsRecent'
  BY <1>10, NoEpochOutside, EpochArith DEF Find, Goto, TypeOK, AppendsRecent,
     ObservedWhere, Observing, NotObserving, epochVars, objectVars
<1>11. ASSUME NEW o \in Objects, AcquireRef(t, o) PROVE AppendsRecent'
  BY <1>11, NoEpochOutside, EpochArith DEF AcquireRef, Goto, CanAcquire, TypeOK,
     AppendsRecent, ObservedWhere, Observing, NotObserving, epochVars, objectVars
<1>12. ASSUME NEW o \in Objects, ReleaseRef(t, o) PROVE AppendsRecent'
  BY <1>12, NoEpochOutside, EpochArith DEF ReleaseRef, Goto, Release, Resume, TypeOK,
     AppendsRecent, ObservedWhere, Observing, NotObserving, epochVars, objectVars
<1>13. ASSUME NEW o \in Objects, Unlink(t, o) PROVE AppendsRecent'
  BY <1>13, NoEpochOutside, EpochArith DEF Unlink, Goto, TypeOK, AppendsRecent,
     ObservedWhere, Observing, NotObserving, epochVars, objectVars
<1>14. CASE ReleaseLink(t)
  BY <1>14, NoEpochOutside, EpochArith DEF ReleaseLink, Goto, Release, Resume, TypeOK,
     AppendsRecent, ObservedWhere, Observing, NotObserving, epochVars, objectVars
<1>15. CASE ReadCurrent(t)
  BY <1>15, NoEpochOutside, EpochArith DEF ReadCurrent, Goto, TypeOK,
     AppendsRecent, ObservedWhere, Observing, NotObserving, epochVars, objectVars
<1>16. CASE Push(t)
  BY <1>16, NoEpochOutside, EpochArith DEF Push, Goto, Resume, TypeOK, AppendsRecent,
     ObservedWhere, Observing, NotObserving, epochVars, objectVars
<1>17. ASSUME NEW o \in Objects, Retire(t, o) PROVE AppendsRecent'
  BY <1>17, NoEpochOutside, EpochArith DEF Retire, Goto, CanAcquire, TypeOK,
     AppendsRecent, ObservedWhere, Observing, NotObserving, epochVars, objectVars
<1>18. CASE Detach(t)
  BY <1>18, NoEpochOutside, EpochArith DEF Detach, Goto, TypeOK, AppendsRecent,
     ObservedWhere, Observing, NotObserving, epochVars, objectVars
<1> QED
  BY <1>1, <1>2, <1>3, <1>4, <1>5, <1>6, <1>7, <1>8, <1>9, <1>10, <1>11, <1>12, <1>13,
     <1>14, <1>15, <1>16, <1>17, <1>18 DEF Step, Call

-----------------------------------------------------------------------------
(***************************************************************************)
(* The inductive invariant.                                                *)
(***************************************************************************)
Inside == ObservedWhere /\ ObservedRecent /\ PreviousLeft /\ ReadersAlone /\ PointersInside
IInv ==
  /\ TypeOK /\ Inside /\ AppendsRecent
  /\ Unreachable /\ HoldersKnown /\ NoHolders /\ InOnePlace

\* The invariant holds at first, ...
LEMMA IInvInit == Init => IInv
<1> SUFFICES ASSUME Init PROVE IInv
  OBVIOUS
<1>1. TypeOK
  BY NoEpochOutside, NamesAssumption DEF Init, TypeOK, Pc
<1>2. Inside
  BY DEF Init, Inside, ObservedWhere, ObservedRecent, PreviousLeft, ReadersAlone,
         PointersInside, Observing
<1>3. \A o \in Objects : GivenUp(o) => o \in freed
  BY DEF Init, GivenUp, Handed
<1>4. Unreachable
  <2>1. \A o \in freed : owners[o] = {}
    BY NamesAssumption DEF Init
  <2> QED
    BY <1>3, <2>1, NamesAssumption DEF Init, Unreachable
<1>5. NoHolders /\ InOnePlace
  BY <1>3 DEF Init, NoHolders, InOnePlace, Handed
<1>6. AppendsRecent /\ HoldersKnown
  BY DEF Init, AppendsRecent, HoldersKnown
<1> QED
  BY <1>1, <1>2, <1>4, <1>5, <1>6 DEF IInv

\* ... and each step keeps it.
LEMMA IInvNext == IInv /\ [Next]_vars => IInv'
<1> SUFFICES ASSUME IInv, [Next]_vars PROVE IInv'
  OBVIOUS
<1>1. ASSUME NEW t \in Threads, Step(t) PROVE IInv'
  <2>1. TypeOK'
    BY <1>1, TypeStep DEF IInv, Inside
  <2>2. Inside' /\ AppendsRecent'
    BY <1>1, <2>1, ObservedWhereStep, ObservedRecentStep, PreviousLeftStep,
       ReadersAloneStep, PointersInsideStep, AppendsRecentStep DEF IInv, Inside
  <2>3. Unreachable' /\ HoldersKnown' /\ NoHolders' /\ InOnePlace'
    BY <1>1, <2>1, UnreachableStep, HoldersKnownStep, NoHoldersStep, InOnePlaceStep
       DEF IInv, Inside
  <2> QED
    BY <2>1, <2>2, <2>3 DEF IInv
<1>2. CASE UNCHANGED vars
  BY <1>2 DEF IInv, Inside, TypeOK, ObservedWhere, ObservedRecent, PreviousLeft, Registered,
     ReadersAlone, PointersInside, Unreachable, GivenUp, Handed, HoldersKnown, Safe, NoHolders,
     InOnePlace, AppendsRecent, vars
<1> QED
  BY <1>1, <1>2 DEF Next, Step

\* The invariant holds in every reachable state.
LEMMA IInvHolds == Spec => []IInv
  BY IInvInit, IInvNext, PTL DEF Spec

-----------------------------------------------------------------------------
\* The variables have their types, for any threads, objects and EPOCH_MASK.
THEOREM TypeCorrect == Spec => []TypeOK
<1>1. IInv => TypeOK
  BY DEF IInv
<1> QED
  BY <1>1, IInvHolds, PTL

\* No object is disposed of while a thread has a pointer to it that it found in
\* the epoch it observes, or a reference: what epoch.h promises of epoch_join.
\* It holds of references released outside epochs as well.
THEOREM SafeReclamation == Spec => []NoUseAfterFree
<1>1. IInv => NoUseAfterFree
  BY DEF IInv, TypeOK, NoUseAfterFree, NoHolders, Unreachable, GivenUp
<1> QED
  BY <1>1, IInvHolds, PTL

\* No object is appended, claimed or disposed of twice, and none is while it is
\* linked or referenced (epoch_append, try_release_ref).
THEOREM SingleDisposal == Spec => []DisposedOnce
<1>1. IInv => DisposedOnce
  <2> SUFFICES ASSUME IInv, NEW o \in Objects
               PROVE  /\ \A p, q \in Places(o) : p = q
                      /\ Places(o) # {} => o \notin linked /\ owners[o] = {}
    BY DEF DisposedOnce
  <2>1. \A p \in Places(o) :
          \/ \E e \in Epochs : p = <<"list", e>> /\ o \in refs[e]
          \/ \E t \in Threads : p = <<"claimed", t>> /\ o \in got[t]
          \/ \E t \in Threads : /\ p = <<"appended", t>>
                              /\ obj[t] = o /\ pc[t] \in {"append", "push"}
          \/ p = <<"freed", o>> /\ o \in freed
    BY DEF Places
  <2>2. \A p, q \in Places(o) : p = q
    BY <2>1 DEF IInv, InOnePlace, Handed
  <2>3. Places(o) # {} => GivenUp(o) /\ o \notin linked
    BY <2>1, LinkedNotGone DEF GivenUp, Handed, IInv
  <2> QED
    BY <2>2, <2>3 DEF IInv, Unreachable
<1> QED
  BY <1>1, IInvHolds, PTL

\* A thread in an epoch appends to the current list, or to the previous one while
\* it is itself what keeps that list from being claimed (epoch_append).
THEOREM AppendInTime == Spec => []AppendsRecent
<1>1. IInv => AppendsRecent
  BY DEF IInv
<1> QED
  BY <1>1, IInvHolds, PTL

=============================================================================
