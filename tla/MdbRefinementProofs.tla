------------------------- MODULE MdbRefinementProofs -------------------------
(***************************************************************************)
(* Mdb implements SnapshotStore: each step of LMDB's transactions, of a     *)
(* recovery or of a crash is a step of the store, or none, when the commit  *)
(* in doubt and what readers find in their pages are read through the map.  *)
(***************************************************************************)
EXTENDS MdbProofs

\* The map holds the last commit.
Logged == Contents(Committed.tree) = log[mti + 1]

\* The disk has the database db under meta page m.
OnDiskAs(m, db) ==
  \A k \in Keys : IF m.tree[k] = 0 THEN db[k] = 0 ELSE disk[m.tree[k]] = {db[k]}

\* At most one commit is in doubt.  Then the last one is on the disk, its pages are
\* not free in the new one, and unless the meta page was written back ...
Unsettled == Other.txnid > mti \/ pc = "panic"

LastIsKept ==
  dmetas[mti % 2] = {Committed} /\ OnDiskAs(Committed, log[mti + 1]) /\ kept <= mti + 1

OneDoubt ==
  /\ \A m, n \in InDoubt : m = n
  /\ InDoubt # {} => LastIsKept
  /\ \A m \in InDoubt : Held(m, Committed.tree, mti)
  /\ pc \in {"publish", "restore", "panic"} =>
       Meta \in InDoubt \cap dmetas[Toggle] /\ Other.tree = tree

\* ... the disk has its pages as the map has.
DoubtOnDisk ==
  /\ pc = "meta" => \A x \in Pages : disk[x] = {map[x]}
  /\ Other.txnid > mti => \A x \in PagesOf(Other.tree) : disk[x] = {map[x]}

\* A crash finds the last commit, or the one before it if that was not kept.
Recoverable ==
  \A a \in dmetas[0], b \in dmetas[1] :
    LET m == Better(a, b)
    IN  /\ m.txnid + 1 >= mti /\ m.txnid + 1 >= kept
        /\ m.txnid <= mti => OnDiskAs(m, log[m.txnid + 1]) /\ Held(Committed, m.tree, m.txnid)

\* What a reader has copied, or is about to copy, is a commit since it began, or the
\* one in doubt.
Sees(r) ==
  \/ \E n \in floor[r] .. Len(log) : Contents(Seen(r)) = log[n]
  \/ Unsettled /\ Seen(r) = Other.tree

ReadersSee ==
  /\ \A r \in Readers : floor[r] = IF r \in Protected THEN slot[r] + 1 ELSE 0
  /\ \A r \in Protected : rpc[r] # "read" /\ ~fatal[Home[r]] => Sees(r)

RInv == Logged /\ OneDoubt /\ DoubtOnDisk /\ Recoverable /\ ReadersSee

-----------------------------------------------------------------------------
(***************************************************************************)
(* What the store sees                                                     *)
(***************************************************************************)
LEMMA ContentsType ==
  ASSUME map \in [Pages -> Nat], NEW t \in Trees
  PROVE  Contents(t) \in [Keys -> Nat]
BY DEF Contents, Trees

\* The commit in doubt, if there is one.
LEMMA DraftIs ==
  ASSUME Typed, OneDoubt
  PROVE  /\ InDoubt \subseteq Metas /\ \A m \in InDoubt : m.txnid = mti + 1
         /\ Draft \in [Keys -> Nat] \cup {NoDb} /\ (Draft = NoDb <=> InDoubt = {})
         /\ \A m \in InDoubt : Draft = Contents(m.tree)
<1>1. DataTypes /\ LockTypes /\ Bounded
  BY TypesAre DEF Typed
<1>2. (mti + 1) % 2 \in {0, 1} /\ mti \in Nat
  BY <1>1, Modulo DEF LockTypes
<1>3. ASSUME NEW m \in InDoubt PROVE m \in Metas /\ m.txnid = mti + 1
  <2>1. m \in dmetas[(mti + 1) % 2] \cup {metas[(mti + 1) % 2]} /\ m.txnid > mti
    BY DEF InDoubt
  <2>2. m \in Metas /\ m.txnid <= mti + 1
    BY <1>1, <1>2, <2>1 DEF DataTypes, Bounded, Sane
  <2> QED
    BY <1>2, <2>1, <2>2 DEF Metas
<1>4. ASSUME NEW m \in InDoubt PROVE Draft = Contents(m.tree) /\ Draft \in [Keys -> Nat]
  <2>1. (CHOOSE o \in InDoubt : TRUE) = m
    BY DEF OneDoubt
  <2>2. m.tree \in Trees
    BY <1>3 DEF Metas
  <2> QED
    BY <1>1, <2>1, <2>2, ContentsType DEF Draft, DataTypes
<1>5. InDoubt = {} => Draft = NoDb
  BY DEF Draft
<1> QED
  BY <1>3, <1>4, <1>5, StoreAssumption

\* Steps that change neither the data nor the log.
SameStore == UNCHANGED <<map, disk, metas, dmetas, mti, log, kept>>

LEMMA StoreStays ==
  ASSUME SameStore
  PROVE  /\ UNCHANGED <<Committed, Other, Latest, InDoubt, Draft>>
         /\ \A t : Contents(t)' = Contents(t)
         /\ Logged => Logged'
         /\ Recoverable => Recoverable'
<1>1. UNCHANGED <<map, disk, metas, dmetas, mti, log, kept>>
  BY DEF SameStore
<1>2. UNCHANGED <<Committed, Other, Latest, InDoubt>>
  BY <1>1 DEF Committed, Other, Latest, Better, InDoubt
<1>3. \A t : Contents(t)' = Contents(t)
  BY <1>1 DEF Contents
<1>4. Draft' = Draft
  BY <1>2, <1>3 DEF Draft
<1>5. Logged => Logged'
  BY <1>1, <1>2, <1>3 DEF Logged
<1>6. ASSUME Recoverable PROVE Recoverable'
  BY <1>1, <1>2, <1>6 DEF Recoverable, OnDiskAs, Held, PagesOf, Better
<1> QED
  BY <1>2, <1>3, <1>4, <1>5, <1>6

\* What the write transaction adds to it.
LEMMA DoubtStays ==
  ASSUME SameStore, OneDoubt, DoubtOnDisk,
         pc' \in {"publish", "restore", "panic"} => UNCHANGED <<pc, txnid, tree, free, nextpg>>,
         pc' = "meta" => pc = "meta"
  PROVE  OneDoubt' /\ DoubtOnDisk'
<1>1. UNCHANGED <<map, disk, metas, dmetas, mti, Committed, Other, InDoubt>>
  BY StoreStays DEF SameStore
<1>2. ASSUME NEW m \in InDoubt PROVE Held(m, Committed.tree, mti)'
  <2>1. Held(m, Committed.tree, mti)
    BY DEF OneDoubt
  <2> QED
    BY <1>1, <2>1 DEF Held, PagesOf
<1>3. LastIsKept => LastIsKept'
  BY <1>1 DEF LastIsKept, OnDiskAs, SameStore
<1>4. ASSUME pc' \in {"publish", "restore", "panic"}
      PROVE  (Meta \in InDoubt \cap dmetas[Toggle])' /\ Other'.tree = tree'
  <2>1. UNCHANGED <<Meta, Toggle, tree>> /\ pc \in {"publish", "restore", "panic"}
    BY <1>4 DEF Meta, Toggle
  <2> QED
    BY <1>1, <2>1 DEF OneDoubt
<1>5. OneDoubt'
  BY <1>1, <1>2, <1>3, <1>4 DEF OneDoubt
<1>6. DoubtOnDisk'
  BY <1>1 DEF DoubtOnDisk, PagesOf
<1> QED
  BY <1>5, <1>6

\* What a reader sees stays while the data does.
LEMMA SeesStays ==
  ASSUME SameStore, NEW r \in Readers, UNCHANGED <<floor[r], Seen(r)>>, Sees(r),
         Unsettled => Unsettled'
  PROVE  Sees(r)'
<1>1. UNCHANGED <<log, Other>> /\ Contents(Seen(r))' = Contents(Seen(r))
  BY StoreStays DEF SameStore, Contents
<1> QED
  BY <1>1 DEF Sees

\* A step of the store.
Implements == [Store!Next]_(Store!vars)

\* The views of readers that are not concerned.
LEMMA ViewStays ==
  ASSUME UNCHANGED map,
         \A r \in Readers : rpc'[r] = "read" <=> rpc[r] = "read",
         \A r \in Readers : rpc[r] = "read" => UNCHANGED rtree[r]
  PROVE  UNCHANGED View
<1>1. ASSUME NEW r \in Readers
      PROVE  (IF rpc[r] = "read" THEN Contents(rtree[r]) ELSE NoDb)'
               = IF rpc[r] = "read" THEN Contents(rtree[r]) ELSE NoDb
  <2>1. CASE rpc[r] = "read"
    BY <2>1 DEF Contents
  <2>2. CASE rpc[r] # "read"
    BY <2>2
  <2> QED
    BY <2>1, <2>2
<1> QED
  BY <1>1 DEF View

\* Nothing happens to the store.
LEMMA NothingHappens ==
  ASSUME SameStore, UNCHANGED floor,
         \A r \in Readers : rpc'[r] = "read" <=> rpc[r] = "read",
         \A r \in Readers : rpc[r] = "read" => UNCHANGED rtree[r]
  PROVE  Implements
<1>1. UNCHANGED <<log, kept, Draft, floor, View>>
  BY StoreStays, ViewStays DEF SameStore
<1> QED
  BY <1>1 DEF Implements, Store!vars

\* Readers that are done.
LEMMA ReadsEnd ==
  ASSUME SameStore, NEW R \in SUBSET Readers, NoReads(R)
  PROVE  Implements
<1>1. UNCHANGED <<log, kept, Draft>> /\ \A t : Contents(t)' = Contents(t)
  BY StoreStays DEF SameStore
<1>2. /\ floor' = [r \in Readers |-> IF r \in R THEN 0 ELSE floor[r]]
      /\ rpc' = [r \in Readers |-> IF r \in R THEN "idle" ELSE rpc[r]]
      /\ rtree' = [r \in Readers |-> IF r \in R THEN NewMeta.tree ELSE rtree[r]]
  BY DEF NoReads
<1>3. View' = [r \in Readers |-> IF r \in R THEN NoDb ELSE View[r]]
  <2>1. ASSUME NEW r \in Readers
        PROVE  (IF rpc[r] = "read" THEN Contents(rtree[r]) ELSE NoDb)'
                 = IF r \in R THEN NoDb ELSE View[r]
    <3>1. CASE r \in R
      BY <1>2, <3>1
    <3>2. CASE r \notin R
      <4>1. rpc'[r] = rpc[r] /\ rtree'[r] = rtree[r]
        BY <1>2, <3>2
      <4>2. Contents(rtree[r])' = Contents(rtree[r])
        BY <4>1 DEF Contents, SameStore
      <4> QED
        BY <3>2, <4>1, <4>2 DEF View
    <3> QED
      BY <3>1, <3>2
  <2> QED
    BY <2>1 DEF View
<1>4. Store!Finish(R)
  BY <1>1, <1>2, <1>3 DEF Store!Finish, Store!EndAll
<1> QED
  BY <1>4 DEF Implements, Store!Next

-----------------------------------------------------------------------------
(***************************************************************************)
(* Readers                                                                 *)
(***************************************************************************)
LEMMA ReadImplements ==
  ASSUME Inv, RInv, NEW r \in Readers, Read(r)
  PROVE  RInv' /\ Implements
<1> USE DEF ReadOnly, dataVars, procVars, txnVars, treeVars, scanVars
<1>0. /\ Typed /\ DataTypes /\ LockTypes /\ ReadTypes /\ HistTypes /\ Bounded
      /\ OneDoubt /\ ReadersSee /\ Logged
  BY TypesAre DEF Inv, Typed, RInv
<1>1. /\ SameStore /\ UNCHANGED <<pc, txnid, tree, free, nextpg, fatal>>
      /\ \A q \in Readers \ {r} : UNCHANGED <<rpc[q], slot[q], rtree[q], floor[q]>>
  BY <1>0 DEF Read, Load, Announce, Check, Copy, Last, Finish, EndRead, NoReads, Goto, ReadTypes,
     SameStore
<1>2. /\ UNCHANGED <<Committed, Other, Draft, Unsettled, metas, mti, log>>
      /\ Logged' /\ OneDoubt' /\ DoubtOnDisk' /\ Recoverable'
  BY <1>1, StoreStays, DoubtStays DEF RInv, SameStore, Unsettled
<1> DEFINE Sound == floor[r] = IF r \in Protected THEN slot[r] + 1 ELSE 0
           Seeing == r \in Protected /\ rpc[r] # "read" /\ ~fatal[Home[r]] => Sees(r)
<1>3. Sound /\ Seeing
  BY <1>0 DEF ReadersSee
<1>4. ASSUME Sound', Seeing' PROVE RInv'
  <2>1. ASSUME NEW q \in Readers \ {r}
        PROVE  /\ floor'[q] = IF q \in Protected' THEN slot'[q] + 1 ELSE 0
               /\ q \in Protected' /\ rpc'[q] # "read" /\ ~fatal'[Home[q]] => Sees(q)'
    <3>1. UNCHANGED <<rpc[q], slot[q], rtree[q], floor[q]>> /\ UNCHANGED fatal
      BY <1>1
    <3>2. (q \in Protected' <=> q \in Protected) /\ UNCHANGED Seen(q)
      BY <1>2, <3>1 DEF Protected, Seen
    <3>3. floor'[q] = IF q \in Protected' THEN slot'[q] + 1 ELSE 0
      BY <1>0, <3>1, <3>2 DEF ReadersSee
    <3>4. ASSUME q \in Protected', rpc'[q] # "read", ~fatal'[Home[q]] PROVE Sees(q)'
      <4>1. Sees(q)
        BY <1>0, <3>1, <3>2, <3>4 DEF ReadersSee
      <4> QED
        BY <1>1, <1>2, <3>1, <3>2, <4>1, SeesStays
    <3> QED
      BY <3>3, <3>4
  <2>2. ReadersSee'
    BY <1>4, <2>1 DEF ReadersSee, Protected
  <2> QED
    BY <1>2, <2>2 DEF RInv
<1> HIDE DEF Sound, Seeing
<1>5. CASE Load(r) \/ Announce(r)
  <2>1. /\ r \notin Protected /\ r \notin Protected' /\ UNCHANGED floor
        /\ rpc[r] # "read" /\ rpc'[r] # "read"
    BY <1>0, <1>5 DEF Load, Announce, Goto, Protected, ReadTypes
  <2>2. Sound' /\ Seeing'
    BY <1>3, <2>1 DEF Sound, Seeing
  <2>3. Implements
    BY <1>1, <2>1, NothingHappens
  <2> QED
    BY <1>4, <2>2, <2>3
<1>6. CASE Check(r)
  <2>1. /\ rpc[r] = "check" /\ r \notin Protected /\ UNCHANGED <<slot, rtree>>
    BY <1>6 DEF Check, Protected
  <2>2. CASE Agrees(r)
    <3>1. rpc'[r] = "copy" /\ floor' = [floor EXCEPT ![r] = Len(log)] /\ slot[r] = mti
      BY <1>0, <1>6, <2>2 DEF Check, Agrees, Goto, ReadTypes
    <3>2. Len(log) = mti + 1 /\ mti \in Nat /\ floor'[r] = mti + 1
      BY <1>0, <3>1 DEF Bounded, LockTypes, ReadTypes
    <3>3. r \in Protected' /\ Seen(r)' = Committed.tree
      BY <1>2, <2>1, <3>1 DEF Protected, Seen, Committed
    <3>4. Contents(Seen(r))' = log[mti + 1]
      BY <1>0, <1>1, <3>3 DEF Contents, SameStore, Logged
    <3>5. Sees(r)'
      BY <1>2, <3>2, <3>4 DEF Sees
    <3>6. Sound' /\ Seeing'
      BY <2>1, <3>1, <3>2, <3>3, <3>5 DEF Sound, Seeing
    <3>7. \A q \in Readers : (rpc'[q] = "read" <=> rpc[q] = "read") /\ UNCHANGED rtree[q]
      BY <1>1, <2>1, <3>1
    <3>8. UNCHANGED View
      BY <1>1, <3>7, ViewStays DEF SameStore
    <3>9. floor[r] = 0
      BY <1>3, <2>1 DEF Sound
    <3>10. Store!Call(r)
      BY <1>1, <1>2, <3>1, <3>8, <3>9 DEF Store!Call, SameStore
    <3> QED
      BY <1>4, <3>6, <3>10 DEF Implements, Store!Next
  <2>3. CASE ~Agrees(r)
    <3>1. rpc'[r] = "load" /\ UNCHANGED floor
      BY <1>0, <1>6, <2>3 DEF Check, Goto, ReadTypes
    <3>2. r \notin Protected'
      BY <3>1 DEF Protected
    <3>3. Sound' /\ Seeing'
      BY <1>3, <2>1, <3>1, <3>2 DEF Sound, Seeing
    <3>4. Implements
      BY <1>1, <2>1, <3>1, NothingHappens
    <3> QED
      BY <1>4, <3>3, <3>4
  <2> QED
    BY <2>2, <2>3
<1>7. CASE Copy(r)
  <2>1. /\ rpc[r] = "copy" /\ rpc'[r] = "last" /\ rtree'[r] = metas[slot[r] % 2].tree
        /\ UNCHANGED <<slot, floor>>
    BY <1>0, <1>7 DEF Copy, Goto, ReadTypes
  <2>2. r \in Protected /\ r \in Protected' /\ UNCHANGED Seen(r)
    BY <2>1 DEF Protected, Seen
  <2>3. Sound' /\ Seeing'
    BY <1>1, <1>2, <1>3, <2>1, <2>2, SeesStays DEF Sound, Seeing
  <2>4. Implements
    BY <1>1, <2>1, NothingHappens
  <2> QED
    BY <1>4, <2>3, <2>4
<1>8. CASE EndRead(r)
  <2>1. NoReads({r})
    BY <1>8 DEF EndRead
  <2>2. rpc'[r] = "idle" /\ floor'[r] = 0
    BY <2>1 DEF NoReads
  <2>3. r \notin Protected'
    BY <2>2 DEF Protected
  <2>4. Sound' /\ Seeing'
    BY <2>2, <2>3 DEF Sound, Seeing
  <2> QED
    BY <1>1, <1>4, <2>1, <2>4, ReadsEnd
<1>9. CASE Last(r) /\ ~EndRead(r)
  <2>1. /\ rpc[r] = "last" /\ rpc' = [rpc EXCEPT ![r] = "read"] /\ ~fatal[Home[r]]
        /\ UNCHANGED <<slot, floor, rtree>>
    BY <1>9 DEF Last, Goto
  <2>2. rpc'[r] = "read" /\ \A q \in Readers \ {r} : rpc'[q] = rpc[q]
    BY <1>0, <2>1 DEF ReadTypes
  <2>3. r \in Protected /\ r \in Protected' /\ Seen(r) = rtree[r]
    BY <2>1, <2>2 DEF Protected, Seen
  <2>4. Sound' /\ Seeing'
    BY <1>3, <2>1, <2>2, <2>3 DEF Sound, Seeing
  <2>5. Sees(r) /\ floor[r] = slot[r] + 1 /\ slot[r] \in Nat
    BY <1>3, <2>1, <2>3 DEF Sound, Seeing, Inv, ReadersHold, Protects
  <2> DEFINE db == Contents(rtree[r])
  <2>6. db \in {log[n] : n \in floor[r] .. Len(log)} \cup ({Draft} \ {NoDb})
    <3>1. CASE \E n \in floor[r] .. Len(log) : db = log[n]
      BY <3>1
    <3>2. CASE Unsettled /\ rtree[r] = Other.tree
      <4>1. PICK m \in InDoubt : m.tree = Other.tree
        <5>1. CASE pc = "panic"
          BY <5>1, <1>0 DEF OneDoubt, Meta
        <5>2. CASE Other.txnid > mti
          BY <5>2 DEF InDoubt, Other
        <5> QED
          BY <3>2, <5>1, <5>2 DEF Unsettled
      <4>2. Draft = db /\ Draft # NoDb
        BY <1>0, <3>2, <4>1, DraftIs
      <4> QED
        BY <4>2
    <3> QED
      BY <2>3, <2>5, <3>1, <3>2 DEF Sees
  <2>7. View[r] = NoDb
    BY <2>1 DEF View
  <2>8. View' = [View EXCEPT ![r] = db]
    <3>1. ASSUME NEW q \in Readers
          PROVE  (IF rpc[q] = "read" THEN Contents(rtree[q]) ELSE NoDb)'
                   = IF q = r THEN db ELSE View[q]
      <4>1. Contents(rtree[q])' = Contents(rtree[q])
        BY <1>1, <2>1 DEF Contents, SameStore
      <4> HIDE DEF db
      <4>2. CASE q = r
        BY <2>2, <4>1, <4>2 DEF db
      <4>3. CASE q # r
        BY <2>2, <4>1, <4>3 DEF View
      <4> QED
        BY <4>2, <4>3
    <3> HIDE DEF db
    <3> QED
      BY <3>1 DEF View
  <2> HIDE DEF db
  <2>9. Store!Return(r)
    <3>1. floor[r] # 0 /\ UNCHANGED <<log, kept, Draft, floor>>
      BY <1>1, <1>2, <2>1, <2>5 DEF SameStore
    <3>2. \E d \in {log[n] : n \in floor[r] .. Len(log)} \cup ({Draft} \ {NoDb}) :
            View' = [View EXCEPT ![r] = d]
      BY <2>6, <2>8
    <3> QED
      BY ONLY <2>7, <3>1, <3>2 DEF Store!Return
  <2> QED
    BY <1>4, <2>4, <2>9 DEF Implements, Store!Next
<1> QED
  BY <1>5, <1>6, <1>7, <1>8, <1>9 DEF Read, Finish

-----------------------------------------------------------------------------
(***************************************************************************)
(* Steps that the store does not notice                                    *)
(***************************************************************************)
LEMMA UnseenImplements ==
  ASSUME Inv, RInv, SameStore, UNCHANGED <<rpc, rtree, floor>>,
         \A r \in Readers : rpc[r] # "idle" => UNCHANGED slot[r],
         \A r \in Readers : rpc[r] # "idle" /\ ~fatal'[Home[r]] =>
           ~fatal[Home[r]] /\ (Unsettled => Unsettled'),
         pc' \in {"publish", "restore", "panic"} => UNCHANGED <<pc, txnid, tree, free, nextpg>>,
         pc' = "meta" => pc = "meta"
  PROVE  RInv' /\ Implements
<1>1. /\ UNCHANGED <<metas, mti, log>>
      /\ Logged' /\ OneDoubt' /\ DoubtOnDisk' /\ Recoverable'
  BY StoreStays, DoubtStays DEF RInv, SameStore
<1>2. ASSUME NEW r \in Readers
      PROVE  /\ floor'[r] = IF r \in Protected' THEN slot'[r] + 1 ELSE 0
             /\ r \in Protected' /\ rpc'[r] # "read" /\ ~fatal'[Home[r]] => Sees(r)'
  <2>1. /\ floor[r] = IF r \in Protected THEN slot[r] + 1 ELSE 0
        /\ r \in Protected' <=> r \in Protected
    BY DEF RInv, ReadersSee, Protected
  <2>2. r \in Protected => UNCHANGED <<slot[r], Seen(r)>>
    BY <1>1 DEF Protected, Seen
  <2>3. ASSUME r \in Protected', rpc'[r] # "read", ~fatal'[Home[r]] PROVE Sees(r)'
    <3>1. rpc[r] # "idle" /\ ~fatal[Home[r]] /\ (Unsettled => Unsettled')
      BY <2>1, <2>3 DEF Protected
    <3>2. Sees(r)
      BY <2>1, <2>3, <3>1 DEF RInv, ReadersSee
    <3> QED
      BY <2>1, <2>2, <2>3, <3>1, <3>2, SeesStays
  <2> QED
    BY <2>1, <2>2, <2>3
<1>3. ReadersSee'
  BY <1>2 DEF ReadersSee, Protected
<1>4. Implements
  BY NothingHappens
<1> QED
  BY <1>1, <1>3, <1>4 DEF RInv

\* A write transaction at work on its own pages, or at its end.
LEMMA PrivateImplements ==
  ASSUME Inv, RInv, Quiet \/ SyncFails \/ Abort
  PROVE  RInv' /\ Implements
<1>1. /\ SameStore /\ UNCHANGED <<rpc, rtree, floor, slot, fatal>>
      /\ pc # "panic" /\ pc' \in Making \cup {"failed", "idle"}
  <2>1. CASE Quiet
    <3>1. pc \in Making /\ pc' \in Making \cup {"failed"}
      BY <2>1, QuietLeaves DEF Inv
    <3>2. SameStore /\ UNCHANGED <<rpc, rtree, floor, slot, fatal>>
      BY <2>1 DEF Quiet, Touch, Drop, FromLoose, FromHead, FromRecord, Extend, Full, FindOldest,
         Scan, Place, Found, Private, WriteOnly, dataVars, procVars, readerVars, SameStore
    <3> QED
      BY <3>1, <3>2 DEF Making
  <2>2. CASE SyncFails
    BY <2>2 DEF SyncFails, CommitOnly, WriteOnly, dataVars, procVars, readerVars, SameStore
  <2>3. CASE Abort
    BY <2>3 DEF Abort, EndWrite, NoTxn, WriteOnly, dataVars, procVars, readerVars, SameStore
  <2> QED
    BY <2>1, <2>2, <2>3
<1>2. Unsettled => Unsettled'
  BY <1>1, StoreStays DEF Unsettled, SameStore
<1> QED
  BY <1>1, <1>2, UnseenImplements DEF Making

\* A process that finds out that a meta page was not written: its readers begin no
\* transaction any more.
LEMMA PanicImplements ==
  ASSUME Inv, RInv, Panic
  PROVE  RInv' /\ Implements
<1>1. /\ SameStore /\ UNCHANGED <<rpc, rtree, floor, slot>> /\ pc = "panic" /\ pc' = "idle"
      /\ fatal' = [fatal EXCEPT ![owner] = TRUE]
  BY DEF Panic, EndWrite, NoTxn, dataVars, readerVars, SameStore
<1>2. /\ LockTypes /\ Control /\ ReadersHold /\ owner \in Procs /\ alive[owner]
  BY <1>1, TypesAre DEF Inv, Typed, Holding
<1>3. ASSUME NEW r \in Readers, rpc[r] # "idle" PROVE fatal'[Home[r]]
  <2>1. alive[Home[r]] /\ Home[r] \in Procs
    BY <1>2, <1>3, HomeAssumption DEF ReadersHold
  <2>2. Home[r] = owner
    BY <1>1, <1>2, <2>1 DEF Control, MetaFailed
  <2> QED
    BY <1>1, <1>2, <2>2 DEF LockTypes
<1> QED
  BY <1>1, <1>3, UnseenImplements

\* A process that joins others; slots that are cleared.
LEMMA JoinImplements ==
  ASSUME Inv, RInv, ReaderCheck \/ \E p \in Procs : Open(p)
  PROVE  RInv' /\ Implements
<1>1. /\ SameStore /\ UNCHANGED <<rpc, rtree, floor, pc, txnid, tree, free, nextpg>>
  BY DEF ReaderCheck, Open, dataVars, txnVars, treeVars, readerVars, histVars, SameStore
<1>2. Unsettled => Unsettled'
  BY <1>1, StoreStays DEF Unsettled, SameStore
<1>3. ASSUME NEW r \in Readers, rpc[r] # "idle" PROVE UNCHANGED <<slot[r], fatal[Home[r]]>>
  <2>1. CASE ReaderCheck
    BY <1>3, <2>1 DEF ReaderCheck, Checked, procVars
  <2>2. ASSUME NEW p \in Procs, Open(p) PROVE UNCHANGED <<slot[r], fatal[Home[r]]>>
    <3>1. alive[Home[r]] /\ ~alive[p]
      BY <1>3, <2>2 DEF Inv, ReadersHold, Open
    <3>2. fatal' = [fatal EXCEPT ![p] = FALSE] /\ UNCHANGED slot /\ fatal \in [Procs -> BOOLEAN]
      BY <2>2, TypesAre DEF Open, Inv, Typed, LockTypes
    <3> QED
      BY <3>1, <3>2, HomeAssumption
  <2> QED
    BY <2>1, <2>2
<1> QED
  BY <1>1, <1>2, <1>3, UnseenImplements

\* A process is killed.
LEMMA KillImplements ==
  ASSUME Inv, RInv, NEW p \in Procs, Kill(p)
  PROVE  RInv' /\ Implements
<1> DEFINE Gone == {r \in Readers : Home[r] = p}
<1>1. /\ SameStore /\ UNCHANGED <<fatal, slot>> /\ NoReads(Gone) /\ alive[p]
      /\ IF owner = p THEN NoTxn ELSE UNCHANGED <<pc, txnid, tree, free, nextpg>>
  BY DEF Kill, dataVars, txnVars, treeVars, SameStore
<1>2. ReadTypes /\ Control /\ ReadersHold /\ ReadersSee
  BY TypesAre DEF Inv, Typed, RInv
<1>3. /\ UNCHANGED <<metas, mti, log, Other>>
      /\ Logged' /\ OneDoubt' /\ DoubtOnDisk' /\ Recoverable'
  BY <1>1, StoreStays, DoubtStays DEF RInv, SameStore, NoTxn
<1>4. ASSUME NEW r \in Readers
      PROVE  /\ floor'[r] = IF r \in Protected' THEN slot'[r] + 1 ELSE 0
             /\ r \in Protected' /\ rpc'[r] # "read" /\ ~fatal'[Home[r]] => Sees(r)'
  <2>1. CASE r \in Gone
    <3>1. rpc'[r] = "idle" /\ floor'[r] = 0
      BY <1>1, <2>1 DEF NoReads
    <3> QED
      BY <3>1 DEF Protected
  <2>2. CASE r \notin Gone
    <3>1. UNCHANGED <<rpc[r], floor[r], rtree[r], slot[r], fatal[Home[r]]>>
      BY <1>1, <2>2 DEF NoReads
    <3>2. (r \in Protected' <=> r \in Protected) /\ UNCHANGED Seen(r)
      BY <1>3, <3>1 DEF Protected, Seen
    <3>3. floor'[r] = IF r \in Protected' THEN slot'[r] + 1 ELSE 0
      BY <1>2, <3>1, <3>2 DEF ReadersSee
    <3>4. ASSUME r \in Protected', rpc'[r] # "read", ~fatal'[Home[r]] PROVE Sees(r)'
      <4>1. Sees(r)
        BY <1>2, <3>1, <3>2, <3>4 DEF ReadersSee
      <4>2. ASSUME pc = "panic" PROVE pc' = "panic"
        <5>1. alive[Home[r]] /\ Home[r] \in Procs /\ Home[r] # p
          BY <1>2, <2>2, <3>2, <3>4, HomeAssumption DEF ReadersHold, Protected
        <5>2. FALSE
          BY <1>1, <1>2, <4>2, <5>1 DEF Control, MetaFailed
        <5> QED
          BY <5>2
      <4>3. Unsettled => Unsettled'
        BY <1>3, <4>2 DEF Unsettled
      <4> QED
        BY <1>1, <3>1, <3>2, <4>1, <4>3, SeesStays
    <3> QED
      BY <3>3, <3>4
  <2> QED
    BY <2>1, <2>2
<1>5. ReadersSee'
  BY <1>4 DEF ReadersSee, Protected
<1>6. Implements
  BY <1>1, ReadsEnd
<1> QED
  BY <1>3, <1>5, <1>6 DEF RInv

-----------------------------------------------------------------------------
(***************************************************************************)
(* What a crash finds in the meta pages                                    *)
(***************************************************************************)
\* It is the commit in doubt, or an older one; if no more than the last commit is in
\* its meta page it is not older.
LEMMA FoundIs ==
  ASSUME Typed, NEW a \in dmetas[0], NEW b \in dmetas[1]
  PROVE  LET m == Better(a, b)
         IN  /\ m \in Metas /\ m \in {a, b} /\ m.txnid \in Nat /\ m.txnid <= mti + 1
             /\ m.txnid > mti => m \in InDoubt
             /\ dmetas[mti % 2] = {Committed} =>
                  m.txnid >= mti /\ (m.txnid <= mti => m = Committed)
<1> DEFINE m == Better(a, b)
<1>1. DataTypes /\ LockTypes /\ Bounded
  BY TypesAre DEF Typed
<1>2. /\ a \in Metas /\ b \in Metas /\ Sane(0, a) /\ Sane(1, b)
      /\ a.txnid \in Nat /\ b.txnid \in Nat /\ mti \in Nat
  BY <1>1 DEF DataTypes, Bounded, Metas, LockTypes
<1>3. /\ m \in {a, b} /\ m \in Metas /\ m.txnid \in Nat /\ m.txnid <= mti + 1
      /\ m.txnid >= a.txnid /\ m.txnid >= b.txnid
  BY <1>2 DEF Better, Sane
<1>4. ASSUME m.txnid > mti PROVE m \in InDoubt
  <2>1. m.txnid = mti + 1 /\ m.txnid # 0
    BY <1>2, <1>3, <1>4
  <2>2. CASE m = a
    <3>1. (mti + 1) % 2 = 0
      BY <1>2, <2>1, <2>2 DEF Sane, Parity
    <3> QED
      BY <1>4, <2>2, <3>1 DEF InDoubt
  <2>3. CASE m = b
    <3>1. (mti + 1) % 2 = 1
      BY <1>2, <2>1, <2>3 DEF Sane, Parity
    <3> QED
      BY <1>4, <2>3, <3>1 DEF InDoubt
  <2> QED
    BY <1>3, <2>2, <2>3
<1>5. ASSUME dmetas[mti % 2] = {Committed}
      PROVE  m.txnid >= mti /\ (m.txnid <= mti => m = Committed)
  <2>1. Committed.txnid = mti
    BY <1>1 DEF Bounded, Committed
  <2>2. CASE mti % 2 = 0
    <3>1. a = Committed
      BY <1>5, <2>2
    <3>2. m.txnid <= mti => m = a
      BY <1>2, <1>3, <2>1, <2>2, <3>1 DEF Better, Sane, Parity
    <3> QED
      BY <1>3, <2>1, <3>1, <3>2
  <2>3. CASE mti % 2 = 1
    <3>1. b = Committed
      BY <1>5, <2>3
    <3>2. ASSUME m.txnid <= mti, m = a PROVE FALSE
      <4>1. a.txnid = mti
        BY <1>2, <1>3, <2>1, <3>1, <3>2
      <4>2. mti # 0
        BY <2>3
      <4>3. a.txnid % 2 = 0
        BY <1>2, <4>1, <4>2 DEF Sane, Parity
      <4> QED
        BY <2>3, <4>1, <4>3
    <3> QED
      BY <1>3, <2>1, <3>1, <3>2
  <2> QED
    BY <1>2, <2>2, <2>3, Modulo
<1> QED
  BY <1>3, <1>4, <1>5

\* While the last commit is on the disk a crash finds no less.
LEMMA DoubtRecovers ==
  ASSUME Typed, LastIsKept
  PROVE  Recoverable
<1>1. mti \in Nat /\ kept \in Nat
  BY TypesAre DEF Typed, LockTypes, HistTypes
<1>2. ASSUME NEW a \in dmetas[0], NEW b \in dmetas[1], NEW m, m = Better(a, b)
      PROVE  /\ m.txnid + 1 >= mti /\ m.txnid + 1 >= kept
             /\ m.txnid <= mti =>
                  OnDiskAs(m, log[m.txnid + 1]) /\ Held(Committed, m.tree, m.txnid)
  <2>1. m.txnid \in Nat /\ m.txnid >= mti /\ (m.txnid <= mti => m = Committed)
    BY <1>2, FoundIs DEF LastIsKept
  <2>2. m.txnid + 1 >= mti /\ m.txnid + 1 >= kept
    BY <1>1, <2>1 DEF LastIsKept
  <2>3. ASSUME m.txnid <= mti
        PROVE  OnDiskAs(m, log[m.txnid + 1]) /\ Held(Committed, m.tree, m.txnid)
    <3>1. m = Committed /\ m.txnid = mti
      BY <1>1, <2>1, <2>3
    <3> QED
      BY <3>1 DEF LastIsKept, Held
  <2> QED
    BY <2>2, <2>3
<1> QED
  BY <1>2 DEF Recoverable

LEMMA DoubtRecoversNext == (Typed /\ LastIsKept => Recoverable)'
<1>1. Typed /\ LastIsKept => Recoverable
  BY DoubtRecovers
<1> QED
  BY <1>1, PTL

\* What the disk has under a meta page, if nothing was written over it.
LEMMA OnDiskIs ==
  ASSUME NEW m \in Metas, \A x \in PagesOf(m.tree) : disk[x] = {map[x]}
  PROVE  OnDiskAs(m, Contents(m.tree))
BY DEF OnDiskAs, Contents, PagesOf

-----------------------------------------------------------------------------
(***************************************************************************)
(* The commit in doubt is made                                             *)
(***************************************************************************)
LEMMA AdvanceImplements ==
  ASSUME Inv, RInv, Inv', UNCHANGED <<map, disk, metas, dmetas>>,
         Other.txnid = mti + 1, mti' = mti + 1, log' = Append(log, Contents(Other.tree)),
         kept' = kept \/ (kept' = Len(log') /\ dmetas[(mti + 1) % 2] = {Other}),
         \A r \in Readers : rpc[r] # "idle" =>
           UNCHANGED <<rpc[r], slot[r], rtree[r], fatal[Home[r]]>>,
         \A r \in Readers : rpc[r] = "idle" => rpc'[r] = "idle", UNCHANGED floor,
         pc' \notin {"meta", "publish", "restore", "panic"}
  PROVE  RInv' /\ Implements
<1>1. /\ Typed /\ DataTypes /\ LockTypes /\ ReadTypes /\ HistTypes /\ Bounded /\ Typed' /\ Bounded'
      /\ Logged /\ OneDoubt /\ DoubtOnDisk /\ Recoverable /\ ReadersSee
  BY TypesAre DEF Inv, Typed, RInv
<1>2. /\ mti \in Nat /\ mti % 2 \in {0, 1} /\ (mti + 1) % 2 \in {0, 1}
      /\ mti % 2 # (mti + 1) % 2 /\ (mti' + 1) % 2 = mti % 2
      /\ Committed \in Metas /\ Other \in Metas /\ Committed.txnid = mti
  BY <1>1, TwoMetas
<1>3. Committed' = Other /\ Other' = Committed
  BY <1>2 DEF Committed, Other
<1>4. Other \in InDoubt /\ \A m \in InDoubt : m = Other
  BY <1>1, <1>2 DEF InDoubt, Other, OneDoubt
<1>5. LastIsKept /\ Held(Other, Committed.tree, mti)
  BY <1>1, <1>4 DEF OneDoubt
<1>6. InDoubt' = {}
  <2>1. ASSUME NEW m \in InDoubt' PROVE FALSE
    <3>1. m \in dmetas[mti % 2] \cup {Committed} /\ m.txnid > mti + 1
      BY <1>2, <1>3, <2>1 DEF InDoubt, Other
    <3> QED
      BY <1>2, <1>5, <3>1 DEF LastIsKept
  <2> QED
    BY <2>1
<1>7. /\ Len(log) = mti + 1 /\ Len(log') = mti + 2 /\ \A n \in 1 .. Len(log) : log'[n] = log[n]
      /\ log'[mti + 2] = Contents(Other.tree) /\ \A t : Contents(t)' = Contents(t)
  BY <1>1, <1>2 DEF Bounded, HistTypes, Contents
<1>8. Logged'
  BY <1>2, <1>3, <1>7 DEF Logged
<1>9. OneDoubt' /\ DoubtOnDisk'
  BY <1>2, <1>3, <1>6 DEF OneDoubt, DoubtOnDisk
<1>10. Recoverable'
  <2>1. ASSUME NEW a \in dmetas[0], NEW b \in dmetas[1], NEW m, m = Better(a, b)
        PROVE  /\ m.txnid + 1 >= mti' /\ m.txnid + 1 >= kept' /\ m.txnid <= mti'
               /\ OnDiskAs(m, log'[m.txnid + 1]) /\ Held(Other, m.tree, m.txnid)
    <3>1. /\ m.txnid \in Nat /\ m.txnid <= mti + 1 /\ m.txnid >= mti /\ m \in {a, b}
          /\ m.txnid <= mti => m = Committed
          /\ m.txnid > mti => m = Other
      BY <1>1, <1>4, <1>5, <2>1, FoundIs DEF LastIsKept
    <3>2. m.txnid + 1 >= kept'
      <4>1. CASE kept' = kept
        BY <1>1, <2>1, <4>1 DEF Recoverable
      <4>2. CASE kept' = Len(log') /\ dmetas[(mti + 1) % 2] = {Other}
        <5>1. a = Other \/ b = Other
          BY <1>2, <4>2
        <5>2. a.txnid \in Nat /\ b.txnid \in Nat
          BY <1>1 DEF DataTypes, Metas
        <5>3. m.txnid >= mti + 1
          BY <1>2, <2>1, <5>1, <5>2 DEF Better
        <5> QED
          BY <1>2, <1>7, <3>1, <4>2, <5>3
      <4> QED
        BY <4>1, <4>2
    <3>3. CASE m.txnid <= mti
      <4>1. m = Committed /\ m.txnid = mti
        BY <1>2, <3>1, <3>3
      <4>2. log'[m.txnid + 1] = log[mti + 1]
        BY <1>2, <1>7, <4>1
      <4>3. OnDiskAs(m, log'[m.txnid + 1]) /\ Held(Other, m.tree, m.txnid)
        BY <1>5, <4>1, <4>2 DEF LastIsKept
      <4> QED
        BY <1>2, <3>1, <3>2, <4>3
    <3>4. CASE m.txnid > mti
      <4>1. m = Other /\ m.txnid = mti + 1
        BY <1>2, <3>1, <3>4
      <4>2. OnDiskAs(Other, Contents(Other.tree))
        BY <1>1, <1>2, OnDiskIs DEF DoubtOnDisk
      <4>3. m.txnid + 1 = mti + 2
        BY <1>2, <4>1
      <4>4. log'[m.txnid + 1] = Contents(Other.tree)
        BY <1>7, <4>3
      <4>5. OnDiskAs(m, log'[m.txnid + 1]) /\ Held(Other, m.tree, m.txnid)
        BY <4>1, <4>2, <4>4 DEF Held
      <4> QED
        BY <1>2, <3>1, <3>2, <4>5
    <3>5. m.txnid <= mti \/ m.txnid > mti
      BY <1>2, <3>1
    <3> QED
      BY ONLY <3>3, <3>4, <3>5
  <2>2. \A a \in dmetas'[0], b \in dmetas'[1] :
          LET m == Better(a, b)'
          IN  /\ m.txnid + 1 >= mti' /\ m.txnid + 1 >= kept' /\ m.txnid <= mti'
              /\ OnDiskAs(m, log'[m.txnid + 1]) /\ Held(Other, m.tree, m.txnid)
    BY <2>1 DEF Better
  <2>3. ASSUME NEW m
        PROVE  /\ OnDiskAs(m, log'[m.txnid + 1]) => OnDiskAs(m, log[m.txnid + 1])'
               /\ Held(Other, m.tree, m.txnid) => Held(Committed, m.tree, m.txnid)'
    BY <1>3 DEF OnDiskAs, Held, PagesOf
  <2> QED
    BY ONLY <2>2, <2>3 DEF Recoverable, Better
<1>11. ReadersSee'
  <2>1. ASSUME NEW r \in Readers
        PROVE  /\ floor'[r] = IF r \in Protected' THEN slot'[r] + 1 ELSE 0
               /\ r \in Protected' /\ rpc'[r] # "read" /\ ~fatal'[Home[r]] => Sees(r)'
    <3>1. /\ r \in Protected' <=> r \in Protected
          /\ r \in Protected => UNCHANGED <<rpc[r], slot[r], Seen(r), fatal[Home[r]]>>
      BY DEF Protected, Seen
    <3>2. floor[r] = IF r \in Protected THEN slot[r] + 1 ELSE 0
      BY <1>1 DEF ReadersSee
    <3>3. ASSUME r \in Protected, rpc[r] # "read", ~fatal[Home[r]] PROVE Sees(r)'
      <4>1. slot[r] \in Nat /\ slot[r] <= mti /\ floor[r] = slot[r] + 1
        BY <3>2, <3>3 DEF Inv, ReadersHold, Protects
      <4>2. CASE \E n \in floor[r] .. Len(log) : Contents(Seen(r)) = log[n]
        <5>1. PICK n \in floor[r] .. Len(log) : Contents(Seen(r)) = log[n]
          BY <4>2
        <5>2. n \in 1 .. Len(log) /\ n \in floor[r] .. Len(log')
          BY <1>2, <1>7, <4>1, <5>1
        <5>3. Contents(Seen(r))' = log'[n]
          BY <1>7, <3>1, <3>3, <5>1, <5>2 DEF Contents
        <5> QED
          BY <5>2, <5>3 DEF Sees
      <4>3. CASE Seen(r) = Other.tree
        <5>1. mti + 2 \in floor[r] .. Len(log')
          BY <1>2, <1>7, <4>1
        <5>2. Contents(Seen(r))' = log'[mti + 2]
          BY <1>7, <3>1, <3>3, <4>3 DEF Contents
        <5> QED
          BY <5>1, <5>2 DEF Sees
      <4>4. Sees(r)
        BY <1>1, <3>3 DEF ReadersSee
      <4> QED
        BY <4>2, <4>3, <4>4 DEF Sees
    <3> QED
      BY <3>1, <3>2, <3>3
  <2> QED
    BY <2>1 DEF ReadersSee, Protected
<1>12. Implements
  <2>1. \A r \in Readers :
          (rpc'[r] = "read" <=> rpc[r] = "read") /\ (rpc[r] = "read" => UNCHANGED rtree[r])
    OBVIOUS
  <2>2. UNCHANGED View
    BY <2>1, ViewStays
  <2>3. Draft = Contents(Other.tree) /\ Draft # NoDb
    BY <1>1, <1>4, DraftIs
  <2>4. Draft' = NoDb
    BY <1>6 DEF Draft
  <2>5. kept' \in {kept, Len(log) + 1}
    BY <1>2, <1>7
  <2>6. Store!Commit
    BY <2>2, <2>3, <2>4, <2>5 DEF Store!Commit
  <2> QED
    BY <2>6 DEF Implements, Store!Next
<1> QED
  BY <1>8, <1>9, <1>10, <1>11, <1>12 DEF RInv

\* The log once the commit in doubt is made, or the last one made again.
LEMMA LogUpToNext ==
  ASSUME Typed, NEW m \in Metas, m.txnid = mti + 1
  PROVE  LogUpTo(m, map) = Append(log, Contents(m.tree))
<1>1. log \in Seq([Keys -> Nat]) /\ Len(log) = mti + 1
  BY TypesAre DEF Typed, HistTypes, Bounded
<1>2. SubSeq(log, 1, m.txnid) = log
  BY <1>1
<1> QED
  BY <1>2 DEF LogUpTo, Contents

\* Sequences with the same elements are equal.
LEMMA SameSequence ==
  ASSUME NEW S, NEW s \in Seq(S), NEW t \in Seq(S), Len(s) = Len(t),
         \A n \in 1 .. Len(s) : s[n] = t[n]
  PROVE  s = t
OBVIOUS

LEMMA LogUpToSame ==
  ASSUME Typed, Logged
  PROVE  LogUpTo(Committed, map) = log
<1>1. log \in Seq([Keys -> Nat]) /\ Len(log) = mti + 1 /\ mti \in Nat /\ Committed.txnid = mti
  BY TypesAre DEF Typed, HistTypes, Bounded, LockTypes, Committed
<1> DEFINE front == SubSeq(log, 1, mti)
<1>2. front \in Seq([Keys -> Nat]) /\ Len(front) = mti /\ \A n \in 1 .. mti : front[n] = log[n]
  BY <1>1
<1>3. LogUpTo(Committed, map) = Append(front, log[mti + 1])
  BY <1>1 DEF LogUpTo, Contents, Logged
<1>4. log[mti + 1] \in [Keys -> Nat]
  BY <1>1
<1> HIDE DEF front
<1>5. /\ Append(front, log[mti + 1]) \in Seq([Keys -> Nat])
      /\ Len(Append(front, log[mti + 1])) = Len(log)
      /\ \A n \in 1 .. Len(log) : Append(front, log[mti + 1])[n] = log[n]
  BY <1>1, <1>2, <1>4
<1> QED
  BY <1>1, <1>3, <1>5

LEMMA PublishImplements ==
  ASSUME Inv, RInv, Inv', Publish
  PROVE  RInv' /\ Implements
<1>1. Typed /\ Holding /\ pc = "publish"
  BY DEF Inv, Typed, Publish
<1>2. Other = Meta /\ Other.txnid = mti + 1 /\ Toggle = (mti + 1) % 2 /\ Other \in Metas
  BY <1>1, TwoMetas DEF Holding, Other, Meta, Toggle
<1>3. /\ UNCHANGED <<map, disk, metas, dmetas, slot, rpc, rtree, fatal, floor>>
      /\ mti' = mti + 1 /\ pc' = "idle" /\ log' = Append(log, Contents(Other.tree))
  BY <1>1, <1>2, LogUpToNext
  DEF Publish, Holding, EndWrite, NoTxn, WriteOnly, readerVars, procVars, dataVars
<1>4. kept' = kept \/ (kept' = Len(log') /\ dmetas[(mti + 1) % 2] = {Other})
  BY <1>2 DEF Publish
<1> QED
  BY <1>2, <1>3, <1>4, AdvanceImplements

\* A transaction begins: what the owner that died had written is made the last commit.
LEMMA BeginImplements ==
  ASSUME Inv, RInv, Inv', NEW p \in Procs, Begin(p)
  PROVE  RInv' /\ Implements
<1>1. /\ Typed /\ LockTypes /\ Holding /\ Control
      /\ UNCHANGED <<map, disk, metas, dmetas, kept, rpc, rtree, floor, fatal>>
      /\ Start \in Metas /\ mti' = Start.txnid /\ Start = metas[mti' % 2] /\ mti <= mti'
      /\ log' = (IF mti' = mti THEN log ELSE LogUpTo(Start, map))
      /\ slot' = (IF owner = Died THEN Checked ELSE slot) /\ owner \in {NoProc, Died}
  BY StartIs, TypesAre DEF Inv, Typed, readerVars, procVars
<1>2. pc = "idle" /\ pc' \in {"idle", "write"}
  <2>1. pc = "idle"
    BY <1>1, NamesAssumption DEF Holding
  <2>2. pc' \in {"idle", "write"}
    BY StartIs, <1>1 DEF EndWrite, NoTxn
  <2> QED
    BY <2>1, <2>2
<1>3. \A r \in Readers : rpc[r] # "idle" => UNCHANGED slot[r]
  BY <1>1 DEF Checked
<1>4. CASE mti' = mti
  <2>1. SameStore
    BY <1>1, <1>4 DEF SameStore
  <2>2. Unsettled => Unsettled'
    BY <1>2, <2>1, StoreStays DEF Unsettled, SameStore
  <2> QED
    BY <1>1, <1>2, <1>3, <2>1, <2>2, UnseenImplements
<1>5. CASE mti' # mti
  <2>1. mti' = mti + 1 /\ Start = Other
    <3>1. Start.txnid \in {mti, mti + 1} /\ mti \in Nat
      BY <1>1, TwoMetas DEF Start, Latest, Better, Metas
    <3> QED
      BY <1>1, <1>5, <3>1 DEF Other
  <2>2. log' = Append(log, Contents(Other.tree))
    BY <1>1, <1>5, <2>1, LogUpToNext
  <2> QED
    BY <1>1, <1>2, <1>3, <2>1, <2>2, AdvanceImplements
<1> QED
  BY <1>4, <1>5

\* Readers once all are gone.
LEMMA NoneSee ==
  ASSUME NoReads(Readers)
  PROVE  ReadersSee'
<1>1. \A r \in Readers : rpc'[r] = "idle" /\ floor'[r] = 0
  BY DEF NoReads
<1> QED
  BY <1>1 DEF ReadersSee, Protected

LEMMA ReopenImplements ==
  ASSUME Inv, RInv, Inv', NEW p \in Procs, Reopen(p)
  PROVE  RInv' /\ Implements
<1>1. /\ Typed /\ LockTypes /\ DataTypes /\ ReadTypes /\ Logged /\ OneDoubt /\ DoubtOnDisk
      /\ Recoverable /\ ReadersSee
  BY TypesAre DEF Inv, Typed, RInv
<1>2. /\ UNCHANGED <<map, disk, metas, dmetas, kept>> /\ NoReads(Readers) /\ pc' = "idle"
      /\ mti' = Latest.txnid /\ log' = LogUpTo(Latest, map) /\ Latest \in Metas
      /\ Committed \in Metas /\ Committed.txnid = mti /\ mti \in Nat
  BY <1>1, TwoMetas DEF Reopen, OpenFirst, NoTxn, dataVars
<1>3. CASE Settled
  <2>1. Latest = Committed
    BY <1>1, <1>3, TwoMetas
  <2>2. SameStore
    BY <1>1, <1>2, <2>1, LogUpToSame DEF SameStore
  <2>3. Logged' /\ Recoverable' /\ OneDoubt' /\ DoubtOnDisk'
    BY <1>1, <1>2, <2>2, StoreStays, DoubtStays
  <2> QED
    BY <1>2, <2>2, <2>3, NoneSee, ReadsEnd DEF RInv
<1>4. CASE ~Settled
  <2>1. Latest = Other /\ Other.txnid = mti + 1
    BY <1>1, <1>4, TwoMetas DEF Settled, Metas
  <2>2. log' = Append(log, Contents(Other.tree)) /\ mti' = mti + 1
    BY <1>1, <1>2, <2>1, LogUpToNext
  <2>3. ASSUME NEW r \in Readers PROVE rpc[r] = "idle" /\ floor[r] = 0
    <3>1. rpc[r] = "idle"
      BY HomeAssumption DEF Inv, ReadersHold, Reopen
    <3> QED
      BY <1>1, <3>1 DEF ReadersSee, Protected
  <2>4. UNCHANGED floor /\ \A r \in Readers : rpc'[r] = "idle"
    BY <1>1, <1>2, <2>3 DEF NoReads, ReadTypes
  <2> QED
    BY <1>2, <2>1, <2>2, <2>3, <2>4, AdvanceImplements
<1> QED
  BY <1>3, <1>4

-----------------------------------------------------------------------------
(***************************************************************************)
(* Pages are filled and reach the disk                                     *)
(***************************************************************************)
\* A transaction does not fill the pages of a tree whose pages were freed, if at all,
\* by transactions that are too recent.
LEMMA Untouched ==
  ASSUME Inv, pc = "write", NEW t \in Trees, NEW s \in Nat, Held(Committed, t, s),
         pglast = 0 \/ pglast <= s
  PROVE  PagesOf(t) \cap dirty = {}
<1>1. Typed /\ TreeTypes /\ Work /\ Whole(Committed)
  BY TypesAre DEF Inv, Typed, MetasWhole
<1>2. ASSUME NEW x \in PagesOf(t) PROVE x \notin dirty
  <2>1. x \in Pages
    BY PagesOfTree
  <2>2. CASE x \in PagesOf(Committed.tree)
    BY <1>1, <2>1, <2>2, Taken DEF Making, Fresh
  <2>3. ASSUME NEW n \in Nat, n > s, <<n, x>> \in Committed.free PROVE x \notin dirty
    <3>1. n > pglast
      BY <1>1, <2>3 DEF TreeTypes
    <3> QED
      BY <1>1, <2>1, <2>3, <3>1, Taken DEF Making, Fresh
  <2> QED
    BY <2>2, <2>3 DEF Held
<1> QED
  BY <1>2

\* Some of the dirty pages are written.
LEMMA FillImplements ==
  ASSUME Inv, RInv, Inv', Flush \/ FlushFails
  PROVE  RInv' /\ Implements
<1>1. /\ Typed /\ DataTypes /\ LockTypes /\ TreeTypes /\ ReadTypes /\ Bounded /\ Work /\ Control
      /\ ReadersHold /\ Logged /\ OneDoubt /\ Recoverable /\ ReadersSee /\ map' \in [Pages -> Nat]
  BY TypesAre DEF Inv, Typed, RInv, TypeOK
<1>2. PICK S \in SUBSET dirty : Written(S)
  BY DEF Flush, FlushFails
<1>3. /\ UNCHANGED <<metas, dmetas, mti, slot, log, kept, rpc, rtree, floor, fatal>>
      /\ pc = "write" /\ pc' \in {"sync", "failed"}
  BY DEF Flush, FlushFails, CommitOnly, WriteOnly, readerVars, procVars
<1>4. /\ Committed \in Metas /\ mti \in Nat /\ Committed.txnid = mti /\ Latest = Committed
      /\ mti % 2 \in {0, 1} /\ Other.txnid <= mti /\ Other.txnid \in Nat /\ Settled
  BY <1>1, <1>3, TwoMetas DEF Control, Settled, Metas
<1>5. pglast \in Nat /\ (pglast = 0 \/ pglast < mti)
  BY <1>1, <1>3 DEF ReadersHold, Behind, Making, TreeTypes
<1>6. ASSUME NEW t \in Trees, PagesOf(t) \cap dirty = {}
      PROVE  /\ Contents(t)' = Contents(t)
             /\ \A x \in PagesOf(t) : disk'[x] = disk[x]
  <2>1. \A x \in PagesOf(t) : x \in Pages /\ x \notin S
    BY <1>2, <1>6, PagesOfTree
  <2>2. \A x \in PagesOf(t) : map'[x] = map[x] /\ disk'[x] = disk[x]
    BY <1>2, <2>1 DEF Written
  <2>3. \A k \in Keys : t[k] # 0 => t[k] \in PagesOf(t)
    BY DEF PagesOf
  <2> QED
    BY <2>2, <2>3 DEF Contents
<1>7. UNCHANGED <<Committed, Other, InDoubt>>
  BY <1>3 DEF Committed, Other, InDoubt
<1>8. Committed.tree \in Trees /\ PagesOf(Committed.tree) \cap dirty = {}
  <2>1. Committed.tree \in Trees /\ Held(Committed, Committed.tree, mti)
    BY <1>4 DEF Metas, Held
  <2> QED
    BY <1>3, <1>4, <1>5, <2>1, Untouched
<1>9. Logged'
  BY <1>1, <1>3, <1>6, <1>7, <1>8 DEF Logged
<1>10. \A m, db : m.tree \in Trees /\ PagesOf(m.tree) \cap dirty = {} /\ OnDiskAs(m, db) =>
         OnDiskAs(m, db)'
  BY <1>6 DEF OnDiskAs, PagesOf
<1>11. OneDoubt' /\ DoubtOnDisk'
  <2>1. LastIsKept => LastIsKept'
    <3>1. ASSUME OnDiskAs(Committed, log[mti + 1]) PROVE OnDiskAs(Committed, log[mti + 1])'
      <4>1. \A x \in PagesOf(Committed.tree) : disk'[x] = disk[x]
        BY <1>6, <1>8
      <4> QED
        BY <1>3, <1>7, <3>1, <4>1 DEF OnDiskAs, PagesOf
    <3> QED
      BY <1>3, <1>7, <3>1 DEF LastIsKept
  <2>2. ASSUME NEW m \in InDoubt PROVE Held(m, Committed.tree, mti)'
    <3>1. Held(m, Committed.tree, mti)
      BY <1>1 DEF OneDoubt
    <3> QED
      BY <1>3, <1>7, <3>1 DEF Held, PagesOf
  <2>3. OneDoubt'
    BY <1>1, <1>3, <1>7, <2>1, <2>2 DEF OneDoubt
  <2>4. DoubtOnDisk'
    BY <1>3, <1>4, <1>7 DEF DoubtOnDisk
  <2> QED
    BY <2>3, <2>4
<1>12. Recoverable'
  <2>1. ASSUME NEW a \in dmetas[0], NEW b \in dmetas[1], NEW m, m = Better(a, b)
        PROVE  /\ m.txnid + 1 >= mti /\ m.txnid + 1 >= kept
               /\ m.txnid <= mti =>
                    OnDiskAs(m, log[m.txnid + 1])' /\ Held(Committed, m.tree, m.txnid)
    <3>1. /\ m.txnid + 1 >= mti /\ m.txnid + 1 >= kept
          /\ m.txnid <= mti => OnDiskAs(m, log[m.txnid + 1]) /\ Held(Committed, m.tree, m.txnid)
      BY <1>1, <2>1 DEF Recoverable
    <3>2. m.tree \in Trees /\ m.txnid \in Nat
      BY <1>1, <2>1, FoundIs DEF Metas
    <3>3. ASSUME m.txnid <= mti PROVE OnDiskAs(m, log[m.txnid + 1])'
      <4>1. pglast = 0 \/ pglast <= m.txnid
        BY <1>4, <1>5, <3>1, <3>2
      <4>2. PagesOf(m.tree) \cap dirty = {}
        BY <1>3, <3>1, <3>2, <3>3, <4>1, Untouched
      <4>3. \A x \in PagesOf(m.tree) : disk'[x] = disk[x]
        BY <1>6, <3>2, <4>2
      <4> QED
        BY <1>3, <3>1, <3>3, <4>3 DEF OnDiskAs, PagesOf
    <3> QED
      BY <3>1, <3>3
  <2>2. ASSUME NEW m
        PROVE  Held(Committed, m.tree, m.txnid) => Held(Committed, m.tree, m.txnid)'
    BY <1>7 DEF Held, PagesOf
  <2> QED
    BY ONLY <1>3, <2>1, <2>2 DEF Recoverable, Better
<1>13. ASSUME NEW r \in Protected
       PROVE  Seen(r) \in Trees /\ PagesOf(Seen(r)) \cap dirty = {} /\ UNCHANGED Seen(r)
  <2>1. slot[r] \in Nat /\ (pglast = 0 \/ pglast <= slot[r]) /\ r \in Readers
    BY <1>1, <1>3, <1>5 DEF ReadersHold, Protects, Making, Protected
  <2>2. ~MetaFailed
    BY <1>1, <1>3 DEF Control, MetaFailed, Typed, Holding
  <2>3. Held(Committed, Seen(r), slot[r])
    BY <1>1, <1>4, <2>2 DEF ReadersHold
  <2>4. slot[r] % 2 \in {0, 1}
    BY <2>1
  <2>5. Seen(r) \in Trees
    BY <1>1, <2>1, <2>4 DEF Seen, DataTypes, ReadTypes, Metas
  <2> QED
    BY <1>3, <2>1, <2>3, <2>5, Untouched DEF Seen
<1>14. ReadersSee'
  <2>1. ASSUME NEW r \in Protected, rpc[r] # "read", ~fatal[Home[r]] PROVE Sees(r)'
    <3>1. Sees(r) /\ ~Unsettled
      BY <1>1, <1>3, <1>4, <2>1 DEF ReadersSee, Unsettled
    <3>2. Contents(Seen(r))' = Contents(Seen(r))
      BY <1>6, <1>13
    <3> QED
      BY <1>3, <3>1, <3>2 DEF Sees
  <2> QED
    BY <1>1, <1>3, <2>1 DEF ReadersSee, Protected
<1>15. Implements
  <2>1. UNCHANGED View
    <3>1. ASSUME NEW r \in Readers
          PROVE  (IF rpc[r] = "read" THEN Contents(rtree[r]) ELSE NoDb)'
                   = IF rpc[r] = "read" THEN Contents(rtree[r]) ELSE NoDb
      <4>1. CASE rpc[r] = "read"
        <5>1. r \in Protected /\ Seen(r) = rtree[r]
          BY <4>1 DEF Protected, Seen
        <5>2. Contents(rtree[r])' = Contents(rtree[r])
          BY <1>3, <1>6, <1>13, <5>1 DEF Contents
        <5> QED
          BY <1>3, <4>1, <5>2
      <4>2. CASE rpc[r] # "read"
        BY <1>3, <4>2
      <4> QED
        BY <4>1, <4>2
    <3> QED
      BY <3>1 DEF View
  <2>2. CASE InDoubt = {}
    <3>1. UNCHANGED Draft
      BY <1>7, <2>2 DEF Draft
    <3> QED
      BY <1>3, <2>1, <3>1 DEF Implements, Store!vars
  <2>3. CASE InDoubt # {}
    <3>1. Draft' \in [Keys -> Nat]
      <4>1. PICK m \in InDoubt : TRUE
        BY <2>3
      <4>2. m \in Metas /\ (CHOOSE o \in InDoubt : TRUE) = m
        BY <1>1, <4>1, DraftIs DEF OneDoubt
      <4>3. Draft' = Contents(m.tree)'
        BY <1>7, <2>3, <4>2 DEF Draft, Contents
      <4> QED
        BY <1>1, <4>2, <4>3 DEF Contents, Metas, Trees
    <3>2. Store!Propose
      BY <1>3, <2>1, <3>1 DEF Store!Propose
    <3> QED
      BY <3>2 DEF Implements, Store!Next
  <2> QED
    BY <2>2, <2>3
<1> QED
  BY <1>9, <1>11, <1>12, <1>14, <1>15 DEF RInv

\* What was written reaches the disk, and a commit that failed is forgotten.
LEMMA SyncImplements ==
  ASSUME Inv, RInv, Inv', Sync
  PROVE  RInv' /\ Implements
<1>1. /\ Typed /\ DataTypes /\ LockTypes /\ HistTypes /\ Bounded /\ Control /\ Logged /\ ReadersSee
      /\ Typed'
  BY TypesAre DEF Inv, Typed, RInv
<1>2. /\ UNCHANGED <<map, metas, mti, slot, log, rpc, rtree, floor, fatal>>
      /\ disk' = [x \in Pages |-> {map[x]}] /\ dmetas' = [i \in {0, 1} |-> {metas[i]}]
      /\ kept' = Len(log) /\ pc = "sync" /\ pc' = "meta"
  BY DEF Sync, CommitOnly, WriteOnly, readerVars, procVars
<1>3. /\ Committed \in Metas /\ Other \in Metas /\ mti \in Nat /\ Committed.txnid = mti
      /\ mti % 2 \in {0, 1} /\ (mti + 1) % 2 \in {0, 1} /\ Other.txnid <= mti
      /\ Other.txnid \in Nat
  BY <1>1, <1>2, TwoMetas DEF Control, Settled, Metas
<1>4. UNCHANGED <<Committed, Other>> /\ \A t : Contents(t)' = Contents(t)
  BY <1>2 DEF Committed, Other, Contents
<1>5. InDoubt' = {}
  BY <1>2, <1>3 DEF InDoubt, Other
<1>6. Logged'
  BY <1>1, <1>2, <1>4 DEF Logged
<1>7. OneDoubt' /\ DoubtOnDisk'
  BY <1>2, <1>3, <1>4, <1>5 DEF OneDoubt, DoubtOnDisk
<1>8. LastIsKept'
  <2>1. OnDiskAs(Committed, log[mti + 1])'
    BY <1>1, <1>2, <1>3, <1>4 DEF Logged, OnDiskAs, Contents, Metas, Trees
  <2>2. dmetas'[mti % 2] = {Committed} /\ kept' <= mti + 1
    BY <1>1, <1>2, <1>3 DEF Committed, Bounded
  <2> QED
    BY <1>2, <1>4, <2>1, <2>2 DEF LastIsKept
<1>9. Recoverable'
  BY <1>1, <1>8, DoubtRecoversNext
<1>10. ReadersSee'
  <2>1. ASSUME NEW r \in Protected, rpc[r] # "read", ~fatal[Home[r]] PROVE Sees(r)'
    <3>1. Sees(r) /\ ~Unsettled
      BY <1>1, <1>2, <1>3, <2>1 DEF ReadersSee, Unsettled
    <3>2. Contents(Seen(r))' = Contents(Seen(r))
      BY <1>2 DEF Contents, Seen
    <3> QED
      BY <1>2, <3>1, <3>2 DEF Sees
  <2> QED
    BY <1>1, <1>2, <2>1 DEF ReadersSee, Protected
<1>11. Store!Keep
  <2>1. UNCHANGED View
    BY <1>2, ViewStays
  <2>2. Draft' = NoDb
    BY <1>5 DEF Draft
  <2> QED
    BY <1>2, <2>1, <2>2 DEF Store!Keep
<1> QED
  BY <1>6, <1>7, <1>9, <1>10, <1>11 DEF RInv, Implements, Store!Next

-----------------------------------------------------------------------------
(***************************************************************************)
(* The meta page is written                                                *)
(***************************************************************************)
\* A step that leaves in doubt the commit that the transaction is making.
LEMMA DoubtImplements ==
  ASSUME Inv, RInv, Inv', pc \in {"meta", "restore"}, LastIsKept, Held(Meta, Committed.tree, mti),
         UNCHANGED <<map, disk, mti, slot, log, kept, txnid, tree, free, nextpg, rpc, rtree,
                     floor, fatal>>,
         metas'[mti % 2] = metas[mti % 2], dmetas'[mti % 2] = dmetas[mti % 2],
         metas'[Toggle].tree = tree, Meta \in dmetas'[Toggle],
         \A m \in dmetas'[Toggle] \cup {metas'[Toggle]} : m.txnid > mti => m = Meta,
         metas'[Toggle].txnid > mti => \A x \in PagesOf(tree) : disk[x] = {map[x]},
         Unsettled => Other.tree = tree,
         pc' \in {"publish", "restore", "panic"}, pc' # "panic" => metas'[Toggle].txnid > mti
  PROVE  RInv' /\ Implements
<1>1. /\ Typed /\ LockTypes /\ ReadTypes /\ HistTypes /\ Bounded /\ ReadersHold /\ Logged
      /\ ReadersSee /\ Typed'
  BY TypesAre DEF Inv, Typed, RInv
<1>2. /\ mti \in Nat /\ mti % 2 \in {0, 1} /\ (mti + 1) % 2 \in {0, 1}
      /\ mti % 2 # (mti + 1) % 2 /\ Toggle = (mti + 1) % 2 /\ Meta.txnid = mti + 1
      /\ Meta.tree = tree /\ Meta \in Metas
  BY <1>1, TwoMetas, MetaIs DEF Typed, Holding, Toggle
<1>3. /\ UNCHANGED <<Committed, Meta, Toggle>> /\ Other' = metas'[Toggle]
      /\ \A t : Contents(t)' = Contents(t)
  BY <1>2 DEF Committed, Meta, Toggle, Other, Contents
<1>4. InDoubt' = {Meta}
  BY <1>2, <1>3 DEF InDoubt
<1>5. Logged'
  BY <1>1, <1>3 DEF Logged
<1>6. LastIsKept'
  BY <1>3 DEF LastIsKept, OnDiskAs
<1>7. OneDoubt' /\ DoubtOnDisk'
  <2>1. Held(Meta, Committed.tree, mti)'
    BY <1>3 DEF Held, PagesOf
  <2>2. Other'.tree = tree'
    BY <1>3
  <2>3. OneDoubt'
    BY <1>3, <1>4, <1>6, <2>1, <2>2 DEF OneDoubt
  <2>4. DoubtOnDisk'
    BY <1>3, <2>2 DEF DoubtOnDisk, PagesOf
  <2> QED
    BY <2>3, <2>4
<1>8. Recoverable'
  BY <1>1, <1>6, DoubtRecoversNext
<1>9. ReadersSee'
  <2>1. ASSUME NEW r \in Protected, rpc[r] # "read", ~fatal[Home[r]] PROVE Sees(r)'
    <3>1. Unsettled' /\ Other'.tree = tree
      BY <1>3 DEF Unsettled
    <3>2. CASE rpc[r] = "copy" /\ slot[r] % 2 = Toggle
      <4>1. Seen(r)' = tree
        BY <3>2 DEF Seen
      <4> QED
        BY <3>1, <4>1 DEF Sees
    <3>3. CASE ~(rpc[r] = "copy" /\ slot[r] % 2 = Toggle)
      <4>1. slot[r] \in Nat
        BY <1>1, <2>1 DEF ReadersHold, Protects
      <4>2. slot[r] % 2 = Toggle \/ slot[r] % 2 = mti % 2
        BY <1>2, <4>1, Modulo
      <4>3. UNCHANGED Seen(r)
        BY <3>3, <4>2 DEF Seen
      <4>4. Contents(Seen(r))' = Contents(Seen(r))
        BY <4>3 DEF Contents
      <4>5. Sees(r)
        BY <1>1, <2>1 DEF ReadersSee
      <4> QED
        BY <3>1, <4>3, <4>4, <4>5 DEF Sees
    <3> QED
      BY <3>2, <3>3
  <2> QED
    BY <1>1, <2>1 DEF ReadersSee, Protected
<1>10. Store!Propose
  <2>1. UNCHANGED View
    BY ViewStays
  <2>2. Draft' = Contents(tree)
    <3>1. (CHOOSE m \in InDoubt' : TRUE) = Meta
      BY <1>4
    <3> QED
      BY <1>2, <1>3, <1>4, <3>1 DEF Draft, Contents
  <2>3. Draft' \in [Keys -> Nat]
    BY <1>2, <2>2, ContentsType, TypesAre DEF Inv, Typed, DataTypes, Metas
  <2> QED
    BY <2>1, <2>3 DEF Store!Propose
<1> QED
  BY <1>5, <1>7, <1>8, <1>9, <1>10 DEF RInv, Implements, Store!Next

LEMMA WriteMetaImplements ==
  ASSUME Inv, RInv, Inv', WriteMetaFails \/ \E sync \in MetaSync : WriteMeta(sync)
  PROVE  RInv' /\ Implements
<1>1. /\ Typed /\ LockTypes /\ DataTypes /\ HistTypes /\ Bounded /\ Holding /\ Control /\ OnDisk
      /\ Prepared /\ ReadersHold /\ DoubtOnDisk /\ Recoverable
  BY TypesAre DEF Inv, Typed, RInv
<1>2. /\ pc = "meta" /\ pc' \in {"publish", "restore"}
      /\ metas' = [metas EXCEPT ![Toggle] = Meta]
      /\ \/ dmetas' = [dmetas EXCEPT ![Toggle] = {Meta}]
         \/ dmetas' = [dmetas EXCEPT ![Toggle] = @ \cup {Meta}]
      /\ UNCHANGED <<map, disk, mti, slot, log, kept, txnid, tree, free, nextpg, rpc, rtree,
                     floor, fatal>>
  BY DEF WriteMetaFails, WriteMeta, CommitOnly, WriteOnly, readerVars, procVars, treeVars
<1>3. /\ mti \in Nat /\ mti % 2 \in {0, 1} /\ (mti + 1) % 2 \in {0, 1}
      /\ mti % 2 # (mti + 1) % 2 /\ Toggle = (mti + 1) % 2 /\ txnid = mti + 1
      /\ Meta \in Metas /\ Meta.txnid = txnid /\ Meta.tree = tree /\ Meta.free = free
      /\ Committed \in Metas /\ Committed.txnid = mti /\ Latest = Committed
      /\ Other.txnid \in Nat /\ Other.txnid <= mti
  BY <1>1, <1>2, TwoMetas, MetaIs DEF Holding, Toggle, Control, Settled, Metas
<1>4. LastIsKept
  <2>1. dmetas[0] = {metas[0]} /\ dmetas[1] = {metas[1]}
    BY <1>1, <1>2 DEF OnDisk
  <2>2. dmetas[mti % 2] = {Committed}
    BY <1>3, <2>1 DEF Committed
  <2>3. Better(metas[0], metas[1]) = Committed
    BY <1>3 DEF Latest
  <2>4. /\ Committed.txnid + 1 >= kept
        /\ OnDiskAs(Committed, log[Committed.txnid + 1])
    BY <1>1, <1>3, <2>1, <2>3 DEF Recoverable
  <2> QED
    BY <1>1, <1>3, <2>2, <2>4 DEF LastIsKept, HistTypes
<1>5. Held(Meta, Committed.tree, mti)
  BY <1>1, <1>2, <1>3, PagesOfTree DEF Prepared, Saving, Held, Metas
<1>6. /\ metas'[Toggle] = Meta /\ metas'[mti % 2] = metas[mti % 2]
      /\ dmetas'[mti % 2] = dmetas[mti % 2] /\ Meta \in dmetas'[Toggle]
      /\ \A m \in dmetas'[Toggle] : m = Meta \/ m = Other
  <2>1. dmetas[Toggle] = {Other}
    BY <1>1, <1>2, <1>3 DEF OnDisk, Other
  <2> QED
    BY <1>1, <1>2, <1>3, <2>1 DEF DataTypes
<1>7. \A m \in dmetas'[Toggle] \cup {metas'[Toggle]} : m.txnid > mti => m = Meta
  BY <1>3, <1>6
<1>8. \A x \in PagesOf(tree) : disk[x] = {map[x]}
  BY <1>1, <1>2, <1>3, PagesOfTree DEF DoubtOnDisk, Metas
<1>9. ~Unsettled
  BY <1>2, <1>3 DEF Unsettled
<1>10. metas'[Toggle].tree = tree /\ metas'[Toggle].txnid > mti
  BY <1>3, <1>6
<1> QED
  BY <1>2, <1>4, <1>5, <1>6, <1>7, <1>8, <1>9, <1>10, DoubtImplements

LEMMA RestoreImplements ==
  ASSUME Inv, RInv, Inv', NEW works \in BOOLEAN, Restore(works)
  PROVE  RInv' /\ Implements
<1>1. /\ Typed /\ LockTypes /\ DataTypes /\ Holding /\ OnDisk /\ OneDoubt /\ DoubtOnDisk
  BY TypesAre DEF Inv, Typed, RInv
<1> DEFINE old == [Meta EXCEPT !.txnid = metab.txnid, !.last = metab.last]
<1>2. /\ pc = "restore" /\ pc' = "panic"
      /\ \/ /\ metas' = [metas EXCEPT ![Toggle] = old]
            /\ dmetas' = [dmetas EXCEPT ![Toggle] = @ \cup {old}]
         \/ UNCHANGED <<metas, dmetas>>
      /\ UNCHANGED <<map, disk, mti, slot, log, kept, txnid, tree, free, nextpg, rpc, rtree,
                     floor, fatal>>
  BY DEF Restore, CommitOnly, WriteOnly, readerVars, procVars, treeVars
<1>3. /\ mti \in Nat /\ mti % 2 \in {0, 1} /\ (mti + 1) % 2 \in {0, 1}
      /\ mti % 2 # (mti + 1) % 2 /\ Toggle = (mti + 1) % 2 /\ txnid = mti + 1
      /\ Meta \in Metas /\ Meta.txnid = txnid /\ Meta.tree = tree
  BY <1>1, <1>2, TwoMetas, MetaIs DEF Holding, Toggle
<1>4. old.tree = tree /\ old.txnid <= mti /\ old.txnid \in Nat
  BY <1>1, <1>2 DEF OnDisk, LockTypes, Meta
<1> HIDE DEF old
<1>5. /\ Meta \in InDoubt /\ Meta \in dmetas[Toggle] /\ Other.tree = tree
      /\ \A m \in InDoubt : m = Meta
      /\ LastIsKept /\ Held(Meta, Committed.tree, mti)
  BY <1>1, <1>2 DEF OneDoubt
<1>6. Other = metas[Toggle]
  BY <1>3 DEF Other
<1>7. /\ metas'[mti % 2] = metas[mti % 2] /\ dmetas'[mti % 2] = dmetas[mti % 2]
      /\ metas'[Toggle] \in {old, Other} /\ Meta \in dmetas'[Toggle]
      /\ \A m \in dmetas'[Toggle] : m \in dmetas[Toggle] \cup {old}
  BY <1>1, <1>2, <1>3, <1>5, <1>6 DEF DataTypes
<1>8. \A m \in dmetas'[Toggle] \cup {metas'[Toggle]} : m.txnid > mti => m = Meta
  <2>1. ~(old.txnid > mti)
    BY <1>3, <1>4
  <2> QED
    BY <1>3, <1>5, <1>6, <1>7, <2>1 DEF InDoubt
<1>9. metas'[Toggle].txnid > mti => \A x \in PagesOf(tree) : disk[x] = {map[x]}
  <2>1. ~(old.txnid > mti)
    BY <1>3, <1>4
  <2> QED
    BY <1>1, <1>5, <1>7, <2>1 DEF DoubtOnDisk
<1>10. metas'[Toggle].tree = tree
  BY <1>4, <1>5, <1>7
<1> QED
  BY <1>2, <1>5, <1>7, <1>8, <1>9, <1>10, DoubtImplements

-----------------------------------------------------------------------------
(***************************************************************************)
(* The system crashes                                                      *)
(***************************************************************************)
LEMMA CrashImplements ==
  ASSUME LateCrash = FALSE, Inv, RInv, Inv', NEW p \in Procs, SystemCrash(p)
  PROVE  RInv' /\ Implements
<1>1. /\ Typed /\ LockTypes /\ DataTypes /\ HistTypes /\ Bounded /\ OneDoubt /\ Recoverable
      /\ Typed' /\ map' \in [Pages -> Nat]
  BY TypesAre DEF Inv, Typed, RInv, TypeOK
<1>2. PICK m0 \in dmetas[0], m1 \in dmetas[1] :
        metas' = [i \in {0, 1} |-> IF i = 0 THEN m0 ELSE m1]
  BY DEF SystemCrash
<1> DEFINE m == Better(m0, m1)
<1>3. /\ ~Overtaken /\ \A x \in Pages : map'[x] \in disk[x]
      /\ disk' = [x \in Pages |-> {map'[x]}] /\ dmetas' = [i \in {0, 1} |-> {metas'[i]}]
      /\ mti' = Newest(metas').txnid /\ log' = LogUpTo(Newest(metas'), map')
      /\ NoReads(Readers) /\ pc' = "idle" /\ UNCHANGED kept
  BY DEF SystemCrash, OpenFirst, NoTxn
<1>4. Newest(metas') = m
  BY <1>2 DEF Newest, Better
<1>5. /\ m \in Metas /\ m.txnid \in Nat /\ m.txnid <= mti + 1 /\ (m.txnid > mti => m \in InDoubt)
      /\ m.txnid + 1 >= mti /\ m.txnid + 1 >= kept
      /\ m.txnid <= mti => OnDiskAs(m, log[m.txnid + 1])
      /\ mti \in Nat /\ kept \in Nat /\ m.tree \in Trees
  BY <1>1, FoundIs DEF Recoverable, Metas, LockTypes, HistTypes
<1> HIDE DEF m
<1>6. /\ mti' = m.txnid /\ metas'[mti' % 2] = m
      /\ \A i \in {0, 1} : metas'[i].txnid <= mti' /\ metas'[i].txnid \in Nat
  <2>1. metas'[mti' % 2].txnid = mti' /\ mti' = m.txnid
    BY <1>1, <1>3, <1>4 DEF Typed, Bounded
  <2>2. m0 \in Metas /\ m1 \in Metas /\ Sane(0, m0) /\ Sane(1, m1)
    BY <1>1 DEF DataTypes, Bounded
  <2>3. /\ m0.txnid \in Nat /\ m1.txnid \in Nat /\ m0.txnid <= m.txnid /\ m1.txnid <= m.txnid
        /\ m \in {m0, m1}
    BY <2>2 DEF Metas, Better, m
  <2>4. metas'[0] = m0 /\ metas'[1] = m1
    BY <1>2
  <2>5. metas'[mti' % 2] = m
    <3>1. CASE m = m0
      <4>1. mti' % 2 = 0 \/ m1.txnid = 0
        BY <2>1, <2>2, <2>3, <3>1 DEF Sane, Parity
      <4>2. mti' = 0 => mti' % 2 = 0
        OBVIOUS
      <4>3. mti' % 2 = 0
        BY <1>5, <2>1, <2>2, <3>1, <4>2 DEF Sane, Parity
      <4> QED
        BY <2>4, <3>1, <4>3
    <3>2. CASE m = m1 /\ m # m0
      <4>1. m0.txnid < m1.txnid
        BY <2>3, <3>2 DEF Better, m
      <4>2. mti' % 2 = 1
        BY <1>5, <2>1, <2>2, <2>3, <3>2, <4>1 DEF Sane, Parity
      <4> QED
        BY <2>4, <3>2, <4>2
    <3> QED
      BY <2>3, <3>1, <3>2
  <2> QED
    BY <2>1, <2>3, <2>4, <2>5
<1>7. Committed' = m /\ Other'.txnid <= mti' /\ Other'.txnid \in Nat /\ mti' \in Nat
  BY <1>5, <1>6, Modulo DEF Committed, Other
<1>8. InDoubt' = {}
  <2>1. (mti' + 1) % 2 \in {0, 1}
    BY <1>7, Modulo
  <2> QED
    BY <1>3, <1>7, <2>1 DEF InDoubt, Other
<1> DEFINE contents == [k \in Keys |-> IF m.tree[k] = 0 THEN 0 ELSE map'[m.tree[k]]]
           front == SubSeq(log, 1, m.txnid)
<1>9. contents \in [Keys -> Nat] /\ Contents(m.tree)' = contents
  BY <1>1, <1>5 DEF Contents, Trees
<1>10. log' = Append(front, contents)
  BY <1>3, <1>4 DEF LogUpTo
<1>11. /\ log \in Seq([Keys -> Nat]) /\ Len(log) = mti + 1
       /\ front \in Seq([Keys -> Nat]) /\ Len(front) = m.txnid
       /\ \A n \in 1 .. m.txnid : front[n] = log[n]
  BY <1>1, <1>5 DEF HistTypes, Bounded
<1> HIDE DEF front
<1>12. Len(log') = m.txnid + 1 /\ log'[m.txnid + 1] = contents /\ log' \in Seq([Keys -> Nat])
  BY <1>5, <1>9, <1>10, <1>11
<1>13. ASSUME m.txnid <= mti
       PROVE  \E n \in kept .. Len(log) : n + 1 >= Len(log) /\ log' = SubSeq(log, 1, n)
  <2>1. contents = log[m.txnid + 1]
    <3>1. log[m.txnid + 1] \in [Keys -> Nat]
      BY <1>5, <1>11, <1>13
    <3>2. ASSUME NEW k \in Keys PROVE contents[k] = log[m.txnid + 1][k]
      <4>1. CASE m.tree[k] = 0
        BY <1>5, <1>13, <4>1 DEF OnDiskAs
      <4>2. CASE m.tree[k] # 0
        BY <1>3, <1>5, <1>13, <4>2 DEF OnDiskAs, Trees
      <4> QED
        BY <4>1, <4>2
    <3> QED
      BY <1>9, <3>1, <3>2
  <2> DEFINE part == SubSeq(log, 1, m.txnid + 1)
  <2>2. /\ part \in Seq([Keys -> Nat]) /\ Len(part) = m.txnid + 1
        /\ \A n \in 1 .. m.txnid + 1 : part[n] = log[n]
    BY <1>5, <1>11, <1>13
  <2> HIDE DEF part, contents
  <2>3. \A n \in 1 .. m.txnid + 1 : log'[n] = log[n]
    BY <1>5, <1>9, <1>10, <1>11, <2>1
  <2>4. log' = part
    <3>1. Len(log') = Len(part) /\ \A n \in 1 .. Len(part) : log'[n] = part[n]
      BY <1>12, <2>2, <2>3
    <3> QED
      BY <1>12, <2>2, <3>1, SameSequence
  <2>5. m.txnid + 1 \in kept .. Len(log) /\ m.txnid + 1 + 1 >= Len(log)
    BY <1>5, <1>11, <1>13
  <2>6. log' = SubSeq(log, 1, m.txnid + 1)
    BY <2>4 DEF part
  <2> QED
    BY <2>5, <2>6
<1>14. ASSUME m.txnid > mti
       PROVE  Draft # NoDb /\ log' = Append(log, Draft)
  <2>1. m \in InDoubt /\ m.txnid = mti + 1
    BY <1>5, <1>14
  <2>2. Draft = Contents(m.tree) /\ Draft # NoDb
    BY <1>1, <2>1, DraftIs
  <2>3. \A x \in PagesOf(m.tree) : map'[x] = map[x]
    BY <1>3, <1>5, <2>1, PagesOfTree DEF Overtaken
  <2>4. contents = Contents(m.tree)
    BY <2>3 DEF Contents, PagesOf
  <2>5. Append(log, Draft) = LogUpTo(m, map)
    BY <1>1, <1>5, <2>1, <2>2, LogUpToNext
  <2>6. LogUpTo(m, map) = Append(front, Contents(m.tree))
    BY DEF LogUpTo, Contents, front
  <2> QED
    BY <1>10, <2>2, <2>4, <2>5, <2>6
<1>15. Store!Crash
  <2>1. \/ \E n \in kept .. Len(log) : n + 1 >= Len(log) /\ log' = SubSeq(log, 1, n)
        \/ Draft # NoDb /\ log' = Append(log, Draft)
    BY ONLY <1>5, <1>13, <1>14
  <2>2. Draft' = NoDb
    BY <1>8 DEF Draft
  <2>3. /\ floor' = [r \in Readers |-> IF r \in Readers THEN 0 ELSE floor[r]]
        /\ View' = [r \in Readers |-> IF r \in Readers THEN NoDb ELSE View[r]]
    BY <1>3 DEF NoReads, View
  <2> QED
    BY <1>3, <2>1, <2>2, <2>3 DEF Store!Crash, Store!EndAll
<1>16. Logged'
  BY <1>6, <1>7, <1>9, <1>12 DEF Logged
<1>17. OneDoubt' /\ DoubtOnDisk'
  BY <1>3, <1>7, <1>8 DEF OneDoubt, DoubtOnDisk
<1>18. Recoverable'
  <2>1. LastIsKept'
    <3>1. \A k \in Keys :
            IF m.tree[k] = 0 THEN contents[k] = 0 ELSE disk'[m.tree[k]] = {contents[k]}
      BY <1>3, <1>5 DEF Trees
    <3>2. dmetas'[mti' % 2] = {m}
      BY <1>3, <1>6, <1>7, Modulo
    <3>3. kept' <= mti' + 1
      BY <1>3, <1>5, <1>6
    <3>4. log'[mti' + 1] = contents
      BY <1>6, <1>12
    <3> QED
      BY <1>7, <3>1, <3>2, <3>3, <3>4 DEF LastIsKept, OnDiskAs
  <2> QED
    BY <1>1, <2>1, DoubtRecoversNext
<1> QED
  BY <1>3, <1>15, <1>16, <1>17, <1>18, NoneSee DEF RInv, Implements, Store!Next

-----------------------------------------------------------------------------
LEMMA RInvInit == Init => RInv /\ Store!Init
<1> SUFFICES ASSUME Init PROVE RInv /\ Store!Init
  OBVIOUS
<1>1. /\ Committed = NewMeta /\ Other = NewMeta /\ mti = 0 /\ log = <<NewMeta.tree>> /\ kept = 1
      /\ pc = "idle" /\ floor = [r \in Readers |-> 0]
      /\ \A r \in Readers : rpc[r] = "idle"
      /\ dmetas = [i \in {0, 1} |-> {NewMeta}]
      /\ NewMeta.txnid = 0 /\ \A k \in Keys : NewMeta.tree[k] = 0
      /\ NewMeta.tree \in [Keys -> {0}]
  BY EmptyTypes DEF Init, Committed, Other, NewMeta
<1>2. InDoubt = {}
  BY <1>1 DEF InDoubt, Other
<1>3. Logged
  BY <1>1 DEF Logged, Contents
<1>4. OneDoubt /\ DoubtOnDisk
  BY <1>1, <1>2 DEF OneDoubt, DoubtOnDisk
<1>5. Recoverable
  <2>1. \A a \in dmetas[0], b \in dmetas[1] : Better(a, b) = NewMeta
    BY <1>1 DEF Better
  <2>2. OnDiskAs(NewMeta, log[1]) /\ Held(Committed, NewMeta.tree, 0)
    BY <1>1 DEF OnDiskAs, Held
  <2> QED
    BY <1>1, <2>1, <2>2 DEF Recoverable
<1>6. ReadersSee
  BY <1>1 DEF ReadersSee, Protected
<1>7. Store!Init
  BY <1>1, <1>2 DEF Store!Init, Draft, View
<1> QED
  BY <1>3, <1>4, <1>5, <1>6, <1>7 DEF RInv

LEMMA RInvStep ==
  ASSUME SharedFaults = FALSE, LateCrash = FALSE
  PROVE  Inv /\ RInv /\ [Next]_vars => Inv' /\ RInv' /\ Implements
<1> SUFFICES ASSUME Inv, RInv, [Next]_vars PROVE Inv' /\ RInv' /\ Implements
  OBVIOUS
<1>1. Inv'
  BY InvStep
<1>2. ASSUME NEW r \in Readers, Read(r) PROVE RInv' /\ Implements
  BY <1>2, ReadImplements
<1>3. CASE Quiet
  BY <1>1, <1>3, PrivateImplements
<1>4. CASE Commits
  BY <1>1, <1>4, FillImplements, SyncImplements, PrivateImplements, WriteMetaImplements,
     RestoreImplements DEF Commits
<1>5. CASE Turns
  BY <1>1, <1>5, PublishImplements, PrivateImplements, PanicImplements, BeginImplements DEF Turns
<1>6. CASE Stops
  BY <1>1, <1>6, KillImplements, JoinImplements, ReopenImplements, CrashImplements DEF Stops
<1>7. CASE UNCHANGED vars
  <2>1. /\ SameStore
        /\ UNCHANGED <<rpc, rtree, floor, slot, fatal, pc, txnid, tree, free, nextpg>>
    BY <1>7 DEF vars, dataVars, procVars, txnVars, treeVars, readerVars, histVars, SameStore
  <2>2. Unsettled => Unsettled'
    BY <2>1, StoreStays DEF Unsettled, SameStore
  <2> QED
    BY <1>1, <2>1, <2>2, UnseenImplements
<1> QED
  BY <1>1, <1>2, <1>3, <1>4, <1>5, <1>6, <1>7, Steps

\* Every behaviour of the transactions is one of the store: what a reader finds in its
\* pages, however they are reused, is one database that was committed, no older than
\* when it began, and never changes; a crash loses at most the last commit, and none
\* that was synchronised (mdb_txn_commit, mdb_env_write_meta, mdb_txn_renew0,
\* mdb_env_pick_meta).
THEOREM TransactionsImplementStore ==
  ASSUME SharedFaults = FALSE, LateCrash = FALSE
  PROVE  Spec => StoreSpec
<1>1. Init => Inv /\ RInv /\ Store!Init
  BY InvInit, RInvInit
<1>2. Inv /\ RInv /\ [Next]_vars => Inv' /\ RInv' /\ [Store!Next]_(Store!vars)
  BY RInvStep DEF Implements
<1> QED
  BY <1>1, <1>2, PTL DEF Spec, StoreSpec, Store!Spec

\* What LateCrash = FALSE leaves out: only pages of a commit whose meta page was
\* written back are filled while the disk may have that meta page still
\* (mdb_env_write_meta).
WrittenBack == Overtaken => Settled

THEOREM OvertakenIsWrittenBack ==
  ASSUME SharedFaults = FALSE, LateCrash = FALSE
  PROVE  Spec => []WrittenBack
<1>1. Init => Inv /\ RInv
  BY InvInit, RInvInit
<1>2. Inv /\ RInv /\ [Next]_vars => Inv' /\ RInv'
  BY RInvStep
<1>3. Inv /\ RInv => WrittenBack
  <2> SUFFICES ASSUME Inv, RInv, Overtaken, ~Settled PROVE FALSE
    BY DEF WrittenBack
  <2>1. PICK m \in InDoubt : \E page \in PagesOf(m.tree) : disk[page] # {map[page]}
    BY DEF Overtaken
  <2>2. Other.txnid > mti
    BY TwoMetas DEF Inv, Settled, Metas
  <2>3. Other \in InDoubt
    BY <2>2 DEF InDoubt, Other
  <2>4. m = Other
    BY <2>1, <2>3 DEF RInv, OneDoubt
  <2> QED
    BY <2>1, <2>2, <2>4 DEF RInv, DoubtOnDisk
<1> QED
  BY <1>1, <1>2, <1>3, PTL DEF Spec
=============================================================================
