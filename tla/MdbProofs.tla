------------------------------ MODULE MdbProofs ------------------------------
(***************************************************************************)
(* Proofs about Mdb, for any keys, readers, processes and number of pages. *)
(***************************************************************************)
EXTENDS Mdb, TLAPS, WellFoundedInduction

-----------------------------------------------------------------------------
(***************************************************************************)
(* Types.  The log has one database for each number up to mti_txnid, no     *)
(* meta page is ahead of it by more than one, and the number of a meta page *)
(* says which of the two it is.                                            *)
(***************************************************************************)
Parity(i, m) == m.txnid % 2 = i \/ m.txnid = 0
Sane(i, m) == m.last >= 1 /\ m.txnid <= mti + 1 /\ Parity(i, m)

Bounded ==
  /\ Len(log) = mti + 1 /\ metas[mti % 2].txnid = mti
  /\ \A i \in {0, 1} : Sane(i, metas[i]) /\ \A m \in dmetas[i] : Sane(i, m)
  /\ nextpg >= 2 /\ (pc = "restore" => Sane(Toggle, metab))

Holding ==
  /\ pc # "idle" => txnid = mti + 1 /\ owner \in Procs /\ alive[owner]
  /\ pc \in {"alloc", "scan"} => want \in Keys
  /\ pc = "publish" => metas[Toggle] = Meta

Typed == TypeOK /\ Bounded /\ Holding

-----------------------------------------------------------------------------
(***************************************************************************)
(* The meta pages                                                          *)
(***************************************************************************)
Committed == metas[mti % 2]      \* the meta page of the last commit
Other     == metas[(mti + 1) % 2]
Better(a, b) == IF a.txnid < b.txnid THEN b ELSE a
Latest    == Better(metas[0], metas[1])

InFree(m, x) == \E n \in Nat : <<n, x>> \in m.free

\* Each page of a database is in use or free once.
Whole(m) ==
  /\ m.last <= MaxPage
  /\ \A j, k \in Keys : m.tree[j] = m.tree[k] /\ m.tree[j] # 0 => j = k
  /\ \A n, o \in Nat, x \in Pages : <<n, x>> \in m.free /\ <<o, x>> \in m.free => n = o
  /\ \A n \in Nat, x \in Pages : <<n, x>> \in m.free =>
       n >= 1 /\ n <= m.txnid /\ x <= m.last /\ x \notin PagesOf(m.tree)
  /\ \A x \in PagesOf(m.tree) : x <= m.last
  /\ \A x \in Pages : x <= m.last => x \in PagesOf(m.tree) \/ InFree(m, x)

MetasWhole ==
  /\ Whole(Committed) /\ Whole(Latest)
  /\ \A a \in dmetas[0], b \in dmetas[1] : Whole(Better(a, b))

\* No commit is in doubt while a write transaction is at work, nor before one begins.
Settled == Other.txnid <= mti

Control ==
  /\ pc = "idle" => owner \in {NoProc, Died}
  /\ pc # "idle" => ~fatal[owner]
  /\ MetaFailed => \A p, q \in Procs : alive[p] /\ alive[q] => p = q
  /\ pc \in {"write", "alloc", "scan", "sync", "meta", "failed"} => Settled
  /\ owner = NoProc /\ (\E p \in Procs : alive[p] /\ ~fatal[p]) => Settled

OnDisk ==
  /\ pc = "meta" => \A i \in {0, 1} : dmetas[i] = {metas[i]}
  /\ pc = "restore" => dmetas[mti % 2] = {Committed} /\ metab.txnid <= mti

-----------------------------------------------------------------------------
(***************************************************************************)
(* The write transaction                                                   *)
(***************************************************************************)
Making == {"write", "alloc", "scan"}
Saving == {"sync", "meta"}

\* A record of the free list was fetched.
Fetched(x) == \E n \in 1 .. pglast : <<n, x>> \in Committed.free

\* What the transaction has taken, kept and freed.
Work ==
  pc \in Making =>
    /\ free = Committed.free /\ nextpg > Committed.last /\ nextpg <= MaxPage + 1
    /\ pc # "write" => tree[want] \notin dirty
    /\ \A j, k \in Keys : tree[j] = tree[k] /\ tree[j] # 0 => j = k
    /\ dirty \subseteq PagesOf(tree)
    /\ \A x \in Pages :
         /\ x \in PagesOf(Committed.tree) <=>
              x \in freed \/ (x \in PagesOf(tree) /\ x \notin dirty)
         /\ x \in freed \cup loose \cup pghead => x \notin PagesOf(tree)
         /\ x \in Fresh <=> Fetched(x) \/ (Committed.last < x /\ x < nextpg)
         /\ x \in PagesOf(tree) => x < nextpg
    /\ loose \cap pghead = {}
    /\ pglast = 0 => pghead = {}

\* The meta page that will be written.
Prepared ==
  pc \in Saving =>
    /\ Whole(Meta) /\ Meta.last >= Committed.last
    /\ \A x \in PagesOf(Committed.tree) : x \in PagesOf(tree) \/ <<txnid, x>> \in free
    /\ \A n \in Nat, x \in Pages : n > pglast /\ <<n, x>> \in Committed.free => <<n, x>> \in free

-----------------------------------------------------------------------------
(***************************************************************************)
(* Readers                                                                 *)
(***************************************************************************)
Protected == {r \in Readers : rpc[r] \in {"copy", "last", "read"}}
Seen(r) == IF rpc[r] = "copy" THEN metas[slot[r] % 2].tree ELSE rtree[r]
Within(r) == IF rpc[r] = "read" THEN rlast[r] ELSE metas[slot[r] % 2].last

\* What tree t uses is in use in m, or was freed by a transaction after s.
Held(m, t, s) ==
  \A x \in PagesOf(t) : x \in PagesOf(m.tree) \/ \E n \in Nat : n > s /\ <<n, x>> \in m.free

\* Nothing that was fetched, and nothing that is yet to be, is as recent as s.
Behind(s) ==
  /\ \A p \in Procs : alive[p] => pgoldest[p] <= s
  /\ pc = "scan" => oldest <= s
  /\ pc \in Making \cup Saving => pglast = 0 \/ pglast < s
Protects(r) ==
  /\ slot[r] \in Nat /\ slot[r] <= mti
  /\ \A p \in Procs : alive[p] => pgoldest[p] <= slot[r]
  /\ pc = "scan" => r \in scan \/ oldest <= slot[r]
  /\ pc \in Making \cup Saving => pglast = 0 \/ pglast < slot[r]

ReadersHold ==
  /\ \A r \in Readers : rpc[r] # "idle" => alive[Home[r]]
  /\ Behind(mti)
  /\ \A r \in Protected : Protects(r)
  /\ ~MetaFailed =>
       /\ (\E p \in Procs : alive[p]) => Held(Latest, Committed.tree, mti)
       /\ \A r \in Protected :
            /\ Held(Latest, Seen(r), slot[r])
            /\ \A x \in PagesOf(Seen(r)) : x <= Within(r)

Inv == Typed /\ MetasWhole /\ Control /\ OnDisk /\ Work /\ Prepared /\ ReadersHold

-----------------------------------------------------------------------------
(***************************************************************************)
(* Lemmas about the operators                                              *)
(***************************************************************************)
\* A set of numbers that is not empty has a smallest one.
LEMMA SmallestIn ==
  ASSUME NEW S \in SUBSET Nat, S # {}
  PROVE  Smallest(S) \in S /\ \A n \in S : Smallest(S) <= n
<1> DEFINE R == OpToRel(<, Nat)
<1>1. \A i, j \in Nat : i < j => <<i, j>> \in R
  BY DEF OpToRel
<1>2. IsWellFoundedOn(R, Nat)
  BY NatLessThanWellFounded
<1> HIDE DEF R
<1>3. PICK n \in S : \A m \in S : ~ (<<m, n>> \in R)
  BY <1>2, WFMin
<1>4. ASSUME NEW m \in S PROVE n <= m
  <2>1. m \in Nat /\ n \in Nat
    OBVIOUS
  <2>2. ~ (m < n)
    BY <1>1, <1>3, <2>1
  <2> QED
    BY <2>1, <2>2
<1> QED
  BY <1>4 DEF Smallest

\* What PagesOf contains.
LEMMA PagesOfTree ==
  ASSUME NEW t \in Trees

           PROVE  PagesOf(t) \subseteq Pages /\
                    \A x \in Pages : x \in PagesOf(t) <=> \E k \in Keys : t[k] = x
  BY BoundsAssumption DEF PagesOf, Trees, Pages

\* What the free list contains once it is saved.
LEMMA SavedIs ==
  ASSUME free \in Listed, freed \subseteq Pages, loose \subseteq Pages, pghead \subseteq Pages,
         pglast \in Nat, txnid \in Nat
  PROVE  /\ Saved \in Listed
         /\ \A n \in Nat, x \in Pages : <<n, x>> \in Saved <=>
              \/ <<n, x>> \in free /\ n > pglast
              \/ n = txnid /\ (x \in freed \/ (pglast = 0 /\ x \in loose))
              \/ n = pglast /\ pglast # 0 /\ x \in pghead \cup loose
<1>1. \A e \in free : e = <<e[1], e[2]>> /\ e[1] \in Nat /\ e[2] \in Pages
  BY DEF Listed
<1> QED
  BY <1>1 DEF Saved, Listed

-----------------------------------------------------------------------------
(***************************************************************************)
(* Types                                                                   *)
(***************************************************************************)
Pcs  == {"idle", "write", "alloc", "scan", "sync", "meta", "publish", "restore", "panic",
         "failed"}
Rpcs == {"idle", "load", "announce", "check", "copy", "last", "read"}

DataTypes ==
  /\ map \in [Pages -> Nat] /\ disk \in [Pages -> SUBSET Nat]
  /\ metas \in [{0, 1} -> Metas] /\ dmetas \in [{0, 1} -> SUBSET Metas]
LockTypes ==
  /\ mti \in Nat /\ owner \in Procs \cup {NoProc, Died}
  /\ alive \in [Procs -> BOOLEAN] /\ fatal \in [Procs -> BOOLEAN] /\ pgoldest \in [Procs -> Nat]
  /\ pc \in Pcs /\ txnid \in Nat /\ stamp \in Nat /\ metab \in [txnid : Nat, last : Nat]
TreeTypes ==
  /\ tree \in Trees /\ free \in Listed /\ nextpg \in Nat
  /\ freed \subseteq Pages /\ loose \subseteq Pages /\ dirty \subseteq Pages
  /\ pghead \subseteq Pages /\ pglast \in Nat /\ want \in Keys \cup {NoKey}
ScanTypes == found \in BOOLEAN /\ scan \subseteq Readers /\ oldest \in Nat
ReadTypes ==
  /\ slot \in [Readers -> Nat \cup {Idle}] /\ rpc \in [Readers -> Rpcs]
  /\ reg \in [Readers -> Nat] /\ rtree \in [Readers -> Trees] /\ rlast \in [Readers -> Nat]
  /\ floor \in [Readers -> Nat]
HistTypes == log \in Seq([Keys -> Nat]) /\ kept \in Nat /\ stops \in Nat

LEMMA TypesAre ==
  TypeOK <=> DataTypes /\ LockTypes /\ TreeTypes /\ ScanTypes /\ ReadTypes /\ HistTypes
BY Zenon DEF TypeOK, DataTypes, LockTypes, TreeTypes, ScanTypes, ReadTypes, HistTypes, Pcs, Rpcs

LEMMA TypesAreNext ==
  DataTypes' /\ LockTypes' /\ TreeTypes' /\ ScanTypes' /\ ReadTypes' /\ HistTypes' => TypeOK'
BY Zenon DEF TypeOK, DataTypes, LockTypes, TreeTypes, ScanTypes, ReadTypes, HistTypes, Pcs, Rpcs

\* Numbers are 0 or 1 modulo 2.
LEMMA Modulo ==
  ASSUME NEW n \in Nat
  PROVE  n % 2 \in {0, 1} /\ (n + 1) % 2 \in {0, 1} /\ n % 2 # (n + 1) % 2
OBVIOUS

\* What starts from nothing.
LEMMA EmptyTypes ==
  /\ NewMeta.tree \in Trees /\ NewMeta \in Metas /\ NewMeta.txnid = 0 /\ NewMeta.last = 1
  /\ NewMeta.free = {} /\ \A k \in Keys : NewMeta.tree[k] = 0
  /\ {} \in Listed
BY DEF NewMeta, Metas, Trees, Listed

LEMMA TypedInit == Init => Typed
<1> SUFFICES ASSUME Init PROVE Typed
  OBVIOUS
<1>1. DataTypes
  BY EmptyTypes DEF Init, DataTypes
<1>2. LockTypes /\ TreeTypes /\ ScanTypes /\ ReadTypes
  BY EmptyTypes DEF Init, LockTypes, TreeTypes, ScanTypes, ReadTypes, Pcs, Rpcs, Idle
<1>3. HistTypes /\ Len(log) = 1
  BY EmptyTypes DEF Init, HistTypes, NewMeta
<1>4. Bounded /\ Holding
  BY EmptyTypes, <1>3 DEF Init, Bounded, Holding, Sane, Parity, Toggle, Meta
<1> QED
  BY <1>1, <1>2, <1>3, <1>4, TypesAre DEF Typed

\* Readers
LEMMA TypedRead ==
  ASSUME Typed, NEW r \in Readers, Read(r)
  PROVE  Typed'
<1> USE DEF ReadOnly, dataVars, procVars, txnVars, treeVars, scanVars
<1>0. /\ DataTypes /\ LockTypes /\ TreeTypes /\ ScanTypes /\ ReadTypes /\ HistTypes
      /\ Bounded /\ Holding
  BY TypesAre DEF Typed
<1>1. ReadOnly
  BY DEF Read, Load, Announce, Check, Copy, Last, Finish, EndRead
<1>2. DataTypes' /\ LockTypes' /\ TreeTypes' /\ ScanTypes' /\ HistTypes' /\ Bounded' /\ Holding'
  BY <1>0, <1>1 DEF DataTypes, LockTypes, TreeTypes, ScanTypes, HistTypes, Bounded, Holding, Sane,
     Parity, Toggle, Meta
<1>3. ReadTypes'
  <2> USE <1>0 DEF ReadTypes, Rpcs, Goto
  <2>1. CASE Load(r)
    BY <2>1 DEF Load, LockTypes
  <2>2. CASE Announce(r)
    BY <2>2 DEF Announce
  <2>3. CASE Check(r)
    <3>1. Len(log) \in Nat
      BY <1>0 DEF HistTypes
    <3> QED
      BY <2>3, <3>1 DEF Check, Agrees
  <2>4. CASE Copy(r)
    <3>1. metas[slot[r] % 2].tree \in Trees
      <4>1. slot[r] % 2 \in {0, 1}
        BY DEF Idle
      <4> QED
        BY <4>1 DEF DataTypes, Metas
    <3> QED
      BY <2>4, <3>1 DEF Copy
  <2>5. CASE EndRead(r)
    BY <2>5, EmptyTypes DEF EndRead, NoReads
  <2>6. CASE Last(r)
    <3>1. metas[slot[r] % 2].last \in Nat
      <4>1. slot[r] % 2 \in {0, 1}
        BY DEF Idle
      <4> QED
        BY <4>1 DEF DataTypes, Metas
    <3> QED
      BY <2>5, <2>6, <3>1 DEF Last, LastPage
  <2> QED
    BY <2>1, <2>2, <2>3, <2>4, <2>5, <2>6 DEF Read, Finish
<1> QED
  BY <1>2, <1>3, TypesAreNext DEF Typed

\* The smallest of a set of pages is one of them; fetched records hold pages.
LEMMA SmallestPage ==
  ASSUME NEW S \in SUBSET Pages, S # {}
  PROVE  Smallest(S) \in S
<1>1. S \in SUBSET Nat
  BY BoundsAssumption DEF Pages
<1> QED
  BY <1>1, SmallestIn

LEMMA LimitIs ==
  ASSUME free \in Listed, pglast \in Nat
  PROVE  /\ Limit \in Nat
         /\ Later \subseteq Nat
         /\ Later # {} => Limit \in Later /\ \A n \in Later : Limit <= n
         /\ \A n \in Nat : Record(n) \subseteq Pages
         /\ Later # {} => Record(Limit) # {} /\ Limit > pglast
<1>1. \A e \in free : e[1] \in Nat /\ e[2] \in Pages
  BY DEF Listed
<1>2. Later \in SUBSET Nat /\ \A n \in Later : n > pglast /\ \E e \in free : e[1] = n
  BY <1>1 DEF Later
<1>3. Later # {} => Limit \in Later /\ \A n \in Later : Limit <= n
  BY <1>2, SmallestIn DEF Limit
<1>4. \A n \in Nat : Record(n) \subseteq Pages
  BY <1>1 DEF Record
<1>5. ASSUME Later # {} PROVE Record(Limit) # {}
  <2>1. PICK e \in free : e[1] = Limit
    BY <1>2, <1>3, <1>5
  <2> QED
    BY <2>1 DEF Record
<1>6. Later # {} => Limit \in Nat /\ Limit > pglast
  BY <1>2, <1>3
<1>7. Later = {} => Limit \in Nat
  BY DEF Limit
<1> QED
  BY <1>2, <1>3, <1>4, <1>5, <1>6, <1>7

\* The write transaction, until it commits.
Quiet ==
  \/ \E k \in Keys : Touch(k) \/ Drop(k)
  \/ FromLoose \/ FromHead \/ FromRecord \/ Extend \/ Full
  \/ FindOldest \/ \E r \in Readers : Scan(r)

LEMMA TypedPlace ==
  ASSUME Typed, pc = "alloc", NEW page \in Pages, Place(page)
  PROVE  /\ tree' \in Trees /\ dirty' \subseteq Pages /\ freed' \subseteq Pages
         /\ pc' = "write" /\ want' = NoKey
         /\ UNCHANGED <<pgoldest, free, found, scan, oldest>> /\ Private
<1>1. TreeTypes /\ want \in Keys
  BY TypesAre DEF Typed, Holding
<1>2. tree[want] \in {0} \cup Pages
  BY <1>1 DEF TreeTypes, Trees
<1> QED
  BY <1>1, <1>2 DEF Place, TreeTypes, Trees, scanVars

LEMMA TypedQuiet ==
  ASSUME Typed, Quiet
  PROVE  Typed'
<1> USE DEF Private, WriteOnly, dataVars, procVars, txnVars, scanVars, readerVars
<1>0. /\ DataTypes /\ LockTypes /\ TreeTypes /\ ScanTypes /\ ReadTypes /\ HistTypes
      /\ Bounded /\ Holding
  BY TypesAre DEF Typed
<1>1. Private
  BY DEF Quiet, Touch, Drop, FromLoose, FromHead, FromRecord, Extend, Full, FindOldest, Scan, Place,
         Found
<1>2. DataTypes' /\ ReadTypes' /\ HistTypes'
  BY <1>0, <1>1 DEF DataTypes, ReadTypes, HistTypes
<1> DEFINE Rest ==
      /\ TreeTypes' /\ ScanTypes' /\ pgoldest' \in [Procs -> Nat] /\ pc' \in Making \cup {"failed"}
      /\ nextpg' >= 2 /\ (pc' \in {"alloc", "scan"} => want' \in Keys) /\ pc # "idle"
<1>3. Rest
  <2> USE <1>0 DEF TreeTypes, ScanTypes, Pcs, LockTypes, Bounded, Holding, Making
  <2>1. ASSUME NEW k \in Keys, Touch(k) PROVE Rest
    BY <2>1 DEF Touch
  <2>2. ASSUME NEW k \in Keys, Drop(k) PROVE Rest
    <3>1. tree[k] \in Pages
      BY <2>2 DEF Drop, Trees
    <3>2. tree' \in Trees
      BY <2>2 DEF Drop, Trees
    <3> QED
      BY <2>2, <3>1, <3>2 DEF Drop
  <2>3. CASE FromLoose
    <3>1. PICK page \in loose : Place(page) /\ loose' = loose \ {page}
      BY <2>3 DEF FromLoose
    <3>2. page \in Pages /\ pc = "alloc" /\ UNCHANGED <<nextpg, pghead, pglast>>
      BY <2>3 DEF FromLoose
    <3> QED
      BY <3>1, <3>2, TypedPlace
  <2>4. CASE FromHead
    <3>1. Smallest(pghead) \in Pages
      BY <2>4, SmallestPage DEF FromHead
    <3> QED
      BY <2>4, <3>1, TypedPlace DEF FromHead
  <2>5. CASE FromRecord
    <3>1. Limit \in Nat /\ Record(Limit) \subseteq Pages /\ Smallest(Record(Limit)) \in Pages
      BY <2>5, LimitIs, SmallestPage DEF FromRecord
    <3> QED
      BY <2>5, <3>1, TypedPlace DEF FromRecord
  <2>6. CASE Extend
    <3>1. nextpg \in Pages /\ pc = "alloc"
      BY <2>6, BoundsAssumption DEF Extend, NothingFree, Room, Pages
    <3> QED
      BY <2>6, <3>1, TypedPlace DEF Extend
  <2>7. CASE Full
    BY <2>7 DEF Full, NothingFree, treeVars
  <2>8. ASSUME NEW S \in SUBSET Readers, NEW n \in Nat, Found(S, n), pc \in {"alloc", "scan"}
        PROVE  Rest
    BY <2>8 DEF Found, treeVars
  <2>9. CASE FindOldest
    <3>1. txnid - 1 \in Nat /\ pc = "alloc" /\ Readers \in SUBSET Readers
      BY <2>9 DEF FindOldest
    <3> QED
      BY <2>8, <2>9, <3>1 DEF FindOldest
  <2>10. ASSUME NEW r \in Readers, Scan(r) PROVE Rest
    <3>1. Older(r) => slot[r] \in Nat
      BY DEF Older, ReadTypes
    <3> QED
      BY <2>8, <2>10, <3>1 DEF Scan
  <2> QED
    BY <2>1, <2>2, <2>3, <2>4, <2>5, <2>6, <2>7, <2>9, <2>10 DEF Quiet
<1>4. LockTypes' /\ Bounded' /\ Holding'
  BY <1>0, <1>1, <1>3 DEF LockTypes, Bounded, Holding, Sane, Parity, Toggle, Meta, Pcs, Making
<1> QED
  BY <1>2, <1>3, <1>4, TypesAreNext DEF Typed

\* The log has one database for each number up to that of its last commit.
LEMMA LogUpToIs ==
  ASSUME log \in Seq([Keys -> Nat]), NEW m \in Metas, m.txnid <= Len(log),
         NEW pages \in [Pages -> Nat]
  PROVE  LogUpTo(m, pages) \in Seq([Keys -> Nat]) /\ Len(LogUpTo(m, pages)) = m.txnid + 1
<1> DEFINE last == [k \in Keys |-> IF m.tree[k] = 0 THEN 0 ELSE pages[m.tree[k]]]
<1>1. last \in [Keys -> Nat]
  BY DEF Metas, Trees
<1>2. m.txnid \in Nat
  BY DEF Metas
<1>3. SubSeq(log, 1, m.txnid) \in Seq([Keys -> Nat]) /\ Len(SubSeq(log, 1, m.txnid)) = m.txnid
  BY <1>2
<1> HIDE DEF last
<1>4. /\ Append(SubSeq(log, 1, m.txnid), last) \in Seq([Keys -> Nat])
      /\ Len(Append(SubSeq(log, 1, m.txnid), last)) = m.txnid + 1
  BY <1>1, <1>3
<1> QED
  BY <1>4 DEF LogUpTo, last

LEMMA NoTxnTypes ==
  ASSUME NoTxn
  PROVE  /\ pc' = "idle" /\ txnid' = 0 /\ metab' \in [txnid : Nat, last : Nat] /\ nextpg' = 2
         /\ metab'.txnid = 0 /\ metab'.last = 1 /\ TreeTypes' /\ ScanTypes'
BY EmptyTypes DEF NoTxn, TreeTypes, ScanTypes

\* The meta page to be written is one.
LEMMA MetaIs ==
  ASSUME Typed, pc # "idle"
  PROVE  /\ Meta \in Metas /\ Sane(Toggle, Meta) /\ Toggle \in {0, 1} /\ Meta.txnid = txnid
         /\ Meta.tree = tree /\ Meta.free = free /\ Meta.last = nextpg - 1
<1>1. LockTypes /\ TreeTypes /\ Bounded /\ txnid = mti + 1
  BY TypesAre DEF Typed, Holding
<1>2. nextpg - 1 \in Nat /\ nextpg - 1 >= 1 /\ txnid \in Nat /\ tree \in Trees /\ free \in Listed
  BY <1>1 DEF LockTypes, TreeTypes, Bounded
<1> QED
  BY <1>1, <1>2, Modulo DEF Meta, Metas, Sane, Parity, Toggle

\* The write transaction, while it commits.
Commits ==
  \/ Flush \/ FlushFails \/ Sync \/ SyncFails
  \/ \E sync \in MetaSync : WriteMeta(sync)
  \/ WriteMetaFails \/ Restore(TRUE) \/ Restore(FALSE)

LEMMA TypedCommits ==
  ASSUME Typed, Commits
  PROVE  Typed'
<1> USE DEF CommitOnly, WriteOnly, dataVars, procVars, txnVars, treeVars, scanVars, readerVars
<1>0. /\ DataTypes /\ LockTypes /\ TreeTypes /\ ScanTypes /\ ReadTypes /\ HistTypes
      /\ Bounded /\ Holding
  BY TypesAre DEF Typed
<1>1. CommitOnly /\ pc # "idle" /\ pc' \in Pcs \ {"idle", "alloc", "scan"} /\ UNCHANGED want
  BY DEF Commits, Flush, FlushFails, Sync, SyncFails, WriteMeta, WriteMetaFails, Restore, Pcs
<1>2. /\ Meta \in Metas /\ Sane(Toggle, Meta) /\ Toggle \in {0, 1} /\ Meta.txnid = txnid
      /\ Meta.tree = tree /\ Meta.free = free /\ Meta.last = nextpg - 1
  BY <1>1, MetaIs
<1>3. TreeTypes' /\ UNCHANGED nextpg
  <2>1. CASE Flush \/ FlushFails
    BY <1>0, <2>1, SavedIs DEF Flush, FlushFails, TreeTypes, LockTypes
  <2>2. CASE UNCHANGED treeVars
    BY <1>0, <2>2 DEF TreeTypes
  <2> QED
    BY <2>1, <2>2 DEF Commits, Sync, SyncFails, WriteMeta, WriteMetaFails, Restore
<1>4. ScanTypes' /\ ReadTypes'
  BY <1>0, <1>1 DEF ScanTypes, ReadTypes
<1>5. map' \in [Pages -> Nat] /\ disk' \in [Pages -> SUBSET Nat]
  <2> USE <1>0 DEF DataTypes, LockTypes, HistTypes
  <2>1. ASSUME NEW S, Written(S) PROVE map' \in [Pages -> Nat] /\ disk' \in [Pages -> SUBSET Nat]
    BY <2>1 DEF Written
  <2>2. CASE Flush
    BY <2>1, <2>2 DEF Flush
  <2>3. CASE FlushFails
    BY <2>1, <2>3 DEF FlushFails
  <2>4. CASE Sync
    BY <2>4 DEF Sync
  <2>5. CASE UNCHANGED <<map, disk>>
    BY <2>5
  <2> QED
    BY <2>2, <2>3, <2>4, <2>5 DEF Commits, SyncFails, WriteMeta, WriteMetaFails, Restore
<1> DEFINE MetaTypes ==
      /\ metas' \in [{0, 1} -> Metas] /\ dmetas' \in [{0, 1} -> SUBSET Metas]
      /\ metab' \in [txnid : Nat, last : Nat] /\ (pc' = "restore" => Sane(Toggle, metab'))
      /\ metas'[mti % 2].txnid = mti
      /\ (pc' = "publish" => metas'[Toggle] = Meta /\ UNCHANGED <<tree, free, nextpg, txnid>>)
      /\ \A i \in {0, 1} : Sane(i, metas'[i]) /\ \A m \in dmetas'[i] : Sane(i, m)
<1>6. MetaTypes
  <2> USE <1>0, <1>2 DEF DataTypes, Bounded
  <2>1. metab \in [txnid : Nat, last : Nat] /\ Toggle # mti % 2 /\ mti % 2 \in {0, 1}
    BY <1>1, Modulo DEF LockTypes, Toggle, Holding
  <2>2. CASE UNCHANGED <<metas, dmetas, metab>> /\ pc' \notin {"restore", "publish"}
    BY <2>1, <2>2
  <2>3. CASE Sync
    BY <2>1, <2>3 DEF Sync
  <2>4. ASSUME NEW sync \in MetaSync, WriteMeta(sync) PROVE MetaTypes
    BY <2>1, <2>4 DEF WriteMeta
  <2>5. CASE WriteMetaFails
    <3>1. metab' \in [txnid : Nat, last : Nat] /\ Sane(Toggle, metab')
      BY <2>5 DEF WriteMetaFails, Metas, Sane, Parity
    <3> QED
      BY <2>1, <2>5, <3>1 DEF WriteMetaFails
  <2>6. ASSUME NEW works \in BOOLEAN, Restore(works) PROVE MetaTypes
    <3> DEFINE meta == [Meta EXCEPT !.txnid = metab.txnid, !.last = metab.last]
    <3>1. meta \in Metas /\ Sane(Toggle, meta)
      BY <2>1, <2>6 DEF Restore, Metas, Sane, Parity
    <3> HIDE DEF meta
    <3>2. CASE works
      <4>1. /\ metas' = [metas EXCEPT ![Toggle] = meta]
            /\ dmetas' = [dmetas EXCEPT ![Toggle] = @ \cup {meta}]
            /\ UNCHANGED metab /\ pc' = "panic"
        BY <2>6, <3>2 DEF Restore, meta
      <4> QED
        BY <2>1, <3>1, <4>1
    <3>3. CASE ~works
      BY <2>2, <2>6, <3>3 DEF Restore
    <3> QED
      BY <3>2, <3>3
  <2> QED
    BY <2>2, <2>3, <2>4, <2>5, <2>6 DEF Commits, Flush, FlushFails, SyncFails
<1>7. kept' \in Nat
  <2>1. kept' \in {kept, Len(log)}
    BY <1>0, <1>1 DEF Commits, Flush, FlushFails, Sync, SyncFails, WriteMeta, WriteMetaFails,
       Restore
  <2> QED
    BY <1>0, <2>1 DEF HistTypes
<1>8. DataTypes' /\ HistTypes' /\ LockTypes'
  BY <1>0, <1>1, <1>5, <1>6, <1>7 DEF DataTypes, HistTypes, LockTypes
<1>9. Bounded' /\ Holding'
  BY <1>0, <1>1, <1>3, <1>6 DEF Bounded, Holding, Sane, Parity, Toggle, Meta
<1> QED
  BY <1>3, <1>4, <1>8, <1>9, TypesAreNext DEF Typed

\* The newest meta page, as it is found.
LEMMA NewestIs ==
  ASSUME NEW m \in [{0, 1} -> Metas]
  PROVE  /\ Newest(m) \in Metas /\ Newest(m) = Better(m[0], m[1]) /\ Newest(m) \in {m[0], m[1]}
         /\ \A i \in {0, 1} : m[i].txnid <= Newest(m).txnid
BY DEF Newest, Better, Metas

LEMMA NoReadsTypes ==
  ASSUME ReadTypes, NEW R, NoReads(R)
  PROVE  /\ rpc' \in [Readers -> Rpcs] /\ reg' \in [Readers -> Nat] /\ rtree' \in [Readers -> Trees]
         /\ rlast' \in [Readers -> Nat] /\ floor' \in [Readers -> Nat]
BY EmptyTypes DEF ReadTypes, NoReads, Rpcs

\* Transactions that end, processes and the system.
LEMMA TypedOpenFirst ==
  ASSUME Typed, NEW p \in Procs, NEW m \in [{0, 1} -> Metas], NEW pages \in [Pages -> Nat],
         OpenFirst(p, m, pages), \A i \in {0, 1} : Sane(i, m[i])
  PROVE  /\ LockTypes' /\ TreeTypes' /\ ScanTypes' /\ ReadTypes'
         /\ log' \in Seq([Keys -> Nat]) /\ Len(log') = mti' + 1 /\ UNCHANGED kept
         /\ Holding' /\ nextpg' = 2 /\ metab'.txnid = 0 /\ metab'.last = 1
         /\ \A i \in {0, 1} : m[i].txnid <= mti'
         /\ m[mti' % 2].txnid = mti' /\ pc' = "idle"
<1>0. LockTypes /\ ReadTypes /\ HistTypes /\ Bounded
  BY TypesAre DEF Typed
<1>1. Newest(m) \in Metas /\ Newest(m) \in {m[0], m[1]} /\
        \A i \in {0, 1} : m[i].txnid <= Newest(m).txnid
  BY NewestIs
<1>2. Newest(m).txnid <= Len(log)
  BY <1>0, <1>1 DEF Sane, Bounded
<1>3. LogUpTo(Newest(m), pages) \in Seq([Keys -> Nat]) /\
        Len(LogUpTo(Newest(m), pages)) = Newest(m).txnid + 1
  BY <1>0, <1>1, <1>2, LogUpToIs DEF HistTypes
<1>4. /\ pc' = "idle" /\ txnid' = 0 /\ metab' \in [txnid : Nat, last : Nat] /\ nextpg' = 2
      /\ metab'.txnid = 0 /\ metab'.last = 1 /\ TreeTypes' /\ ScanTypes'
  BY NoTxnTypes DEF OpenFirst
<1>5. Newest(m).txnid \in Nat
  BY <1>1 DEF Metas
<1>6. LockTypes'
  BY <1>0, <1>4, <1>5 DEF OpenFirst, LockTypes, Pcs
<1>7. ReadTypes'
  BY <1>0, NoReadsTypes DEF OpenFirst, ReadTypes, Idle
<1>8. m[mti' % 2].txnid = mti'
  <2>1. PICK j \in {0, 1} : Newest(m) = m[j]
    BY <1>1
  <2>2. mti' = m[j].txnid /\ mti' \in Nat /\ Parity(j, m[j])
    BY <1>5, <2>1 DEF OpenFirst, Sane
  <2>3. CASE m[j].txnid % 2 = j
    BY <2>2, <2>3
  <2>4. CASE m[j].txnid = 0
    <3>1. m[0].txnid \in Nat /\ m[0].txnid <= 0 /\ 0 % 2 = 0
      BY <1>1, <2>1, <2>4 DEF Metas
    <3> QED
      BY <2>2, <2>4, <3>1
  <2> QED
    BY <2>2, <2>3, <2>4 DEF Parity
<1> QED
  BY <1>1, <1>3, <1>4, <1>5, <1>6, <1>7, <1>8 DEF OpenFirst, Holding

Stops ==
  \/ \E p \in Procs : Kill(p) \/ Open(p) \/ Reopen(p) \/ SystemCrash(p)
  \/ ReaderCheck

LEMMA CheckedTypes ==
  ASSUME ReadTypes PROVE Checked \in [Readers -> Nat \cup {Idle}]
BY DEF ReadTypes, Checked, Idle

LEMMA TypedStops ==
  ASSUME Typed, Stops
  PROVE  Typed'
<1> USE DEF dataVars, procVars, txnVars, treeVars, scanVars, readerVars, histVars
<1>0. /\ DataTypes /\ LockTypes /\ TreeTypes /\ ScanTypes /\ ReadTypes /\ HistTypes
      /\ Bounded /\ Holding
  BY TypesAre DEF Typed
<1>1. ASSUME NEW p \in Procs, Kill(p) PROVE Typed'
  <2>1. DataTypes' /\ HistTypes'
    BY <1>0, <1>1 DEF Kill, DataTypes, HistTypes
  <2>2. ReadTypes'
    BY <1>0, <1>1, NoReadsTypes DEF Kill, ReadTypes
  <2>3. CASE owner = p
    <3>1. /\ pc' = "idle" /\ txnid' = 0 /\ metab' \in [txnid : Nat, last : Nat] /\ nextpg' = 2
          /\ metab'.txnid = 0 /\ metab'.last = 1 /\ TreeTypes' /\ ScanTypes' /\ owner' = Died
      BY <1>1, <2>3, NoTxnTypes DEF Kill
    <3>2. LockTypes'
      BY <1>0, <1>1, <3>1 DEF Kill, LockTypes, Pcs
    <3>3. Bounded' /\ Holding'
      BY <1>0, <1>1, <3>1 DEF Kill, Bounded, Holding, Sane, Parity, Toggle, Meta, LockTypes
    <3> QED
      BY <2>1, <2>2, <3>1, <3>2, <3>3, TypesAreNext DEF Typed
  <2>4. CASE owner # p
    <3>1. UNCHANGED <<owner, pc, txnVars>>
      BY <1>1, <2>4 DEF Kill
    <3>2. LockTypes' /\ TreeTypes' /\ ScanTypes'
      BY <1>0, <1>1, <3>1 DEF Kill, LockTypes, TreeTypes, ScanTypes
    <3>3. Bounded' /\ Holding'
      BY <1>0, <1>1, <2>4, <3>1 DEF Kill, Bounded, Holding, Sane, Parity, Toggle, Meta, LockTypes
    <3> QED
      BY <2>1, <2>2, <3>2, <3>3, TypesAreNext DEF Typed
  <2> QED
    BY <2>3, <2>4
<1>2. ASSUME NEW p \in Procs, Open(p) PROVE Typed'
  <2>1. DataTypes' /\ HistTypes' /\ ReadTypes' /\ TreeTypes' /\ ScanTypes'
    BY <1>0, <1>2 DEF Open, DataTypes, HistTypes, ReadTypes, TreeTypes, ScanTypes
  <2>2. LockTypes' /\ Bounded' /\ Holding'
    BY <1>0, <1>2 DEF Open, LockTypes, Bounded, Holding, Sane, Parity, Toggle, Meta
  <2> QED
    BY <2>1, <2>2, TypesAreNext DEF Typed
<1>3. ASSUME NEW p \in Procs, Reopen(p) PROVE Typed'
  <2>1. OpenFirst(p, metas, map) /\ metas \in [{0, 1} -> Metas] /\ map \in [Pages -> Nat]
        /\ \A i \in {0, 1} : Sane(i, metas[i])
    BY <1>0, <1>3 DEF Reopen, DataTypes, Bounded
  <2>2. /\ LockTypes' /\ TreeTypes' /\ ScanTypes' /\ ReadTypes'
        /\ log' \in Seq([Keys -> Nat]) /\ Len(log') = mti' + 1 /\ UNCHANGED kept
        /\ Holding' /\ nextpg' = 2 /\ pc' = "idle"
        /\ (\A i \in {0, 1} : metas[i].txnid <= mti') /\ metas[mti' % 2].txnid = mti'
    BY <2>1, TypedOpenFirst
  <2>3. DataTypes' /\ HistTypes'
    BY <1>0, <1>3, <2>2 DEF Reopen, DataTypes, HistTypes
  <2>4. /\ \A i \in {0, 1} : metas[i].txnid \in Nat /\ \A m \in dmetas[i] : m.txnid \in Nat
        /\ mti \in Nat /\ mti' \in Nat /\ mti <= mti'
    <3>1. mti \in Nat /\ mti % 2 \in {0, 1}
      BY <1>0, Modulo DEF LockTypes
    <3>2. /\ \A i \in {0, 1} : metas[i].txnid \in Nat /\ \A m \in dmetas[i] : m.txnid \in Nat
      BY <1>0 DEF DataTypes, Metas
    <3>3. mti' \in Nat
      BY <2>2 DEF LockTypes
    <3>4. mti <= mti'
      BY <1>0, <2>2, <3>1 DEF Bounded
    <3> QED
      BY <3>1, <3>2, <3>3, <3>4
  <2>5. UNCHANGED <<metas, dmetas>>
    BY <1>3 DEF Reopen
  <2>6. ASSUME NEW i \in {0, 1}, NEW m \in dmetas[i] \cup {metas[i]} PROVE Sane(i, m)'
    BY <1>0, <2>4, <2>6 DEF Bounded, Sane, Parity
  <2>7. Bounded'
    BY <2>2, <2>5, <2>6 DEF Bounded
  <2> QED
    BY <2>2, <2>3, <2>7, TypesAreNext DEF Typed
<1>4. ASSUME NEW p \in Procs, SystemCrash(p) PROVE Typed'
  <2>1. OpenFirst(p, metas', map') /\ UNCHANGED kept
    BY <1>4 DEF SystemCrash, OpenFirst
  <2>2. map' \in [Pages -> Nat] /\ disk' \in [Pages -> SUBSET Nat]
    <3>1. map' \in [Pages -> 0 .. stamp] /\ stamp \in Nat
      BY <1>0, <1>4 DEF SystemCrash, LockTypes
    <3>2. map' \in [Pages -> Nat]
      BY <3>1
    <3> QED
      BY <1>4, <3>2 DEF SystemCrash
  <2>3. /\ metas' \in [{0, 1} -> Metas] /\ dmetas' \in [{0, 1} -> SUBSET Metas]
        /\ \A i \in {0, 1} : metas'[i] \in dmetas[i] /\ dmetas'[i] = {metas'[i]}
    BY <1>0, <1>4 DEF SystemCrash, DataTypes
  <2>4. \A i \in {0, 1} : Sane(i, metas'[i])
    BY <1>0, <2>3 DEF Bounded
  <2>5. /\ LockTypes' /\ TreeTypes' /\ ScanTypes' /\ ReadTypes'
        /\ log' \in Seq([Keys -> Nat]) /\ Len(log') = mti' + 1
        /\ Holding' /\ nextpg' = 2 /\ pc' = "idle"
        /\ (\A i \in {0, 1} : metas'[i].txnid <= mti') /\ metas'[mti' % 2].txnid = mti'
    BY <2>1, <2>2, <2>3, <2>4, TypedOpenFirst
  <2>6. DataTypes' /\ HistTypes'
    BY <1>0, <1>4, <2>1, <2>2, <2>3, <2>5 DEF SystemCrash, DataTypes, HistTypes
  <2>7. \A i \in {0, 1} : metas'[i].txnid \in Nat /\ mti' \in Nat
    BY <2>3, <2>5 DEF Metas, LockTypes
  <2>8. Bounded'
    BY <2>3, <2>4, <2>5, <2>7 DEF Bounded, Sane, Parity
  <2> QED
    BY <2>5, <2>6, <2>8, TypesAreNext DEF Typed
<1>5. CASE ReaderCheck
  <2>1. ReadTypes'
    BY <1>0, <1>5, CheckedTypes DEF ReaderCheck, ReadTypes
  <2>2. DataTypes' /\ HistTypes' /\ TreeTypes' /\ ScanTypes' /\ LockTypes' /\ Bounded' /\ Holding'
    BY <1>0, <1>5 DEF ReaderCheck, DataTypes, HistTypes, TreeTypes, ScanTypes, LockTypes, Bounded,
       Holding, Sane, Parity, Toggle, Meta
  <2> QED
    BY <2>1, <2>2, TypesAreNext DEF Typed
<1> QED
  BY <1>1, <1>2, <1>3, <1>4, <1>5 DEF Stops

\* A transaction begins, is published or ends.
Turns == Publish \/ Abort \/ Panic \/ \E p \in Procs : Begin(p)

\* The numbers after the newest meta page becomes the last commit.
LEMMA NewestCounts ==
  ASSUME Typed
  PROVE  /\ Newest(metas) \in Metas /\ Newest(metas).txnid \in Nat /\ mti <= Newest(metas).txnid
         /\ metas[Newest(metas).txnid % 2] = Newest(metas)
         /\ Sane(0, Newest(metas)) \/ Sane(1, Newest(metas))
<1>0. DataTypes /\ LockTypes /\ Bounded
  BY TypesAre DEF Typed
<1>1. /\ Newest(metas) \in Metas /\ Newest(metas) \in {metas[0], metas[1]}
      /\ \A i \in {0, 1} : metas[i].txnid <= Newest(metas).txnid
  BY <1>0, NewestIs DEF DataTypes
<1>2. mti \in Nat /\ mti % 2 \in {0, 1} /\ Newest(metas).txnid \in Nat
  BY <1>0, <1>1, Modulo DEF LockTypes, Metas
<1>3. \A i \in {0, 1} : metas[i].txnid \in Nat /\ Sane(i, metas[i])
  BY <1>0 DEF DataTypes, Metas, Bounded
<1>4. CASE metas[0].txnid < metas[1].txnid
  <2>1. Newest(metas) = metas[1] /\ metas[1].txnid % 2 = 1
    BY <1>3, <1>4 DEF Newest, Sane, Parity
  <2> QED
    BY <1>0, <1>1, <1>2, <1>3, <2>1 DEF Bounded
<1>5. CASE ~(metas[0].txnid < metas[1].txnid)
  <2>1. Newest(metas) = metas[0] /\ metas[0].txnid % 2 = 0
    BY <1>3, <1>5 DEF Newest, Sane, Parity
  <2> QED
    BY <1>0, <1>1, <1>2, <1>3, <2>1 DEF Bounded
<1> QED
  BY <1>4, <1>5

\* What Begin takes as the last commit.
Start == IF owner = Died THEN Newest(metas) ELSE Committed

LEMMA StartIs ==
  ASSUME Typed, NEW p \in Procs, Begin(p)
  PROVE  /\ Start \in Metas /\ Start.last >= 1 /\ mti' = Start.txnid /\ mti <= mti' /\ mti' \in Nat
         /\ Start = metas[mti' % 2] /\ (owner # Died => mti' = mti)
         /\ log' = IF mti' = mti THEN log ELSE LogUpTo(Start, map)
         /\ slot' = IF owner = Died THEN Checked ELSE slot
         /\ owner \in {NoProc, Died} /\ alive[p]
         /\ UNCHANGED <<map, disk, metas, dmetas, pgoldest, kept, readerVars, procVars, stops>>
         /\ ~fatal[p] => /\ owner' = p /\ pc' = "write" /\ txnid' = mti' + 1 /\ stamp' = stamp + 1
                         /\ tree' = Start.tree /\ free' = Start.free /\ nextpg' = Start.last + 1
                         /\ freed' = {} /\ loose' = {} /\ dirty' = {} /\ pghead' = {} /\ pglast' = 0
                         /\ want' = NoKey /\ UNCHANGED <<scanVars, metab>>
         /\ fatal[p] => EndWrite /\ UNCHANGED stamp
<1>0. DataTypes /\ LockTypes /\ Bounded
  BY TypesAre DEF Typed
<1>1. mti \in Nat /\ mti % 2 \in {0, 1} /\ Committed \in Metas /\ Committed.txnid = mti /\
        Sane(mti % 2, Committed)
  BY <1>0, Modulo DEF LockTypes, DataTypes, Bounded, Committed
<1>2. mti' = Start.txnid
  BY <1>1 DEF Begin, Start, Committed
<1>3. log' = IF mti' = mti THEN log ELSE LogUpTo(Start, map)
  BY <1>1, <1>2 DEF Begin, Start, Committed
<1>4. /\ slot' = IF owner = Died THEN Checked ELSE slot
      /\ owner \in {NoProc, Died} /\ alive[p]
      /\ UNCHANGED <<map, disk, metas, dmetas, pgoldest, kept, readerVars, procVars, stops>>
  BY DEF Begin, WriteOnly, dataVars
<1>5. ASSUME fatal[p] PROVE EndWrite /\ UNCHANGED stamp
  BY <1>5 DEF Begin
<1>6. ASSUME ~fatal[p]
      PROVE  /\ owner' = p /\ pc' = "write" /\ txnid' = mti' + 1 /\ stamp' = stamp + 1
             /\ tree' = Start.tree /\ free' = Start.free /\ nextpg' = Start.last + 1
             /\ freed' = {} /\ loose' = {} /\ dirty' = {} /\ pghead' = {} /\ pglast' = 0
             /\ want' = NoKey /\ UNCHANGED <<scanVars, metab>>
  BY <1>6 DEF Begin, Start, Committed
<1>7. CASE owner = Died
  <2>1. Start = Newest(metas)
    BY <1>7 DEF Start
  <2> QED
    BY <1>2, <1>3, <1>4, <1>5, <1>6, <1>7, <2>1, NewestCounts DEF Sane
<1>8. CASE owner # Died
  <2>1. Start = Committed
    BY <1>8 DEF Start
  <2> QED
    BY <1>1, <1>2, <1>3, <1>4, <1>5, <1>6, <1>8, <2>1 DEF Sane, Committed
<1> QED
  BY <1>7, <1>8

LEMMA TypedTurns ==
  ASSUME Typed, Turns
  PROVE  Typed'
<1> USE DEF dataVars, procVars, readerVars
<1>0. /\ DataTypes /\ LockTypes /\ TreeTypes /\ ScanTypes /\ ReadTypes /\ HistTypes
      /\ Bounded /\ Holding
  BY TypesAre DEF Typed
<1>1. ASSUME NEW p \in Procs, Begin(p) PROVE Typed'
  <2>1. /\ Start \in Metas /\ Start.last >= 1 /\ mti' = Start.txnid /\ mti <= mti' /\ mti' \in Nat
        /\ Start = metas[mti' % 2]
        /\ log' = IF mti' = mti THEN log ELSE LogUpTo(Start, map)
        /\ slot' = IF owner = Died THEN Checked ELSE slot
        /\ UNCHANGED <<map, disk, metas, dmetas, pgoldest, kept, readerVars, procVars, stops>>
        /\ alive[p]
        /\ ~fatal[p] => /\ owner' = p /\ pc' = "write" /\ txnid' = mti' + 1 /\ stamp' = stamp + 1
                        /\ tree' = Start.tree /\ free' = Start.free /\ nextpg' = Start.last + 1
                        /\ freed' = {} /\ loose' = {} /\ dirty' = {} /\ pghead' = {} /\ pglast' = 0
                        /\ want' = NoKey /\ UNCHANGED <<scanVars, metab>>
        /\ fatal[p] => EndWrite /\ UNCHANGED stamp
    BY <1>1, StartIs
  <2>2. log' \in Seq([Keys -> Nat]) /\ Len(log') = mti' + 1
    <3>1. CASE mti' = mti
      BY <1>0, <2>1, <3>1 DEF HistTypes, Bounded
    <3>2. CASE mti' # mti
      <4>1. Start.txnid <= Len(log)
        BY <1>0, <2>1, NewestCounts DEF Start, Committed, Bounded, Sane, LockTypes
      <4> QED
        BY <1>0, <2>1, <3>2, <4>1, LogUpToIs DEF HistTypes, DataTypes
    <3> QED
      BY <3>1, <3>2
  <2>3. DataTypes' /\ HistTypes' /\ ReadTypes'
    BY <1>0, <2>1, <2>2, CheckedTypes DEF DataTypes, HistTypes, ReadTypes
  <2>4. \A i \in {0, 1} : Sane(i, metas[i])' /\ \A m \in dmetas'[i] : Sane(i, m)'
    <3>1. \A i \in {0, 1} : metas[i].txnid \in Nat /\ \A m \in dmetas[i] : m.txnid \in Nat
      BY <1>0 DEF DataTypes, Metas
    <3>2. mti \in Nat /\ UNCHANGED <<metas, dmetas>>
      BY <1>0, <2>1 DEF LockTypes
    <3> QED
      BY <1>0, <2>1, <3>1, <3>2 DEF Bounded, Sane, Parity
  <2>5. TreeTypes' /\ ScanTypes' /\ nextpg' >= 2 /\ pc' \in {"idle", "write"}
        /\ LockTypes' /\ Holding'
    <3>1. CASE fatal[p]
      <4>1. EndWrite
        BY <2>1, <3>1
      <4>2. /\ pc' = "idle" /\ txnid' = 0 /\ metab' \in [txnid : Nat, last : Nat] /\ nextpg' = 2
            /\ TreeTypes' /\ ScanTypes'
        BY <4>1, NoTxnTypes DEF EndWrite
      <4> QED
        BY <1>0, <2>1, <3>1, <4>1, <4>2 DEF LockTypes, Holding, EndWrite, Pcs
    <3>2. CASE ~fatal[p]
      <4>1. Start.tree \in Trees /\ Start.free \in Listed /\ Start.last + 1 \in Nat /\
              Start.last + 1 >= 2
        BY <2>1 DEF Metas
      <4>2. TreeTypes' /\ ScanTypes'
        BY <1>0, <2>1, <3>2, <4>1 DEF TreeTypes, ScanTypes, scanVars
      <4> QED
        BY <1>0, <2>1, <3>2, <4>1, <4>2 DEF LockTypes, Holding, Pcs
    <3> QED
      BY <3>1, <3>2
  <2>6. Bounded'
    BY <2>1, <2>2, <2>4, <2>5 DEF Bounded
  <2> QED
    BY <2>3, <2>5, <2>6, TypesAreNext DEF Typed
<1>2. ASSUME Publish \/ Abort \/ Panic
      PROVE  /\ TreeTypes' /\ ScanTypes' /\ nextpg' = 2 /\ pc' = "idle" /\ owner' = NoProc
             /\ metab' \in [txnid : Nat, last : Nat] /\ txnid' = 0 /\ ReadTypes'
             /\ UNCHANGED <<map, disk, metas, dmetas, pgoldest, alive, stamp, stops>>
  <2>1. EndWrite /\ UNCHANGED <<map, disk, metas, dmetas, slot, alive, pgoldest, stamp, readerVars,
          stops>>
    BY <1>2 DEF Publish, Abort, Panic, WriteOnly
  <2> QED
    BY <1>0, <2>1, NoTxnTypes DEF EndWrite, ReadTypes
<1>3. CASE Abort \/ Panic
  <2>1. UNCHANGED <<mti, log, kept>> /\ fatal' \in [Procs -> BOOLEAN]
    BY <1>0, <1>3 DEF Abort, Panic, WriteOnly, LockTypes
  <2>2. DataTypes' /\ HistTypes' /\ LockTypes'
    BY <1>0, <1>2, <1>3, <2>1 DEF DataTypes, HistTypes, LockTypes, Pcs
  <2>3. Bounded' /\ Holding'
    BY <1>0, <1>2, <1>3, <2>1 DEF Bounded, Holding, Sane, Parity
  <2> QED
    BY <1>2, <1>3, <2>2, <2>3, TypesAreNext DEF Typed
<1>4. CASE Publish
  <2>1. /\ Meta \in Metas /\ Sane(Toggle, Meta) /\ Toggle \in {0, 1} /\ Meta.txnid = txnid
        /\ metas[Toggle] = Meta /\ txnid = mti + 1 /\ mti' = txnid
    BY <1>0, <1>4, MetaIs DEF Publish, Holding
  <2>2. log' \in Seq([Keys -> Nat]) /\ Len(log') = mti' + 1
    BY <1>0, <1>4, <2>1, LogUpToIs DEF Publish, HistTypes, DataTypes, Bounded
  <2>3. kept' \in Nat
    BY <1>0, <1>4, <2>2 DEF Publish, HistTypes
  <2>4. DataTypes' /\ HistTypes' /\ LockTypes'
    BY <1>0, <1>2, <1>4, <2>1, <2>2, <2>3 DEF Publish, WriteOnly, DataTypes, HistTypes, LockTypes,
       Pcs
  <2>5. metas[mti' % 2].txnid = mti'
    BY <2>1 DEF Toggle
  <2>6. \A i \in {0, 1} : Sane(i, metas[i])' /\ \A m \in dmetas'[i] : Sane(i, m)'
    <3>1. \A i \in {0, 1} : metas[i].txnid \in Nat /\ \A m \in dmetas[i] : m.txnid \in Nat
      BY <1>0 DEF DataTypes, Metas
    <3>2. mti \in Nat /\ UNCHANGED <<metas, dmetas>> /\ mti' = mti + 1
      BY <1>0, <1>2, <1>4, <2>1 DEF LockTypes
    <3> QED
      BY <1>0, <3>1, <3>2 DEF Bounded, Sane, Parity
  <2>7. Bounded' /\ Holding'
    BY <1>2, <1>4, <2>2, <2>5, <2>6 DEF Bounded, Holding
  <2> QED
    BY <1>2, <1>4, <2>4, <2>7, TypesAreNext DEF Typed
<1> QED
  BY <1>1, <1>3, <1>4 DEF Turns

\* The steps of Next in the groups the proofs take.
LEMMA Steps ==
  ASSUME Next
  PROVE  (\E r \in Readers : Read(r)) \/ Quiet \/ Commits \/ Turns \/ Stops
BY DEF Next, Alloc, Commit, Quiet, Commits, Turns, Stops

LEMMA TypedStep == Typed /\ [Next]_vars => Typed'
<1> SUFFICES ASSUME Typed, [Next]_vars PROVE Typed'
  OBVIOUS
<1>1. CASE Next
  BY <1>1, Steps, TypedRead, TypedQuiet, TypedCommits, TypedTurns, TypedStops
<1>2. CASE UNCHANGED vars
  <2>1. TypeOK'
    BY <1>2 DEF vars, dataVars, procVars, txnVars, treeVars, scanVars, readerVars, histVars, Typed,
      TypeOK
  <2>2. Bounded' /\ Holding'
    BY <1>2 DEF vars, dataVars, procVars, txnVars, treeVars, scanVars, readerVars, histVars, Typed,
      Bounded, Holding, Sane, Parity, Toggle, Meta
  <2> QED
    BY <2>1, <2>2 DEF Typed
<1> QED
  BY <1>1, <1>2

\* Every variable keeps its type: the transactions of libraries/liblmdb/mdb.c fill no
\* page above me_maxpg, and no number of a commit runs ahead of mti_txnid by more than
\* one, whatever stops or fails.
THEOREM TypeCorrect == Spec => []TypeOK
<1>1. Init => Typed
  BY TypedInit
<1>2. Typed /\ [Next]_vars => Typed'
  BY TypedStep
<1>3. Typed => TypeOK
  BY DEF Typed
<1> QED
  BY <1>1, <1>2, <1>3, PTL DEF Spec

-----------------------------------------------------------------------------
(***************************************************************************)
(* Steps that leave the meta pages alone                                   *)
(***************************************************************************)
\* The two meta pages are that of the last commit and the other, which is the newer
\* one only while a commit is in doubt.
LEMMA TwoMetas ==
  ASSUME Typed
  PROVE  /\ mti \in Nat /\ mti % 2 \in {0, 1} /\ (mti + 1) % 2 \in {0, 1} /\ mti % 2 # (mti + 1) % 2
         /\ Committed \in Metas /\ Other \in Metas /\ Latest \in Metas
         /\ Committed.txnid = mti /\ Other.txnid <= mti + 1 /\ Latest = Newest(metas)
         /\ Settled => Latest = Committed
         /\ ~Settled => Latest = Other
<1>1. DataTypes /\ LockTypes /\ Bounded
  BY TypesAre DEF Typed
<1>2. mti \in Nat /\ mti % 2 \in {0, 1} /\ (mti + 1) % 2 \in {0, 1} /\ mti % 2 # (mti + 1) % 2
  BY <1>1, Modulo DEF LockTypes
<1>3. metas[0] \in Metas /\ metas[1] \in Metas /\ Sane(0, metas[0]) /\ Sane(1, metas[1])
  BY <1>1 DEF DataTypes, Bounded
<1>4. metas[0].txnid \in Nat /\ metas[1].txnid \in Nat
  BY <1>3 DEF Metas
<1>5. Committed.txnid = mti /\ Committed \in Metas /\ Other \in Metas /\ Latest \in Metas /\
        Other.txnid <= mti + 1
  BY <1>1, <1>2, <1>3 DEF Bounded, Committed, Other, Latest, Better, Sane
<1>6. CASE mti % 2 = 0
  <2>1. Committed = metas[0] /\ Other = metas[1]
    BY <1>2, <1>6 DEF Committed, Other
  <2> QED
    BY <1>2, <1>3, <1>4, <1>5, <2>1 DEF Settled, Latest, Better, Newest
<1>7. CASE mti % 2 = 1
  <2>1. Committed = metas[1] /\ Other = metas[0]
    BY <1>2, <1>7 DEF Committed, Other
  <2>2. mti # 0 /\ metas[0].txnid # mti
    BY <1>2, <1>3, <1>4, <1>7 DEF Sane, Parity
  <2> QED
    BY <1>2, <1>3, <1>4, <1>5, <2>1, <2>2 DEF Settled, Latest, Better, Newest
<1> QED
  BY <1>2, <1>5, <1>6, <1>7 DEF Latest, Better, Newest

\* The parts of the invariant that are about the meta pages alone.
LEMMA MetasStay ==
  ASSUME MetasWhole, UNCHANGED <<metas, dmetas, mti>>
  PROVE  MetasWhole'
BY DEF MetasWhole, Committed, Latest, Better, Whole, InFree, PagesOf

\* The parts that are about the write transaction.
LEMMA WorkStays ==
  ASSUME OnDisk, Work, Prepared, UNCHANGED <<metas, dmetas, mti, pc, txnVars>>
  PROVE  OnDisk' /\ Work' /\ Prepared'
<1>1. /\ UNCHANGED <<Committed, Meta, Fresh>>
      /\ UNCHANGED <<tree, free, nextpg, freed, loose, dirty, pghead, pglast, want, txnid, metab>>
  BY DEF Committed, Meta, Fresh, txnVars, treeVars
<1>2. OnDisk'
  BY <1>1 DEF OnDisk, Committed
<1>3. Work'
  <2>1. \A x \in Pages : Fetched(x)' <=> Fetched(x)
    BY <1>1 DEF Fetched
  <2>2. PagesOf(tree)' = PagesOf(tree) /\ PagesOf(Committed.tree)' = PagesOf(Committed.tree)
    BY <1>1 DEF PagesOf
  <2> QED
    BY <1>1, <2>1, <2>2 DEF Work, Making
<1>4. Prepared'
  <2>1. CASE pc \notin Saving
    BY <2>1 DEF Prepared, Saving
  <2>2. CASE pc \in Saving
    <3>1. /\ Whole(Meta) /\ Meta.last >= Committed.last
          /\ \A x \in PagesOf(Committed.tree) : x \in PagesOf(tree) \/ <<txnid, x>> \in free
          /\ \A n \in Nat, x \in Pages : n > pglast /\ <<n, x>> \in Committed.free =>
               <<n, x>> \in free
      BY <2>2 DEF Prepared
    <3>2. Whole(Meta')
      BY <1>1, <3>1
    <3> QED
      BY <1>1, <3>1, <3>2 DEF Prepared, PagesOf
  <2> QED
    BY <2>1, <2>2
<1> QED
  BY <1>2, <1>3, <1>4

\* Readers
LEMMA HoldRead ==
  ASSUME Inv, NEW r \in Readers, Read(r)
  PROVE  ReadersHold'

<1> USE DEF ReadOnly, dataVars, procVars, txnVars, treeVars, scanVars
<1>0. DataTypes /\ LockTypes /\ ReadTypes /\ ReadersHold /\ MetasWhole
  BY TypesAre DEF Inv, Typed
<1>1. /\ UNCHANGED <<metas, mti, owner, alive, fatal, pgoldest, pc, pglast, scan, oldest>>
      /\ \A q \in Readers \ {r} : UNCHANGED <<rpc[q], slot[q], rtree[q], rlast[q]>>
  BY <1>0 DEF Read, Load, Announce, Check, Copy, Last, Finish, EndRead, NoReads, Goto, ReadTypes
<1>2. /\ UNCHANGED <<MetaFailed, Latest, Committed>> /\ Behind(mti)'
  BY <1>0, <1>1 DEF MetaFailed, Latest, Better, Committed, Behind, ReadersHold
<1> DEFINE Reads(q) == Held(Latest, Seen(q), slot[q]) /\ \A x \in PagesOf(Seen(q)) : x <= Within(q)
<1>3. ASSUME NEW q \in Readers \ {r}
      PROVE  /\ rpc'[q] # "idle" => alive'[Home[q]]
             /\ q \in Protected' => Protects(q)' /\ (~MetaFailed => Reads(q)')
  <2>1. UNCHANGED <<rpc[q], slot[q], rtree[q], rlast[q], Seen(q), Within(q)>>
    BY <1>1, <1>3 DEF Seen, Within
  <2>2. q \in Protected' => q \in Protected
    BY <2>1 DEF Protected
  <2>3. Protects(q) => Protects(q)'
    BY <1>1, <2>1 DEF Protects
  <2>4. Reads(q) => Reads(q)'
    BY <1>2, <2>1 DEF Held, PagesOf
  <2> QED
    BY <1>0, <1>1, <2>1, <2>2, <2>3, <2>4 DEF ReadersHold
<1>4. /\ rpc'[r] # "idle" => alive'[Home[r]]
      /\ r \in Protected' => Protects(r)' /\ (~MetaFailed => Reads(r)')
  <2>1. rpc[r] # "idle" \/ alive[Home[r]]
    BY DEF Read, Load, Announce, Check, Copy, Last, Finish
  <2>2. alive'[Home[r]]
    BY <1>0, <1>1, <2>1 DEF ReadersHold
  <2>3. CASE r \in Protected' /\ Check(r)
    <3>1. rpc'[r] = "copy" /\ slot[r] = mti /\ UNCHANGED slot
      BY <1>0, <2>3 DEF Check, Agrees, Goto, Protected, ReadTypes
    <3>2. Protects(r)'
      BY <1>0, <1>1, <3>1, HomeAssumption DEF Protects, Behind, ReadersHold, LockTypes
    <3>3. Seen(r)' = Committed.tree /\ Within(r)' = Committed.last
      BY <1>1, <3>1 DEF Seen, Within, Committed
    <3>5. \A x \in PagesOf(Committed.tree) : x <= Committed.last
      BY <1>0 DEF MetasWhole, Whole
    <3>6. ~MetaFailed => Held(Latest, Committed.tree, mti)
      BY <1>0, <1>1, <2>2, HomeAssumption DEF ReadersHold
    <3> QED
      BY <1>2, <2>2, <3>1, <3>2, <3>3, <3>5, <3>6 DEF Held, PagesOf
  <2>4. CASE r \in Protected' /\ ~Check(r)
    <3>1. r \in Protected /\ UNCHANGED slot
      BY <1>0, <2>4 DEF Read, Load, Announce, Copy, Last, Finish, EndRead, NoReads, Goto,
         Protected, ReadTypes
    <3>2. Protects(r)'
      BY <1>0, <1>1, <3>1 DEF Protects, ReadersHold
    <3>3. UNCHANGED Seen(r)
      BY <1>0, <1>1, <2>4, <3>1 DEF Read, Load, Announce, Copy, Last, Finish, EndRead, NoReads,
         Goto, Protected, ReadTypes, Seen
    <3>4. UNCHANGED Within(r)
      BY <1>0, <1>1, <2>4, <3>1 DEF Read, Load, Announce, Copy, Last, Finish, EndRead, NoReads,
         Goto, Protected, ReadTypes, Within, LastPage
    <3> QED
      BY <1>0, <1>2, <2>2, <3>1, <3>2, <3>3, <3>4 DEF ReadersHold, Held, PagesOf
  <2> QED
    BY <2>2, <2>3, <2>4
<1>5. ~MetaFailed /\ (\E p \in Procs : alive[p]) => Held(Latest, Committed.tree, mti)'
  BY <1>0, <1>1, <1>2 DEF ReadersHold, Held, PagesOf
<1> QED
  BY <1>1, <1>2, <1>3, <1>4, <1>5 DEF ReadersHold, Protected

LEMMA InvRead ==
  ASSUME Inv, NEW r \in Readers, Read(r)
  PROVE  Inv'
<1> USE DEF ReadOnly, dataVars, procVars, txnVars, treeVars, scanVars
<1>1. UNCHANGED <<dataVars, mti, owner, procVars, pgoldest, pc, txnVars>>
  BY DEF Read, Load, Announce, Check, Copy, Last, Finish, EndRead
<1>2. MetasWhole'
  BY <1>1, MetasStay DEF Inv
<1>3. Control'
  BY <1>1 DEF Inv, Control, Settled, Other, Committed, MetaFailed
<1>4. OnDisk' /\ Work' /\ Prepared'
  BY <1>1, WorkStays DEF Inv
<1> QED
  BY <1>2, <1>3, <1>4, TypedRead, HoldRead DEF Inv

\* The write transaction, until it commits, leaves the meta pages and the readers alone.
LEMMA QuietLeaves ==
  ASSUME Typed, Quiet
  PROVE  /\ UNCHANGED <<map, disk, metas, dmetas, mti, slot, owner, txnid, metab, rpc, rtree, rlast,
                        alive, fatal>>
         /\ pc \in Making /\ pc' \in Making \cup {"failed"}
         /\ UNCHANGED <<MetaFailed, Committed, Other, Latest, Settled>>
<1>1. UNCHANGED <<map, disk, metas, dmetas, mti, slot, owner, txnid, metab, rpc, rtree, rlast,
                  alive, fatal>>
  BY DEF Quiet, Touch, Drop, FromLoose, FromHead, FromRecord, Extend, Full, FindOldest, Scan, Place,
         Found, Private, WriteOnly, dataVars, procVars, readerVars
<1>2. pc \in Making /\ pc' \in Making \cup {"failed"}
  BY DEF Quiet, Touch, Drop, FromLoose, FromHead, FromRecord, Extend, Full, FindOldest, Scan, Place,
         Found, NothingFree, Making
<1> QED
  BY <1>1, <1>2 DEF MetaFailed, Committed, Other, Latest, Better, Settled, Making

\* What readers need is out of the transaction's reach as long as it fetches only
\* records that mdb_find_oldest allows.
LEMMA HoldQuiet ==
  ASSUME Inv, Quiet
  PROVE  ReadersHold'
<1>0. /\ DataTypes /\ LockTypes /\ TreeTypes /\ ScanTypes /\ ReadTypes /\ ReadersHold /\ Holding
  BY TypesAre DEF Inv, Typed
<1>1. /\ UNCHANGED <<metas, mti, slot, owner, txnid, rpc, rtree, rlast, alive>>
      /\ pc \in Making /\ pc' \in Making \cup {"failed"}
      /\ UNCHANGED <<MetaFailed, Committed, Latest>>
  BY QuietLeaves DEF Inv
<1>2. owner \in Procs /\ alive[owner] /\ txnid = mti + 1 /\ mti \in Nat /\
        "failed" \notin Making \cup Saving
  BY <1>0, <1>1 DEF Making, Saving, Holding, LockTypes
<1> DEFINE Safe == Behind(mti)' /\ \A r \in Protected : Protects(r)'
<1>3. ASSUME NEW S \in SUBSET Readers, NEW n \in Nat, Found(S, n), n <= mti,
             \A r \in Protected : r \in S \/ n <= slot[r]
      PROVE  Safe
  <2>1. /\ scan' = S /\ oldest' = n /\ UNCHANGED pglast /\ pc' \in {"alloc", "scan"}
        /\ IF S = {} THEN pgoldest' = [pgoldest EXCEPT ![owner] = n] ELSE UNCHANGED pgoldest
    BY <1>3 DEF Found, treeVars
  <2>2. ASSUME NEW p \in Procs, alive[p]
        PROVE  pgoldest'[p] <= mti /\ \A r \in Protected : pgoldest'[p] <= slot[r]
    BY <1>0, <1>3, <2>1, <2>2 DEF ReadersHold, Behind, Protects, LockTypes
  <2>3. Behind(mti)'
    BY <1>0, <1>1, <1>3, <2>1, <2>2 DEF ReadersHold, Behind
  <2> QED
    BY <1>0, <1>1, <1>3, <2>1, <2>2, <2>3 DEF ReadersHold, Protects
<1>4. ASSUME FindOldest PROVE Safe
  <2>1. Found(Readers, txnid - 1)
    BY <1>4 DEF FindOldest
  <2>2. txnid - 1 \in Nat /\ txnid - 1 <= mti /\ Readers \in SUBSET Readers
    BY <1>2
  <2>3. \A r \in Protected : r \in Readers
    BY DEF Protected
  <2> QED
    BY <1>3, <2>1, <2>2, <2>3
<1>5. ASSUME NEW r \in Readers, Scan(r) PROVE Safe
  <2> DEFINE n == IF Older(r) THEN slot[r] ELSE oldest
  <2>1. Found(scan \ {r}, n) /\ r \in scan /\ pc = "scan"
    BY <1>5 DEF Scan
  <2>2. oldest \in Nat /\ oldest <= mti /\ slot[r] \in Nat \cup {Idle} /\ Idle \notin Nat
    BY <1>0, <2>1 DEF ScanTypes, ReadersHold, Behind, ReadTypes, Idle
  <2>3. n \in Nat /\ n <= oldest /\ (slot[r] \in Nat => n <= slot[r])
    BY <2>2 DEF Older
  <2> HIDE DEF n
  <2>4. ASSUME NEW q \in Protected PROVE q \in scan \ {r} \/ n <= slot[q]
    <3>1. slot[q] \in Nat /\ (q \in scan \/ oldest <= slot[q])
      BY <1>0, <2>1 DEF ReadersHold, Protects
    <3> QED
      BY <2>2, <2>3, <3>1
  <2>5. scan \ {r} \in SUBSET Readers /\ n <= mti
    BY <1>0, <1>2, <2>2, <2>3 DEF ScanTypes
  <2> QED
    BY <1>3, <2>1, <2>3, <2>4, <2>5
<1>6. ASSUME FromRecord PROVE Safe
  <2>1. UNCHANGED <<pgoldest, scan, oldest>> /\ pc' = "write" /\ pglast' = Limit
        /\ Limit \in Nat /\ Limit < pgoldest[owner]
    <3>1. Limit \in Nat /\ pgoldest[owner] \in Nat /\ ~(pgoldest[owner] <= Limit)
      BY <1>0, <1>2, <1>6, LimitIs DEF FromRecord, TooRecent, LockTypes, TreeTypes
    <3> QED
      BY <1>6, <3>1 DEF FromRecord, Place, scanVars
  <2>2. pgoldest[owner] \in Nat /\ pgoldest[owner] <= mti /\
          \A r \in Protected : slot[r] \in Nat /\ pgoldest[owner] <= slot[r]
    BY <1>0, <1>2 DEF ReadersHold, Behind, Protects, LockTypes
  <2>3. Behind(mti)'
    BY <1>0, <1>1, <1>2, <2>1, <2>2 DEF ReadersHold, Behind
  <2>4. ASSUME NEW r \in Protected PROVE Protects(r)'
    <3>1. slot[r] \in Nat /\ pgoldest[owner] <= slot[r] /\ Protects(r)
      BY <1>0, <2>2 DEF ReadersHold
    <3> QED
      BY <1>1, <2>1, <2>2, <3>1 DEF Protects
  <2> QED
    BY <2>3, <2>4
<1>7. ASSUME UNCHANGED <<pgoldest, scan, oldest, pglast>> /\ pc' # "scan" PROVE Safe
  <2>1. Behind(mti)'
    BY <1>0, <1>1, <1>7 DEF ReadersHold, Behind, Making, Saving
  <2>2. ASSUME NEW r \in Protected PROVE Protects(r)'
    <3>1. Protects(r)
      BY <1>0 DEF ReadersHold
    <3> QED
      BY <1>1, <1>7, <3>1 DEF Protects, Making, Saving
  <2> QED
    BY <2>1, <2>2
<1>8. Safe
  <2>1. ASSUME NEW k \in Keys, Touch(k) \/ Drop(k)
        PROVE  UNCHANGED <<pgoldest, scan, oldest, pglast>> /\ pc' # "scan"
    BY <2>1 DEF Touch, Drop, scanVars
  <2>2. CASE FromLoose \/ FromHead \/ Extend \/ Full
    BY <1>7, <2>2 DEF FromLoose, FromHead, Extend, Full, Place, scanVars, treeVars
  <2> QED
    BY <1>4, <1>5, <1>6, <1>7, <2>1, <2>2 DEF Quiet
<1>9. Protected' = Protected /\ \A r \in Readers : UNCHANGED <<Seen(r), Within(r)>>
  BY <1>1 DEF Protected, Seen, Within
<1>10. ASSUME ~MetaFailed, NEW r \in Protected
       PROVE  Held(Latest, Seen(r), slot[r])' /\ \A x \in PagesOf(Seen(r))' : x <= Within(r)'
  <2>1. Held(Latest, Seen(r), slot[r]) /\ \A x \in PagesOf(Seen(r)) : x <= Within(r)
    BY <1>0, <1>10 DEF ReadersHold
  <2>2. r \in Readers /\ UNCHANGED <<Seen(r), Within(r), slot[r], Latest>>
    BY <1>1, <1>9 DEF Protected
  <2> QED
    BY <2>1, <2>2 DEF Held, PagesOf
<1>11. ~MetaFailed /\ (\E p \in Procs : alive[p]) => Held(Latest, Committed.tree, mti)'
  BY <1>0, <1>1 DEF ReadersHold, Held, PagesOf
<1>12. \A r \in Readers : rpc'[r] # "idle" => alive'[Home[r]]
  BY <1>0, <1>1 DEF ReadersHold
<1> QED
  BY <1>1, <1>8, <1>9, <1>10, <1>11, <1>12 DEF ReadersHold, PagesOf

\* The pages the transaction took are none of the last commit, and what it has not
\* fetched is not in its tree.
LEMMA Taken ==
  ASSUME Typed, Work, Whole(Committed), pc \in Making, NEW x \in Pages
  PROVE  /\ x \in Fresh => x \notin PagesOf(Committed.tree) /\ x \notin freed /\ x < nextpg
         /\ x \in freed => x \in PagesOf(Committed.tree) /\ x <= Committed.last /\ x < nextpg
         /\ \A n \in Nat : <<n, x>> \in Committed.free /\ n > pglast =>
              /\ x \notin Fresh /\ x \notin PagesOf(tree) /\ x \notin freed
              /\ x \notin PagesOf(Committed.tree) /\ x <= Committed.last /\ x < nextpg
         /\ x >= nextpg => x \notin Fresh /\ x \notin PagesOf(tree) /\ x \notin freed
                           /\ x \notin PagesOf(Committed.tree)
<1>1. TreeTypes /\ Committed \in Metas /\ x \in Nat
  BY TwoMetas, TypesAre, BoundsAssumption DEF Typed, Pages
<1>2. Committed.last \in Nat /\ nextpg \in Nat /\ pglast \in Nat /\ nextpg > Committed.last
  BY <1>1 DEF Metas, TreeTypes, Work
<1>3. Fetched(x) => \E n \in Nat : n <= pglast /\ <<n, x>> \in Committed.free
  BY <1>2 DEF Fetched
<1>4. /\ x \in PagesOf(Committed.tree) <=> x \in freed \/ (x \in PagesOf(tree) /\ x \notin dirty)
      /\ x \in Fresh <=> Fetched(x) \/ (Committed.last < x /\ x < nextpg)
      /\ x \in dirty => x \in Fresh
  BY DEF Work, Fresh
<1>5. /\ x \in PagesOf(Committed.tree) => x <= Committed.last
      /\ \A n \in Nat : <<n, x>> \in Committed.free => x <= Committed.last /\
           x \notin PagesOf(Committed.tree)
      /\ \A n, o \in Nat : <<n, x>> \in Committed.free /\ <<o, x>> \in Committed.free => n = o
  BY DEF Whole
<1>6. x \in Fresh => x \notin PagesOf(Committed.tree) /\ x \notin freed /\ x < nextpg
  <2>1. CASE Fetched(x)
    <3>1. PICK n \in Nat : n <= pglast /\ <<n, x>> \in Committed.free
      BY <1>3, <2>1
    <3>2. x <= Committed.last /\ x \notin PagesOf(Committed.tree)
      BY <1>5, <3>1
    <3> QED
      BY <1>1, <1>2, <1>4, <3>2
  <2>2. CASE ~Fetched(x)
    BY <1>1, <1>2, <1>4, <1>5, <2>2
  <2> QED
    BY <2>1, <2>2
<1>7. x \in freed => x \in PagesOf(Committed.tree) /\ x <= Committed.last /\ x < nextpg
  BY <1>1, <1>2, <1>4, <1>5
<1>8. ASSUME NEW n \in Nat, <<n, x>> \in Committed.free, n > pglast
      PROVE  /\ x \notin Fresh /\ x \notin PagesOf(tree) /\ x \notin freed
             /\ x \notin PagesOf(Committed.tree) /\ x <= Committed.last /\ x < nextpg
  <2>1. x \notin PagesOf(Committed.tree) /\ x <= Committed.last /\ x < nextpg
    BY <1>1, <1>2, <1>5, <1>8
  <2>2. ASSUME Fetched(x) PROVE FALSE
    <3>1. PICK o \in Nat : o <= pglast /\ <<o, x>> \in Committed.free
      BY <1>3, <2>2
    <3>2. n = o
      BY <1>5, <1>8, <3>1
    <3> QED
      BY <1>2, <1>8, <3>1, <3>2
  <2> QED
    BY <1>1, <1>2, <1>4, <2>1, <2>2
<1>9. x >= nextpg => x \notin Fresh /\ x \notin PagesOf(tree) /\ x \notin freed /\
        x \notin PagesOf(Committed.tree)
  BY <1>1, <1>2, <1>4, <1>5, <1>6
<1> QED
  BY <1>6, <1>7, <1>8, <1>9

\* A page that is put in the place of another.
LEMMA Placed ==
  ASSUME Typed, Work, Whole(Committed), pc = "alloc", NEW page \in Pages, Place(page),
         page \notin PagesOf(tree), page \notin PagesOf(Committed.tree)
  PROVE  /\ \A j, k \in Keys : tree'[j] = tree'[k] /\ tree'[j] # 0 => j = k
         /\ \A x \in Pages :
              /\ x \in PagesOf(tree)' <=> x = page \/ (x \in PagesOf(tree) /\ x # tree[want])
              /\ x \in freed' <=> x \in freed \/ x = tree[want]
              /\ x \in PagesOf(Committed.tree) <=>
                   x \in freed' \/ (x \in PagesOf(tree)' /\ x \notin dirty')
              /\ x \in freed' => x \notin PagesOf(tree)'
         /\ dirty' = dirty \cup {page} /\ dirty' \subseteq PagesOf(tree)' /\ pc' = "write"
<1>1. TreeTypes /\ want \in Keys /\ tree \in Trees /\ page # 0
  BY TypesAre, BoundsAssumption DEF Typed, TreeTypes, Holding, Pages
<1>2. /\ tree' = [tree EXCEPT ![want] = page] /\ dirty' = dirty \cup {page} /\ pc' = "write"
      /\ freed' = freed \cup ({tree[want]} \ {0})
  BY DEF Place
<1>3. /\ \A j, k \in Keys : tree[j] = tree[k] /\ tree[j] # 0 => j = k
      /\ dirty \subseteq PagesOf(tree) /\ tree[want] \notin dirty
      /\ \A x \in Pages :
           /\ x \in PagesOf(Committed.tree) <=>
                x \in freed \/ (x \in PagesOf(tree) /\ x \notin dirty)
           /\ x \in freed => x \notin PagesOf(tree)
  BY DEF Work, Making
<1>4. \A k \in Keys : tree'[k] = IF k = want THEN page ELSE tree[k]
  BY <1>1, <1>2 DEF Trees
<1>5. \A x \in Pages : x \in PagesOf(tree) <=> \E k \in Keys : tree[k] = x
  BY <1>1, PagesOfTree
<1>6. \A x \in Pages : x \in PagesOf(tree)' <=> \E k \in Keys : tree'[k] = x
  <2>1. 0 \notin Pages
    BY BoundsAssumption DEF Pages
  <2> QED
    BY <2>1 DEF PagesOf
<1>7. \A k \in Keys : tree[k] # page
  BY <1>5
<1>8. \A j, k \in Keys : tree'[j] = tree'[k] /\ tree'[j] # 0 => j = k
  BY <1>3, <1>4, <1>7
<1>9. ASSUME NEW x \in Pages
      PROVE  x \in PagesOf(tree)' <=> x = page \/ (x \in PagesOf(tree) /\ x # tree[want])
  <2>1. x # 0
    BY BoundsAssumption DEF Pages
  <2> QED
    BY <1>1, <1>3, <1>4, <1>5, <1>6, <2>1
<1>10. ASSUME NEW x \in Pages PROVE x \in freed' <=> x \in freed \/ x = tree[want]
  <2>1. x # 0
    BY BoundsAssumption DEF Pages
  <2> QED
    BY <1>2, <2>1
<1>11. ASSUME NEW x \in Pages
       PROVE  /\ x \in PagesOf(Committed.tree) <=>
                   x \in freed' \/ (x \in PagesOf(tree)' /\ x \notin dirty')
              /\ x \in freed' => x \notin PagesOf(tree)'
  <2>1. x = tree[want] => x \in PagesOf(tree) /\ x \notin dirty /\ x # page
    BY <1>1, <1>3, <1>5, <1>7
  <2> QED
    BY <1>2, <1>3, <1>9, <1>10, <2>1
<1>12. dirty' \subseteq PagesOf(tree)'
  <2>1. dirty \subseteq Pages
    BY <1>1 DEF TreeTypes
  <2> QED
    BY <1>2, <1>3, <1>9, <2>1
<1> QED
  BY <1>2, <1>8, <1>9, <1>10, <1>11, <1>12

\* The transaction keeps account of its pages.
LEMMA WorkQuiet ==
  ASSUME Typed, Work, Whole(Committed), Quiet
  PROVE  Work'
<1>0. TreeTypes /\ Holding /\ Committed \in Metas /\ Committed.last \in Nat /\
        Pages \subseteq Nat /\ 0 \notin Pages
  BY TwoMetas, TypesAre, BoundsAssumption DEF Typed, Metas, Pages
<1>1. UNCHANGED Committed /\ pc \in Making
  BY QuietLeaves
<1>2. /\ free = Committed.free /\ nextpg > Committed.last /\ nextpg <= MaxPage + 1
      /\ \A j, k \in Keys : tree[j] = tree[k] /\ tree[j] # 0 => j = k
      /\ dirty \subseteq PagesOf(tree) /\ loose \cap pghead = {}
      /\ (pglast = 0 => pghead = {})
      /\ \A x \in Pages :
           /\ x \in PagesOf(Committed.tree) <=>
                x \in freed \/ (x \in PagesOf(tree) /\ x \notin dirty)
           /\ x \in freed \cup loose \cup pghead => x \notin PagesOf(tree)
           /\ x \in Fresh <=> Fetched(x) \/ (Committed.last < x /\ x < nextpg)
           /\ x \in PagesOf(tree) => x < nextpg
  BY <1>1 DEF Work
<1>3. \A x \in Pages : x \in PagesOf(tree) <=> \E k \in Keys : tree[k] = x
  BY <1>0, PagesOfTree DEF TreeTypes
<1>4. CASE UNCHANGED <<tree, free, nextpg, freed, loose, dirty, pghead, pglast, want>>
           /\ pc' \in {"alloc", "scan", "failed"} /\ tree[want] \notin dirty
  BY <1>1, <1>2, <1>4 DEF Work, Fresh, Fetched, PagesOf, Making
<1>5. ASSUME NEW k \in Keys, Touch(k) PROVE Work'
  <2>1. UNCHANGED <<tree, free, nextpg, freed, loose, dirty, pghead, pglast>> /\ want' = k /\
                    tree[k] \notin dirty
    BY <1>5 DEF Touch
  <2> QED
    BY <1>1, <1>2, <2>1 DEF Work, Fresh, Fetched, PagesOf, Making
<1>6. ASSUME NEW k \in Keys, Drop(k) PROVE Work'
  <2> DEFINE old == tree[k]
  <2>1. /\ tree' = [tree EXCEPT ![k] = 0] /\ dirty' = dirty \ {old} /\ old # 0 /\ old \in Pages
        /\ loose' = (IF old \in dirty THEN loose \cup {old} ELSE loose)
        /\ freed' = (IF old \in dirty THEN freed ELSE freed \cup {old})
        /\ UNCHANGED <<free, nextpg, pghead, pglast>> /\ pc' = "write"
    BY <1>0, <1>6 DEF Drop, TreeTypes, Trees
  <2>2. \A j \in Keys : tree'[j] = IF j = k THEN 0 ELSE tree[j]
    BY <1>0, <2>1 DEF TreeTypes, Trees
  <2>3. \A x \in Pages : x \in PagesOf(tree)' <=> \E j \in Keys : tree'[j] = x
    BY <1>0 DEF PagesOf
  <2>4. ASSUME NEW x \in Pages PROVE x \in PagesOf(tree)' <=> x \in PagesOf(tree) /\ x # old
    <3>1. x # 0
      BY <1>0
    <3>2. ASSUME NEW j \in Keys, tree'[j] = x PROVE tree[j] = x /\ x # old
      BY <1>2, <2>2, <3>1, <3>2
    <3>3. ASSUME NEW j \in Keys, tree[j] = x, x # old PROVE tree'[j] = x
      BY <2>2, <3>3
    <3> QED
      BY <1>3, <2>3, <3>2, <3>3
  <2>5. \A i, j \in Keys : tree'[i] = tree'[j] /\ tree'[i] # 0 => i = j
    BY <1>2, <2>2
  <2>6. old \in PagesOf(tree) /\ old \notin freed \cup loose \cup pghead
    BY <1>2, <1>3, <2>1
  <2>7. dirty' \subseteq PagesOf(tree)'
    BY <1>0, <1>2, <2>1, <2>4 DEF TreeTypes
  <2>8. Fresh' = Fresh /\ loose' \cap pghead' = {}
    BY <1>2, <2>1, <2>6 DEF Fresh
  <2>9. ASSUME NEW x \in Pages
        PROVE  /\ x \in PagesOf(Committed.tree) <=>
                    x \in freed' \/ (x \in PagesOf(tree)' /\ x \notin dirty')
               /\ x \in freed' \cup loose' \cup pghead' => x \notin PagesOf(tree)'
               /\ x \in PagesOf(tree)' => x < nextpg'
    BY <1>2, <2>1, <2>4, <2>6
  <2>10. \A x \in Pages : Fetched(x)' <=> Fetched(x)
    BY <1>1, <2>1 DEF Fetched
  <2> QED
    BY <1>1, <1>2, <2>1, <2>5, <2>7, <2>8, <2>9, <2>10 DEF Work
<1> DEFINE Put(page) ==
      /\ \A j, k \in Keys : tree'[j] = tree'[k] /\ tree'[j] # 0 => j = k
      /\ \A x \in Pages :
           /\ x \in PagesOf(tree)' <=> x = page \/ (x \in PagesOf(tree) /\ x # tree[want])
           /\ x \in freed' <=> x \in freed \/ x = tree[want]
           /\ x \in PagesOf(Committed.tree) <=>
                x \in freed' \/ (x \in PagesOf(tree)' /\ x \notin dirty')
           /\ x \in freed' => x \notin PagesOf(tree)'
      /\ dirty' = dirty \cup {page} /\ dirty' \subseteq PagesOf(tree)' /\ pc' = "write"
<1>7. CASE FromLoose
  <2>1. PICK page \in loose : Place(page) /\ loose' = loose \ {page} /\ pc = "alloc" /\
          UNCHANGED <<nextpg, pghead, pglast, free>>
    BY <1>7 DEF FromLoose, Place
  <2>2. page \in Pages /\ page \notin PagesOf(tree) /\ page \in Fresh
    BY <1>0, <1>2, <2>1 DEF TreeTypes, Fresh
  <2>3. page \notin PagesOf(Committed.tree) /\ page < nextpg
    BY <1>1, <2>2, Taken
  <2>4. Put(page)
    BY <2>1, <2>2, <2>3, Placed
  <2>5. Fresh' = Fresh /\ \A x \in Pages : Fetched(x)' <=> Fetched(x)
    BY <1>1, <2>1, <2>2, <2>4 DEF Fresh, Fetched
  <2>6. \A x \in Pages : x \in freed' \cup loose' \cup pghead' => x \notin PagesOf(tree)'
    BY <1>2, <2>1, <2>4
  <2> QED
    BY <1>1, <1>2, <2>1, <2>3, <2>4, <2>5, <2>6 DEF Work
<1>8. CASE FromHead
  <2> DEFINE page == Smallest(pghead)
  <2>1. page \in pghead /\ Place(page) /\ pghead' = pghead \ {page} /\ pc = "alloc" /\
          UNCHANGED <<nextpg, loose, pglast, free>>
    BY <1>0, <1>8, SmallestPage DEF FromHead, Place, TreeTypes
  <2> HIDE DEF page
  <2>2. page \in Pages /\ page \notin PagesOf(tree) /\ page \in Fresh
    BY <1>0, <1>2, <2>1 DEF TreeTypes, Fresh
  <2>3. page \notin PagesOf(Committed.tree) /\ page < nextpg
    BY <1>1, <2>2, Taken
  <2>4. Put(page)
    BY <2>1, <2>2, <2>3, Placed
  <2>5. Fresh' = Fresh /\ \A x \in Pages : Fetched(x)' <=> Fetched(x)
    BY <1>1, <2>1, <2>2, <2>4 DEF Fresh, Fetched
  <2>6. \A x \in Pages : x \in freed' \cup loose' \cup pghead' => x \notin PagesOf(tree)'
    BY <1>2, <2>1, <2>4
  <2> QED
    BY <1>1, <1>2, <2>1, <2>3, <2>4, <2>5, <2>6 DEF Work
<1>9. CASE FromRecord
  <2> DEFINE page == Smallest(Record(Limit))
  <2>1. /\ Later # {} /\ loose = {} /\ pghead = {} /\ pc = "alloc" /\ Place(page)
        /\ pghead' = Record(Limit) \ {page} /\ pglast' = Limit /\ UNCHANGED <<nextpg, loose, free>>
    BY <1>9 DEF FromRecord, Place
  <2>2. /\ Limit \in Nat /\ Limit > pglast /\ Record(Limit) \subseteq Pages /\
             page \in Record(Limit)
        /\ Later \subseteq Nat /\ \A n \in Later : Limit <= n
    BY <1>0, <2>1, LimitIs, SmallestPage DEF TreeTypes
  <2>3. \A x \in Pages : x \in Record(Limit) <=> <<Limit, x>> \in Committed.free
    <3>1. \A e \in free : e = <<e[1], e[2]>>
      BY <1>0 DEF TreeTypes, Listed
    <3> QED
      BY <1>2, <3>1 DEF Record
  <2>4. \A n \in Nat, x \in Pages : <<n, x>> \in Committed.free /\ n > pglast => n >= Limit
    <3>1. \A n \in Nat, x \in Pages : <<n, x>> \in Committed.free /\ n > pglast => n \in Later
      BY <1>0, <1>2 DEF Later, TreeTypes
    <3> QED
      BY <2>2, <3>1
  <2> HIDE DEF page
  <2>5. \A x \in Record(Limit) :
          /\ x \in Pages /\ x \notin PagesOf(tree) /\ x \notin Fresh /\ x \notin freed
          /\ x \notin PagesOf(Committed.tree) /\ x < nextpg
    BY <1>1, <2>2, <2>3, Taken
  <2>6. Put(page)
    BY <2>1, <2>2, <2>5, Placed
  <2>7. Fresh' = Fresh \cup Record(Limit)
    BY <2>1, <2>2, <2>6 DEF Fresh
  <2>8. ASSUME NEW x \in Pages PROVE Fetched(x)' <=> Fetched(x) \/ x \in Record(Limit)
    <3>1. Fetched(x)' <=> \E n \in 1 .. Limit : <<n, x>> \in Committed.free
      BY <1>1, <2>1 DEF Fetched
    <3>2. pglast \in Nat /\ (Fetched(x) <=> \E n \in 1 .. pglast : <<n, x>> \in Committed.free)
      BY <1>0 DEF Fetched, TreeTypes
    <3>3. ASSUME NEW n \in 1 .. Limit, <<n, x>> \in Committed.free
          PROVE  n \in 1 .. pglast \/ n = Limit
      BY <2>2, <2>4, <3>2, <3>3
    <3>4. Limit \in 1 .. Limit /\ \A n \in 1 .. pglast : n \in 1 .. Limit
      BY <2>2, <3>2
    <3> QED
      BY <2>3, <3>1, <3>2, <3>3, <3>4
  <2>9. ASSUME NEW x \in Pages
        PROVE  /\ x \in freed' \cup loose' \cup pghead' => x \notin PagesOf(tree)'
               /\ x \in Fresh' <=> Fetched(x)' \/ (Committed.last < x /\ x < nextpg)
               /\ x \in PagesOf(tree)' => x < nextpg
    BY <1>2, <2>1, <2>2, <2>5, <2>6, <2>7, <2>8
  <2>10. pglast' # 0
    BY <1>0, <2>1, <2>2 DEF TreeTypes
  <2> QED
    BY <1>1, <1>2, <2>1, <2>6, <2>9, <2>10 DEF Work
<1>10. CASE Extend
  <2>1. /\ pc = "alloc" /\ nextpg <= MaxPage /\ Place(nextpg) /\ nextpg' = nextpg + 1
        /\ UNCHANGED <<loose, pghead, pglast, free>>
    BY <1>10 DEF Extend, NothingFree, Room, Place
  <2>2. nextpg \in Pages /\ nextpg \in Nat /\ MaxPage \in Nat
    BY <1>0, <2>1, BoundsAssumption DEF Pages, TreeTypes, Typed, Bounded
  <2>3. nextpg \notin Fresh /\ nextpg \notin PagesOf(tree) /\ nextpg \notin freed /\
          nextpg \notin PagesOf(Committed.tree)
    BY <1>1, <2>2, Taken
  <2>4. Put(nextpg)
    BY <2>1, <2>2, <2>3, Placed
  <2>5. Fresh' = Fresh \cup {nextpg} /\ \A x \in Pages : Fetched(x)' <=> Fetched(x)
    BY <1>1, <2>1, <2>4 DEF Fresh, Fetched
  <2>6. ASSUME NEW x \in Pages
        PROVE  /\ x \in freed' \cup loose' \cup pghead' => x \notin PagesOf(tree)'
               /\ x \in Fresh' <=> Fetched(x)' \/ (Committed.last < x /\ x < nextpg')
               /\ x \in PagesOf(tree)' => x < nextpg'
    <3>1. x \in Nat /\ x \notin {nextpg} => x < nextpg + 1 <=> x < nextpg
      BY <1>0, <2>2
    <3>2. x \in loose \cup pghead => x # nextpg
      BY <2>3 DEF Fresh
    <3> QED
      BY <1>0, <1>2, <2>1, <2>2, <2>4, <2>5, <3>1, <3>2
  <2> QED
    BY <1>0, <1>1, <1>2, <2>1, <2>2, <2>4, <2>6 DEF Work
<1>11. CASE Full \/ FindOldest \/ \E r \in Readers : Scan(r)
  BY <1>2, <1>4, <1>11 DEF Full, FindOldest, Scan, Found, NothingFree, treeVars, Work, Making
<1> QED
  BY <1>5, <1>6, <1>7, <1>8, <1>9, <1>10, <1>11 DEF Quiet

LEMMA InvQuiet ==
  ASSUME Inv, Quiet
  PROVE  Inv'
<1>1. /\ UNCHANGED <<metas, dmetas, mti, owner, fatal, alive>>
      /\ pc \in Making /\ pc' \in Making \cup {"failed"}
      /\ UNCHANGED <<MetaFailed, Committed, Other, Latest, Settled>>
  BY QuietLeaves DEF Inv
<1>2. MetasWhole'
  BY <1>1, MetasStay DEF Inv
<1>3. Control' /\ OnDisk' /\ Prepared'
  BY <1>1 DEF Inv, Control, OnDisk, Prepared, Making, Saving
<1>4. Whole(Committed)
  BY DEF Inv, MetasWhole
<1> QED
  BY <1>2, <1>3, <1>4, TypedQuiet, HoldQuiet, WorkQuiet DEF Inv

-----------------------------------------------------------------------------
(***************************************************************************)
(* The commit                                                              *)
(***************************************************************************)
\* The meta page made from the saved free list is whole, and keeps all that readers of
\* earlier commits need.
LEMMA FlushPrepares ==
  ASSUME Inv, Flush
  PROVE  Prepared'
<1>0. /\ TreeTypes /\ LockTypes /\ Committed \in Metas /\ Committed.last \in Nat /\
           Committed.txnid = mti
      /\ mti \in Nat /\ txnid = mti + 1 /\ Pages \subseteq Nat /\ MaxPage \in Nat
  BY TwoMetas, TypesAre, BoundsAssumption DEF Inv, Typed, Holding, Metas, Pages, Flush
<1>1. /\ Whole(Committed) /\ Work /\ pc \in Making /\ Typed
      /\ pglast \in Nat /\ nextpg \in Nat /\ (pglast = 0 \/ pglast < mti)
  BY <1>0 DEF Inv, MetasWhole, Flush, Making, ReadersHold, Behind, TreeTypes
<1>2. /\ free' = Saved /\ pc' = "sync"
      /\ UNCHANGED <<metas, mti, txnid, tree, nextpg, freed, loose, dirty, pghead, pglast>>
  BY DEF Flush, CommitOnly
<1>3. /\ Saved \in Listed
      /\ \A n \in Nat, x \in Pages : <<n, x>> \in Saved <=>
           \/ <<n, x>> \in Committed.free /\ n > pglast
           \/ n = txnid /\ (x \in freed \/ (pglast = 0 /\ x \in loose))
           \/ n = pglast /\ pglast # 0 /\ x \in pghead \cup loose
  BY <1>0, <1>1, SavedIs DEF TreeTypes, LockTypes, Work
<1>4. /\ nextpg > Committed.last /\ nextpg <= MaxPage + 1
      /\ \A j, k \in Keys : tree[j] = tree[k] /\ tree[j] # 0 => j = k
      /\ dirty \subseteq PagesOf(tree) /\ (pglast = 0 => pghead = {})
      /\ \A x \in Pages :
           /\ x \in PagesOf(Committed.tree) <=>
                x \in freed \/ (x \in PagesOf(tree) /\ x \notin dirty)
           /\ x \in freed \cup loose \cup pghead => x \notin PagesOf(tree)
           /\ x \in Fresh <=> Fetched(x) \/ (Committed.last < x /\ x < nextpg)
           /\ x \in PagesOf(tree) => x < nextpg
  BY <1>1 DEF Work
<1>5. \A x \in Pages :
        /\ x \in Fresh => x \notin PagesOf(Committed.tree) /\ x \notin freed /\ x < nextpg
        /\ x \in freed => x \in PagesOf(Committed.tree) /\ x <= Committed.last /\ x < nextpg
        /\ \A n \in Nat : <<n, x>> \in Committed.free /\ n > pglast =>
             /\ x \notin Fresh /\ x \notin PagesOf(tree) /\ x \notin freed
             /\ x \notin PagesOf(Committed.tree) /\ x <= Committed.last /\ x < nextpg
  BY <1>1, Taken
<1>6. /\ \A n, o \in Nat, x \in Pages : <<n, x>> \in Committed.free /\
           <<o, x>> \in Committed.free => n = o
      /\ \A n \in Nat, x \in Pages : <<n, x>> \in Committed.free => n >= 1 /\ n <= mti
      /\ \A x \in Pages : x <= Committed.last =>
           x \in PagesOf(Committed.tree) \/ InFree(Committed, x)
  BY <1>0, <1>1 DEF Whole
<1>7. ASSUME NEW n \in Nat, NEW o \in Nat, NEW x \in Pages, <<n, x>> \in Saved, <<o, x>> \in Saved
      PROVE  n = o
  <2>1. x \in loose \cup pghead => x \in Fresh
    BY DEF Fresh
  <2> QED
    BY <1>3, <1>5, <1>6, <1>7, <2>1
<1>8. ASSUME NEW n \in Nat, NEW x \in Pages, <<n, x>> \in Saved
      PROVE  n >= 1 /\ n <= txnid /\ x <= nextpg - 1 /\ x \notin PagesOf(tree)
  <2>1. x \in loose \cup pghead => x < nextpg /\ x \notin PagesOf(tree)
    BY <1>4, <1>5 DEF Fresh
  <2>2. x \in freed => x < nextpg /\ x \notin PagesOf(tree)
    BY <1>4, <1>5
  <2>3. /\ x < nextpg /\ x \notin PagesOf(tree)
        /\ n = txnid \/ (n = pglast /\ pglast # 0) \/ (n >= 1 /\ n <= mti)
    BY <1>3, <1>5, <1>6, <1>8, <2>1, <2>2
  <2> QED
    BY <1>0, <1>1, <2>3
<1>9. ASSUME NEW x \in Pages, x <= nextpg - 1
      PROVE  x \in PagesOf(tree) \/ \E n \in Nat : <<n, x>> \in Saved
  <2>1. x < nextpg /\ x \in Nat
    BY <1>0, <1>1, <1>9
  <2>2. CASE x \in freed \cup loose \cup pghead \cup PagesOf(tree)
    BY <1>0, <1>1, <1>3, <1>4, <2>2
  <2>3. CASE x \in Fresh
    BY <1>4, <2>2, <2>3 DEF Fresh
  <2>4. CASE x \notin Fresh /\ x \notin freed /\ x \notin PagesOf(tree)
    <3>1. x <= Committed.last /\ x \notin PagesOf(Committed.tree) /\ ~Fetched(x)
      BY <1>0, <1>4, <2>1, <2>4
    <3>2. PICK n \in Nat : <<n, x>> \in Committed.free
      BY <1>6, <3>1 DEF InFree
    <3>3. n > pglast
      BY <1>1, <1>6, <3>1, <3>2 DEF Fetched
    <3> QED
      BY <1>3, <3>2, <3>3
  <2> QED
    BY <2>2, <2>3, <2>4
<1>10. /\ Meta'.txnid = txnid /\ Meta'.tree = tree /\ Meta'.free = Saved /\ Meta'.last = nextpg - 1
       /\ Committed' = Committed
  BY <1>2 DEF Meta, Committed
<1>11. Whole(Meta')
  <2>1. ASSUME NEW x \in PagesOf(tree) PROVE x <= nextpg - 1
    <3>1. x \in Pages
      BY <1>0, PagesOfTree DEF TreeTypes
    <3>2. x < nextpg /\ x \in Nat
      BY <1>0, <1>4, <3>1
    <3> QED
      BY <1>1, <3>2
  <2>2. nextpg - 1 <= MaxPage
    BY <1>0, <1>1, <1>4
  <2> QED
    BY <1>4, <1>7, <1>8, <1>9, <1>10, <2>1, <2>2 DEF Whole, InFree
<1>12. nextpg - 1 >= Committed.last
  BY <1>0, <1>1, <1>4
<1>13. \A x \in PagesOf(Committed.tree) : x \in PagesOf(tree) \/ <<txnid, x>> \in Saved
  <2>1. PagesOf(Committed.tree) \subseteq Pages
    BY <1>0, PagesOfTree DEF Metas
  <2> QED
    BY <1>0, <1>3, <1>4, <2>1
<1> QED
  BY <1>2, <1>3, <1>10, <1>11, <1>12, <1>13 DEF Prepared, PagesOf

\* What readers need does not change when neither they nor the meta pages do.
LEMMA HoldStays ==
  ASSUME ReadersHold, UNCHANGED <<metas, mti, rpc, rtree, rlast, alive, pgoldest>>,
         \A r \in Readers : rpc[r] # "idle" => UNCHANGED slot[r],
         pc' = "scan" => pc = "scan" /\ UNCHANGED <<scan, oldest>>,
         pc' \in Making \cup Saving =>
           pglast' = 0 \/ (pc \in Making \cup Saving /\ UNCHANGED pglast),
         MetaFailed => MetaFailed'
  PROVE  ReadersHold'
<1>1. UNCHANGED <<Committed, Latest>> /\ Protected' = Protected
  BY DEF Committed, Latest, Better, Protected
<1>2. \A r \in Protected : UNCHANGED <<slot[r], Seen(r), Within(r)>>
  BY DEF Protected, Seen, Within
<1>3. Behind(mti)'
  BY DEF ReadersHold, Behind
<1>4. ASSUME NEW r \in Protected PROVE Protects(r)'
  <2>1. Protects(r)
    BY DEF ReadersHold
  <2> QED
    BY <1>2, <2>1 DEF Protects
<1>5. ASSUME ~MetaFailed', NEW r \in Protected
      PROVE  Held(Latest, Seen(r), slot[r])' /\ \A x \in PagesOf(Seen(r))' : x <= Within(r)'
  <2>1. Held(Latest, Seen(r), slot[r]) /\ \A x \in PagesOf(Seen(r)) : x <= Within(r)
    BY <1>5 DEF ReadersHold
  <2> QED
    BY <1>1, <1>2, <2>1 DEF Held, PagesOf
<1>6. ASSUME ~MetaFailed', \E p \in Procs : alive[p] PROVE Held(Latest, Committed.tree, mti)'
  <2>1. Held(Latest, Committed.tree, mti)
    BY <1>6 DEF ReadersHold
  <2> QED
    BY <1>1, <2>1 DEF Held, PagesOf
<1>7. \A r \in Readers : rpc'[r] # "idle" => alive'[Home[r]]
  BY DEF ReadersHold
<1> QED
  BY <1>1, <1>3, <1>4, <1>5, <1>6, <1>7 DEF ReadersHold, PagesOf

LEMMA InvFlush ==
  ASSUME Inv, Flush \/ FlushFails \/ Sync \/ SyncFails
  PROVE  Inv'
<1>1. /\ UNCHANGED <<metas, mti, owner, fatal, alive, slot, rpc, rtree, rlast, pgoldest, pglast,
                     txnid, nextpg, tree>>
      /\ pc \in {"write", "sync"} /\ pc' \in {"sync", "meta", "failed"}
  BY DEF Flush, FlushFails, Sync, SyncFails, CommitOnly, WriteOnly, readerVars, procVars, dataVars,
     treeVars
<1>2. /\ UNCHANGED <<MetaFailed, Committed, Other, Settled, Latest>>
  BY <1>1 DEF MetaFailed, Committed, Other, Settled, Latest, Better
<1>3. MetasWhole'
  <2>1. CASE Sync
    <3>1. dmetas' = [i \in {0, 1} |-> {metas[i]}]
      BY <2>1 DEF Sync
    <3>2. Better(metas[0], metas[1]) = Latest /\ Whole(Latest) /\ Whole(Committed)
      BY DEF Latest, Inv, MetasWhole
    <3>3. \A a \in dmetas'[0], b \in dmetas'[1] : Whole(Better(a, b))
      BY <3>1, <3>2
    <3> QED
      BY <1>2, <3>2, <3>3 DEF MetasWhole, Better, Whole, InFree, PagesOf
  <2>2. CASE UNCHANGED dmetas
    BY <1>1, <2>2, MetasStay DEF Inv
  <2> QED
    BY <2>1, <2>2 DEF Flush, FlushFails, SyncFails, dataVars
<1>4. Control'
  BY <1>1, <1>2 DEF Inv, Control
<1>5. OnDisk'
  <2>1. pc' = "meta" => Sync
    BY DEF Flush, FlushFails, Sync, SyncFails
  <2>2. Sync => dmetas' = [i \in {0, 1} |-> {metas[i]}]
    BY DEF Sync
  <2> QED
    BY <1>1, <2>1, <2>2 DEF OnDisk
<1>6. Work'
  BY <1>1 DEF Work, Making
<1>7. Prepared'
  <2>1. CASE Flush
    BY <2>1, FlushPrepares
  <2>2. CASE Sync
    <3>1. UNCHANGED <<free, Meta>> /\ pc = "sync"
      BY <1>1, <2>2 DEF Sync, treeVars, Meta
    <3>2. /\ Whole(Meta) /\ Meta.last >= Committed.last
          /\ \A x \in PagesOf(Committed.tree) : x \in PagesOf(tree) \/ <<txnid, x>> \in free
          /\ \A n \in Nat, x \in Pages : n > pglast /\ <<n, x>> \in Committed.free =>
               <<n, x>> \in free
      BY <3>1 DEF Inv, Prepared, Saving
    <3>3. Whole(Meta') /\ Committed' = Committed
      BY <1>2, <3>1, <3>2
    <3> QED
      BY <1>1, <3>1, <3>2, <3>3 DEF Prepared, PagesOf
  <2>3. CASE pc' = "failed"
    BY <2>3 DEF Prepared, Saving
  <2> QED
    BY <2>1, <2>2, <2>3 DEF FlushFails, SyncFails
<1>8. ReadersHold'
  BY <1>1, <1>2, HoldStays DEF Inv, Making, Saving
<1>9. Typed'
  BY TypedCommits DEF Inv, Commits
<1> QED
  BY <1>3, <1>4, <1>5, <1>6, <1>7, <1>8, <1>9 DEF Inv

\* The new meta page takes the place of the one that is not that of the last commit.
LEMMA MetaWritten ==
  ASSUME Inv, pc = "meta",
         metas' = [metas EXCEPT ![Toggle] = Meta],
         dmetas'[mti % 2] = dmetas[mti % 2], dmetas'[Toggle] \subseteq dmetas[Toggle] \cup {Meta},
         UNCHANGED mti
  PROVE  /\ MetasWhole' /\ UNCHANGED Committed /\ Latest' = Meta /\ Latest = Committed
         /\ Whole(Meta) /\ Whole(Committed) /\ metas[Toggle].txnid <= mti
<1>1. /\ Typed /\ Prepared /\ Settled /\ MetasWhole /\ \A i \in {0, 1} : dmetas[i] = {metas[i]}
  BY DEF Inv, Control, OnDisk
<1>2. /\ mti \in Nat /\ mti % 2 \in {0, 1} /\ Toggle \in {0, 1} /\ mti % 2 # Toggle
      /\ Toggle = (mti + 1) % 2 /\ txnid = mti + 1
      /\ Meta.txnid = mti + 1 /\ Latest = Committed /\ Committed.txnid = mti
      /\ Other.txnid <= mti
  BY <1>1, TwoMetas, MetaIs DEF Typed, Holding, Toggle, Settled
<1>3. metas \in [{0, 1} -> Metas]
  BY <1>1, TypesAre DEF Typed, DataTypes
<1>4. metas'[Toggle] = Meta /\ metas'[mti % 2] = metas[mti % 2]
  BY <1>2, <1>3
<1>5. Committed' = Committed
  BY <1>4 DEF Committed
<1>6. Latest' = Meta
  <2>1. CASE Toggle = 0
    BY <1>2, <1>4, <2>1 DEF Latest, Better, Committed
  <2>2. CASE Toggle = 1
    BY <1>2, <1>4, <2>2 DEF Latest, Better, Committed
  <2> QED
    BY <1>2, <2>1, <2>2
<1>7. Whole(Meta) /\ Whole(Committed) /\ Whole(Latest)
  BY <1>1 DEF Prepared, Saving, MetasWhole
<1>8. ASSUME NEW a \in dmetas'[0], NEW b \in dmetas'[1] PROVE Better(a, b) \in {Meta, Latest}
  <2>1. CASE Toggle = 0
    <3>1. b = Committed /\ a \in {metas[0], Meta} /\ Latest = Better(metas[0], metas[1]) /\
            metas[1] = Committed
      BY <1>1, <1>2, <1>8, <2>1 DEF Committed, Latest
    <3> QED
      BY <1>2, <3>1 DEF Better
  <2>2. CASE Toggle = 1
    <3>1. a = Committed /\ b \in {metas[1], Meta} /\ Latest = Better(metas[0], metas[1]) /\
            metas[0] = Committed
      BY <1>1, <1>2, <1>8, <2>2 DEF Committed, Latest
    <3> QED
      BY <1>2, <3>1 DEF Better
  <2> QED
    BY <1>2, <2>1, <2>2
<1>9. Whole(Committed') /\ Whole(Latest') /\
        \A a \in dmetas'[0], b \in dmetas'[1] : Whole(Better(a, b))
  BY <1>5, <1>6, <1>7, <1>8
<1> QED
  BY <1>2, <1>5, <1>6, <1>7, <1>9 DEF MetasWhole, Better, Whole, InFree, PagesOf, Other

\* Readers that have found the roots of another commit find all they need in the new
\* meta page as well, also those that read it while it was written.
LEMMA HoldMeta ==
  ASSUME Inv, \E sync \in MetaSync : WriteMeta(sync)
  PROVE  ReadersHold'
<1>0. /\ Typed /\ Prepared /\ ReadersHold /\ DataTypes /\ TreeTypes /\ ReadTypes /\ LockTypes
      /\ pc = "meta" /\ pc' = "publish" /\ ~MetaFailed' /\ ~MetaFailed
  <2>1. pc = "meta" /\ pc' = "publish" /\ UNCHANGED <<alive, fatal>>
    BY DEF WriteMeta, CommitOnly, WriteOnly, procVars
  <2>2. ~MetaFailed
    BY <2>1 DEF Inv, Typed, Holding, Control, MetaFailed
  <2> QED
    BY <2>1, <2>2, TypesAre DEF Inv, Typed, MetaFailed
<1>1. /\ metas' = [metas EXCEPT ![Toggle] = Meta] /\ UNCHANGED mti
      /\ UNCHANGED <<slot, rpc, rtree, rlast, alive, pgoldest, pglast>>
      /\ dmetas'[mti % 2] = dmetas[mti % 2] /\ dmetas'[Toggle] \subseteq dmetas[Toggle] \cup {Meta}
  <2>1. mti % 2 \in {0, 1} /\ Toggle \in {0, 1} /\ mti % 2 # Toggle
    BY <1>0, TwoMetas, MetaIs DEF Typed, Holding, Toggle
  <2>2. PICK sync \in MetaSync : WriteMeta(sync)
    OBVIOUS
  <2>3. dmetas' = [dmetas EXCEPT ![Toggle] = IF sync THEN {Meta} ELSE @ \cup {Meta}]
    BY <2>2 DEF WriteMeta
  <2>4. dmetas'[mti % 2] = dmetas[mti % 2] /\ dmetas'[Toggle] \subseteq dmetas[Toggle] \cup {Meta}
    BY <1>0, <2>1, <2>3 DEF DataTypes
  <2>5. metas' = [metas EXCEPT ![Toggle] = Meta] /\
          UNCHANGED <<treeVars, mti, slot, pgoldest>> /\ WriteOnly
    BY <2>2 DEF WriteMeta, CommitOnly
  <2>6. UNCHANGED <<rpc, rtree, rlast, alive, pglast>>
    BY <2>5 DEF WriteOnly, readerVars, procVars, treeVars
  <2> QED
    BY <2>4, <2>5, <2>6
<1>2. UNCHANGED Committed /\ Latest' = Meta /\ Latest = Committed /\ Whole(Meta) /\ Whole(Committed)
  BY <1>0, <1>1, MetaWritten
<1>3. /\ Toggle \in {0, 1} /\ Meta.tree = tree /\ Meta.free = free /\ Meta.last \in Nat
      /\ mti \in Nat /\ txnid = mti + 1 /\ Committed.last \in Nat /\
           PagesOf(Committed.tree) \subseteq Pages
      /\ PagesOf(tree) \subseteq Pages /\ Pages \subseteq Nat
  BY <1>0, TwoMetas, MetaIs, PagesOfTree, BoundsAssumption DEF Typed, Holding, Metas, Pages,
     TreeTypes
<1>4. /\ Meta.last >= Committed.last
      /\ \A x \in PagesOf(Committed.tree) : x \in PagesOf(tree) \/ <<txnid, x>> \in free
      /\ \A n \in Nat, x \in Pages : n > pglast /\ <<n, x>> \in Committed.free => <<n, x>> \in free
  BY <1>0 DEF Prepared, Saving
<1>5. Held(Meta, Committed.tree, mti)
  BY <1>3, <1>4 DEF Held
<1>6. Behind(mti)' /\ Protected' = Protected
  BY <1>0, <1>1 DEF ReadersHold, Behind, Protected, Making, Saving
<1>7. ASSUME NEW r \in Protected
      PROVE  Protects(r)' /\ Held(Meta, Seen(r)', slot[r]) /\
               \A x \in PagesOf(Seen(r)') : x <= Within(r)'
  <2>1. /\ Protects(r) /\ Held(Committed, Seen(r), slot[r])
        /\ \A x \in PagesOf(Seen(r)) : x <= Within(r)
    BY <1>0, <1>2 DEF ReadersHold
  <2>2. Protects(r)'
    BY <1>0, <1>1, <2>1 DEF Protects, Making, Saving
  <2>3. /\ slot[r] \in Nat /\ slot[r] <= mti /\ (pglast = 0 \/ pglast < slot[r]) /\ pglast \in Nat
    BY <1>0, <2>1 DEF Protects, Making, Saving, TreeTypes
  <2>4. slot[r] % 2 \in {0, 1}
    BY <2>3, Modulo
  <2>5. CASE slot[r] % 2 = Toggle /\ rpc[r] = "copy"
    <3>1. Seen(r)' = tree /\ Within(r)' = Meta.last
      BY <1>0, <1>1, <1>3, <2>4, <2>5 DEF Seen, Within, DataTypes
    <3> QED
      BY <1>2, <1>3, <2>2, <3>1 DEF Held, Whole
  <2>6. CASE ~(slot[r] % 2 = Toggle /\ rpc[r] = "copy")
    <3>1. Seen(r)' = Seen(r)
      BY <1>0, <1>1, <2>4, <2>6 DEF Seen, DataTypes
    <3>2. PagesOf(Seen(r)) \subseteq Pages
      <4>1. Seen(r) \in Trees
        BY <1>0, <2>4 DEF Seen, DataTypes, Metas, ReadTypes, Protected
      <4> QED
        BY <4>1, PagesOfTree
    <3>3. ASSUME NEW x \in PagesOf(Seen(r))
          PROVE  /\ x \in PagesOf(Meta.tree) \/ \E n \in Nat : n > slot[r] /\ <<n, x>> \in Meta.free
                 /\ x <= Committed.last
      <4>1. x \in Pages
        BY <3>2
      <4>2. CASE x \in PagesOf(Committed.tree)
        BY <1>2, <1>3, <1>4, <2>3, <4>1, <4>2 DEF Whole
      <4>3. CASE \E n \in Nat : n > slot[r] /\ <<n, x>> \in Committed.free
        <5>1. PICK n \in Nat : n > slot[r] /\ <<n, x>> \in Committed.free
          BY <4>3
        <5>2. n > pglast
          BY <2>3, <5>1
        <5>3. <<n, x>> \in free
          BY <1>4, <4>1, <5>1, <5>2
        <5>4. x <= Committed.last
          BY <1>2, <4>1, <5>1 DEF Whole
        <5> QED
          BY <1>3, <5>1, <5>3, <5>4
      <4> QED
        BY <2>1, <4>2, <4>3 DEF Held
    <3>4. \A x \in PagesOf(Seen(r)) : x <= Within(r)'
      <4>1. CASE rpc[r] = "read" \/ slot[r] % 2 # Toggle
        <5>1. Within(r)' = Within(r)
          BY <1>0, <1>1, <2>4, <4>1 DEF Within, DataTypes
        <5> QED
          BY <2>1, <5>1
      <4>2. CASE rpc[r] # "read" /\ slot[r] % 2 = Toggle
        <5>1. Within(r)' = Meta.last
          BY <1>0, <1>1, <1>3, <2>4, <4>2 DEF Within, DataTypes
        <5>2. ASSUME NEW x \in PagesOf(Seen(r)) PROVE x <= Meta.last
          <6>1. x \in Nat /\ x <= Committed.last
            BY <1>3, <3>2, <3>3
          <6> QED
            BY <1>3, <1>4, <6>1
        <5> QED
          BY <5>1, <5>2
      <4> QED
        BY <4>1, <4>2
    <3>5. Held(Meta, Seen(r), slot[r])
      BY <3>3 DEF Held
    <3> QED
      BY <2>2, <3>1, <3>4, <3>5
  <2> QED
    BY <2>5, <2>6
<1>8. \A r \in Readers : rpc'[r] # "idle" => alive'[Home[r]]
  BY <1>0, <1>1 DEF ReadersHold
<1>9. ASSUME NEW r \in Protected PROVE Held(Latest, Seen(r), slot[r])'
  BY <1>1, <1>2, <1>7 DEF Held, PagesOf
<1>10. Held(Latest, Committed.tree, mti)'
  BY <1>1, <1>2, <1>5 DEF Held, PagesOf
<1> QED
  BY <1>1, <1>6, <1>7, <1>8, <1>9, <1>10 DEF ReadersHold, PagesOf

\* With a failed write of a meta page no reader is left but those of its process.
LEMMA HoldFailed ==
  ASSUME ReadersHold, UNCHANGED <<mti, slot, rpc, rtree, rlast, alive, pgoldest>>,
         pc' \notin Making \cup Saving, MetaFailed'
  PROVE  ReadersHold'
<1>1. Protected' = Protected /\ Behind(mti)' /\ "scan" \in Making
  BY DEF Protected, ReadersHold, Behind, Making
<1>2. ASSUME NEW r \in Protected PROVE Protects(r)'
  <2>1. Protects(r)
    BY DEF ReadersHold
  <2> QED
    BY <1>1, <2>1 DEF Protects
<1>3. \A r \in Readers : rpc'[r] # "idle" => alive'[Home[r]]
  BY DEF ReadersHold
<1> QED
  BY <1>1, <1>2, <1>3 DEF ReadersHold

LEMMA InvWrite ==
  ASSUME Inv, SharedFaults = FALSE, WriteMetaFails \/ \E sync \in MetaSync : WriteMeta(sync)
  PROVE  Inv'
<1>0. /\ Typed /\ DataTypes /\ LockTypes /\ pc = "meta" /\ pc' \in {"restore", "publish"}
      /\ metas' = [metas EXCEPT ![Toggle] = Meta] /\
           UNCHANGED <<treeVars, mti, slot, owner, pgoldest>>
      /\ WriteOnly
  BY TypesAre DEF Inv, Typed, WriteMetaFails, WriteMeta, CommitOnly
<1>1. UNCHANGED <<rpc, rtree, rlast, alive, fatal, pglast>>
  BY <1>0 DEF WriteOnly, readerVars, procVars, treeVars
<1>2. mti % 2 \in {0, 1} /\ Toggle \in {0, 1} /\ mti % 2 # Toggle
  BY <1>0, TwoMetas, MetaIs DEF Typed, Holding, Toggle
<1>3. dmetas'[mti % 2] = dmetas[mti % 2] /\ dmetas'[Toggle] \subseteq dmetas[Toggle] \cup {Meta}
  <2>1. CASE WriteMetaFails
    <3>1. dmetas' = [dmetas EXCEPT ![Toggle] = @ \cup {Meta}]
      BY <2>1 DEF WriteMetaFails
    <3> QED
      BY <1>0, <1>2, <3>1 DEF DataTypes
  <2>2. ASSUME NEW sync \in MetaSync, WriteMeta(sync)
        PROVE  dmetas'[mti % 2] = dmetas[mti % 2] /\
                 dmetas'[Toggle] \subseteq dmetas[Toggle] \cup {Meta}
    <3>1. dmetas' = [dmetas EXCEPT ![Toggle] = IF sync THEN {Meta} ELSE @ \cup {Meta}]
      BY <2>2 DEF WriteMeta
    <3> QED
      BY <1>0, <1>2, <3>1 DEF DataTypes
  <2> QED
    BY <2>1, <2>2
<1>4. MetasWhole' /\ UNCHANGED Committed /\ metas[Toggle].txnid <= mti
  BY <1>0, <1>3, MetaWritten
<1>5. Control'
  <2>1. owner \in Procs /\ alive[owner] /\ ~fatal[owner] /\ owner # NoProc
    BY <1>0, NamesAssumption DEF Inv, Typed, Holding, Control
  <2>2. MetaFailed' => \A p, q \in Procs : alive[p] /\ alive[q] => p = q
    <3>1. CASE WriteMetaFails
      BY <3>1 DEF WriteMetaFails
    <3>2. CASE pc' # "restore"
      BY <1>0, <1>1, <3>2 DEF MetaFailed, Inv, Control
    <3> QED
      BY <1>0, <3>1, <3>2 DEF WriteMeta
  <2> QED
    BY <1>0, <1>1, <2>1, <2>2 DEF Control
<1>6. OnDisk'
  <2>1. CASE pc' = "restore"
    <3>1. WriteMetaFails
      BY <2>1 DEF WriteMeta
    <3>2. metab' = [txnid |-> metas[Toggle].txnid, last |-> metas[Toggle].last]
      BY <3>1 DEF WriteMetaFails
    <3>3. dmetas[mti % 2] = {Committed}
      BY <1>0, <1>2 DEF Inv, OnDisk, Committed
    <3> QED
      BY <1>0, <1>3, <1>4, <2>1, <3>2, <3>3 DEF OnDisk
  <2>2. CASE pc' = "publish"
    BY <2>2 DEF OnDisk
  <2> QED
    BY <1>0, <2>1, <2>2
<1>7. Work' /\ Prepared'
  BY <1>0 DEF Work, Prepared, Making, Saving
<1>8. ReadersHold'
  <2>1. CASE WriteMetaFails
    <3>1. pc' = "restore" /\ MetaFailed'
      BY <2>1 DEF WriteMetaFails, MetaFailed
    <3> QED
      BY <1>0, <1>1, <3>1, HoldFailed DEF Inv, Making, Saving
  <2> QED
    BY <2>1, HoldMeta
<1>9. Typed'
  BY TypedCommits DEF Inv, Commits
<1> QED
  BY <1>4, <1>5, <1>6, <1>7, <1>8, <1>9 DEF Inv

LEMMA InvRestore ==
  ASSUME Inv, NEW works \in BOOLEAN, Restore(works)
  PROVE  Inv'
<1> DEFINE meta == [Meta EXCEPT !.txnid = metab.txnid, !.last = metab.last]
<1>0. /\ Typed /\ DataTypes /\ LockTypes /\ pc = "restore" /\ pc' = "panic"
      /\ UNCHANGED <<mti, slot, owner, pgoldest, txnid>> /\ WriteOnly
      /\ IF works
         THEN /\ metas' = [metas EXCEPT ![Toggle] = meta]
              /\ dmetas' = [dmetas EXCEPT ![Toggle] = @ \cup {meta}]
         ELSE UNCHANGED <<metas, dmetas>>
  BY TypesAre DEF Inv, Typed, Restore, CommitOnly
<1>1. UNCHANGED <<rpc, rtree, rlast, alive, fatal>>
  BY <1>0 DEF WriteOnly, readerVars, procVars
<1>2. /\ mti % 2 \in {0, 1} /\ Toggle \in {0, 1} /\ mti % 2 # Toggle /\ Toggle = (mti + 1) % 2
      /\ mti \in Nat /\ Meta \in Metas
  BY <1>0, TwoMetas, MetaIs DEF Typed, Holding, Toggle
<1>3. /\ meta.txnid = metab.txnid /\ metab.txnid <= mti /\ metab.txnid \in Nat
      /\ Sane(Toggle, metab) /\ dmetas[mti % 2] = {Committed}
  BY <1>0, <1>2 DEF Inv, OnDisk, LockTypes, Metas, Typed, Bounded
<1>4. Parity(Toggle, meta)
  BY <1>3 DEF Sane, Parity
<1> HIDE DEF meta
<1>5. Typed' /\ Committed.txnid = mti
  BY <1>0, TypedCommits, TwoMetas DEF Inv, Commits
<1>6. MetasWhole'
  <2>1. CASE ~works
    BY <1>0, <2>1, MetasStay DEF Inv
  <2>2. CASE works
    <3>1. /\ metas'[Toggle] = meta /\ metas'[mti % 2] = Committed
          /\ dmetas'[Toggle] = dmetas[Toggle] \cup {meta} /\ dmetas'[mti % 2] = {Committed}
      BY <1>0, <1>2, <1>3, <2>2 DEF DataTypes, Committed
    <3>2. Whole(Committed) /\ \A a \in dmetas[0], b \in dmetas[1] : Whole(Better(a, b))
      BY DEF Inv, MetasWhole
    <3>3. CASE Toggle = 0
      <4>1. mti % 2 = 1 /\ meta.txnid # mti
        BY <1>2, <1>3, <1>4, <3>3 DEF Parity
      <4>2. Better(meta, Committed) = Committed
        BY <1>2, <1>3, <1>5, <4>1 DEF Better
      <4>3. \A a \in dmetas'[0], b \in dmetas'[1] : Whole(Better(a, b))
        BY <1>3, <3>1, <3>2, <3>3, <4>1, <4>2
      <4>4. Whole(Committed') /\ Whole(Latest')
        BY <1>0, <3>1, <3>2, <3>3, <4>1, <4>2 DEF Committed, Latest
      <4> QED
        BY <4>3, <4>4 DEF MetasWhole, Better, Whole, InFree, PagesOf
    <3>4. CASE Toggle = 1
      <4>1. mti % 2 = 0
        BY <1>2, <3>4
      <4>2. Better(Committed, meta) = Committed
        BY <1>2, <1>3, <1>5, <4>1 DEF Better
      <4>3. \A a \in dmetas'[0], b \in dmetas'[1] : Whole(Better(a, b))
        BY <1>3, <3>1, <3>2, <3>4, <4>1, <4>2
      <4>4. Whole(Committed') /\ Whole(Latest')
        BY <1>0, <3>1, <3>2, <3>4, <4>1, <4>2 DEF Committed, Latest
      <4> QED
        BY <4>3, <4>4 DEF MetasWhole, Better, Whole, InFree, PagesOf
    <3> QED
      BY <1>2, <3>3, <3>4
  <2> QED
    BY <2>1, <2>2
<1>7. MetaFailed /\ MetaFailed'
  BY <1>0 DEF MetaFailed
<1>8. Control'
  <2>1. owner \in Procs /\ owner # NoProc
    BY <1>0, NamesAssumption DEF Inv, Typed, Holding
  <2> QED
    BY <1>0, <1>1, <1>7, <2>1 DEF Inv, Control
<1>9. OnDisk' /\ Work' /\ Prepared'
  BY <1>0 DEF OnDisk, Work, Prepared, Making, Saving
<1>10. ReadersHold'
  BY <1>0, <1>1, <1>7, HoldFailed DEF Inv, Making, Saving
<1> QED
  BY <1>5, <1>6, <1>8, <1>9, <1>10 DEF Inv

-----------------------------------------------------------------------------
(***************************************************************************)
(* Transactions that begin and end                                         *)
(***************************************************************************)
\* The newest meta page becomes the last commit.
LEMMA HoldLatest ==
  ASSUME ReadersHold, UNCHANGED <<metas, rpc, rtree, rlast, alive, pgoldest>>,
         \A r \in Readers : rpc[r] # "idle" => UNCHANGED slot[r],
         mti \in Nat, mti' \in Nat, mti <= mti', Committed' = Latest',
         slot \in [Readers -> Nat \cup {Idle}], pgoldest \in [Procs -> Nat],
         pc' # "scan", pc' \in Making \cup Saving => pglast' = 0,
         MetaFailed => MetaFailed'
  PROVE  ReadersHold'
<1>1. Latest' = Latest /\ Protected' = Protected
  BY DEF Latest, Better, Protected
<1>2. \A r \in Protected : r \in Readers /\ UNCHANGED <<slot[r], Seen(r), Within(r)>>
  BY DEF Protected, Seen, Within
<1>3. Behind(mti)'
  <2>1. \A p \in Procs : alive[p] => pgoldest[p] <= mti
    BY DEF ReadersHold, Behind
  <2> QED
    BY <2>1 DEF Behind
<1>4. ASSUME NEW r \in Protected PROVE Protects(r)'
  <2>1. /\ slot[r] \in Nat /\ slot[r] <= mti
        /\ \A p \in Procs : alive[p] => pgoldest[p] <= slot[r]
    BY DEF ReadersHold, Protects
  <2>2. slot[r] <= mti'
    BY <2>1
  <2> QED
    BY <1>2, <2>1, <2>2 DEF Protects
<1>5. ASSUME ~MetaFailed', NEW r \in Protected
      PROVE  Held(Latest, Seen(r), slot[r])' /\ \A x \in PagesOf(Seen(r))' : x <= Within(r)'
  <2>1. Held(Latest, Seen(r), slot[r]) /\ \A x \in PagesOf(Seen(r)) : x <= Within(r)
    BY <1>5 DEF ReadersHold
  <2> QED
    BY <1>1, <1>2, <2>1 DEF Held, PagesOf
<1>6. Held(Latest, Committed.tree, mti)'
  BY DEF Held, PagesOf
<1>7. \A r \in Readers : rpc'[r] # "idle" => alive'[Home[r]]
  BY DEF ReadersHold
<1> QED
  BY <1>1, <1>3, <1>4, <1>5, <1>6, <1>7 DEF ReadersHold, PagesOf

LEMMA InvPublish ==
  ASSUME Inv, Publish
  PROVE  Inv'
<1>0. /\ Typed /\ DataTypes /\ LockTypes /\ ReadTypes /\ MetasWhole /\ Control
      /\ pc = "publish" /\ pc' = "idle" /\ owner' = NoProc /\ mti' = txnid
      /\ UNCHANGED <<metas, dmetas, slot, pgoldest, alive, fatal, rpc, rtree, rlast>>
  BY TypesAre DEF Inv, Typed, Publish, EndWrite, NoTxn, WriteOnly, dataVars, readerVars, procVars
<1>1. Typed'
  BY TypedTurns DEF Inv, Turns
<1>2. /\ mti \in Nat /\ mti' = mti + 1 /\ metas[mti' % 2] = Other /\ Other.txnid = mti'
      /\ Committed.txnid = mti /\ (~Settled => Latest = Other)
  BY <1>0, TwoMetas, MetaIs DEF Typed, Holding, Toggle, Other
<1>3. Latest = Other
  BY <1>2 DEF Settled
<1>4. Committed' = Latest /\ Latest' = Latest
  BY <1>0, <1>2, <1>3 DEF Committed, Latest, Better
<1>5. Other' = Committed
  <2>1. (mti' + 1) % 2 = mti % 2
    BY <1>2
  <2> QED
    BY <1>0, <2>1 DEF Other, Committed
<1>6. Settled'
  BY <1>2, <1>5 DEF Settled
<1>7. UNCHANGED MetaFailed
  BY <1>0 DEF MetaFailed
<1>8. MetasWhole'
  BY <1>0, <1>4 DEF MetasWhole, Whole, InFree, PagesOf, Better
<1>9. Control' /\ OnDisk' /\ Work' /\ Prepared'
  BY <1>0, <1>6, <1>7 DEF Control, OnDisk, Work, Prepared, Making, Saving
<1>10. ReadersHold'
  BY <1>0, <1>2, <1>4, <1>7, HoldLatest DEF Inv, Making, Saving, ReadTypes, LockTypes
<1> QED
  BY <1>1, <1>8, <1>9, <1>10 DEF Inv

LEMMA InvEnd ==
  ASSUME Inv, Abort \/ Panic
  PROVE  Inv'
<1>0. /\ Typed /\ MetasWhole /\ Control /\ ReadersHold
      /\ pc # "idle" /\ pc' = "idle" /\ owner' = NoProc /\ owner \in Procs /\ alive[owner]
      /\ UNCHANGED <<metas, dmetas, mti, slot, pgoldest, alive, rpc, rtree, rlast>>
  BY DEF Inv, Typed, Holding, Abort, Panic, EndWrite, NoTxn, WriteOnly, dataVars, readerVars,
     procVars
<1>1. Typed'
  BY TypedTurns DEF Inv, Turns
<1>2. MetasWhole'
  BY <1>0, MetasStay
<1>3. UNCHANGED <<Settled>>
  BY <1>0 DEF Settled, Other
<1>4. Control' /\ (MetaFailed => MetaFailed')
  <2>1. CASE Abort
    <3>1. UNCHANGED fatal /\ Settled /\ UNCHANGED MetaFailed
      BY <1>0, <2>1 DEF Abort, Control, WriteOnly, procVars, MetaFailed
    <3> QED
      BY <1>0, <1>3, <3>1 DEF Control
  <2>2. CASE Panic
    <3>1. fatal' = [fatal EXCEPT ![owner] = TRUE] /\ pc = "panic" /\ fatal \in [Procs -> BOOLEAN]
      BY <1>0, <2>2, TypesAre DEF Panic, Typed, LockTypes
    <3>2. fatal'[owner] /\ MetaFailed /\ MetaFailed'
      BY <1>0, <3>1 DEF MetaFailed
    <3>3. \A p, q \in Procs : alive[p] /\ alive[q] => p = q
      BY <1>0, <3>2 DEF Control
    <3>4. \A p \in Procs : alive[p] => fatal'[p]
      BY <1>0, <3>2, <3>3
    <3> QED
      BY <1>0, <3>2, <3>3, <3>4 DEF Control
  <2> QED
    BY <2>1, <2>2
<1>5. OnDisk' /\ Work' /\ Prepared'
  BY <1>0 DEF OnDisk, Work, Prepared, Making, Saving
<1>6. ReadersHold'
  BY <1>0, <1>4, HoldStays DEF Making, Saving
<1> QED
  BY <1>1, <1>2, <1>4, <1>5, <1>6 DEF Inv

LEMMA InvBegin ==
  ASSUME Inv, NEW p \in Procs, Begin(p)
  PROVE  Inv'
<1>0. /\ Typed /\ DataTypes /\ LockTypes /\ ReadTypes /\ MetasWhole /\ Control /\ ReadersHold
  BY TypesAre DEF Inv, Typed
<1>1. /\ Start \in Metas /\ mti' = Start.txnid /\ mti <= mti' /\ mti' \in Nat /\ mti \in Nat
      /\ Start = metas[mti' % 2] /\ (owner # Died => mti' = mti)
      /\ slot' = (IF owner = Died THEN Checked ELSE slot)
      /\ owner \in {NoProc, Died} /\ alive[p]
      /\ UNCHANGED <<metas, dmetas, pgoldest, rpc, rtree, rlast, alive, fatal>>
      /\ ~fatal[p] => /\ owner' = p /\ pc' = "write"
                      /\ tree' = Start.tree /\ free' = Start.free /\ nextpg' = Start.last + 1
                      /\ freed' = {} /\ loose' = {} /\ dirty' = {} /\ pghead' = {} /\ pglast' = 0
      /\ fatal[p] => owner' = NoProc /\ pc' = "idle"
  BY <1>0, StartIs DEF readerVars, procVars, EndWrite, NoTxn, LockTypes
<1>2. Typed'
  BY TypedTurns DEF Inv, Turns
<1>3. pc = "idle"
  BY <1>0, <1>1, NamesAssumption DEF Typed, Holding
<1>4. Committed' = Start /\ Latest' = Latest /\ UNCHANGED MetaFailed
  BY <1>1, <1>3 DEF Committed, Latest, Better, MetaFailed
<1>5. Whole(Start) /\ (owner = Died => Start = Latest)
  BY <1>0, TwoMetas DEF MetasWhole, Start
<1>6. MetasWhole'
  <2>1. Whole(Committed') /\ Whole(Latest')
    BY <1>0, <1>4, <1>5 DEF MetasWhole
  <2> QED
    BY <1>0, <1>1, <2>1 DEF MetasWhole, Whole, InFree, PagesOf, Better
<1>7. owner = Died \/ ~fatal[p] => Settled'
  <2>1. CASE owner = Died
    <3>1. Latest' = Committed'
      BY <1>4, <1>5, <2>1
    <3>2. /\ mti' \in Nat /\ Committed'.txnid = mti' /\ (mti' + 1) % 2 \in {0, 1}
          /\ \A i \in {0, 1} : metas[i].txnid <= Latest.txnid
      BY <1>0, <1>1, <1>4, Modulo, NewestIs, TwoMetas DEF DataTypes
    <3> QED
      BY <1>1, <1>4, <3>1, <3>2 DEF Settled, Other
  <2>2. CASE owner # Died /\ ~fatal[p]
    <3>1. Settled
      BY <1>0, <1>1, <2>2 DEF Control
    <3> QED
      BY <1>1, <2>2, <3>1 DEF Settled, Other
  <2> QED
    BY <2>1, <2>2
<1>8. Control'
  <2>1. MetaFailed' => \A o, q \in Procs : alive'[o] /\ alive'[q] => o = q
    BY <1>0, <1>1, <1>4 DEF Control
  <2>2. owner' = NoProc /\ owner # Died /\ (\E q \in Procs : alive[q] /\ ~fatal[q]) => Settled'
    BY <1>0, <1>1 DEF Control, Settled, Other
  <2> QED
    BY <1>1, <1>7, <2>1, <2>2, NamesAssumption DEF Control
<1>9. OnDisk' /\ Prepared'
  BY <1>1 DEF OnDisk, Prepared, Saving
<1>10. Work'
  <2>1. CASE fatal[p]
    BY <1>1, <2>1 DEF Work, Making
  <2>2. CASE ~fatal[p]
    <3>1. /\ Start.last \in Nat /\ Start.last <= MaxPage /\ MaxPage \in Nat /\ Pages \subseteq Nat
          /\ PagesOf(Start.tree) \subseteq Pages
      BY <1>1, <1>5, PagesOfTree, BoundsAssumption DEF Metas, Whole, Pages
    <3>2. \A x \in Pages : ~(Start.last < x /\ x < Start.last + 1)
      BY <3>1
    <3>3. \A x \in PagesOf(Start.tree) : x <= Start.last
      BY <1>5 DEF Whole
    <3>4. \A x \in Pages : x \in PagesOf(Start.tree) => x < Start.last + 1
      BY <3>1, <3>3
    <3>5. Fresh' = {} /\ \A x \in Pages : ~Fetched(x)'
      <4>1. pglast' = 0 /\ 1 .. 0 = {}
        BY <1>1, <2>2
      <4> QED
        BY <1>1, <2>2, <4>1 DEF Fresh, Fetched
    <3>6. \A j, k \in Keys : Start.tree[j] = Start.tree[k] /\ Start.tree[j] # 0 => j = k
      BY <1>5 DEF Whole
    <3>7. PagesOf(tree)' = PagesOf(Start.tree)
      BY <1>1, <2>2 DEF PagesOf
    <3> QED
      BY <1>1, <1>4, <2>2, <3>1, <3>2, <3>4, <3>5, <3>6, <3>7 DEF Work, PagesOf
  <2> QED
    BY <2>1, <2>2
<1>11. ReadersHold'
  <2>1. /\ \A r \in Readers : rpc[r] # "idle" => UNCHANGED slot[r]
        /\ pc' # "scan" /\ (pc' \in Making \cup Saving => pglast' = 0)
    BY <1>1 DEF Checked, Making, Saving
  <2>2. CASE owner = Died
    BY <1>0, <1>1, <1>4, <1>5, <2>1, <2>2, HoldLatest DEF ReadTypes, LockTypes
  <2>3. CASE owner # Died
    <3>1. Committed' = Committed /\ UNCHANGED mti
      BY <1>1, <1>4, <2>3 DEF Start
    <3> QED
      BY <1>0, <1>1, <1>4, <2>1, <3>1, HoldStays
  <2> QED
    BY <2>2, <2>3
<1> QED
  BY <1>2, <1>6, <1>8, <1>9, <1>10, <1>11 DEF Inv

-----------------------------------------------------------------------------
(***************************************************************************)
(* Processes and the system                                                *)
(***************************************************************************)
LEMMA InvKill ==
  ASSUME Inv, NEW p \in Procs, Kill(p)
  PROVE  Inv'
<1>0. /\ Typed /\ LockTypes /\ ReadTypes /\ MetasWhole /\ Control /\ ReadersHold
      /\ alive[p] /\ alive' = [alive EXCEPT ![p] = FALSE]
      /\ UNCHANGED <<metas, dmetas, mti, slot, fatal, pgoldest>>
      /\ NoReads({r \in Readers : Home[r] = p})
  BY TypesAre DEF Inv, Typed, Kill, dataVars
<1>1. Typed'
  BY TypedStops DEF Inv, Stops
<1>2. \A q \in Procs : alive'[q] <=> alive[q] /\ q # p
  BY <1>0 DEF LockTypes
<1>3. \/ owner = p /\ owner' = Died /\ pc' = "idle"
      \/ owner # p /\ UNCHANGED <<owner, pc, txnVars>>
  BY DEF Kill, NoTxn
<1>4. MetaFailed' => MetaFailed
  BY <1>0, <1>2, <1>3 DEF MetaFailed
<1>5. MetaFailed => \A q \in Procs : ~alive'[q]
  BY <1>0, <1>2 DEF Control
<1>6. UNCHANGED <<Committed, Latest, Other, Settled>> /\ MetasWhole'
  BY <1>0, MetasStay DEF Committed, Latest, Better, Other, Settled
<1>7. Control'
  BY <1>0, <1>2, <1>3, <1>4, <1>6, NamesAssumption DEF Control
<1>8. OnDisk' /\ Work' /\ Prepared'
  <2>1. CASE pc' = "idle"
    BY <2>1 DEF OnDisk, Work, Prepared, Making, Saving
  <2>2. CASE UNCHANGED <<pc, txnVars>>
    BY <1>0, <2>2, WorkStays DEF Inv
  <2> QED
    BY <1>3, <2>1, <2>2
<1>9. \A r \in Readers : IF Home[r] = p THEN rpc'[r] = "idle"
                         ELSE UNCHANGED <<rpc[r], slot[r], rtree[r], rlast[r]>>
  BY <1>0 DEF NoReads
<1>10. Protected' \subseteq Protected /\
         \A r \in Protected' : UNCHANGED <<slot[r], Seen(r), Within(r)>>
  BY <1>0, <1>9 DEF Protected, Seen, Within
<1>11. pc' = "idle" \/ UNCHANGED <<pc, scan, oldest, pglast>>
  BY <1>3 DEF txnVars, scanVars, treeVars
<1>12. Behind(mti)' /\ \A r \in Protected' : Protects(r)'
  <2>1. Behind(mti)'
    BY <1>0, <1>2, <1>11 DEF ReadersHold, Behind, Making, Saving
  <2>2. ASSUME NEW r \in Protected' PROVE Protects(r)'
    <3>1. Protects(r)
      BY <1>0, <1>10 DEF ReadersHold
    <3> QED
      BY <1>0, <1>2, <1>11, <3>1 DEF Protects, Making, Saving
  <2> QED
    BY <2>1, <2>2
<1>13. \A r \in Readers : rpc'[r] # "idle" => alive'[Home[r]]
  BY <1>0, <1>2, <1>9, HomeAssumption DEF ReadersHold
<1>14. ASSUME \E q \in Procs : alive'[q] PROVE Held(Latest, Committed.tree, mti)'
  <2>1. ~MetaFailed /\ \E q \in Procs : alive[q]
    BY <1>2, <1>5, <1>14
  <2>2. Held(Latest, Committed.tree, mti)
    BY <1>0, <2>1 DEF ReadersHold
  <2> QED
    BY <1>0, <1>6, <2>2 DEF Held, PagesOf
<1>15. ASSUME NEW r \in Protected'
       PROVE  Held(Latest, Seen(r), slot[r])' /\ \A x \in PagesOf(Seen(r))' : x <= Within(r)'
  <2>1. alive'[Home[r]] /\ Home[r] \in Procs
    BY <1>13, HomeAssumption DEF Protected
  <2>2. ~MetaFailed /\ r \in Protected
    BY <1>5, <1>10, <2>1
  <2>3. Held(Latest, Seen(r), slot[r]) /\ \A x \in PagesOf(Seen(r)) : x <= Within(r)
    BY <1>0, <2>2 DEF ReadersHold
  <2> QED
    BY <1>6, <1>10, <2>3 DEF Held, PagesOf
<1>16. ReadersHold'
  BY <1>12, <1>13, <1>14, <1>15 DEF ReadersHold, PagesOf
<1> QED
  BY <1>1, <1>6, <1>7, <1>8, <1>16 DEF Inv

LEMMA InvOpen ==
  ASSUME Inv, SharedFaults = FALSE, NEW p \in Procs, Open(p)
  PROVE  Inv'
<1>0. /\ Typed /\ LockTypes /\ ReadTypes /\ MetasWhole /\ Control /\ ReadersHold
      /\ ~alive[p] /\ (\E q \in Procs : alive[q]) /\ ~MetaFailed
      /\ alive' = [alive EXCEPT ![p] = TRUE] /\ fatal' = [fatal EXCEPT ![p] = FALSE]
      /\ pgoldest' = [pgoldest EXCEPT ![p] = 0]
      /\ UNCHANGED <<metas, dmetas, mti, slot, owner, pc, txnVars, rpc, rtree, rlast>>
  BY TypesAre DEF Inv, Typed, Open, dataVars, readerVars
<1>1. Typed'
  BY TypedStops DEF Inv, Stops
<1>2. /\ \A q \in Procs : alive'[q] <=> alive[q] \/ q = p
      /\ \A q \in Procs : fatal'[q] <=> fatal[q] /\ q # p
      /\ \A q \in Procs : pgoldest'[q] = IF q = p THEN 0 ELSE pgoldest[q]
  BY <1>0 DEF LockTypes
<1>3. ~MetaFailed'
  BY <1>0, <1>2 DEF MetaFailed
<1>4. UNCHANGED <<Committed, Latest, Other, Settled>> /\ MetasWhole'
  BY <1>0, MetasStay DEF Committed, Latest, Better, Other, Settled
<1>5. Control'
  <2>1. pc # "idle" => owner \in Procs
    BY <1>0 DEF Typed, Holding
  <2>2. owner = NoProc => Settled
    BY <1>0 DEF Control, MetaFailed
  <2> QED
    BY <1>0, <1>2, <1>3, <1>4, <2>1, <2>2 DEF Control
<1>6. OnDisk' /\ Work' /\ Prepared'
  BY <1>0, WorkStays DEF Inv
<1>7. /\ Protected' = Protected /\ UNCHANGED <<scan, oldest, pglast>>
      /\ \A r \in Protected : UNCHANGED <<Seen(r), Within(r)>>
  BY <1>0 DEF Protected, Seen, Within, txnVars, scanVars, treeVars
<1>8. Behind(mti)' /\ \A r \in Protected : Protects(r)'
  <2>1. \A q \in Procs : alive[q] => pgoldest[q] <= mti
    BY <1>0 DEF ReadersHold, Behind
  <2>2. Behind(mti)'
    BY <1>0, <1>2, <1>7, <2>1 DEF ReadersHold, Behind, LockTypes
  <2>3. ASSUME NEW r \in Protected PROVE Protects(r)'
    <3>1. Protects(r)
      BY <1>0 DEF ReadersHold
    <3> QED
      BY <1>0, <1>2, <1>7, <3>1 DEF Protects
  <2> QED
    BY <2>2, <2>3
<1>9. ASSUME NEW r \in Protected
      PROVE  Held(Latest, Seen(r), slot[r])' /\ \A x \in PagesOf(Seen(r))' : x <= Within(r)'
  <2>1. Held(Latest, Seen(r), slot[r]) /\ \A x \in PagesOf(Seen(r)) : x <= Within(r)
    BY <1>0 DEF ReadersHold
  <2> QED
    BY <1>0, <1>4, <1>7, <2>1 DEF Held, PagesOf
<1>10. Held(Latest, Committed.tree, mti)'
  <2>1. Held(Latest, Committed.tree, mti)
    BY <1>0 DEF ReadersHold
  <2> QED
    BY <1>0, <1>4, <2>1 DEF Held, PagesOf
<1>11. \A r \in Readers : rpc'[r] # "idle" => alive'[Home[r]]
  BY <1>0, <1>2, HomeAssumption DEF ReadersHold
<1>12. ReadersHold'
  BY <1>7, <1>8, <1>9, <1>10, <1>11 DEF ReadersHold, PagesOf
<1> QED
  BY <1>1, <1>4, <1>5, <1>6, <1>12 DEF Inv

\* The first process to open the environment finds one whole database.
LEMMA InvFirst ==
  ASSUME Inv, NEW p \in Procs, Reopen(p) \/ SystemCrash(p)
  PROVE  Inv'
<1>0. Typed /\ MetasWhole
  BY DEF Inv
<1>1. Typed'
  BY TypedStops DEF Inv, Stops
<1>2. /\ DataTypes' /\ LockTypes' /\ Bounded'
      /\ alive' = [q \in Procs |-> q = p] /\ ~fatal'[p] /\ pgoldest'[p] = 0
      /\ mti' = Newest(metas').txnid /\ owner' = NoProc /\ pc' = "idle"
      /\ \A r \in Readers : rpc'[r] = "idle"
  <2>1. DataTypes' /\ LockTypes' /\ Bounded'
    BY <1>1 DEF Typed, TypeOK, DataTypes, LockTypes, Pcs
  <2>2. /\ alive' = [q \in Procs |-> q = p] /\ fatal' = [fatal EXCEPT ![p] = FALSE]
        /\ pgoldest' = [pgoldest EXCEPT ![p] = 0]
        /\ mti' = Newest(metas').txnid /\ owner' = NoProc /\ pc' = "idle" /\ NoReads(Readers)
    BY DEF Reopen, SystemCrash, OpenFirst, NoTxn, dataVars
  <2>3. fatal \in [Procs -> BOOLEAN] /\ pgoldest \in [Procs -> Nat]
    BY <1>0, TypesAre DEF Typed, LockTypes
  <2> QED
    BY <2>1, <2>2, <2>3 DEF NoReads
<1>3. Whole(Latest') /\ \A a \in dmetas'[0], b \in dmetas'[1] : Whole(Better(a, b))
  <2>1. CASE Reopen(p)
    <3>1. UNCHANGED <<metas, dmetas>>
      BY <2>1 DEF Reopen, dataVars
    <3>2. Latest' = Latest
      BY <3>1 DEF Latest, Better
    <3> QED
      BY <1>0, <3>1, <3>2 DEF MetasWhole
  <2>2. CASE SystemCrash(p)
    <3>1. /\ metas'[0] \in dmetas[0] /\ metas'[1] \in dmetas[1]
          /\ dmetas'[0] = {metas'[0]} /\ dmetas'[1] = {metas'[1]}
      BY <2>2 DEF SystemCrash
    <3>2. Latest' = Better(metas'[0], metas'[1])
      BY DEF Latest, Better
    <3> QED
      BY <1>0, <3>1, <3>2 DEF MetasWhole
  <2> QED
    BY <2>1, <2>2
<1>4. /\ metas' \in [{0, 1} -> Metas] /\ mti' \in Nat
      /\ metas'[0].txnid \in Nat /\ metas'[1].txnid \in Nat
      /\ Parity(0, metas'[0]) /\ Parity(1, metas'[1])
  BY <1>2 DEF DataTypes, LockTypes, Bounded, Sane, Metas, Parity
<1>5. /\ Newest(metas') \in Metas /\ Newest(metas') = Better(metas'[0], metas'[1])
      /\ \A i \in {0, 1} : metas'[i].txnid <= Newest(metas').txnid
  BY <1>4, NewestIs
<1>6. Committed' = Latest'
  <2>1. CASE metas'[0].txnid < metas'[1].txnid
    BY <1>2, <1>4, <1>5, <2>1 DEF Parity, Committed, Latest, Better
  <2>2. CASE ~(metas'[0].txnid < metas'[1].txnid)
    BY <1>2, <1>4, <1>5, <2>2 DEF Parity, Committed, Latest, Better
  <2> QED
    BY <2>1, <2>2
<1>7. Settled'
  <2>1. (mti' + 1) % 2 \in {0, 1}
    BY <1>4, Modulo
  <2> QED
    BY <1>2, <1>5, <2>1 DEF Settled, Other
<1>8. MetasWhole'
  BY <1>3, <1>6 DEF MetasWhole, Better, Whole, InFree, PagesOf
<1>9. Control' /\ OnDisk' /\ Work' /\ Prepared' /\ ~MetaFailed'
  BY <1>2, <1>7 DEF Control, OnDisk, Work, Prepared, Making, Saving, MetaFailed
<1>10. ReadersHold'
  <2>1. Protected' = {} /\ Behind(mti)'
    <3>1. ASSUME NEW q \in Procs, alive'[q] PROVE pgoldest'[q] <= mti'
      <4>1. q = p
        BY <1>2, <3>1
      <4>2. pgoldest'[q] = 0 /\ 0 <= mti'
        BY <1>2, <1>4, <4>1
      <4> QED
        BY <4>2
    <3>2. Protected' = {}
      BY <1>2 DEF Protected
    <3> QED
      BY <1>2, <3>1, <3>2 DEF Behind, Making, Saving
  <2>2. Held(Latest, Committed.tree, mti)'
    BY <1>6 DEF Held, PagesOf
  <2> QED
    BY <1>2, <2>1, <2>2 DEF ReadersHold
<1> QED
  BY <1>1, <1>8, <1>9, <1>10 DEF Inv

LEMMA InvCheck ==
  ASSUME Inv, ReaderCheck
  PROVE  Inv'
<1>0. /\ UNCHANGED <<metas, dmetas, mti, owner, alive, fatal, pgoldest, pc, txnVars, rpc, rtree,
                     rlast>>
      /\ \A r \in Readers : rpc[r] # "idle" => UNCHANGED slot[r]
  BY DEF ReaderCheck, Checked, dataVars, procVars, readerVars
<1>1. Typed'
  BY TypedStops DEF Inv, Stops
<1>2. UNCHANGED <<Committed, Latest, Other, Settled, MetaFailed>> /\ MetasWhole'
  BY <1>0, MetasStay DEF Inv, Committed, Latest, Better, Other, Settled, MetaFailed
<1>3. Control'
  BY <1>0, <1>2 DEF Inv, Control
<1>4. OnDisk' /\ Work' /\ Prepared'
  BY <1>0, WorkStays DEF Inv
<1>5. ReadersHold'
  BY <1>0, <1>2, HoldStays DEF Inv, txnVars, treeVars, scanVars
<1> QED
  BY <1>1, <1>2, <1>3, <1>4, <1>5 DEF Inv

-----------------------------------------------------------------------------
(***************************************************************************)
(* Results                                                                 *)
(***************************************************************************)
LEMMA InvInit == Init => Inv
<1> SUFFICES ASSUME Init PROVE Inv
  OBVIOUS
<1>1. /\ metas[0] = NewMeta /\ metas[1] = NewMeta /\ dmetas[0] = {NewMeta} /\ dmetas[1] = {NewMeta}
      /\ mti = 0 /\ owner = NoProc /\ pc = "idle" /\ (\A q \in Procs : ~fatal[q] /\ pgoldest[q] = 0)
      /\ \A r \in Readers : rpc[r] = "idle"
  BY DEF Init
<1>2. Typed
  BY TypedInit
<1>3. Committed = NewMeta /\ Latest = NewMeta /\ Other = NewMeta /\
        Better(NewMeta, NewMeta) = NewMeta
  <2>1. 0 % 2 = 0 /\ (0 + 1) % 2 = 1
    OBVIOUS
  <2> QED
    BY <1>1, <2>1 DEF Committed, Latest, Other, Better
<1>4. Whole(NewMeta) /\ Settled
  <2>1. /\ NewMeta.txnid = 0 /\ NewMeta.last = 1 /\ NewMeta.free = {} /\
             \A k \in Keys : NewMeta.tree[k] = 0
    BY EmptyTypes
  <2>2. PagesOf(NewMeta.tree) = {}
    BY <2>1 DEF PagesOf
  <2>3. \A x \in Pages : ~(x <= 1)
    BY BoundsAssumption DEF Pages
  <2> QED
    BY <1>1, <1>3, <2>1, <2>2, <2>3, BoundsAssumption DEF Whole, Settled
<1>5. MetasWhole
  BY <1>1, <1>3, <1>4 DEF MetasWhole
<1>6. Control /\ OnDisk /\ Work /\ Prepared
  BY <1>1, <1>4 DEF Control, OnDisk, Work, Prepared, MetaFailed, Making, Saving
<1>7. ReadersHold
  <2>1. Protected = {} /\ Behind(mti)
    BY <1>1 DEF Protected, Behind, Making, Saving
  <2> QED
    BY <1>1, <1>3, <2>1 DEF ReadersHold, Held
<1> QED
  BY <1>2, <1>5, <1>6, <1>7 DEF Inv

LEMMA InvStep ==
  ASSUME SharedFaults = FALSE
  PROVE  Inv /\ [Next]_vars => Inv'
<1> SUFFICES ASSUME Inv, [Next]_vars PROVE Inv'
  OBVIOUS
<1>1. ASSUME NEW r \in Readers, Read(r) PROVE Inv'
  BY <1>1, InvRead
<1>2. CASE Quiet
  BY <1>2, InvQuiet
<1>3. CASE Commits
  BY <1>3, InvFlush, InvWrite, InvRestore DEF Commits
<1>4. CASE Turns
  BY <1>4, InvPublish, InvEnd, InvBegin DEF Turns
<1>5. CASE Stops
  BY <1>5, InvKill, InvOpen, InvFirst, InvCheck DEF Stops
<1>6. CASE UNCHANGED vars
  <2> USE DEF vars, dataVars, procVars, txnVars, treeVars, scanVars, readerVars
  <2>1. Typed'
    BY <1>6, TypedStep DEF Inv
  <2>2. /\ UNCHANGED <<metas, dmetas, mti, owner, alive, fatal, pgoldest, pc, txnVars, rpc, rtree,
                       rlast, slot>>
    BY <1>6
  <2>3. UNCHANGED <<Committed, Latest, Other, Settled, MetaFailed>> /\ MetasWhole'
    BY <2>2, MetasStay DEF Inv, Committed, Latest, Better, Other, Settled, MetaFailed
  <2>4. Control'
    BY <2>2, <2>3 DEF Inv, Control
  <2>5. OnDisk' /\ Work' /\ Prepared'
    BY <2>2, WorkStays DEF Inv
  <2>6. ReadersHold'
    BY <2>2, <2>3, HoldStays DEF Inv
  <2> QED
    BY <2>1, <2>3, <2>4, <2>5, <2>6 DEF Inv
<1> QED
  BY <1>1, <1>2, <1>3, <1>4, <1>5, <1>6, Steps

LEMMA InvHolds ==
  ASSUME SharedFaults = FALSE
  PROVE  Spec => []Inv
<1>1. Init => Inv
  BY InvInit
<1>2. Inv /\ [Next]_vars => Inv'
  BY InvStep
<1> QED
  BY <1>1, <1>2, PTL DEF Spec

\* "Each non-metapage up to MDB_meta.mm_last_pg is reachable exactly once in the
\* snapshot: Either used by a database or listed in a freeDB record": no page is lost
\* and none is used twice, whatever is reused, aborted, killed or recovered
\* (mdb_page_alloc, mdb_freelist_save, mdb_env_pick_meta).
THEOREM EveryPageOnce ==
  ASSUME SharedFaults = FALSE
  PROVE  Spec => []PagesAccounted
<1>1. Inv => PagesAccounted
  <2> SUFFICES ASSUME Inv PROVE Accounted(Committed)
    BY DEF PagesAccounted, Committed
  <2> DEFINE freed1 == {e[2] : e \in Committed.free}
  <2>1. Committed \in Metas /\ Whole(Committed)
    BY TwoMetas DEF Inv, MetasWhole
  <2>2. /\ PagesOf(Committed.tree) \subseteq Pages /\ Committed.last \in Nat /\ MaxPage \in Nat
        /\ Committed.last <= MaxPage
        /\ \A e \in Committed.free : e = <<e[1], e[2]>> /\ e[1] \in Nat /\ e[2] \in Pages
    BY <2>1, PagesOfTree, BoundsAssumption DEF Metas, Listed, Whole
  <2>3. \A j, k \in Keys : Committed.tree[j] = Committed.tree[k] /\ Committed.tree[j] # 0 => j = k
    BY <2>1 DEF Whole
  <2>4. ASSUME NEW d \in Committed.free, NEW e \in Committed.free, d[2] = e[2] PROVE d = e
    BY <2>1, <2>2, <2>4 DEF Whole
  <2>5. \A x \in Pages : x \in freed1 <=> InFree(Committed, x)
    BY <2>2 DEF InFree
  <2>6. freed1 \subseteq Pages
    BY <2>2
  <2>7. PagesOf(Committed.tree) \cap freed1 = {}
    BY <2>1, <2>5, <2>6 DEF Whole, InFree
  <2>8. ASSUME NEW x \in PagesOf(Committed.tree) \cup freed1 PROVE x \in 2 .. Committed.last
    <3>1. x \in Pages /\ x <= Committed.last
      BY <2>1, <2>2, <2>5, <2>6 DEF Whole, InFree
    <3> QED
      BY <2>2, <3>1 DEF Pages
  <2>9. ASSUME NEW x \in 2 .. Committed.last PROVE x \in PagesOf(Committed.tree) \cup freed1
    <3>1. x \in Pages /\ x <= Committed.last
      BY <2>2 DEF Pages
    <3> QED
      BY <2>1, <2>5, <3>1 DEF Whole
  <2>10. PagesOf(Committed.tree) \cup freed1 = 2 .. Committed.last
    BY <2>8, <2>9
  <2> QED
    BY <2>3, <2>4, <2>7, <2>10 DEF Accounted
<1> QED
  BY <1>1, InvHolds, PTL

\* A write transaction fills no page of the last commit, nor one that a read
\* transaction still uses, in any interleaving of mdb_txn_renew0, mdb_find_oldest and
\* mdb_page_alloc.
THEOREM PageReuse ==
  ASSUME SharedFaults = FALSE
  PROVE  Spec => []ReuseIsSafe
<1>1. Inv => ReuseIsSafe
  <2> SUFFICES ASSUME Inv, pc \in Making
               PROVE  /\ Fresh \cap PagesOf(Committed.tree) = {}
                      /\ \A r \in Readers : rpc[r] \in {"last", "read"} =>
                           Fresh \cap PagesOf(rtree[r]) = {}
    BY DEF ReuseIsSafe, Making, Committed
  <2>0. /\ Typed /\ Work /\ Whole(Committed) /\ TreeTypes /\ ReadTypes /\ Committed \in Metas
        /\ Fresh \subseteq Pages /\ Latest = Committed /\ pglast \in Nat /\ Committed.last \in Nat
        /\ Pages \subseteq Nat
    BY TwoMetas, TypesAre, BoundsAssumption DEF Inv, MetasWhole, Typed, Control, Making, TreeTypes,
       Fresh, Metas, Pages
  <2>1. Fresh \cap PagesOf(Committed.tree) = {}
    BY <2>0, Taken
  <2>2. ~MetaFailed
    BY DEF Inv, Typed, Holding, Control, MetaFailed, Making
  <2>3. ASSUME NEW r \in Readers, rpc[r] \in {"last", "read"}, NEW x \in Fresh,
               x \in PagesOf(rtree[r])
        PROVE  FALSE
    <3>1. r \in Protected /\ Seen(r) = rtree[r]
      BY <2>3 DEF Protected, Seen
    <3>2. Held(Committed, rtree[r], slot[r]) /\ Protects(r)
      BY <2>0, <2>2, <3>1 DEF Inv, ReadersHold
    <3>3. x \in Pages /\ x \notin PagesOf(Committed.tree)
      BY <2>0, <2>1
    <3>4. PICK n \in Nat : n > slot[r] /\ <<n, x>> \in Committed.free
      BY <2>3, <3>2, <3>3 DEF Held
    <3>5. n > pglast
      BY <2>0, <3>2, <3>4 DEF Protects
    <3> QED
      BY <2>0, <3>3, <3>4, <3>5, Taken
  <2> QED
    BY <2>1, <2>3
<1> QED
  BY <1>1, InvHolds, PTL

\* A reader that has read its roots and mm_last_pg at two moments, with a commit in
\* between, still finds all its pages (mdb_txn_renew0, mdb_page_get).
THEOREM ReaderFindsPages ==
  ASSUME SharedFaults = FALSE
  PROVE  Spec => []ReaderWithinLast
<1>1. Inv => ReaderWithinLast
  <2> SUFFICES ASSUME Inv, ~MetaFailed, NEW r \in Readers, rpc[r] = "read",
                      NEW x \in PagesOf(rtree[r])
               PROVE  x \in 2 .. rlast[r]
    BY DEF ReaderWithinLast
  <2>1. ReadTypes
    BY TypesAre DEF Inv, Typed
  <2>2. r \in Protected /\ Seen(r) = rtree[r] /\ Within(r) = rlast[r]
    BY DEF Protected, Seen, Within
  <2>3. x <= rlast[r]
    BY <2>2 DEF Inv, ReadersHold
  <2>4. x \in Pages /\ rlast[r] \in Nat
    BY <2>1, PagesOfTree DEF ReadTypes
  <2> QED
    BY <2>3, <2>4, BoundsAssumption DEF Pages
<1> QED
  BY <1>1, InvHolds, PTL
=============================================================================
