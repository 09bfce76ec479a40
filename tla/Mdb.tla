--------------------------------- MODULE Mdb ---------------------------------
(***************************************************************************)
(* LMDB's transactions (libraries/liblmdb/mdb.c): copy-on-write pages, two  *)
(* meta pages used in turn, readers that take no lock, one writer at a time *)
(* under a robust mutex, pages reused once no reader can need them, and     *)
(* processes and systems that stop at any point.                            *)
(*                                                                          *)
(* A database maps each key to a page of its own: the B-trees, their branch *)
(* pages and the pages of the free list itself are not modelled.  A page    *)
(* contains the number of the write transaction that filled it.             *)
(***************************************************************************)
EXTENDS Integers, Sequences, FiniteSets

CONSTANTS
  Keys,
  Readers,       \* threads that run read transactions, each with a reader slot
  Procs,         \* processes that have the environment open
  Home,          \* the process of each reader
  NoProc, Died,  \* not processes: the mutex is free, its owner has died
  NoKey,
  NoDb,          \* no database
  MaxPage,       \* me_maxpg - 2, the last page that can be allocated
  MetaSync,      \* whether commits may be made with and without MDB_NOMETASYNC
  SharedFaults,  \* whether the write of a meta page may fail while another
                 \* process has the environment open
  LateCrash,     \* whether the system may crash after pages of a commit that
                 \* failed were filled again
  MaxTxns,       \* bound: write transactions begun
  MaxStops       \* bound: kills and crashes

ASSUME NamesAssumption ==
  NoProc \notin Procs /\ Died \notin Procs /\ NoProc # Died /\ NoKey \notin Keys
ASSUME StoreAssumption == NoDb \notin [Keys -> Nat]
ASSUME HomeAssumption == Home \in [Readers -> Procs]
ASSUME BoundsAssumption ==
  /\ MaxPage \in Nat /\ MaxPage >= 2 /\ MaxTxns \in Nat /\ MaxStops \in Nat
  /\ MetaSync \in SUBSET BOOLEAN /\ SharedFaults \in BOOLEAN /\ LateCrash \in BOOLEAN

Pages   == 2 .. MaxPage                       \* 0 and 1 are the meta pages
Trees   == [Keys -> {0} \cup Pages]           \* 0: the key is absent
Listed  == SUBSET (Nat \X Pages)              \* freeDB: record id, free page
Metas   == [txnid : Nat, tree : Trees, free : Listed, last : Nat]
NewMeta == [txnid |-> 0, tree |-> [k \in Keys |-> 0], free |-> {}, last |-> 1]
Idle    == -1                                 \* mr_txnid of an idle slot

VARIABLES
  \* the data file
  map,       \* me_map: the contents of each page, as processes see them
  disk,      \* what a crash may leave in each page
  metas,     \* me_metas
  dmetas,    \* what a crash may leave in each meta page
  \* the lock file
  mti,       \* mti_txnid
  slot,      \* mr_txnid of each reader
  owner,     \* who holds me_wmutex
  \* the processes
  alive,
  fatal,     \* MDB_FATAL_ERROR
  pgoldest,  \* me_pgoldest
  \* the write transaction
  pc,        \* where it is
  txnid,     \* mt_txnid
  stamp,     \* its number among all write transactions ever begun
  tree, free, nextpg,  \* mt_dbs[MAIN_DBI], mt_dbs[FREE_DBI], mt_next_pgno
  freed,     \* mt_free_pgs
  loose,     \* mt_loose_pgs
  dirty,     \* the dirty pages in the tree
  pghead,    \* me_pghead
  pglast,    \* me_pglast
  want,      \* the key a page is being allocated for
  found,     \* found_old of mdb_page_alloc
  scan,      \* slots mdb_find_oldest has not looked at yet
  oldest,    \* the oldest reader it has found so far
  metab,     \* what mdb_env_write_meta would write back
  \* the read transactions
  rpc, reg, rtree, rlast,
  \* history
  log,       \* the databases committed
  kept,      \* how many of them are on the disk
  floor,     \* length of the log when a reader's slot was published, 0 if it is not
  stops

dataVars   == <<map, disk, metas, dmetas>>
procVars   == <<alive, fatal>>
treeVars   == <<tree, free, nextpg, freed, loose, dirty, pghead, pglast, want>>
scanVars   == <<found, scan, oldest>>
txnVars    == <<txnid, treeVars, scanVars, metab>>
readerVars == <<rpc, reg, rtree, rlast, floor>>
histVars   == <<log, kept, stops>>
vars == <<dataVars, mti, slot, owner, procVars, pgoldest, pc, txnVars, stamp, readerVars,
          histVars>>

PagesOf(t) == {t[k] : k \in Keys} \ {0}

\* The database a tree stands for, read through the map.
Contents(t) == [k \in Keys |-> IF t[k] = 0 THEN 0 ELSE map[t[k]]]

Smallest(S) == CHOOSE n \in S : \A m \in S : n <= m

\* Mutant of Newest: the older one is picked.
OldestMeta(m) == IF m[0].txnid < m[1].txnid THEN m[0] ELSE m[1]

\* mdb_env_pick_meta
Newest(m) == IF m[0].txnid < m[1].txnid THEN m[1] ELSE m[0]

Init ==
  /\ map = [p \in Pages |-> 0] /\ disk = [p \in Pages |-> {0}]
  /\ metas = [i \in {0, 1} |-> NewMeta] /\ dmetas = [i \in {0, 1} |-> {NewMeta}]
  /\ mti = 0 /\ slot = [r \in Readers |-> Idle] /\ owner = NoProc
  /\ alive = [p \in Procs |-> TRUE] /\ fatal = [p \in Procs |-> FALSE]
  /\ pgoldest = [p \in Procs |-> 0]
  /\ pc = "idle" /\ txnid = 0 /\ stamp = 0
  /\ tree = NewMeta.tree /\ free = {} /\ nextpg = 2 /\ freed = {} /\ loose = {}
  /\ dirty = {} /\ pghead = {} /\ pglast = 0 /\ want = NoKey
  /\ found = FALSE /\ scan = {} /\ oldest = 0 /\ metab = [txnid |-> 0, last |-> 1]
  /\ rpc = [r \in Readers |-> "idle"] /\ reg = [r \in Readers |-> 0]
  /\ rtree = [r \in Readers |-> NewMeta.tree] /\ rlast = [r \in Readers |-> 1]
  /\ log = <<NewMeta.tree>> /\ kept = 1 /\ floor = [r \in Readers |-> 0] /\ stops = 0

-----------------------------------------------------------------------------
(***************************************************************************)
(* Read transactions: mdb_txn_renew0, mdb_txn_end                          *)
(***************************************************************************)
Goto(r, label) == rpc' = [rpc EXCEPT ![r] = label]
ReadOnly == UNCHANGED <<dataVars, mti, owner, procVars, pgoldest, pc, txnVars, stamp, log,
                        kept, stops>>

\* r->mr_txnid = ti->mti_txnid, a load and a store, ...
Load(r) ==
  /\ rpc[r] = "load" \/ (rpc[r] = "idle" /\ slot[r] = Idle /\ alive[Home[r]])
  /\ reg' = [reg EXCEPT ![r] = mti] /\ Goto(r, "announce")
  /\ ReadOnly /\ UNCHANGED <<slot, rtree, rlast, floor>>

Announce(r) ==
  /\ rpc[r] = "announce"
  /\ slot' = [slot EXCEPT ![r] = reg[r]] /\ Goto(r, "check")
  /\ ReadOnly /\ UNCHANGED <<reg, rtree, rlast, floor>>

\* ... again until the two agree.
Agrees(r) == slot[r] = mti

Check(r) ==
  /\ rpc[r] = "check"
  /\ IF Agrees(r)
     THEN Goto(r, "copy") /\ floor' = [floor EXCEPT ![r] = Len(log)]
     ELSE Goto(r, "load") /\ UNCHANGED floor
  /\ reg' = [reg EXCEPT ![r] = 0]
  /\ ReadOnly /\ UNCHANGED <<slot, rtree, rlast>>

\* The roots are copied from the meta page of that number, then mm_last_pg is read:
\* by then a later commit may have taken its place.
Copy(r) ==
  /\ rpc[r] = "copy"
  /\ rtree' = [rtree EXCEPT ![r] = metas[slot[r] % 2].tree] /\ Goto(r, "last")
  /\ ReadOnly /\ UNCHANGED <<slot, reg, rlast, floor>>

\* Nothing is left of read transactions that are over.
NoReads(R) ==
  /\ rpc' = [r \in Readers |-> IF r \in R THEN "idle" ELSE rpc[r]]
  /\ reg' = [r \in Readers |-> IF r \in R THEN 0 ELSE reg[r]]
  /\ rtree' = [r \in Readers |-> IF r \in R THEN NewMeta.tree ELSE rtree[r]]
  /\ rlast' = [r \in Readers |-> IF r \in R THEN 1 ELSE rlast[r]]
  /\ floor' = [r \in Readers |-> IF r \in R THEN 0 ELSE floor[r]]

EndRead(r) == slot' = [slot EXCEPT ![r] = Idle] /\ NoReads({r}) /\ ReadOnly

\* Mutant of LastPage: taken from the other meta page.
OtherLastPage(r) == metas[(slot[r] + 1) % 2].last

LastPage(r) == metas[slot[r] % 2].last

\* A process that had a fatal error begins no transaction.
Last(r) ==
  /\ rpc[r] = "last"
  /\ IF fatal[Home[r]]
     THEN EndRead(r)
     ELSE /\ rlast' = [rlast EXCEPT ![r] = LastPage(r)] /\ Goto(r, "read")
          /\ ReadOnly /\ UNCHANGED <<slot, reg, rtree, floor>>

Finish(r) == rpc[r] = "read" /\ EndRead(r)

-----------------------------------------------------------------------------
(***************************************************************************)
(* The write transaction: mdb_txn_renew0, mdb_page_touch, mdb_page_alloc   *)
(***************************************************************************)
WriteOnly == UNCHANGED <<readerVars, procVars, stops>>

\* Nothing is left of a transaction that is over.
NoTxn ==
  /\ pc' = "idle" /\ txnid' = 0 /\ tree' = NewMeta.tree /\ free' = {} /\ nextpg' = 2
  /\ freed' = {} /\ loose' = {} /\ dirty' = {} /\ pghead' = {} /\ pglast' = 0 /\ want' = NoKey
  /\ found' = FALSE /\ scan' = {} /\ oldest' = 0 /\ metab' = [txnid |-> 0, last |-> 1]

\* mdb_txn_end releases the mutex.
EndWrite == owner' = NoProc /\ NoTxn

\* The slots of readers whose process is gone are cleared (mdb_reader_check0), also
\* when another has come in its place.
Checked == [r \in Readers |-> IF rpc[r] = "idle" THEN Idle ELSE slot[r]]

\* What the log is once the commits up to meta page m are taken as made.
LogUpTo(m, pages) ==
  Append(SubSeq(log, 1, m.txnid), [k \in Keys |-> IF m.tree[k] = 0 THEN 0 ELSE pages[m.tree[k]]])

\* A process takes me_wmutex.  If it finds that the owner has died
\* (mdb_mutex_failed) it makes the newest meta page the last commit and clears the
\* slots of dead readers.
Begin(p) ==
  LET ownerDied == owner = Died
      meta == IF ownerDied THEN Newest(metas) ELSE metas[mti % 2]
      last == IF ownerDied THEN meta.txnid ELSE mti
  IN  /\ alive[p] /\ stamp < MaxTxns
      /\ owner \in {NoProc, Died}
      /\ mti' = last
      /\ slot' = IF ownerDied THEN Checked ELSE slot
      /\ log' = IF last = mti THEN log ELSE LogUpTo(meta, map)
      /\ IF fatal[p]
         THEN EndWrite /\ UNCHANGED stamp
         ELSE /\ owner' = p /\ pc' = "write" /\ txnid' = last + 1 /\ stamp' = stamp + 1
              /\ tree' = meta.tree /\ free' = meta.free /\ nextpg' = meta.last + 1
              /\ freed' = {} /\ loose' = {} /\ dirty' = {} /\ pghead' = {} /\ pglast' = 0
              /\ want' = NoKey /\ UNCHANGED <<scanVars, metab>>
      /\ UNCHANGED <<dataVars, pgoldest, kept>> /\ WriteOnly

Private == UNCHANGED <<dataVars, mti, slot, owner, txnid, stamp, metab, log, kept>> /\ WriteOnly

\* mdb_page_touch: a page that is not dirty is about to be written, or made.
Touch(k) ==
  /\ pc = "write" /\ tree[k] \notin dirty
  /\ want' = k /\ found' = FALSE /\ pc' = "alloc"
  /\ UNCHANGED <<pgoldest, tree, free, nextpg, freed, loose, dirty, pghead, pglast, scan, oldest>>
  /\ Private

\* mdb_page_loose, mdb_drop0: a dirty page may be used again by this transaction, any
\* other only once no reader needs it.
Drop(k) ==
  /\ pc = "write" /\ tree[k] # 0
  /\ tree' = [tree EXCEPT ![k] = 0] /\ dirty' = dirty \ {tree[k]}
  /\ IF tree[k] \in dirty
     THEN loose' = loose \cup {tree[k]} /\ UNCHANGED freed
     ELSE freed' = freed \cup {tree[k]} /\ UNCHANGED loose
  /\ UNCHANGED <<pc, pgoldest, free, nextpg, pghead, pglast, want, scanVars>> /\ Private

\* The new page takes the place of the old one, which is freed.
Place(page) ==
  /\ tree' = [tree EXCEPT ![want] = page] /\ dirty' = dirty \cup {page}
  /\ freed' = freed \cup ({tree[want]} \ {0})
  /\ pc' = "write" /\ want' = NoKey
  /\ UNCHANGED <<pgoldest, free, scanVars>> /\ Private

\* Records of the free list that were not fetched yet.
Later == {e[1] : e \in free} \ 0 .. pglast
Limit == IF Later = {} THEN pglast + 1 ELSE Smallest(Later)
Record(id) == {e[2] : e \in {e \in free : e[1] = id}}

\* Mutant of TooRecent: off by one.
TooRecentByOne == pgoldest[owner] < Limit

\* "Do not fetch more if the record will be too recent".
TooRecent == pgoldest[owner] <= Limit

FromLoose ==
  /\ pc = "alloc"
  /\ \E page \in loose : Place(page) /\ loose' = loose \ {page}
  /\ UNCHANGED <<nextpg, pghead, pglast>>

\* Mutant of FromHead: the page stays in me_pghead.
FromHeadTwice ==
  /\ pc = "alloc" /\ loose = {} /\ pghead # {}
  /\ Place(Smallest(pghead))
  /\ UNCHANGED <<nextpg, loose, pghead, pglast>>

FromHead ==
  /\ pc = "alloc" /\ loose = {} /\ pghead # {}
  /\ Place(Smallest(pghead)) /\ pghead' = pghead \ {Smallest(pghead)}
  /\ UNCHANGED <<nextpg, loose, pglast>>

FromRecord ==
  /\ pc = "alloc" /\ loose = {} /\ pghead = {} /\ Later # {} /\ ~TooRecent
  /\ LET pages == Record(Limit)
     IN  Place(Smallest(pages)) /\ pghead' = pages \ {Smallest(pages)}
  /\ pglast' = Limit
  /\ UNCHANGED <<nextpg, loose>>

NothingFree ==
  /\ pc = "alloc" /\ loose = {} /\ pghead = {}
  /\ IF TooRecent THEN found ELSE Later = {}

\* Mutant of Room: one page too many.
RoomForOneMore == nextpg <= MaxPage + 1

Room == nextpg <= MaxPage

Extend ==
  /\ NothingFree /\ Room
  /\ Place(nextpg) /\ nextpg' = nextpg + 1
  /\ UNCHANGED <<loose, pghead, pglast>>

Full ==
  /\ NothingFree /\ ~Room
  /\ pc' = "failed"
  /\ UNCHANGED <<pgoldest, treeVars, scanVars>> /\ Private

\* mdb_find_oldest reads the slots one by one, once in a call of mdb_page_alloc.
Found(S, id) ==
  /\ scan' = S /\ oldest' = id
  /\ IF S = {}
     THEN pgoldest' = [pgoldest EXCEPT ![owner] = id] /\ found' = TRUE /\ pc' = "alloc"
     ELSE UNCHANGED <<pgoldest, found>> /\ pc' = "scan"
  /\ UNCHANGED treeVars /\ Private

FindOldest ==
  /\ pc = "alloc" /\ loose = {} /\ pghead = {} /\ TooRecent /\ ~found
  /\ Found(Readers, txnid - 1)

\* Mutant of Older: readers of other processes are not looked at.
OlderHere(r) == Home[r] = owner /\ slot[r] # Idle /\ slot[r] < oldest

Older(r) == slot[r] # Idle /\ slot[r] < oldest

Scan(r) ==
  /\ pc = "scan" /\ r \in scan
  /\ Found(scan \ {r}, IF Older(r) THEN slot[r] ELSE oldest)

-----------------------------------------------------------------------------
(***************************************************************************)
(* mdb_txn_commit                                                          *)
(***************************************************************************)
\* Mutant of Saved: the loose pages are forgotten.
SavedLeaks ==
  {e \in free : e[1] > pglast}
  \cup ({txnid} \X freed) \cup ({pglast} \X (IF pglast = 0 THEN {} ELSE pghead))

\* mdb_freelist_save: the records that were fetched are deleted, the pages freed are
\* listed under this transaction, and pages left of the records under the last of them.
Saved ==
  {e \in free : e[1] > pglast}
  \cup ({txnid} \X (freed \cup (IF pglast = 0 THEN loose ELSE {})))
  \cup ({pglast} \X (IF pglast = 0 THEN {} ELSE pghead \cup loose))

CommitOnly == UNCHANGED <<mti, slot, owner, pgoldest, txnid, stamp, scanVars, log>> /\ WriteOnly
Written(S) == /\ map' = [p \in Pages |-> IF p \in S THEN stamp ELSE map[p]]
              /\ disk' = [p \in Pages |-> IF p \in S THEN disk[p] \cup {stamp} ELSE disk[p]]

\* Saves the free list and writes the dirty pages (mdb_page_flush).
Flush ==
  /\ pc = "write" /\ dirty \cup loose \cup freed # {}
  /\ free' = Saved
  /\ Written(dirty) /\ pc' = "sync"
  /\ UNCHANGED <<metas, dmetas, tree, nextpg, freed, loose, dirty, pghead, pglast, want, metab,
                 kept>>
  /\ CommitOnly

\* Some pages may be written before one is not.
FlushFails ==
  /\ pc = "write" /\ dirty # {}
  /\ \E S \in SUBSET dirty : S # dirty /\ Written(S)
  /\ free' = Saved /\ pc' = "failed"
  /\ UNCHANGED <<metas, dmetas, tree, nextpg, freed, loose, dirty, pghead, pglast, want, metab,
                 kept>>
  /\ CommitOnly

\* mdb_env_sync: everything written so far is on the disk.
Sync ==
  /\ pc = "sync" /\ pc' = "meta"
  /\ disk' = [p \in Pages |-> {map[p]}] /\ dmetas' = [i \in {0, 1} |-> {metas[i]}]
  /\ kept' = Len(log)
  /\ UNCHANGED <<map, metas, treeVars, metab>> /\ CommitOnly

SyncFails ==
  /\ pc = "sync" /\ pc' = "failed"
  /\ UNCHANGED <<dataVars, treeVars, metab, kept>> /\ CommitOnly

\* mdb_env_write_meta
Toggle == txnid % 2
Meta   == [txnid |-> txnid, tree |-> tree, free |-> free, last |-> nextpg - 1]

WriteMeta(sync) ==
  /\ pc = "meta" /\ pc' = "publish"
  /\ metas' = [metas EXCEPT ![Toggle] = Meta]
  /\ dmetas' = [dmetas EXCEPT ![Toggle] = IF sync THEN {Meta} ELSE @ \cup {Meta}]
  /\ UNCHANGED <<map, disk, treeVars, metab, kept>> /\ CommitOnly

\* "On a failure, the pagecache still contains the new data."
WriteMetaFails ==
  /\ pc = "meta" /\ pc' = "restore"
  /\ metab' = [txnid |-> metas[Toggle].txnid, last |-> metas[Toggle].last]
  /\ SharedFaults \/ \A p \in Procs : alive[p] => p = owner
  /\ metas' = [metas EXCEPT ![Toggle] = Meta]
  /\ dmetas' = [dmetas EXCEPT ![Toggle] = @ \cup {Meta}]
  /\ UNCHANGED <<map, disk, treeVars, kept>> /\ CommitOnly

\* "Write some old data back, to prevent it from being used", which may fail as well.
Restore(works) ==
  /\ pc = "restore" /\ pc' = "panic"
  /\ LET meta == [Meta EXCEPT !.txnid = metab.txnid, !.last = metab.last]
     IN  IF works
         THEN /\ metas' = [metas EXCEPT ![Toggle] = meta]
              /\ dmetas' = [dmetas EXCEPT ![Toggle] = @ \cup {meta}]
         ELSE UNCHANGED <<metas, dmetas>>
  /\ UNCHANGED <<map, disk, metab, treeVars, kept>> /\ CommitOnly

\* mti_txnid is set last.
Publish ==
  /\ pc = "publish" /\ EndWrite
  /\ mti' = txnid /\ log' = LogUpTo(Meta, map)
  /\ kept' = IF dmetas[Toggle] = {Meta} THEN Len(log') ELSE kept
  /\ UNCHANGED <<dataVars, slot, pgoldest, stamp>> /\ WriteOnly

\* A transaction ends without a commit: aborted, failed, or with nothing to commit.
Abort ==
  /\ pc \in {"write", "failed"} /\ EndWrite
  /\ UNCHANGED <<dataVars, mti, slot, pgoldest, stamp, log, kept>> /\ WriteOnly

\* MDB_FATAL_ERROR: this process begins no transaction any more.
Panic ==
  /\ pc = "panic" /\ EndWrite
  /\ fatal' = [fatal EXCEPT ![owner] = TRUE]
  /\ UNCHANGED <<dataVars, mti, slot, alive, pgoldest, stamp, readerVars, log, kept, stops>>

-----------------------------------------------------------------------------
(***************************************************************************)
(* Processes and the system                                                *)
(***************************************************************************)
\* A process is killed.  Its slots and its mutex stay as they are.
Kill(p) ==
  /\ alive[p] /\ stops < MaxStops /\ stops' = stops + 1
  /\ alive' = [alive EXCEPT ![p] = FALSE]
  /\ IF owner = p THEN owner' = Died /\ NoTxn ELSE UNCHANGED <<owner, pc, txnVars>>
  /\ NoReads({r \in Readers : Home[r] = p})
  /\ UNCHANGED <<dataVars, mti, slot, fatal, pgoldest, stamp, log, kept>>

\* A write of a meta page has failed in a process that is still there.
MetaFailed == pc \in {"restore", "panic"} \/ \E p \in Procs : alive[p] /\ fatal[p]

\* A process opens the environment while others have it open: mdb_env_open.
Open(p) ==
  /\ ~alive[p] /\ \E q \in Procs : alive[q]
  /\ SharedFaults \/ ~MetaFailed
  /\ alive' = [alive EXCEPT ![p] = TRUE] /\ fatal' = [fatal EXCEPT ![p] = FALSE]
  /\ pgoldest' = [pgoldest EXCEPT ![p] = 0]
  /\ UNCHANGED <<dataVars, mti, slot, owner, pc, txnVars, stamp, readerVars, histVars>>

\* The first process to open it finds m in the meta pages and resets the lock file
\* (mdb_env_setup_locks, mdb_env_share_locks).
OpenFirst(p, m, pages) ==
  /\ alive' = [q \in Procs |-> q = p] /\ fatal' = [fatal EXCEPT ![p] = FALSE]
  /\ pgoldest' = [pgoldest EXCEPT ![p] = 0]
  /\ mti' = Newest(m).txnid /\ slot' = [r \in Readers |-> Idle] /\ owner' = NoProc
  /\ NoTxn /\ NoReads(Readers)
  /\ log' = LogUpTo(Newest(m), pages)
  /\ UNCHANGED <<stamp, kept>>

Reopen(p) ==
  /\ \A q \in Procs : ~alive[q]
  /\ OpenFirst(p, metas, map)
  /\ UNCHANGED <<dataVars, stops>>

\* A commit whose meta page may be used after a crash, though it is not published.
InDoubt ==
  {m \in dmetas[(mti + 1) % 2] \cup {metas[(mti + 1) % 2]} : m.txnid > mti}

\* Its meta page failed to be written and was written back, which may not have
\* reached the disk; the next transaction has begun to fill its pages.
Overtaken == \E m \in InDoubt : \E page \in PagesOf(m.tree) : disk[page] # {map[page]}

\* The system crashes, keeping of each page what was on the disk or any later write,
\* and p is the first to open the environment afterwards.
SystemCrash(p) ==
  /\ stops < MaxStops /\ stops' = stops + 1
  /\ LateCrash \/ ~Overtaken
  /\ map' \in {f \in [Pages -> 0 .. stamp] : \A page \in Pages : f[page] \in disk[page]}
  /\ \E m0 \in dmetas[0], m1 \in dmetas[1] : metas' = [i \in {0, 1} |-> IF i = 0 THEN m0 ELSE m1]
  /\ disk' = [page \in Pages |-> {map'[page]}] /\ dmetas' = [i \in {0, 1} |-> {metas'[i]}]
  /\ OpenFirst(p, metas', map')

\* mdb_reader_check, which any process may call.
ReaderCheck ==
  /\ \E p \in Procs : alive[p]
  /\ slot' = Checked
  /\ UNCHANGED <<dataVars, mti, owner, procVars, pgoldest, pc, txnVars, stamp, readerVars, histVars>>

-----------------------------------------------------------------------------
Read(r) == Load(r) \/ Announce(r) \/ Check(r) \/ Copy(r) \/ Last(r) \/ Finish(r)

Alloc == \/ FromLoose \/ FromHead \/ FromRecord \/ Extend \/ Full
         \/ FindOldest \/ \E r \in Readers : Scan(r)

Commit == \/ Flush \/ FlushFails \/ Sync \/ SyncFails
          \/ \E sync \in MetaSync : WriteMeta(sync)
          \/ WriteMetaFails \/ Restore(TRUE) \/ Restore(FALSE) \/ Publish \/ Panic

Next ==
  \/ \E r \in Readers : Read(r)
  \/ \E p \in Procs : Begin(p) \/ Kill(p) \/ Open(p) \/ Reopen(p) \/ SystemCrash(p)
  \/ \E k \in Keys : Touch(k) \/ Drop(k)
  \/ Alloc \/ Commit \/ Abort \/ ReaderCheck

Spec == Init /\ [][Next]_vars
-----------------------------------------------------------------------------
TypeOK ==
  /\ map \in [Pages -> Nat] /\ disk \in [Pages -> SUBSET Nat]
  /\ metas \in [{0, 1} -> Metas] /\ dmetas \in [{0, 1} -> SUBSET Metas]
  /\ mti \in Nat /\ slot \in [Readers -> Nat \cup {Idle}] /\ owner \in Procs \cup {NoProc, Died}
  /\ alive \in [Procs -> BOOLEAN] /\ fatal \in [Procs -> BOOLEAN] /\ pgoldest \in [Procs -> Nat]
  /\ pc \in {"idle", "write", "alloc", "scan", "sync", "meta", "publish", "restore", "panic",
             "failed"}
  /\ txnid \in Nat /\ stamp \in Nat /\ tree \in Trees /\ free \in Listed /\ nextpg \in Nat
  /\ freed \subseteq Pages /\ loose \subseteq Pages /\ dirty \subseteq Pages
  /\ pghead \subseteq Pages /\ pglast \in Nat /\ want \in Keys \cup {NoKey}
  /\ found \in BOOLEAN /\ scan \subseteq Readers /\ oldest \in Nat
  /\ metab \in [txnid : Nat, last : Nat]
  /\ rpc \in [Readers -> {"idle", "load", "announce", "check", "copy", "last", "read"}]
  /\ reg \in [Readers -> Nat] /\ rtree \in [Readers -> Trees] /\ rlast \in [Readers -> Nat]
  /\ log \in Seq([Keys -> Nat]) /\ kept \in Nat /\ floor \in [Readers -> Nat] /\ stops \in Nat

Accounted(m) ==
  /\ \A j, k \in Keys : m.tree[j] = m.tree[k] /\ m.tree[j] # 0 => j = k
  /\ \A d, e \in m.free : d[2] = e[2] => d = e
  /\ PagesOf(m.tree) \cap {e[2] : e \in m.free} = {}
  /\ PagesOf(m.tree) \cup {e[2] : e \in m.free} = 2 .. m.last

\* "Each non-metapage up to MDB_meta.mm_last_pg is reachable exactly once in the
\* snapshot: Either used by a database or listed in a freeDB record."
PagesAccounted == (\E p \in Procs : alive[p]) => Accounted(metas[mti % 2])

\* The pages a write transaction may fill are in no tree that somebody reads: not in
\* that of the last commit, nor in one that a read transaction has copied, however
\* long ago (mdb_page_alloc, mdb_find_oldest and the slots).
Fresh == dirty \cup loose \cup pghead

ReuseIsSafe ==
  pc \in {"write", "alloc", "scan"} =>
    /\ Fresh \cap PagesOf(metas[mti % 2].tree) = {}
    /\ \A r \in Readers : rpc[r] \in {"last", "read"} => Fresh \cap PagesOf(rtree[r]) = {}

\* The roots and mm_last_pg that a reader has read from a changing meta page fit
\* together: it finds all its pages (mdb_page_get refuses a page above
\* mt_next_pgno).  A failed write of a meta page breaks this.
ReaderWithinLast ==
  ~MetaFailed =>
    \A r \in Readers : rpc[r] = "read" => PagesOf(rtree[r]) \subseteq 2 .. rlast[r]

\* What SnapshotStore speaks of: the commit in doubt, and the database that a reader
\* finds in its pages.
Draft == IF InDoubt = {} THEN NoDb ELSE Contents((CHOOSE m \in InDoubt : TRUE).tree)
View  == [r \in Readers |-> IF rpc[r] = "read" THEN Contents(rtree[r]) ELSE NoDb]

Store == INSTANCE SnapshotStore WITH
  Databases <- [Keys -> Nat],
  Empty <- NewMeta.tree,
  None <- NoDb,
  draft <- Draft,
  view <- View

\* Transactions, page reuse, recovery and crashes together give what LMDB promises:
\* what a reader finds in its pages, read through the map as it is now, is one
\* committed database and never changes.
StoreSpec == Store!Spec
==============================================================================
