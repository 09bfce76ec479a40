# OpenLDAP in TLA+

This directory models parts of OpenLDAP 2.6.4 (`src/openldap-2.6.4/`; every path
below is relative to it) in TLA+. TLC checks the models on small instances;
TLAPS checks proofs, for every value of the constants, of the theorems in the
`*Proofs` modules. The repository also holds older and newer copies of the same
program and container files. The models follow 2.6.4 only.

Contents: the system and its parts, the plan, the five models (contextCSN,
epochs, thread pool, LMDB transactions, replication), what the code does that its
documentation does not say, what is proved, and what is left out.

## The system

OpenLDAP is an LDAP directory server (`slapd`), a load balancer (`lloadd`, built
on the same libraries), a client library (`libldap`, `liblber`), an embedded
database (`liblmdb`), and command-line tools.

| Part | State it keeps | Operations | Works with |
| --- | --- | --- | --- |
| Thread pool (`libraries/libldap/tpool.c`) | per queue: pending tasks, counts of pending, active and open; per pool: pause state, queues with active threads | submit, retract, worker loop, pause, pausewait, resume, close | everything in slapd and lloadd runs as its tasks; configuration changes pause it |
| Run queue, reader-writer locks (`rq.c`, `rdwr.c`) | scheduled tasks, run list; counts of readers and writers, waiting and active | insert, run, reschedule, stop; lock, unlock | syncrepl, checkpoints; schema, epochs, caches |
| Connections and operations (`servers/slapd/connection.c`, `operation.c`, `abandon.c`, `cancel.c`, `result.c`) | connection state, pending and executing operations, writers waiting | accept, read, execute, abandon, cancel, close | the listener thread, the pool, every backend |
| Frontend operations (`add.c` ... `search.c`) | none of their own | validate, call overlays and backend, answer | overlays through callbacks |
| CSN queue (`ctxcsn.c`) | pending CSNs of a glued suffix | get, queue, mark committed, graduate | back-mdb writes, syncprov |
| Provider (`overlays/syncprov.c`) | contextCSN, counters to the next checkpoint, persistent searches and their queues, session log | open, close, respond, checkpoint, refresh, match, send | CSN queue, consumers, the backend it writes contextCSN to |
| Consumer (`syncrepl.c`, `ldapsync.c`) | cookies (received, pending, committed) per server ID, refresh phase | connect, refresh, apply, retry | provider, back-mdb, run queue |
| accesslog (`overlays/accesslog.c`) | log database, its own CSN order | log, purge | delta-syncrepl |
| LDAP transactions (`txn.c`) | queued operations of a connection | start, queue, commit by replay, abort | back-mdb, CSN queue, syncprov |
| back-mdb (`back-mdb/`) | entries, DN tree, indexes in LMDB; next ID | add, modify, delete, rename, search | LMDB's single writer lock |
| LMDB (`libraries/liblmdb/`) | pages, two meta pages, free list, reader table | begin, get, put, commit, abort, sync, open | files; crashes |
| Overlays (ppolicy, pcache, memberof, refint, seqmod, ...) | lockout counters; cached queries; modifies in progress | callbacks around an operation | frontend, backends |
| Proxies (`back-ldap`, `back-meta`, `back-asyncmeta`) | cached remote connections, outstanding requests | forward, retry, expire | libldap |
| Access control, schema, configuration | tables, patterns | evaluate, parse | frontend; configuration pauses the pool |
| lloadd operations (`servers/lloadd/`) | clients, upstreams, tiers, operations with two connections each | forward a request, a response, abandon, time out, bind | epochs, thread pool, libevent threads |
| lloadd epochs (`epoch.c`) | current epoch, threads in each epoch, lists of released objects | join, leave, append, acquire, release | every lloadd thread |
| libldap requests (`request.c`, `result.c`, `abandon.c`) | outstanding requests, abandoned IDs, connections and their reference counts | send, receive, abandon, chase referrals | sockets |
| liblber, liblutil, librewrite, tools, SLAPI, contributed modules | - | - | - |

### What is hard

- *Threads.* All of slapd's work is done by pool threads that interleave at
  every mutex. Counts and pointers are read without a lock in several places
  (`tpool.c`: `ltp_pause`, `ltp_active_count`; `epoch.c`: `current_epoch`).
- *Order.* Writers commit in one order, answer in another, and are published in
  a third. Replication is correct only if what is published never gets ahead.
- *Crashes.* contextCSN is stored at checkpoints, entries at every commit.
- *Locks across callbacks.* Overlays run inside the operation of another module
  and may start operations of their own, with locks held.
- *Last one out.* Deferred work (freeing memory, resuming a pool, graduating a
  CSN) must be done by whoever happens to be the last.

### What makes each part correct

- contextCSN: covers committed updates only, covers nothing that may still
  commit, never goes back, survives a clean shutdown and a crash; no update leaves
  an entry in the queue; every update ends.
- epochs: nothing is freed while a pointer to it exists, nothing is freed twice,
  everything released is freed at last.
- thread pool: who pauses it is alone; a pause is granted; a submitted task
  runs; the counts agree with the threads; closing returns.
- consumer: the cookie never gets ahead of what was applied; it catches up.
- LMDB: readers see one committed snapshot; a crash keeps a committed prefix; no
  page a reader needs is reused.
- connections: each operation is answered at most once; abandon and close leave
  no operation behind; an object is freed when the last user lets go of it.
- run queue, locks: a task runs once at a time; readers and writers exclude each
  other.
- lloadd operations: an operation is answered once, on the right connection, and
  unlinked from both.

`PROJECT.json` lists every component with its files ("components"), the hazards
with the line where each bites ("hazards"), and for every definition of the
models the lines it stands for ("map").

## Plan

Done, in this order because replication is what a directory cannot be wrong
about, and because epochs and pool are the concurrency both servers rest on:

1. `ContextCsn`: CSN queue, back-mdb writers, transactions, syncprov's contextCSN.
2. `Epoch`: lloadd's memory reclamation.
3. `TPool`: the thread pool.

4. `Mdb`: LMDB's transactions, because everything slapd stores rests on them, as a
   refinement of `SnapshotStore`, what its header file promises.
5. `Syncrepl` and `Replication`: the consumer, and the provider's searches,
   persistent searches and session log composed with it. `Replication` has a
   coarser view of updates than `ContextCsn`: issuing a CSN and committing the change
   are one step, as the writer lock makes them for one database.

Candidates, in the order of what they would add:

6. Delta-syncrepl: accesslog, its own order of CSNs, and the consumer's fallback.
7. `Connection`: connections with pending and executing operations, abandon and
   cancel.
8. Several providers: a cookie per server ID, and present phases between them.
9. `Rdwr`, `RunQueue`: small, both as refinements (of an abstract lock; of a
   schedule).
10. `LloadOperation`: an operation between client and upstream, on `Epoch`.
11. `Idl`: intersection and union of ID lists with ranges against their set
    definitions. `CsnClock`, which makes CSNs unique and increasing, would have
    little to show: two CSNs issued within one microsecond are equal by the code
    (`util-int.c:397`).
12. Requests of libldap; pcache; ppolicy.

Theorems worth proving, beyond those proved: that a cookie covers what its consumer
holds with a session log or a persist phase, of updates made one at a time, and that
entries always arrive.

A run is kept for each question; a property that has become a theorem stays in a
run, which shows it of the definitions as TLC evaluates them.

## ContextCsn: from update to contextCSN

**What it models.** A CSN (change sequence number) names an update. A back-mdb
writer takes LMDB's writer lock, gets a CSN (`slap_get_csn`), which is appended to
the pending queue, commits, and answers; syncprov's response callback marks the
CSN committed and raises the contextCSN of its server ID to the newest committed
CSN that no pending one precedes; later the entry is removed (graduated). Every
so many operations the context is written to the database.

| In the model | In the code |
| --- | --- |
| `Begin`, `IssueCsn`, `QueueCsn` | `mdb_opinfo_get` (writer lock), `slap_get_csn`, `slap_queue_csn`: the CSN is generated before the queue's mutex is taken, so two steps |
| `Commit`, `ApplyInTxn`, `Fail`, `CommitFails` | `mdb_add`, `mdb_modify`, `mdb_delete`: commit, change inside a transaction, refusals, failed `mdb_txn_commit` |
| `Respond` | `syncprov_op_response` up to the checkpoint, under `si_csn_rwlock` |
| `Checkpoint` | `syncprov_checkpoint`: an internal modify that needs the writer lock, with `si_resp_mutex` held |
| `Graduate`, `Abort`, `EndTxn` | `slap_graduate_commit_csn` on each path; `txn_end_extop`, whose commit may fail |
| `Open`, `Close`, `Crash` | `syncprov_db_open`, `syncprov_db_close`, loss of everything but the database |
| `queue`, `ctxcsn`, `stored`, `store`, `draft` | `be_pending_csn_list`, `si_ctxcsn`, the suffix entry's `contextCSN`, committed `entryCSN`s, a transaction's uncommitted ones |

A CSN is its place in the order of issue and a server ID; an entry is its
`entryCSN` or absent. Attributes, indexes, the DN tree, result codes and
controls are abstracted. Databases in `DBs` are glued: one queue, one syncprov,
a writer lock each. The suffix entry exists and the server is in charge of its ID, so
that a contextCSN is generated if there is none. The search for newer entryCSNs at
startup (`syncprov_findcsn` with `FIND_MAXCSN`) is not in the model, because it is
never made on back-mdb.

**Runs** (`MCContextCsn`).

- `csn_single`: 3 writers, 2 entries, 1 database, 2 server IDs, 4 CSNs, a stop.
  `TypeOK`; `NothingOutstandingCovered` and `CoversCommitted` (contextCSN is
  right in both directions); `QueueMatchesUpdates` (no entry left behind by any
  error path); `ShutdownKeepsContext` (a clean shutdown writes what is owed, if
  the checkpoint's modify succeeds).
- `csn_mixed`: 2 glued databases, an LDAP transaction beside a plain writer, 5
  CSNs, a stop, checkpoints that may fail, and no contextCSN at first. `QueueMatchesUpdates`; `ContextMonotone`
  (neither the contextCSN in memory nor the stored one goes back, across crashes
  too).
- `csn_restart`: what does not hold after a crash, `RestartFindsNewest` (no entry is
  newer than the contextCSN slapd opens with); see "Where code and documentation
  differ".
- `csn_txn_deadlock`: what does not hold with an LDAP transaction beside a
  checkpoint, `UpdatesEnd`; see "Where code and documentation differ". Without
  LDAP transactions `UpdatesEnd` holds in every instance that was tried.

Three writers allow one to be pending, one to have committed and one to be
answering; four CSNs allow each to be issued again by one that comes back. Two
server IDs are needed for one queue to serve two contextCSNs. One stop lets the
database open with what a crash left; a second one would add nothing, because
the state a restart begins from depends only on `stored` and `store`, which one
crash already lets differ in every way the bound on CSNs allows. `csn_single` has
one database, where the writer lock makes issuing and queueing a CSN one step to
other writers; `csn_mixed` has two, and its queue does get out of order.

**Fairness.** Weak fairness of each writer's steps: a pool thread that can go on
does. A writer that waits for the LMDB lock or for `si_resp_mutex` is in a
disabled step, and these are held for a bounded number of steps each. With the
bound on CSNs no writer can be overtaken for ever, so weak fairness is enough in
the checked instance, and weaker than what a fair mutex gives. `Begin` is not
fair: nobody has to send updates.

**Proved** (`ContextCsnProofs`), from the assumptions on the constants alone, for
any writers, entries, databases and server IDs:

- `TypeCorrect`: `TypeOK` is inductive.
- `QueueMatches`: `QueueMatchesUpdates`, inductive with `TypeOK`. The argument is
  about sequences: appending keeps entries of different operations apart, and
  `Graduated` removes exactly the entry of its operation (`GraduatedEffect`).
- `CommittedOnly` (no LDAP transactions): `CoversCommitted`. The invariant
  `CommittedInv` adds that what the queue calls committed, what has been stored,
  and what entries carry are CSNs of the history of commits; `CommitCsn` then
  returns one of those (`CommitCsnValue`).
- `OutstandingNotCovered` (no LDAP transactions, one database):
  `NothingOutstandingCovered`. `SerialInv` says why: who has a CSN not yet
  committed holds the writer lock (`UnderLock`), so there is one such update and
  it has the newest CSN (`NewestOutstanding`), and nothing published is newer than
  the clock. With two databases the lock is not the same, and
  the property fails.

- `ContextNeverBack`: `ContextMonotone`, with LDAP transactions, failed checkpoints
  and crashes. The invariant `OrderInv` says where a contextCSN that is about to be
  stored can be: who checkpoints holds the writer lock (`LockOwner`, `LockHeld`) or
  replays inside a transaction (`NextInTxn`), so there is at most one; what is
  stored is not newer than what is in memory (`StoredBehind`), and what a transaction
  has written but not committed lies between the two (`DraftBetween`).
- `ShutdownStoresContext`: `ShutdownKeepsContext`, without LDAP transactions
  and unless a checkpoint fails. Both conditions are needed: a transaction may roll a
  checkpoint back, and neither that nor a failure is noticed.

## Epoch: memory reclamation in lloadd

**What it models.** lloadd's threads find connections and operations without
holding a lock on them. A thread joins the current epoch before it looks and
leaves when done. Who drops the last reference pushes the object on the list of
the current epoch; it is disposed of when no thread can still hold a pointer.

| In the model | In the code |
| --- | --- |
| `Join`, `LookBack`, `Claim`, `Advance` | `epoch_join`: read the epoch and count the thread in; look whether anyone is in the previous epoch; claim its list; advance under the write lock |
| `Leave`, `LockEpochs`, `CheckEpochs`, `Take` | `epoch_leave`: count down; if last, take the read lock, look at both epochs, claim the lists of both |
| `Dispose` | the loops that call `dispose` |
| `ReadCurrent`, `Push` | `epoch_append`: read `current_epoch`, then push with compare-and-swap |
| `AcquireRef`, `ReleaseRef` | `acquire_ref`, `RELEASE_REF` |
| `Unlink`, `ReleaseLink` | `CONNECTION_UNLINK_`: a connection is taken out of its lists, then its link's reference is released |
| `Retire`, `Detach` | `try_release_ref` as `OPERATION_UNLINK` uses it: an operation's only reference is taken first, then the operation is unlinked and appended |
| `Find` | how operations and connections are looked up |
| `observed`, `refs`, `got`, `ptr`, `owners` | `epoch_threads` (as the set of those counted), `references`, a thread's claimed lists, its pointers, who the reference count counts |

Each access to a counter, a list head or `current_epoch` is a step of its own.
`observed` says who is counted rather than how many, and `owners` likewise, which
lets the invariants name threads; the code uses only whether these are empty.
References may be released by a thread that observes no epoch, as `upstream.c` does
when `upstream_bind` ends (578, 634, 640). `epoch_shutdown` is not modelled.

**Run** (`MCEpoch`). `epoch`: 3 threads, one connection or one operation,
`EPOCH_MASK` 4 (the code's value); 640 thousand states. `TypeOK`; `NoUseAfterFree`;
`DisposedOnce`; `AppendsRecent` (a thread in an epoch never appends to a list that is
out of reach); `EventuallyFreed` (whatever lost its last reference is disposed of, as long
as the epoch goes on advancing). Three threads are enough for one to be between two
steps of `epoch_leave` while another joins and a third advances. Objects do not
affect each other but for being in the same list, which `Collect` treats as a set;
the safety properties are proved for any number.

**Fairness.** A thread inside one of the functions goes on: weak fairness of
`Call`. Threads need not leave their epoch, nor join, and nobody is promised the
write lock of `epoch_mutex`: neither `rdwr.c` nor the default pthread lock prefers
writers, so readers in `epoch_leave` can follow each other without a gap, and
then a thread waits in `epoch_join` for ever and nothing is freed. That every epoch
becomes current again and again is therefore the premise of `EventuallyFreed`, and
not part of the specification.

**Proved** (`EpochProofs`), from `EPOCH_MASK >= 3` and distinct names, for any
threads and objects: `TypeCorrect`, `SafeReclamation` (`NoUseAfterFree`),
`SingleDisposal` (`DisposedOnce`), `AppendInTime` (`AppendsRecent`).

The invariant is `IInv`. Its heart: only the current and the previous epoch are
observed (`ObservedRecent`); while a thread is about to advance, nobody is in the
epoch before its own (`PreviousLeft`); what `epoch_leave` has seen stays true
under the read lock, because a thread that joins meanwhile cannot get past the
write lock or has not yet looked at anything (`ReadersAlone`); a thread with a
pointer to an object on a list observes that list's epoch, or the list is the current one
(`HoldersKnown`). Then claiming is safe: nobody is left who could hold a pointer
(`NoHolders`). `InOnePlace` says an object is being released by one thread, on
one list, or claimed by one thread. A thread that releases outside an epoch may
push on a list that is neither the current nor the previous one by then; nobody has
a pointer to the object, so that it is safe there until the epoch comes round.

`EventuallyFreed` is model-checked only.

## TPool: the thread pool

**What it models.** Queues of tasks, each with threads of its own. A submission
goes to a queue and may open a thread. A task may pause the pool: the lists of
all queues are hidden, and the task waits until the queues that had active
threads have reported. Then it is alone until it resumes.

| In the model | In the code |
| --- | --- |
| `Choose`, `TryNext`, `Submit`, `SubmitFails` | `ldap_pvt_thread_pool_submit2`: counts read without a lock, then one queue after the other, then the task queued and a thread perhaps created |
| `Start`, `StartWait`, `Ready` | `ldap_int_thread_pool_wrapper` before its loop |
| `Look`, `Last`, `Tell`, `Sleep`, `PoolWoken`, `Wake`, `Exit`, `ExitUnlocked`, `EndTask` | its loop: take a task; go idle; report to the pause; wait on the queue's or the pool's condition; exit |
| `AskPause`, `GoIdle`, `GoUnidle`, `NoWait`, `Want`, `Hide`, `Await`, `Restore` | `handle_pause` for `pool_pause` and `pool_pausewait` |
| `Resume`, `Show`, `Resumed` | `ldap_pvt_thread_pool_resume` |
| `Close`, `CloseLook`, `CloseWait`, `CloseNext` | `ldap_pvt_thread_pool_close` with `run_pending` (both servers) |
| `list`, `pending`, `active`, `open`, `hidden`, `activeQueues`, `pause` | `ltp_pending_list`, `ltp_pending_count`, `ltp_active_count`, `ltp_open_count`, `ltp_work_list`, `ltp_active_queues`, `ltp_pause` |

`pool` and `mutex` say who holds each mutex. A section under a mutex is one step
unless it reads or writes what the mutex does not protect; then it is split
there. Two counts are changed without their mutex, `ltp_active_count` in
`handle_pause` and `ltp_open_count` by a thread that exits with the pool's mutex: each
is read in one step and written in another, and if someone has changed it
in between either change may be lost (`Torn`). Waits are states (`sleep` on the queue's condition, `poolsleep` on the
pool's) that only a signal ends: no spurious wakeups, which can only help here.
Tasks are anonymous and each asks for a pause at most once.

**Runs** (`MCTPool`).

- `tpool_counts`: 2 queues with 2 threads and 1, 3 tasks, at most 2 pending per
  queue, no thread open at first, creation may fail, the pool may be closed; 730
  thousand states: `TypeOK`, `HiddenWhilePaused`, `TasksCounted` (`ltp_pending_count` is
  the number of tasks pending or idle; `ltp_open_count`, until the pool is closed,
  the number of threads).
- `tpool_opened`: one queue, 3 threads, all open: `AloneWhilePaused`, `CountsAgree`
  (`ltp_active_count` is right as well), `PendingTaken`, `PauseGranted`.

`tpool_opened` is about a pool that has one queue, as slapd has by default, which has
been busy enough to open all its threads, and that is not being closed. In others
`AloneWhilePaused`, `CountsAgree` and `PendingTaken` fail, as described below.
With three threads one can report late while another pauses and the third runs.
Three tasks let each thread have one.

**Fairness.** Every thread gets its turn and mutexes are given fairly (strong
fairness of each thread's steps); the submitter and the closer go on. Asking for
a pause is not fair. Without strong fairness a thread could be passed over at a
mutex for ever, which pthreads do not exclude in theory; the properties are about
lost wakeups and wrong counts, not about that.

**Proved** (`TPoolProofs`), from `PoolAssumption`, for any queues and threads and
any limits:

- `TypeCorrect`: in particular no count of pending tasks is ever negative;
- `PauseHides` (`HiddenWhilePaused`);
- `TasksMatch` (`TasksCounted`).

The invariant `IInv` has three parts. `Typed` is the types without what only the
counts show. `Counted` is `TasksCounted`.
`PauseInv` says who may be at work on a pause: who holds the pool's
mutex there is its holder (`Holders`); at most one thread is pausing, exactly
while `ltp_pause` says so (`OnePause`); and it has hidden the lists it says
(`Hidden`). Most steps do not touch a pause (`Quiet`) and keep `PauseInv` for that
reason alone; of the rest each is one of the pausing thread (`PauseSteps`). For the
counts a step of a thread either keeps the thread in its class (`Moves`) or enters
the change in the counts of its queue (`Books`); the two lemmas about cardinalities
(`BooksKeepCounts`, `MovesKeepCounts`) do the rest. That a submission finds a queue
to start with needs a least element of a finite set (`LeastExists`), which comes
from the well-foundedness of inclusion on finite sets.

Of a warm pool, one queue whose threads are all open and stay open (`Warm`; what
`tpool_opened` runs):

- `PauseAlone` (`AloneWhilePaused`) and `CountsMatchWarm` (`CountsAgree`).

`WarmInv` adds to `IInv` that who reports to a pause is the last active thread, the
only one that reports, and waited for (`Reports`); that the pausing thread waits as
long as one is active (`Waits`); and that once it goes on nobody runs a task or is
about to report (`Settled`). Then nobody changes the count it restores without
the queue's mutex, which is why an increment that may be torn does no harm (`CopyExact`). The three
conditions are needed; without any of them TLC finds `AloneWhilePaused`
violated: see "Met on the way".

The liveness properties are model-checked only.

## Mdb and SnapshotStore: LMDB's transactions

**What it models.** LMDB keeps two meta pages, each naming the roots of a whole
database. A writer, alone under a mutex that processes share, copies the pages it
changes, writes them, and then the meta page that is not the current one. Readers
take no lock: a reader publishes the number of the last commit in its slot and
copies the roots. A page that a commit made superfluous is listed under its
number, and used again once no slot holds an older number. Processes may die at
any point, holding the mutex and their slots; the system may crash.

| In the model | In the code (`libraries/liblmdb/mdb.c`) |
| --- | --- |
| `Load`, `Announce`, `Check`, `Copy`, `Last`, `Finish` | `mdb_txn_renew0` for a read transaction, each access to the lock file or to a meta page a step; `mdb_txn_end` |
| `Begin` | `mdb_txn_renew0` for a write transaction, with `mdb_mutex_failed` when the owner died |
| `Touch`, `Drop` | `mdb_page_touch` of a clean or missing page; `mdb_page_loose` and `mdb_midl_append` of a page given up |
| `FromLoose`, `FromHead`, `FromRecord`, `Extend`, `Full`, `FindOldest`, `Scan` | `mdb_page_alloc`, with `mdb_find_oldest` slot by slot |
| `Flush`, `FlushFails`, `Sync`, `SyncFails` | `mdb_freelist_save`, `mdb_page_flush`, `mdb_env_sync` |
| `WriteMeta`, `WriteMetaFails`, `Restore`, `Publish`, `Panic` | `mdb_env_write_meta`, up to the store of `mti_txnid` |
| `Abort` | `mdb_txn_abort`, and a commit with nothing to write |
| `Open`, `Reopen`, `SystemCrash`, `ReaderCheck` | `mdb_env_open` with and without others, `mdb_reader_check0` |
| `map`, `disk`, `metas`, `dmetas` | the data file as processes see it, and what a crash may leave of each page |
| `mti`, `slot`, `owner` | `mti_txnid`, `mr_txnid` of each reader, `me_wmutex` |
| `freed`, `loose`, `pghead`, `pglast`, `pgoldest`, `nextpg` | `mt_free_pgs`, `mt_loose_pgs`, `me_pghead`, `me_pglast`, `me_pgoldest`, `mt_next_pgno` |

A database maps each key to one page, and a page contains the number of the write
transaction that filled it. So a page used again too early shows as a reader that
finds a number which is not of its snapshot. B-trees, overflow and spilled pages,
the pages of the free list itself, nested transactions, `MDB_WRITEMAP` and the
copying of environments are not modelled. A reader keeps one slot. Until the next
sync, a crash leaves of each page the contents it had at the last one or those of
any later write; a meta page written without `MDB_NOMETASYNC` is on the disk at
once. A sync that fails is assumed to lose nothing that an earlier write
left in the page cache.

**The abstract specification** `SnapshotStore` has a log of databases, a number of
those that no crash takes back, and the view of each reader. A commit is first in
doubt: seen by readers or made by a crash, though its number is not published. The
mapping: a commit is in doubt when a meta page, in the map or on the disk, has a
number above `mti_txnid` (`InDoubt`); a reader's view is what its pages contain
*now*, read through the map, so that `StoreSpec` says at once that the view is one
committed database and that nothing changes it.

**Runs** (`MCMdb`). `mdb`: two processes, a reader in one of them, one key, three
pages, four write transactions, one kill or crash, failed writes; 2.3 million
states. `TypeOK`; `PagesAccounted` (mdb.c's own words on the free list: every page up to
`mm_last_pg` is used or listed, once); `ReuseIsSafe` (a writer fills no page of the
last commit or of a reader); `ReaderWithinLast` (roots and `mm_last_pg`, read at two
moments, fit together); `StoreSpec`. Three pages are enough for a page to be
reused and for the environment to be full; four transactions for both meta pages
to have been overwritten while a reader is at work. The writer and the reader may be
in the same process or not; `Home` says which, and both writers are tried.

`mdb_alone`: one process with a reader of its own, two keys, three pages, three
write transactions without synchronised meta pages, two kills or crashes; symmetric
in the keys; 1.6 million states. `PagesAccounted`, `StoreSpec`. Two keys let a
record of the free list hold two pages that one transaction uses; with one process
a kill leaves nobody, and the next to open the environment takes what it finds in
the meta pages. With two stops a system may crash after a failed commit was killed
and the environment opened again.

`SharedFaults = FALSE` keeps a meta page from failing to be written while another
process has the environment open. The failing process writes the old number back;
between the two a reader may have begun on a commit that is then taken back, and
the code does not promise more. `LateCrash = FALSE` leaves out one kind of crash,
described below: when pages of a commit that failed have been filled again and its
meta page may still be on the disk (`Overtaken`).

**Proved** (`MdbProofs`, `MdbRefinementProofs`), from the assumptions on the constants, for any keys,
readers, processes and pages, any number of transactions and of kills and crashes:

- `TypeCorrect`, with or without `SharedFaults`. It needs that the log has
  exactly one database per number (`Bounded`) and that who is in a transaction
  holds the mutex (`Holding`);
- `EveryPageOnce` (`PagesAccounted`), `PageReuse` (`ReuseIsSafe`), `ReaderFindsPages`
  (`ReaderWithinLast`), if `SharedFaults = FALSE`;
- `TransactionsImplementStore` (`StoreSpec`): every behaviour of `Mdb` is one of
  `SnapshotStore`, if `SharedFaults` and `LateCrash` are `FALSE`; and
  `OvertakenIsWrittenBack`: the crashes left out are none but those after a meta
  page was written back.

The invariant `Inv` of the first four has seven parts. `Typed` also says that the committed meta
page has the number `mti`, that none is ahead by more than one, and that the
parity of a number says in which page it is. `MetasWhole`: the committed meta
page, the newest, and every one a crash may leave are whole, in the sense of
`Accounted`. `Control`: a commit is in doubt only between the write of its meta page and its
publication, or after a death or a failed write; after a failed write one process
is left. `OnDisk`: what a crash may leave. `Work`: what the transaction has taken
from the free list, filled, freed and kept adds up to the pages of the committed
database and those past its end. `Prepared`: the meta page to be written is whole
and lists what older readers use under numbers no smaller than theirs.
`ReadersHold`: neither `me_pgoldest`, nor the number the scan of slots has come
to, nor the records fetched have reached a published slot, and what
a reader sees is in the newest tree or was freed after its number. A step of the
writer keeps `Work` by what it takes and places (`Taken`, `Placed`); `FlushPrepares`
turns `Work` into `Prepared`; `MetaWritten` turns `Prepared` into `MetasWhole`. For readers,
`HoldMeta` is the case of a new meta page, `HoldQuiet` that of steps which touch no
tree.

The refinement needs five more (`RInv`). `Logged`: the map holds the last commit, page
by page. `OneDoubt`: at most one commit is in doubt, and then the last one is alone
in its meta page on the disk, is on the disk itself (`LastIsKept`), and none of its
pages is lost to the new one. `DoubtOnDisk`: the pages of a commit in doubt are on
the disk, unless its meta page was written back. `Recoverable`: whatever meta pages
a crash leaves, the newest names the last commit or the one before it, no older
than what was kept, with every page as it was, or the one in doubt. `ReadersSee`: what a reader has
copied, or would copy now, is a commit since it began, or the one in doubt. Each
step is then a step of the store or none: a check that succeeds is `Call`; the end of
`Last` is `Return`; a meta page written is `Propose`, and so is a page filled while a
failed commit is still on the disk, because it changes what that commit would be;
`Sync` is `Keep`; a publication, or a recovery that finds a newer meta page, is
`Commit` (`AdvanceImplements`). The argument for `Recoverable` is that a transaction
fills no page of a tree that is as old as the records it has fetched (`Untouched`), and
that these are older than any meta page a crash may leave.

Met while modelling: `id2entry.c:762` sets `MDB_NOMETASYNC` for `mdb_txn_begin`,
which masks it out (`mdb.c:1168`, `2858`), so it has no effect. With readers in
the writer's process a read transaction's number may be one less than that of the
roots it has copied, whereas `lmdb.h:983` calls it the number of its snapshot; its
user, `back-mdb/search.c:1153`, is not harmed. After a failed write of a meta page
has been written back the slot's new roots stay, so that `mm_last_pg` and roots
may not fit (`mdb.c:3929`): hence `~MetaFailed` in `ReaderWithinLast`.

Met while proving: what is written back after such a failure is not synchronised
(`mdb.c:3938`). If the failed write had reached the disk, the process is killed, the
environment is opened again, the next transaction, which gets the same number and the same free
pages, has written some of them (`mdb_page_flush`) and the system crashes before its
sync, the disk may have the meta page of the failed commit with pages of the other:
a database that nobody committed. It takes two stops, a failed write and a disk
that orders writes that way. TLC finds it with `MaxStops = 2`, `MaxTxns = 2` and
`LateCrash = TRUE` in `MdbAlone.cfg`. The comment there promises only what the page
cache holds, so it is a limit of the theorem and not listed as a finding.

## Syncrepl and Replication: provider and consumers

**What it models.** A consumer sends its cookie, a contextCSN it has reached; the
provider answers with what has changed since, from its session log or by naming
all that is present, and with a new cookie. A poll ends there; a persistent search
goes on with every change. Module `Syncrepl` is the consumer: a record, and what
each message does to it (`Receive`). Module `Replication` is the provider, with
updates, searches, connections and crashes.

| In the model | In the code |
| --- | --- |
| `Begin`, `MatchBefore`, `Commit`, `Refused` | `syncprov_op_mod` (`si_active`, waiting in `si_mods`, `syncprov_matchops` before the change), then the backend |
| `Respond`, `Deliver`, `Finish` | `syncprov_op_response` in two: contextCSN under `si_csn_rwlock`; then `syncprov_matchops` and `syncprov_add_slog`, all under `si_resp_mutex`; `syncprov_op_cleanup` and `slap_graduate_commit_csn` |
| `Connect`, `Register`, `StartRefused`, `StartNoChange`, `Start` | `syncprov_op_search`: registration, waiting for active updates, the copy of contextCSN, the early answers |
| `PlayLog`, `PickNext`, `Picked`, `SendLog` | `syncprov_play_sessionlog`: whether the log goes back far enough; picking records one by one, `sl_mutex` given up after each; looking modified entries up, sending |
| `FindCsn`, `FindPresent`, `Search` | `syncprov_findcsn` in two modes; the search itself with `syncprov_search_response` |
| `SendQueued` | `syncprov_qplay` |
| `Handle`, `Receive` and what it uses | `do_syncrep2`, `do_syncrep_process`, `syncrepl_entry`, `syncrepl_del_nonpresent`, `syncrepl_updateCookie` |
| `Drop`, `StopConsumer`, `Restart` | a lost connection; a consumer that stops before `syncrepl_updateCookie`; a crash of the provider and `syncprov_db_open` |
| `slog`, `mincsn`, `queue`, `srch`, `con` | `si_logs`, `sl_mincsn`, `s_res` of each `syncops`, a search's state, a consumer's |

An entry is its version, the CSN of its last change, and whether it is inside the
search; a change may bring it in or out. There is one server ID. What is one step
here although it is not in the code, and why: `Deliver` is under `si_resp_mutex`, and what happens between its two
halves commutes with searches, which read either the queue or the log; a playback ends
(`sl_playing`) with the last record picked; `SendLog` looks all modified entries up
at once; in `Search` the
entries are read one after the other in the code, but what a poll reads of entries
changed since its snapshot is left out, and a persistent search is told of them
again. When a connection is lost, its search is gone at once; the code lets a
persistent search stay until it next sends, and a playback go on to its end. While
a search plays the log nothing is removed from it, and it may grow beyond `sl_size`;
a record added meanwhile may be picked, for which the code may have made too small an
array (`syncprov.c:2039-2048`): what is written past its end is not in the model. The model's updates begin only where they can
apply. Updates of one entry take turns while there are persistent searches, which
is why an added entry can be read from the database when it is reported.

**Runs** (`MCReplication`).

- `repl_present`: a polling consumer, no session log, two entries, two updates at a
  time and three in all, answered in any order; checkpoints at any response; one
  interruption anywhere, of the connection or of the consumer between a change and
  its cookie; one crash of the provider, whose backend may or may not say it was
  shut down cleanly. 5.6 million states. `CookieCovers` (an entry changed no later
  than the cookie is at the consumer as it is at the provider: a cookie that is
  ahead loses the change for ever); `OnlyStaleRemoved` (what a consumer removes is
  not current).
- `repl_log`: a persistent search and a session log of one entry; updates one at a
  time; a connection lost, or a consumer that stops between a change and its cookie,
  anywhere. 1.2 million states. `TypeOK`; `EntriesCovered` (no entry that the cookie covers is
  missing or old); `LogWhole` (no change is missing in the log that `sl_mincsn` does not
  cover); `EntriesArrive` (when updates and failures cease, and the last change is
  published, the consumer comes to hold every entry).
- `repl_race`: what does not hold of a poll with a session log.

Two updates are needed for one to be published while another is outstanding; three
CSNs for one before the cookie, one at it and one after. A session log of one
entry is full from the first change, so that every search meets its limit, and one
that plays it lets it outgrow that limit. `repl_log` has one writer: a directory whose
clients update it one at a time. With two, updates answer out of order, and what then
goes wrong is listed below, as is what becomes of deletions.

**Fairness.** Updates under way end, the provider serves and sends, the consumer
reads and connects again: threads that can go on do, and syncrepl's run-queue task
retries for ever with the usual configuration. Nobody has to update anything.

**Proved** (`ReplicationProofs`), for polling consumers that start with what the
provider has, of a provider without a session log (`Polling`; what `repl_present`
runs): for any finite set of entries, any writers and consumers, any number of
updates answered in any order, and with connections, consumers and the provider
failing anywhere,

- `PolledCookieCovers` (`CookieCovers`);
- `PolledOnlyStaleRemoved` (`OnlyStaleRemoved`).

`CookieCovers` is not inductive: what the end of a search does to the consumer depends
on all that was said before. The invariant `Polled` says of each consumer, its
search and what is on the way to it (`Sound`): messages that name entries come before
the one that ends the search (`InOrder`); until it looks for entries the search goes
by the consumer's cookie, and always sends a present list, or all, if the
consumer's state is found unusable (`KnownState`); no version and no cookie, held
or on the way, is ahead of the provider (`NotAhead`); and, the heart of it, `Promise`:
every entry not changed since the snapshot of contextCSN is named and its version
sent, or will be, if the consumer should have it, and is not named otherwise. What a
later commit changes is newer than the snapshot, so `Promise` says nothing of it
(`CommitSound`); at the end of the search `Promise` is just what makes the new cookie
cover the consumer and makes everything removed stale (`ClosingSound`). A
connection that is lost takes the promise with it and leaves the rest (`LostSound`).
The proof needs of the provider only that contextCSN and its stored value are no
newer than the newest CSN issued: without a session log a contextCSN that is too
old costs a repeated refresh and nothing else.

With a session log or a persist phase `CookieCovers` fails, for deletions, and what
`EntriesCovered` says of the entries is model-checked only.

**Proved** (`ReplicationTypeProofs`), with session log and persistent searches, updates
answered in any order, losses and crashes, from the assumptions on the constants alone:

- `TypeCorrect` (`TypeOK`).

That the types hold is not obvious of two variables. The clock stays within the CSNs
there are, because each update that has begun has one left (`Room`). And the pending CSNs
are those of updates in progress, because a CSN belongs to one update (`Numbered`). That
records of the log have different CSNs (`Logs`), and that a search picks them in
turn (`InTurn`), makes the order in which `SendLog` sends them well defined (`Nth`,
`NthIs`).

## Where code and documentation differ

Three runs expect a violation; each has an entry in `PROJECT.json` ("findings")
that quotes the promise.

- `csn_txn_deadlock`: a checkpoint waits for the writer lock with `si_resp_mutex`
  held; the LDAP transaction that has the writer lock waits for `si_resp_mutex`.
- `csn_restart`: slapd crashes after an update and before the checkpoint of its CSN.
  `replication.sdf:258` says that at startup the database is always scanned for newer
  entryCSNs. `syncprov_db_open` skips the scan for a backend with
  `SLAP_DBFLAG_CLEAN`, and back-mdb always sets it ("mdb is always clean",
  `back-mdb/init.c:117`), so that contextCSN is older than entries it should cover.
- `repl_race`: a poll copies contextCSN after an update has raised it and before
  its entry is in the session log, plays the log, and hands out a cookie that
  covers a delete it has not sent. The entry stays at the consumer.

Met on the way and reproducible with the models, without a run of their own.

Publication (`ContextCsn`):

- With glued databases the CSN is generated before the queue's mutex is taken and
  the writers hold different writer locks, so CSNs may be queued out of order, and
  contextCSN passes an update that is outstanding (`ctxcsn.c:212`;
  `replication.sdf:237` says otherwise).
- Updates in an LDAP transaction answer, and are published, before the transaction
  commits; an abort does not take the contextCSN back (`syncprov.c:2484`).
- Nor does it take a crash for contextCSN to stay behind. An update that answers
  while an older one is pending publishes nothing, and takes its own CSN with it when
  it is graduated. If the older one then fails, or answers, no more than the older CSN
  is published: all is quiet, and contextCSN is older than a committed update until the
  next one (`ctxcsn.c:70`, `120`). A shutdown and restart keep it so
  (`RestartFindsNewest` fails after a clean stop too).
- `replication.sdf:267` says that a newer CSN found by the scan at startup is written at once;
  `syncprov_findcsn` only counts it towards the next checkpoint.
- A checkpoint's result is not looked at and the counter is reset before it, so
  after a failed one a clean shutdown may write nothing (`CkptMayFail = TRUE` makes
  `ShutdownKeepsContext` fail).
- `si_dirty` is overwritten by each response and may be clear while a committed
  update of another server ID is unpublished.

Threads (`Epoch`, `TPool`):

- `epoch_shutdown` asserts that only the current and the previous epoch have objects
  left (`epoch.c:101-104`). A thread that releases outside an epoch, as `upstream_bind`
  does (`upstream.c:578`, `634`, `640`), may be about to push while others advance the
  epoch, and pushes on the list of an older one. What it pushed is disposed of
  safely when the epoch comes round; if the server is shut down before, the assertion
  fails. Nor does the last thread to leave an epoch leave nothing behind, then.
- `epoch.h` says memory is freed only when the epoch is advanced; `epoch_leave`
  frees as well when nobody is left.
- A worker that exits while it holds the pool's mutex decrements
  `ltp_open_count` and signals without the queue's mutex; `pool_close` may have
  looked at the count and not yet be waiting, and then waits for ever
  (`MayClose = TRUE`, one queue).
- A thread that has just been created passes its unlocked test of `ltp_pause`, counts
  itself after the pause has looked at its queue, and decrements
  `ltp_active_queues`, which never counted it; if that happens during a later
  pause, that one begins while a task runs (`tpool.c:1006`; `Opened = FALSE` makes
  `AloneWhilePaused` fail). `tpool.c:1293` says "Return when all other tasks are
  paused or idle".
- The same happens with two queues and all threads open (`QueueOf <- TwoQueues`,
  `NumQueues = 2`, `Opened = TRUE`, `MayClose = FALSE`). While `handle_pause` is at
  the first queue, the last active thread of the second ends its task, sees
  `ltp_pause`, lets go of its queue's mutex and is about to decrement
  `ltp_active_queues` (`tpool.c:1002-1006`). `handle_pause` then finds the second
  queue without an active thread and does not count it (`tpool.c:1195-1200`), and
  the decrement takes away the count of the first, where a task still runs. A
  thread that exits while the pool closes does the same with one queue
  (`MayClose = TRUE`).
- A task submitted during a pause to a queue without threads is not run after the
  pause until another is submitted there (`tpool.c:425`; `PendingTaken` in a cold
  pool).
- With a pool that still opens threads, the unlocked increment in `handle_pause`
  races with a new thread's own (`tpool_counts` has this behaviour): a
  count that is one too low lets a later pause begin early, one too high keeps
  it from beginning. In the same way threads that exit with the pool's mutex while the
  pool closes may lose each other's change of `ltp_open_count`, and `pool_close` then
  waits for a thread that is no longer there.

Replication (`Replication`; the constants that show each in brackets):

- The race of `repl_race` exists for a persistent search as well, with an update
  that begins after it has registered: the queued delete is then ignored at the
  consumer, because its CSN is too old (`LogSize = 1`, `Persist`).
- When updates are answered in another order than committed (`Writers = {w1, w2}` in
  `ReplLog.cfg`), the first answer may
  publish nothing, and the second overwrite `si_dirty`; a persistent search that
  starts then is told that nothing is new and loses the first change. The record of the
  older change may also be let go after that of the newer, and `sl_mincsn` goes back
  (`syncprov.c:1713`; `LogWhole` fails). And a deletion that was queued without a
  cookie, because its answer published nothing, removes an entry that a refresh has
  brought since; the change that added it again, when it comes, is too old
  (`syncrepl.c:1490`): `CookieCovers` and `OnlyStaleRemoved` fail, and the entry
  does not arrive. `syncrepl.c:1526` looks like a guard against this, but never finds
  `si_too_old` set: `do_syncrep2` is left where that is set (1501), and entered again
  with it cleared (2063).
- A consumer interrupted between a change and its cookie holds an entry newer than
  its cookie. If that entry is deleted next, `syncrepl_del_nonpresent` keeps it, for
  it is newer than what the session log's message covers (`syncrepl.c:5862`;
  `Interrupts = TRUE`, `LogSize = 1`). After an interrupted first refresh a
  consumer without a cookie keeps entries deleted meanwhile.
- A crash loses the session log, and a deleted entry leaves no entryCSN to be found
  by the scan: the delete may be published to nobody (`syncprov.c:4036`, `3270`;
  `MaxStops = 1`, `LogSize = 1`).
- With a backend that says it was shut down cleanly although it crashed, as
  back-mdb does, contextCSN is stale until the next update. A consumer with a newer cookie is
  refused until then, and one with an older cookie misses, in a persistent search,
  the change that is not published (`DbClean = {TRUE}`, `MaxStops = 1`).
- A queued delete that precedes a refresh may remove for a moment an entry that was
  added again; this is why `OnlyStaleRemoved` is checked of polls.
- `slapo-syncprov.5:45` and `replication.sdf:505` say that all writes except adds are
  recorded in the session log; `syncprov_add_slog` records adds as well, and they
  count towards its size.

## What is proved and what is only checked

| Module | Theorems | From |
| --- | --- | --- |
| `ContextCsnProofs` | `TypeCorrect`, `QueueMatches`, `ContextNeverBack`; `CommittedOnly`; `OutstandingNotCovered`; `ShutdownStoresContext` | nothing more; no LDAP transactions; that and one database; no LDAP transactions or failed checkpoints |
| `EpochProofs` | `TypeCorrect`, `SafeReclamation`, `SingleDisposal`, `AppendInTime` | nothing more |
| `TPoolProofs` | `TypeCorrect`, `PauseHides`, `TasksMatch`; `PauseAlone`, `CountsMatchWarm` | nothing more; one queue, its threads open and not closed |
| `MdbProofs` | `TypeCorrect`; `EveryPageOnce`, `PageReuse`, `ReaderFindsPages` | nothing more; no meta page fails to be written while another process is there |
| `MdbRefinementProofs` | `TransactionsImplementStore`, `OvertakenIsWrittenBack` | the same, and no crash once pages of a failed commit that may be on the disk are filled again |
| `ReplicationProofs` | `PolledCookieCovers`, `PolledOnlyStaleRemoved` | consumers poll, none starts empty, no session log |
| `ReplicationTypeProofs` | `TypeCorrect` | nothing more |

All theorems rest on the named assumptions about the constants, on the conditions
in the last column where there are any, and on nothing else. Each is shown the same
way: an inductive invariant holds of the initial states, is kept by each action,
and implies the property; for the refinement it also makes each step one of the
abstract specification. Liveness properties and anything that speaks of
`ENABLED` stay with TLC, and so do facts about data that need induction (none of
the models contains a recursive operator). Only model-checked: the liveness
properties (`UpdatesEnd`, `EventuallyFreed`, `PendingTaken`, `PauseGranted`,
`EntriesArrive`), and `EntriesCovered` and `LogWhole` of replication with a session log and
a persist phase.

Every property of a passing run has a mutant: a change to one definition that a
slip in the code could cause, defined beside the definition it replaces, under
which TLC finds the property violated.

## What is not modelled

Beyond the candidates of the plan: access control, schema, syntaxes, DNs and filters
(sequential functions of strings); configuration (parsing and tables); BER and
buffered sockets; TLS and SASL (external libraries); Unicode tables, hashes and
regular-expression rewriting; adapters to other stores (LDIF files, SQL,
WiredTiger, Perl, sockets); the slap tools and the clients; SLAPI; contributed
modules; manuals, tests and build files, which served as the reference for what
the server promises. The repository's other copies of OpenLDAP are most of its
lines and are not modelled apart.

Of the parts that are modelled: in the thread pool, changing the number of
threads or queues of a live pool, retracting and walking tasks, `pool_idle` and
`pool_unidle` (the servers do not call them), thread keys; in back-mdb, everything
but the order of lock, CSN, change, commit, response and graduation; in `txn.c`,
the queueing before the commit; in LMDB, what the section on it names; in syncprov
and syncrepl, several server IDs, delta-syncrepl and the accesslog as a session
log, renames, glue entries, reload hints, DirSync and DSEE logs, Abandon and
Cancel as operations of their own, and the retry timer.
