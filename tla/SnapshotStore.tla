---------------------------- MODULE SnapshotStore ----------------------------
(***************************************************************************)
(* What LMDB promises to its callers (libraries/liblmdb/lmdb.h): the        *)
(* databases that write transactions commit form one sequence, a read       *)
(* transaction sees one of them that is no older than the last commit       *)
(* before it began, nothing changes what it sees, and a crash of the system *)
(* loses at most the last commit.                                           *)
(*                                                                          *)
(* A commit is in two steps.  Once it is proposed it is in doubt: a read     *)
(* transaction may see it, and a crash may make or undo it.  It is then      *)
(* committed, or gives way to the next one.                                  *)
(***************************************************************************)
EXTENDS Naturals, Sequences

CONSTANTS
  Readers,
  Databases,   \* what a database may contain
  Empty,       \* the contents of a new one
  None         \* no database

VARIABLES
  log,     \* the databases committed, oldest first
  kept,    \* how many of them no crash can take back
  draft,   \* the commit being proposed
  floor,   \* length of the log when each read transaction began, 0 if none
  view     \* what each read transaction sees, once it has begun

vars == <<log, kept, draft, floor, view>>

Init ==
  /\ log = <<Empty>> /\ kept = 1 /\ draft = None
  /\ floor = [r \in Readers |-> 0] /\ view = [r \in Readers |-> None]

Call(r) ==
  /\ floor[r] = 0
  /\ floor' = [floor EXCEPT ![r] = Len(log)]
  /\ UNCHANGED <<log, kept, draft, view>>

Return(r) ==
  /\ floor[r] # 0 /\ view[r] = None
  /\ \E db \in {log[n] : n \in floor[r] .. Len(log)} \cup ({draft} \ {None}) :
       view' = [view EXCEPT ![r] = db]
  /\ UNCHANGED <<log, kept, draft, floor>>

EndAll(R) ==
  /\ floor' = [r \in Readers |-> IF r \in R THEN 0 ELSE floor[r]]
  /\ view' = [r \in Readers |-> IF r \in R THEN None ELSE view[r]]

\* Read transactions end one at a time, or together when their process dies.
Finish(R) == EndAll(R) /\ UNCHANGED <<log, kept, draft>>

Propose ==
  /\ draft' \in Databases
  /\ UNCHANGED <<log, kept, floor, view>>

Commit ==
  /\ draft # None
  /\ log' = Append(log, draft) /\ draft' = None
  /\ kept' \in {kept, Len(log) + 1}
  /\ UNCHANGED <<floor, view>>

\* What was committed reaches the disk, and a commit that failed is forgotten.
Keep ==
  /\ kept' = Len(log) /\ draft' \in {draft, None}
  /\ UNCHANGED <<log, floor, view>>

\* A crash takes back at most the last commit, unless it was kept, or makes the one
\* that is in doubt.
Crash ==
  /\ \/ \E n \in kept .. Len(log) : n + 1 >= Len(log) /\ log' = SubSeq(log, 1, n)
     \/ draft # None /\ log' = Append(log, draft)
  /\ draft' \in {draft, None}
  /\ EndAll(Readers)
  /\ UNCHANGED kept

Next ==
  \/ \E r \in Readers : Call(r) \/ Return(r)
  \/ \E R \in SUBSET Readers : Finish(R)
  \/ Propose \/ Commit \/ Keep \/ Crash

Spec == Init /\ [][Next]_vars
==============================================================================
