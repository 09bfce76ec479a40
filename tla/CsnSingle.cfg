SPECIFICATION Spec

CONSTANTS
  w1 = w1  w2 = w2  w3 = w3
  e1 = e1  e2 = e2
  main = main  sub = sub
  Writers = {w1, w2, w3}
  TxnWriters = {}
  NoWriter = NoWriter
  DBs = {main}
  Root = main
  Entries = {e1, e2}
  DbOf <- OneDb
  Kinds = {"add", "modify", "delete"}
  Sids = {1, 2}
  LocalSid = 1
  InitCtx <- LocalStored
  ChkOps = 2
  ChkTime = FALSE
  CkptMayFail = FALSE
  MaxCsn = 4
  MaxStops = 1

INVARIANTS
  TypeOK
  NothingOutstandingCovered
  CoversCommitted
  QueueMatchesUpdates
PROPERTIES
  ShutdownKeepsContext

\* The clock, the writers and the stops are bounded: a run may come to an end.
CHECK_DEADLOCK FALSE
