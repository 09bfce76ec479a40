SPECIFICATION Spec

CONSTANTS
  w1 = w1  w2 = w2  w3 = w3
  e1 = e1  e2 = e2
  main = main  sub = sub
  Writers = {w1, w2}
  TxnWriters = {w1}
  NoWriter = NoWriter
  DBs = {main, sub}
  Root = main
  Entries = {e1, e2}
  DbOf <- TwoDbs
  Kinds = {"add", "modify"}
  Sids = {1}
  LocalSid = 1
  InitCtx <- NothingStored
  ChkOps = 2
  ChkTime = FALSE
  CkptMayFail = TRUE
  MaxCsn = 5
  MaxStops = 1

INVARIANTS
  QueueMatchesUpdates
PROPERTIES
  ContextMonotone

\* The clock, the writers and the stops are bounded: a run may come to an end.
CHECK_DEADLOCK FALSE
