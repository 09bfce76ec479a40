SPECIFICATION FairSpec

CONSTANTS
  w1 = w1  w2 = w2  w3 = w3
  e1 = e1  e2 = e2
  main = main  sub = sub
  Writers = {w1, w2}
  TxnWriters = {w1}
  NoWriter = NoWriter
  DBs = {main}
  Root = main
  Entries = {e1, e2}
  DbOf <- OneDb
  Kinds = {"add"}
  Sids = {1}
  LocalSid = 1
  InitCtx <- LocalStored
  ChkOps = 1
  ChkTime = FALSE
  CkptMayFail = FALSE
  MaxCsn = 4
  MaxStops = 0

PROPERTIES
  UpdatesEnd

\* The clock, the writers and the stops are bounded: a run may come to an end.
CHECK_DEADLOCK FALSE
