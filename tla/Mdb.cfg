SPECIFICATION Spec
CONSTANTS
  p1 = p1  p2 = p2  r1 = r1  k1 = k1  k2 = k2
  Keys = {k1}
  Readers = {r1}
  Procs = {p1, p2}
  Home <- Apart
  NoProc = NoProc  Died = Died
  NoKey = NoKey
  NoDb = NoDb
  MaxPage = 4
  MetaSync = {TRUE, FALSE}
  SharedFaults = FALSE
  LateCrash = FALSE
  MaxTxns = 4
  MaxStops = 1
INVARIANTS
  TypeOK
  PagesAccounted
  ReuseIsSafe
  ReaderWithinLast
PROPERTY
  StoreSpec
CHECK_DEADLOCK FALSE
