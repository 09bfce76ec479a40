SPECIFICATION Spec
CONSTANTS
  p1 = p1  p2 = p2  r1 = r1  k1 = k1  k2 = k2
  Keys = {k1, k2}
  Readers = {r1}
  Procs = {p1}
  Home <- Alone
  NoProc = NoProc  Died = Died
  NoKey = NoKey
  NoDb = NoDb
  MaxPage = 4
  MetaSync = {FALSE}
  SharedFaults = FALSE
  LateCrash = FALSE
  MaxTxns = 3
  MaxStops = 2
INVARIANTS
  PagesAccounted
PROPERTY
  StoreSpec
SYMMETRY Symmetry
CHECK_DEADLOCK FALSE
