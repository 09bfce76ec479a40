SPECIFICATION Spec
CONSTANTS
  e1 = e1  e2 = e2  w1 = w1  w2 = w2  c1 = c1  c2 = c2
  Entries = {e1, e2}
  Existing = {e1}
  Writers = {w1}
  NoWriter = NoWriter
  Consumers = {c1}
  Persist = {}
  Empty = {}
  LogSize = 1
  Checkpoints = {FALSE}
  DbClean = {FALSE}
  Interrupts = FALSE
  MaxCsn = 3
  MaxDrops = 0
  MaxStops = 0
INVARIANTS
  CookieCovers
CHECK_DEADLOCK FALSE
