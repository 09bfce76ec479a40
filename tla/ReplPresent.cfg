SPECIFICATION Spec
CONSTANTS
  e1 = e1  e2 = e2  w1 = w1  w2 = w2  c1 = c1  c2 = c2
  Entries = {e1, e2}
  Existing = {e1}
  Writers = {w1, w2}
  NoWriter = NoWriter
  Consumers = {c1}
  Persist = {}
  Empty = {}
  LogSize = 0
  Checkpoints = {TRUE, FALSE}
  DbClean = {TRUE, FALSE}
  Interrupts = TRUE
  MaxCsn = 3
  MaxDrops = 1
  MaxStops = 1
INVARIANTS
  CookieCovers
PROPERTY
  OnlyStaleRemoved
CHECK_DEADLOCK FALSE
