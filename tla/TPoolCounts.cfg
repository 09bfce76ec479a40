SPECIFICATION Spec
CONSTANTS
  a = a
  b = b
  c = c
  Nobody = Nobody
  NumQueues = 2
  Threads = {a, b, c}
  QueueOf <- TwoQueues
  MaxPending = 2
  MaxSubmits = 3
  Opened = FALSE
  CreateMayFail = TRUE
  MayClose = TRUE
INVARIANTS
  TypeOK
  HiddenWhilePaused
  TasksCounted
CHECK_DEADLOCK FALSE
