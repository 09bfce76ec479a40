SPECIFICATION FairSpec
CONSTANTS
  a = a
  b = b
  c = c
  Nobody = Nobody
  NumQueues = 1
  Threads = {a, b, c}
  QueueOf <- OneQueue
  MaxPending = 2
  MaxSubmits = 3
  Opened = TRUE
  CreateMayFail = FALSE
  MayClose = FALSE
INVARIANTS
  AloneWhilePaused
  CountsAgree
PROPERTIES
  PendingTaken
  PauseGranted
CHECK_DEADLOCK FALSE
