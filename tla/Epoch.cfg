SPECIFICATION Spec
CONSTANTS
  Threads = {t1, t2, t3}
  Objects = {o1, o2}
  Operations = {o2}
  Present = {{o1}, {o2}}
  Mask = 4
  NoEpoch = NoEpoch
  NoObject = NoObject
  Link = Link
INVARIANTS
  TypeOK
  NoUseAfterFree
  DisposedOnce
  AppendsRecent
PROPERTY
  EventuallyFreed
CHECK_DEADLOCK FALSE
