SPECIFICATION Spec
CONSTANTS
  Threads = {t1, t2}
  Rates = {1, 2}
  Channels = {1, 2}
  Capacity = 1
  MaxBlock = 2
  Free = Free
INVARIANTS
  WritesInOwnFormat
  ShutdownIsFinal
PROPERTIES
  CoreStopReturns
CHECK_DEADLOCK FALSE
