SPECIFICATION Spec
CONSTANTS
  Sessions = {s1, s2}
  Channels = {s1}
  MaxChanges = 4
PROPERTIES
  PhotoStopTold
CHECK_DEADLOCK FALSE
