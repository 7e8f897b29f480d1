SPECIFICATION Spec
CONSTANTS
  QueueLimit = 1
  MaxConfigs = 2
  MaxFrames = 3
  MaxEvents = 1
INVARIANTS
  OneOfEachCall
  PicturesReturn
  NoLostWakeup
  FramesInOrder
PROPERTIES
  FallbackTakesOver
CHECK_DEADLOCK FALSE
