SPECIFICATION Spec
CONSTANTS
  Keys = {k1, k2}
  NoKey = NoKey
  Sessions = {s1, NoSession}
  NoSession = NoSession
  Sizes <- MCSizes
  PhotoMaxBytes = 3
  CacheBytes = 6
  SessionIds = 3
  MaxGeneration = 3
  MaxAge = 4
SYMMETRY MCSymmetry
INVARIANTS
  RoomForEveryPhoto
  DisplayPinned
PROPERTIES
  GenerationNamesOneImage
  SessionsTellApart
