CHECK_DEADLOCK FALSE
SPECIFICATION Spec
CONSTANTS
  Conns = {c1, c2}
  NoConn = NoConn
  MaxObjects = 3
  MaxRequests = 6
INVARIANTS
  SessionsCounted
  NobodyLeft
  NumberNamesPicture
PROPERTIES
  OthersKeepTrack
  SetIsTaken
