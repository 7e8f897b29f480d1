SPECIFICATION SpecClient
CONSTANTS
  PartCount = 2
  TotalLimit = 2
  Sizes <- MCSizes
  HlsGroup = 2
  HlsWindow = 1
  Pts <- MCPts
  MaxGeneration = 2
  MaxSequence = 4
  MaxFaults = 3
INVARIANTS
  OneChain
  FedInOrder
PROPERTIES
  CatchesUp
