CHECK_DEADLOCK FALSE
SPECIFICATION SpecMirror
CONSTANTS
  PartCount = 4
  TotalLimit = 6
  Sizes <- MCSizes
  HlsGroup = 2
  HlsWindow = 1
  Pts <- MCClock
  MaxGeneration = 6
  MaxSequence = 6
  Clock <- MCClock
  StopRoom = 3
INVARIANTS
  LiveWindow
  AdvertisedBytesExist
  BudgetKept
  StartPlayable
  TimesAdvance
  EndedChannelShowsNothing
PROPERTIES
  SameNameSameBytes
  StopReturns
