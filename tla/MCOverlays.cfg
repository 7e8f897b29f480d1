SPECIFICATION SpecOverlays
CONSTANTS
  Sessions = {s1, s2}
  Channels = {s1}
  MaxChanges = 3
  MaxPosts = 1
INVARIANTS
  PhotoAlone
  StopClears
PROPERTIES
  VideoStateTold
  ReportsAreCurrent
  ScreenFollows
