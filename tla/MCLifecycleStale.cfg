SPECIFICATION Spec
CONSTANTS
  Owners = {"nacl"}
  Profiles = {"native", "uxplay-test"}
  MaxKey = 3
INVARIANTS
  NoStaleRecord
CHECK_DEADLOCK FALSE
