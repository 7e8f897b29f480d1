CHECK_DEADLOCK FALSE
SPECIFICATION SpecRemote
CONSTANTS
  Owners = {"process", "service", "nacl"}
  Profiles = {"native", "uxplay-test"}
  MaxKey = 2
  MaxPresses <- MCPresses
  Backlog = 2
INVARIANTS
  RecordsDescribeReceiver
  AllOrNothing
  OneRefreshChain
PROPERTIES
  ChoiceStands
  OwnerEnds
  PressIsHandled
