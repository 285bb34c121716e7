\* the calls come to an end
CHECK_DEADLOCK FALSE
CONSTANTS
  Prefix = 2
  MaxMessage = 2
  Sizes = {1, 2, 3}
  MaxCalls = 3
  MaxLosses = 2
SPECIFICATION BridgeSpec
INVARIANTS
  TimersAreExact
  FramesAreExact
PROPERTIES
  SettlesOnce
