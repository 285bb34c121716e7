CHECK_DEADLOCK FALSE
CONSTANTS
  Callers = {a, b}
  MaxFlows = 2
  MaxEvents = 2
  MaxDeaths = 1
  MaxFaults = 1
SPECIFICATION FairSpec
INVARIANTS
  CancelIsFinal
  ReportsAreTrue
PROPERTIES
  Redeems
  NavigationsAreHandled
  RedirectIsTaken
