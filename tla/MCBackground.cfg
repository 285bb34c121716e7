\* the messages end
CHECK_DEADLOCK FALSE
CONSTANTS
  Handlers = {h1, h2}
  MaxEvents = 2
  MaxFaults = 1
SPECIFICATION Spec
SYMMETRY Symmetry
INVARIANTS
  AlarmsAreArmed
  SyncsAreStarted
