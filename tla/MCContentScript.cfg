\* the user stops
CHECK_DEADLOCK FALSE
CONSTANTS
  Tasks = {t1, t2}
  Modes = {"on", "off"}
  MaxEvents = 4
SPECIFICATION Spec
SYMMETRY Symmetry
INVARIANTS
  LockedPageForgets
  MenuFollowsUser
  AskedOnce
  SavedOnce
