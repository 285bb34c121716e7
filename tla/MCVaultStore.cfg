CONSTANTS
  Handlers = {a, b}
  Ops = {"write", "ensure", "lock", "unlock", "to pass", "to device", "reset", "connect", "disconnect", "mark"}
  MaxOps = 5
  MaxOverlaps = 1
  MaxDeaths = 2
SPECIFICATION Spec
SYMMETRY Symmetry
INVARIANTS
  DiskOpens
  SoloEditsSurvive
  LockedIsCold
CHECK_DEADLOCK FALSE
