\* the user stops
CHECK_DEADLOCK FALSE
CONSTANTS
  Calls = {c1, c2}
  Accounts = {a, b}
  MaxAsks = 3
  MaxFaults = 1
SPECIFICATION Spec
SYMMETRY Symmetry
INVARIANTS
  SavedIsOne
  OneGrant
  SessionInOrder
  PageGetsThrough
