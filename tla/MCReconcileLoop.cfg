CONSTANTS
  Ids = {a, b}
  Authorities = {1, 2}
  Times = {1, 2}
  MaxRemote = 2
SPECIFICATION ReconcileSpec
SYMMETRY Symmetry
INVARIANTS
  PlanIsReference
  PlanIsSafe
\* the algorithm ends
CHECK_DEADLOCK FALSE
