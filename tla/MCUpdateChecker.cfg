\* the user stops
CHECK_DEADLOCK FALSE
CONSTANTS
  Calls = {c1, c2}
  Releases <- MCReleases
  First <- MCFirst
  Radix = 100
  IntervalHours = 2
  MaxHours = 2
  MaxEvents = 4
SPECIFICATION Spec
SYMMETRY Symmetry
INVARIANTS
  OffIsSilent
  OffersAreRight
PROPERTIES
  HostIsSpared
