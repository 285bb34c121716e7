\* The edit made while an upload of the same record is under way.
CONSTANTS
  Ids = {a}
  Authorities = {1, 3}
  Readable = {TRUE}
  SeedIds = {a}
  MaxEdits = 2
  MaxFaults = 0
  MaxResets = 0
SPECIFICATION Spec
INVARIANT NoEditLost
