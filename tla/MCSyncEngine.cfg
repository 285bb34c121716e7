CONSTANTS
  Ids = {a, b}
  Authorities = {1, 3}
  Readable = {TRUE, FALSE}
  SeedIds = {a}
  MaxEdits = 2
  MaxFaults = 1
  MaxResets = 1
SPECIFICATION FairSpec
INVARIANTS
  OnlyRacedEditsLost
  MarkCovers
  CleanBelowMarkAgrees
PROPERTIES
  NoBlindOverwrite
  EditsAreSettled
  EventuallyAgree
