CONSTANTS
  Accounts = {a, b}
  None = None
  Engines = 2
  MaxSwitches = 2
  MaxFaults = 2
  MaxBackoffs = 1
  MaxDeaths = 1
SPECIFICATION FairSpec
INVARIANTS
  NodeOfToken
  RightKeys
  AuthErrorsEnd
PROPERTIES
  Recovers
