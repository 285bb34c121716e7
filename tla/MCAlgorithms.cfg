\* one input is picked
CHECK_DEADLOCK FALSE
CONSTANTS
  PublicSuffixes <- MCPublicSuffixes
  Wildcards <- MCWildcards
  Exceptions <- MCExceptions
  IpAddresses <- MCIpAddresses
  Groups <- MCGroups
  Hosts <- MCHosts
  Logins <- MCLogins
  Pages <- MCPages
  Settings <- MCSettings
  Posts <- MCPosts
  Forms <- MCForms
  FilledLogins <- MCFilledLogins
  Prefilled <- MCTexts
  MaxLabels = 4
  MaxRecords = 4
  MaxLimit = 3
  MaxFields = 4
SPECIFICATION PickSpec
INVARIANTS
  DomainsFollowTheList
  LoginsMatchTheirSites
  PostsAreExact
  FormsAreUnderstood
