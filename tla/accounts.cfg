CONSTANTS
  ann = ann  bob = bob
  r1 = r1  r2 = r2  r3 = r3
  p1 = p1  p2 = p2
  None = None
  SeedAccounts <- MCAccountSet
  Requests <- MCRequests
  Stories <- MCStories
  Phones <- MCPhones
SPECIFICATION FairSpec
CHECK_DEADLOCK FALSE
INVARIANTS
  TypeOK
  OneTokenPerLogin
  NothingOfTheDeleted
  OneInstallationId
PROPERTIES
  EveryRequestAnswered
  ImplementsLogins
