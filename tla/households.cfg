CONSTANTS
  r1 = r1  r2 = r2  r3 = r3
  None = None
  Seed = Seed
  Users <- MCUsers
  Requests <- MCRequests
  Intents <- MCIntents
  Roles <- MCRoles
SPECIFICATION Spec
SYMMETRY Symmetry
CHECK_DEADLOCK FALSE
INVARIANTS
  TypeOK
  OneOwnerOneSession
  NobodyWaitsForEver
PROPERTIES
  CommitsAreAuthorized
  ImplementsLedger
