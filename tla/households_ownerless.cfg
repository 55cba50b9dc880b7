CONSTANTS
  r1 = r1  r2 = r2  r3 = r3
  None = None
  Seed = Seed
  Users <- MCUsers
  Requests <- MCRequests
  Intents <- MCIntents
  Roles <- MCRoles
SPECIFICATION Spec
CHECK_DEADLOCK FALSE
INVARIANT HouseholdHasOwner
