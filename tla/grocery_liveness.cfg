CONSTANTS
  r1 = r1  r2 = r2  r3 = r3
  milkItem = milkItem  riceItem = riceItem  newItem = newItem
  milk = milk  rice = rice  k1 = k1
  None = None
  Seed = Seed
  SeedSeq = 2
  Users <- MCUsers
  Items <- MCItems
  Names <- MCNames
  Keys <- MCKeys
  Requests <- MCRequests
  Intents <- LivenessIntents
  SeedItems <- MCSeedItems
SPECIFICATION FairSpec
CHECK_DEADLOCK FALSE
PROPERTY EveryRequestAnswered
