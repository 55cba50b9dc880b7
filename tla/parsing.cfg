CONSTANTS
  ann = ann  bob = bob
  r1 = r1  r2 = r2  r3 = r3
  a1 = a1  a2 = a2
  None = None
  Users = {ann, bob}
  Requests <- MCRequests
  SeedAliases <- MCAliasIds
  Stories <- MCStories
  StandardTerms <- MCStandardTerms
  CanonicalKeys = {"milk", "cooking_oil"}
  Length <- MCLength
  Punctuation = {","}
  NumberValues <- MCNumberValues
  Quantities <- MCQuantities
  UnitOwners <- MCUnitOwners
  AllowedCommandWords = {"and", "of"}
  MaxItems = 4
  Instructions = {"ignore"}
  MaxInputCharacters = 44
  MaxRelevantAliases = 1
  Responses <- MCResponses
SPECIFICATION Spec
CHECK_DEADLOCK FALSE
INVARIANTS
  TypeOK
  ClausesAreUnderstood
  NothingIsLeftOut
PROPERTY OnlyMembersChangeAliases
