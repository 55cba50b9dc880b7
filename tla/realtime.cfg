SPECIFICATION Spec
CONSTANTS
  a = a
  b = b
  milk = milk
  list = list
  Users <- MCUsers
  Me = a
  Sockets = {s1, s2, s3}
  Items = {milk}
  List = list
  MaxEvents = 3
  Stories <- MCStories
  MaxIncidents = 1
  None = None
SYMMETRY Symmetry
INVARIANTS
  TypeOK
  ReferencesCounted
  NoStraySubscription
  RegistryFollowsHandlers
  OneConnection
  PublishedIsShown
CHECK_DEADLOCK FALSE
