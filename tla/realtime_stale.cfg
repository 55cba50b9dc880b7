SPECIFICATION Spec
CONSTANTS
  a = a
  b = b
  milk = milk
  list = list
  Users <- MCUsers
  Me = a
  Sockets = {s1, s2}
  Items = {milk}
  List = list
  MaxEvents = 3
  Stories <- MCStaleStories
  MaxIncidents = 1
  None = None
INVARIANT ReconnectedIsFresh
CHECK_DEADLOCK FALSE
