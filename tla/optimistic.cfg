CONSTANTS
  milk = milk
  m1 = m1  m2 = m2
  o1 = o1
  None = None
  Seeds <- MCSeeds
  Mutations <- MCMutations
  Others <- MCOthers
  Stories <- MCStories
SPECIFICATION Spec
CHECK_DEADLOCK FALSE
INVARIANT ListSettles
PROPERTY FreshListStays
