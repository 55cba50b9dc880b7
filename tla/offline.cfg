CONSTANTS
  r1 = r1  r2 = r2
  None = None
  Mutations <- MCMutations
  Unbased <- MCUnbased
  ReplayLimits = {1, 2}
  Runs <- MCRuns
  Reports <- MCReports
SPECIFICATION Spec
SYMMETRY Symmetry
CHECK_DEADLOCK FALSE
INVARIANTS
  TypeOK
  RunsAreFifo
  OneCurrentRun
PROPERTIES
  ObsoleteRunsAreIgnored
  ImplementsQueue
