SPECIFICATION FairSpec
CONSTANTS
  j1 = j1
  j2 = j2
  p1 = p1
  p2 = p2
  None = None
  Jobs = {j1, j2}
  Unhandled = {}
  Priorities <- MCTwoLevels
  Procs = {p1}
  PoolSize = 2
  MaxAttempts = 2
  BatchLimit = 2
  RedisFaults = {}
  MaxStops = 2
  MaxCrashes = 1
INVARIANTS NothingLost DeadLettersAreFinal DrainLeavesNothing
PROPERTIES ImplementsLifecycle EventuallySettled StopTerminates
