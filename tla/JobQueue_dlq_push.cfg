SPECIFICATION Spec
CONSTANTS
  j1 = j1
  j2 = j2
  p1 = p1
  p2 = p2
  None = None
  Jobs = {j1, j2}
  Unhandled = {}
  Priorities <- MCOneLevel
  Procs = {p1}
  PoolSize = 1
  MaxAttempts = 2
  BatchLimit = 1
  RedisFaults = {"refused"}
  MaxStops = 0
  MaxCrashes = 0
INVARIANT ExhaustedReachDeadLetters
