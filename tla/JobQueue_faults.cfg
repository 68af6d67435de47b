SPECIFICATION Spec
CONSTANTS
  j1 = j1
  j2 = j2
  p1 = p1
  p2 = p2
  None = None
  Jobs = {j1, j2}
  Unhandled = {j2}
  Priorities <- MCOneLevel
  Procs = {p1, p2}
  PoolSize = 1
  MaxAttempts = 2
  BatchLimit = 2
  RedisFaults = {"refused", "unacked"}
  MaxStops = 1
  MaxCrashes = 1
SYMMETRY Permuted
INVARIANTS TypeOK SingleOwner AttemptCountsCalls
PROPERTY RetryWaitsForBackoff
