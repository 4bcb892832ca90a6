\* Two workers and a live session; no worker outlives its lease.
CONSTANTS
  k1 = k1  k2 = k2  w1 = w1  w2 = w2  s1 = s1   NoKey = NoKey
  Keys = {k1, k2}
  Workers = {w1, w2}
  Sessions = {s1}
  MaxAttempts = 2
  LeaseTicks = 2
  FreshTicks = 1
  Backlog <- NoBacklog
  Overruns = FALSE
  MaxCrashes = 1
  MaxClaims = 3
SPECIFICATION Spec
SYMMETRY Symmetry
INVARIANTS TypeOK OneWorkerPerJob RequeueWithinBudget AttemptsPaidByCrashes FifoFirstClaim
PROPERTIES ClosedByLastHands SettledStaysClosed ImplementsWorkBoard
