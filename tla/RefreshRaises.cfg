\* A session refreshes a listing that a worker has in hand.
CONSTANTS
  k1 = k1  k2 = k2  w1 = w1  w2 = w2  s1 = s1   NoKey = NoKey
  Keys = {k1, k2}
  Workers = {w1}
  Sessions = {s1}
  MaxAttempts = 2
  LeaseTicks = 2
  FreshTicks = 2
  Backlog <- FullBacklog
  Overruns = FALSE
  MaxCrashes = 0
  MaxClaims = 3
SPECIFICATION Spec
INVARIANT RefreshIsNoError
