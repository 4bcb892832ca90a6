\* Two workers on a backlog, each able to outlive its leases; no session.
CONSTANTS
  k1 = k1  k2 = k2  w1 = w1  w2 = w2  s1 = s1   NoKey = NoKey
  Keys = {k1, k2}
  Workers = {w1, w2}
  Sessions = {}
  MaxAttempts = 2
  LeaseTicks = 2
  FreshTicks = 2
  Backlog <- FullBacklog
  Overruns = TRUE
  MaxCrashes = 1
  MaxClaims = 4
SPECIFICATION Spec
INVARIANT SucceededHasDetail
