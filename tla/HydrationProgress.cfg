\* A session and a worker that may be killed; fair worker: progress.
CONSTANTS
  k1 = k1  k2 = k2  w1 = w1  w2 = w2  s1 = s1   NoKey = NoKey
  Keys = {k1, k2}
  Workers = {w1}
  Sessions = {s1}
  MaxAttempts = 2
  LeaseTicks = 1
  FreshTicks = 1
  Backlog <- NoBacklog
  Overruns = FALSE
  MaxCrashes = 1
  MaxClaims = 3
SPECIFICATION FairSpec
PROPERTY EveryJobSettles
