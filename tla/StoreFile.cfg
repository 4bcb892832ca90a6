SPECIFICATION Spec
CONSTANTS
  p1 = p1
  p2 = p2
  P = {p1, p2}
  IDs = {"i1", "i2"}
  Incoming <- MCIncoming
  Backlog <- MCBacklog
  CacheValues <- MCCacheValues
  Files <- MCFiles
  MaxOps = 4
SYMMETRY Processes
INVARIANTS
  TypeOK
  OpenedIsCurrent
  AgencyLossNeedsOverlap
  RefusedOnlyAfterConflict
PROPERTIES
  KeepsContract
  IdentityMovesByRace
