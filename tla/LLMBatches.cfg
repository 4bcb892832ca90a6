SPECIFICATION Spec
CONSTANTS
  Pools <- MCPools
  PrefChars = 3
  CharsPerToken = 2
  MaxBatchTokens = 4
  MaxWorkers = 2
  TopX = 2
  Verdicts <- MCVerdicts
  Tokens = {1}
  Settings <- MCSettings
CHECK_DEADLOCK FALSE
INVARIANTS
  TypeOK
  OrderDoesNotMatter
  UsageAccountedFor
  NoThreadOutlives
PROPERTIES
  ShortlistReturns
