SPECIFICATION FairSpec
CONSTANTS
  Jobs = {j1}
  Silent = {}
  Capacity = 1
  SendCap = 1
  MaxConns = 2
  MaxAcks = 2
  MaxLives = 2
  None = None
CHECK_DEADLOCK FALSE
INVARIANTS
  TypeOK
  OneReportPerJob
PROPERTIES
  IdentityFollowsStore
  OnlyStaleReadersGoBack
  PoolNeverBlocks
  SteadyAgentReports
