SPECIFICATION FairSpec
CONSTANTS
  MaxConns = 1
  SendCap = 1
  ReconnectMax = 60
  Workers = {w1}
  Jobs = {j1, j2}
  Malformed = {j2}
  Unknown = {}
  Probes = {}
  Policies = {}
  MaxQueueSize = 2
  DefaultConcurrency = 1
  DefaultQueueSize = 1
  DefaultJobTimeout = 30
  Second = 10
  MaxInt64 = 63
  None = None
INVARIANTS
  TypeOK
  SentOnce
  JobsAccounted
  OvershootBounded
PROPERTIES
  ImplementsReports
  EveryJobSettles
