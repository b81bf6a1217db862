SPECIFICATION Spec
CONSTANTS
  Readers = {r1}
  Workers = {w1, w2, w3}
  Jobs = {j1, j2, j3}
  Malformed = {}
  Unknown = {}
  Probes = {p1}
  Policies <- MCNoPolicy
  MaxQueueSize = 3
  DefaultConcurrency = 1
  DefaultQueueSize = 1
  DefaultJobTimeout = 30
  Second = 10
  MaxInt64 = 63
  None = None
INVARIANT
  ConcurrencyRespected
