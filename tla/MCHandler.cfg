\* The readers are interchangeable for the liveness property too: neither it
\* nor FairSpec names one.  The workers are not: FairSpec is fair to each.
SPECIFICATION FairSpec
CONSTANTS
  Readers = {r1, r2}
  Workers = {w1, w2}
  Jobs = {j1, j2, j3}
  Malformed = {j2}
  Unknown = {j3}
  Probes = {p1}
  Policies <- MCPolicies
  MaxQueueSize = 2
  DefaultConcurrency = 1
  DefaultQueueSize = 1
  DefaultJobTimeout = 30
  Second = 10
  MaxInt64 = 63
  None = None
SYMMETRY MCSymmetry
INVARIANTS
  TypeOK
  OnePlacePerJob
  OneAnswerPerJob
  CountersAccurate
  PolicyNeedsProbe
PROPERTIES
  ImplementsService
  EveryJobSettles
