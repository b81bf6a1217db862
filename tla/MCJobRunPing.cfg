SPECIFICATION Spec
CONSTANTS
  Jobs <- PingJobs
  TraceLength = 80
  MaxInt64 = 200
  None = None
CHECK_DEADLOCK FALSE
INVARIANT
  PingNotKilled
