SPECIFICATION Spec
CONSTANTS
  Jobs <- MCJobs
  TraceLength = 80
  MaxInt64 = 200
  None = None
CHECK_DEADLOCK FALSE
INVARIANT
  RejectedIsNoTimeout
