SPECIFICATION FairSpec
CONSTANTS
  Jobs <- MCJobs
  TraceLength = 80
  MaxInt64 = 200
  None = None
CHECK_DEADLOCK FALSE
INVARIANTS
  TypeOK
  StatusesAgree
  RunBounded
  OwnTimerFirst
  TimerMeansTimeout
  FallbackHidesNothing
PROPERTY
  EveryRunEnds
