SPECIFICATION Spec
CONSTANTS
  MaxConns = 2
  MaxResults = 2
  SendCap = 1
  ReconnectMax = 60
  None = None
INVARIANTS
  TypeOK
  OneWriter
  AuthFirst
  OneSocket
  ResultsAccounted
  InOrder
  FailuresBounded
PROPERTIES
  RejectedLinkCloses
  HealthyLinkKept
  ImplementsResults
