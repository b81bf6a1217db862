SPECIFICATION FairSpec
CONSTANTS
  MaxConns = 1
  MaxResults = 0
  SendCap = 1
  ReconnectMax = 60
  None = None
PROPERTY
  BackoffGrows
