SPECIFICATION FairSpec
CONSTANTS
  MaxConns = 2
  MaxResults = 0
  SendCap = 1
  ReconnectMax = 60
  None = None
PROPERTIES
  DeadLinkNoticed
  ShutdownCompletes
  PumpsEnd
