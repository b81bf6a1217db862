SPECIFICATION FairSpec
CONSTANTS
  MaxConns = 2
  MaxResults = 1
  SendCap = 1
  ReconnectMax = 60
  None = None
PROPERTIES
  SteadyLinkDrains
