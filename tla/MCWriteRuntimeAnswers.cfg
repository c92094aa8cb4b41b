SPECIFICATION FairSpec
CONSTANTS
  c1 = c1
  Closer = Closer
  None = None
  Callers <- MCCallers
  MaxWrites = 2
  BatchLimit = 2
  Pipelined = TRUE
  DiskFaults <- AllFaults
  MaxCrashes = 0
PROPERTIES
  EveryCallAnswered
  CloseTerminates
  WindowPersists
