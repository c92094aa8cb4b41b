SPECIFICATION FairSpec
CONSTANTS
  c1 = c1
  Closer = Closer
  None = None
  Callers <- MCCallers
  MaxWrites = 2
  BatchLimit = 2
  Pipelined = FALSE
  DiskFaults <- ErrorFault
  MaxCrashes = 0
PROPERTY PublishedIsPersisted
