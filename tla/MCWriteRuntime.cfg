SPECIFICATION Spec
CONSTANTS
  c1 = c1
  Closer = Closer
  None = None
  Callers <- MCCallers
  MaxWrites = 3
  BatchLimit = 2
  Pipelined = TRUE
  DiskFaults <- AllFaults
  MaxCrashes = 1
INVARIANTS
  RuntimeInv
  DurablePrefix
  FlushCoversEarlierWrites
  WritesInOrder
  ShutdownIsComplete
PROPERTY ImplementsDurableLog
