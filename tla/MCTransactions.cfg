SPECIFICATION MCSpec
CONSTANTS
  t1 = t1
  t2 = t2
  p1 = p1
  p2 = p2
  Tx <- MCTx
  Pins <- MCPins
  MaxRuns = 2
INVARIANTS
  AccountingExact
  CommittedWasNotExpired
  LifecycleInv
PROPERTIES
  TerminalIsFinal
  ExpiredIsReleased
