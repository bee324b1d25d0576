SPECIFICATION FairSpec
CONSTANTS
  NumWorkers = 2
  Records = {r1, r2}
  NumDeltas = 2
  DeltaSwitch = 1
  TagWrap = 1048576
  TxnIdBase = 134217728
  ReaderBias = 10
  MaxTs = 3
INVARIANTS ReadableUnlessExposed GcInv LockOwnership
PROPERTIES NoResetUnderWriter EveryTxnEnds
CHECK_DEADLOCK FALSE
