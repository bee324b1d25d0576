SPECIFICATION Spec
CONSTANTS
  NumWorkers = 2
  Records = {r1}
  NumDeltas = 2
  DeltaSwitch = 1
  TagWrap = 1048576
  TxnIdBase = 134217728
  ReaderBias = 10
  MaxTs = 4
INVARIANT DeltaTagVerified
CHECK_DEADLOCK FALSE
