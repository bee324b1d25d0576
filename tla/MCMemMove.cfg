SPECIFICATION FairSpec
CONSTANTS
  MaxInflight = 2
  Slack = 2
  FieldCount = 2
  MaxBlocks = 3
INVARIANTS ArrivedWhenConsumed MoveInv
PROPERTIES IsFifoChannel MoveEnds
CHECK_DEADLOCK FALSE
