CONSTANTS
  BuffNum = 5
  PackNotifications = 2
  BatchReads = 2
  BatchRelease = 2
  Budgets <- MCBudgets
SPECIFICATION FairSpec
INVARIANTS PositionsRight ReadsSound
PROPERTIES IsFifoChannel ConnectionProgresses
CHECK_DEADLOCK FALSE
