SPECIFICATION Spec
CONSTANTS
  Threads = {t1, t2}
  Capacity = 8
  SlackSize = 4
  InitSize = 1
  RecSizes = {2, 5}
  SizeWrap = 1000
  TagWrap = 2
  MaxTag = 3
  MaxRecs = 3
INVARIANTS ValidPointersIntact VersionsInMemory MemInv
SYMMETRY ThreadSymmetry
CHECK_DEADLOCK FALSE
