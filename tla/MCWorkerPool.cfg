SPECIFICATION Spec
CONSTANTS
  NumWorkers = 2
  MaxPlugged = 1
  MaxRounds = 2
  MaxSnapshots = 1
INVARIANTS LoadedBeforeRun PoolInv
PROPERTIES LifeGoesOn
CHECK_DEADLOCK FALSE
