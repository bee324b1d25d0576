SPECIFICATION FairSpec
CONSTANTS
  Clients = {c1, c2}
  Destructor = dtor_thread
  elastic = TRUE
  InitialThreads = 1
  MaxTasks = 3
INVARIANTS ThreadPerTask
PROPERTIES EveryTaskStarts DestructionReturns
CHECK_DEADLOCK FALSE
