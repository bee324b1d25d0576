SPECIFICATION Spec
CONSTANTS
  Clients = {c1, c2}
  DevBufs = {d1, d2, d3, d4, d5}
  HostBufs = {h1, h2}
  DeviceBuffSize = 2
  KeepThreshold = 3
  LowWater = 1
  Budgets <- MCBudgets
INVARIANTS DeviceBufferInOnePlace PoolsInv DrainFits
PROPERTIES NobodyWaitsForEver
CHECK_DEADLOCK FALSE
