SPECIFICATION Spec
CONSTANTS
  Producers = {p1, p2}
  MaxPushes = 3
  CacheSlots = 2
INVARIANTS QueueInv
PROPERTIES IsFifoChannel EverythingArrives
