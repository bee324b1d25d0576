SPECIFICATION Spec
CONSTANTS
  Producers = {p1, p2}
  fanout = 2
  slack = 2
  MaxBlocks = 2
  MaxRouted = 3
INVARIANTS PacketsAlive RouterInv
PROPERTIES QueryEnds
CHECK_DEADLOCK FALSE
