SPECIFICATION Spec
CONSTANTS
  Pushers = {p1, p2}
  Poppers = {c1, c2}
  Items = {b1, b2, b3}
  N = 3
  MaxTickets = 5
  None = None
INVARIANTS NothingOverwritten RingInv
PROPERTIES PopReturns
CHECK_DEADLOCK FALSE
