SPECIFICATION Spec
CONSTANTS
  c1 = c1
  c2 = c2
  c3 = c3
  Calls = {c1, c2, c3}
  MaxClock = 5
  RandomId <- MCRandomId
SYMMETRY Symmetric
INVARIANTS
  Private
CHECK_DEADLOCK FALSE
