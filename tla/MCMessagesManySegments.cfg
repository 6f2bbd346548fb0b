SPECIFICATION MessagesSpec
CONSTANTS
  c1 = c1
  c2 = c2
  Calls = {c1, c2}
  MaxClock = 5
  RandomId <- MCRandomId
  FileLens = {100}
  SegSize = 8192
  Grants <- MCFirstOf300
SYMMETRY Symmetric
INVARIANTS
  MessagesFit
CHECK_DEADLOCK FALSE
