SPECIFICATION MessagesSpec
CONSTANTS
  c1 = c1
  c2 = c2
  Calls = {c1, c2}
  MaxClock = 5
  RandomId <- MCRandomId
  FileLens = {0, 8192001}
  SegSize = 8192
  Grants <- MCGrants
SYMMETRY Symmetric
INVARIANTS
  SeedsApart
  NoneLeft
  Understood
CHECK_DEADLOCK FALSE
