CONSTANTS
  Nodes = {n1, n2, n3, n4, n5}
  Tasks = {a, b}
  NULL = NULL
SPECIFICATION Spec
INVARIANTS
  TypeOK
  WellFormed
PROPERTIES
  FifoSpec
  LosesOnly
CHECK_DEADLOCK FALSE
