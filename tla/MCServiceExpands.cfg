SPECIFICATION Spec
CONSTANTS
  c1 = c1
  c2 = c2
  Clients = {c1, c2}
  FileLen <- MCFileLen
  CompressedLen <- MCCompressedLenExpands
  SegSize = 2
  SegCount = 4
  SegIds = {0, 1, 2, 3}
  MainMaxMsg = 1
  MaxMsg = 10
  Junk = Junk
  StalePath = {TRUE}
  CanCrash = {}
INVARIANTS
  ClientCopiesInBounds
CHECK_DEADLOCK FALSE
