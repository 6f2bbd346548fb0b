SPECIFICATION FairSpec
CONSTANTS
  c1 = c1
  c2 = c2
  Clients = {c1, c2}
  FileLen <- MCFileLenEmpty
  CompressedLen <- MCCompressedLen
  SegSize = 2
  SegCount = 4
  SegIds = {0, 1, 2, 3}
  MainMaxMsg = 1
  MaxMsg = 10
  Junk = Junk
  StalePath = {TRUE}
  CanCrash = {}
PROPERTIES
  EveryoneServed
CHECK_DEADLOCK FALSE
