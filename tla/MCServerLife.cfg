SPECIFICATION LifeSpec
CONSTANTS
  c1 = c1
  c2 = c2
  Clients = {c1, c2}
  FileLen <- MCFileLen
  CompressedLen <- MCCompressedLen
  SegSize = 1
  SegCount = 2
  SegIds = {0, 1, 2, 3}
  MainMaxMsg = 10
  MaxMsg = 10
  Junk = Junk
  StalePath = {TRUE, FALSE}
  CanCrash = {c1}
  MaxLives = 2
INVARIANTS
  DeliveredAcrossLives
  SegmentSafetyAcrossLives
PROPERTIES
  UploadsGoOn
CHECK_DEADLOCK FALSE
