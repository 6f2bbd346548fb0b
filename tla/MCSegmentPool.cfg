CONSTANTS
  CheckClientQ = CheckClientQ
  WorkThread = WorkThread
  MainThread = MainThread
  NoOwner = NoOwner
  SegCount = 5
SPECIFICATION FairSpec
INVARIANTS
  TypeOK
  CountAccurate
  ExclusiveOwnership
  GrantedInUse
  NeverExhausted
PROPERTIES
  PsegsSnapshot
  GrabReturns
  AllocatorSpec
