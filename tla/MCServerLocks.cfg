SPECIFICATION LocksSpec
CONSTANTS
  CheckClientQ = CheckClientQ
  WorkThread = WorkThread
  MainThread = MainThread
  ListenThread = ListenThread
  NoOwner = NoOwner
  SegCount = 1
  MaxRequests = 3
  MaxRequeues = 2
INVARIANTS
  GrantFilled
  OneLock
PROPERTIES
  AllServed
