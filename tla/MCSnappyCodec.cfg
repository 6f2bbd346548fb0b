SPECIFICATION Spec
CONSTANTS
  Calls <- MCCalls
  BlockSize = 144
  Handovers <- MCHandovers
  SinkPiece = 1
  Hash <- MCHash
  Hashes <- MCHashes
  SkipBytes = 2
  Bytes <- MCBytes
  Margin = 15
INVARIANTS
  DecodesToInput
  CandidateBehind
  WithinLimits
  SizeBounded
  RoundTrip
  WritesInBounds
CHECK_DEADLOCK FALSE
