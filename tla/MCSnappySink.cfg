SPECIFICATION Spec
CONSTANTS
  Calls <- MCCalls
  BlockSize = 144
  Handovers <- MCHandovers
  SinkPiece = 16
  Hash <- MCHash
  Hashes <- MCHashes
  SkipBytes = 2
  Bytes <- MCBytes
  Margin = 15
CHECK_DEADLOCK FALSE
INVARIANTS
  RoundTrip
