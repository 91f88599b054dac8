SPECIFICATION MCSpec
CONSTANTS
  Values = {5, 6, 7}
  MaxOffset = 6
  Addresses = {0, 1, 2, 3, 4}
  MaxSize = 5
  RingSize = 3
  MaxL1Block = 11
  MaxSends = 9
  SendValues = {0, 1}
  WordSize = 3
  MaxBytes = 7
  ByteStrings <- MCByteStrings
  TableAddresses = {"a", "b", "c"}
INVARIANTS
  MembershipExact
  ListExact
  HashesInWindow
  SendTreeExact
  BytesRoundTrip
  IndicesStable
PROPERTIES
  ImplementsFifo
CHECK_DEADLOCK FALSE
