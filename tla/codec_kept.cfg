SPECIFICATION Spec
CONSTANTS
  ByteBase = 5
  AlphabetSize = 3
  IdLen = 2
  ChecksumLen = 2
  Checksum <- SumChecksum
  Sum256 <- MixHash
  TargetBits = 1
  BelowTarget <- SmallSum
  MaxNonce = 3
  Items <- AllKinds
  Rests <- TwoRests
INVARIANT StreamsAreKept
INVARIANT AddressesAreKept
INVARIANT PairsAreKept
INVARIANT TextsAreCanonical
INVARIANT RootCommits
INVARIANT HeaderCommits
\* One item is written and read.
CHECK_DEADLOCK FALSE
