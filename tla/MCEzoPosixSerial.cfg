SPECIFICATION FairSpec
CONSTANTS
  IntBits = 4
  Timeouts = {1, 7}
  TxLens = {0, 1, 3}
  MaxWrites = 2
  MaxArrivals = 2
  MaxSignals = 2
INVARIANTS
  SerialTypeOK
  WritesWholeOrPrefix
PROPERTY
  ReadBounded
