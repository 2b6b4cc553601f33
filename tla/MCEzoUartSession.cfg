SPECIFICATION FairSpec
CONSTANTS
  Line <- MCLine
  Stamps = 7
  MaxLate = 2
  MaxFaults = 1
  MaxNoise = 1
INVARIANTS
  SessionTypeOK
  OwnReply
  BootstrapFences
  ReadyMeansCodes
PROPERTY
  Recovers
