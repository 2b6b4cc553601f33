SPECIFICATION FairSpec
CONSTANTS
  Caps = {0, 2, 5}
  MaxCap = 5
  TerminalCap = 3
  DataLen = 3
  TokenLen = 2
  DoneLen = 2
  Emittable = {"DATA", "OK", "EMPTY"}
  Endings = {"OK"}
  MaxLines = 3
INVARIANTS
  TypeOK
  Framing
  LineIntegrity
  BoundaryAfterLine
  TypedIsAcknowledged
PROPERTIES
  ExhaustionReported
  ImplementsPromise
  CallReturns
