SPECIFICATION Spec
CONSTANTS
  Caps = {1, 5}
  MaxCap = 5
  TerminalCap = 3
  DataLen = 3
  TokenLen = 2
  DoneLen = 2
  Emittable = {"DATA", "OK"}
  Endings = {"DATA"}
  MaxLines = 1
PROPERTY
  ExhaustionReported
