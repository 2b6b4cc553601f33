SPECIFICATION Spec
CONSTANTS
  Used <- MCAll
  Programs = {TRUE, FALSE}
  MaxLate = 1
  MaxCommands <- MCCommands
  MemoryCapacity = 2
INVARIANTS
  TypedTypeOK
  OwnAnswer
  MeansWhatItSays
  QuietStaysInStep
  QuietSucceeds
