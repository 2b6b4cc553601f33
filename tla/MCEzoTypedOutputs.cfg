SPECIFICATION Spec
CONSTANTS
  Used <- MCEcOnly
  Programs = {TRUE}
  MaxLate = 0
  MaxCommands <- MCOneQuery
  MemoryCapacity = 2
INVARIANTS
  OutputsQueryable
