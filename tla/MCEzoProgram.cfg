SPECIFICATION Spec
CONSTANTS
  Programs <- MCAll
  Circuits <- MCCircuits
  Endings <- MCEndings
  MemoryCapacity = 3
  ResponseValues = 2
  PreviewSamples = 2
  SequentialCount = 2
  MaxOptions = 3
  MaxFaults = 1
INVARIANTS
  ProgramTypeOK
  ReportIsTrue
  SuccessMeansApplied
  SuccessLeavesNothing
  UndisturbedSucceeds
  SwitchedUnlocked
  ExportIsWhole
PROPERTIES
  AppliedIsMeasured
  InspectionChangesNothing
