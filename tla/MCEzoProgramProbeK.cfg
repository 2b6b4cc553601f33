SPECIFICATION Spec
CONSTANTS
  Programs <- MCEcCalibration
  Circuits <- MCCircuits
  Endings <- MCEndings
  MemoryCapacity = 3
  ResponseValues = 2
  PreviewSamples = 2
  SequentialCount = 2
  MaxOptions = 3
  MaxFaults = 0
INVARIANTS
  ProbeKAlone
