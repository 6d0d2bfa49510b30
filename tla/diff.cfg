SPECIFICATION Spec
CONSTANTS
  Absent = Absent
  Null = Null
  Events <- DiffEvents
  Files <- DiffFiles
  Samples <- DiffSamples
INVARIANTS
  DiffTypeOK
  ZeroMeansCovered
  AdapterExact
