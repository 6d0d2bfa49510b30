SPECIFICATION ChaosFairSpec
CONSTANTS
  Lines = 9
  BatchSize = 2
  Concurrency = 2
  Window = 3
  MaxOutages = 1
  Threshold = 2
INVARIANTS
  LoadedCounts
  LoadedHonest
  AbortLosesOneWindow
  WriterSurvivesDatabase
PROPERTIES
  EveryLoadEnds
  VerdictComes
