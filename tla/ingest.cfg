SPECIFICATION FairSpec
CONSTANTS
  Absent = Absent
  Null = Null
  NoRow = NoRow
  r1 = r1
  r2 = r2
  r3 = r3
  r4 = r4
  r5 = r5
  Request <- MixedRequests
  Call <- MixedCalls
  Scenario <- MixedScenarios
  MaxAttempts = 2
  MaxBatch = 2
  Chunk = 2
  MaxFaults = 1
INVARIANTS
  DerivationWitnessed
  AckedIsDurable
  RowsComeFromLandedCalls
  CountsAccurate
  ErrorsHaveCauses
PROPERTIES
  CreatedAtStable
  ScopedDiscoveryStable
  ImplementsEdgeStore
  EveryCallEnds
