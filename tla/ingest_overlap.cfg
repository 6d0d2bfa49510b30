SPECIFICATION Spec
CONSTANTS
  Absent = Absent
  Null = Null
  NoRow = NoRow
  r1 = r1
  r2 = r2
  r3 = r3
  r4 = r4
  r5 = r5
  Request <- OverlapRequests
  Call <- OverlapCalls
  Scenario <- OverlapScenarios
  MaxAttempts = 1
  MaxBatch = 2
  Chunk = 5
  MaxFaults = 0
INVARIANT
  NoClientErrors
