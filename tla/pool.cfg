CONSTANTS
  w1 = w1
  w2 = w2
  r1 = r1
  r2 = r2
  Nobody = Nobody
  Writer = {w1, w2}
  Reader = {r1, r2}
  PoolSize = 1
  MaxOverflow = 1
  MaxCrashes = 2
SPECIFICATION FairSpec
INVARIANTS
  NoStaleFailure
PROPERTIES
  TimeoutMeansBusy
  EveryRequestEnds
