SPECIFICATION FairSpec
CONSTANTS
  c1 = c1
  c2 = c2
  c3 = c3
  pg = pg
  other = other
  localhost = localhost
  Container = {c1, c2, c3}
  Database = {pg, other, localhost}
  Running = {pg, other}
  Env <- EnvExample
  DefaultDatabase = localhost
  MaxStarts = 2
  MaxCrashes = 1
INVARIANTS
  SchemaAllOrNothing
  ServesOnSchema
  LoserFindsSchema
  ComesUp
PROPERTY
  StartsEnd
