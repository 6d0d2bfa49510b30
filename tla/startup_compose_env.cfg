SPECIFICATION Spec
CONSTANTS
  c1 = c1
  c2 = c2
  c3 = c3
  pg = pg
  other = other
  localhost = localhost
  Container = {c1, c2}
  Database = {pg, other, localhost}
  Running = {pg, other}
  Env <- EnvCompose
  DefaultDatabase = localhost
  MaxStarts = 2
  MaxCrashes = 1
INVARIANT
  ComesUp
