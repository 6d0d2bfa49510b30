SPECIFICATION FairSpec
CONSTANTS
  Absent = Absent
  Null = Null
  NoRow = NoRow
  r1 = r1
  r2 = r2
  r3 = r3
  c1 = c1
  Request <- ReadRequests
  Version <- ReadVersion
  Key <- ReadKeys
  Promise <- ReadPromise
  Reader = {c1}
  Query <- ReadQueries
  MaxDepth = 3
INVARIANTS
  StatementExact
  AnswerBetween
  OneRowPerKey
  ReadYourWrites
PROPERTY
  EveryReadEnds
