SPECIFICATION Spec
CONSTANTS
  Absent = Absent
  Null = Null
  NoRow = NoRow
  r1 = r1
  r2 = r2
  r3 = r3
  c1 = c1
  Request <- DiscoveryRequests
  Version <- OneVersion
  Key <- TenantKeys
  Promise <- TenantPromise
  Client = {c1}
  Query <- DiscoveryQueries
  Spelling <- ShortSpelling
  LowerCase <- Lower
  Rank <- Ranks
  MaxText = 2
  MaxResults = 3
  MaxNamespaces = 3
INVARIANTS
  ScopeKeepsTenantsApart
  AckedNodesFindable
  ListedNamespaceSearchable
  SubstringOnly
