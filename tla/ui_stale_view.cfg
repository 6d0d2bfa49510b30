SPECIFICATION Spec
CONSTANTS
  t1 = t1
  t2 = t2
  n1 = n1
  a = a
  b = b
  c = c
  NoText = NoText
  AnyNs = AnyNs
  NoNode = NoNode
  Text = {NoText, t1, t2}
  Namespace = {n1}
  Node = {a, b, c}
  Depth = {1, 2}
  Found <- SmallFound
  Lineage <- SmallLineage
  MaxActs = 5
INVARIANT
  ViewCoherent
