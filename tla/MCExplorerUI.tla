----------------------------- MODULE MCExplorerUI -----------------------------
(***************************************************************************)
(* A small page: a chain of three nodes, two words to search for, and one  *)
(* namespace besides "(all)".                                              *)
(***************************************************************************)
EXTENDS ExplorerUI, TLC

CONSTANTS t1, t2, n1, a, b, c

\* The second word is nowhere in the namespace.
SmallFound ==
  [q \in {<<t, s>> : t \in Text, s \in Namespace \cup {AnyNs}} |->
     IF q[1] = t1 THEN {a, b} ELSE IF q[2] = n1 THEN {} ELSE {b}]

Chain == {<<a, b>>, <<b, c>>}

Up(n)   == {e \in Chain : e[2] = n}
Down(n) == {e \in Chain : e[1] = n}

\* Two hops reach the whole chain from its ends.
SmallLineage ==
  [v \in View |->
     (IF v.dir = "downstream" THEN {} ELSE
        IF v.depth = 1 THEN Up(v.node) ELSE UNION {Up(e[1]) : e \in Up(v.node)} \cup Up(v.node))
     \cup
     (IF v.dir = "upstream" THEN {} ELSE
        IF v.depth = 1 THEN Down(v.node) ELSE UNION {Down(e[2]) : e \in Down(v.node)} \cup Down(v.node))]

=============================================================================
