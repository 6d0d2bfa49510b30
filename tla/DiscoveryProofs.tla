---------------------------- MODULE DiscoveryProofs ----------------------------
(***************************************************************************)
(* What discovery promises, for any calls, words and limits: a scoped      *)
(* search never crosses namespaces; a node that was acknowledged is found, *)
(* or kept out by others that come first; a namespace in the list can be   *)
(* searched; a hit has the word that was asked for.  They rest on what     *)
(* every row still has of some landed call's promise, on what is still in  *)
(* the table of each landed call, and on the places of a LIKE pattern.     *)
(***************************************************************************)
EXTENDS Discovery, FiniteSetTheorems, WellFoundedInduction, TLAPS

\* A call that has landed promised the row what it has.
RowPromised(k) ==
  \E w \in landed : \E m \in Promise :
    m.req = w[1] /\ m.key = k /\ table[k].ns = m.attrs.ns /\ table[k].job = m.attrs.job

RowsPromised == \A k \in Key : table[k] # NoRow => RowPromised(k)

Shapes ==
  /\ stage \in [Client -> Stages] /\ query \in [Client -> Query]
  /\ DOMAIN answer = Client /\ answer = [c \in Client |-> answer[c]]

\* What ScopeKeepsTenantsApart says of one client.
KeptApart(c) ==
  Answering(c, "search") /\ Scoped(query[c]) =>
    \A u \in Urns(c) : \E w \in landed : \E m \in Promise :
      m.req = w[1] /\ u \in Ends(m.key) /\ m.attrs.ns = query[c].ns

\* What DiscoveryTypeOK says of its answer.
Typed(c) ==
  /\ Answering(c, "search") => answer[c] \subseteq [urn : Node, kind : {"job", "dataset"}]
  /\ Answering(c, "namespaces") => answer[c] \subseteq {m.attrs.ns : m \in Promise}

IInv == Shapes /\ RowsPromised /\ \A c \in Client : KeptApart(c) /\ Typed(c)

-----------------------------------------------------------------------------

LEMMA InitIInv == Init => IInv
<1> SUFFICES ASSUME Init PROVE IInv
  OBVIOUS
<1>1. \E q \in Query : q = CHOOSE x \in Query : TRUE
  BY DiscoveryAssumption
<1> QED
  BY <1>1 DEF Init, Writers!Init, IInv, Shapes, RowsPromised, KeptApart, Typed, Answering, Stages

\* A call that lands promises the rows it replaces, and takes nothing back.
LEMMA WriteKeepsIInv == IInv /\ Write => IInv'
<1> SUFFICES ASSUME IInv, Write PROVE IInv'
  OBVIOUS
<1>1. UNCHANGED request /\ landed \subseteq landed'
  BY DEF Write, Writers!Next, Writers!Land, Writers!Acknowledge
<1>2. RowsPromised'
  <2> SUFFICES ASSUME NEW k \in Key, table'[k] # NoRow PROVE RowPromised(k)'
    BY DEF RowsPromised
  <2>1. CASE table'[k] = table[k]
    BY <2>1, <1>1 DEF IInv, RowsPromised, RowPromised
  <2>2. CASE table'[k] # table[k]
    <3>1. PICK w \in Request \X Version : Writers!Land(w)
      BY <2>2 DEF Write, Writers!Next, Writers!Acknowledge
    <3>2. Writers!Mentions(w, k) /\ table'[k] = Writers!Replaced(Writers!Promised(w, k), table[k], w)
      BY <2>2, <3>1 DEF Writers!Land
    <3>3. PICK m \in Promise : m.req = w[1] /\ m.key = k /\ m.attrs = Writers!Promised(w, k)
      BY <3>2 DEF Writers!Mentions, Writers!Promised
    <3>4. table'[k].ns = m.attrs.ns /\ table'[k].job = m.attrs.job
      BY <3>2, <3>3 DEF Writers!Replaced
    <3>5. w \in landed'
      BY <3>1 DEF Writers!Land
    <3> QED
      BY <3>3, <3>4, <3>5 DEF RowPromised
  <2> QED
    BY <2>1, <2>2
<1>3. ASSUME NEW c \in Client PROVE KeptApart(c)' /\ Typed(c)'
  BY <1>1 DEF request, IInv, KeptApart, Typed, Answering, Urns
<1> QED
  BY <1>1, <1>2, <1>3 DEF IInv, Shapes, request

\* A search reads only rows of its namespace.
LEMMA SelectKeepsIInv ==
  ASSUME IInv, NEW c \in Client, Select(c)
  PROVE  IInv'
<1>1. /\ UNCHANGED <<table, landed, query>>
      /\ \A b \in Client : b # c => stage'[b] = stage[b] /\ answer'[b] = answer[b]
      /\ answer'[c] = Rows(table, query[c])
      /\ Shapes'
  BY DEF Select, store, IInv, Shapes, Stages
<1>2. RowsPromised'
  BY <1>1 DEF IInv, RowsPromised, RowPromised
<1>3. ASSUME NEW b \in Client, b # c PROVE KeptApart(b)' /\ Typed(b)'
  BY <1>1, <1>3 DEF IInv, KeptApart, Typed, Answering, Urns
<1>4. KeptApart(c)'
  <2> SUFFICES ASSUME query[c].op = "search", Scoped(query[c]), NEW u \in Urns(c)'
               PROVE  \E w \in landed : \E m \in Promise :
                        m.req = w[1] /\ u \in Ends(m.key) /\ m.attrs.ns = query[c].ns
    BY <1>1 DEF KeptApart, Answering
  <2>1. u \in Hits(table, query[c])
    <3>1. First(query[c].limit, Hits(table, query[c])) \subseteq Hits(table, query[c])
      BY DEF First
    <3>2. answer'[c] = {[urn |-> v, kind |-> Kind(v)] :
                          v \in First(query[c].limit, Hits(table, query[c]))}
      BY <1>1 DEF Rows
    <3>3. PICK e \in answer'[c] : u = e.urn
      BY DEF Urns
    <3>4. PICK v \in First(query[c].limit, Hits(table, query[c])) : e = [urn |-> v, kind |-> Kind(v)]
      BY <3>2, <3>3
    <3> QED
      BY <3>1, <3>3, <3>4
  <2>2. PICK k \in Live(table) : InScope(table, k, query[c]) /\ u \in Ends(k)
    BY <2>1 DEF Hits, Ends
  <2>3. table[k].ns = query[c].ns /\ table[k] # NoRow /\ k \in Key
    BY <2>2 DEF InScope, Live
  <2> QED
    BY <2>2, <2>3 DEF IInv, RowsPromised, RowPromised
<1>5. Typed(c)'
  <2>1. First(query[c].limit, Hits(table, query[c])) \subseteq Node
    BY DEF First, Hits, Live, Node, Ends
  <2>2. ASSUME query[c].op = "search"
        PROVE  Rows(table, query[c]) \subseteq [urn : Node, kind : {"job", "dataset"}]
    BY <2>1, <2>2 DEF Rows, Kind
  <2>3. Namespaces(table) \subseteq {m.attrs.ns : m \in Promise}
    BY DEF Namespaces, Live, IInv, RowsPromised, RowPromised
  <2>4. ASSUME query[c].op = "namespaces"
        PROVE  Rows(table, query[c]) \subseteq {m.attrs.ns : m \in Promise}
    BY <2>3, <2>4 DEF Rows, First
  <2> QED
    BY <1>1, <2>2, <2>4 DEF Typed, Answering
<1> QED
  BY <1>1, <1>2, <1>3, <1>4, <1>5 DEF IInv

LEMMA StepIInv == IInv /\ [Next]_vars => IInv'
<1> SUFFICES ASSUME IInv, [Next]_vars PROVE IInv'
  OBVIOUS
<1>1. ASSUME NEW c \in Client, NEW q \in Query, Ask(c, q) PROVE IInv'
  <2>1. /\ UNCHANGED <<table, landed>> /\ Shapes'
        /\ \A b \in Client : b # c => stage'[b] = stage[b] /\ query'[b] = query[b] /\ answer'[b] = answer[b]
        /\ stage'[c] # "answered"
    BY <1>1 DEF Ask, store, IInv, Shapes, Stages
  <2> QED
    BY <2>1 DEF IInv, RowsPromised, RowPromised, KeptApart, Typed, Answering, Urns
<1>2. ASSUME NEW c \in Client, Fail(c) PROVE IInv'
  <2>1. /\ UNCHANGED <<table, landed, query, answer>> /\ Shapes'
        /\ \A b \in Client : b # c => stage'[b] = stage[b]
        /\ stage'[c] # "answered"
    BY <1>2 DEF Fail, store, IInv, Shapes, Stages
  <2> QED
    BY <2>1 DEF IInv, RowsPromised, RowPromised, KeptApart, Typed, Answering, Urns
<1>3. CASE UNCHANGED vars
  <2>1. RowsPromised'
    BY <1>3 DEF vars, store, IInv, RowsPromised, RowPromised
  <2>2. ASSUME NEW c \in Client PROVE KeptApart(c)' /\ Typed(c)'
    BY <1>3 DEF vars, store, request, IInv, KeptApart, Typed, Answering, Urns
  <2>3. Shapes'
    BY <1>3 DEF vars, request, IInv, Shapes
  <2> QED
    BY <2>1, <2>2, <2>3 DEF IInv
<1> QED
  BY <1>1, <1>2, <1>3, WriteKeepsIInv, SelectKeepsIInv DEF Next

-----------------------------------------------------------------------------

\* Answers are of the nodes and the namespaces that calls have named
\* (Discovery.tla, DiscoveryTypeOK; routes_ui.py:20-32, 65-80).
THEOREM TypeCorrect == Spec => []DiscoveryTypeOK
<1>1. IInv => DiscoveryTypeOK
  BY DEF IInv, Shapes, Typed, DiscoveryTypeOK
<1> QED
  BY <1>1, InitIInv, StepIInv, PTL DEF Spec

\* A scoped search shows only what its namespace has mentioned
\* (routes_ui.py:51-62).
THEOREM TenantsStayApart == Spec => []ScopeKeepsTenantsApart
<1>1. IInv => ScopeKeepsTenantsApart
  BY DEF IInv, KeptApart, ScopeKeepsTenantsApart
<1> QED
  BY <1>1, InitIInv, StepIInv, PTL DEF Spec

-----------------------------------------------------------------------------
\* The store: what has landed shows, and so does what was acknowledged.

Attempt == Request \X Version

StoreInv ==
  /\ table \in [Key -> Row \cup {NoRow}]
  /\ \A w \in landed \cup acked : \A m \in Promise : m.req = w[1] => table[m.key] # NoRow
  /\ asked = [c \in Client |-> asked[c]]
  /\ \A c \in Client : asked[c] \subseteq acked

\* A promised write is a row.
LEMMA ReplacedIsRow ==
  ASSUME NEW w \in Attempt, NEW k, Writers!Mentions(w, k), NEW old \in Row \cup {NoRow}
  PROVE  Writers!Replaced(Writers!Promised(w, k), old, w) \in Row
<1>1. PICK m \in Promise : Writers!Promised(w, k) = m.attrs
  BY DEF Writers!Mentions, Writers!Promised
<1>2. old # NoRow => old.created \in Attempt /\ old.updated \in Attempt
  BY DEF Row, Attempt
<1> QED BY <1>1, <1>2 DEF Writers!Replaced, Row, Attempt

\* A write shows all that its call promised, and takes no row away.
LEMMA LandShows ==
  ASSUME StoreInv, NEW w \in Attempt, Writers!Land(w)
  PROVE  /\ table' \in [Key -> Row \cup {NoRow}]
         /\ \A k \in Key : Writers!Mentions(w, k) \/ table[k] # NoRow => table'[k] # NoRow
<1>1. ASSUME NEW k \in Key
      PROVE  /\ table'[k] \in Row \cup {NoRow}
             /\ Writers!Mentions(w, k) \/ table[k] # NoRow => table'[k] # NoRow
  <2>1. table[k] \in Row \cup {NoRow}
    BY DEF StoreInv
  <2>2. table'[k] = IF Writers!Mentions(w, k)
                      THEN Writers!Replaced(Writers!Promised(w, k), table[k], w)
                      ELSE table[k]
    BY DEF Writers!Land
  <2>3. CASE Writers!Mentions(w, k)
    BY <2>1, <2>2, <2>3, ReplacedIsRow, DiscoveryAssumption
  <2>4. CASE ~ Writers!Mentions(w, k)
    BY <2>1, <2>2, <2>4
  <2> QED BY <2>3, <2>4
<1>2. table' = [k \in Key |-> table'[k]]
  BY DEF Writers!Land
<1> QED BY <1>1, <1>2

\* Every step keeps what has landed in the table.
LEMMA StoreStep == StoreInv /\ [Next]_vars => StoreInv'
<1> SUFFICES ASSUME StoreInv, [Next]_vars PROVE StoreInv'
  OBVIOUS
<1>0. \A m \in Promise : m.key \in Key
  BY PromisesAssumption DEF Writers!PromisesCoherent
<1>1. ASSUME NEW w \in Attempt, Writers!Land(w), UNCHANGED request PROVE StoreInv'
  <2>1. landed' = landed \cup {w} /\ acked' = acked /\ asked' = asked
    BY <1>1 DEF Writers!Land, request
  <2>2. ASSUME NEW v \in landed' \cup acked', NEW m \in Promise, m.req = v[1]
        PROVE  table'[m.key] # NoRow
    <3>1. CASE v = w
      <4>1. Writers!Mentions(w, m.key)
        BY <2>2, <3>1 DEF Writers!Mentions
      <4> QED BY <1>0, <1>1, <4>1, LandShows
    <3>2. CASE v # w
      <4>1. table[m.key] # NoRow
        BY <2>1, <2>2, <3>2 DEF StoreInv
      <4> QED BY <1>0, <1>1, <4>1, LandShows
    <3> QED BY <3>1, <3>2
  <2> QED BY <1>1, <2>1, <2>2, LandShows DEF StoreInv
<1>2. ASSUME NEW w \in Attempt, Writers!Acknowledge(w), UNCHANGED request PROVE StoreInv'
  <2>1. table' = table /\ landed' = landed /\ acked' = acked \cup {w} /\ asked' = asked
    BY <1>2 DEF Writers!Acknowledge, request
  <2>2. ASSUME NEW v \in landed' \cup acked', NEW m \in Promise, m.req = v[1]
        PROVE  table'[m.key] # NoRow
    <3>1. CASE v \in landed \cup acked
      BY <2>1, <2>2, <3>1 DEF StoreInv
    <3>2. CASE v \notin landed \cup acked
      <4>1. v = w /\ \A k \in Key : ~ Writers!Mentions(w, k)
        BY <1>2, <2>1, <3>2 DEF Writers!Acknowledge
      <4> QED BY <1>0, <2>2, <4>1 DEF Writers!Mentions
    <3> QED BY <3>1, <3>2
  <2> QED BY <2>1, <2>2 DEF StoreInv
<1>3. ASSUME NEW c \in Client, NEW q \in Query, Ask(c, q) PROVE StoreInv'
  BY <1>3 DEF Ask, store, StoreInv
<1>4. ASSUME NEW c \in Client, Select(c) \/ Fail(c) PROVE StoreInv'
  BY <1>4 DEF Select, Fail, store, StoreInv
<1>5. CASE UNCHANGED vars
  BY <1>5 DEF vars, store, request, StoreInv
<1> QED BY <1>1, <1>2, <1>3, <1>4, <1>5 DEF Next, Write, Writers!Next, Attempt

\* Everything that holds of the store and of the requests.
Whole == IInv /\ StoreInv

LEMMA WholeHolds == Spec => []Whole
<1>1. Init => Whole
  <2>1. Init => StoreInv
    BY DEF Init, Writers!Init, StoreInv
  <2> QED BY <2>1, InitIInv DEF Whole
<1>2. Whole /\ [Next]_vars => Whole'
  BY StepIInv, StoreStep DEF Whole
<1> QED BY <1>1, <1>2, PTL DEF Spec

-----------------------------------------------------------------------------
\* What landed is found in its namespace, whoever has taken over its rows.

LEMMA FoundInNamespace ==
  ASSUME Writers!JobsTellNamespace, IInv, StoreInv,
         NEW w \in landed \cup acked, NEW m \in Promise, m.req = w[1], NEW u \in Ends(m.key)
  PROVE  \E k \in Live(table) : u \in Ends(k) /\ table[k].ns = m.attrs.ns
<1> DEFINE j == m.attrs.job
<1>1. ASSUME NEW n \in Promise, n.req = w[1],
             \/ n.key[3] = "consumes" /\ n.key[2] = j
             \/ n.key[3] = "produces" /\ n.key[1] = j
      PROVE  n.key \in Live(table) /\ table[n.key].ns = m.attrs.ns
  <2>1. n.key \in Key /\ table[n.key] # NoRow
    BY <1>1, PromisesAssumption DEF Writers!PromisesCoherent, StoreInv
  <2>2. PICK x \in Promise : x.key = n.key /\ table[n.key].ns = x.attrs.ns
    BY <2>1 DEF IInv, RowsPromised, RowPromised
  <2>3. x.attrs.job = j
    BY <1>1, <2>2, PromisesAssumption DEF Writers!PromisesCoherent
  <2> QED BY <2>1, <2>2, <2>3 DEF Live, Writers!JobsTellNamespace
<1>2. CASE m.key[3] = "consumes" \/ m.key[3] = "produces"
  BY <1>1, <1>2, PromisesAssumption DEF Writers!PromisesCoherent
<1>3. CASE m.key[3] = "derives_from"
  <2>1. PICK c \in Promise, p \in Promise :
          /\ c.req = m.req /\ c.key = <<m.key[1], j, "consumes">>
          /\ p.req = m.req /\ p.key = <<j, m.key[2], "produces">>
    BY <1>3, PromisesAssumption DEF Writers!PromisesCoherent
  <2>2. /\ c.key[1] = m.key[1] /\ c.key[2] = j /\ c.key[3] = "consumes"
        /\ p.key[1] = j /\ p.key[2] = m.key[2] /\ p.key[3] = "produces"
    BY <2>1
  <2>3. /\ c.key \in Live(table) /\ table[c.key].ns = m.attrs.ns
        /\ p.key \in Live(table) /\ table[p.key].ns = m.attrs.ns
    BY <1>1, <2>1, <2>2
  <2> QED BY <2>2, <2>3 DEF Ends
<1> QED BY <1>2, <1>3, PromisesAssumption DEF Writers!PromisesCoherent

\* Outside a Select a request that is answered was answered before, as it is.
LEMMA AnswersStay ==
  ASSUME Shapes, asked = [b \in Client |-> asked[b]], [Next]_vars,
         NEW c \in Client, ~ Select(c), stage'[c] = "answered"
  PROVE  stage[c] = "answered" /\ query'[c] = query[c] /\ answer'[c] = answer[c]
         /\ asked'[c] = asked[c]
<1>1. ASSUME NEW b \in Client, NEW q \in Query, Ask(b, q)
      PROVE  /\ stage[c] = "answered" /\ query'[c] = query[c]
             /\ answer'[c] = answer[c] /\ asked'[c] = asked[c]
  <2>1. stage'[b] # "answered"
    BY <1>1 DEF Ask, Shapes
  <2> QED BY <1>1, <2>1 DEF Ask, Shapes
<1>2. ASSUME NEW b \in Client, Fail(b)
      PROVE  /\ stage[c] = "answered" /\ query'[c] = query[c]
             /\ answer'[c] = answer[c] /\ asked'[c] = asked[c]
  BY <1>2 DEF Fail, Shapes
<1>3. ASSUME NEW b \in Client, Select(b)
      PROVE  /\ stage[c] = "answered" /\ query'[c] = query[c]
             /\ answer'[c] = answer[c] /\ asked'[c] = asked[c]
  BY <1>3 DEF Select, Shapes
<1>4. CASE Write \/ UNCHANGED vars
  BY <1>4 DEF Write, vars, request
<1> QED BY <1>1, <1>2, <1>3, <1>4 DEF Next

\* What a client sees listed is the namespace of a call that has landed.
Listed(c) ==
  Answering(c, "namespaces") =>
    \A n \in answer[c] : \E w \in landed : \E m \in Promise : m.req = w[1] /\ m.attrs.ns = n

LEMMA ListedStep ==
  ASSUME Whole, [Next]_vars, NEW c \in Client, Listed(c)
  PROVE  Listed(c)'
<1> SUFFICES ASSUME stage'[c] = "answered", query'[c].op = "namespaces", NEW n \in answer'[c]
             PROVE  \E w \in landed' : \E m \in Promise : m.req = w[1] /\ m.attrs.ns = n
  BY DEF Listed, Answering
<1>1. landed \subseteq landed'
  BY DEF Next, Write, Writers!Next, Writers!Land, Writers!Acknowledge, Ask, Select, Fail, store, vars
<1>2. CASE Select(c)
  <2>1. query' = query /\ answer'[c] = Rows(table, query[c])
    BY <1>2 DEF Select, Whole, IInv, Shapes
  <2>2. n \in Namespaces(table)
    BY <2>1 DEF Rows, First
  <2>3. PICK k \in Key : table[k] # NoRow /\ n = table[k].ns
    BY <2>2 DEF Namespaces, Live
  <2> QED BY <1>1, <2>3 DEF Whole, IInv, RowsPromised, RowPromised
<1>3. CASE ~ Select(c)
  <2>1. stage[c] = "answered" /\ query'[c] = query[c] /\ answer'[c] = answer[c]
    BY <1>3, AnswersStay DEF Whole, IInv, StoreInv
  <2> QED BY <1>1, <2>1 DEF Listed, Answering
<1> QED BY <1>2, <1>3

\* The namespaces of the dropdown never become dead ends, for any calls, where a
\* job's URN tells its namespace (Discovery.tla, ListedNamespaceSearchable).
THEOREM ListedStaysSearchable ==
  ASSUME Writers!JobsTellNamespace
  PROVE  Spec => []ListedNamespaceSearchable
<1>1. Init => \A c \in Client : Listed(c)
  BY DEF Init, Listed, Answering
<1>2. Whole /\ (\A c \in Client : Listed(c)) /\ [Next]_vars => (\A c \in Client : Listed(c))'
  BY ListedStep
<1>3. Whole /\ (\A c \in Client : Listed(c)) => ListedNamespaceSearchable
  <2> SUFFICES ASSUME Whole, NEW c \in Client, Listed(c), Answering(c, "namespaces"),
                      NEW n \in answer[c]
               PROVE  \E k \in Live(table) : table[k].ns = n
    BY DEF ListedNamespaceSearchable
  <2>1. PICK w \in landed, m \in Promise : m.req = w[1] /\ m.attrs.ns = n
    BY DEF Listed
  <2>2. m.key[1] \in Ends(m.key)
    BY DEF Ends
  <2> QED BY <2>1, <2>2, FoundInNamespace, Writers!JobsTellNamespace DEF Whole
<1> QED
  BY <1>1, <1>2, <1>3, WholeHolds, PTL DEF Spec

-----------------------------------------------------------------------------
\* LIMIT.

\* Every nonempty set of naturals has a least element.
LEMMA LeastNatural ==
  ASSUME NEW T \in SUBSET Nat, T # {}
  PROVE  \E n \in T : \A m \in T : n <= m
<1> DEFINE R == {ss \in Nat \X Nat : ss[1] < ss[2]}
<1>1. IsWellFoundedOn(R, Nat)
  BY NatLessThanWellFounded DEF OpToRel
<1>2. PICK n \in T : \A m \in T : ~ (<<m, n>> \in R)
  <2> HIDE DEF R
  <2> QED BY <1>1, WFMin
<1>3. \A m \in T : m \in Nat /\ n \in Nat /\ ~ (m < n)
  BY <1>2
<1> QED BY <1>3

\* How many nodes of S come before x in the order of the answers.
Position(S, x) == Cardinality({y \in S : Rank[y] < Rank[x]})

LEMMA PositionTyped ==
  ASSUME NEW S \in SUBSET Node, NEW x \in Node
  PROVE  /\ Position(S, x) \in Nat
         /\ IsFiniteSet(S) /\ IsFiniteSet({y \in S : Rank[y] < Rank[x]})
<1> DEFINE P == {y \in S : Rank[y] < Rank[x]}
<1>1. IsFiniteSet(S) /\ P \subseteq S
  BY DiscoveryAssumption, FS_Subset
<1> HIDE DEF P
<1>2. IsFiniteSet(P) /\ Cardinality(P) \in Nat
  BY <1>1, FS_Subset, FS_CardinalityType
<1> QED BY <1>1, <1>2 DEF Position, P

\* Of two nodes the one that comes first has the smaller position.
LEMMA PositionsOrdered ==
  ASSUME NEW S \in SUBSET Node, NEW x \in S, NEW y \in S, Rank[x] < Rank[y]
  PROVE  Position(S, x) < Position(S, y)
<1> DEFINE P(z) == {v \in S : Rank[v] < Rank[z]}
<1>1. \A z \in S : Rank[z] \in Nat
  BY DiscoveryAssumption
<1>2. P(x) \cup {x} \subseteq P(y) /\ x \notin P(x)
  BY <1>1
<1>3. IsFiniteSet(P(x)) /\ IsFiniteSet(P(y))
  BY PositionTyped
<1>4. Position(S, x) = Cardinality(P(x)) /\ Position(S, y) = Cardinality(P(y))
  BY DEF Position
<1> HIDE DEF P
<1>5. IsFiniteSet(P(x) \cup {x}) /\ Cardinality(P(x) \cup {x}) = Cardinality(P(x)) + 1
  BY <1>2, <1>3, FS_AddElement
<1>6. Cardinality(P(x) \cup {x}) <= Cardinality(P(y))
  BY <1>2, <1>3, FS_Subset
<1>7. Cardinality(P(x)) \in Nat /\ Cardinality(P(y)) \in Nat
  BY <1>3, FS_CardinalityType
<1> QED BY <1>4, <1>5, <1>6, <1>7

\* When a node is cut off, the answer is full of nodes that come before it.
LEMMA CutOff ==
  ASSUME NEW n \in Nat \ {0}, NEW S \in SUBSET Node, NEW u \in S \ First(n, S)
  PROVE  /\ Cardinality(First(n, S)) = n
         /\ \A v \in First(n, S) : Rank[v] < Rank[u]
<1> DEFINE F == First(n, S)
           C == S \ F
<1>0. /\ \A x \in S : Rank[x] \in Nat /\ Position(S, x) \in Nat
      /\ \A x, y \in S : Rank[x] = Rank[y] => x = y
  BY PositionTyped, DiscoveryAssumption
<1>1. F = {x \in S : Position(S, x) < n}
  BY DEF First, Position
<1>2. ASSUME NEW v \in F, NEW t \in C PROVE Rank[v] < Rank[t]
  <2> SUFFICES ASSUME ~ (Rank[v] < Rank[t]) PROVE FALSE
    OBVIOUS
  <2>1. v \in S /\ t \in S /\ v # t
    BY <1>1
  <2>2. Rank[t] < Rank[v]
    <3> HIDE DEF F, C
    <3> QED BY <1>0, <2>1
  <2>3. Position(S, t) < Position(S, v)
    BY <2>1, <2>2, PositionsOrdered
  <2>4. Position(S, v) < n /\ ~ (Position(S, t) < n)
    BY <1>1
  <2> HIDE DEF F, C
  <2> QED BY <1>0, <2>1, <2>3, <2>4
<1>3. PICK t \in C : \A x \in C : Rank[t] <= Rank[x]
  <2> DEFINE T == {Rank[x] : x \in C}
  <2>1. T \in SUBSET Nat /\ T # {}
    BY <1>0
  <2> HIDE DEF T
  <2>2. PICK r \in T : \A m \in T : r <= m
    BY <2>1, LeastNatural
  <2> QED BY <2>2 DEF T
<1>4. {y \in S : Rank[y] < Rank[t]} = F
  <2>1. ASSUME NEW y \in S, Rank[y] < Rank[t] PROVE y \in F
    <3>1. y \in C => Rank[t] <= Rank[y]
      BY <1>3
    <3>2. Rank[y] \in Nat /\ Rank[t] \in Nat
      BY <1>0
    <3>3. y \notin C
      <4> HIDE DEF C, F
      <4> QED BY <2>1, <3>1, <3>2
    <3> QED BY <2>1, <3>3
  <2>2. \A y \in F : y \in S /\ Rank[y] < Rank[t]
    BY <1>1, <1>2
  <2> HIDE DEF F
  <2> QED BY <2>1, <2>2
<1>5. Position(S, t) = Cardinality(F) /\ t \in S /\ ~ (Position(S, t) < n)
  BY <1>1, <1>4 DEF Position
<1>6. Cardinality(F) \in Nat /\ IsFiniteSet(F)
  BY <1>0, <1>1, <1>4, <1>5, PositionTyped
<1>7. Cardinality(F) <= n
  <2>1. CASE F = {}
    BY <2>1, FS_EmptySet
  <2>2. CASE F # {}
    <3> DEFINE T == {Cardinality(F) - Position(S, x) : x \in F}
    <3>1. ASSUME NEW x \in F
          PROVE  Position(S, x) \in Nat /\ Position(S, x) < Cardinality(F) /\ Position(S, x) < n
      <4>1. Rank[x] < Rank[t] /\ x \in S
        BY <1>1, <1>2
      <4>2. Position(S, x) < Position(S, t)
        BY <1>5, <4>1, PositionsOrdered
      <4> QED BY <1>0, <1>1, <1>5, <4>1, <4>2
    <3>2. PICK g \in F : \A x \in F : Position(S, x) <= Position(S, g)
      <4> HIDE DEF F
      <4>1. T \in SUBSET Nat /\ T # {}
        BY <1>6, <2>2, <3>1
      <4> HIDE DEF T
      <4>2. PICK r \in T : \A m \in T : r <= m
        BY <4>1, LeastNatural
      <4>3. PICK g \in F : r = Cardinality(F) - Position(S, g)
        BY DEF T
      <4>4. ASSUME NEW x \in F PROVE Position(S, x) <= Position(S, g)
        <5>1. Cardinality(F) - Position(S, x) \in T
          BY DEF T
        <5>2. Cardinality(F) - Position(S, g) <= Cardinality(F) - Position(S, x)
          BY <4>2, <4>3, <5>1
        <5> QED BY <1>6, <3>1, <5>2
      <4> QED BY <4>4
    <3>3. {y \in S : Rank[y] < Rank[g]} = F \ {g}
      <4>1. g \in S
        BY <1>1
      <4>2. ASSUME NEW y \in S, Rank[y] < Rank[g] PROVE y \in F \ {g}
        <5>1. Position(S, y) < Position(S, g)
          BY <4>1, <4>2, PositionsOrdered
        <5>2. Position(S, y) < n
          BY <1>0, <3>1, <4>1, <5>1
        <5> QED BY <1>0, <1>1, <4>1, <4>2, <5>2
      <4>3. ASSUME NEW y \in F, y # g PROVE y \in S /\ Rank[y] < Rank[g]
        <5>1. y \in S /\ Rank[y] # Rank[g]
          BY <1>0, <1>1, <4>1, <4>3
        <5>2. CASE Rank[g] < Rank[y]
          <6>1. Position(S, g) < Position(S, y)
            BY <4>1, <5>1, <5>2, PositionsOrdered
          <6>2. Position(S, y) <= Position(S, g)
            BY <3>2
          <6> QED BY <1>0, <4>1, <5>1, <6>1, <6>2
        <5> QED BY <1>0, <4>1, <5>1, <5>2
      <4> HIDE DEF F
      <4> QED BY <4>2, <4>3
    <3>4. Position(S, g) = Cardinality(F) - 1
      <4> HIDE DEF F
      <4>1. Cardinality(F \ {g}) = Cardinality(F) - 1
        BY <1>6, FS_RemoveElement
      <4> QED BY <3>3, <4>1 DEF Position
    <3> HIDE DEF F
    <3> QED BY <1>6, <3>1, <3>4
  <2> QED BY <2>1, <2>2
<1>8. Cardinality(F) = n
  <2> HIDE DEF F
  <2> QED BY <1>5, <1>6, <1>7
<1>9. \A v \in F : Rank[v] < Rank[u]
  BY <1>2
<1> QED BY <1>8, <1>9

-----------------------------------------------------------------------------
\* LIKE.

\* The word s contains the word x.
Contains(s, x) == \E i \in 0..(Len(s) - Len(x)) : \A j \in DOMAIN x : s[i + j] = x[j]

\* What LOWER and the pattern make of a word.
LEMMA LoweredWord ==
  ASSUME NEW s \in Seq(DOMAIN LowerCase)
  PROVE  /\ Len(Lowered(s)) = Len(s) /\ DOMAIN Lowered(s) = 1..Len(s) /\ Len(s) \in Nat
         /\ \A i \in 1..Len(s) : Lowered(s)[i] = LowerCase[s[i]]
<1> DEFINE C == {LowerCase[x] : x \in DOMAIN LowerCase}
<1>1. Lowered(s) = [i \in 1..Len(s) |-> LowerCase[s[i]]] /\ Len(s) \in Nat
  BY DEF Lowered
<1>2. Lowered(s) \in [1..Len(s) -> C]
  BY <1>1
<1>3. Lowered(s) \in Seq(C)
  <2> HIDE DEF C
  <2> QED BY <1>1, <1>2
<1> HIDE DEF C
<1>4. DOMAIN Lowered(s) = 1..Len(Lowered(s)) /\ Len(Lowered(s)) \in Nat
  BY <1>3
<1>5. Len(Lowered(s)) = Len(s)
  BY <1>1, <1>4
<1> QED BY <1>1, <1>5

LEMMA PatternWord ==
  ASSUME NEW x \in Seq(DOMAIN LowerCase)
  PROVE  /\ Len(Pattern(x)) = Len(x) + 2 /\ DOMAIN Pattern(x) = 1..(Len(x) + 2)
         /\ Pattern(x)[1] = "%" /\ Pattern(x)[Len(x) + 2] = "%"
         /\ \A i \in 2..(Len(x) + 1) : Pattern(x)[i] = Lowered(x)[i - 1]
<1> DEFINE C == {LowerCase[c] : c \in DOMAIN LowerCase} \cup {"%"}
           L == Lowered(x)
           n == Len(x)
<1>1. L \in Seq(C) /\ Len(L) = n /\ n \in Nat
  <2>1. L \in [1..n -> C] /\ n \in Nat /\ Len(L) = n
    BY LoweredWord DEF Lowered
  <2> HIDE DEF C, L, n
  <2> QED BY <2>1
<1>2. <<"%">> \in Seq(C) /\ Len(<<"%">>) = 1
  OBVIOUS
<1>3. Pattern(x) = (<<"%">> \o L) \o <<"%">>
  BY DEF Pattern
<1> HIDE DEF C, L, n
<1>4. /\ <<"%">> \o L \in Seq(C) /\ Len(<<"%">> \o L) = n + 1
      /\ (<<"%">> \o L)[1] = "%"
      /\ \A i \in 2..(n + 1) : (<<"%">> \o L)[i] = L[i - 1]
  BY <1>1, <1>2
<1>5. /\ Pattern(x) \in Seq(C) /\ Len(Pattern(x)) = n + 2
      /\ \A i \in 1..(n + 1) : Pattern(x)[i] = (<<"%">> \o L)[i]
      /\ Pattern(x)[n + 2] = "%"
  BY <1>1, <1>2, <1>3, <1>4
<1> QED BY <1>1, <1>4, <1>5 DEF L, n

\* p is the pattern of the word x.
PatternFor(p, x, n) ==
  /\ Len(x) = n /\ DOMAIN x = 1..n
  /\ Len(p) = n + 2 /\ DOMAIN p = 1..(n + 2)
  /\ p[1] = "%" /\ p[n + 2] = "%"
  /\ \A i \in 2..(n + 1) : p[i] = x[i - 1]

\* A text that contains the word matches its pattern, wildcards or not.
LEMMA ContainsMatches ==
  ASSUME NEW n \in Nat, NEW m \in Nat, NEW s, NEW x, NEW p, Len(s) = m, PatternFor(p, x, n),
         Contains(s, x)
  PROVE  Like(s, p)
<1>1. PICK i \in 0..(m - n) : \A j \in 1..n : s[i + j] = x[j]
  BY DEF Contains, PatternFor
<1> DEFINE at == [k \in 1..(n + 3) |-> IF k = 1 THEN 0 ELSE IF k = n + 3 THEN m ELSE i + k - 2]
<1>2. at \in [1..(n + 3) -> 0..m]
  OBVIOUS
<1>3. at[1] = 0 /\ at[n + 3] = m
  OBVIOUS
<1>4. ASSUME NEW k \in 1..(n + 2)
      PROVE  IF p[k] = "%"
               THEN at[k] <= at[k + 1]
               ELSE at[k + 1] = at[k] + 1 /\ p[k] \in {"_", s[at[k + 1]]}
  <2>1. CASE k = 1
    <3>1. at[1] = 0 /\ at[2] \in 0..m
      BY <1>2
    <3> QED BY <2>1, <3>1 DEF PatternFor
  <2>2. CASE k = n + 2
    <3>1. at[n + 2] \in 0..m /\ at[n + 3] = m
      BY <1>2, <1>3
    <3> QED BY <2>2, <3>1 DEF PatternFor
  <2>3. CASE k \in 2..(n + 1)
    <3>1. at[k] = i + k - 2 /\ at[k + 1] = i + k - 1
      BY <2>3
    <3>2. p[k] = x[k - 1] /\ k - 1 \in 1..n /\ i + (k - 1) = i + k - 1
      BY <2>3 DEF PatternFor
    <3>3. p[k] = s[at[k + 1]]
      BY <1>1, <3>1, <3>2
    <3> HIDE DEF at
    <3> QED BY <2>3, <3>1, <3>3
  <2>4. k = 1 \/ k = n + 2 \/ k \in 2..(n + 1)
    OBVIOUS
  <2> HIDE DEF at
  <2> QED BY <2>1, <2>2, <2>3, <2>4, Zenon
<1> HIDE DEF at
<1>5. Len(p) + 1 = n + 3 /\ DOMAIN p = 1..(n + 2)
  BY DEF PatternFor
<1> QED BY <1>2, <1>3, <1>4, <1>5 DEF Like

\* None of the first n characters is a wildcard.
Plain(x, n) == \A i \in 1..n : x[i] \notin {"%", "_"}

\* And a text that matches contains the word, if that has no wildcard.
LEMMA MatchesContain ==
  ASSUME NEW n \in Nat, NEW m \in Nat, NEW s, NEW x, NEW p, Len(s) = m, PatternFor(p, x, n),
         Plain(x, n), Like(s, p)
  PROVE  Contains(s, x)
<1>1. Len(p) + 1 = n + 3 /\ DOMAIN p = 1..(n + 2)
  BY DEF PatternFor
<1>2. PICK at \in [1..(n + 3) -> 0..m] :
        \A i \in 1..(n + 2) :
          IF p[i] = "%"
            THEN at[i] <= at[i + 1]
            ELSE at[i + 1] = at[i] + 1 /\ p[i] \in {"_", s[at[i + 1]]}
  BY <1>1 DEF Like
<1>3. ASSUME NEW k \in 1..n
      PROVE  at[k + 2] = at[k + 1] + 1 /\ x[k] = s[at[k + 2]]
  <2>1. k + 1 \in 2..(n + 1) /\ (k + 1) - 1 = k /\ k + 1 \in 1..(n + 2) /\ (k + 1) + 1 = k + 2
    OBVIOUS
  <2>2. p[k + 1] = x[k]
    BY <2>1 DEF PatternFor
  <2>3. x[k] # "%" /\ x[k] # "_"
    BY DEF Plain
  <2> QED BY <1>2, <2>1, <2>2, <2>3
<1>4. PICK i \in 0..m : at[2] = i
  <2>1. 2 \in 1..(n + 3)
    OBVIOUS
  <2> QED BY <1>2, <2>1
<1> DEFINE wrong == {j \in 0..n : at[j + 2] # i + j}
<1>5. wrong = {}
  <2> SUFFICES ASSUME wrong # {} PROVE FALSE
    OBVIOUS
  <2>1. PICK j \in wrong : \A k \in wrong : j <= k
    <3>1. wrong \in SUBSET Nat
      OBVIOUS
    <3> HIDE DEF wrong
    <3> QED BY <3>1, LeastNatural
  <2>2. j \in 1..n /\ j - 1 \in 0..n
    BY <1>4
  <2>3. j - 1 \notin wrong
    <3>1. ~ (j <= j - 1)
      BY <2>2
    <3> HIDE DEF wrong
    <3> QED BY <2>1, <3>1
  <2>4. at[(j - 1) + 2] = i + (j - 1) /\ (j - 1) + 2 = j + 1
    BY <2>2, <2>3
  <2>5. at[j + 2] = at[j + 1] + 1
    BY <1>3, <2>2
  <2>6. at[j + 2] = i + j
    BY <1>4, <2>2, <2>4, <2>5
  <2> QED BY <2>1, <2>6
<1>6. \A j \in 0..n : at[j + 2] = i + j
  BY <1>5
<1> HIDE DEF wrong
<1>7. i \in 0..(m - n)
  <2>1. n \in 0..n /\ n + 2 \in 1..(n + 3)
    OBVIOUS
  <2>2. at[n + 2] = i + n /\ at[n + 2] \in 0..m
    BY <1>2, <1>6, <2>1
  <2> QED BY <1>4, <2>2
<1>8. ASSUME NEW j \in 1..n PROVE s[i + j] = x[j]
  <2>1. at[j + 2] = i + j
    BY <1>6
  <2> QED BY <1>3, <2>1
<1> QED BY <1>7, <1>8 DEF Contains, PatternFor

\* For texts without wildcards LIKE finds the substrings, and for all texts no
\* less than those.
LEMMA LikeIsContains ==
  ASSUME NEW x \in Seq(DOMAIN LowerCase), NEW s \in Seq(DOMAIN LowerCase)
  PROVE  /\ Contains(Lowered(s), Lowered(x)) => Like(Lowered(s), Pattern(x))
         /\ Like(Lowered(s), Pattern(x))
            /\ Plain(Lowered(x), Len(x)) => Contains(Lowered(s), Lowered(x))
<1>1. PatternFor(Pattern(x), Lowered(x), Len(x))
  BY LoweredWord, PatternWord DEF PatternFor
<1>2. Len(Lowered(s)) \in Nat /\ Len(x) \in Nat
      /\ \A i \in 1..Len(x) : Lowered(x)[i] = LowerCase[x[i]]
  BY LoweredWord
<1> QED BY <1>1, <1>2, ContainsMatches, MatchesContain

-----------------------------------------------------------------------------
\* What a search finds.

\* The results of a search are the first of its hits.
LEMMA SearchResults ==
  ASSUME Shapes, NEW c \in Client, Select(c), query[c].op = "search"
  PROVE  /\ Urns(c)' = First(query[c].limit, Hits(table, query[c]))
         /\ query'[c] = query[c]
<1> DEFINE F == First(query[c].limit, Hits(table, query[c]))
<1>1. query' = query /\ answer'[c] = {[urn |-> u, kind |-> Kind(u)] : u \in F}
  BY DEF Select, Rows, Shapes
<1> HIDE DEF F
<1>2. {e.urn : e \in answer'[c]} = F
  <2> DEFINE result(u) == [urn |-> u, kind |-> Kind(u)]
  <2>1. \A u \in F : result(u).urn = u /\ result(u) \in answer'[c]
    BY <1>1
  <2>2. \A e \in answer'[c] : \E u \in F : e = result(u)
    BY <1>1
  <2> HIDE DEF result
  <2> QED BY <2>1, <2>2
<1> QED BY <1>1, <1>2 DEF F, Urns

LEMMA HitsAreNodes == \A t, q : Hits(t, q) \subseteq Node
BY DEF Hits, Live, Node, Ends

\* Outside a Select the results stay what they are.
LEMMA ResultsStay ==
  ASSUME Whole, [Next]_vars, NEW c \in Client, ~ Select(c), stage'[c] = "answered"
  PROVE  /\ stage[c] = "answered" /\ query'[c] = query[c] /\ asked'[c] = asked[c]
         /\ Urns(c)' = Urns(c)
BY AnswersStay DEF Whole, IInv, StoreInv, Urns

\* No word that is asked for has a wildcard in it.
NoWildcards == \A q \in Query : \A i \in DOMAIN q.text : LowerCase[q.text[i]] \notin {"%", "_"}

\* What SubstringOnly says of one client.
HasWords(c) == Answering(c, "search") => \A u \in Urns(c) : HasWord(u, c)

LEMMA HasWordsStep ==
  ASSUME NoWildcards, Whole, [Next]_vars, NEW c \in Client, HasWords(c)
  PROVE  HasWords(c)'
<1> SUFFICES ASSUME stage'[c] = "answered", query'[c].op = "search", NEW u \in Urns(c)'
             PROVE  HasWord(u, c)'
  BY DEF HasWords, Answering
<1>1. CASE Select(c)
  <2> DEFINE q == query[c]
  <2>1. q \in Query /\ query'[c] = q
    BY <1>1 DEF Select, Whole, IInv, Shapes
  <2>2. u \in First(q.limit, Hits(table, q))
    BY <1>1, <2>1, SearchResults DEF Whole, IInv
  <2>3. u \in Matches[q.text] /\ u \in Node /\ q.text \in Text
    BY <2>1, <2>2, HitsAreNodes DEF First, Hits, Text
  <2>4. Like(Lowered(Spelling[u]), Pattern(q.text))
    BY <2>3 DEF Matches
  <2>5. /\ q.text \in Seq(DOMAIN LowerCase) /\ Spelling[u] \in Seq(DOMAIN LowerCase)
        /\ Plain(Lowered(q.text), Len(q.text))
    <3>1. q.text \in Seq(DOMAIN LowerCase) /\ Spelling[u] \in Seq(DOMAIN LowerCase)
      BY <2>3, DiscoveryAssumption
    <3>2. DOMAIN q.text = 1..Len(q.text)
      BY <3>1
    <3> QED BY <2>1, <3>1, <3>2 DEF NoWildcards, Plain, Lowered
  <2>6. Contains(Lowered(Spelling[u]), Lowered(q.text))
    BY <2>4, <2>5, LikeIsContains
  <2> QED BY <2>1, <2>6 DEF HasWord, Contains
<1>2. CASE ~ Select(c)
  <2>1. Answering(c, "search") /\ u \in Urns(c) /\ query'[c] = query[c]
    BY <1>2, ResultsStay DEF Answering
  <2> QED BY <2>1 DEF HasWords, HasWord
<1> QED BY <1>1, <1>2

\* Every result has the word in it, for any calls and any words without a
\* wildcard (Discovery.tla, SubstringOnly; routes_ui.py:44).
THEOREM ResultsHaveTheWord ==
  ASSUME NoWildcards
  PROVE  Spec => []SubstringOnly
<1>1. Init => \A c \in Client : HasWords(c)
  BY DEF Init, HasWords, Answering
<1>2. Whole /\ (\A c \in Client : HasWords(c)) /\ [Next]_vars => (\A c \in Client : HasWords(c))'
  BY HasWordsStep, NoWildcards
<1>3. (\A c \in Client : HasWords(c)) => SubstringOnly
  BY DEF HasWords, SubstringOnly
<1> QED
  BY <1>1, <1>2, <1>3, WholeHolds, PTL DEF Spec

\* What AckedNodesFindable says of one client.
Findable(c) ==
  Answering(c, "search") =>
    \A w \in asked[c] : \A m \in Promise : \A u \in Ends(m.key) :
      m.req = w[1] /\ HasWord(u, c) /\ (Scoped(query[c]) => m.attrs.ns = query[c].ns) =>
        \/ u \in Urns(c)
        \/ /\ Cardinality(Urns(c)) = query[c].limit
           /\ \A v \in Urns(c) : Rank[v] < Rank[u]

\* Only requests that were accepted are served.
Served == \A c \in Client : stage[c] = "querying" => Accepted(query[c])

LEMMA ServedStep ==
  ASSUME Shapes, Served, [Next]_vars
  PROVE  Served'
<1>1. ASSUME NEW b \in Client, NEW q \in Query, Ask(b, q) PROVE Served'
  BY <1>1 DEF Ask, Shapes, Served
<1>2. ASSUME NEW b \in Client, Select(b) \/ Fail(b) PROVE Served'
  BY <1>2 DEF Select, Fail, Shapes, Served
<1>3. CASE Write \/ UNCHANGED vars
  BY <1>3 DEF Write, vars, request, Served
<1> QED BY <1>1, <1>2, <1>3 DEF Next

\* A node that is to be found is among the hits.
LEMMA FindableHit ==
  ASSUME Writers!JobsTellNamespace, Whole, NEW q \in Query,
         NEW w \in landed \cup acked, NEW m \in Promise, m.req = w[1], NEW u \in Ends(m.key),
         Scoped(q) => m.attrs.ns = q.ns,
         Contains(Lowered(Spelling[u]), Lowered(q.text))
  PROVE  u \in Hits(table, q)
<1>1. u \in Node
  BY PromisesAssumption DEF Writers!PromisesCoherent, Node
<1>2. q.text \in Text
  BY DEF Text
<1>3. q.text \in Seq(DOMAIN LowerCase) /\ Spelling[u] \in Seq(DOMAIN LowerCase)
  BY <1>1, <1>2, DiscoveryAssumption
<1>4. u \in Matches[q.text]
  BY <1>1, <1>2, <1>3, LikeIsContains DEF Matches
<1>5. PICK k \in Live(table) : u \in Ends(k) /\ table[k].ns = m.attrs.ns
  BY FoundInNamespace DEF Whole
<1>6. InScope(table, k, q)
  BY <1>5 DEF InScope
<1> QED BY <1>4, <1>5, <1>6 DEF Hits, Ends

LEMMA FindableStep ==
  ASSUME Writers!JobsTellNamespace, Whole, Served, [Next]_vars, NEW c \in Client, Findable(c)
  PROVE  Findable(c)'
<1> SUFFICES ASSUME stage'[c] = "answered", query'[c].op = "search",
                    NEW w \in asked'[c], NEW m \in Promise, NEW u \in Ends(m.key),
                    m.req = w[1], HasWord(u, c)', Scoped(query'[c]) => m.attrs.ns = query'[c].ns
             PROVE  \/ u \in Urns(c)'
                    \/ /\ Cardinality(Urns(c)') = query'[c].limit
                       /\ \A v \in Urns(c)' : Rank[v] < Rank[u]
  BY DEF Findable, Answering
<1>1. CASE Select(c)
  <2> DEFINE q == query[c]
             S == Hits(table, q)
  <2>1. q \in Query /\ query'[c] = q /\ w \in acked /\ stage[c] = "querying"
    BY <1>1 DEF Select, Whole, IInv, Shapes, StoreInv
  <2>2. Urns(c)' = First(q.limit, S)
    BY <1>1, <2>1, SearchResults DEF Whole, IInv
  <2>3. Contains(Lowered(Spelling[u]), Lowered(q.text))
    BY <2>1 DEF HasWord, Contains
  <2>4. u \in S
    BY <2>1, <2>3, FindableHit
  <2>5. S \subseteq Node /\ q.limit \in Nat \ {0}
    <3>1. q.limit \in 1..MaxResults
      BY <2>1 DEF Served, Accepted
    <3> QED BY <3>1, HitsAreNodes, DiscoveryAssumption
  <2> HIDE DEF S
  <2>6. u \in First(q.limit, S) \/ u \in S \ First(q.limit, S)
    BY <2>4
  <2> QED BY <2>1, <2>2, <2>5, <2>6, CutOff
<1>2. CASE ~ Select(c)
  <2>1. Answering(c, "search") /\ Urns(c)' = Urns(c) /\ query'[c] = query[c] /\ asked'[c] = asked[c]
    BY <1>2, ResultsStay DEF Answering
  <2>2. HasWord(u, c)
    BY <2>1 DEF HasWord
  <2> QED BY <2>1, <2>2 DEF Findable
<1> QED BY <1>1, <1>2

\* What was acknowledged before a search is found by it, or the answer is full
\* of what comes before: for any calls, words, scopes and limits, where a job's
\* URN tells its namespace (Discovery.tla, AckedNodesFindable).
THEOREM AcknowledgedIsFound ==
  ASSUME Writers!JobsTellNamespace
  PROVE  Spec => []AckedNodesFindable
<1> DEFINE FInv == Served /\ \A c \in Client : Findable(c)
<1>1. Init => FInv
  BY DEF Init, Findable, Answering, Served
<1>2. Whole /\ FInv /\ [Next]_vars => FInv'
  BY FindableStep, ServedStep, Writers!JobsTellNamespace DEF Whole, IInv
<1>3. FInv => AckedNodesFindable
  BY DEF Findable, AckedNodesFindable
<1> QED
  BY <1>1, <1>2, <1>3, WholeHolds, PTL DEF Spec

=============================================================================
