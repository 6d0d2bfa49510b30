----------------------------- MODULE IngestProofs -----------------------------
(***************************************************************************)
(* The safety of the write path, for every set of calls, every chunk size  *)
(* and every number of attempts and faults.  It rests on what the          *)
(* translation of arbitrary events guarantees upsert_edges: every key      *)
(* built survives deduplication, once, at the first event that mentions    *)
(* it, and what is sent for it is what was promised.                       *)
(***************************************************************************)
EXTENDS Ingest, FiniteSetTheorems, WellFoundedInduction, TLAPS

\* Every nonempty set of naturals has a least element.
LEMMA LeastNatural ==
  ASSUME NEW T \in SUBSET Nat, T # {}
  PROVE  \E n \in T : \A m \in T : n <= m
<1> DEFINE R == {ss \in Nat \X Nat : ss[1] < ss[2]}
<1>1. IsWellFoundedOn(R, Nat)
  BY NatLessThanWellFounded DEF OpToRel
<1>2. \E n \in T : \A m \in T : ~ (<<m, n>> \in R)
  <2> HIDE DEF R
  <2> QED BY <1>1, WFMin
<1>3. PICK n \in T : \A m \in T : ~ (<<m, n>> \in R)
  BY <1>2
<1>4. \A m \in T : n <= m
  <2>1. TAKE m \in T
  <2>2. m \in Nat /\ n \in Nat
    OBVIOUS
  <2>3. <<m, n>> \notin R
    BY <1>3
  <2>4. ~ (m < n)
    BY <2>2, <2>3
  <2> QED BY <2>2, <2>4
<1> QED BY <1>4

\* Every nonempty set of places has a first one.
LEMMA FirstPlace ==
  ASSUME NEW S \in SUBSET Place, S # {}
  PROVE  \E p \in S : \A q \in S : ~ Before(q, p)
<1> DEFINE A1 == {p[1] : p \in S}
<1>1. PICK n1 \in A1 : \A m \in A1 : n1 <= m
  <2>1. A1 \in SUBSET Nat /\ A1 # {}
    BY DEF Place
  <2> QED BY <2>1, LeastNatural
<1> DEFINE S1 == {p \in S : p[1] = n1}
           A2 == {p[2] : p \in S1}
<1>2. PICK n2 \in A2 : \A m \in A2 : n2 <= m
  <2>1. A2 \in SUBSET Nat /\ A2 # {}
    BY DEF Place
  <2> QED BY <2>1, LeastNatural
<1> DEFINE S2 == {p \in S1 : p[2] = n2}
           A3 == {p[3] : p \in S2}
<1>3. PICK n3 \in A3 : \A m \in A3 : n3 <= m
  <2>1. A3 \in SUBSET Nat /\ A3 # {}
    BY DEF Place
  <2> QED BY <2>1, LeastNatural
<1> DEFINE S3 == {p \in S2 : p[3] = n3}
           A4 == {p[4] : p \in S3}
<1>4. PICK n4 \in A4 : \A m \in A4 : n4 <= m
  <2>1. A4 \in SUBSET Nat /\ A4 # {}
    BY DEF Place
  <2> QED BY <2>1, LeastNatural
<1>5. PICK p \in S3 : p[4] = n4
  BY <1>4
<1>6. ASSUME NEW q \in S, Before(q, p) PROVE FALSE
  <2>0. /\ q[1] \in Nat /\ q[2] \in Nat /\ q[3] \in Nat /\ q[4] \in Nat
        /\ n1 \in Nat /\ n2 \in Nat /\ n3 \in Nat /\ n4 \in Nat
        /\ p[1] = n1 /\ p[2] = n2 /\ p[3] = n3 /\ p[4] = n4
    BY <1>5 DEF Place
  <2>1. n1 <= q[1]
    BY <1>1
  <2>2. q[1] = n1 => n2 <= q[2]
    BY <1>2
  <2>3. q[1] = n1 /\ q[2] = n2 => n3 <= q[3]
    BY <1>3
  <2>4. q[1] = n1 /\ q[2] = n2 /\ q[3] = n3 => n4 <= q[4]
    BY <1>4
  <2> QED BY <1>6, <2>0, <2>1, <2>2, <2>3, <2>4 DEF Before
<1> QED BY <1>5, <1>6

-----------------------------------------------------------------------------

\* _dedupe loses no key of an event.
LEMMA EventKeysSurvive ==
  ASSUME NEW events, Positions(events) \subseteq Place,
         NEW p \in Positions(events)
  PROVE  \E q \in FirstInEvent(events) :
           q[1] = p[1] /\ KeyAt(events, q) = KeyAt(events, p)
<1> DEFINE S == {q \in Positions(events) :
                   q[1] = p[1] /\ KeyAt(events, q) = KeyAt(events, p)}
<1>1. PICK q \in S : \A r \in S : ~ Before(r, q)
  <2>1. S \in SUBSET Place /\ S # {}
    OBVIOUS
  <2> HIDE DEF S
  <2> QED BY <2>1, FirstPlace
<1>2. q \in FirstInEvent(events)
  BY <1>1 DEF FirstInEvent
<1> QED BY <1>1, <1>2

\* ingest_batch loses no key either, and keeps the edge of the first event.
LEMMA BatchKeysSurvive ==
  ASSUME NEW events, Positions(events) \subseteq Place,
         NEW p \in Positions(events)
  PROVE  \E q \in FirstInBatch(events) : KeyAt(events, q) = KeyAt(events, p)
<1> DEFINE S == {q \in FirstInEvent(events) : KeyAt(events, q) = KeyAt(events, p)}
<1>1. PICK q \in S : \A r \in S : ~ Before(r, q)
  <2>1. S \in SUBSET Place /\ S # {}
    BY EventKeysSurvive DEF FirstInEvent
  <2> HIDE DEF S
  <2> QED BY <2>1, FirstPlace
<1>2. q \in FirstInBatch(events)
  BY <1>1 DEF FirstInBatch
<1> QED BY <1>1, <1>2

\* An edge that survives in a batch is of the first event to mention its key.
LEMMA BatchKeepsFirstEvent ==
  ASSUME NEW events, Positions(events) \subseteq Place,
         NEW q \in FirstInBatch(events),
         NEW p \in Positions(events), KeyAt(events, p) = KeyAt(events, q)
  PROVE  q[1] <= p[1]
<1>1. PICK r \in FirstInEvent(events) :
        r[1] = p[1] /\ KeyAt(events, r) = KeyAt(events, p)
  BY EventKeysSurvive
<1>2. ~ Before(r, q)
  BY <1>1 DEF FirstInBatch
<1>3. r[1] \in Nat /\ q[1] \in Nat
  BY <1>1 DEF FirstInBatch, FirstInEvent, Place
<1> QED BY <1>1, <1>2, <1>3 DEF Before

\* Of two different places one comes first.
LEMMA PlacesOrdered ==
  ASSUME NEW events, Positions(events) \subseteq Place,
         NEW p \in Positions(events), NEW q \in Positions(events), p # q
  PROVE  Before(p, q) \/ Before(q, p)
<1>1. p \in Nat \X Nat \X Nat \X Nat /\ q \in Nat \X Nat \X Nat \X Nat
  BY DEF Place
<1>2. p = <<p[1], p[2], p[3], p[4]>> /\ q = <<q[1], q[2], q[3], q[4]>>
  BY <1>1
<1>3. p[1] # q[1] \/ p[2] # q[2] \/ p[3] # q[3] \/ p[4] # q[4]
  BY <1>2
<1> QED BY <1>1, <1>3 DEF Before

-----------------------------------------------------------------------------
\* The edges of the calls.

\* The shape of an edge that was built.
LEMMA BuiltShape ==
  ASSUME NEW l \in Built
  PROVE  /\ l.req \in Request
         /\ l.at \in Positions(Call[l.req].events)
         /\ l.edge = EdgeAt(Call[l.req].events, l.at)
         /\ l = [req |-> l.req, at |-> l.at, edge |-> l.edge]
         /\ l.edge \in Edges
         /\ KeyOf(l.edge) \in Keys
BY DEF Built, Edges, Keys

\* Every place of a call has its edge.
LEMMA PlaceIsBuilt ==
  ASSUME NEW r \in Request, NEW p \in Positions(Call[r].events)
  PROVE  [req |-> r, at |-> p, edge |-> EdgeAt(Call[r].events, p)] \in Built
<1> DEFINE L == {[req |-> r, at |-> q, edge |-> EdgeAt(Call[r].events, q)] :
                   q \in Positions(Call[r].events)}
<1>1. L \subseteq Built
  BY DEF Built
<1>2. [req |-> r, at |-> p, edge |-> EdgeAt(Call[r].events, p)] \in L
  OBVIOUS
<1> QED BY <1>1, <1>2

\* The surviving edges are among those built, at the places that deduplication
\* keeps.
LEMMA KeptShape ==
  ASSUME NEW l \in Kept
  PROVE  /\ l \in Built
         /\ Call[l.req].kind = "batch" => l.at \in FirstInBatch(Call[l.req].events)
         /\ Call[l.req].kind # "batch" => l.at \in FirstInEvent(Call[l.req].events)
BY DEF Kept

\* Every key a call builds is among those it sends.
THEOREM KeysSurvive ==
  ASSUME NEW a \in Attempt, NEW l \in BuiltBy(a)
  PROVE  \E m \in Outgoing(a) : KeyOf(m.edge) = KeyOf(l.edge)
<1> DEFINE r == a[1]
           events == Call[r].events
<1>1. r \in Request /\ l \in Built /\ l.req = r
  BY DEF Attempt, BuiltBy
<1>2. Positions(events) \subseteq Place /\ l.at \in Positions(events)
  BY <1>1, BuiltShape, CallsAssumption
<1>3. PICK q \in Positions(events) :
        /\ Call[r].kind = "batch" => q \in FirstInBatch(events)
        /\ Call[r].kind # "batch" => q \in FirstInEvent(events)
        /\ KeyAt(events, q) = KeyAt(events, l.at)
  <2>1. CASE Call[r].kind = "batch"
    BY <1>2, <2>1, BatchKeysSurvive DEF FirstInBatch, FirstInEvent
  <2>2. CASE Call[r].kind # "batch"
    BY <1>2, <2>2, EventKeysSurvive DEF FirstInEvent
  <2> QED BY <2>1, <2>2
<1> DEFINE m == [req |-> r, at |-> q, edge |-> EdgeAt(events, q)]
<1>4. m \in Built
  BY <1>1, PlaceIsBuilt
<1>5. m \in Outgoing(a)
  BY <1>1, <1>3, <1>4 DEF Kept, Outgoing
<1>6. KeyOf(m.edge) = KeyOf(l.edge)
  BY <1>1, <1>3, BuiltShape DEF KeyAt
<1> QED BY <1>5, <1>6

\* No two edges a call sends have the same key.
LEMMA OutgoingKeysDiffer ==
  ASSUME NEW a \in Attempt, NEW l \in Outgoing(a), NEW m \in Outgoing(a),
         KeyOf(l.edge) = KeyOf(m.edge)
  PROVE  l = m
<1> DEFINE r == a[1]
           events == Call[r].events
<1>1. /\ r \in Request /\ l \in Kept /\ m \in Kept
      /\ l.req = r /\ m.req = r
  BY DEF Attempt, Outgoing
<1>2. /\ l.at \in Positions(events) /\ m.at \in Positions(events)
      /\ KeyAt(events, l.at) = KeyAt(events, m.at)
      /\ Positions(events) \subseteq Place
  BY <1>1, KeptShape, BuiltShape, CallsAssumption DEF KeyAt
<1>3. l.at = m.at
  <2> SUFFICES ASSUME l.at # m.at PROVE FALSE
    OBVIOUS
  <2>1. Before(l.at, m.at) \/ Before(m.at, l.at)
    BY <1>2, PlacesOrdered
  <2>2. CASE Call[r].kind = "batch"
    BY <1>1, <1>2, <2>1, <2>2, KeptShape DEF FirstInBatch
  <2>3. CASE Call[r].kind = "single"
    <3>1. l.at[1] = 1 /\ m.at[1] = 1
      <4>1. DOMAIN events = {1}
        BY <1>1, <2>3, CallsAssumption
      <4>2. \A p \in Positions(events) : \E i \in DOMAIN events : p \in EventPositions(events, i)
        BY DEF Positions
      <4>3. \A p \in EventPositions(events, 1) : p[1] = 1
        BY DEF EventPositions
      <4> QED BY <1>2, <4>1, <4>2, <4>3
    <3> QED BY <1>1, <1>2, <2>1, <2>3, <3>1, KeptShape DEF FirstInEvent
  <2> QED BY <1>1, <2>2, <2>3, CallsAssumption
<1> QED BY <1>1, <1>3, KeptShape, BuiltShape

\* A call sends finitely many edges.
LEMMA OutgoingFinite ==
  ASSUME NEW a \in Attempt
  PROVE  IsFiniteSet(Outgoing(a))
<1> DEFINE r == a[1]
           P == Positions(Call[r].events)
           line(p) == [req |-> r, at |-> p, edge |-> EdgeAt(Call[r].events, p)]
           L == {line(p) : p \in P}
<1>1. r \in Request /\ IsFiniteSet(P)
  BY CallsAssumption DEF Attempt
<1>2. IsFiniteSet(L)
  <2> DEFINE f == [p \in P |-> line(p)]
  <2>1. f \in Surjection(P, L)
    BY DEF Surjection
  <2> HIDE DEF f, L, P
  <2> QED BY <1>1, <2>1, FS_Surjection
<1>3. Outgoing(a) \subseteq L
  BY KeptShape, BuiltShape DEF Outgoing
<1> QED BY <1>2, <1>3, FS_Subset

\* With every derives_from edge, translate() builds the consumes edge of its
\* input and the produces edge of its output.
LEMMA DerivationBuilt ==
  ASSUME NEW a \in Attempt, NEW l \in BuiltBy(a), l.edge.type = "derives_from"
  PROVE  /\ \E c \in BuiltBy(a) : KeyOf(c.edge) = <<l.edge.src, l.edge.job, "consumes">>
         /\ \E d \in BuiltBy(a) : KeyOf(d.edge) = <<l.edge.job, l.edge.dst, "produces">>
<1> DEFINE r == a[1]
           events == Call[r].events
           i == l.at[1]
           x == l.at[3]
           y == l.at[4]
<1>1. /\ r \in Request /\ l \in Built /\ l.req = r
      /\ l.at \in Positions(events)
      /\ l.edge = EdgeAt(events, l.at)
  BY BuiltShape DEF Attempt, BuiltBy
<1>2. PICK j \in DOMAIN events : l.at \in EventPositions(events, j)
  BY <1>1 DEF Positions
<1>3. l.at[2] = DerivesFrom
  <2>1. l.at[2] \in {Consumes, Produces, DerivesFrom}
    BY <1>2 DEF EventPositions
  <2>2. l.edge.type = EdgeType[l.at[2]]
    BY <1>1 DEF EdgeAt
  <2> QED BY <2>1, <2>2 DEF EdgeType, Consumes, Produces, DerivesFrom
<1>4. /\ l.at = <<i, DerivesFrom, x, y>>
      /\ i \in DOMAIN events
      /\ x \in DOMAIN InUrns(events[i]) /\ y \in DOMAIN OutUrns(events[i])
  BY <1>2, <1>3 DEF EventPositions, Consumes, Produces, DerivesFrom
<1> DEFINE c == [req |-> r, at |-> <<i, Consumes, x, 1>>,
                 edge |-> EdgeAt(events, <<i, Consumes, x, 1>>)]
           d == [req |-> r, at |-> <<i, Produces, 1, y>>,
                 edge |-> EdgeAt(events, <<i, Produces, 1, y>>)]
<1>5. c \in BuiltBy(a)
  <2>1. <<i, Consumes, x, 1>> \in Positions(events)
    BY <1>4 DEF Positions, EventPositions
  <2>2. c \in Built
    BY <1>1, <2>1, PlaceIsBuilt
  <2> QED BY <2>2 DEF BuiltBy
<1>6. d \in BuiltBy(a)
  <2>1. <<i, Produces, 1, y>> \in Positions(events)
    BY <1>4 DEF Positions, EventPositions
  <2>2. d \in Built
    BY <1>1, <2>1, PlaceIsBuilt
  <2> QED BY <2>2 DEF BuiltBy
<1>7. l.edge.src = InUrns(events[i])[x] /\ l.edge.dst = OutUrns(events[i])[y]
      /\ l.edge.job = JobUrn(events[i])
  BY <1>1, <1>4 DEF EdgeAt, Consumes, Produces, DerivesFrom
<1>8. KeyOf(c.edge) = <<l.edge.src, l.edge.job, "consumes">>
  BY <1>7 DEF KeyOf, EdgeAt, EdgeType, Consumes, Produces
<1>9. KeyOf(d.edge) = <<l.edge.job, l.edge.dst, "produces">>
  BY <1>7 DEF KeyOf, EdgeAt, EdgeType, Consumes, Produces
<1> QED BY <1>5, <1>6, <1>8, <1>9

-----------------------------------------------------------------------------
\* The promises of a call, read off its events, are what it sends.

\* The keys an event mentions are those of its places.
LEMMA EventKeys ==
  ASSUME NEW events, NEW i, NEW k
  PROVE  k \in KeysOfEvent(events[i]) <=>
           \E p \in EventPositions(events, i) : KeyAt(events, p) = k
<1> DEFINE e == events[i]
           ins  == InUrns(e)
           outs == OutUrns(e)
<1>1. /\ \A x \in DOMAIN ins :
           KeyAt(events, <<i, Consumes, x, 1>>) = <<ins[x], JobUrn(e), "consumes">>
      /\ \A y \in DOMAIN outs :
           KeyAt(events, <<i, Produces, 1, y>>) = <<JobUrn(e), outs[y], "produces">>
      /\ \A x \in DOMAIN ins, y \in DOMAIN outs :
           KeyAt(events, <<i, DerivesFrom, x, y>>) = <<ins[x], outs[y], "derives_from">>
  BY DEF KeyAt, KeyOf, EdgeAt, EdgeType, Consumes, Produces, DerivesFrom
<1>2. ASSUME k \in KeysOfEvent(e)
      PROVE  \E p \in EventPositions(events, i) : KeyAt(events, p) = k
  <2>1. \/ \E x \in DOMAIN ins : k = <<ins[x], JobUrn(e), "consumes">>
        \/ \E y \in DOMAIN outs : k = <<JobUrn(e), outs[y], "produces">>
        \/ \E x \in DOMAIN ins, y \in DOMAIN outs : k = <<ins[x], outs[y], "derives_from">>
    BY <1>2 DEF KeysOfEvent
  <2>2. /\ \A x \in DOMAIN ins : <<i, Consumes, x, 1>> \in EventPositions(events, i)
        /\ \A y \in DOMAIN outs : <<i, Produces, 1, y>> \in EventPositions(events, i)
        /\ \A x \in DOMAIN ins, y \in DOMAIN outs :
             <<i, DerivesFrom, x, y>> \in EventPositions(events, i)
    BY DEF EventPositions
  <2> HIDE DEF ins, outs, e
  <2> QED BY <1>1, <2>1, <2>2
<1>3. ASSUME NEW p \in EventPositions(events, i), KeyAt(events, p) = k
      PROVE  k \in KeysOfEvent(e)
  <2>1. \/ \E x \in DOMAIN ins : p = <<i, Consumes, x, 1>>
        \/ \E y \in DOMAIN outs : p = <<i, Produces, 1, y>>
        \/ \E x \in DOMAIN ins, y \in DOMAIN outs : p = <<i, DerivesFrom, x, y>>
    BY DEF EventPositions
  <2>2. \/ \E x \in DOMAIN ins : k = <<ins[x], JobUrn(e), "consumes">>
        \/ \E y \in DOMAIN outs : k = <<JobUrn(e), outs[y], "produces">>
        \/ \E x \in DOMAIN ins, y \in DOMAIN outs : k = <<ins[x], outs[y], "derives_from">>
    <3> HIDE DEF ins, outs, e
    <3> QED BY <1>1, <1>3, <2>1
  <2> QED BY <2>2 DEF KeysOfEvent
<1> QED BY <1>2, <1>3

\* A call sends an edge for every key its events mention, and no other.
LEMMA MentionedIsSent ==
  ASSUME NEW a \in Attempt, NEW k
  PROVE  Mentioning(a[1], k) # {} <=> \E l \in Outgoing(a) : KeyOf(l.edge) = k
<1> DEFINE r == a[1]
           events == Call[r].events
<1>1. r \in Request
  BY DEF Attempt
<1>2. ASSUME NEW i \in Mentioning(r, k)
      PROVE  \E l \in Outgoing(a) : KeyOf(l.edge) = k
  <2>1. PICK p \in EventPositions(events, i) : KeyAt(events, p) = k
    BY EventKeys DEF Mentioning
  <2>2. p \in Positions(events)
    BY DEF Positions, Mentioning
  <2> DEFINE l == [req |-> r, at |-> p, edge |-> EdgeAt(events, p)]
  <2>3. l \in BuiltBy(a)
    BY <1>1, <2>2, PlaceIsBuilt DEF BuiltBy
  <2>4. KeyOf(l.edge) = k
    BY <2>1 DEF KeyAt
  <2> QED BY <2>3, <2>4, KeysSurvive
<1>3. ASSUME NEW l \in Outgoing(a), KeyOf(l.edge) = k
      PROVE  Mentioning(r, k) # {}
  <2>1. l \in Built /\ l.req = r
    BY KeptShape DEF Outgoing
  <2>2. l.at \in Positions(events) /\ KeyAt(events, l.at) = k
    BY <1>3, <2>1, BuiltShape DEF KeyAt
  <2>3. PICK i \in DOMAIN events : l.at \in EventPositions(events, i)
    BY <2>2 DEF Positions
  <2> QED BY <2>2, <2>3, EventKeys DEF Mentioning
<1> QED BY <1>2, <1>3

\* The edge that survives deduplication is one of the first event that mentions
\* its key.
LEMMA FirstMention ==
  ASSUME NEW a \in Attempt, NEW l \in Outgoing(a)
  PROVE  /\ l.at[1] \in Mentioning(a[1], KeyOf(l.edge))
         /\ Mentioning(a[1], KeyOf(l.edge)) \subseteq Nat
         /\ \A j \in Mentioning(a[1], KeyOf(l.edge)) : l.at[1] <= j
<1> DEFINE r == a[1]
           events == Call[r].events
           k == KeyOf(l.edge)
<1>1. r \in Request /\ l \in Kept /\ l \in Built /\ l.req = r
  BY KeptShape DEF Attempt, Outgoing
<1>2. /\ Positions(events) \subseteq Place
      /\ l.at \in Positions(events) /\ KeyAt(events, l.at) = k
  BY <1>1, BuiltShape, CallsAssumption DEF KeyAt
<1>3. \A i : \A p \in EventPositions(events, i) : p[1] = i
  BY DEF EventPositions
<1>4. l.at[1] \in Mentioning(r, k)
  <2>1. PICK i \in DOMAIN events : l.at \in EventPositions(events, i)
    BY <1>2 DEF Positions
  <2> QED BY <1>2, <1>3, <2>1, EventKeys DEF Mentioning
<1>5. ASSUME NEW j \in Mentioning(r, k)
      PROVE  j \in Nat /\ l.at[1] <= j
  <2>1. PICK p \in EventPositions(events, j) : KeyAt(events, p) = k
    BY EventKeys DEF Mentioning
  <2>2. j \in DOMAIN events /\ p \in Positions(events) /\ p[1] = j
    BY <1>3 DEF Positions, Mentioning
  <2>3. j \in Nat /\ l.at[1] \in Nat
    BY <1>2, <2>2 DEF Place
  <2>4. CASE Call[r].kind = "batch"
    <3>1. l.at \in FirstInBatch(events)
      BY <1>1, <2>4, KeptShape
    <3> QED BY <1>2, <2>1, <2>2, <2>3, <3>1, BatchKeepsFirstEvent
  <2>5. CASE Call[r].kind = "single"
    <3>1. DOMAIN events = {1}
      BY <1>1, <2>5, CallsAssumption
    <3>2. l.at[1] = 1 /\ j = 1
      BY <1>4, <2>2, <3>1 DEF Mentioning
    <3> QED BY <3>2
  <2> QED BY <1>1, <2>3, <2>4, <2>5, CallsAssumption
<1> QED BY <1>4, <1>5

\* What is promised of a key is what the edge that is sent for it says.
LEMMA PromiseKept ==
  ASSUME NEW a \in Attempt, NEW l \in Outgoing(a)
  PROVE  PromiseTo(a[1], KeyOf(l.edge)).attrs =
           [job |-> l.edge.job, run |-> l.edge.run, ns |-> l.edge.ns]
<1> DEFINE r == a[1]
           events == Call[r].events
           M == Mentioning(r, KeyOf(l.edge))
           first == CHOOSE i \in M : \A j \in M : i <= j
<1>1. l.at[1] \in M /\ M \subseteq Nat /\ \A j \in M : l.at[1] <= j
  BY FirstMention
<1>2. first = l.at[1]
  <2> HIDE DEF M
  <2>1. first \in M /\ \A j \in M : first <= j
    BY <1>1
  <2>2. first \in Nat /\ l.at[1] \in Nat /\ first <= l.at[1] /\ l.at[1] <= first
    BY <1>1, <2>1
  <2> HIDE DEF first
  <2> QED BY <2>2
<1>3. l.edge = EdgeAt(events, l.at)
  BY KeptShape, BuiltShape DEF Outgoing
<1>4. PromiseTo(r, KeyOf(l.edge)).attrs = AttrsOf(events[first])
  BY DEF PromiseTo
<1>5. AttrsOf(events[l.at[1]]) = [job |-> l.edge.job, run |-> l.edge.run, ns |-> l.edge.ns]
  BY <1>3 DEF AttrsOf, EdgeAt
<1> HIDE DEF first
<1> QED BY <1>2, <1>4, <1>5

-----------------------------------------------------------------------------
\* Rows, edges and tables.

\* A row that an insert leaves is a row of the table, and never "no row".
LEMMA UpsertedIsRow ==
  ASSUME NEW a \in Attempt, NEW l \in Built, NEW old \in Row \cup {NoRow}
  PROVE  Upserted(l.edge, old, a) \in Row /\ Upserted(l.edge, old, a) # NoRow
<1>1. l.edge \in Edges
  BY BuiltShape
<1>2. old # NoRow => old.created \in Attempt /\ old.updated \in Attempt
  BY DEF Row
<1>3. Upserted(l.edge, old, a) \in Row
  BY <1>1, <1>2 DEF Upserted, Row
<1> QED BY <1>3, CallsAssumption

\* What a call sends was built, under a key of the table.
LEMMA OutgoingBuilt ==
  ASSUME NEW a \in Attempt, NEW l \in Outgoing(a)
  PROVE  l \in Kept /\ l \in Built /\ l \in BuiltBy(a) /\ KeyOf(l.edge) \in Keys
BY KeptShape, BuiltShape DEF Outgoing, BuiltBy

\* A statement is a part of the edges that were still to be sent.
LEMMA ChunkOfTodo ==
  ASSUME NEW ls
  PROVE  NextChunk(ls) \subseteq ls
BY DEF NextChunk

\* A transaction that has written nothing is a table too.
LEMMA UnwrittenIsTable == Unwritten \in Table
BY DEF Unwritten, Table

-----------------------------------------------------------------------------
\* Types.

\* The service starts well typed.
LEMMA TypeInit == Init => TypeOK
<1> SUFFICES ASSUME Init PROVE TypeOK
  OBVIOUS
<1>1. MaxFaults \in Nat
  BY IngestAssumption
<1> QED BY <1>1, UnwrittenIsTable DEF Init, TypeOK, Stages, Answers

\* Every step keeps the types; that a row comes from an edge of the call needs
\* the state of its transaction.
LEMMA TypeStep ==
  ASSUME TypeOK, TransactionsConsistent, [Next]_vars
  PROVE  TypeOK'
<1>0. UNCHANGED vars => TypeOK'
  BY DEF vars, TypeOK
<1>1. ASSUME NEW a \in Attempt, Post(a) PROVE TypeOK'
  BY <1>1 DEF Post, TypeOK, Stages
<1>2. ASSUME NEW a \in Attempt, Reject(a) PROVE TypeOK'
  BY <1>2 DEF Reject, Answer, TypeOK, Stages, Answers
<1>3. ASSUME NEW a \in Attempt, FailToTranslate(a) PROVE TypeOK'
  BY <1>3 DEF FailToTranslate, Answer, TypeOK, Stages, Answers
<1>4. ASSUME NEW a \in Attempt, NothingToWrite(a) PROVE TypeOK'
  BY <1>4 DEF NothingToWrite, Answer, TypeOK, Stages, Answers
<1>5. ASSUME NEW a \in Attempt, Translate(a) PROVE TypeOK'
  <2>1. Outgoing(a) \in SUBSET Kept
    BY DEF Outgoing
  <2> QED BY <1>5, <2>1 DEF Translate, TypeOK, Stages
<1>6. ASSUME NEW a \in Attempt, Send(a) PROVE TypeOK'
  <2> DEFINE chunk == NextChunk(todo[a])
  <2>1. chunk \subseteq todo[a] /\ todo[a] \subseteq Outgoing(a) /\ todo[a] \in SUBSET Kept
    BY <1>6, ChunkOfTodo DEF Send, TransactionsConsistent, TransactionConsistent, TypeOK
  <2>2. Cardinality(chunk) \in Nat
    BY <2>1, OutgoingFinite, FS_Subset, FS_CardinalityType
  <2>3. CASE Ambiguous(chunk)
    BY <1>6, <2>3, UnwrittenIsTable
    DEF Send, Answer, Rollback, TypeOK, Stages, Answers
  <2>4. CASE ~Ambiguous(chunk)
    <3> HIDE DEF chunk
    <3>1. /\ stmt' = [stmt EXCEPT ![a] = chunk]
          /\ todo' = [todo EXCEPT ![a] = @ \ chunk]
          /\ written' = [written EXCEPT ![a] = @ + Cardinality(chunk)]
          /\ UNCHANGED <<table, pc, answer, pend, faults, landed>>
      BY <1>6, <2>4 DEF Send, chunk
    <3>2. written' \in [Attempt -> Nat]
      BY <2>2, <3>1 DEF TypeOK
    <3>3. stmt' \in [Attempt -> SUBSET Kept] /\ todo' \in [Attempt -> SUBSET Kept]
      BY <2>1, <3>1 DEF TypeOK
    <3> QED BY <3>1, <3>2, <3>3 DEF TypeOK
  <2> QED BY <2>3, <2>4
<1>7. ASSUME NEW a \in Attempt, InsertRow(a) PROVE TypeOK'
  <2>1. PICK l \in stmt[a] :
          /\ pend' = [pend EXCEPT ![a][KeyOf(l.edge)] =
                        Upserted(l.edge, IF Holds(a, KeyOf(l.edge)) THEN @
                                         ELSE table[KeyOf(l.edge)], a)]
          /\ stmt' = [stmt EXCEPT ![a] = @ \ {l}]
          /\ UNCHANGED <<table, pc, todo, written, answer, faults, landed>>
    BY <1>7 DEF InsertRow
  <2> DEFINE k == KeyOf(l.edge)
             old == IF Holds(a, k) THEN pend[a][k] ELSE table[k]
  <2>2. l \in Built /\ k \in Keys
    BY KeptShape, BuiltShape DEF TypeOK
  <2>3. old \in Row \cup {NoRow}
    BY <2>2 DEF TypeOK, Table
  <2>4. Upserted(l.edge, old, a) \in Row \cup {NoRow}
    BY <2>2, <2>3, UpsertedIsRow
  <2>5. pend' \in [Attempt -> Table]
    <3>1. pend \in [Attempt -> [Keys -> Row \cup {NoRow}]]
      BY DEF TypeOK, Table
    <3>2. pend' = [pend EXCEPT ![a] = [pend[a] EXCEPT ![k] = Upserted(l.edge, old, a)]]
      BY <2>1, <2>2, <3>1
    <3> HIDE DEF k, old
    <3>3. [pend[a] EXCEPT ![k] = Upserted(l.edge, old, a)] \in Table
      BY <2>4, <3>1 DEF Table
    <3> QED BY <3>1, <3>2, <3>3 DEF Table
  <2>6. stmt' \in [Attempt -> SUBSET Kept]
    BY <2>1 DEF TypeOK
  <2> QED BY <2>1, <2>5, <2>6 DEF TypeOK
<1>8. ASSUME NEW a \in Attempt, Commit(a) PROVE TypeOK'
  <2>1. table' \in Table
    BY <1>8 DEF Commit, TypeOK, Table
  <2> QED BY <1>8, <2>1, UnwrittenIsTable DEF Commit, TypeOK, Stages
<1>9. ASSUME NEW a \in Attempt, Reply(a) PROVE TypeOK'
  BY <1>9 DEF Reply, Answer, TypeOK, Stages, Answers
<1>10. ASSUME NEW a \in Attempt, Deadlock(a) PROVE TypeOK'
  BY <1>10, UnwrittenIsTable DEF Deadlock, Answer, Rollback, TypeOK, Stages, Answers
<1>11. ASSUME NEW a \in Attempt, LoseDatabase(a) PROVE TypeOK'
  <2>1. faults' \in 0..MaxFaults
    BY <1>11, IngestAssumption DEF LoseDatabase, TypeOK
  <2> QED BY <1>11, <2>1, UnwrittenIsTable
          DEF LoseDatabase, Answer, Rollback, TypeOK, Stages, Answers
<1>12. ASSUME NEW a \in Attempt, LoseWorker(a) PROVE TypeOK'
  <2>1. faults' \in 0..MaxFaults
    BY <1>12, IngestAssumption DEF LoseWorker, TypeOK
  <2> QED BY <1>12, <2>1, UnwrittenIsTable
          DEF LoseWorker, Answer, Rollback, TypeOK, Stages, Answers
<1> QED BY <1>0, <1>1, <1>2, <1>3, <1>4, <1>5, <1>6, <1>7, <1>8, <1>9, <1>10, <1>11, <1>12
        DEF Next, Step, Handle, Quiescent

-----------------------------------------------------------------------------
\* Transactions.

\* A step of one attempt leaves every other one as it is, and does not touch
\* the committed version of a row that another transaction holds.
LEMMA Bystanders ==
  ASSUME TypeOK, LocksExclusive, NEW a \in Attempt, Step(a),
         NEW b \in Attempt \ {a}
  PROVE  /\ pc'[b] = pc[b]
         /\ todo'[b] = todo[b]
         /\ stmt'[b] = stmt[b]
         /\ pend'[b] = pend[b]
         /\ answer'[b] = answer[b]
         /\ \A k \in Keys : Holds(b, k) => table'[k] = table[k]
<1>1. CASE Post(a)
  BY <1>1 DEF Post, TypeOK
<1>2. CASE Reject(a) \/ FailToTranslate(a) \/ NothingToWrite(a) \/ Reply(a)
  BY <1>2 DEF Reject, FailToTranslate, NothingToWrite, Reply, Answer, TypeOK
<1>3. CASE Translate(a)
  BY <1>3 DEF Translate, TypeOK
<1>4. CASE Send(a)
  BY <1>4 DEF Send, Answer, Rollback, TypeOK
<1>5. CASE InsertRow(a)
  BY <1>5 DEF InsertRow, TypeOK
<1>6. CASE Commit(a)
  BY <1>6 DEF Commit, TypeOK, LocksExclusive
<1>7. CASE Deadlock(a) \/ LoseDatabase(a) \/ LoseWorker(a)
  BY <1>7 DEF Deadlock, LoseDatabase, LoseWorker, Answer, Rollback, TypeOK
<1> QED BY <1>1, <1>2, <1>3, <1>4, <1>5, <1>6, <1>7 DEF Step, Handle

\* A step of one attempt keeps the transactions of the others consistent: the
\* versions they computed their rows over are still the committed ones.
LEMMA BystanderTransaction ==
  ASSUME TypeOK, LocksExclusive, NEW a \in Attempt, Step(a),
         NEW b \in Attempt \ {a}, TransactionConsistent(b)
  PROVE  TransactionConsistent(b)'
<1>1. /\ pc'[b] = pc[b]
      /\ todo'[b] = todo[b]
      /\ stmt'[b] = stmt[b]
      /\ pend'[b] = pend[b]
      /\ \A k \in Keys : Holds(b, k) => table'[k] = table[k]
  BY Bystanders
<1>2. Inserted(b)' = Inserted(b)
  BY <1>1 DEF Inserted
<1>3. \A k \in Keys : Holds(b, k)' <=> Holds(b, k)
  BY <1>1 DEF Holds
<1>4. CASE pc[b] = "executing"
  <2>1. \A l \in Inserted(b) : Holds(b, KeyOf(l.edge))'
    BY <1>1, <1>4 DEF TransactionConsistent, Holds
  <2>2. \A k \in Keys : Holds(b, k)' =>
          \E l \in Inserted(b) :
            KeyOf(l.edge) = k /\ pend'[b][k] = Upserted(l.edge, table'[k], b)
    BY <1>1, <1>3, <1>4 DEF TransactionConsistent
  <2> QED BY <1>1, <1>2, <1>4, <2>1, <2>2 DEF TransactionConsistent
<1>5. CASE pc[b] # "executing"
  BY <1>1, <1>5 DEF TransactionConsistent
<1> QED BY <1>4, <1>5

\* The attempt that steps keeps its own transaction consistent.
LEMMA OwnTransaction ==
  ASSUME TypeOK, TransactionsConsistent, NEW a \in Attempt, Step(a)
  PROVE  TransactionConsistent(a)'
<1>0. TransactionConsistent(a)
  BY DEF TransactionsConsistent
<1>1. CASE Post(a)
  BY <1>0, <1>1 DEF Post, TransactionConsistent, TypeOK
<1>2. CASE Reject(a) \/ FailToTranslate(a) \/ NothingToWrite(a) \/ Reply(a)
  BY <1>0, <1>2
  DEF Reject, FailToTranslate, NothingToWrite, Reply, Answer, TransactionConsistent, TypeOK
<1>3. CASE Translate(a)
  <2>1. pc'[a] = "executing" /\ todo'[a] = Outgoing(a) /\ stmt'[a] = {} /\ pend'[a] = Unwritten
    BY <1>0, <1>3 DEF Translate, TransactionConsistent, TypeOK
  <2>2. Inserted(a)' = {}
    BY <2>1 DEF Inserted
  <2>3. \A k \in Keys : ~ Holds(a, k)'
    BY <2>1 DEF Holds, Unwritten
  <2> QED BY <2>1, <2>2, <2>3 DEF TransactionConsistent
<1>4. CASE Send(a)
  <2> DEFINE chunk == NextChunk(todo[a])
  <2>1. CASE Ambiguous(chunk)
    BY <1>4, <2>1 DEF Send, Answer, Rollback, TransactionConsistent, TypeOK
  <2>2. CASE ~Ambiguous(chunk)
    <3>0. chunk \subseteq todo[a]
      BY ChunkOfTodo
    <3> HIDE DEF chunk
    <3>1. /\ pc[a] = "executing" /\ pc'[a] = "executing" /\ stmt[a] = {}
          /\ todo'[a] \cap stmt'[a] = {}
          /\ stmt'[a] = chunk /\ todo'[a] = todo[a] \ chunk
          /\ pend' = pend /\ table' = table
      BY <1>4, <2>2 DEF Send, TypeOK, chunk
    <3>2. Inserted(a)' = Inserted(a) /\ todo'[a] \cup stmt'[a] = todo[a] \cup stmt[a]
      BY <3>0, <3>1 DEF Inserted
    <3>3. \A k : Holds(a, k)' <=> Holds(a, k)
      BY <3>1 DEF Holds
    <3> QED BY <1>0, <3>1, <3>2, <3>3 DEF TransactionConsistent
  <2> QED BY <2>1, <2>2
<1>5. CASE InsertRow(a)
  <2>1. PICK l \in stmt[a] :
          /\ pend' = [pend EXCEPT ![a][KeyOf(l.edge)] =
                        Upserted(l.edge, IF Holds(a, KeyOf(l.edge)) THEN @
                                         ELSE table[KeyOf(l.edge)], a)]
          /\ stmt' = [stmt EXCEPT ![a] = @ \ {l}]
          /\ UNCHANGED <<table, pc, todo>>
          /\ pc[a] = "executing"
    BY <1>5 DEF InsertRow
  <2> DEFINE k == KeyOf(l.edge)
  <2>2. /\ todo[a] \cup stmt[a] \subseteq Outgoing(a)
        /\ todo[a] \cap stmt[a] = {}
        /\ \A m \in Inserted(a) : Holds(a, KeyOf(m.edge))
        /\ \A key \in Keys : Holds(a, key) =>
             \E m \in Inserted(a) :
               KeyOf(m.edge) = key /\ pend[a][key] = Upserted(m.edge, table[key], a)
    BY <1>0, <2>1 DEF TransactionConsistent
  <2>3. l \in Outgoing(a) /\ l \in Built /\ k \in Keys
    BY <2>2, OutgoingBuilt
  <2>4. ~ Holds(a, k)
    <3> SUFFICES ASSUME Holds(a, k) PROVE FALSE
      OBVIOUS
    <3>1. PICK m \in Inserted(a) : KeyOf(m.edge) = k
      BY <2>2, <2>3
    <3>2. m \in Outgoing(a) /\ m # l
      BY DEF Inserted
    <3> QED BY <2>3, <3>1, <3>2, OutgoingKeysDiffer
  <2>5. table[k] \in Row \cup {NoRow}
    BY <2>3 DEF TypeOK, Table
  <2>6. /\ pend'[a][k] = Upserted(l.edge, table[k], a)
        /\ pend'[a][k] # NoRow
        /\ \A key \in Keys \ {k} : pend'[a][key] = pend[a][key]
    BY <2>1, <2>3, <2>4, <2>5, UpsertedIsRow DEF TypeOK, Table
  <2>7. stmt'[a] = stmt[a] \ {l} /\ todo'[a] = todo[a] /\ pc'[a] = "executing"
    BY <2>1 DEF TypeOK
  <2>8. Inserted(a)' = Inserted(a) \cup {l}
    BY <2>2, <2>3, <2>7 DEF Inserted
  <2>9. \A m \in Inserted(a)' : Holds(a, KeyOf(m.edge))'
    <3>1. TAKE m \in Inserted(a)'
    <3>2. CASE m = l
      BY <2>6, <3>2 DEF Holds
    <3>3. CASE m \in Inserted(a)
      <4>1. Holds(a, KeyOf(m.edge)) /\ KeyOf(m.edge) \in Keys
        BY <2>2, <3>3, OutgoingBuilt DEF Inserted
      <4> QED BY <2>4, <2>6, <4>1 DEF Holds
    <3> QED BY <2>8, <3>2, <3>3
  <2>10. \A key \in Keys : Holds(a, key)' =>
           \E m \in Inserted(a)' :
             KeyOf(m.edge) = key /\ pend'[a][key] = Upserted(m.edge, table'[key], a)
    <3>1. TAKE key \in Keys
    <3>2. CASE key = k
      BY <2>1, <2>6, <2>8, <3>2
    <3>3. CASE key # k
      BY <2>1, <2>2, <2>6, <2>8, <3>3 DEF Holds
    <3> QED BY <3>2, <3>3
  <2>11. todo'[a] \cup stmt'[a] \subseteq Outgoing(a) /\ todo'[a] \cap stmt'[a] = {}
    BY <2>2, <2>7
  <2> QED BY <2>7, <2>9, <2>10, <2>11 DEF TransactionConsistent
<1>6. CASE Commit(a)
  BY <1>0, <1>6 DEF Commit, TransactionConsistent, TypeOK
<1>7. CASE Deadlock(a) \/ LoseDatabase(a) \/ LoseWorker(a)
  BY <1>7 DEF Deadlock, LoseDatabase, LoseWorker, Answer, Rollback, TransactionConsistent, TypeOK
<1> QED BY <1>1, <1>2, <1>3, <1>4, <1>5, <1>6, <1>7 DEF Step, Handle

\* Every step keeps all transactions consistent.
LEMMA TransactionsStep ==
  ASSUME TypeOK, TransactionsConsistent, LocksExclusive, NEW a \in Attempt, Step(a)
  PROVE  TransactionsConsistent'
<1> SUFFICES ASSUME NEW b \in Attempt PROVE TransactionConsistent(b)'
  BY DEF TransactionsConsistent
<1>1. CASE b = a
  BY <1>1, OwnTransaction
<1>2. CASE b # a
  BY <1>2, BystanderTransaction DEF TransactionsConsistent
<1> QED BY <1>1, <1>2

\* A transaction comes to hold a row only when no other one does.
LEMMA LocksTaken ==
  ASSUME TypeOK, NEW a \in Attempt, Step(a), NEW k \in Keys, Holds(a, k)'
  PROVE  Holds(a, k) \/ \A b \in Attempt \ {a} : ~ Holds(b, k)
<1>1. CASE InsertRow(a)
  <2>1. PICK l \in stmt[a] :
          /\ \A b \in Attempt \ {a} : ~Holds(b, KeyOf(l.edge))
          /\ pend' = [pend EXCEPT ![a][KeyOf(l.edge)] =
                        Upserted(l.edge, IF Holds(a, KeyOf(l.edge)) THEN @
                                         ELSE table[KeyOf(l.edge)], a)]
    BY <1>1 DEF InsertRow
  <2>2. KeyOf(l.edge) # k => pend'[a][k] = pend[a][k]
    BY <2>1 DEF TypeOK, Table
  <2> QED BY <2>1, <2>2 DEF Holds
<1>2. CASE ~ InsertRow(a)
  <2>1. pend'[a] = pend[a] \/ pend'[a] = Unwritten
    BY <1>2 DEF Step, Handle, Post, Reject, FailToTranslate, NothingToWrite, Translate,
                Send, Commit, Reply, Deadlock, LoseDatabase, LoseWorker, Rollback, TypeOK
  <2> QED BY <2>1 DEF Holds, Unwritten
<1> QED BY <1>1, <1>2

\* No step makes two transactions hold one row.
LEMMA LocksStep ==
  ASSUME TypeOK, LocksExclusive, NEW a \in Attempt, Step(a)
  PROVE  LocksExclusive'
<1> SUFFICES ASSUME NEW b \in Attempt, NEW c \in Attempt, b # c, NEW k \in Keys,
                    Holds(b, k)', Holds(c, k)'
             PROVE  FALSE
  BY DEF LocksExclusive
<1>1. \A d \in Attempt \ {a} : Holds(d, k)' <=> Holds(d, k)
  BY Bystanders DEF Holds
<1>2. CASE b # a /\ c # a
  BY <1>1, <1>2 DEF LocksExclusive
<1>3. CASE b = a
  BY <1>1, <1>3, LocksTaken DEF LocksExclusive
<1>4. CASE c = a
  BY <1>1, <1>4, LocksTaken DEF LocksExclusive
<1> QED BY <1>2, <1>3, <1>4

-----------------------------------------------------------------------------
\* Outcomes.

\* Only a commit changes the table or the record of what has landed.
LEMMA OnlyCommitWrites ==
  ASSUME NEW a \in Attempt, Step(a), ~ Commit(a)
  PROVE  table' = table /\ landed' = landed
BY DEF Step, Handle, Post, Reject, FailToTranslate, NothingToWrite, Translate,
       Send, InsertRow, Reply, Deadlock, LoseDatabase, LoseWorker

\* The service never deletes a row.
LEMMA RowsStay ==
  ASSUME TypeOK, NEW a \in Attempt, Step(a), NEW k, Present(k)
  PROVE  Present(k)'
<1>1. CASE Commit(a)
  BY <1>1 DEF Commit, Present, Holds
<1>2. CASE ~ Commit(a)
  BY <1>2, OnlyCommitWrites DEF Present
<1> QED BY <1>1, <1>2

\* At its commit a transaction holds the row of every edge of its call.
LEMMA CommitHoldsAll ==
  ASSUME TransactionsConsistent, NEW a \in Attempt, Commit(a)
  PROVE  /\ \A l \in Outgoing(a) : Holds(a, KeyOf(l.edge))
         /\ \A k \in Keys : Holds(a, k) =>
              \E l \in Outgoing(a) :
                KeyOf(l.edge) = k /\ pend[a][k] = Upserted(l.edge, table[k], a)
<1>1. pc[a] = "executing" /\ Inserted(a) = Outgoing(a)
  BY DEF Commit, Inserted
<1> QED BY <1>1 DEF TransactionsConsistent, TransactionConsistent

\* After its commit every edge of the call is in the table.
LEMMA CommitShowsAll ==
  ASSUME TypeOK, TransactionsConsistent, NEW a \in Attempt, Commit(a),
         NEW l \in Outgoing(a)
  PROVE  Present(KeyOf(l.edge))'
<1>1. KeyOf(l.edge) \in Keys /\ Holds(a, KeyOf(l.edge))
  BY OutgoingBuilt, CommitHoldsAll
<1> QED BY <1>1 DEF Commit, Present, Holds

\* Every step keeps answers in line with what has landed.
LEMMA OutcomesStep ==
  ASSUME TypeOK, TransactionsConsistent, LocksExclusive, OutcomesConsistent,
         NEW a \in Attempt, Step(a)
  PROVE  OutcomesConsistent'
<1> SUFFICES ASSUME NEW b \in Attempt PROVE OutcomeConsistent(b)'
  BY DEF OutcomesConsistent
<1>0. OutcomeConsistent(a) /\ OutcomeConsistent(b)
  BY DEF OutcomesConsistent
<1>1. ASSUME b # a PROVE OutcomeConsistent(b)'
  <2>1. pc'[b] = pc[b] /\ answer'[b] = answer[b]
    BY <1>1, Bystanders
  <2>2. b \in landed' <=> b \in landed
    BY <1>1, OnlyCommitWrites DEF Commit
  <2>3. b \in landed => \A l \in Outgoing(b) : Present(KeyOf(l.edge))'
    BY <1>0, RowsStay DEF OutcomeConsistent
  <2> QED BY <1>0, <2>1, <2>2, <2>3 DEF OutcomeConsistent
<1>2. ASSUME Commit(a) PROVE OutcomeConsistent(a)'
  <2>1. pc'[a] = "committed" /\ answer'[a] = "none" /\ a \in landed'
    BY <1>0, <1>2 DEF Commit, OutcomeConsistent, TypeOK
  <2>2. \A l \in Outgoing(a) : Present(KeyOf(l.edge))'
    BY <1>2, CommitShowsAll
  <2> QED BY <2>1, <2>2 DEF OutcomeConsistent
<1>3. ASSUME ~ Commit(a) PROVE OutcomeConsistent(a)'
  <2>1. landed' = landed /\ table' = table
    BY <1>3, OnlyCommitWrites
  <2>2. a \in landed => \A l \in Outgoing(a) : Present(KeyOf(l.edge))'
    BY <1>0, RowsStay DEF OutcomeConsistent
  <2>3. CASE Post(a) \/ Translate(a) \/ InsertRow(a)
    <3>1. pc[a] \notin {"committed", "done"} /\ pc'[a] \notin {"committed", "done"}
          /\ answer'[a] = answer[a]
      BY <2>3 DEF Post, Translate, InsertRow, TypeOK
    <3> QED BY <1>0, <2>1, <3>1 DEF OutcomeConsistent
  <2>4. CASE Send(a)
    <3>1. pc[a] = "executing"
          /\ \/ pc'[a] = "executing" /\ answer'[a] = answer[a]
             \/ pc'[a] = "done" /\ answer'[a] = "500"
      BY <2>4 DEF Send, Answer, TypeOK
    <3> QED BY <1>0, <2>1, <3>1 DEF OutcomeConsistent
  <2>5. CASE NothingToWrite(a)
    BY <1>0, <2>1, <2>5 DEF NothingToWrite, Answer, OutcomeConsistent, TypeOK
  <2>6. CASE Reply(a)
    <3>1. a \in landed /\ pc'[a] = "done" /\ answer'[a] = "201"
      BY <1>0, <2>6 DEF Reply, Answer, OutcomeConsistent, TypeOK
    <3> QED BY <2>1, <2>2, <3>1 DEF OutcomeConsistent
  <2>7. CASE \/ Reject(a) \/ FailToTranslate(a) \/ Deadlock(a)
             \/ LoseDatabase(a) \/ LoseWorker(a)
    <3>1. pc'[a] = "done" /\ answer'[a] # "201"
      BY <2>7 DEF Reject, FailToTranslate, Deadlock, LoseDatabase, LoseWorker, Answer, TypeOK
    <3> QED BY <2>1, <2>2, <3>1 DEF OutcomeConsistent
  <2> QED BY <1>3, <2>3, <2>4, <2>5, <2>6, <2>7 DEF Step, Handle
<1> QED BY <1>1, <1>2, <1>3

-----------------------------------------------------------------------------
\* Rows.

\* A commit brings rows of its own call only, with creation marks that landed.
LEMMA RowsComeFromLandedCallsStep ==
  ASSUME TypeOK, TransactionsConsistent, RowsComeFromLandedCalls,
         NEW a \in Attempt, Step(a)
  PROVE  RowsComeFromLandedCalls'
<1>1. CASE ~ Commit(a)
  BY <1>1, OnlyCommitWrites DEF RowsComeFromLandedCalls, Present
<1>2. CASE Commit(a)
  <2> SUFFICES ASSUME NEW k \in Keys, Present(k)'
               PROVE  /\ \E b \in landed' : \E l \in Outgoing(b) :
                           /\ KeyOf(l.edge) = k
                           /\ table'[k].job = l.edge.job
                           /\ table'[k].run = l.edge.run
                           /\ table'[k].ns = l.edge.ns
                      /\ table'[k].created \in landed'
    BY DEF RowsComeFromLandedCalls
  <2>1. landed' = landed \cup {a}
        /\ table'[k] = IF Holds(a, k) THEN pend[a][k] ELSE table[k]
    BY <1>2 DEF Commit
  <2>2. CASE Holds(a, k)
    <3>1. PICK l \in Outgoing(a) :
            KeyOf(l.edge) = k /\ pend[a][k] = Upserted(l.edge, table[k], a)
      BY <1>2, <2>2, CommitHoldsAll
    <3>2. /\ table'[k].job = l.edge.job
          /\ table'[k].run = l.edge.run
          /\ table'[k].ns = l.edge.ns
          /\ table'[k].created = IF table[k] = NoRow THEN a ELSE table[k].created
      BY <2>1, <2>2, <3>1 DEF Upserted
    <3>3. table'[k].created \in landed'
      BY <2>1, <3>2 DEF RowsComeFromLandedCalls, Present
    <3> QED BY <2>1, <3>1, <3>2, <3>3
  <2>3. CASE ~ Holds(a, k)
    BY <2>1, <2>3 DEF RowsComeFromLandedCalls, Present
  <2> QED BY <2>2, <2>3
<1> QED BY <1>1, <1>2

\* A commit brings, with each derives_from row, the two rows that witness it,
\* and no step takes a witness away.
LEMMA DerivationWitnessedStep ==
  ASSUME TypeOK, TransactionsConsistent, DerivationWitnessed,
         NEW a \in Attempt, Step(a)
  PROVE  DerivationWitnessed'
<1>1. CASE ~ Commit(a)
  BY <1>1, OnlyCommitWrites DEF DerivationWitnessed, Present
<1>2. CASE Commit(a)
  <2>1. ASSUME NEW k \in Keys, Present(k)', k[3] = "derives_from",
               NEW j, j = table'[k].job
        PROVE  Present(<<k[1], j, "consumes">>)' /\ Present(<<j, k[2], "produces">>)'
    <3>1. table'[k] = IF Holds(a, k) THEN pend[a][k] ELSE table[k]
      BY <1>2 DEF Commit
    <3>2. CASE Holds(a, k)
      <4>1. PICK l \in Outgoing(a) :
              KeyOf(l.edge) = k /\ pend[a][k] = Upserted(l.edge, table[k], a)
        BY <1>2, <3>2, CommitHoldsAll
      <4>2. /\ j = l.edge.job
            /\ k[1] = l.edge.src /\ k[2] = l.edge.dst
            /\ l.edge.type = "derives_from"
        BY <2>1, <3>1, <3>2, <4>1 DEF Upserted, KeyOf
      <4>3. l \in BuiltBy(a)
        BY OutgoingBuilt
      <4>4. PICK c \in BuiltBy(a) : KeyOf(c.edge) = <<l.edge.src, l.edge.job, "consumes">>
        BY <4>2, <4>3, DerivationBuilt
      <4>5. PICK d \in BuiltBy(a) : KeyOf(d.edge) = <<l.edge.job, l.edge.dst, "produces">>
        BY <4>2, <4>3, DerivationBuilt
      <4>6. PICK m \in Outgoing(a) : KeyOf(m.edge) = <<k[1], j, "consumes">>
        BY <4>2, <4>4, KeysSurvive
      <4>7. PICK n \in Outgoing(a) : KeyOf(n.edge) = <<j, k[2], "produces">>
        BY <4>2, <4>5, KeysSurvive
      <4>8. Present(KeyOf(m.edge))' /\ Present(KeyOf(n.edge))'
        BY <1>2, CommitShowsAll
      <4> QED BY <4>6, <4>7, <4>8
    <3>3. CASE ~ Holds(a, k)
      <4>1. table'[k] = table[k] /\ Present(k)
        BY <2>1, <3>1, <3>3 DEF Present
      <4>2. Present(<<k[1], j, "consumes">>) /\ Present(<<j, k[2], "produces">>)
        BY <2>1, <4>1 DEF DerivationWitnessed
      <4> QED BY <4>2, RowsStay
    <3> QED BY <3>2, <3>3
  <2>2. ASSUME NEW k \in Keys, Present(k)', k[3] = "derives_from"
        PROVE  /\ Present(<<k[1], table[k].job, "consumes">>)'
               /\ Present(<<table[k].job, k[2], "produces">>)'
    <3>1. PICK j : j = table'[k].job
      OBVIOUS
    <3>2. Present(<<k[1], j, "consumes">>)' /\ Present(<<j, k[2], "produces">>)'
      BY <2>1, <2>2, <3>1
    <3> QED BY <3>1, <3>2 DEF Present
  <2> QED BY <2>2 DEF DerivationWitnessed
<1> QED BY <1>1, <1>2

-----------------------------------------------------------------------------
\* The invariant is inductive.

\* Initially the invariant holds: nothing is written, held or answered.
LEMMA IInvInit == Init => IInv
<1> SUFFICES ASSUME Init PROVE IInv
  OBVIOUS
<1>1. TypeOK
  BY TypeInit
<1>2. TransactionsConsistent
  BY DEF Init, TransactionsConsistent, TransactionConsistent
<1>3. LocksExclusive
  BY DEF Init, LocksExclusive, Holds, Unwritten
<1>4. OutcomesConsistent
  BY DEF Init, OutcomesConsistent, OutcomeConsistent
<1>5. RowsComeFromLandedCalls /\ DerivationWitnessed
  BY DEF Init, RowsComeFromLandedCalls, DerivationWitnessed, Present, Unwritten
<1> QED BY <1>1, <1>2, <1>3, <1>4, <1>5 DEF IInv

\* Every step, of any attempt, preserves the invariant.
LEMMA IInvStep == IInv /\ [Next]_vars => IInv'
<1> SUFFICES ASSUME IInv, [Next]_vars PROVE IInv'
  OBVIOUS
<1>1. CASE UNCHANGED vars
  BY <1>1 DEF vars, IInv, TypeOK, TransactionsConsistent, TransactionConsistent, Inserted,
              LocksExclusive, OutcomesConsistent, OutcomeConsistent,
              RowsComeFromLandedCalls, DerivationWitnessed, Present, Holds
<1>2. ASSUME NEW a \in Attempt, Step(a) PROVE IInv'
  <2>1. TypeOK'
    BY TypeStep DEF IInv
  <2>2. TransactionsConsistent' /\ LocksExclusive'
    BY <1>2, TransactionsStep, LocksStep DEF IInv
  <2>3. OutcomesConsistent'
    BY <1>2, OutcomesStep DEF IInv
  <2>4. RowsComeFromLandedCalls' /\ DerivationWitnessed'
    BY <1>2, RowsComeFromLandedCallsStep, DerivationWitnessedStep DEF IInv
  <2> QED BY <2>1, <2>2, <2>3, <2>4 DEF IInv
<1> QED BY <1>1, <1>2 DEF Next, Quiescent

\* The inductive invariant holds in every reachable state of the write path.
THEOREM IInvHolds == Spec => []IInv
BY IInvInit, IInvStep, PTL DEF Spec

\* Type correctness: no row, counter or stage ever leaves its domain.
THEOREM TypeCorrect == Spec => []TypeOK
<1>1. IInv => TypeOK
  BY DEF IInv
<1> QED BY <1>1, IInvHolds, PTL

\* A derives_from row never stands without the consumes and produces rows of
\* the job it names, for any calls, chunks, retries, aborts and faults.
THEOREM DerivationAlwaysWitnessed == Spec => []DerivationWitnessed
<1>1. IInv => DerivationWitnessed
  BY DEF IInv
<1> QED BY <1>1, IInvHolds, PTL

\* Every committed row is the work of one landed call; nothing of a call that
\* was rolled back shows.
THEOREM OnlyLandedRowsShow == Spec => []RowsComeFromLandedCalls
<1>1. IInv => RowsComeFromLandedCalls
  BY DEF IInv
<1> QED BY <1>1, IInvHolds, PTL

\* A call that was answered 201 has all of its edges in the committed table.
THEOREM AcknowledgedIsDurable == Spec => []AckedIsDurable
<1>1. IInv => AckedIsDurable
  <2> SUFFICES ASSUME IInv, NEW a \in Attempt, answer[a] = "201", NEW l \in BuiltBy(a)
               PROVE  Present(KeyOf(l.edge))
    BY DEF AckedIsDurable
  <2>1. PICK m \in Outgoing(a) : KeyOf(m.edge) = KeyOf(l.edge)
    BY KeysSurvive
  <2>2. a \in landed
    BY <2>1 DEF IInv, OutcomesConsistent, OutcomeConsistent
  <2> QED BY <2>1, <2>2 DEF IInv, OutcomesConsistent, OutcomeConsistent
<1> QED BY <1>1, IInvHolds, PTL

\* A row keeps its creation mark for ever, whoever raced to insert or update it.
THEOREM CreationMarkKept == Spec => CreatedAtStable
<1>1. ASSUME IInv, [Next]_vars, NEW k \in Keys, Present(k)
      PROVE  table'[k] # NoRow /\ table'[k].created = table[k].created
  <2>1. CASE UNCHANGED vars
    BY <1>1, <2>1 DEF vars, Present
  <2>2. ASSUME NEW a \in Attempt, Step(a), ~ Commit(a)
        PROVE  table'[k] # NoRow /\ table'[k].created = table[k].created
    BY <1>1, <2>2, OnlyCommitWrites DEF Present
  <2>3. ASSUME NEW a \in Attempt, Commit(a)
        PROVE  table'[k] # NoRow /\ table'[k].created = table[k].created
    <3>1. table'[k] = IF Holds(a, k) THEN pend[a][k] ELSE table[k]
      BY <2>3 DEF Commit
    <3>2. CASE Holds(a, k)
      <4>1. PICK l \in Outgoing(a) : pend[a][k] = Upserted(l.edge, table[k], a)
        BY <1>1, <2>3, <3>2, CommitHoldsAll DEF IInv
      <4> QED BY <1>1, <3>1, <3>2, <4>1 DEF Upserted, Holds, Present
    <3>3. CASE ~ Holds(a, k)
      BY <1>1, <3>1, <3>3 DEF Present
    <3> QED BY <3>2, <3>3
  <2> QED BY <1>1, <2>1, <2>2, <2>3 DEF Next, Quiescent
<1>2. IInv /\ [Next]_vars =>
        [\A k \in Keys : Present(k) =>
           table'[k] # NoRow /\ table'[k].created = table[k].created]_vars
  BY <1>1
<1> QED BY <1>2, IInvHolds, PTL DEF Spec, CreatedAtStable

-----------------------------------------------------------------------------
\* The refinement of the atomic store.

\* The store's promises name the keys a call sends an edge for, and say of each
\* what that edge says.
LEMMA StorePromise ==
  ASSUME NEW a \in Attempt, NEW k \in Keys
  PROVE  /\ Store!Mentions(a, k) <=> \E l \in Outgoing(a) : KeyOf(l.edge) = k
         /\ \A l \in Outgoing(a) : KeyOf(l.edge) = k =>
              Store!Promised(a, k) = [job |-> l.edge.job, run |-> l.edge.run, ns |-> l.edge.ns]
<1>1. a[1] \in Request
  BY DEF Attempt
<1>0. \A r, key : PromiseTo(r, key).req = r /\ PromiseTo(r, key).key = key
  BY DEF PromiseTo
<1>2. \A m \in Promises :
        m.req = a[1] /\ m.key = k => m = PromiseTo(a[1], k) /\ Mentioning(a[1], k) # {}
  BY <1>0 DEF Promises
<1>3. Mentioning(a[1], k) # {} =>
        PromiseTo(a[1], k) \in Promises
        /\ PromiseTo(a[1], k).req = a[1] /\ PromiseTo(a[1], k).key = k
  <2>1. <<a[1], k>> \in Request \X Keys /\ <<a[1], k>>[1] = a[1] /\ <<a[1], k>>[2] = k
    BY <1>1
  <2>2. Mentioning(a[1], k) # {} => PromiseTo(a[1], k) \in Promises
    BY <2>1 DEF Promises
  <2> QED BY <1>0, <2>2
<1>4. Store!Mentions(a, k) <=> Mentioning(a[1], k) # {}
  BY <1>2, <1>3 DEF Store!Mentions
<1>5. ASSUME NEW l \in Outgoing(a), KeyOf(l.edge) = k
      PROVE  Store!Promised(a, k) = [job |-> l.edge.job, run |-> l.edge.run, ns |-> l.edge.ns]
  <2>1. Mentioning(a[1], k) # {}
    BY <1>5, MentionedIsSent
  <2>2. Store!Promised(a, k) = PromiseTo(a[1], k).attrs
    BY <1>2, <1>3, <2>1 DEF Store!Promised
  <2> QED BY <1>5, <2>2, PromiseKept
<1> QED BY <1>4, <1>5, MentionedIsSent

\* A commit is the atomic write of the whole call.
LEMMA CommitLands ==
  ASSUME IInv, NEW a \in Attempt, Commit(a)
  PROVE  Store!Land(a)
<1>1. a \notin landed
  BY DEF Commit, IInv, OutcomesConsistent, OutcomeConsistent
<1>2. ASSUME NEW k \in Keys
      PROVE  (IF Holds(a, k) THEN pend[a][k] ELSE table[k]) =
               IF Store!Mentions(a, k)
                 THEN Store!Replaced(Store!Promised(a, k), table[k], a)
                 ELSE table[k]
  <2>1. Holds(a, k) <=> Store!Mentions(a, k)
    BY StorePromise, CommitHoldsAll DEF IInv
  <2>2. ASSUME Holds(a, k)
        PROVE  pend[a][k] = Store!Replaced(Store!Promised(a, k), table[k], a)
    <3>1. PICK l \in Outgoing(a) :
            KeyOf(l.edge) = k /\ pend[a][k] = Upserted(l.edge, table[k], a)
      BY <2>2, CommitHoldsAll DEF IInv
    <3>2. Store!Promised(a, k) = [job |-> l.edge.job, run |-> l.edge.run, ns |-> l.edge.ns]
      BY <3>1, StorePromise
    <3> QED BY <3>1, <3>2 DEF Upserted, Store!Replaced
  <2> QED BY <2>1, <2>2
<1>3. table' = [k \in Keys |-> IF Store!Mentions(a, k)
                                 THEN Store!Replaced(Store!Promised(a, k), table[k], a)
                                 ELSE table[k]]
  BY <1>2 DEF Commit
<1>4. landed' = landed \cup {a} /\ answer' = answer
  BY DEF Commit
<1> QED BY <1>1, <1>3, <1>4 DEF Store!Land

\* Every other step of an attempt acknowledges it, having landed or having had
\* nothing to write, or changes nothing the store knows of.
LEMMA OthersAcknowledge ==
  ASSUME IInv, NEW a \in Attempt, Step(a), ~ Commit(a)
  PROVE  Store!Acknowledge(a) \/ UNCHANGED Store!vars
<1> DEFINE acked == {b \in Attempt : answer[b] = "201"}
<1>0. TypeOK /\ OutcomeConsistent(a)
  BY DEF IInv, OutcomesConsistent
<1>1. table' = table /\ landed' = landed
  BY OnlyCommitWrites
<1>2. \A b \in Attempt \ {a} : answer'[b] = answer[b]
  BY Bystanders DEF IInv
<1>3. CASE Reply(a) \/ NothingToWrite(a)
  <2>1. answer'[a] = "201"
    BY <1>0, <1>3 DEF Reply, NothingToWrite, Answer, TypeOK
  <2>2. acked' = acked \cup {a}
    BY <1>2, <2>1
  <2>3. a \in landed \/ Outgoing(a) = {}
    BY <1>0, <1>3 DEF Reply, NothingToWrite, OutcomeConsistent
  <2>4. a \in landed \/ \A k \in Keys : ~ Store!Mentions(a, k)
    BY <2>3, StorePromise
  <2> QED BY <1>1, <2>2, <2>4 DEF Store!Acknowledge
<1>4. CASE ~ (Reply(a) \/ NothingToWrite(a))
  <2>1. answer'[a] = answer[a] \/ (pc[a] # "done" /\ answer'[a] # "201")
    <3>1. CASE Post(a) \/ Translate(a) \/ InsertRow(a)
      BY <3>1 DEF Post, Translate, InsertRow
    <3>2. CASE Reject(a) \/ FailToTranslate(a)
      BY <1>0, <3>2 DEF Reject, FailToTranslate, Answer, TypeOK
    <3>3. CASE Send(a)
      BY <1>0, <3>3 DEF Send, Answer, TypeOK
    <3>4. CASE Deadlock(a)
      <4>1. a \in Waiting /\ answer'[a] = "500"
        BY <1>0, <3>4 DEF Deadlock, Answer, TypeOK
      <4>2. stmt[a] # {}
        BY <4>1 DEF Waiting, WaitsFor
      <4>3. pc[a] = "executing"
        BY <4>2 DEF IInv, TransactionsConsistent, TransactionConsistent
      <4> QED BY <4>1, <4>3
    <3>5. CASE LoseDatabase(a) \/ LoseWorker(a)
      BY <1>0, <3>5 DEF LoseDatabase, LoseWorker, Answer, TypeOK
    <3> QED BY <1>4, <3>1, <3>2, <3>3, <3>4, <3>5 DEF Step, Handle
  <2>2. answer'[a] = "201" <=> answer[a] = "201"
    BY <1>0, <2>1 DEF OutcomeConsistent
  <2>3. acked' = acked
    BY <1>2, <2>2
  <2> QED BY <1>1, <2>3 DEF Store!vars
<1> QED BY <1>3, <1>4

\* The service implements the atomic store, for any calls, chunks, retries,
\* aborts and faults: a COMMIT is the write of the whole call, a 201 follows it,
\* and nothing else shows.
THEOREM ServiceImplementsStore == Spec => ImplementsEdgeStore
<1>1. Init => Store!Init
  BY DEF Init, Store!Init, Unwritten
<1>2. IInv /\ [Next]_vars => [Store!Next]_Store!vars
  <2> SUFFICES ASSUME IInv, [Next]_vars PROVE [Store!Next]_Store!vars
    OBVIOUS
  <2>1. CASE UNCHANGED vars
    BY <2>1 DEF vars, Store!vars
  <2>2. ASSUME NEW a \in Attempt, Step(a) PROVE Store!Next \/ UNCHANGED Store!vars
    <3>1. Store!Land(a) \/ Store!Acknowledge(a) \/ UNCHANGED Store!vars
      BY <2>2, CommitLands, OthersAcknowledge
    <3>2. a \in Request \X (1..MaxAttempts)
      BY DEF Attempt
    <3> QED BY <3>1, <3>2 DEF Store!Next
  <2> QED BY <2>1, <2>2 DEF Next, Quiescent
<1> QED BY <1>1, <1>2, IInvHolds, PTL DEF Spec, Store!Spec, ImplementsEdgeStore

-----------------------------------------------------------------------------
\* The counts.

\* What an attempt has counted is what it has sent, and in the end all it sends.
WrittenConsistent(a) ==
  /\ pc[a] \in {"idle", "posted"} => written[a] = 0
  /\ pc[a] = "executing" => written[a] = Cardinality(Outgoing(a) \ todo[a])
  /\ pc[a] = "committed" \/ answer[a] = "201" => written[a] = Cardinality(Outgoing(a))

WInv == IInv /\ \A a \in Attempt : WrittenConsistent(a)

\* A call sends as many edges as its events mention keys.
LEMMA KeysCounted ==
  ASSUME NEW a \in Attempt
  PROVE  Cardinality(Outgoing(a)) = Cardinality({KeyOf(l.edge) : l \in BuiltBy(a)})
<1> DEFINE S == Outgoing(a)
           T == {KeyOf(l.edge) : l \in BuiltBy(a)}
           f == [l \in S |-> KeyOf(l.edge)]
<1>1. \A l \in S : f[l] \in T
  BY OutgoingBuilt
<1>2. \A t \in T : \E l \in S : f[l] = t
  BY KeysSurvive
<1>3. \A l, m \in S : f[l] = f[m] => l = m
  BY OutgoingKeysDiffer
<1>4. IsFiniteSet(S)
  BY OutgoingFinite
<1>5. f \in [S -> T]
  BY <1>1
<1> HIDE DEF S, T, f
<1>6. f \in Surjection(S, T) /\ f \in Injection(S, T)
  BY <1>2, <1>3, <1>5 DEF Surjection, Injection, IsInjective
<1>7. Cardinality(S) = Cardinality(T)
  BY <1>4, <1>6, FS_Surjection
<1> QED BY <1>7 DEF S, T

\* Every step keeps the counts.
LEMMA WrittenStep ==
  ASSUME IInv, NEW a \in Attempt, Step(a), NEW b \in Attempt, WrittenConsistent(b)
  PROVE  WrittenConsistent(b)'
<1>0. TypeOK /\ TransactionConsistent(a) /\ OutcomeConsistent(a)
  BY DEF IInv, TransactionsConsistent, OutcomesConsistent
<1>1. CASE b # a
  <2>1. written'[b] = written[b]
    BY <1>0, <1>1 DEF Step, Handle, Post, Reject, FailToTranslate, NothingToWrite, Translate,
       Send, InsertRow, Commit, Reply, Deadlock, LoseDatabase, LoseWorker, TypeOK
  <2>2. pc'[b] = pc[b] /\ todo'[b] = todo[b] /\ answer'[b] = answer[b]
    BY <1>1, Bystanders DEF IInv
  <2> QED BY <2>1, <2>2 DEF WrittenConsistent
<1>2. CASE b = a
  <2> SUFFICES WrittenConsistent(a)'
    BY <1>2
  <2>0. WrittenConsistent(a)
    BY <1>2
  <2>1. CASE Post(a)
    BY <1>0, <2>0, <2>1 DEF Post, WrittenConsistent, OutcomeConsistent, TypeOK
  <2>2. CASE Translate(a)
    <3>1. /\ pc'[a] = "executing" /\ todo'[a] = Outgoing(a) /\ written'[a] = 0
          /\ answer'[a] = "none"
      BY <1>0, <2>0, <2>2 DEF Translate, WrittenConsistent, OutcomeConsistent, TypeOK
    <3>2. Cardinality(Outgoing(a) \ Outgoing(a)) = 0
      BY FS_EmptySet
    <3> QED BY <3>1, <3>2 DEF WrittenConsistent
  <2>3. CASE NothingToWrite(a)
    <3>1. /\ pc'[a] = "done" /\ written'[a] = 0 /\ Outgoing(a) = {}
      BY <1>0, <2>0, <2>3 DEF NothingToWrite, Answer, WrittenConsistent, TypeOK
    <3> QED BY <3>1, FS_EmptySet DEF WrittenConsistent
  <2>4. CASE Send(a)
    <3> DEFINE chunk == NextChunk(todo[a])
    <3>1. CASE Ambiguous(chunk)
      BY <1>0, <2>4, <3>1 DEF Send, Answer, WrittenConsistent, TypeOK
    <3>2. CASE ~ Ambiguous(chunk)
      <4>1. chunk \subseteq todo[a]
        BY ChunkOfTodo
      <4> HIDE DEF chunk
      <4>2. /\ pc[a] = "executing" /\ pc'[a] = "executing"
            /\ todo'[a] = todo[a] \ chunk
            /\ written'[a] = written[a] + Cardinality(chunk)
            /\ answer'[a] = answer[a] /\ answer[a] = "none"
        BY <1>0, <2>4, <3>2 DEF Send, TypeOK, OutcomeConsistent, chunk
      <4>3. todo[a] \subseteq Outgoing(a)
        BY <1>0, <4>2 DEF TransactionConsistent
      <4> DEFINE sent == Outgoing(a) \ todo[a]
      <4>4. Outgoing(a) \ (todo[a] \ chunk) = sent \cup chunk /\ sent \cap chunk = {}
        BY <4>1, <4>3
      <4>5. IsFiniteSet(sent) /\ IsFiniteSet(chunk)
        BY <4>1, <4>3, OutgoingFinite, FS_Subset
      <4>6. Cardinality(sent \cup chunk) = Cardinality(sent) + Cardinality(chunk)
        <5> HIDE DEF sent
        <5>1. /\ Cardinality(sent \cup chunk) =
                   Cardinality(sent) + Cardinality(chunk) - Cardinality(sent \cap chunk)
              /\ Cardinality(sent) \in Nat /\ Cardinality(chunk) \in Nat
          BY <4>5, FS_Union, FS_CardinalityType
        <5>2. Cardinality(sent \cap chunk) = 0
          BY <4>4, FS_EmptySet
        <5> QED BY <5>1, <5>2
      <4>7. written[a] = Cardinality(sent)
        BY <2>0, <4>2 DEF WrittenConsistent
      <4> QED BY <4>2, <4>4, <4>6, <4>7 DEF WrittenConsistent
    <3> QED BY <3>1, <3>2
  <2>5. CASE InsertRow(a)
    <3>1. UNCHANGED <<pc, todo, written, answer>>
      BY <2>5 DEF InsertRow
    <3> QED BY <2>0, <3>1 DEF WrittenConsistent
  <2>6. CASE Commit(a)
    <3>1. /\ pc'[a] = "committed" /\ written'[a] = written[a]
          /\ written[a] = Cardinality(Outgoing(a) \ todo[a]) /\ todo[a] = {}
      BY <1>0, <2>0, <2>6 DEF Commit, WrittenConsistent, TypeOK
    <3>2. Outgoing(a) \ todo[a] = Outgoing(a)
      BY <3>1
    <3> QED BY <3>1, <3>2 DEF WrittenConsistent
  <2>7. CASE Reply(a)
    BY <1>0, <2>0, <2>7 DEF Reply, Answer, WrittenConsistent, TypeOK
  <2>8. CASE \/ Reject(a) \/ FailToTranslate(a) \/ Deadlock(a)
             \/ LoseDatabase(a) \/ LoseWorker(a)
    <3>1. pc'[a] = "done" /\ answer'[a] # "201"
      BY <1>0, <2>8 DEF Reject, FailToTranslate, Deadlock, LoseDatabase, LoseWorker, Answer, TypeOK
    <3> QED BY <3>1 DEF WrittenConsistent
  <2> QED BY <2>1, <2>2, <2>3, <2>4, <2>5, <2>6, <2>7, <2>8 DEF Step, Handle
<1> QED BY <1>1, <1>2

\* The edges_written of a 201 is the number of distinct edges the call mentions.
THEOREM CountsRight == Spec => []CountsAccurate
<1>1. Init => WInv
  <2>1. Init => \A a \in Attempt : WrittenConsistent(a)
    BY DEF Init, WrittenConsistent
  <2> QED BY <2>1, IInvInit DEF WInv
<1>2. WInv /\ [Next]_vars => WInv'
  <2> SUFFICES ASSUME WInv, [Next]_vars PROVE WInv'
    OBVIOUS
  <2>1. IInv'
    BY IInvStep DEF WInv
  <2>2. CASE UNCHANGED vars
    BY <2>1, <2>2 DEF WInv, WrittenConsistent, vars
  <2>3. ASSUME NEW a \in Attempt, Step(a) PROVE WInv'
    BY <2>1, <2>3, WrittenStep DEF WInv
  <2> QED BY <2>2, <2>3 DEF Next, Quiescent
<1>3. WInv => CountsAccurate
  BY KeysCounted DEF WInv, WrittenConsistent, CountsAccurate
<1> QED BY <1>1, <1>2, <1>3, PTL DEF Spec

-----------------------------------------------------------------------------
\* Errors, and the order in which rows are taken.

\* An attempt inserts its edges in the order of their places: what is inserted
\* comes before what is not, and the running statement before what is not sent.
InOrder(a) ==
  pc[a] = "executing" =>
    /\ \A l \in Inserted(a), m \in todo[a] \cup stmt[a] : Before(l.at, m.at)
    /\ \A l \in stmt[a], m \in todo[a] : Before(l.at, m.at)

EInv == IInv /\ (\A a \in Attempt : InOrder(a)) /\ ErrorsHaveCauses

\* The order of places is transitive.
LEMMA BeforeTransitive ==
  ASSUME NEW p \in Place, NEW q \in Place, NEW r \in Place, Before(p, q), Before(q, r)
  PROVE  Before(p, r)
<1>1. /\ p[1] \in Nat /\ p[2] \in Nat /\ p[3] \in Nat /\ p[4] \in Nat
      /\ q[1] \in Nat /\ q[2] \in Nat /\ q[3] \in Nat /\ q[4] \in Nat
      /\ r[1] \in Nat /\ r[2] \in Nat /\ r[3] \in Nat /\ r[4] \in Nat
  BY DEF Place
<1> QED BY <1>1 DEF Before

\* No place comes before itself, nor before one that it follows.
LEMMA BeforeStrict ==
  ASSUME NEW p \in Place, NEW q \in Place, Before(p, q)
  PROVE  ~ Before(q, p)
<1>1. /\ p[1] \in Nat /\ p[2] \in Nat /\ p[3] \in Nat /\ p[4] \in Nat
      /\ q[1] \in Nat /\ q[2] \in Nat /\ q[3] \in Nat /\ q[4] \in Nat
  BY DEF Place
<1> QED BY <1>1 DEF Before

\* The edges a call sends have places, different ones, one before the other.
LEMMA OutgoingOrdered ==
  ASSUME NEW a \in Attempt, NEW l \in Outgoing(a), NEW m \in Outgoing(a)
  PROVE  /\ l.at \in Place
         /\ l # m => Before(l.at, m.at) \/ Before(m.at, l.at)
<1> DEFINE events == Call[a[1]].events
<1>1. /\ a[1] \in Request /\ l \in Built /\ m \in Built
      /\ l.req = a[1] /\ m.req = a[1]
  BY KeptShape DEF Attempt, Outgoing
<1>2. /\ l.at \in Positions(events) /\ m.at \in Positions(events)
      /\ l.edge = EdgeAt(events, l.at) /\ m.edge = EdgeAt(events, m.at)
      /\ Positions(events) \subseteq Place
  BY <1>1, BuiltShape, CallsAssumption
<1>3. l.at = m.at => l = m
  BY <1>1, <1>2, BuiltShape
<1> QED BY <1>2, <1>3, PlacesOrdered

\* A statement takes the first of the edges that are left: none of the others
\* comes before one of them.
LEMMA ChunkComesFirst ==
  ASSUME NEW a \in Attempt, NEW ls, ls \subseteq Outgoing(a),
         NEW l \in NextChunk(ls), NEW m \in ls \ NextChunk(ls)
  PROVE  Before(l.at, m.at)
<1> DEFINE pred(x) == {n \in ls : Before(n.at, x.at)}
<1>1. l \in ls /\ l # m /\ l \in Outgoing(a) /\ m \in Outgoing(a)
  BY ChunkOfTodo
<1> SUFFICES ASSUME Before(m.at, l.at) PROVE FALSE
  BY <1>1, OutgoingOrdered
<1>2. pred(m) \subseteq pred(l)
  BY <1>1, OutgoingOrdered, BeforeTransitive
<1>3. IsFiniteSet(pred(l)) /\ IsFiniteSet(pred(m))
  <2>1. IsFiniteSet(Outgoing(a)) /\ pred(l) \subseteq Outgoing(a) /\ pred(m) \subseteq Outgoing(a)
    BY OutgoingFinite
  <2> HIDE DEF pred
  <2> QED BY <2>1, FS_Subset
<1>4. Cardinality(pred(l)) < Chunk /\ ~ (Cardinality(pred(m)) < Chunk)
  BY DEF NextChunk
<1> HIDE DEF pred
<1>5. Cardinality(pred(m)) <= Cardinality(pred(l))
  BY <1>2, <1>3, FS_Subset
<1>6. Cardinality(pred(m)) \in Nat /\ Cardinality(pred(l)) \in Nat /\ Chunk \in Nat
  BY <1>3, FS_CardinalityType, IngestAssumption
<1> QED BY <1>4, <1>5, <1>6

\* Every step keeps the order of every attempt.
LEMMA InOrderStep ==
  ASSUME IInv, NEW a \in Attempt, Step(a), NEW b \in Attempt, InOrder(b)
  PROVE  InOrder(b)'
<1>0. TypeOK /\ TransactionConsistent(a) /\ OutcomeConsistent(a)
  BY DEF IInv, TransactionsConsistent, OutcomesConsistent
<1>1. CASE b # a
  <2>1. pc'[b] = pc[b] /\ todo'[b] = todo[b] /\ stmt'[b] = stmt[b]
    BY <1>1, Bystanders DEF IInv
  <2> QED BY <2>1 DEF InOrder, Inserted
<1>2. CASE b = a
  <2>0. InOrder(a)
    BY <1>2
  <2> SUFFICES ASSUME pc'[a] = "executing" PROVE InOrder(a)'
    BY <1>2 DEF InOrder
  <2>1. CASE Translate(a)
    <3>1. todo'[a] = Outgoing(a) /\ stmt'[a] = {}
      BY <1>0, <2>1 DEF Translate, TransactionConsistent, TypeOK
    <3> QED BY <3>1 DEF InOrder, Inserted
  <2>2. CASE Send(a)
    <3> DEFINE chunk == NextChunk(todo[a])
    <3>1. ~ Ambiguous(chunk)
      BY <1>0, <2>2 DEF Send, Answer, TypeOK
    <3>2. /\ pc[a] = "executing" /\ stmt[a] = {}
          /\ stmt'[a] = chunk /\ todo'[a] = todo[a] \ chunk
      BY <1>0, <2>2, <3>1 DEF Send, TypeOK
    <3>3. chunk \subseteq todo[a] /\ todo[a] \subseteq Outgoing(a)
      BY <1>0, <3>2, ChunkOfTodo DEF TransactionConsistent
    <3>4. \A l \in chunk, m \in todo[a] \ chunk : Before(l.at, m.at)
      BY <3>3, ChunkComesFirst
    <3> HIDE DEF chunk
    <3>5. Inserted(a)' = Inserted(a) /\ todo'[a] \cup stmt'[a] = todo[a] \cup stmt[a]
      BY <3>2, <3>3 DEF Inserted
    <3> QED BY <2>0, <3>2, <3>4, <3>5 DEF InOrder
  <2>3. CASE InsertRow(a)
    <3>1. PICK l \in stmt[a] :
            /\ IsTurn(a, l) /\ stmt' = [stmt EXCEPT ![a] = @ \ {l}]
            /\ UNCHANGED <<pc, todo>> /\ pc[a] = "executing"
      BY <2>3 DEF InsertRow
    <3>2. /\ stmt'[a] = stmt[a] \ {l} /\ todo'[a] = todo[a]
          /\ todo[a] \cup stmt[a] \subseteq Outgoing(a) /\ todo[a] \cap stmt[a] = {}
      BY <1>0, <3>1 DEF TransactionConsistent, TypeOK
    <3>3. Inserted(a)' = Inserted(a) \cup {l}
      BY <3>2 DEF Inserted
    <3>4. \A m \in stmt[a] \ {l} : Before(l.at, m.at)
      BY <3>1, <3>2, OutgoingOrdered DEF IsTurn
    <3> QED BY <2>0, <3>1, <3>2, <3>3, <3>4 DEF InOrder
  <2>4. CASE ~ (Translate(a) \/ Send(a) \/ InsertRow(a))
    BY <1>0, <2>4 DEF Step, Handle, Post, Reject, FailToTranslate, NothingToWrite,
       Commit, Reply, Deadlock, LoseDatabase, LoseWorker, Answer, TypeOK
  <2> QED BY <2>1, <2>2, <2>3, <2>4
<1> QED BY <1>1, <1>2

\* The calls that disagree on the order of the rows they share still do when
\* more calls have been sent.
LEMMA DisorderStays ==
  ASSUME NEW as, NEW bs, as \subseteq bs, ~ OrderedAlike(as)
  PROVE  ~ OrderedAlike(bs)
<1> DEFINE P(s) == UNION {Takes(a) : a \in s}
<1>1. PICK ks \in (SUBSET {p[1] : p \in P(as)}) \ {{}} :
        \A k \in ks : \E m \in ks : <<m, k>> \in P(as)
  BY DEF OrderedAlike
<1>2. P(as) \subseteq P(bs)
  OBVIOUS
<1> HIDE DEF P
<1>3. ks \in (SUBSET {p[1] : p \in P(bs)}) \ {{}}
  BY <1>1, <1>2
<1>4. \A k \in ks : \E m \in ks : <<m, k>> \in P(bs)
  BY <1>1, <1>2
<1> QED BY <1>3, <1>4 DEF OrderedAlike, P

\* PostgreSQL finds a ring of waiting transactions only when the calls that
\* were sent take the rows they share in different orders.
LEMMA RingIsDisorder ==
  ASSUME IInv, \A b \in Attempt : InOrder(b), NEW a \in Attempt, Deadlock(a)
  PROVE  ~ OrderedAlike(Sent)
<1>1. PICK ring \in SUBSET Waiting : a \in ring /\ UNION {WaitsFor(b) : b \in ring} = ring
  BY DEF Deadlock, OnCycle
<1> DEFINE wants(b, k) == \E l \in stmt[b] : IsTurn(b, l) /\ KeyOf(l.edge) = k
           ks == {k \in Keys : \E b \in ring : wants(b, k) /\ \E c \in ring : c # b /\ Holds(c, k)}
           pairs == UNION {Takes(b) : b \in Sent}
<1>2. ASSUME NEW b \in ring
      PROVE  /\ b \in Attempt /\ b \in Sent /\ pc[b] = "executing"
             /\ stmt[b] \subseteq Outgoing(b)
  <2>1. b \in Attempt /\ stmt[b] # {}
    BY DEF Waiting, WaitsFor
  <2>2. pc[b] = "executing" /\ stmt[b] \subseteq Outgoing(b)
    BY <2>1 DEF IInv, TransactionsConsistent, TransactionConsistent
  <2> QED BY <2>1, <2>2 DEF Sent
<1>3. ASSUME NEW b \in ring, NEW m \in Keys, Holds(b, m), NEW k, wants(b, k)
      PROVE  <<m, k>> \in pairs
  <2>1. PICK l \in stmt[b] : IsTurn(b, l) /\ KeyOf(l.edge) = k
    BY <1>3
  <2>2. PICK n \in Inserted(b) : KeyOf(n.edge) = m
    BY <1>2, <1>3 DEF IInv, TransactionsConsistent, TransactionConsistent
  <2>3. Before(n.at, l.at)
    BY <1>2, <2>1, <2>2 DEF InOrder
  <2>4. l \in Outgoing(b) /\ n \in Outgoing(b)
    BY <1>2, <2>1, <2>2 DEF Inserted
  <2>5. <<m, k>> \in Takes(b)
    <3>1. <<n, l>> \in {q \in Outgoing(b) \X Outgoing(b) : Before(q[1].at, q[2].at)}
      BY <2>3, <2>4
    <3> QED BY <2>1, <2>2, <3>1 DEF Takes
  <2> QED BY <1>2, <2>5
<1>4. ASSUME NEW b \in ring
      PROVE  \E k \in ks : wants(b, k) /\ \E c \in ring : c # b /\ Holds(c, k)
  <2>1. PICK c \in WaitsFor(b) : TRUE
    BY DEF Waiting
  <2>2. PICK l \in stmt[b] : IsTurn(b, l) /\ Holds(c, KeyOf(l.edge)) /\ c # b
    BY <2>1 DEF WaitsFor
  <2>3. c \in ring
    BY <1>1, <2>1
  <2>4. KeyOf(l.edge) \in Keys
    BY <1>2, <2>2, OutgoingBuilt
  <2> QED BY <2>2, <2>3, <2>4
<1>5. ASSUME NEW k \in ks
      PROVE  (\E m \in ks : <<m, k>> \in pairs) /\ (\E m \in ks : <<k, m>> \in pairs)
  <2>1. PICK b \in ring : wants(b, k) /\ \E c \in ring : c # b /\ Holds(c, k)
    OBVIOUS
  <2>2. PICK c \in ring : c # b /\ Holds(c, k)
    BY <2>1
  <2>3. \E m \in ks : <<k, m>> \in pairs
    <3>1. PICK m \in ks : wants(c, m)
      BY <1>4
    <3>2. <<k, m>> \in pairs
      <4> HIDE DEF wants, pairs
      <4> QED BY <1>3, <2>2, <3>1
    <3> QED BY <3>2
  <2>4. PICK d \in ring : b \in WaitsFor(d)
    BY <1>1
  <2>5. PICK l \in stmt[d] : IsTurn(d, l) /\ Holds(b, KeyOf(l.edge)) /\ b # d
    BY <2>4 DEF WaitsFor
  <2>6. KeyOf(l.edge) \in ks
    BY <1>2, <2>5, OutgoingBuilt
  <2>7. <<KeyOf(l.edge), k>> \in pairs
    <3>1. KeyOf(l.edge) \in Keys
      BY <2>6
    <3> HIDE DEF wants, pairs, ks
    <3> QED BY <1>3, <2>1, <2>5, <3>1
  <2> QED BY <2>3, <2>6, <2>7
<1>6. ks # {}
  BY <1>1, <1>4
<1> HIDE DEF ks, pairs
<1>7. ks \in (SUBSET {p[1] : p \in pairs}) \ {{}}
  <2>1. \A k \in ks : k \in {p[1] : p \in pairs}
    <3>1. TAKE k \in ks
    <3>2. PICK m \in ks : <<k, m>> \in pairs
      BY <1>5
    <3>3. <<k, m>>[1] = k
      OBVIOUS
    <3> QED BY <3>2, <3>3
  <2> QED BY <1>6, <2>1
<1> QED BY <1>5, <1>7 DEF OrderedAlike, pairs

\* Every step answers 500 for a cause only, and no cause goes away.
LEMMA ErrorsStep ==
  ASSUME IInv, \A b \in Attempt : InOrder(b), ErrorsHaveCauses, NEW a \in Attempt, Step(a)
  PROVE  ErrorsHaveCauses'
<1> SUFFICES ASSUME NEW b \in Attempt, answer'[b] = "500"
             PROVE  \/ faults' > 0
                    \/ \E l \in BuiltBy(b) : CannotBuild(l.edge)
                    \/ ~ OrderedAlike(Sent')
  BY DEF ErrorsHaveCauses
<1>0. TypeOK /\ TransactionConsistent(a) /\ faults \in Nat
  BY IngestAssumption DEF IInv, TransactionsConsistent, TypeOK
<1>1. faults' \in Nat /\ faults' >= faults
  BY <1>0 DEF Step, Handle, Post, Reject, FailToTranslate, NothingToWrite, Translate,
     Send, InsertRow, Commit, Reply, Deadlock, LoseDatabase, LoseWorker
<1>2. Sent \subseteq Sent'
  <2>1. \A c \in Attempt \ {a} : pc'[c] = pc[c]
    BY Bystanders DEF IInv
  <2>2. pc'[a] # "idle"
    BY <1>0 DEF Step, Handle, Post, Reject, FailToTranslate, NothingToWrite, Translate,
       Send, InsertRow, Commit, Reply, Deadlock, LoseDatabase, LoseWorker, Answer, TypeOK
  <2> QED BY <2>1, <2>2 DEF Sent
<1>3. ~ OrderedAlike(Sent) => ~ OrderedAlike(Sent')
  BY <1>2, DisorderStays
<1>4. CASE answer[b] = "500"
  BY <1>0, <1>1, <1>3, <1>4 DEF ErrorsHaveCauses
<1>5. CASE answer[b] # "500"
  <2>1. b = a
    BY <1>5, Bystanders DEF IInv
  <2>2. CASE FailToTranslate(a)
    BY <2>1, <2>2 DEF FailToTranslate
  <2>3. CASE LoseDatabase(a)
    BY <1>0, <2>3 DEF LoseDatabase
  <2>4. CASE Deadlock(a)
    BY <1>3, <2>4, RingIsDisorder
  <2>5. CASE Send(a)
    <3>1. Ambiguous(NextChunk(todo[a]))
      BY <1>5, <2>1, <2>5 DEF Send
    <3>2. NextChunk(todo[a]) \subseteq Outgoing(a)
      BY <1>0, <2>5, ChunkOfTodo DEF Send, TransactionConsistent
    <3> QED BY <3>1, <3>2, OutgoingKeysDiffer DEF Ambiguous
  <2>6. CASE ~ (FailToTranslate(a) \/ LoseDatabase(a) \/ Deadlock(a) \/ Send(a))
    BY <1>0, <1>5, <2>1, <2>6 DEF Step, Handle, Post, Reject, NothingToWrite, Translate,
       InsertRow, Commit, Reply, LoseWorker, Answer, TypeOK
  <2> QED BY <2>2, <2>3, <2>4, <2>5, <2>6
<1> QED BY <1>4, <1>5

\* Without a fault, a well-formed call is answered 500 only for a null namespace
\* or because the calls sent take the rows they share in different orders: for
\* any calls, any chunk size and any number of retries.
THEOREM ErrorsAlwaysHaveCauses == Spec => []ErrorsHaveCauses
<1>1. Init => EInv
  <2>1. Init => (\A a \in Attempt : InOrder(a)) /\ ErrorsHaveCauses
    BY DEF Init, InOrder, ErrorsHaveCauses
  <2> QED BY <2>1, IInvInit DEF EInv
<1>2. EInv /\ [Next]_vars => EInv'
  <2> SUFFICES ASSUME EInv, [Next]_vars PROVE EInv'
    OBVIOUS
  <2>1. IInv'
    BY IInvStep DEF EInv
  <2>2. CASE UNCHANGED vars
    BY <2>1, <2>2 DEF EInv, InOrder, Inserted, ErrorsHaveCauses, Sent, vars
  <2>3. ASSUME NEW a \in Attempt, Step(a) PROVE EInv'
    BY <2>1, <2>3, InOrderStep, ErrorsStep DEF EInv
  <2> QED BY <2>2, <2>3 DEF Next, Quiescent
<1>3. EInv => ErrorsHaveCauses
  BY DEF EInv
<1> QED BY <1>1, <1>2, <1>3, PTL DEF Spec

-----------------------------------------------------------------------------
\* Scoped search.

\* A consumes edge ends at its job, and a produces edge starts there.
LEMMA JobEnds ==
  ASSUME NEW l \in Built
  PROVE  /\ l.edge.type = "consumes" => l.edge.dst = l.edge.job
         /\ l.edge.type = "produces" => l.edge.src = l.edge.job
         /\ l.edge.type \in {"consumes", "produces", "derives_from"}
<1> DEFINE events == Call[l.req].events
<1>1. l.at \in Positions(events) /\ l.edge = EdgeAt(events, l.at)
  BY BuiltShape
<1>2. PICK i \in DOMAIN events : l.at \in EventPositions(events, i)
  BY <1>1 DEF Positions
<1>3. l.at[2] \in {Consumes, Produces, DerivesFrom}
  BY <1>2 DEF EventPositions
<1>4. /\ l.edge.type = EdgeType[l.at[2]]
      /\ l.at[2] = Consumes => l.edge.dst = l.edge.job
      /\ l.at[2] = Produces => l.edge.src = l.edge.job
  BY <1>1 DEF EdgeAt
<1> QED BY <1>3, <1>4 DEF EdgeType, Consumes, Produces, DerivesFrom

\* An edge that ends at a job, as a consumes edge, or starts there, as a produces
\* edge, has the namespace of that job.
LEMMA JobEdgesKeepNamespace ==
  ASSUME JobUrnsDistinct, NEW e \in Edges, NEW a \in Attempt, NEW l \in Outgoing(a),
         \/ l.edge.type = "consumes" /\ l.edge.dst = e.job
         \/ l.edge.type = "produces" /\ l.edge.src = e.job
  PROVE  l.edge.ns = e.ns
<1>1. l \in Built /\ l.edge \in Edges
  BY OutgoingBuilt, BuiltShape
<1>2. l.edge.job = e.job
  BY <1>1, JobEnds
<1> QED BY <1>1, <1>2 DEF JobUrnsDistinct

\* What the scoped search shows of a row is shown by a row that ends at, or
\* starts from, the row's job.
LEMMA ShownByJobRows ==
  ASSUME RowsComeFromLandedCalls, DerivationWitnessed, landed \subseteq Attempt,
         NEW k \in Keys, Present(k), NEW u \in {k[1], k[2]}
  PROVE  \E e \in Edges, m \in Keys :
           /\ table[k].ns = e.ns
           /\ Present(m) /\ u \in {m[1], m[2]}
           /\ \/ m[3] = "consumes" /\ m[2] = e.job
              \/ m[3] = "produces" /\ m[1] = e.job
<1>1. PICK a \in landed : \E l \in Outgoing(a) :
        KeyOf(l.edge) = k /\ table[k].ns = l.edge.ns /\ table[k].job = l.edge.job
  BY DEF RowsComeFromLandedCalls
<1>2. PICK l \in Outgoing(a) :
        KeyOf(l.edge) = k /\ table[k].ns = l.edge.ns /\ table[k].job = l.edge.job
  BY <1>1
<1>3. l \in Built /\ l.edge \in Edges
  BY OutgoingBuilt, BuiltShape
<1>4. k = <<l.edge.src, l.edge.dst, l.edge.type>>
  BY <1>2 DEF KeyOf
<1>5. CASE l.edge.type = "consumes" \/ l.edge.type = "produces"
  BY <1>2, <1>3, <1>4, <1>5, JobEnds
<1>6. CASE l.edge.type = "derives_from"
  <2> DEFINE c == <<k[1], l.edge.job, "consumes">>
             p == <<l.edge.job, k[2], "produces">>
  <2>1. Present(c) /\ Present(p)
    BY <1>2, <1>4, <1>6 DEF DerivationWitnessed
  <2>2. c \in Keys /\ p \in Keys
    BY <2>1 DEF Present
  <2>3. /\ c[1] = k[1] /\ c[2] = l.edge.job /\ c[3] = "consumes"
        /\ p[1] = l.edge.job /\ p[2] = k[2] /\ p[3] = "produces"
    OBVIOUS
  <2> HIDE DEF c, p
  <2> QED BY <1>2, <1>3, <2>1, <2>2, <2>3
<1> QED BY <1>3, <1>5, <1>6, JobEnds

\* A node found in the search of a namespace stays findable there, for any
\* calls, any takeover of rows and any failure, provided that a job's URN says
\* which namespace the job is of.
THEOREM DiscoveryStable ==
  ASSUME JobUrnsDistinct
  PROVE  Spec => ScopedDiscoveryStable
<1>1. ASSUME IInv, [Next]_vars, NEW k \in Keys, Present(k), NEW u \in {k[1], k[2]}
      PROVE  Discoverable(table', table[k].ns, u)
  <2>1. IInv'
    BY <1>1, IInvStep
  <2>2. /\ RowsComeFromLandedCalls /\ DerivationWitnessed /\ landed \subseteq Attempt
        /\ RowsComeFromLandedCalls' /\ landed' \subseteq Attempt
    BY <1>1, <2>1 DEF IInv, TypeOK
  <2>3. PICK e \in Edges, m \in Keys :
          /\ table[k].ns = e.ns
          /\ Present(m) /\ u \in {m[1], m[2]}
          /\ \/ m[3] = "consumes" /\ m[2] = e.job
             \/ m[3] = "produces" /\ m[1] = e.job
    BY <1>1, <2>2, ShownByJobRows
  <2>4. Present(m)'
    <3>1. CASE UNCHANGED vars
      BY <2>3, <3>1 DEF vars, Present
    <3>2. ASSUME NEW a \in Attempt, Step(a) PROVE Present(m)'
      BY <1>1, <2>3, <3>2, RowsStay DEF IInv
    <3> QED BY <1>1, <3>1, <3>2 DEF Next, Quiescent
  <2>5. table'[m].ns = e.ns
    <3>1. PICK a \in landed' : \E l \in Outgoing(a) : KeyOf(l.edge) = m /\ table'[m].ns = l.edge.ns
      BY <2>2, <2>4 DEF RowsComeFromLandedCalls
    <3>2. PICK l \in Outgoing(a) : KeyOf(l.edge) = m /\ table'[m].ns = l.edge.ns
      BY <3>1
    <3>3. a \in Attempt /\ m = <<l.edge.src, l.edge.dst, l.edge.type>>
      BY <2>2, <3>2 DEF KeyOf
    <3>4. \/ l.edge.type = "consumes" /\ l.edge.dst = e.job
          \/ l.edge.type = "produces" /\ l.edge.src = e.job
      BY <2>3, <3>3
    <3> QED BY <3>2, <3>3, <3>4, JobEdgesKeepNamespace, JobUrnsDistinct
  <2> QED BY <2>3, <2>4, <2>5 DEF Discoverable, Present
<1>2. IInv /\ [Next]_vars =>
        [\A k \in Keys : Present(k) =>
           \A u \in {k[1], k[2]} : Discoverable(table', table[k].ns, u)]_vars
  BY <1>1
<1> QED BY <1>2, IInvHolds, PTL DEF Spec, ScopedDiscoveryStable

-----------------------------------------------------------------------------
\* What readers of the store may rely on.

\* A promise is of what an attempt of its call sends.
LEMMA PromiseIsSent ==
  ASSUME NEW m \in Promises
  PROVE  \E a \in Attempt, l \in Kept :
           /\ a[1] = m.req /\ l \in Outgoing(a) /\ KeyOf(l.edge) = m.key
           /\ m = PromiseTo(m.req, m.key)
           /\ m.attrs = [job |-> l.edge.job, run |-> l.edge.run, ns |-> l.edge.ns]
<1>1. PICK r \in Request, k \in Keys : Mentioning(r, k) # {} /\ m = PromiseTo(r, k)
  BY DEF Promises
<1> DEFINE a == <<r, 1>>
<1>2. a \in Attempt /\ a[1] = r
  BY CallsAssumption DEF Attempt
<1> HIDE DEF a
<1>3. PICK l \in Outgoing(a) : KeyOf(l.edge) = k
  BY <1>1, <1>2, MentionedIsSent
<1>4. m.req = r /\ m.key = k
  BY <1>1 DEF PromiseTo
<1>5. m.attrs = [job |-> l.edge.job, run |-> l.edge.run, ns |-> l.edge.ns]
  BY <1>1, <1>2, <1>3, PromiseKept
<1> QED BY <1>1, <1>2, <1>3, <1>4, <1>5, OutgoingBuilt

\* What an attempt sends has been promised by its call.
LEMMA SentIsPromised ==
  ASSUME NEW a \in Attempt, NEW l \in Outgoing(a)
  PROVE  \E m \in Promises : m.req = a[1] /\ m.key = KeyOf(l.edge)
<1> DEFINE r == a[1]
           k == KeyOf(l.edge)
<1>1. <<r, k>> \in Request \X Keys /\ Mentioning(r, k) # {}
  BY OutgoingBuilt, MentionedIsSent DEF Attempt
<1>2. PromiseTo(r, k) \in Promises
  BY <1>1 DEF Promises
<1> QED BY <1>2 DEF PromiseTo

\* The calls of the service make coherent promises: what the proofs about the
\* read side assume of the store's calls holds of every call that translate()
\* and its callers can make (translator.py:51-102, main.py:51-85).
THEOREM ServicePromisesCoherent == Store!PromisesCoherent
<1>1. ASSUME NEW m \in Promises
      PROVE  /\ m.key \in Keys
             /\ m.key[3] \in {"consumes", "produces", "derives_from"}
             /\ m.key[3] = "consumes" => m.key[2] = m.attrs.job
             /\ m.key[3] = "produces" => m.key[1] = m.attrs.job
             /\ m.key[3] = "derives_from" =>
                  \E c, p \in Promises :
                    /\ c.req = m.req /\ c.key = <<m.key[1], m.attrs.job, "consumes">>
                    /\ p.req = m.req /\ p.key = <<m.attrs.job, m.key[2], "produces">>
  <2>1. PICK a \in Attempt, l \in Kept :
          /\ a[1] = m.req /\ l \in Outgoing(a) /\ KeyOf(l.edge) = m.key
          /\ m.attrs = [job |-> l.edge.job, run |-> l.edge.run, ns |-> l.edge.ns]
    BY PromiseIsSent
  <2>2. /\ m.key[1] = l.edge.src /\ m.key[2] = l.edge.dst /\ m.key[3] = l.edge.type
        /\ m.attrs.job = l.edge.job
    BY <2>1 DEF KeyOf
  <2>3. l \in Built /\ l \in BuiltBy(a) /\ m.key \in Keys
    BY <2>1, OutgoingBuilt
  <2>4. ASSUME m.key[3] = "derives_from"
        PROVE  \E c, p \in Promises :
                 /\ c.req = m.req /\ c.key = <<m.key[1], m.attrs.job, "consumes">>
                 /\ p.req = m.req /\ p.key = <<m.attrs.job, m.key[2], "produces">>
    <3>1. PICK x \in BuiltBy(a) : KeyOf(x.edge) = <<l.edge.src, l.edge.job, "consumes">>
      BY <2>2, <2>3, <2>4, DerivationBuilt
    <3>2. PICK y \in BuiltBy(a) : KeyOf(y.edge) = <<l.edge.job, l.edge.dst, "produces">>
      BY <2>2, <2>3, <2>4, DerivationBuilt
    <3>3. PICK c \in Promises : c.req = a[1] /\ c.key = KeyOf(x.edge)
      <4>1. PICK z \in Outgoing(a) : KeyOf(z.edge) = KeyOf(x.edge)
        BY KeysSurvive
      <4> QED BY <4>1, SentIsPromised
    <3>4. PICK p \in Promises : p.req = a[1] /\ p.key = KeyOf(y.edge)
      <4>1. PICK z \in Outgoing(a) : KeyOf(z.edge) = KeyOf(y.edge)
        BY KeysSurvive
      <4> QED BY <4>1, SentIsPromised
    <3> QED BY <2>1, <2>2, <3>1, <3>2, <3>3, <3>4
  <2> QED BY <2>2, <2>3, <2>4, JobEnds
<1>2. ASSUME NEW m \in Promises, NEW n \in Promises, m.req = n.req, m.key = n.key
      PROVE  m = n
  BY <1>2, PromiseIsSent
<1> QED BY <1>1, <1>2 DEF Store!PromisesCoherent

\* And where the URNs of the jobs tell their namespaces, so do the promises.
THEOREM ServiceJobsTellNamespace ==
  ASSUME JobUrnsDistinct
  PROVE  Store!JobsTellNamespace
<1>1. ASSUME NEW m \in Promises
      PROVE  \E e \in Edges : m.attrs.job = e.job /\ m.attrs.ns = e.ns
  <2>1. PICK a \in Attempt, l \in Kept :
          /\ l \in Outgoing(a)
          /\ m.attrs = [job |-> l.edge.job, run |-> l.edge.run, ns |-> l.edge.ns]
    BY PromiseIsSent
  <2>2. l.edge \in Edges /\ m.attrs.job = l.edge.job /\ m.attrs.ns = l.edge.ns
    BY <2>1, OutgoingBuilt, BuiltShape
  <2> QED BY <2>2
<1> QED BY <1>1, JobUrnsDistinct DEF JobUrnsDistinct, Store!JobsTellNamespace

-----------------------------------------------------------------------------
\* Why every call ends, as far as it can be said without fairness: handlers run
\* out of steps, and until then there is one that can take its next.

\* The handlers that have not answered yet.
Busy == {a \in Attempt : pc[a] \in {"posted", "executing", "committed"}}

\* The handler's next step waits for nobody.
CanGo(a) ==
  \/ pc[a] \in {"posted", "committed"}
  \/ pc[a] = "executing" /\ stmt[a] = {}
  \/ /\ pc[a] = "executing"
     /\ \E l \in stmt[a] : IsTurn(a, l) /\ \A b \in Attempt \ {a} : ~ Holds(b, KeyOf(l.edge))

\* While calls are under way the event loop has a handler to resume, or
\* PostgreSQL a ring to break.
NoStandstill == Busy # {} => (\E a \in Busy : CanGo(a)) \/ (\E a \in Busy : OnCycle(a))

\* The steps an attempt has left at most, two of them for each edge.
Left(a) ==
  IF pc[a] = "idle" THEN 2 * Cardinality(Outgoing(a)) + 4
  ELSE IF pc[a] = "posted" THEN 2 * Cardinality(Outgoing(a)) + 3
  ELSE IF pc[a] = "executing" THEN 2 * Cardinality(todo[a]) + Cardinality(stmt[a]) + 2
  ELSE IF pc[a] = "committed" THEN 1 ELSE 0

\* Every step is one of one attempt's last.
StepsRunOut ==
  [][\E a \in Attempt : /\ Left(a) \in Nat /\ Left(a)' \in Nat /\ Left(a)' < Left(a)
                        /\ \A b \in Attempt \ {a} : Left(b)' = Left(b)]_vars

\* Where everybody waits for somebody some wait in a ring.
LEMMA RingExists ==
  ASSUME NEW S, IsFiniteSet(S), S # {}, NEW W \in [S -> (SUBSET S) \ {{}}]
  PROVE  \E R \in SUBSET S : R # {} /\ UNION {W[x] : x \in R} = R
<1> DEFINE closed == {R \in SUBSET S : R # {} /\ UNION {W[x] : x \in R} \subseteq R}
           sizes == {Cardinality(R) : R \in closed}
<1>1. S \in closed
  OBVIOUS
<1>2. \A R \in closed : IsFiniteSet(R) /\ Cardinality(R) \in Nat
  BY FS_Subset, FS_CardinalityType
<1>3. PICK n \in sizes : \A m \in sizes : n <= m
  <2>1. sizes \in SUBSET Nat /\ sizes # {}
    BY <1>1, <1>2
  <2> HIDE DEF sizes
  <2> QED BY <2>1, LeastNatural
<1>4. PICK R \in closed : \A Q \in closed : Cardinality(R) <= Cardinality(Q)
  BY <1>3
<1> DEFINE T == UNION {W[x] : x \in R}
<1>5. T \subseteq R /\ T # {}
  <2>1. PICK x \in R : TRUE
    BY <1>4
  <2>2. W[x] # {}
    BY <1>4
  <2> QED BY <1>4, <2>2
<1>6. T \in closed
  BY <1>4, <1>5
<1>7. Cardinality(T) = Cardinality(R)
  <2>1. IsFiniteSet(R) /\ Cardinality(T) \in Nat /\ Cardinality(R) \in Nat
    BY <1>2, <1>4, <1>6
  <2>2. Cardinality(R) <= Cardinality(T)
    BY <1>4, <1>6
  <2>3. Cardinality(T) <= Cardinality(R)
    <3> HIDE DEF T
    <3> QED BY <1>5, <2>1, FS_Subset
  <2> QED BY <2>1, <2>2, <2>3
<1>8. T = R
  <2> HIDE DEF T
  <2> QED BY <1>2, <1>4, <1>5, <1>7, FS_Subset
<1> QED BY <1>4, <1>8

\* A running statement has a row whose turn it is.
LEMMA TurnExists ==
  ASSUME NEW a \in Attempt, NEW ls, ls \subseteq Outgoing(a), ls # {}
  PROVE  \E l \in ls : \A m \in ls : ~ Before(m.at, l.at)
<1> DEFINE places == {l.at : l \in ls}
<1>1. PICK p \in places : \A q \in places : ~ Before(q, p)
  <2>1. places \in SUBSET Place /\ places # {}
    BY OutgoingOrdered
  <2> HIDE DEF places
  <2> QED BY <2>1, FirstPlace
<1> QED BY <1>1

LEMMA BusyGoesOn ==
  ASSUME IInv, IsFiniteSet(Sent)
  PROVE  NoStandstill
<1> SUFFICES ASSUME Busy # {}, \A a \in Busy : ~ CanGo(a)
             PROVE  \E a \in Busy : OnCycle(a)
  BY DEF NoStandstill
<1>1. ASSUME NEW a \in Busy
      PROVE  a \in Attempt /\ pc[a] = "executing" /\ WaitsFor(a) # {} /\ WaitsFor(a) \subseteq Busy
  <2>1. a \in Attempt /\ pc[a] = "executing" /\ stmt[a] # {}
    BY DEF Busy, CanGo
  <2>2. stmt[a] \subseteq Outgoing(a)
    BY <2>1 DEF IInv, TransactionsConsistent, TransactionConsistent
  <2>3. PICK l \in stmt[a] : IsTurn(a, l)
    BY <2>1, <2>2, TurnExists DEF IsTurn
  <2>4. PICK b \in Attempt \ {a} : Holds(b, KeyOf(l.edge))
    BY <2>1, <2>3 DEF CanGo
  <2>5. ASSUME NEW c \in WaitsFor(a)
        PROVE  c \in Busy
    <3>1. PICK m \in stmt[a] : Holds(c, KeyOf(m.edge)) /\ c \in Attempt
      BY <2>5 DEF WaitsFor
    <3>2. KeyOf(m.edge) \in Keys
      BY <2>1, <2>2, <3>1, OutgoingBuilt
    <3>3. pc[c] = "executing"
      BY <3>1, <3>2 DEF IInv, TransactionsConsistent, TransactionConsistent, Holds, Unwritten
    <3> QED BY <3>1, <3>3 DEF Busy
  <2> QED BY <2>1, <2>3, <2>4, <2>5 DEF WaitsFor
<1>2. IsFiniteSet(Busy)
  <2>1. Busy \subseteq Sent
    BY DEF Busy, Sent
  <2> QED BY <2>1, FS_Subset
<1> DEFINE W == [b \in Busy |-> WaitsFor(b)]
<1>3. W \in [Busy -> (SUBSET Busy) \ {{}}]
  BY <1>1
<1>4. PICK R \in SUBSET Busy : R # {} /\ UNION {W[x] : x \in R} = R
  <2> HIDE DEF W
  <2> QED BY <1>2, <1>3, RingExists
<1>5. UNION {WaitsFor(b) : b \in R} = R
  BY <1>4
<1>6. R \in SUBSET Waiting
  BY <1>1 DEF Waiting
<1> QED BY <1>4, <1>5, <1>6 DEF OnCycle

\* While a call is under way some handler can take its next step, or a ring of
\* transactions is there for PostgreSQL to break: for any number of calls no
\* wait is for ever (main.py:51-85, repository.py:29-51; Ingest.tla,
\* EveryCallEnds).
THEOREM NobodyStandsStill == Spec => []NoStandstill
<1> DEFINE F == IsFiniteSet(Sent)
<1>1. Init => F
  <2>1. Init => Sent = {}
    BY DEF Init, Sent
  <2> QED BY <2>1, FS_EmptySet
<1>2. IInv /\ F /\ [Next]_vars => F'
  <2> SUFFICES ASSUME IInv, F, [Next]_vars PROVE F'
    OBVIOUS
  <2>1. CASE UNCHANGED vars
    BY <2>1 DEF Sent, vars
  <2>2. ASSUME NEW a \in Attempt, Step(a) PROVE F'
    <3>1. Sent' \subseteq Sent \cup {a}
      BY <2>2, Bystanders DEF Sent, IInv
    <3>2. IsFiniteSet(Sent \cup {a})
      BY FS_AddElement
    <3> QED BY <3>1, <3>2, FS_Subset
  <2> QED BY <2>1, <2>2 DEF Next, Quiescent
<1>3. IInv /\ F => NoStandstill
  BY BusyGoesOn
<1> HIDE DEF F
<1> QED BY <1>1, <1>2, <1>3, IInvHolds, PTL DEF Spec

LEMMA StepCosts ==
  ASSUME IInv, NEW a \in Attempt, Step(a)
  PROVE  Left(a) \in Nat /\ Left(a)' \in Nat /\ Left(a)' < Left(a)
<1> DEFINE n == Cardinality(Outgoing(a))
           t == Cardinality(todo[a])
           s == Cardinality(stmt[a])
<1>0. TypeOK /\ TransactionConsistent(a) /\ OutcomeConsistent(a)
  BY DEF IInv, TransactionsConsistent, OutcomesConsistent
<1>1. IsFiniteSet(Outgoing(a)) /\ n \in Nat
  BY OutgoingFinite, FS_CardinalityType
<1>2. /\ IsFiniteSet(todo[a]) /\ IsFiniteSet(stmt[a]) /\ t \in Nat /\ s \in Nat
      /\ todo[a] \subseteq Outgoing(a) /\ stmt[a] \subseteq Outgoing(a)
  <2>1. todo[a] \subseteq Outgoing(a) /\ stmt[a] \subseteq Outgoing(a)
    BY <1>0 DEF TransactionConsistent
  <2> QED BY <1>1, <2>1, FS_Subset, FS_CardinalityType
<1>3. CASE Post(a)
  <2>1. pc[a] = "idle" /\ pc'[a] = "posted"
    BY <1>0, <1>3 DEF Post, TypeOK
  <2> HIDE DEF n
  <2> QED BY <1>1, <2>1 DEF Left, n
<1>4. CASE Translate(a)
  <2>1. /\ pc[a] = "posted" /\ pc'[a] = "executing"
        /\ todo'[a] = Outgoing(a) /\ stmt'[a] = {}
    BY <1>0, <1>4 DEF Translate, TransactionConsistent, TypeOK
  <2>2. Cardinality(stmt'[a]) = 0
    BY <2>1, FS_EmptySet
  <2>3. Left(a) = 2 * n + 3 /\ Left(a)' = 2 * n + 2
    BY <1>1, <2>1, <2>2 DEF Left
  <2> HIDE DEF n
  <2> QED BY <1>1, <2>3
<1>5. CASE Send(a)
  <2> DEFINE chunk == NextChunk(todo[a])
  <2>1. ~ Ambiguous(chunk)
    <3>1. chunk \subseteq Outgoing(a)
      BY <1>2, ChunkOfTodo
    <3> QED BY <3>1, OutgoingKeysDiffer DEF Ambiguous
  <2>2. /\ pc[a] = "executing" /\ pc'[a] = "executing"
        /\ stmt[a] = {} /\ todo[a] # {} /\ stmt'[a] = chunk /\ todo'[a] = todo[a] \ chunk
    BY <1>0, <1>5, <2>1 DEF Send, TypeOK
  <2>3. chunk # {}
    <3>1. PICK l \in todo[a] : \A m \in todo[a] : ~ Before(m.at, l.at)
      BY <1>2, <2>2, TurnExists
    <3> DEFINE before == {m \in todo[a] : Before(m.at, l.at)}
    <3>2. before = {}
      BY <3>1
    <3>3. Cardinality(before) < Chunk
      <4> HIDE DEF before
      <4>1. 0 < Chunk
        BY IngestAssumption
      <4> QED BY <3>2, <4>1, FS_EmptySet
    <3> QED BY <3>1, <3>3 DEF NextChunk
  <2>4. chunk \subseteq todo[a]
    BY ChunkOfTodo
  <2> HIDE DEF chunk
  <2>5. IsFiniteSet(chunk) /\ Cardinality(chunk) \in Nat /\ Cardinality(chunk) # 0
    BY <1>2, <2>3, <2>4, FS_Subset, FS_CardinalityType, FS_EmptySet
  <2>6. Cardinality(todo[a] \ chunk) = t - Cardinality(chunk)
    <3>1. todo[a] \cap chunk = chunk
      BY <2>4
    <3> QED BY <1>2, <3>1, FS_Difference
  <2>7. Cardinality(todo[a] \ chunk) \in Nat
    BY <1>2, FS_Difference, FS_CardinalityType
  <2>8. Cardinality(stmt[a]) = 0
    BY <2>2, FS_EmptySet
  <2>9. /\ Left(a) = 2 * t + 2
        /\ Left(a)' = 2 * Cardinality(todo[a] \ chunk) + Cardinality(chunk) + 2
    BY <1>2, <2>2, <2>8 DEF Left
  <2> HIDE DEF t
  <2> QED BY <1>2, <2>5, <2>6, <2>7, <2>9
<1>6. CASE InsertRow(a)
  <2>1. PICK l \in stmt[a] : stmt' = [stmt EXCEPT ![a] = @ \ {l}] /\ UNCHANGED <<pc, todo>>
                             /\ pc[a] = "executing"
    BY <1>6 DEF InsertRow
  <2>2. stmt'[a] = stmt[a] \ {l}
    BY <1>0, <2>1 DEF TypeOK
  <2>3. IsFiniteSet(stmt'[a]) /\ Cardinality(stmt'[a]) = s - 1
    BY <1>2, <2>2, FS_RemoveElement
  <2>4. Cardinality(stmt'[a]) \in Nat
    BY <2>3, FS_CardinalityType
  <2>5. Left(a) = 2 * t + s + 2 /\ Left(a)' = 2 * t + Cardinality(stmt'[a]) + 2
    BY <2>1 DEF Left
  <2> HIDE DEF t, s
  <2> QED BY <1>2, <2>3, <2>4, <2>5
<1>7. CASE Commit(a)
  <2>1. pc[a] = "executing" /\ pc'[a] = "committed"
    BY <1>0, <1>7 DEF Commit, TypeOK
  <2>2. Left(a) = 2 * t + s + 2 /\ Left(a)' = 1
    BY <2>1 DEF Left
  <2> HIDE DEF t, s
  <2> QED BY <1>2, <2>2
<1>8. CASE \/ Reject(a) \/ FailToTranslate(a) \/ NothingToWrite(a) \/ Reply(a)
           \/ Deadlock(a) \/ LoseDatabase(a) \/ LoseWorker(a)
  <2>1. pc[a] \in {"posted", "executing", "committed"} /\ pc'[a] = "done"
    <3>1. Deadlock(a) => pc[a] = "executing"
      BY <1>0 DEF Deadlock, Waiting, WaitsFor, TransactionConsistent
    <3> QED BY <1>0, <1>8, <3>1 DEF Reject, FailToTranslate, NothingToWrite, Reply, Deadlock,
              LoseDatabase, LoseWorker, Answer, TypeOK
  <2>2. Left(a) \in {2 * n + 3, 2 * t + s + 2, 1} /\ Left(a)' = 0
    BY <2>1 DEF Left
  <2> HIDE DEF n, t, s
  <2> QED BY <1>1, <1>2, <2>2
<1> QED BY <1>3, <1>4, <1>5, <1>6, <1>7, <1>8 DEF Step, Handle

\* Handlers run out of steps: an attempt that sends n edges takes at most 2n + 4
\* of them, its own post and its failures included, and no step of another
\* attempt gives it new ones (main.py:51-85, repository.py:29-51).
THEOREM HandlersRunOut == Spec => StepsRunOut
<1>1. IInv /\ [Next]_vars =>
        [\E a \in Attempt : /\ Left(a) \in Nat /\ Left(a)' \in Nat /\ Left(a)' < Left(a)
                            /\ \A b \in Attempt \ {a} : Left(b)' = Left(b)]_vars
  <2> SUFFICES ASSUME IInv, [Next]_vars, ~ UNCHANGED vars
               PROVE  \E a \in Attempt : /\ Left(a) \in Nat /\ Left(a)' \in Nat /\ Left(a)' < Left(a)
                                         /\ \A b \in Attempt \ {a} : Left(b)' = Left(b)
    OBVIOUS
  <2>1. PICK a \in Attempt : Step(a)
    BY DEF Next, Quiescent
  <2>2. ASSUME NEW b \in Attempt \ {a}
        PROVE  Left(b)' = Left(b)
    <3>1. pc'[b] = pc[b] /\ todo'[b] = todo[b] /\ stmt'[b] = stmt[b]
      BY <2>1, Bystanders DEF IInv
    <3> QED BY <3>1 DEF Left
  <2> QED BY <2>1, <2>2, StepCosts
<1> QED BY <1>1, IInvHolds, PTL DEF Spec, StepsRunOut

=============================================================================
