------------------------------ MODULE ReadsProofs ------------------------------
(***************************************************************************)
(* What a read returns, for any calls, queries, readers and depths.  The   *)
(* heart is WalkExact: after d rounds the walk holds the chains of at most *)
(* d rows, and the last round those of exactly d.  No induction over d is  *)
(* needed, a round is a step; and a round that finds nothing finishes the  *)
(* walk because the beginning of a longer chain would be a chain of its    *)
(* length (ChainBegins).                                                   *)
(***************************************************************************)
EXTENDS Reads, SequenceTheorems, TLAPS

\* Three parts of a chain of rows.

\* A chain of one row starts at the node.
LEMMA ChainOfOne ==
  ASSUME NEW t, NEW dir, NEW node, NEW k
  PROVE  Chain(t, dir, node, 1, k) <=> k \in Live(t) /\ From(dir, k) = node
<1>1. ASSUME Chain(t, dir, node, 1, k) PROVE k \in Live(t) /\ From(dir, k) = node
  BY <1>1 DEF Chain
<1>2. ASSUME k \in Live(t), From(dir, k) = node PROVE Chain(t, dir, node, 1, k)
  <2> DEFINE c == [i \in 1..1 |-> k]
  <2>1. c \in [1..1 -> Live(t)] /\ c[1] = k
    BY <1>2
  <2>2. \A i \in 1..(1 - 1) : From(dir, c[i + 1]) = To(dir, c[i])
    OBVIOUS
  <2> HIDE DEF c
  <2> QED BY <1>2, <2>1, <2>2 DEF Chain
<1> QED BY <1>1, <1>2

\* A longer one is a shorter one and a row that follows its last.
LEMMA ChainGrows ==
  ASSUME NEW t, NEW dir, NEW node, NEW n \in Nat \ {0}, NEW k
  PROVE  Chain(t, dir, node, n + 1, k) <=>
           \E j : /\ Chain(t, dir, node, n, j)
                  /\ k \in Live(t) /\ From(dir, k) = To(dir, j)
<1>1. ASSUME Chain(t, dir, node, n + 1, k)
      PROVE  \E j : Chain(t, dir, node, n, j) /\ k \in Live(t) /\ From(dir, k) = To(dir, j)
  <2>1. PICK c \in [1..(n + 1) -> Live(t)] :
          /\ From(dir, c[1]) = node /\ c[n + 1] = k
          /\ \A i \in 1..((n + 1) - 1) : From(dir, c[i + 1]) = To(dir, c[i])
    BY <1>1 DEF Chain
  <2> DEFINE b == [i \in 1..n |-> c[i]]
  <2>2. b \in [1..n -> Live(t)] /\ b[1] = c[1] /\ b[n] = c[n]
    BY <2>1
  <2>3. \A i \in 1..(n - 1) : From(dir, b[i + 1]) = To(dir, b[i])
    <3> SUFFICES ASSUME NEW i \in 1..(n - 1) PROVE From(dir, b[i + 1]) = To(dir, b[i])
      OBVIOUS
    <3>1. i \in 1..((n + 1) - 1) /\ b[i + 1] = c[i + 1] /\ b[i] = c[i]
      OBVIOUS
    <3> QED BY <2>1, <3>1
  <2>4. Chain(t, dir, node, n, c[n])
    <3> HIDE DEF b
    <3> QED BY <2>1, <2>2, <2>3 DEF Chain
  <2>5. k \in Live(t) /\ From(dir, k) = To(dir, c[n])
    BY <2>1
  <2> QED BY <2>4, <2>5
<1>2. ASSUME NEW j, Chain(t, dir, node, n, j), k \in Live(t), From(dir, k) = To(dir, j)
      PROVE  Chain(t, dir, node, n + 1, k)
  <2>1. PICK b \in [1..n -> Live(t)] :
          /\ From(dir, b[1]) = node /\ b[n] = j
          /\ \A i \in 1..(n - 1) : From(dir, b[i + 1]) = To(dir, b[i])
    BY <1>2 DEF Chain
  <2> DEFINE c == [i \in 1..(n + 1) |-> IF i = n + 1 THEN k ELSE b[i]]
  <2>2. c \in [1..(n + 1) -> Live(t)] /\ c[1] = b[1] /\ c[n + 1] = k /\ c[n] = b[n]
    BY <1>2, <2>1
  <2>3. \A i \in 1..((n + 1) - 1) : From(dir, c[i + 1]) = To(dir, c[i])
    <3> SUFFICES ASSUME NEW i \in 1..((n + 1) - 1) PROVE From(dir, c[i + 1]) = To(dir, c[i])
      OBVIOUS
    <3>1. CASE i = n
      BY <1>2, <2>1, <2>2, <3>1
    <3>2. CASE i # n
      <4>1. i \in 1..(n - 1) /\ c[i + 1] = b[i + 1] /\ c[i] = b[i]
        BY <3>2
      <4> QED BY <2>1, <4>1
    <3> QED BY <3>1, <3>2
  <2> HIDE DEF c
  <2> QED BY <2>1, <2>2, <2>3 DEF Chain
<1> QED BY <1>1, <1>2

\* The beginning of a chain is a chain.
LEMMA ChainBegins ==
  ASSUME NEW t, NEW dir, NEW node, NEW n \in Nat, NEW d \in 1..n, NEW k,
         Chain(t, dir, node, n, k)
  PROVE  \E j \in Live(t) : Chain(t, dir, node, d, j)
<1>1. PICK c \in [1..n -> Live(t)] :
        /\ From(dir, c[1]) = node /\ c[n] = k
        /\ \A i \in 1..(n - 1) : From(dir, c[i + 1]) = To(dir, c[i])
  BY DEF Chain
<1> DEFINE b == [i \in 1..d |-> c[i]]
<1>2. b \in [1..d -> Live(t)] /\ b[1] = c[1] /\ b[d] = c[d]
  BY <1>1
<1>3. \A i \in 1..(d - 1) : From(dir, b[i + 1]) = To(dir, b[i])
  <2> SUFFICES ASSUME NEW i \in 1..(d - 1) PROVE From(dir, b[i + 1]) = To(dir, b[i])
    OBVIOUS
  <2>1. i \in 1..(n - 1) /\ b[i + 1] = c[i + 1] /\ b[i] = c[i]
    OBVIOUS
  <2> QED BY <1>1, <2>1
<1>4. c[d] \in Live(t)
  BY <1>1
<1> HIDE DEF b
<1> QED BY <1>1, <1>2, <1>3, <1>4 DEF Chain

\* A chain ends with a row of the table.
LEMMA ChainEnds ==
  ASSUME NEW t, NEW dir, NEW node, NEW n \in Nat \ {0}, NEW k, Chain(t, dir, node, n, k)
  PROVE  k \in Live(t)
BY DEF Chain

\* What a table has, a larger one has.
LEMMA ChainStays ==
  ASSUME NEW t, NEW u, Live(t) \subseteq Live(u),
         NEW dir, NEW node, NEW n \in Nat, NEW k, Chain(t, dir, node, n, k)
  PROVE  Chain(u, dir, node, n, k)
<1>1. PICK c \in [1..n -> Live(t)] :
        /\ From(dir, c[1]) = node /\ c[n] = k
        /\ \A i \in 1..(n - 1) : From(dir, c[i + 1]) = To(dir, c[i])
  BY DEF Chain
<1>2. c \in [1..n -> Live(u)]
  BY <1>1
<1> QED BY <1>1, <1>2 DEF Chain

\* So does what is within a distance of a node.
LEMMA WithinStays ==
  ASSUME NEW t, NEW u, Live(t) \subseteq Live(u), NEW dir, NEW q \in Query
  PROVE  Within(t, dir, q) \subseteq Within(u, dir, q)
<1> SUFFICES ASSUME NEW k \in Live(t), NEW n \in 1..q.depth, Chain(t, dir, q.node, n, k)
             PROVE  k \in Within(u, dir, q)
  BY DEF Within
<1>1. q.depth \in Nat /\ n \in Nat
  BY ReadsAssumption
<1>2. Chain(u, dir, q.node, n, k)
  BY <1>1, ChainStays
<1> QED BY <1>2 DEF Within

-----------------------------------------------------------------------------
\* The store.

Attempt == Request \X Version

\* What has landed is there, and so is what was acknowledged.
LandedPresent ==
  \A m \in Promise : \A w \in landed \cup acked : m.req = w[1] => m.key \in Live(table)

StoreInv ==
  /\ table \in [Key -> Row \cup {NoRow}]
  /\ landed \subseteq Attempt /\ acked \subseteq Attempt
  /\ LandedPresent

\* A promised write is a row.
LEMMA ReplacedIsRow ==
  ASSUME NEW w \in Attempt, NEW k, Writers!Mentions(w, k), NEW old \in Row \cup {NoRow}
  PROVE  Writers!Replaced(Writers!Promised(w, k), old, w) \in Row
<1>1. PICK m \in Promise : Writers!Promised(w, k) = m.attrs
  BY DEF Writers!Mentions, Writers!Promised
<1>2. old # NoRow => old.created \in Attempt /\ old.updated \in Attempt
  BY DEF Row, Attempt
<1> QED BY <1>1, <1>2 DEF Writers!Replaced, Row, Attempt

\* A step of the store takes no row away.
LEMMA StoreStep ==
  ASSUME StoreInv, Writers!Next
  PROVE  StoreInv' /\ Live(table) \subseteq Live(table')
<1>1. PICK w \in Attempt : Writers!Land(w) \/ Writers!Acknowledge(w)
  BY DEF Writers!Next, Attempt
<1>2. CASE Writers!Land(w)
  <2>1. \A k \in Key :
          /\ table'[k] \in Row \cup {NoRow}
          /\ Writers!Mentions(w, k) => table'[k] # NoRow
          /\ ~ Writers!Mentions(w, k) => table'[k] = table[k]
    <3> SUFFICES ASSUME NEW k \in Key
                 PROVE  /\ table'[k] \in Row \cup {NoRow}
                        /\ Writers!Mentions(w, k) => table'[k] # NoRow
                        /\ ~ Writers!Mentions(w, k) => table'[k] = table[k]
      OBVIOUS
    <3>1. table[k] \in Row \cup {NoRow}
      BY DEF StoreInv
    <3>2. table'[k] = IF Writers!Mentions(w, k)
                        THEN Writers!Replaced(Writers!Promised(w, k), table[k], w)
                        ELSE table[k]
      BY <1>2 DEF Writers!Land
    <3>3. CASE Writers!Mentions(w, k)
      BY <3>1, <3>2, <3>3, ReplacedIsRow, ReadsAssumption
    <3>4. CASE ~ Writers!Mentions(w, k)
      BY <3>1, <3>2, <3>4
    <3> QED BY <3>3, <3>4
  <2>2. table' \in [Key -> Row \cup {NoRow}]
    <3>1. table' = [k \in Key |-> table'[k]]
      BY <1>2 DEF Writers!Land
    <3> QED BY <2>1, <3>1
  <2>3. Live(table) \subseteq Live(table')
    BY <2>1 DEF Live
  <2>4. landed' = landed \cup {w} /\ acked' = acked
    BY <1>2 DEF Writers!Land
  <2>5. LandedPresent'
    <3> SUFFICES ASSUME NEW m \in Promise, NEW v \in landed' \cup acked', m.req = v[1]
                 PROVE  m.key \in Live(table')
      BY DEF LandedPresent
    <3>1. CASE v = w
      <4>1. Writers!Mentions(w, m.key) /\ m.key \in Key
        BY <3>1, ReadsAssumption DEF Writers!Mentions
      <4> QED BY <2>1, <4>1 DEF Live
    <3>2. CASE v # w
      BY <2>3, <2>4, <3>2 DEF StoreInv, LandedPresent
    <3> QED BY <3>1, <3>2
  <2> QED BY <2>2, <2>3, <2>4, <2>5 DEF StoreInv
<1>3. CASE Writers!Acknowledge(w)
  <2>1. table' = table /\ landed' = landed /\ acked' = acked \cup {w}
    BY <1>3 DEF Writers!Acknowledge
  <2>2. LandedPresent'
    <3> SUFFICES ASSUME NEW m \in Promise, NEW v \in landed' \cup acked', m.req = v[1]
                 PROVE  m.key \in Live(table')
      BY DEF LandedPresent
    <3>1. CASE v \in landed \cup acked
      BY <2>1, <3>1 DEF StoreInv, LandedPresent
    <3>2. CASE v \notin landed \cup acked
      <4>1. v = w /\ v \notin landed
        BY <2>1, <3>2
      <4>2. \A k \in Key : ~ Writers!Mentions(w, k)
        BY <1>3, <4>1 DEF Writers!Acknowledge
      <4> QED BY <4>1, <4>2, ReadsAssumption DEF Writers!Mentions
    <3> QED BY <3>1, <3>2
  <2> QED BY <2>1, <2>2 DEF StoreInv
<1> QED BY <1>1, <1>2, <1>3

-----------------------------------------------------------------------------
\* The inductive invariant.

Tables  == [Key -> Row \cup {NoRow}]
Entry   == [key : Key, row : Row]

Types ==
  /\ stage \in [Reader -> Stages]
  /\ query \in [Reader -> Query]
  /\ plan \in [Reader -> Seq(Direction)]
  /\ snap \in [Reader -> Tables]
  /\ walk \in [Reader -> SUBSET (Key \X Nat)]
  /\ working \in [Reader -> SUBSET (Key \X Nat)]
  /\ found \in [Reader -> Seq(SUBSET Entry)]
  /\ asked \in [Reader -> [table : Tables, acked : SUBSET Attempt]]

Served(r) == stage[r] \in {"querying", "walking"}

\* The statements that are done and those that are left make up the request.
PlanFits(r) ==
  /\ Served(r) <=> plan[r] # <<>>
  /\ Served(r) \/ stage[r] = "answered" =>
       /\ Accepted(query[r])
       /\ Len(found[r]) + Len(plan[r]) = Len(Statements(query[r]))
       /\ \A i \in 1..Len(plan[r]) : plan[r][i] = Statements(query[r])[Len(found[r]) + i]
  /\ stage[r] \in {"idle", "rejected", "failed"} => found[r] = <<>>

\* The rows on chains of so many rows.
Ways(t, dir, node, S) == {w \in Live(t) \X S : Chain(t, dir, node, w[2], w[1])}

WalkExact(r) ==
  IF stage[r] = "walking"
    THEN \E d \in 1..query[r].depth :
           /\ walk[r] = Ways(snap[r], Head(plan[r]), query[r].node, 1..d)
           /\ \/ working[r] = Ways(snap[r], Head(plan[r]), query[r].node, {d})
              \/ working[r] = {} /\ d = query[r].depth
    ELSE walk[r] = {} /\ working[r] = {}

\* The table has only grown since the request and since the statement began.
Grown(r) ==
  /\ Live(asked[r].table) \subseteq Live(table)
  /\ stage[r] = "walking" =>
       Live(asked[r].table) \subseteq Live(snap[r]) /\ Live(snap[r]) \subseteq Live(table)
  /\ \A m \in Promise : \A w \in asked[r].acked :
       m.req = w[1] => m.key \in Live(asked[r].table)

KeysOf(rows) == {e.key : e \in rows}

FoundFits(r) ==
  \A i \in 1..Len(found[r]) :
    /\ Within(asked[r].table, Statements(query[r])[i], query[r]) \subseteq KeysOf(found[r][i])
    /\ KeysOf(found[r][i]) \subseteq Within(table, Statements(query[r])[i], query[r])
    /\ \A e, f \in found[r][i] : e.key = f.key => e = f

ReaderInv(r) == PlanFits(r) /\ WalkExact(r) /\ Grown(r) /\ FoundFits(r)

IInv == StoreInv /\ Types /\ \A r \in Reader : ReaderInv(r)

\* The statements of a request are one or two directions.
LEMMA StatementsAre ==
  ASSUME NEW q \in Query
  PROVE  /\ Statements(q) \in Seq(Direction) /\ Statements(q) # <<>>
         /\ Len(Statements(q)) \in 1..2
         /\ q.op \notin Direction => Statements(q) = <<"upstream", "downstream">>
<1>1. CASE q.op \in Direction
  <2>1. Statements(q) = <<q.op>>
    BY <1>1 DEF Statements
  <2>2. <<q.op>> \in Seq(Direction) /\ Len(<<q.op>>) = 1 /\ <<q.op>> # <<>>
    BY <1>1
  <2> QED BY <1>1, <2>1, <2>2
<1>2. CASE q.op \notin Direction
  <2>1. Statements(q) = <<"upstream", "downstream">>
    BY <1>2 DEF Statements
  <2>2. "upstream" \in Direction /\ "downstream" \in Direction
    BY DEF Direction
  <2> HIDE DEF Direction
  <2>3. <<"upstream", "downstream">> \in Seq(Direction)
        /\ Len(<<"upstream", "downstream">>) = 2 /\ <<"upstream", "downstream">> # <<>>
    BY <2>2
  <2> QED BY <2>1, <2>3
<1> QED BY <1>1, <1>2

\* It holds at the beginning.
LEMMA IInvInit == Init => IInv
<1> SUFFICES ASSUME Init PROVE IInv
  OBVIOUS
<1> USE DEF Init, Writers!Init, Nothing
<1>1. StoreInv
  BY DEF StoreInv, LandedPresent
<1>2. (CHOOSE q \in Query : TRUE) \in Query
  BY ReadsAssumption
<1>3. Types
  BY <1>2 DEF Types, Stages, Tables
<1>4. ASSUME NEW r \in Reader PROVE ReaderInv(r)
  BY DEF ReaderInv, PlanFits, Served, WalkExact, Grown, FoundFits, Live
<1> QED BY <1>1, <1>3, <1>4 DEF IInv

\* A reader that does nothing keeps its part while the table grows.
LEMMA ReaderWaits ==
  ASSUME NEW r \in Reader, Types, ReaderInv(r), Live(table) \subseteq Live(table'),
         stage'[r] = stage[r], query'[r] = query[r], plan'[r] = plan[r], snap'[r] = snap[r],
         walk'[r] = walk[r], working'[r] = working[r], found'[r] = found[r], asked'[r] = asked[r]
  PROVE  ReaderInv(r)'
<1>1. PlanFits(r)'
  BY DEF ReaderInv, PlanFits, Served
<1>2. WalkExact(r)'
  BY DEF ReaderInv, WalkExact
<1>3. Grown(r)'
  BY DEF ReaderInv, Grown
<1>4. FoundFits(r)'
  <2> SUFFICES ASSUME NEW i \in 1..Len(found[r])
               PROVE  Within(table, Statements(query[r])[i], query[r])
                        \subseteq Within(table', Statements(query[r])[i], query[r])
    BY DEF ReaderInv, FoundFits
  <2>1. query[r] \in Query
    BY DEF Types
  <2> QED BY <2>1, WithinStays
<1> QED BY <1>1, <1>2, <1>3, <1>4 DEF ReaderInv

\* A step of another reader.
LEMMA OthersWait ==
  ASSUME NEW r \in Reader, NEW s \in Reader, r # s, Types, ReaderInv(s), UNCHANGED store,
         Serve(r) \/ Fail(r) \/ \E q \in Query : Ask(r, q)
  PROVE  ReaderInv(s)'
<1>1. /\ stage'[s] = stage[s] /\ query'[s] = query[s] /\ plan'[s] = plan[s]
      /\ snap'[s] = snap[s] /\ walk'[s] = walk[s] /\ working'[s] = working[s]
      /\ found'[s] = found[s] /\ asked'[s] = asked[s]
  BY DEF Types, Serve, Start, Extend, Return, Fail, Ask, Close
<1> QED BY <1>1, ReaderWaits DEF store

\* A request.
LEMMA AskStep ==
  ASSUME IInv, NEW r \in Reader, NEW q \in Query, Ask(r, q)
  PROVE  Types' /\ ReaderInv(r)'
<1> USE DEF Ask
<1>1. Statements(q) \in Seq(Direction) /\ Statements(q) # <<>>
  BY StatementsAre
<1>2. Types'
  <2>1. UNCHANGED <<snap, walk, working>>
    OBVIOUS
  <2>2. [table |-> table, acked |-> acked] \in [table : Tables, acked : SUBSET Attempt]
    BY DEF IInv, StoreInv, Tables
  <2>3. asked' \in [Reader -> [table : Tables, acked : SUBSET Attempt]]
    BY <2>2 DEF IInv, Types
  <2>4. stage' \in [Reader -> Stages]
    BY DEF IInv, Types, Stages
  <2>5. plan' \in [Reader -> Seq(Direction)]
    <3>1. PICK p \in Seq(Direction) : plan' = [plan EXCEPT ![r] = p]
      <4>1. <<>> \in Seq(Direction)
        OBVIOUS
      <4> QED BY <1>1, <4>1
    <3>2. plan \in [Reader -> Seq(Direction)]
      BY DEF IInv, Types
    <3> HIDE DEF Ask
    <3> QED BY <3>1, <3>2
  <2>6. query' \in [Reader -> Query] /\ found' \in [Reader -> Seq(SUBSET Entry)]
    BY DEF IInv, Types
  <2> QED BY <2>1, <2>3, <2>4, <2>5, <2>6 DEF IInv, Types
<1>3. /\ query'[r] = q /\ found'[r] = <<>>
      /\ asked'[r] = [table |-> table, acked |-> acked]
      /\ stage'[r] = (IF Accepted(q) THEN "querying" ELSE "rejected")
      /\ plan'[r] = (IF Accepted(q) THEN Statements(q) ELSE <<>>)
      /\ table' = table /\ walk'[r] = {} /\ working'[r] = {}
  BY DEF IInv, Types, store, ReaderInv, WalkExact
<1>4. PlanFits(r)'
  BY <1>1, <1>3 DEF PlanFits, Served
<1>5. WalkExact(r)' /\ FoundFits(r)'
  BY <1>3 DEF WalkExact, FoundFits
<1>6. Grown(r)'
  BY <1>3 DEF Grown, IInv, StoreInv, LandedPresent
<1> QED BY <1>2, <1>4, <1>5, <1>6 DEF ReaderInv

\* The first round of a statement.
LEMMA StartStep ==
  ASSUME IInv, NEW r \in Reader, Start(r)
  PROVE  Types' /\ ReaderInv(r)'
<1> DEFINE dir == Head(plan[r])
           q   == query[r]
<1>0. /\ Types /\ ReaderInv(r) /\ q \in Query /\ q.depth \in Nat /\ q.depth >= 1
      /\ plan[r] # <<>>
  BY ReadsAssumption DEF IInv, Start, ReaderInv, PlanFits, Served, Accepted, Types
<1>1. /\ stage'[r] = "walking" /\ query'[r] = q /\ plan'[r] = plan[r]
      /\ found'[r] = found[r] /\ asked'[r] = asked[r] /\ table' = table
      /\ snap'[r] = table /\ walk'[r] = Seeds(r) /\ working'[r] = Seeds(r)
  BY <1>0 DEF Start, Types, store
<1>2. Seeds(r) = Ways(table, dir, q.node, {1})
  BY ChainOfOne DEF Seeds, Ways
<1>3. Seeds(r) \subseteq Key \X Nat
  BY DEF Seeds, Live
<1>4. Types'
  BY <1>0, <1>3 DEF Start, Types, Stages, IInv, StoreInv, Tables
<1>5. PlanFits(r)'
  BY <1>0, <1>1 DEF PlanFits, Served, Start, ReaderInv
<1>6. WalkExact(r)'
  <2>1. 1..1 = {1} /\ 1 \in 1..q.depth
    BY <1>0
  <2> QED BY <1>1, <1>2, <2>1 DEF WalkExact
<1>7. Grown(r)'
  BY <1>0, <1>1 DEF Grown, ReaderInv
<1>8. FoundFits(r)'
  BY <1>0, <1>1 DEF FoundFits, ReaderInv
<1> QED BY <1>4, <1>5, <1>6, <1>7, <1>8 DEF ReaderInv

\* One more round: from the chains of d rows to those of d + 1.
LEMMA Round ==
  ASSUME NEW r \in Reader, NEW d \in 1..query[r].depth, query[r].depth \in Nat,
         working[r] = Ways(snap[r], Head(plan[r]), query[r].node, {d})
  PROVE  Joined(r) = IF d < query[r].depth
                       THEN Ways(snap[r], Head(plan[r]), query[r].node, {d + 1})
                       ELSE {}
<1> DEFINE t   == snap[r]
           dir == Head(plan[r])
           q   == query[r]
<1>1. \A w \in working[r] : w[2] = d
  BY DEF Ways
<1>2. CASE ~ (d < q.depth)
  <2>1. {w \in working[r] : w[2] < q.depth} = {}
    BY <1>1, <1>2
  <2> QED BY <1>2, <2>1 DEF Joined
<1>3. CASE d < q.depth
  <2>1. ASSUME NEW p \in Joined(r) PROVE p \in Ways(t, dir, q.node, {d + 1})
    <3>1. PICK w \in working[r], k \in Key : Follows(r, k, w) /\ p = <<k, w[2] + 1>>
      BY <2>1 DEF Joined
    <3>2. w[2] = d /\ Chain(t, dir, q.node, d, w[1])
      BY <3>1 DEF Ways
    <3>3. k \in Live(t) /\ From(dir, k) = To(dir, w[1])
      BY <3>1 DEF Follows
    <3>4. Chain(t, dir, q.node, d + 1, k)
      BY <3>2, <3>3, ChainGrows
    <3> QED BY <3>1, <3>2, <3>3, <3>4 DEF Ways
  <2>2. ASSUME NEW p \in Ways(t, dir, q.node, {d + 1}) PROVE p \in Joined(r)
    <3>1. p = <<p[1], d + 1>> /\ p[1] \in Live(t) /\ Chain(t, dir, q.node, d + 1, p[1])
      BY DEF Ways
    <3>2. PICK j : Chain(t, dir, q.node, d, j) /\ From(dir, p[1]) = To(dir, j)
      BY <3>1, ChainGrows
    <3>3. j \in Live(t)
      BY <3>2, ChainEnds
    <3>4. <<j, d>> \in working[r]
      BY <3>2, <3>3 DEF Ways
    <3>5. Follows(r, p[1], <<j, d>>) /\ p[1] \in Key
      BY <3>1, <3>2 DEF Follows, Live
    <3>6. <<j, d>>[2] < q.depth /\ <<j, d>>[2] + 1 = d + 1
      BY <1>3
    <3> QED BY <3>1, <3>4, <3>5, <3>6 DEF Joined
  <2> QED BY <1>3, <2>1, <2>2
<1> QED BY <1>2, <1>3

\* A round joins what the last one found.
LEMMA ExtendStep ==
  ASSUME IInv, NEW r \in Reader, Extend(r)
  PROVE  Types' /\ ReaderInv(r)'
<1> DEFINE t   == snap[r]
           dir == Head(plan[r])
           q   == query[r]
<1>0. Types /\ ReaderInv(r) /\ q \in Query /\ q.depth \in Nat /\ stage[r] = "walking"
  BY ReadsAssumption DEF IInv, Extend, Types
<1>1. /\ stage'[r] = stage[r] /\ query'[r] = q /\ plan'[r] = plan[r] /\ snap'[r] = t
      /\ found'[r] = found[r] /\ asked'[r] = asked[r] /\ table' = table
      /\ walk'[r] = walk[r] \cup Joined(r) /\ working'[r] = Joined(r) \ walk[r]
  BY <1>0 DEF Extend, Types, store
<1>2. PICK d \in 1..q.depth :
        walk[r] = Ways(t, dir, q.node, 1..d) /\ working[r] = Ways(t, dir, q.node, {d})
  BY <1>0 DEF Extend, ReaderInv, WalkExact
<1>3. Joined(r) = IF d < q.depth THEN Ways(t, dir, q.node, {d + 1}) ELSE {}
  BY <1>0, <1>2, Round
<1>4. Joined(r) \subseteq Key \X Nat
  BY <1>0, <1>3 DEF Ways, Live
<1>5. Types'
  BY <1>0, <1>4 DEF Extend, Types, store
<1>6. WalkExact(r)'
  <2>1. CASE d < q.depth
    <3>1. Ways(t, dir, q.node, 1..d) \cup Ways(t, dir, q.node, {d + 1}) =
            Ways(t, dir, q.node, 1..(d + 1))
      <4>1. 1..(d + 1) = (1..d) \cup {d + 1}
        BY <1>0
      <4> QED BY <4>1 DEF Ways
    <3>2. Ways(t, dir, q.node, {d + 1}) \ Ways(t, dir, q.node, 1..d) =
            Ways(t, dir, q.node, {d + 1})
      BY <1>0 DEF Ways
    <3>3. d + 1 \in 1..q.depth
      BY <1>0, <2>1
    <3> QED BY <1>0, <1>1, <1>2, <1>3, <2>1, <3>1, <3>2, <3>3 DEF WalkExact
  <2>2. CASE ~ (d < q.depth)
    <3>1. d = q.depth /\ walk'[r] = walk[r] /\ working'[r] = {}
      BY <1>0, <1>1, <1>3, <2>2
    <3> QED BY <1>0, <1>1, <1>2, <3>1 DEF WalkExact
  <2> QED BY <2>1, <2>2
<1>7. PlanFits(r)'
  BY <1>0, <1>1 DEF PlanFits, Served, ReaderInv
<1>8. Grown(r)'
  BY <1>0, <1>1 DEF Grown, ReaderInv
<1>9. FoundFits(r)'
  BY <1>0, <1>1 DEF FoundFits, ReaderInv
<1> QED BY <1>5, <1>6, <1>7, <1>8, <1>9 DEF ReaderInv

\* A walk that has stopped has every chain that is short enough.
LEMMA WalkFinished ==
  ASSUME IInv, NEW r \in Reader, stage[r] = "walking", working[r] = {}
  PROVE  {w[1] : w \in walk[r]} = Within(snap[r], Head(plan[r]), query[r])
<1> DEFINE t   == snap[r]
           dir == Head(plan[r])
           q   == query[r]
<1>1. q.depth \in Nat
  BY ReadsAssumption DEF IInv, Types
<1>2. PICK d \in 1..q.depth :
        /\ walk[r] = Ways(t, dir, q.node, 1..d)
        /\ Ways(t, dir, q.node, {d}) = {} \/ d = q.depth
  BY DEF IInv, ReaderInv, WalkExact
<1>3. ASSUME NEW k \in Live(t), NEW n \in 1..q.depth, Chain(t, dir, q.node, n, k)
      PROVE  <<k, n>> \in walk[r]
  <2>1. n <= d
    <3> SUFFICES ASSUME ~ (n <= d) PROVE FALSE
      OBVIOUS
    <3>1. n \in Nat /\ d \in 1..n /\ d # q.depth
      BY <1>1
    <3>2. PICK j \in Live(t) : Chain(t, dir, q.node, d, j)
      BY <1>3, <3>1, ChainBegins
    <3>3. <<j, d>> \in Ways(t, dir, q.node, {d})
      BY <3>2 DEF Ways
    <3> QED BY <1>2, <3>1, <3>3
  <2>2. n \in 1..d
    BY <1>1, <2>1
  <2> QED BY <1>2, <1>3, <2>2 DEF Ways
<1>4. ASSUME NEW w \in walk[r] PROVE w[1] \in Within(t, dir, q)
  <2>1. w[1] \in Live(t) /\ w[2] \in 1..d /\ Chain(t, dir, q.node, w[2], w[1])
    BY <1>2 DEF Ways
  <2>2. w[2] \in 1..q.depth
    BY <1>1, <2>1
  <2> QED BY <2>1, <2>2 DEF Within
<1>5. ASSUME NEW k \in Within(t, dir, q) PROVE k \in {w[1] : w \in walk[r]}
  <2>1. k \in Live(t) /\ \E n \in 1..q.depth : Chain(t, dir, q.node, n, k)
    BY DEF Within
  <2>2. PICK n \in 1..q.depth : <<k, n>> \in walk[r]
    BY <1>3, <2>1
  <2> QED BY <2>2
<1> QED BY <1>4, <1>5

\* The rows of a statement.
LEMMA RowsFit ==
  ASSUME IInv, NEW r \in Reader, stage[r] = "walking", working[r] = {}
  PROVE  /\ Rows(r) \subseteq Entry
         /\ KeysOf(Rows(r)) = Within(snap[r], Head(plan[r]), query[r])
         /\ \A e, f \in Rows(r) : e.key = f.key => e = f
<1> DEFINE K == {w[1] : w \in walk[r]}
<1>1. KeysOf(Rows(r)) = K
  <2> HIDE DEF K
  <2>1. Rows(r) = {[key |-> k, row |-> snap[r][k]] : k \in K}
    BY DEF Rows, K
  <2>2. ASSUME NEW k \in K PROVE k \in KeysOf(Rows(r))
    <3>1. [key |-> k, row |-> snap[r][k]] \in Rows(r)
      BY <2>1
    <3>2. [key |-> k, row |-> snap[r][k]].key = k
      OBVIOUS
    <3> QED BY <3>1, <3>2 DEF KeysOf
  <2>3. ASSUME NEW k \in KeysOf(Rows(r)) PROVE k \in K
    <3>1. PICK e \in Rows(r) : e.key = k
      BY DEF KeysOf
    <3> QED BY <2>1, <3>1
  <2> QED BY <2>2, <2>3
<1>2. ASSUME NEW w \in walk[r] PROVE w[1] \in Key /\ snap[r][w[1]] \in Row
  <2>1. w[1] \in Live(snap[r])
    BY DEF IInv, ReaderInv, WalkExact, Ways
  <2>2. snap[r] \in Tables
    BY DEF IInv, Types
  <2> QED BY <2>1, <2>2 DEF Live, Tables
<1>3. Rows(r) \subseteq Entry
  BY <1>2 DEF Rows, Entry
<1>4. \A e, f \in Rows(r) : e.key = f.key => e = f
  BY DEF Rows
<1> QED BY <1>1, <1>3, <1>4, WalkFinished

\* A statement ends, and with the last the request.
LEMMA ReturnStep ==
  ASSUME IInv, NEW r \in Reader, Return(r)
  PROVE  Types' /\ ReaderInv(r)'
<1> DEFINE q == query[r]
           n == Len(found[r])
<1>0. /\ Types /\ ReaderInv(r) /\ q \in Query
      /\ stage[r] = "walking" /\ working[r] = {} /\ Served(r)
      /\ found[r] \in Seq(SUBSET Entry) /\ plan[r] \in Seq(Direction) /\ plan[r] # <<>>
  BY DEF IInv, Return, Types, ReaderInv, PlanFits, Served
<1>1. /\ query'[r] = q /\ asked'[r] = asked[r] /\ table' = table
      /\ plan'[r] = Tail(plan[r]) /\ found'[r] = Append(found[r], Rows(r))
      /\ stage'[r] = (IF Len(plan[r]) = 1 THEN "answered" ELSE "querying")
      /\ walk'[r] = {} /\ working'[r] = {}
  BY <1>0 DEF Return, Close, Types, store
<1>2. /\ Rows(r) \in SUBSET Entry
      /\ KeysOf(Rows(r)) = Within(snap[r], Head(plan[r]), q)
      /\ \A e, f \in Rows(r) : e.key = f.key => e = f
  BY <1>0, RowsFit
<1>3. /\ n \in Nat /\ Len(plan[r]) \in Nat \ {0}
      /\ Tail(plan[r]) \in Seq(Direction) /\ Len(Tail(plan[r])) = Len(plan[r]) - 1
      /\ \A i \in 1..Len(Tail(plan[r])) : Tail(plan[r])[i] = plan[r][i + 1]
      /\ Head(plan[r]) = plan[r][1]
  BY <1>0, HeadTailProperties, EmptySeq, LenProperties
<1>4. LET new == Append(found[r], Rows(r)) IN
      /\ new \in Seq(SUBSET Entry) /\ Len(new) = n + 1
      /\ \A i \in 1..n : new[i] = found[r][i]
      /\ new[n + 1] = Rows(r)
  BY <1>0, <1>2, AppendProperties
<1>5. Types'
  <2>1. Nothing \in Tables
    BY DEF Nothing, Tables
  <2>2. /\ stage' \in [Reader -> Stages] /\ snap' \in [Reader -> Tables]
        /\ walk' \in [Reader -> SUBSET (Key \X Nat)]
        /\ working' \in [Reader -> SUBSET (Key \X Nat)]
        /\ query' \in [Reader -> Query]
        /\ asked' \in [Reader -> [table : Tables, acked : SUBSET Attempt]]
    BY <1>0, <2>1 DEF Return, Close, Types, Stages
  <2>3. plan' \in [Reader -> Seq(Direction)]
    BY <1>0, <1>3 DEF Return, Types
  <2>4. found' \in [Reader -> Seq(SUBSET Entry)]
    BY <1>0, <1>4 DEF Return, Types
  <2> QED BY <2>2, <2>3, <2>4 DEF Types
<1>6. /\ Accepted(q) /\ n + Len(plan[r]) = Len(Statements(q))
      /\ \A i \in 1..Len(plan[r]) : plan[r][i] = Statements(q)[n + i]
  BY <1>0 DEF ReaderInv, PlanFits
<1>7. PlanFits(r)'
  <2>1. plan'[r] # <<>> <=> Len(plan[r]) # 1
    <3>1. \A p \in Seq(Direction) : p = <<>> <=> Len(p) = 0
      BY EmptySeq
    <3>2. Tail(plan[r]) = <<>> <=> Len(plan[r]) - 1 = 0
      BY <1>3, <3>1
    <3>3. Len(plan[r]) - 1 = 0 <=> Len(plan[r]) = 1
      BY <1>3
    <3> QED BY <1>1, <3>2, <3>3
  <2>2. \A i \in 1..Len(plan'[r]) : plan'[r][i] = Statements(q)[Len(found'[r]) + i]
    BY <1>1, <1>3, <1>4, <1>6
  <2>3. Len(found'[r]) + Len(plan'[r]) = Len(Statements(q))
    <3>1. Len(found'[r]) = n + 1
      BY <1>1, <1>4
    <3>4. Len(plan'[r]) = Len(plan[r]) - 1
      BY <1>1, <1>3
    <3>2. n \in Nat /\ Len(plan[r]) \in Nat
      BY <1>3
    <3>3. \A a, b \in Nat : (a + 1) + (b - 1) = a + b
      OBVIOUS
    <3>5. (n + 1) + (Len(plan[r]) - 1) = n + Len(plan[r])
      BY <3>2, <3>3
    <3> HIDE DEF n
    <3> QED BY <1>6, <3>1, <3>4, <3>5 DEF n
  <2>4. (stage'[r] = "querying" <=> Len(plan[r]) # 1) /\ stage'[r] \in {"querying", "answered"}
    BY <1>1
  <2>5. Served(r)' <=> plan'[r] # <<>>
    BY <2>1, <2>4 DEF Served
  <2>6. Accepted(query[r])'
    BY <1>1, <1>6 DEF Accepted
  <2> QED BY <1>1, <2>2, <2>3, <2>4, <2>5, <2>6 DEF PlanFits
<1>8. WalkExact(r)'
  BY <1>1 DEF WalkExact
<1>9. Grown(r)'
  BY <1>0, <1>1 DEF Grown, ReaderInv
<1>10. FoundFits(r)'
  <2> SUFFICES ASSUME NEW i \in 1..(n + 1)
               PROVE  LET rows == Append(found[r], Rows(r))[i]
                          dir  == Statements(q)[i]
                      IN  /\ Within(asked[r].table, dir, q) \subseteq KeysOf(rows)
                          /\ KeysOf(rows) \subseteq Within(table, dir, q)
                          /\ \A e, f \in rows : e.key = f.key => e = f
    BY <1>1, <1>4 DEF FoundFits
  <2>1. CASE i # n + 1
    <3>1. i \in 1..n
      BY <1>3, <2>1
    <3> QED BY <1>0, <1>4, <3>1 DEF ReaderInv, FoundFits
  <2>2. CASE i = n + 1
    <3>1. Head(plan[r]) = Statements(q)[i]
      BY <1>3, <1>6, <2>2
    <3>2. /\ Live(asked[r].table) \subseteq Live(snap[r])
          /\ Live(snap[r]) \subseteq Live(table)
      BY <1>0 DEF ReaderInv, Grown
    <3>3. /\ Within(asked[r].table, Head(plan[r]), q) \subseteq Within(snap[r], Head(plan[r]), q)
          /\ Within(snap[r], Head(plan[r]), q) \subseteq Within(table, Head(plan[r]), q)
      BY <1>0, <3>2, WithinStays
    <3> QED BY <1>2, <1>4, <2>2, <3>1, <3>3
  <2> QED BY <2>1, <2>2
<1> QED BY <1>5, <1>7, <1>8, <1>9, <1>10 DEF ReaderInv

\* A request that fails returns nothing.
LEMMA FailStep ==
  ASSUME IInv, NEW r \in Reader, Fail(r)
  PROVE  Types' /\ ReaderInv(r)'
<1>0. Types /\ ReaderInv(r)
  BY DEF IInv
<1>1. /\ query'[r] = query[r] /\ asked'[r] = asked[r] /\ table' = table
      /\ plan'[r] = <<>> /\ found'[r] = <<>> /\ stage'[r] = "failed"
      /\ walk'[r] = {} /\ working'[r] = {}
  BY <1>0 DEF Fail, Close, Types, store
<1>2. Types'
  <2>1. Nothing \in Tables
    BY DEF Nothing, Tables
  <2> QED BY <1>0, <2>1 DEF Fail, Close, Types, Stages
<1>3. PlanFits(r)' /\ WalkExact(r)' /\ FoundFits(r)'
  BY <1>1 DEF PlanFits, Served, WalkExact, FoundFits
<1>4. Grown(r)'
  BY <1>0, <1>1 DEF Grown, ReaderInv
<1> QED BY <1>2, <1>3, <1>4 DEF ReaderInv

\* Every step keeps the invariant.
LEMMA IInvStep == IInv /\ [Next]_vars => IInv'
<1> SUFFICES ASSUME IInv, [Next]_vars PROVE IInv'
  OBVIOUS
<1>1. CASE Write
  <2>1. StoreInv' /\ Live(table) \subseteq Live(table') /\ UNCHANGED request
    BY <1>1, StoreStep DEF Write, IInv
  <2>2. Types'
    BY <2>1 DEF IInv, Types, request
  <2>3. ASSUME NEW r \in Reader PROVE ReaderInv(r)'
    BY <2>1, ReaderWaits DEF IInv, request
  <2> QED BY <2>1, <2>2, <2>3 DEF IInv
<1>2. ASSUME NEW r \in Reader, Serve(r) \/ Fail(r) \/ \E q \in Query : Ask(r, q)
      PROVE  IInv'
  <2>1. Types' /\ ReaderInv(r)'
    BY <1>2, AskStep, StartStep, ExtendStep, ReturnStep, FailStep DEF Serve
  <2>2. UNCHANGED store
    BY <1>2 DEF Serve, Start, Extend, Return, Fail, Ask, store
  <2>3. ASSUME NEW s \in Reader, s # r PROVE ReaderInv(s)'
    BY <1>2, <2>2, <2>3, OthersWait DEF IInv
  <2>4. StoreInv'
    BY <2>2 DEF IInv, StoreInv, LandedPresent, store, Live
  <2> QED BY <2>1, <2>3, <2>4 DEF IInv
<1>3. CASE UNCHANGED vars
  <2>1. StoreInv' /\ Types' /\ UNCHANGED <<store, request>>
    BY <1>3 DEF IInv, StoreInv, LandedPresent, Live, Types, vars, store, request
  <2>2. ASSUME NEW r \in Reader PROVE ReaderInv(r)'
    BY <2>1, ReaderWaits DEF IInv, store, request
  <2> QED BY <2>1, <2>2 DEF IInv
<1> QED BY <1>1, <1>2, <1>3 DEF Next

-----------------------------------------------------------------------------
\* The theorems.

LEMMA Invariance == Spec => []IInv
BY IInvInit, IInvStep, PTL DEF Spec

\* What the variables may hold (Reads.tla, ReadsTypeOK): the statements left and
\* the lists found fit the request, and no walk leaves its snapshot or depth.
THEOREM TypeCorrect == Spec => []ReadsTypeOK
<1>1. IInv => ReadsTypeOK
  <2> SUFFICES ASSUME IInv PROVE ReadsTypeOK
    OBVIOUS
  <2>1. ASSUME NEW r \in Reader
        PROVE  /\ Len(plan[r]) + Len(found[r]) <= 2
               /\ stage[r] \in {"querying", "walking"} <=> plan[r] # <<>>
    <3>1. PlanFits(r) /\ query[r] \in Query /\ stage[r] \in Stages
          /\ plan[r] \in Seq(Direction)
      BY DEF IInv, ReaderInv, Types
    <3>2. Len(Statements(query[r])) \in 1..2
      BY <3>1, StatementsAre
    <3>3. Len(plan[r]) \in Nat /\ Len(found[r]) \in Nat
      <4>1. found[r] \in Seq(SUBSET Entry)
        BY DEF IInv, Types
      <4> QED BY <3>1, <4>1, LenProperties
    <3>4. CASE Served(r) \/ stage[r] = "answered"
      <4>1. Len(found[r]) + Len(plan[r]) = Len(Statements(query[r]))
        BY <3>1, <3>4 DEF PlanFits
      <4>2. \A a, b \in Nat : \A c \in 1..2 : a + b = c => b + a <= 2
        OBVIOUS
      <4>3. Len(plan[r]) + Len(found[r]) <= 2
        BY <3>2, <3>3, <4>1, <4>2
      <4> QED BY <3>1, <4>3 DEF PlanFits, Served
    <3>5. CASE ~ (Served(r) \/ stage[r] = "answered")
      <4>1. plan[r] = <<>> /\ found[r] = <<>>
        BY <3>1, <3>5 DEF PlanFits, Served, Stages
      <4> QED BY <3>1, <4>1 DEF PlanFits, Served
    <3> QED BY <3>4, <3>5
  <2>2. ASSUME NEW r \in Reader
        PROVE  walk[r] \subseteq Live(snap[r]) \X (1..MaxDepth) /\ working[r] \subseteq walk[r]
    <3>1. CASE stage[r] = "walking"
      <4>1. Accepted(query[r])
        BY <3>1 DEF IInv, ReaderInv, PlanFits, Served
      <4>2. query[r].depth \in 1..MaxDepth /\ MaxDepth \in Nat
        BY <4>1, ReadsAssumption DEF Accepted
      <4>3. PICK d \in 1..query[r].depth :
              /\ walk[r] = Ways(snap[r], Head(plan[r]), query[r].node, 1..d)
              /\ \/ working[r] = Ways(snap[r], Head(plan[r]), query[r].node, {d})
                 \/ working[r] = {} /\ d = query[r].depth
        BY <3>1 DEF IInv, ReaderInv, WalkExact
      <4>4. 1..d \subseteq 1..MaxDepth /\ d \in 1..d
        BY <4>2
      <4> QED BY <4>3, <4>4 DEF Ways
    <3>2. CASE stage[r] # "walking"
      BY <3>2 DEF IInv, ReaderInv, WalkExact
    <3> QED BY <3>1, <3>2
  <2> QED BY <2>1, <2>2 DEF ReadsTypeOK, IInv, StoreInv, Types
<1> QED BY <1>1, Invariance, PTL

\* WITH RECURSIVE in rounds finds, whatever cycles the graph has, exactly the
\* rows on chains of at most depth rows (repository.py:88-103).
THEOREM WalksExactly == Spec => []StatementExact
<1>1. IInv => StatementExact
  BY WalkFinished DEF StatementExact
<1> QED BY <1>1, Invariance, PTL

\* No list of an answer names an edge twice (repository.py:79-86).
THEOREM KeysOnce == Spec => []OneRowPerKey
<1>1. IInv => OneRowPerKey
  <2> SUFFICES ASSUME IInv, NEW r \in Reader, stage[r] = "answered",
                      NEW i \in DOMAIN Answer(r), NEW e \in Answer(r)[i], NEW f \in Answer(r)[i],
                      e.key = f.key
               PROVE  e = f
    BY DEF OneRowPerKey
  <2>1. found[r] \in Seq(SUBSET Entry)
    BY DEF IInv, Types
  <2>2. \A j \in 1..Len(found[r]) : \A x, y \in found[r][j] : x.key = y.key => x = y
    BY DEF IInv, ReaderInv, FoundFits
  <2>3. CASE query[r].op = "both" /\ Len(found[r]) = 2
    <3>1. Answer(r) = <<Merged(found[r][1], found[r][2])>>
      BY <2>3 DEF Answer
    <3>2. {e, f} \subseteq Merged(found[r][1], found[r][2])
      BY <3>1
    <3> QED BY <2>2, <2>3, <3>2 DEF Merged
  <2>4. CASE ~ (query[r].op = "both" /\ Len(found[r]) = 2)
    BY <2>1, <2>2, <2>4 DEF Answer
  <2> QED BY <2>3, <2>4
<1> QED BY <1>1, Invariance, PTL

\* The keys of an answer are those its statements found: merging drops no edge.
LEMMA MergeLosesNothing ==
  ASSUME IInv, NEW r \in Reader, stage[r] = "answered"
  PROVE  KeysIn(Answer(r)) = KeysIn(found[r])
<1>1. found[r] \in Seq(SUBSET Entry)
  BY DEF IInv, Types
<1>2. CASE query[r].op = "both" /\ Len(found[r]) = 2
  <2> DEFINE up   == found[r][1]
             down == found[r][2]
  <2>1. KeysIn(Answer(r)) = KeysOf(Merged(up, down))
    <3>1. Answer(r) = <<Merged(up, down)>>
      BY <1>2 DEF Answer
    <3> HIDE DEF up, down
    <3>2. KeysIn(Answer(r)) = UNION {KeysOf(<<Merged(up, down)>>[i]) : i \in {1}}
      BY <3>1 DEF KeysIn, KeysOf
    <3> QED BY <3>2
  <2>2. KeysIn(found[r]) = KeysOf(up) \cup KeysOf(down)
    <3>1. DOMAIN found[r] = 1..2 /\ 1..2 = {1, 2}
      BY <1>1, <1>2
    <3>2. KeysIn(found[r]) = UNION {KeysOf(found[r][i]) : i \in {1, 2}}
      BY <3>1 DEF KeysIn, KeysOf
    <3> QED BY <3>2
  <2> HIDE DEF up, down
  <2>3. KeysOf(Merged(up, down)) = KeysOf(up) \cup KeysOf(down)
    <3>1. ASSUME NEW e \in down PROVE \E f \in Merged(up, down) : f.key = e.key
      BY DEF Merged
    <3> QED BY <3>1 DEF KeysOf, Merged
  <2> QED BY <2>1, <2>2, <2>3
<1>3. CASE ~ (query[r].op = "both" /\ Len(found[r]) = 2)
  BY <1>3 DEF Answer
<1> QED BY <1>2, <1>3

\* An answer lies between the table at its request and the table now
\* (repository.py:54-86).
THEOREM AnswersBetween == Spec => []AnswerBetween
<1>1. IInv => AnswerBetween
  <2> SUFFICES ASSUME IInv, NEW r \in Reader, stage[r] = "answered",
                      NEW i \in DOMAIN Statements(query[r])
               PROVE  LET dir  == Statements(query[r])[i]
                          keys == {e.key : e \in found[r][i]}
                      IN  /\ Within(asked[r].table, dir, query[r]) \subseteq keys
                          /\ keys \subseteq Within(table, dir, query[r])
    BY MergeLosesNothing DEF AnswerBetween
  <2>1. i \in 1..Len(found[r])
    <3>1. plan[r] = <<>> /\ Len(found[r]) + Len(plan[r]) = Len(Statements(query[r]))
      BY DEF IInv, ReaderInv, PlanFits, Served
    <3>2. found[r] \in Seq(SUBSET Entry) /\ query[r] \in Query
      BY DEF IInv, Types
    <3>3. Len(found[r]) \in Nat /\ Len(plan[r]) = 0
      BY <3>1, <3>2, LenProperties
    <3>4. DOMAIN Statements(query[r]) = 1..Len(Statements(query[r]))
      BY <3>2, StatementsAre, LenProperties
    <3>5. \A a \in Nat : a + 0 = a
      OBVIOUS
    <3> QED BY <3>1, <3>3, <3>4, <3>5
  <2> QED BY <2>1 DEF IInv, ReaderInv, FoundFits, KeysOf
<1> QED BY <1>1, Invariance, PTL

\* A producer with its 201 finds the edges of its call in every later answer
\* about one of their nodes (main.py:57, 85, 90, 100).
THEOREM WritesAreRead == Spec => []ReadYourWrites
<1>1. IInv => ReadYourWrites
  <2> SUFFICES ASSUME IInv, NEW r \in Reader, stage[r] = "answered",
                      query[r].op \notin Direction,
                      NEW w \in asked[r].acked, NEW m \in Promise,
                      m.req = w[1], query[r].node \in {m.key[1], m.key[2]}
               PROVE  m.key \in KeysIn(Answer(r))
    BY DEF ReadYourWrites
  <2> DEFINE q == query[r]
  <2>1. m.key \in Live(asked[r].table)
    BY DEF IInv, ReaderInv, Grown
  <2>2. q \in Query /\ q.depth \in Nat /\ q.depth >= 1 /\ found[r] \in Seq(SUBSET Entry)
    BY ReadsAssumption DEF IInv, Types, ReaderInv, PlanFits, Accepted
  <2>3. /\ Statements(q) = <<"upstream", "downstream">>
        /\ Len(found[r]) + Len(plan[r]) = 2 /\ plan[r] = <<>>
    BY <2>2, StatementsAre DEF IInv, ReaderInv, PlanFits, Served
  <2>4. Len(found[r]) = 2
    <3>1. Len(found[r]) \in Nat /\ Len(plan[r]) = 0
      BY <2>2, <2>3, LenProperties
    <3>2. \A a \in Nat : a + 0 = 2 => a = 2
      OBVIOUS
    <3> QED BY <2>3, <3>1, <3>2
  <2>5. PICK i \in 1..2 : From(Statements(q)[i], m.key) = q.node
    <3>1. From(Statements(q)[1], m.key) = m.key[2] /\ From(Statements(q)[2], m.key) = m.key[1]
      BY <2>3 DEF From
    <3> QED BY <3>1
  <2>6. m.key \in Within(asked[r].table, Statements(q)[i], q)
    <3>1. Chain(asked[r].table, Statements(q)[i], q.node, 1, m.key)
      BY <2>1, <2>5, ChainOfOne
    <3>2. 1 \in 1..q.depth
      BY <2>2
    <3> QED BY <2>1, <3>1, <3>2 DEF Within
  <2>7. m.key \in KeysOf(found[r][i])
    BY <2>4, <2>6 DEF IInv, ReaderInv, FoundFits
  <2>8. m.key \in KeysIn(found[r])
    BY <2>2, <2>4, <2>7 DEF KeysIn, KeysOf
  <2> QED BY <2>8, MergeLosesNothing
<1> QED BY <1>1, Invariance, PTL

-----------------------------------------------------------------------------
\* How long a request takes.

\* The depth of the rows that the last round found.
RoundDepth(r) == CHOOSE d \in 1..MaxDepth : \E w \in working[r] : w[2] = d

\* Steps that are left of a request, at most: a statement takes one to start,
\* one for each depth, one for the round that finds nothing, one to return.
Left(r) ==
  CASE stage[r] = "querying" -> Len(plan[r]) * (MaxDepth + 2)
    [] stage[r] = "walking"  -> (Len(plan[r]) - 1) * (MaxDepth + 2) + 1
                                  + (IF working[r] = {} THEN 0 ELSE MaxDepth + 1 - RoundDepth(r))
    [] OTHER                 -> 0

\* Serving a request uses its steps up, and nothing but a new request gives any.
RequestsRunOut ==
  [][\A r \in Reader :
       /\ Left(r) \in 0..(2 * (MaxDepth + 2)) /\ Left(r)' \in 0..(2 * (MaxDepth + 2))
       /\ Serve(r) => Left(r)' < Left(r)
       /\ ~ Serve(r) /\ ~ (\E q \in Query : Ask(r, q)) => Left(r)' <= Left(r)]_vars

\* All rows of a round have its depth.
LEMMA OneDepth ==
  ASSUME NEW S, NEW d \in 1..MaxDepth, S # {}, \A w \in S : w[2] = d
  PROVE  (CHOOSE e \in 1..MaxDepth : \E w \in S : w[2] = e) = d
OBVIOUS

\* A request that is served has one or two statements left, and a round that
\* found rows found them at a depth within the bound.
LEMMA ServedShape ==
  ASSUME IInv, NEW r \in Reader
  PROVE  /\ MaxDepth \in Nat
         /\ Served(r) => Len(plan[r]) \in {1, 2}
         /\ Served(r) => query[r].depth \in 1..MaxDepth
         /\ stage[r] = "walking" /\ working[r] # {} =>
              \E d \in 1..MaxDepth : /\ RoundDepth(r) = d /\ d <= query[r].depth
                                     /\ \A w \in working[r] : w[2] = d
<1>1. MaxDepth \in Nat /\ query[r] \in Query /\ plan[r] \in Seq(Direction)
      /\ found[r] \in Seq(SUBSET Entry)
  BY ReadsAssumption DEF IInv, Types
<1>2. ASSUME Served(r) PROVE Len(plan[r]) \in {1, 2} /\ query[r].depth \in 1..MaxDepth
  <2>1. plan[r] # <<>> /\ Len(found[r]) + Len(plan[r]) = Len(Statements(query[r]))
        /\ Accepted(query[r])
    BY <1>2 DEF IInv, ReaderInv, PlanFits
  <2>2. Len(plan[r]) \in Nat \ {0} /\ Len(found[r]) \in Nat
    BY <1>1, <2>1, LenProperties, EmptySeq
  <2>3. Len(Statements(query[r])) \in 1..2
    BY <1>1, StatementsAre
  <2>4. \A a \in Nat, b \in Nat \ {0}, c \in 1..2 : a + b = c => b \in {1, 2}
    OBVIOUS
  <2> QED BY <2>1, <2>2, <2>3, <2>4 DEF Accepted
<1>3. ASSUME stage[r] = "walking", working[r] # {}
      PROVE  \E d \in 1..MaxDepth : /\ RoundDepth(r) = d /\ d <= query[r].depth
                                    /\ \A w \in working[r] : w[2] = d
  <2>1. query[r].depth \in 1..MaxDepth
    BY <1>2, <1>3 DEF Served
  <2>2. PICK d \in 1..query[r].depth :
          working[r] = Ways(snap[r], Head(plan[r]), query[r].node, {d})
    BY <1>3 DEF IInv, ReaderInv, WalkExact
  <2>3. \A w \in working[r] : w[2] = d
    BY <2>2 DEF Ways
  <2>4. d \in 1..MaxDepth /\ RoundDepth(r) = d
    <3>1. d \in 1..MaxDepth
      BY <1>1, <2>1
    <3> QED BY <1>3, <2>3, <3>1, OneDepth DEF RoundDepth
  <2> QED BY <1>1, <2>1, <2>3, <2>4
<1> QED BY <1>1, <1>2, <1>3

\* Arithmetic of one or two statements.
LEMMA OneOrTwo ==
  ASSUME NEW K \in Nat
  PROVE  /\ \A L \in {1, 2} : L * K \in 0..(2 * K)
         /\ \A L \in {1, 2} : L * K = (L - 1) * K + K
         /\ \A L \in {1, 2} : (L - 1) * K \in Nat /\ (L = 1 => (L - 1) * K = 0)
         /\ \A L \in {1, 2} : \A a \in 0..(K - 1) : (L - 1) * K + a \in 0..(2 * K)
OBVIOUS

\* What is left is a number.
LEMMA LeftBounded ==
  ASSUME IInv, NEW r \in Reader
  PROVE  Left(r) \in 0..(2 * (MaxDepth + 2))
<1>1. MaxDepth \in Nat
  BY ReadsAssumption
<1>2. CASE stage[r] = "querying"
  <2>1. Len(plan[r]) \in {1, 2}
    BY <1>2, ServedShape DEF Served
  <2> DEFINE K == MaxDepth + 2
             L == Len(plan[r])
  <2>2. Left(r) = L * K
    BY <1>2 DEF Left
  <2>3. K \in Nat
    BY <1>1
  <2>4. L * K \in 0..(2 * K)
    <3> HIDE DEF K, L
    <3> QED BY <2>1, <2>3, OneOrTwo DEF L
  <2> QED BY <2>2, <2>4
<1>3. CASE stage[r] = "walking"
  <2>1. Len(plan[r]) \in {1, 2}
    BY <1>3, ServedShape DEF Served
  <2>2. working[r] # {} => RoundDepth(r) \in 1..MaxDepth
    BY <1>3, ServedShape
  <2> DEFINE a == 1 + (IF working[r] = {} THEN 0 ELSE MaxDepth + 1 - RoundDepth(r))
  <2>3. Left(r) = (Len(plan[r]) - 1) * (MaxDepth + 2) + 1
                    + (IF working[r] = {} THEN 0 ELSE MaxDepth + 1 - RoundDepth(r))
    BY <1>3 DEF Left
  <2> DEFINE K == MaxDepth + 2
             L == Len(plan[r])
  <2>4. K \in Nat /\ a \in 0..(K - 1)
    BY <1>1, <2>2
  <2>5. (L - 1) * K + a \in 0..(2 * K) /\ (L - 1) * K \in Nat
    <3> HIDE DEF a, K, L
    <3> QED BY <2>1, <2>4, OneOrTwo DEF L
  <2>6. Left(r) = (L - 1) * K + a
    <3>1. \A x, y, z \in Nat : x + y + z = x + (y + z)
      OBVIOUS
    <3>2. (IF working[r] = {} THEN 0 ELSE MaxDepth + 1 - RoundDepth(r)) \in Nat
      BY <1>1, <2>2
    <3> QED BY <2>3, <2>5, <3>1, <3>2
  <2> QED BY <2>5, <2>6
<1>4. CASE stage[r] \notin {"querying", "walking"}
  BY <1>1, <1>4 DEF Left
<1> QED BY <1>2, <1>3, <1>4

\* Each step of a statement uses one up.
LEMMA ServeCosts ==
  ASSUME IInv, NEW r \in Reader, Serve(r)
  PROVE  Left(r)' < Left(r)
<1> DEFINE L == Len(plan[r])
<1>1. /\ MaxDepth \in Nat /\ L \in {1, 2} /\ query[r].depth \in 1..MaxDepth
      /\ Types /\ plan[r] \in Seq(Direction) /\ plan[r] # <<>>
  BY ServedShape DEF IInv, Types, Serve, Start, Extend, Return, Served, ReaderInv, PlanFits
<1> DEFINE K == MaxDepth + 2
<1>0. /\ K \in Nat /\ L * K = (L - 1) * K + K /\ (L - 1) * K \in Nat
      /\ (L = 1 => (L - 1) * K = 0)
  <2>1. K \in Nat /\ L \in {1, 2}
    BY <1>1
  <2> HIDE DEF K, L
  <2> QED BY <2>1, OneOrTwo
<1>9. K = MaxDepth + 2
  OBVIOUS
<1>2. CASE Start(r)
  <2>1. /\ stage[r] = "querying" /\ stage'[r] = "walking" /\ plan'[r] = plan[r]
        /\ working'[r] = Seeds(r)
    BY <1>1, <1>2 DEF Start, Types
  <2>2. Seeds(r) # {} => RoundDepth(r)' = 1
    <3>1. \A w \in Seeds(r) : w[2] = 1
      BY DEF Seeds
    <3>2. 1 \in 1..MaxDepth
      BY <1>1
    <3> QED BY <2>1, <3>1, <3>2, OneDepth DEF RoundDepth
  <2>3. /\ Left(r) = L * K
        /\ Left(r)' = (L - 1) * K + 1
                        + (IF Seeds(r) = {} THEN 0 ELSE MaxDepth + 1 - RoundDepth(r)')
    BY <2>1 DEF Left
  <2> HIDE DEF K, L
  <2> QED BY <1>0, <1>1, <1>9, <2>2, <2>3
<1>3. CASE Extend(r)
  <2>1. /\ stage[r] = "walking" /\ stage'[r] = "walking" /\ plan'[r] = plan[r]
        /\ working[r] # {} /\ working'[r] = Joined(r) \ walk[r]
    BY <1>1, <1>3 DEF Extend, Types
  <2>2. PICK d \in 1..MaxDepth : /\ RoundDepth(r) = d /\ d <= query[r].depth
                                 /\ \A w \in working[r] : w[2] = d
    BY <2>1, ServedShape
  <2>3. \A w \in Joined(r) : w[2] = d + 1 /\ d < query[r].depth
    BY <2>2 DEF Joined
  <2>4. working'[r] # {} => RoundDepth(r)' = d + 1 /\ d + 1 <= MaxDepth
    <3> SUFFICES ASSUME working'[r] # {} PROVE RoundDepth(r)' = d + 1 /\ d + 1 <= MaxDepth
      OBVIOUS
    <3>1. \A w \in working'[r] : w[2] = d + 1 /\ d < query[r].depth
      BY <2>1, <2>3
    <3>2. RoundDepth(r)' = d + 1
      <4>1. d + 1 \in 1..MaxDepth
        BY <1>1, <3>1
      <4> QED BY <3>1, <4>1, OneDepth DEF RoundDepth
    <3> QED BY <1>1, <3>1, <3>2
  <2>5. /\ Left(r) = (L - 1) * K + 1 + (MaxDepth + 1 - d)
        /\ Left(r)' = (L - 1) * K + 1
                        + (IF working'[r] = {} THEN 0 ELSE MaxDepth + 1 - RoundDepth(r)')
    BY <2>1, <2>2 DEF Left
  <2> HIDE DEF K, L
  <2> QED BY <1>0, <1>1, <1>9, <2>4, <2>5
<1>4. CASE Return(r)
  <2>1. /\ stage[r] = "walking" /\ working[r] = {} /\ plan'[r] = Tail(plan[r])
        /\ stage'[r] = (IF L = 1 THEN "answered" ELSE "querying")
    BY <1>1, <1>4 DEF Return, Types
  <2>2. Len(Tail(plan[r])) = L - 1
    BY <1>1, HeadTailProperties
  <2>3. Left(r) = (L - 1) * K + 1
    BY <1>1, <2>1 DEF Left
  <2>4. Left(r)' = IF L = 1 THEN 0 ELSE (L - 1) * K
    BY <2>1, <2>2 DEF Left
  <2> HIDE DEF K, L
  <2> QED BY <1>0, <1>1, <1>9, <2>3, <2>4
<1> QED BY <1>2, <1>3, <1>4 DEF Serve

\* No request goes on for ever (main.py:90-95; repository.py:88-103): whatever
\* cycles the graph has and whoever writes meanwhile, a request takes at most
\* MaxDepth + 2 steps for each of its statements.
THEOREM EveryWalkStops == Spec => RequestsRunOut
<1> DEFINE A == \A r \in Reader :
       /\ Left(r) \in 0..(2 * (MaxDepth + 2)) /\ Left(r)' \in 0..(2 * (MaxDepth + 2))
       /\ Serve(r) => Left(r)' < Left(r)
       /\ ~ Serve(r) /\ ~ (\E q \in Query : Ask(r, q)) => Left(r)' <= Left(r)
<1>1. IInv => \A r \in Reader : Left(r) \in 0..(2 * (MaxDepth + 2))
  BY LeftBounded
<1>2. Spec => [](\A r \in Reader : Left(r) \in 0..(2 * (MaxDepth + 2)))
  BY <1>1, Invariance, PTL
<1>3. /\ IInv /\ [Next]_vars
      /\ \A r \in Reader : Left(r) \in 0..(2 * (MaxDepth + 2))
      /\ (\A r \in Reader : Left(r) \in 0..(2 * (MaxDepth + 2)))'
      => [A]_vars
  <2> SUFFICES ASSUME IInv, Next, NEW r \in Reader,
                      Left(r) \in 0..(2 * (MaxDepth + 2)), Left(r)' \in 0..(2 * (MaxDepth + 2)),
                      ~ Serve(r), ~ (\E q \in Query : Ask(r, q))
               PROVE  Left(r)' <= Left(r)
    BY ServeCosts
  <2>1. MaxDepth \in Nat /\ Types
    BY ReadsAssumption DEF IInv
  <2>2. CASE Fail(r)
    <3>1. stage'[r] = "failed"
      BY <2>1, <2>2 DEF Fail, Types
    <3>2. Left(r)' = 0
      BY <3>1 DEF Left
    <3> QED BY <2>1, <3>2
  <2>3. CASE ~ Fail(r)
    <3>1. stage'[r] = stage[r] /\ plan'[r] = plan[r] /\ working'[r] = working[r]
      <4>1. CASE Write
        BY <4>1 DEF Write, request
      <4>2. ASSUME NEW s \in Reader, s # r, Serve(s) \/ Fail(s) \/ \E q \in Query : Ask(s, q)
            PROVE  stage'[r] = stage[r] /\ plan'[r] = plan[r] /\ working'[r] = working[r]
        BY <2>1, <4>2 DEF Types, Serve, Start, Extend, Return, Fail, Ask, Close
      <4> QED BY <2>3, <4>1, <4>2 DEF Next
    <3>2. Left(r)' = Left(r)
      BY <3>1 DEF Left, RoundDepth
    <3> QED BY <2>1, <3>2
  <2> QED BY <2>2, <2>3
<1> QED BY <1>2, <1>3, Invariance, PTL DEF Spec, RequestsRunOut

-----------------------------------------------------------------------------
\* What the graph explorer takes for granted of a reply.

\* An answer has every edge at its own node, in the directions asked for.
NodeSurrounded ==
  \A r \in Reader : stage[r] = "answered" =>
    \A k \in Live(asked[r].table) :
      /\ query[r].op # "downstream" /\ k[2] = query[r].node => k \in KeysIn(Answer(r))
      /\ query[r].op # "upstream" /\ k[1] = query[r].node => k \in KeysIn(Answer(r))

\* An answer to a request for a graph has all edges at its node that were there
\* when the request came (repository.py:54-103), whatever its depth: the counts
\* in the box of the explorer are counted in the reply (app.js:104-105), which
\* is RepliesComplete of ExplorerUI.
THEOREM RepliesAreComplete == Spec => []NodeSurrounded
<1>1. ASSUME IInv, AnswerBetween, NEW r \in Reader, stage[r] = "answered",
             NEW k \in Live(asked[r].table), NEW i \in DOMAIN Statements(query[r]),
             From(Statements(query[r])[i], k) = query[r].node
      PROVE  k \in KeysIn(Answer(r))
  <2> DEFINE dir == Statements(query[r])[i]
  <2>1. Accepted(query[r]) /\ Len(found[r]) + Len(plan[r]) = Len(Statements(query[r]))
        /\ plan[r] = <<>> /\ found[r] \in Seq(SUBSET Entry) /\ query[r] \in Query
    BY <1>1 DEF IInv, ReaderInv, PlanFits, Types, Served
  <2>2. 1 \in 1..query[r].depth
    BY <2>1, ReadsAssumption DEF Accepted
  <2>3. Chain(asked[r].table, dir, query[r].node, 1, k)
    BY <1>1, ChainOfOne
  <2>4. k \in Within(asked[r].table, dir, query[r])
    BY <1>1, <2>2, <2>3 DEF Within
  <2>5. k \in {e.key : e \in found[r][i]}
    BY <1>1, <2>4 DEF AnswerBetween
  <2>6. i \in DOMAIN found[r]
    <3>1. Len(found[r]) \in Nat /\ Len(plan[r]) = 0
      BY <2>1, LenProperties
    <3>2. \A a \in Nat : a + 0 = a
      OBVIOUS
    <3>3. DOMAIN Statements(query[r]) = 1..Len(Statements(query[r]))
      BY <2>1, StatementsAre, LenProperties
    <3>4. DOMAIN found[r] = 1..Len(found[r])
      BY <2>1, LenProperties
    <3> QED BY <2>1, <3>1, <3>2, <3>3, <3>4
  <2>7. k \in KeysIn(found[r])
    BY <2>5, <2>6 DEF KeysIn
  <2> QED BY <1>1, <2>7 DEF AnswerBetween
<1>2. IInv /\ AnswerBetween => NodeSurrounded
  <2> SUFFICES ASSUME IInv, AnswerBetween, NEW r \in Reader, stage[r] = "answered",
                      NEW k \in Live(asked[r].table)
               PROVE  /\ query[r].op # "downstream" /\ k[2] = query[r].node => k \in KeysIn(Answer(r))
                      /\ query[r].op # "upstream" /\ k[1] = query[r].node => k \in KeysIn(Answer(r))
    BY DEF NodeSurrounded
  <2>1. /\ query[r].op # "downstream" =>
             1 \in DOMAIN Statements(query[r]) /\ Statements(query[r])[1] = "upstream"
        /\ query[r].op # "upstream" =>
             \E i \in DOMAIN Statements(query[r]) : Statements(query[r])[i] = "downstream"
    BY DEF Statements, Direction
  <2>2. query[r].op # "downstream" /\ k[2] = query[r].node => k \in KeysIn(Answer(r))
    BY <1>1, <2>1 DEF From
  <2>3. query[r].op # "upstream" /\ k[1] = query[r].node => k \in KeysIn(Answer(r))
    <3> SUFFICES ASSUME query[r].op # "upstream", k[1] = query[r].node PROVE k \in KeysIn(Answer(r))
      OBVIOUS
    <3>1. PICK i \in DOMAIN Statements(query[r]) : Statements(query[r])[i] = "downstream"
      BY <2>1
    <3>2. From(Statements(query[r])[i], k) = k[1]
      BY <3>1 DEF From
    <3> QED BY <1>1, <3>2
  <2> QED BY <2>2, <2>3
<1> QED BY <1>2, Invariance, AnswersBetween, PTL

================================================================================
