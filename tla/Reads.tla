-------------------------------- MODULE Reads --------------------------------
(***************************************************************************)
(* The read path: GET /api/v1/lineage and /api/v1/lineage/direct           *)
(* (app/main.py), traverse and direct_neighbors (app/repository.py), while *)
(* producers write.  The writers are the abstract store that Ingest        *)
(* implements.                                                             *)
(*                                                                         *)
(* A request runs one SELECT, or two for both directions, and at READ      *)
(* COMMITTED each of them sees the table as it is when it starts.  WITH    *)
(* RECURSIVE goes in rounds: the recursive term is joined with the rows of *)
(* the last round only, and UNION drops the rows that are there already;   *)
(* the depth is a column, so one edge may be in the walk at many depths.   *)
(***************************************************************************)
EXTENDS Integers, Sequences

CONSTANTS
  Request, Version, Key, Promise, NoRow,   \* as in EdgeStore
  Reader,     \* the connections that read, one request each at a time
  Query,      \* what they may ask: [op, node, depth]
  MaxDepth    \* Query(3, ge=1, le=50)

Direction == {"upstream", "downstream"}
Ops == Direction \cup {"both", "direct"}

\* The rows the store's calls can write.
Row ==
  [job     : {m.attrs.job : m \in Promise},
   run     : {m.attrs.run : m \in Promise},
   ns      : {m.attrs.ns : m \in Promise},
   created : Request \X Version,
   updated : Request \X Version]

ASSUME ReadsAssumption ==
  /\ MaxDepth \in Nat
  /\ NoRow \notin Row
  /\ \A m \in Promise : m.key \in Key
  /\ Query # {}
  /\ \A q \in Query : q.op \in Ops /\ q.depth \in Nat
  /\ \A q \in Query : q.op = "direct" => q.depth = 1

VARIABLES
  table, landed, acked,   \* the store
  stage,    \* of the request a reader is served
  query,    \* that request
  plan,     \* directions of the statements not yet finished, the current first
  snap,     \* the table the running statement sees
  walk,     \* WITH RECURSIVE walk: pairs <<key, depth>>
  working,  \* the rows of the last round
  found,    \* what the finished statements returned
  asked     \* history: the table, and what was acknowledged, at the request

store   == <<table, landed, acked>>
request == <<stage, query, plan, snap, walk, working, found, asked>>
vars    == <<store, request>>

Writers == INSTANCE EdgeStore

Stages == {"idle", "querying", "walking", "answered", "rejected", "failed"}

Live(t) == {k \in Key : t[k] # NoRow}

Nothing == [k \in Key |-> NoRow]

-----------------------------------------------------------------------------
\* Requests and their statements.

\* Mutant of Statements: only the first SELECT of the two.
UpstreamOnly(q) == IF q.op \in Direction THEN <<q.op>> ELSE <<"upstream">>

\* direct_neighbors and "both" look upstream first.
Statements(q) == IF q.op \in Direction THEN <<q.op>> ELSE <<"upstream", "downstream">>

\* seed_col and next_col of a direction.
From(dir, k) == IF dir = "upstream" THEN k[2] ELSE k[1]
To(dir, k)   == IF dir = "upstream" THEN k[1] ELSE k[2]

Accepted(q) == q.depth \in 1..MaxDepth

Init ==
  /\ Writers!Init
  /\ stage = [r \in Reader |-> "idle"]
  /\ query = [r \in Reader |-> CHOOSE q \in Query : TRUE]   \* no matter
  /\ plan = [r \in Reader |-> <<>>]
  /\ snap = [r \in Reader |-> Nothing]
  /\ walk = [r \in Reader |-> {}]
  /\ working = [r \in Reader |-> {}]
  /\ found = [r \in Reader |-> <<>>]
  /\ asked = [r \in Reader |-> [table |-> Nothing, acked |-> {}]]

Ask(r, q) ==
  /\ stage[r] \notin {"querying", "walking"}
  /\ query' = [query EXCEPT ![r] = q]
  /\ asked' = [asked EXCEPT ![r] = [table |-> table, acked |-> acked]]
  /\ found' = [found EXCEPT ![r] = <<>>]
  /\ IF Accepted(q)
       THEN /\ stage' = [stage EXCEPT ![r] = "querying"]
            /\ plan' = [plan EXCEPT ![r] = Statements(q)]
       ELSE /\ stage' = [stage EXCEPT ![r] = "rejected"]
            /\ plan' = [plan EXCEPT ![r] = <<>>]
  /\ UNCHANGED <<store, snap, walk, working>>

-----------------------------------------------------------------------------
\* One statement.

\* The non-recursive term; all there is of a SELECT of direct_neighbors.
Seeds(r) ==
  {<<k, 1>> : k \in {k \in Live(table) : From(Head(plan[r]), k) = query[r].node}}

Start(r) ==
  /\ stage[r] = "querying"
  /\ stage' = [stage EXCEPT ![r] = "walking"]
  /\ snap' = [snap EXCEPT ![r] = table]
  /\ walk' = [walk EXCEPT ![r] = Seeds(r)]
  /\ working' = [working EXCEPT ![r] = Seeds(r)]
  /\ UNCHANGED <<store, query, plan, found, asked>>

Follows(r, k, w) ==
  k \in Live(snap[r]) /\ From(Head(plan[r]), k) = To(Head(plan[r]), w[1])

\* Mutant of Joined: WHERE w.depth <= :depth.
JoinedTooDeep(r) ==
  UNION {{<<k, w[2] + 1>> : k \in {k \in Key : Follows(r, k, w)}} :
         w \in {w \in working[r] : w[2] <= query[r].depth}}

\* Mutant of Joined: the join is on seed_col on both sides.
JoinedSideways(r) ==
  UNION {{<<k, w[2] + 1>> : k \in {k \in Live(snap[r]) :
            From(Head(plan[r]), k) = From(Head(plan[r]), w[1])}} :
         w \in {w \in working[r] : w[2] < query[r].depth}}

\* The recursive term.
Joined(r) ==
  UNION {{<<k, w[2] + 1>> : k \in {k \in Key : Follows(r, k, w)}} :
         w \in {w \in working[r] : w[2] < query[r].depth}}

\* Mutant of Extend: UNION ALL and no depth column.
ExtendUncounted(r) ==
  /\ stage[r] = "walking"
  /\ working[r] # {}
  /\ LET next == UNION {{<<k, 1>> : k \in {k \in Key : Follows(r, k, w)}} : w \in working[r]}
     IN  /\ working' = [working EXCEPT ![r] = next]
         /\ walk' = [walk EXCEPT ![r] = @ \cup next]
  /\ UNCHANGED <<store, stage, query, plan, snap, found, asked>>

Extend(r) ==
  /\ stage[r] = "walking"
  /\ working[r] # {}
  /\ working' = [working EXCEPT ![r] = Joined(r) \ walk[r]]
  /\ walk' = [walk EXCEPT ![r] = @ \cup Joined(r)]
  /\ UNCHANGED <<store, stage, query, plan, snap, found, asked>>

\* SELECT DISTINCT: the depth goes, so does the multiplicity.
Rows(r) == {[key |-> k, row |-> snap[r][k]] : k \in {w[1] : w \in walk[r]}}

Close(r) ==
  /\ snap' = [snap EXCEPT ![r] = Nothing]
  /\ walk' = [walk EXCEPT ![r] = {}]
  /\ working' = [working EXCEPT ![r] = {}]

Return(r) ==
  /\ stage[r] = "walking"
  /\ working[r] = {}
  /\ found' = [found EXCEPT ![r] = Append(@, Rows(r))]
  /\ plan' = [plan EXCEPT ![r] = Tail(@)]
  /\ stage' = [stage EXCEPT ![r] = IF Len(plan[r]) = 1 THEN "answered" ELSE "querying"]
  /\ Close(r)
  /\ UNCHANGED <<store, query, asked>>

\* The connection breaks: the request fails with a 500.
Fail(r) ==
  /\ stage[r] \in {"querying", "walking"}
  /\ stage' = [stage EXCEPT ![r] = "failed"]
  /\ plan' = [plan EXCEPT ![r] = <<>>]
  /\ found' = [found EXCEPT ![r] = <<>>]
  /\ Close(r)
  /\ UNCHANGED <<store, query, asked>>

\* Mutant of Merged: rows are compared whole.
MergedByRow(up, down) == up \cup down

\* up + down, the first of each key.
Merged(up, down) == up \cup {e \in down : \A u \in up : u.key # e.key}

\* The lists of the answer.
Answer(r) ==
  IF query[r].op = "both" /\ Len(found[r]) = 2
    THEN <<Merged(found[r][1], found[r][2])>>
    ELSE found[r]

-----------------------------------------------------------------------------

Serve(r) == Start(r) \/ Extend(r) \/ Return(r)

Write == Writers!Next /\ UNCHANGED request

Next ==
  \/ Write
  \/ \E r \in Reader : Serve(r) \/ Fail(r) \/ \E q \in Query : Ask(r, q)

Spec == Init /\ [][Next]_vars

\* The event loop goes on with every handler and a SELECT never waits for a
\* lock.  Nothing makes a producer write or a client ask.
FairSpec == Spec /\ \A r \in Reader : WF_vars(Serve(r))

-----------------------------------------------------------------------------
\* Properties.

ReadsTypeOK ==
  /\ table \in [Key -> Row \cup {NoRow}]
  /\ stage \in [Reader -> Stages]
  /\ query \in [Reader -> Query]
  /\ plan \in [Reader -> Seq(Direction)]
  /\ \A r \in Reader :
       /\ Len(plan[r]) + Len(found[r]) <= 2
       /\ stage[r] \in {"querying", "walking"} <=> plan[r] # <<>>
       /\ walk[r] \subseteq Live(snap[r]) \X (1..MaxDepth)
       /\ working[r] \subseteq walk[r]

\* n rows of t that lead from the node in a direction and end with row k.
Chain(t, dir, node, n, k) ==
  \E c \in [1..n -> Live(t)] :
    /\ From(dir, c[1]) = node
    /\ c[n] = k
    /\ \A i \in 1..(n - 1) : From(dir, c[i + 1]) = To(dir, c[i])

Within(t, dir, q) == {k \in Live(t) : \E n \in 1..q.depth : Chain(t, dir, q.node, n, k)}

\* A finished walk is exactly the rows of its snapshot on a chain of at most
\* depth rows from the node, on graphs with cycles too: rounds that join the
\* last round only lose nothing, and the bound is neither off by one nor
\* defeated by a longer way to the same row (repository.py:88-103).
StatementExact ==
  \A r \in Reader : stage[r] = "walking" /\ working[r] = {} =>
    {w[1] : w \in walk[r]} = Within(snap[r], Head(plan[r]), query[r])

KeysIn(lists) == UNION {{e.key : e \in lists[i]} : i \in DOMAIN lists}

\* An answer lies between two tables: each of its directions has all that was
\* within depth when the request came and nothing that is not within it now,
\* and merging "both" drops no edge (repository.py:54-86).  It need not be the
\* answer for any one table: two statements see two.
AnswerBetween ==
  \A r \in Reader : stage[r] = "answered" =>
    /\ \A i \in DOMAIN Statements(query[r]) :
         LET dir  == Statements(query[r])[i]
             keys == {e.key : e \in found[r][i]}
         IN  /\ Within(asked[r].table, dir, query[r]) \subseteq keys
             /\ keys \subseteq Within(table, dir, query[r])
    /\ KeysIn(Answer(r)) = KeysIn(found[r])

\* No edge is listed twice in one list, also when a producer changed its row
\* between the two statements (repository.py:79-86): the graph of the UI takes
\* the key for the identity of an edge.
OneRowPerKey ==
  \A r \in Reader : stage[r] = "answered" =>
    \A i \in DOMAIN Answer(r) : \A e, f \in Answer(r)[i] : e.key = f.key => e = f

\* A producer that got its 201 and then asks for a node, in both directions,
\* finds every edge of its call at that node (main.py:57, 85, 90, 100).
ReadYourWrites ==
  \A r \in Reader : stage[r] = "answered" /\ query[r].op \notin Direction =>
    \A w \in asked[r].acked : \A m \in Promise :
      m.req = w[1] /\ query[r].node \in {m.key[1], m.key[2]} =>
        m.key \in KeysIn(Answer(r))

\* Every request that is let in ends, whatever cycles the graph has
\* (benchmark/hard_tests/adversarial_graphs.py:13).
EveryReadEnds ==
  \A r \in Reader : stage[r] = "querying" ~> stage[r] \in {"answered", "failed"}

=============================================================================
