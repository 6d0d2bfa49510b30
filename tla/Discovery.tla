------------------------------- MODULE Discovery -------------------------------
(***************************************************************************)
(* The endpoints the explorer finds nodes with: GET /api/v1/namespaces and *)
(* GET /api/v1/search (app/routes_ui.py), while producers write.  As in    *)
(* Reads the writers are the abstract store that Ingest implements.        *)
(*                                                                         *)
(* A request runs one SELECT.  Its rows come in the order of their text,   *)
(* which is that of Rank, so that an answer is known from its set of rows. *)
(***************************************************************************)
EXTENDS Integers, Sequences, FiniteSets

CONSTANTS
  Request, Version, Key, Promise, NoRow,   \* as in EdgeStore
  Client,      \* one request each at a time
  Query,       \* what they may ask: [op, text, ns, limit]
  Null,        \* no namespace parameter
  Spelling,    \* the characters of a URN, those all URNs share left out
  LowerCase,   \* LOWER of a character
  Rank,        \* the place of a URN or a namespace in the order of all texts
  MaxText,     \* Query(..., min_length=1, max_length=200)
  MaxResults,  \* Query(50, ge=1, le=500)
  MaxNamespaces  \* Query(500, ge=1, le=10_000)

VARIABLES
  table, landed, acked,  \* the store
  stage,   \* of the request a client has sent
  query,   \* that request
  answer,  \* [urn, kind] of each result, or the namespaces
  asked    \* history: what was acknowledged at the request

store   == <<table, landed, acked>>
request == <<stage, query, answer, asked>>
vars    == <<store, request>>

Writers == INSTANCE EdgeStore

Stages == {"idle", "querying", "answered", "rejected", "failed"}

Live(t) == {k \in Key : t[k] # NoRow}
Ends(k) == {k[1], k[2]}
Node    == UNION {Ends(k) : k \in Key}
Text    == {q.text : q \in Query}

\* The rows the store's calls can write.
Row ==
  [job     : {m.attrs.job : m \in Promise},
   run     : {m.attrs.run : m \in Promise},
   ns      : {m.attrs.ns : m \in Promise},
   created : Request \X Version,
   updated : Request \X Version]

ASSUME DiscoveryAssumption ==
  /\ MaxText \in Nat /\ MaxResults \in Nat /\ MaxNamespaces \in Nat
  /\ Query # {}
  /\ \A q \in Query : q.op \in {"search", "namespaces"} /\ q.limit \in Int
  /\ \A x \in Text : x \in Seq(DOMAIN LowerCase)
  /\ \A u \in Node : Spelling[u] \in Seq(DOMAIN LowerCase)
  /\ IsFiniteSet(Node)
  /\ \A u, v \in Node : Rank[u] \in Nat /\ (Rank[u] = Rank[v] => u = v)
  /\ NoRow \notin Row

ASSUME PromisesAssumption == Writers!PromisesCoherent

-----------------------------------------------------------------------------
\* LOWER(col) LIKE :pat, where q goes into the pattern as it is: '%' stands for
\* any characters and '_' for any one.  A way to match is where each character
\* of the pattern starts in the text.  (Nothing is asked with a backslash.)

Lowered(s) == [i \in DOMAIN s |-> LowerCase[s[i]]]

\* Mutant of Pattern: fuzzy, with anything between the characters.
FuzzyPattern(text) ==
  [i \in 1..(2 * Len(text) + 1) |-> IF i % 2 = 1 THEN "%" ELSE Lowered(text)[i \div 2]]

Pattern(text) == <<"%">> \o Lowered(text) \o <<"%">>

Like(s, p) ==
  \E at \in [1..(Len(p) + 1) -> 0..Len(s)] :
    /\ at[1] = 0 /\ at[Len(p) + 1] = Len(s)
    /\ \A i \in DOMAIN p :
         IF p[i] = "%"
           THEN at[i] <= at[i + 1]
           ELSE at[i + 1] = at[i] + 1 /\ p[i] \in {"_", s[at[i + 1]]}

\* Evaluated once for all the texts that are asked for.
Matches == [x \in Text |-> {u \in Node : Like(Lowered(Spelling[u]), Pattern(x))}]

-----------------------------------------------------------------------------
\* The SELECTs.

\* if namespace: None and the empty string are both no namespace.
Scoped(q) == q.ns \notin {Null, <<"">>}

InScope(t, k, q) == Scoped(q) => t[k].ns = q.ns

\* Mutant of Hits: the second SELECT of the UNION has no namespace.
HitsUnscopedArm(t, q) ==
       {k[1] : k \in {k \in Live(t) : InScope(t, k, q) /\ k[1] \in Matches[q.text]}}
  \cup {k[2] : k \in {k \in Live(t) : k[2] \in Matches[q.text]}}

\* Mutant of Hits: src_urn only.
HitsSource(t, q) ==
  {k[1] : k \in {k \in Live(t) : InScope(t, k, q) /\ k[1] \in Matches[q.text]}}

\* UNION of the sources and the destinations.
Hits(t, q) ==
       {k[1] : k \in {k \in Live(t) : InScope(t, k, q) /\ k[1] \in Matches[q.text]}}
  \cup {k[2] : k \in {k \in Live(t) : InScope(t, k, q) /\ k[2] \in Matches[q.text]}}

\* ORDER BY ... LIMIT n.
First(n, S) == {x \in S : Cardinality({y \in S : Rank[y] < Rank[x]}) < n}

\* The URN begins with "job:".
Kind(u) == IF u[1] = "job" THEN "job" ELSE "dataset"

\* Mutant of Namespaces: those of the nodes, which need not be those of rows.
NodeNamespaces(t) == {<<k[1][2]>> : k \in Live(t)}

\* SELECT DISTINCT namespace.
Namespaces(t) == {t[k].ns : k \in Live(t)}

Rows(t, q) ==
  IF q.op = "search"
    THEN {[urn |-> u, kind |-> Kind(u)] : u \in First(q.limit, Hits(t, q))}
    ELSE First(q.limit, Namespaces(t))

-----------------------------------------------------------------------------
\* The requests.

Accepted(q) ==
  IF q.op = "search"
    THEN Len(q.text) \in 1..MaxText /\ q.limit \in 1..MaxResults
    ELSE q.limit \in 1..MaxNamespaces

Init ==
  /\ Writers!Init
  /\ stage = [c \in Client |-> "idle"]
  /\ query = [c \in Client |-> CHOOSE q \in Query : TRUE]   \* no matter
  /\ answer = [c \in Client |-> {}]
  /\ asked = [c \in Client |-> {}]

Ask(c, q) ==
  /\ stage[c] # "querying"
  /\ query' = [query EXCEPT ![c] = q]
  /\ stage' = [stage EXCEPT ![c] = IF Accepted(q) THEN "querying" ELSE "rejected"]
  /\ answer' = [answer EXCEPT ![c] = {}]
  /\ asked' = [asked EXCEPT ![c] = acked]
  /\ UNCHANGED store

Select(c) ==
  /\ stage[c] = "querying"
  /\ answer' = [answer EXCEPT ![c] = Rows(table, query[c])]
  /\ stage' = [stage EXCEPT ![c] = "answered"]
  /\ UNCHANGED <<store, query, asked>>

\* The connection breaks: the request fails with a 500.
Fail(c) ==
  /\ stage[c] = "querying"
  /\ stage' = [stage EXCEPT ![c] = "failed"]
  /\ UNCHANGED <<store, query, answer, asked>>

Write == Writers!Next /\ UNCHANGED request

Next ==
  \/ Write
  \/ \E c \in Client : Select(c) \/ Fail(c) \/ \E q \in Query : Ask(c, q)

Spec == Init /\ [][Next]_vars

-----------------------------------------------------------------------------
\* Properties.

Answering(c, op) == stage[c] = "answered" /\ query[c].op = op

\* The word is in the text of the URN, in whatever case.
HasWord(u, c) ==
  LET s == Lowered(Spelling[u])
      x == Lowered(query[c].text)
  IN  \E i \in 0..(Len(s) - Len(x)) : \A j \in DOMAIN x : s[i + j] = x[j]

Urns(c) == {e.urn : e \in answer[c]}

\* Types: the results of a search are nodes of the graph, and a listed namespace
\* is one that a call has given to an edge.
DiscoveryTypeOK ==
  /\ stage \in [Client -> Stages]
  /\ query \in [Client -> Query]
  /\ \A c \in Client :
       /\ Answering(c, "search") => answer[c] \subseteq [urn : Node, kind : {"job", "dataset"}]
       /\ Answering(c, "namespaces") => answer[c] \subseteq {m.attrs.ns : m \in Promise}

\* A search in a namespace shows only nodes that an event of a job of that
\* namespace has mentioned, also where URNs of different namespaces are equal
\* and rows change hands (routes_ui.py:51-62).
ScopeKeepsTenantsApart ==
  \A c \in Client : Answering(c, "search") /\ Scoped(query[c]) =>
    \A u \in Urns(c) : \E w \in landed : \E m \in Promise :
      m.req = w[1] /\ u \in Ends(m.key) /\ m.attrs.ns = query[c].ns

\* What a producer was acknowledged is found: a node of its events that has the
\* word in it is in the answer, in the namespace of its job and in none, or
\* the answer is full of nodes that come before it, although rows are taken
\* over by other jobs (routes_ui.py:51-80).
AckedNodesFindable ==
  \A c \in Client : Answering(c, "search") =>
    \A w \in asked[c] : \A m \in Promise : \A u \in Ends(m.key) :
      m.req = w[1] /\ HasWord(u, c) /\ (Scoped(query[c]) => m.attrs.ns = query[c].ns) =>
        \/ u \in Urns(c)
        \/ /\ Cardinality(Urns(c)) = query[c].limit
           /\ \A v \in Urns(c) : Rank[v] < Rank[u]

\* A namespace that was once listed stays one in which a search finds
\* something: the dropdown, filled once when the page is loaded, never offers
\* a dead end (routes_ui.py:32, app.js:30-39).
ListedNamespaceSearchable ==
  \A c \in Client : Answering(c, "namespaces") =>
    \A n \in answer[c] : \E k \in Live(table) : table[k].ns = n

\* Every result has the word in it, in whatever case (routes_ui.py:44,
\* "Substring search over URNs (src + dst)"; docs/ui.md:20).
SubstringOnly ==
  \A c \in Client : Answering(c, "search") =>
    \A u \in Urns(c) : HasWord(u, c)

=============================================================================
