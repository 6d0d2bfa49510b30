------------------------------- MODULE MCDiscovery -------------------------------
(***************************************************************************)
(* Small instances of Discovery: two namespaces whose jobs derive the same *)
(* shared datasets, so that rows change hands.                             *)
(***************************************************************************)
EXTENDS Discovery, TLC

CONSTANTS Absent, r1, r2, r3, c1

E == INSTANCE MCEvents

DiscoveryRequests == {r1, r2, r3}

Shared(name) == [ns |-> <<"lake">>, name |-> <<name>>]

JobEvent(ns, name, ins, outs) ==
  [valid |-> TRUE, job |-> [ns |-> ns, name |-> name], run |-> <<"run">>,
   inputs |-> ins, sources |-> <<>>, outputs |-> outs]

\* Two tenants over the same datasets, and a second call of the first.
TenantCalls ==
  r1 :> E!Single(JobEvent(<<"ta">>, <<"j">>, <<Shared("a_b")>>, <<Shared("axb")>>)) @@
  r2 :> E!Single(JobEvent(<<"tb">>, <<"j">>, <<Shared("a_b")>>, <<Shared("axb")>>)) @@
  r3 :> E!Batch(<<JobEvent(<<"ta">>, <<"j">>, <<Shared("axb")>>, <<>>)>>)

Producers == INSTANCE Calls WITH
  Request <- DiscoveryRequests, Call <- TenantCalls, MaxAttempts <- 1, MaxBatch <- 1

TenantKeys    == Producers!Keys
TenantPromise == Producers!Promises

OneVersion == {1}

\* Here URNs of jobs differ from one namespace to the other.
ASSUME NamespacesToldApart == Writers!JobsTellNamespace

-----------------------------------------------------------------------------

Last(u) == u[Len(u)]

\* Datasets and jobs by their last segment, which is what is searched for.
ShortSpelling ==
  [u \in Node |-> CASE Last(u) = "a_b" -> <<"A", "_", "b">>
                    [] Last(u) = "axb" -> <<"a", "x", "B">>
                    [] OTHER -> <<u[2], "j">>]

Lower ==
  [x \in {"a", "b", "x", "j", "_", "%", "ta", "tb"} |-> x] @@ "A" :> "a" @@ "B" :> "b"

NamespaceTexts == {<<"ta">>, <<"tb">>, <<"lake">>}

Ordered(S) == CHOOSE f \in [S -> 1..Cardinality(S)] : \A x, y \in S : x # y => f[x] # f[y]

\* Any order of all texts will do.
Ranks == Ordered(Node) @@ Ordered(NamespaceTexts)

Search(text, ns, limit) == [op |-> "search", text |-> text, ns |-> ns, limit |-> limit]
List(limit) == [op |-> "namespaces", text |-> <<"a">>, ns |-> Null, limit |-> limit]

\* Words, scopes and limits; and what is refused.
DiscoveryQueries ==
       {Search(x, ns, n) : x \in {<<"B">>, <<"j">>}, ns \in NamespaceTexts \cup {Null, <<"">>}, n \in {1, 3}}
  \cup {Search(x, Null, 3) : x \in {<<"a", "b">>, <<"x", "b">>, <<>>}}
  \cup {Search(<<"b">>, Null, 4), List(1), List(3), List(0)}

WildcardQueries == {Search(x, Null, 3) : x \in {<<"x">>, <<"_">>}}

=============================================================================
