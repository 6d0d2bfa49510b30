------------------------------ MODULE MCIngest ------------------------------
(***************************************************************************)
(* Small instances of Ingest.                                              *)
(***************************************************************************)
EXTENDS Ingest, MCEvents, TLC

CONSTANTS r1, r2, r3, r4, r5

InX(name) == [ns |-> Absent, name |-> <<"x", name>>]

Extract   == Event(<<"ns">>, "j", <<"run1">>, <<InX("a"), InX("b")>>, <<InX("c")>>)
Reordered == Event(<<"ns">>, "j", <<"run2">>, <<InX("b"), InX("a"), InX("b")>>, <<InX("c")>>)

\* Another job, of another namespace, derives one output of one input, which it
\* lists twice.  Its datasets are in the namespace ns/x and those of Extract in
\* ns, but their URNs are the same: it takes over the derives_from row.
Foreign(name) == [ns |-> <<"ns", "x">>, name |-> <<name>>]
Other == Event(<<"other">>, "k", Null, <<Foreign("a"), Foreign("a")>>, <<Foreign("c")>>)

Empty     == Event(<<"ns">>, "j", <<"run1">>, <<>>, <<>>)
Malformed == [Empty EXCEPT !.valid = FALSE]
NullNs    == Event(Null, "j", <<"run1">>, <<DS("a")>>, <<>>)

\* A batch whose two events overlap, and the second of them on its own: they
\* take the rows they share in different orders, while the attempts of either
\* take them in one order, as in the storm of
\* benchmark/hard_tests/concurrent_writes.py.  Besides, calls that end before
\* they reach the database.
MixedRequests == {r1, r2, r3, r4, r5}
MixedCalls ==
  r1 :> Batch(<<Extract, Other>>) @@ r2 :> Single(Other) @@
  r3 :> Single(Empty) @@ r4 :> Batch(<<Empty, NullNs>>) @@ r5 :> Batch(<<Empty, Malformed>>)
MixedScenarios == {{r1, r2}, {r3, r4}, {r5}}

\* Two producers whose events overlap but list their inputs differently.
OverlapRequests == {r1, r2}
OverlapCalls == r1 :> Single(Extract) @@ r2 :> Single(Reordered)
OverlapScenarios == {OverlapRequests}

\* The jobs of these calls have URNs of their own.
ASSUME JobsToldApart == JobUrnsDistinct

=============================================================================
