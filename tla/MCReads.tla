------------------------------- MODULE MCReads -------------------------------
(***************************************************************************)
(* Small instances of Reads: two jobs that derive two datasets from one    *)
(* another, a cycle, and a later run of the first that also rewrites its   *)
(* own input, a row that leads from a node to itself.                      *)
(***************************************************************************)
EXTENDS Reads, MCEvents, TLC

CONSTANTS r1, r2, r3, c1

ReadRequests == {r1, r2, r3}

ReadCalls ==
  r1 :> Single(Event(<<"ns">>, "j", <<"run1">>, DSs(<<"a">>), DSs(<<"b">>))) @@
  r2 :> Single(Event(<<"ns">>, "k", <<"run1">>, DSs(<<"b">>), DSs(<<"a">>))) @@
  r3 :> Single(Event(<<"ns">>, "j", <<"run2">>, DSs(<<"a">>), DSs(<<"a", "b">>)))

Producers == INSTANCE Calls WITH
               Request <- ReadRequests, Call <- ReadCalls, MaxAttempts <- 1, MaxBatch <- 1

ReadKeys    == Producers!Keys
ReadPromise == Producers!Promises
ReadVersion == {1}

A == Urn("dataset", <<"ns">>, <<"a">>)
J == Urn("job", <<"ns">>, <<"j">>)

ReadQueries ==
  {[op |-> op, node |-> n, depth |-> d] : op \in Direction \cup {"both"}, n \in {A, J}, d \in {2, 3}}
    \cup {[op |-> "direct", node |-> n, depth |-> 1] : n \in {A, J}}
    \cup {[op |-> "both", node |-> A, depth |-> d] : d \in {0, 1, 4}}

=============================================================================
