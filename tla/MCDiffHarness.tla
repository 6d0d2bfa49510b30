------------------------------ MODULE MCDiffHarness ------------------------------
(***************************************************************************)
(* Small instances of DiffHarness: a job that both reads and writes, and   *)
(* two whose names have the other backend's separator, so that the URN of  *)
(* the one is the id of the other.                                         *)
(***************************************************************************)
EXTENDS DiffHarness, MCEvents

Output(ns, segments) == [ns |-> ns, name |-> segments]

Copies == Event(<<"ns">>, "c", <<"run1">>, DSs(<<"a">>), DSs(<<"b">>))
Colons == Event(<<"n">>, "x:y", <<"run1">>, <<>>, <<Output(Absent, <<"p:q">>)>>)
Slash  == Event(<<"n", "x">>, "y", <<"run1">>, <<>>, <<Output(<<"n", "p">>, <<"q">>)>>)

DiffEvents == {Copies, Colons, Slash}

CopiesUrn == Urn("job", <<"ns">>, <<"c">>)
CopiesId  == MarquezId("job", <<"ns">>, <<"c">>)
InputUrn  == Urn("dataset", <<"ns">>, <<"a">>)
OutputId  == MarquezId("dataset", <<"ns">>, <<"b">>)
Both      == Urn("job", <<"n">>, <<"x:y">>)   \* also the id of the job of Slash

\* Nothing, lines twice, URNs and ids, and what both backends know.
DiffFiles == {<<>>, <<CopiesUrn, CopiesId>>, <<InputUrn>>, <<Both, OutputId, Both>>}

DiffSamples == {-1, 0, 2}

=============================================================================
