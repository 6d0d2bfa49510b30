------------------------------- MODULE MCEvents -------------------------------
(***************************************************************************)
(* Short forms for the events and calls of the small instances.            *)
(***************************************************************************)
EXTENDS Translator

DS(name) == [ns |-> Absent, name |-> <<name>>]

DSs(names) == [i \in DOMAIN names |-> DS(names[i])]

Event(ns, job, run, ins, outs) ==
  [valid |-> TRUE, job |-> [ns |-> ns, name |-> <<job>>], run |-> run,
   inputs |-> ins, sources |-> <<>>, outputs |-> outs]

Single(e) == [kind |-> "single", events |-> <<e>>]
Batch(es) == [kind |-> "batch", events |-> es]

=============================================================================
