----------------------------- MODULE Translator -----------------------------
(***************************************************************************)
(* app/translator.py and the batch loop of app/main.py: how OpenLineage    *)
(* events become edges, and which of the duplicates survive.               *)
(*                                                                         *)
(* A namespace or a name is the sequence of its '/'-free segments, so two  *)
(* URNs are equal here exactly when the formatted strings are equal: the   *)
(* f-string puts a '/' between namespace and name and escapes nothing.     *)
(*                                                                         *)
(* An event is a record                                                    *)
(*   valid    what OpenLineageEvent validation says of its required fields *)
(*   job      [ns, name]      run   the run id, or Null                    *)
(*   inputs, outputs          sequences of datasets [ns, name]             *)
(*   sources  source_tables of the transform facet (a list entry that is   *)
(*            not a dict is an entry without a name: both are dropped)     *)
(*                                                                         *)
(* The edges built by the three loops of translate() are a family indexed  *)
(* by positions <<event, loop, input, output>>, and their order in the     *)
(* list is the lexicographic order of the positions.                       *)
(***************************************************************************)
EXTENDS Integers, Sequences

CONSTANTS
  Absent,     \* the key is not in the JSON object
  Null        \* the key is there, with the value null

Get(v, default) == IF v = Absent THEN default ELSE v

Text(v) == IF v = Null THEN <<"None">> ELSE v

Urn(kind, ns, name) == <<kind>> \o Text(ns) \o Text(name)

IsNamed(d) == d.name \notin {Absent, Null, <<"">>}

JobNs(e) == Get(e.job.ns, <<"default">>)

JobUrn(e) == Urn("job", JobNs(e), Get(e.job.name, <<"unknown">>))

\* Inputs, or the tables of the transform facet when there are none.
Inputs(e) == IF e.inputs # <<>> THEN e.inputs ELSE SelectSeq(e.sources, IsNamed)

Urns(e, datasets) ==
  LET named == SelectSeq(datasets, IsNamed)
  IN  [i \in DOMAIN named |->
         Urn("dataset", Get(named[i].ns, JobNs(e)), named[i].name)]

InUrns(e) == Urns(e, Inputs(e))
OutUrns(e) == Urns(e, e.outputs)

-----------------------------------------------------------------------------
\* The three loops of translate(), for every event of a request: list indices
\* make the places of its edges quadruples of naturals.

Place == Nat \X Nat \X Nat \X Nat

Consumes    == 1
Produces    == 2
DerivesFrom == 3
EdgeType == <<"consumes", "produces", "derives_from">>

\* Mutant of EventPositions: the consumes loop skips the first input.
SkipFirstInput(events, i) ==
  LET ins  == DOMAIN InUrns(events[i])
      outs == DOMAIN OutUrns(events[i])
  IN       {<<i, Consumes, x, 1>> : x \in ins \ {1}}
      \cup {<<i, Produces, 1, y>> : y \in outs}
      \cup {<<i, DerivesFrom, x, y>> : x \in ins, y \in outs}

EventPositions(events, i) ==
  LET ins  == DOMAIN InUrns(events[i])
      outs == DOMAIN OutUrns(events[i])
  IN       {<<i, Consumes, x, 1>> : x \in ins}
      \cup {<<i, Produces, 1, y>> : y \in outs}
      \cup {<<i, DerivesFrom, x, y>> : x \in ins, y \in outs}

Positions(events) == UNION {EventPositions(events, i) : i \in DOMAIN events}

EdgeAt(events, p) ==
  LET e == events[p[1]]
  IN  [src  |-> IF p[2] = Produces THEN JobUrn(e) ELSE InUrns(e)[p[3]],
       dst  |-> IF p[2] = Consumes THEN JobUrn(e) ELSE OutUrns(e)[p[4]],
       type |-> EdgeType[p[2]],
       job  |-> JobUrn(e),
       run  |-> e.run,
       ns   |-> JobNs(e)]

KeyOf(edge) == <<edge.src, edge.dst, edge.type>>

KeyAt(events, p) == KeyOf(EdgeAt(events, p))

\* Edge.namespace is a str: building an edge with None raises.
CannotBuild(edge) == edge.ns = Null

-----------------------------------------------------------------------------
\* Duplicates: the first edge of a key is kept, once per event by _dedupe and
\* once more over what is left of all events by ingest_batch.

Before(p, q) ==
  \/ p[1] < q[1]
  \/ p[1] = q[1] /\ p[2] < q[2]
  \/ p[1] = q[1] /\ p[2] = q[2] /\ p[3] < q[3]
  \/ p[1] = q[1] /\ p[2] = q[2] /\ p[3] = q[3] /\ p[4] < q[4]

FirstInEvent(events) ==
  {p \in Positions(events) : \A q \in Positions(events) :
     q[1] = p[1] /\ Before(q, p) => KeyAt(events, q) # KeyAt(events, p)}

\* Mutant of FirstInBatch: duplicates of different events all go through.
AllEvents(events) == FirstInEvent(events)

\* Mutant of FirstInBatch: the last edge of a key is kept, as a dict would.
LastInBatch(events) ==
  {p \in FirstInEvent(events) : \A q \in FirstInEvent(events) :
     Before(p, q) => KeyAt(events, q) # KeyAt(events, p)}

FirstInBatch(events) ==
  {p \in FirstInEvent(events) : \A q \in FirstInEvent(events) :
     Before(q, p) => KeyAt(events, q) # KeyAt(events, p)}

=============================================================================
