------------------------------- MODULE DiffHarness -------------------------------
(***************************************************************************)
(* One run of benchmark/diff_harness.py: nodes of a sample file are looked *)
(* up in data-lineage and in Marquez and the two edge sets compared, while *)
(* producers write their events to both, to each at its own time.          *)
(*                                                                         *)
(* data-lineage is the edges of the events it has, read by the two SELECTs *)
(* of /direct.  Marquez is known by how the harness, its tests and the k6  *)
(* library read it: a graph of jobs and datasets around the node, whose    *)
(* nodes list the edges that leave them, an error for a node it does not   *)
(* know, and ids that separate a namespace from a name by ':'.             *)
(***************************************************************************)
EXTENDS Translator, FiniteSets

CONSTANTS
  Events,   \* what the producers write
  Files,    \* what the sample file may hold: the sequences of its lines
  Samples   \* values of --n

ASSUME DiffAssumption ==
  /\ Samples \subseteq Int
  /\ \A f \in Files : DOMAIN f = 1..Len(f) /\ Len(f) \in Nat

VARIABLES
  lineage, marquez,   \* the events each backend has
  file,      \* the lines that are not blank
  n,         \* --n
  left,      \* the sample, what is left of it: numbers of lines
  stage,     \* of the line in hand
  line,
  a, b,      \* the edges found for its node in each
  counts,
  reported,  \* the lines under "mismatches"
  exit,      \* the exit status
  start,     \* history: what the backends had when the run began
  checked,   \* history: the lines looked up
  seen       \* history: the events Marquez had when it was last asked

backends == <<lineage, marquez>>
sample   == <<file, n>>
vars     == <<backends, sample, left, stage, line, a, b, counts, reported, exit, start, checked, seen>>

Stages == {"next", "upstream", "downstream", "marquez", "compare", "ended"}

node == file[line]

-----------------------------------------------------------------------------
\* The backends.

Edges(e) == {KeyAt(<<e>>, p) : p \in Positions(<<e>>)}

EdgesOf(events) == UNION {Edges(e) : e \in events}

\* kind:namespace:name as the text that it is, in segments between slashes like
\* a URN: one segment has the second colon in it.
MarquezId(kind, ns, name) ==
  LET s == Text(ns)
      t == Text(name)
  IN  <<kind>> \o SubSeq(s, 1, Len(s) - 1) \o <<s[Len(s)] \o ":" \o Head(t)>> \o Tail(t)

MarquezJob(e) == MarquezId("job", JobNs(e), Get(e.job.name, <<"unknown">>))

MarquezDatasets(e, datasets) ==
  {MarquezId("dataset", Get(d.ns, JobNs(e)), d.name) :
     d \in {datasets[i] : i \in {j \in DOMAIN datasets : IsNamed(datasets[j])}}}

\* The edges of Marquez's graph, with the type of the node they leave.
Links(events) ==
  UNION {     {<<id, MarquezJob(e), "DATASET">> : id \in MarquezDatasets(e, Inputs(e))}
         \cup {<<MarquezJob(e), id, "JOB">> : id \in MarquezDatasets(e, e.outputs)} : e \in events}

Known(events) == {MarquezJob(e) : e \in events}
                   \cup {l[1] : l \in Links(events)} \cup {l[2] : l \in Links(events)}

Sources(id, links)    == {l[1] : l \in {l \in links : l[2] = id}}
Neighbours(id, links) == Sources(id, links) \cup {l[2] : l \in {l \in links : l[1] = id}}

\* Mutant of MarquezEdge: the type of an edge is that of the node it enters.
TypedByTarget(l) == <<l[1], l[2], IF l[3] = "JOB" THEN "consumes" ELSE "produces">>

\* The adapter: the type of an edge tells that of the node it leaves, whose id
\* is kept as it is.
MarquezEdge(l) == <<l[1], l[2], IF l[3] = "JOB" THEN "produces" ELSE "consumes">>

\* All edges that leave a node of the graph.
MarquezEdges(graph, links) == {MarquezEdge(l) : l \in {l \in links : l[1] \in graph}}

\* What the producers' events say of Marquez's nodes, in data-lineage's words.
InMarquez(events) ==
  UNION {     {<<id, MarquezJob(e), "consumes">> : id \in MarquezDatasets(e, Inputs(e))}
         \cup {<<MarquezJob(e), id, "produces">> : id \in MarquezDatasets(e, e.outputs)} : e \in events}

-----------------------------------------------------------------------------

Zero == [checked |-> 0, match |-> 0, mismatch |-> 0, error |-> 0]

\* Lines to be taken from the file, which random.sample refuses to be negative.
SampleSize == IF n < Len(file) THEN n ELSE Len(file)

\* Lines of the file, at random; a file without any is an error.
Init ==
  /\ \E had \in SUBSET Events, got \in SUBSET Events :
       lineage = had /\ marquez = got /\ start = [lineage |-> had, marquez |-> got]
  /\ file \in Files /\ n \in Samples
  /\ \/ file = <<>> /\ left = {} /\ stage = "ended" /\ exit = 2
     \/ file # <<>> /\ n < 0 /\ left = {} /\ stage = "ended" /\ exit = 1
     \/ /\ file # <<>> /\ n >= 0
        /\ left \in {s \in SUBSET DOMAIN file : Cardinality(s) = SampleSize}
        /\ stage = "next" /\ exit = -1
  /\ line = 0 /\ a = {} /\ b = {}
  /\ counts = Zero /\ reported = {} /\ checked = {}
  /\ seen = {}

Take ==
  /\ stage = "next"
  /\ \E l \in left :
       /\ line' = l
       /\ left' = left \ {l}
       /\ checked' = checked \cup {l}
  /\ stage' = "upstream"
  /\ UNCHANGED <<backends, sample, a, b, counts, reported, exit, start, seen>>

Upstream ==
  /\ stage = "upstream"
  /\ a' = {k \in EdgesOf(lineage) : k[2] = node}
  /\ stage' = "downstream"
  /\ UNCHANGED <<backends, sample, left, line, b, counts, reported, exit, start, checked, seen>>

Downstream ==
  /\ stage = "downstream"
  /\ a' = a \cup {k \in EdgesOf(lineage) : k[1] = node}
  /\ stage' = "marquez"
  /\ UNCHANGED <<backends, sample, left, line, b, counts, reported, exit, start, checked, seen>>

\* The graph has what leads to the node; what follows it may or may not be there.
AskMarquez ==
  /\ stage = "marquez" /\ node \in Known(marquez)
  /\ LET links == Links(marquez)
     IN  \E more \in SUBSET Neighbours(node, links) :
           b' = MarquezEdges({node} \cup Sources(node, links) \cup more, links)
  /\ seen' = marquez
  /\ stage' = "compare"
  /\ UNCHANGED <<backends, sample, left, line, a, counts, reported, exit, start, checked>>

Tally(kind) == counts' = [counts EXCEPT !.checked = @ + 1, ![kind] = @ + 1]

\* Either request fails or is answered with an error, as for an unknown node.
HttpError ==
  /\ stage \in {"upstream", "downstream", "marquez"}
  /\ Tally("error")
  /\ reported' = reported \cup {line}
  /\ stage' = "next"
  /\ UNCHANGED <<backends, sample, left, line, a, b, exit, start, checked, seen>>

\* Mutant of Compare: what only Marquez has is no mismatch.
CompareOneWay ==
  /\ stage = "compare"
  /\ IF a \subseteq b
       THEN Tally("match") /\ UNCHANGED reported
       ELSE Tally("mismatch") /\ reported' = reported \cup {line}
  /\ stage' = "next"
  /\ UNCHANGED <<backends, sample, left, line, a, b, exit, start, checked, seen>>

\* Mutant of Compare: mismatches are not put into the report.
CompareUnlisted ==
  /\ stage = "compare"
  /\ IF a = b THEN Tally("match") ELSE Tally("mismatch")
  /\ stage' = "next"
  /\ UNCHANGED <<backends, sample, left, line, a, b, reported, exit, start, checked, seen>>

Compare ==
  /\ stage = "compare"
  /\ IF a = b
       THEN Tally("match") /\ UNCHANGED reported
       ELSE Tally("mismatch") /\ reported' = reported \cup {line}
  /\ stage' = "next"
  /\ UNCHANGED <<backends, sample, left, line, a, b, exit, start, checked, seen>>

\* An answer that is no JSON, or not of that shape, is no HTTPError: no report.
BadAnswer ==
  /\ stage \in {"downstream", "marquez"}
  /\ stage' = "ended" /\ exit' = 1
  /\ UNCHANGED <<backends, sample, left, line, a, b, counts, reported, start, checked, seen>>

Report ==
  /\ stage = "next" /\ left = {}
  /\ stage' = "ended"
  /\ exit' = IF counts.mismatch = 0 /\ counts.error = 0 THEN 0 ELSE 1
  /\ UNCHANGED <<backends, sample, left, line, a, b, counts, reported, start, checked, seen>>

\* A producer's write arrives at one of the backends.
Deliver(e) ==
  /\ \/ e \notin lineage /\ lineage' = lineage \cup {e} /\ UNCHANGED marquez
     \/ e \notin marquez /\ marquez' = marquez \cup {e} /\ UNCHANGED lineage
  /\ UNCHANGED <<sample, left, stage, line, a, b, counts, reported, exit, start, checked, seen>>

Rest == stage = "ended" /\ UNCHANGED vars

Next ==
  \/ Take \/ Upstream \/ Downstream \/ AskMarquez \/ Compare
  \/ HttpError \/ BadAnswer \/ Report \/ Rest
  \/ \E e \in Events : Deliver(e)

Spec == Init /\ [][Next]_vars

-----------------------------------------------------------------------------
\* Properties.

DiffTypeOK ==
  /\ lineage \subseteq Events /\ marquez \subseteq Events
  /\ stage \in Stages /\ exit \in {-1, 0, 1, 2}
  /\ left \cup checked \subseteq DOMAIN file /\ left \cap checked = {}
  /\ counts.checked = counts.match + counts.mismatch + counts.error
  /\ Cardinality(reported) = counts.mismatch + counts.error
  /\ stage = "next" => counts.checked = Cardinality(checked)

At(id, edges) == {k \in edges : id \in {k[1], k[2]}}

\* Exit 0 says, whatever was written meanwhile, that as many lines were looked up
\* as were asked for and the file has, which has one, and that all edges of
\* their nodes that one backend had when the run began the other has by its end,
\* spelled alike (diff_harness.py:62-75, 79-83, 92-112).
ZeroMeansCovered ==
  exit = 0 =>
    /\ file # <<>> /\ Cardinality(checked) = SampleSize
    /\ \A l \in checked :
         /\ At(file[l], InMarquez(start.marquez)) \subseteq EdgesOf(lineage)
         /\ At(file[l], EdgesOf(start.lineage)) \subseteq InMarquez(marquez)

\* Whatever part of its graph Marquez returns, the adapter makes of it all edges
\* at the node that Marquez had when it was asked, with the types data-lineage
\* gives to such edges, and nothing else but edges at a neighbour
\* (diff_harness.py:44-59).
AdapterExact ==
  stage = "compare" =>
    /\ At(node, InMarquez(seen)) \subseteq b
    /\ b \subseteq InMarquez(seen)
    /\ \A k \in b : node \in {k[1], k[2]} \/ k[1] \in Neighbours(node, Links(seen))

=============================================================================
