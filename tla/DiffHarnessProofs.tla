---------------------------- MODULE DiffHarnessProofs ----------------------------
(***************************************************************************)
(* Theorems about DiffHarness: what its exit status means and what its     *)
(* adapter finds, for any events, sample files and values of --n, and any  *)
(* arrival of the writes.                                                  *)
(***************************************************************************)
EXTENDS DiffHarness, FiniteSetTheorems, TLAPS

\* A node is being looked up.
InHand == {"upstream", "downstream", "marquez", "compare"}

Counts == [checked : Nat, match : Nat, mismatch : Nat, error : Nat]

\* What has been counted: the node in hand is looked up and not yet counted.
Tallied ==
  /\ lineage \subseteq Events /\ marquez \subseteq Events
  /\ stage \in Stages /\ exit \in {-1, 0, 1, 2}
  /\ left \cup checked \subseteq DOMAIN file /\ left \cap checked = {}
  /\ counts \in Counts
  /\ counts.checked = counts.match + counts.mismatch + counts.error
  /\ IsFiniteSet(checked) /\ IsFiniteSet(reported) /\ reported \subseteq checked
  /\ Cardinality(reported) = counts.mismatch + counts.error
  /\ stage = "next" => counts.checked = Cardinality(checked)
  /\ stage \in InHand => /\ counts.checked + 1 = Cardinality(checked)
                         /\ line \in checked \ reported

\* The edges found so far: those of the first SELECT, then those of both, are
\* from between the start and now, and b is an answer of Marquez.
Answers(id, links) ==
  {MarquezEdges({id} \cup Sources(id, links) \cup more, links) : more \in SUBSET Neighbours(id, links)}

Shown ==
  /\ start \in [lineage : SUBSET Events, marquez : SUBSET Events]
  /\ start.lineage \subseteq lineage /\ start.marquez \subseteq marquez
  /\ stage \in {"downstream", "marquez", "compare"} =>
       /\ {k \in EdgesOf(start.lineage) : k[2] = node} \subseteq a
       /\ a \subseteq EdgesOf(lineage)
  /\ stage \in {"marquez", "compare"} => {k \in EdgesOf(start.lineage) : k[1] = node} \subseteq a
  /\ stage = "compare" =>
       /\ start.marquez \subseteq seen /\ seen \subseteq marquez
       /\ b \in Answers(node, Links(seen))

\* What ZeroMeansCovered says of one line.
Covered(l) ==
  /\ At(file[l], InMarquez(start.marquez)) \subseteq EdgesOf(lineage)
  /\ At(file[l], EdgesOf(start.lineage)) \subseteq InMarquez(marquez)

\* While nothing is wrong all lines but the one in hand are covered, and those
\* looked up are with those to come the sample.
Settled ==
  /\ exit = -1 <=> stage # "ended"
  /\ exit \in {-1, 0} => /\ file # <<>> /\ IsFiniteSet(left) /\ IsFiniteSet(checked)
                         /\ Cardinality(left) + Cardinality(checked) = SampleSize
  /\ exit = 0 => left = {} /\ counts.mismatch = 0 /\ counts.error = 0
  /\ exit # 1 /\ counts.mismatch = 0 /\ counts.error = 0 =>
       \A l \in checked : Covered(l) \/ (stage \in InHand /\ l = line)

-----------------------------------------------------------------------------
\* The lookups are counted.

LEMMA Counting ==
  ASSUME NEW c \in Counts, NEW d
  PROVE  /\ d = [c EXCEPT !.checked = @ + 1, !["match"] = @ + 1] =>
              d = [checked |-> c.checked + 1, match |-> c.match + 1,
                   mismatch |-> c.mismatch, error |-> c.error]
         /\ d = [c EXCEPT !.checked = @ + 1, !["mismatch"] = @ + 1] =>
              d = [checked |-> c.checked + 1, match |-> c.match,
                   mismatch |-> c.mismatch + 1, error |-> c.error]
         /\ d = [c EXCEPT !.checked = @ + 1, !["error"] = @ + 1] =>
              d = [checked |-> c.checked + 1, match |-> c.match,
                   mismatch |-> c.mismatch, error |-> c.error + 1]
BY DEF Counts

LEMMA TallyStep ==
  ASSUME Tallied, [Next]_vars
  PROVE  Tallied'
<1>1. CASE Take
  <2>1. PICK l \in left : /\ line' = l /\ left' = left \ {l} /\ checked' = checked \cup {l}
                          /\ stage = "next" /\ stage' = "upstream"
                          /\ UNCHANGED <<lineage, marquez, file, counts, reported, exit>>
    BY <1>1 DEF Take, backends, sample
  <2>2. l \notin checked /\ l \notin reported
    BY <2>1 DEF Tallied
  <2>3. IsFiniteSet(checked') /\ Cardinality(checked') = Cardinality(checked) + 1
    BY <2>1, <2>2, FS_AddElement DEF Tallied
  <2> QED BY <2>1, <2>2, <2>3 DEF Tallied, Stages, InHand
<1>2. ASSUME stage \in InHand, stage' \in InHand,
             UNCHANGED <<file, left, line, counts, reported, exit, checked>>,
             lineage' \subseteq Events, marquez' \subseteq Events
      PROVE  Tallied'
  BY <1>2 DEF Tallied, Stages, InHand
<1>3. CASE Upstream \/ Downstream \/ AskMarquez
  BY <1>2, <1>3 DEF Upstream, Downstream, AskMarquez, backends, sample, InHand, Tallied
<1>4. ASSUME Tally("error") \/ Tally("mismatch"), stage \in InHand, stage' = "next",
             reported' = reported \cup {line},
             UNCHANGED <<backends, sample, left, exit, checked>>
      PROVE  Tallied'
  <2>1. /\ counts' \in Counts
        /\ counts'.checked = counts.checked + 1
        /\ counts'.match = counts.match
        /\ counts'.mismatch + counts'.error = counts.mismatch + counts.error + 1
    <3>1. counts \in Counts
      BY DEF Tallied
    <3>2. counts' = [counts EXCEPT !.checked = @ + 1, !["error"] = @ + 1]
            \/ counts' = [counts EXCEPT !.checked = @ + 1, !["mismatch"] = @ + 1]
      BY <1>4 DEF Tally
    <3>3. counts' = [checked |-> counts.checked + 1, match |-> counts.match,
                     mismatch |-> counts.mismatch, error |-> counts.error + 1]
            \/ counts' = [checked |-> counts.checked + 1, match |-> counts.match,
                          mismatch |-> counts.mismatch + 1, error |-> counts.error]
      BY <3>1, <3>2, Counting
    <3> QED BY <3>1, <3>3 DEF Counts
  <2>2. /\ IsFiniteSet(reported') /\ reported' \subseteq checked
        /\ Cardinality(reported') = Cardinality(reported) + 1
    BY <1>4, FS_AddElement DEF Tallied
  <2> QED BY <1>4, <2>1, <2>2 DEF Tallied, Counts, backends, sample, Stages, InHand
<1>5. CASE HttpError
  BY <1>4, <1>5 DEF HttpError, InHand
<1>6. CASE Compare
  <2>1. CASE a = b
    <3>1. /\ counts' \in Counts
          /\ counts'.checked = counts.checked + 1
          /\ counts'.match = counts.match + 1
          /\ counts'.mismatch = counts.mismatch /\ counts'.error = counts.error
      <4>1. counts \in Counts
        BY DEF Tallied
      <4>2. counts' = [counts EXCEPT !.checked = @ + 1, !["match"] = @ + 1]
        BY <1>6, <2>1 DEF Compare, Tally
      <4>3. counts' = [checked |-> counts.checked + 1, match |-> counts.match + 1,
                       mismatch |-> counts.mismatch, error |-> counts.error]
        BY <4>1, <4>2, Counting
      <4> QED BY <4>1, <4>3 DEF Counts
    <3> QED BY <1>6, <2>1, <3>1 DEF Compare, Tallied, Counts, backends, sample, Stages, InHand
  <2>2. CASE a # b
    BY <1>4, <1>6, <2>2 DEF Compare, InHand
  <2> QED BY <2>1, <2>2
<1>7. CASE BadAnswer \/ Report
  BY <1>7 DEF BadAnswer, Report, Tallied, backends, sample, Stages, InHand
<1>8. ASSUME NEW e \in Events, Deliver(e)
      PROVE  Tallied'
  BY <1>8 DEF Deliver, Tallied, sample, Stages, InHand
<1>9. CASE UNCHANGED vars
  BY <1>9 DEF vars, backends, sample, Tallied, Stages, InHand
<1> QED BY <1>1, <1>3, <1>5, <1>6, <1>7, <1>8, <1>9 DEF Next, Rest

LEMMA TallyStarts == Init => Tallied
<1> SUFFICES ASSUME Init PROVE Tallied
  OBVIOUS
<1>1. IsFiniteSet({}) /\ Cardinality({}) = 0
  BY FS_EmptySet
<1>2. counts = Zero /\ checked = {} /\ reported = {} /\ left \subseteq DOMAIN file
      /\ lineage \subseteq Events /\ marquez \subseteq Events
      /\ \/ stage = "ended" /\ exit \in {1, 2}
         \/ stage = "next" /\ exit = -1
  BY DEF Init
<1> QED BY <1>1, <1>2 DEF Tallied, Counts, Zero, Stages, InHand

\* The counts add up, and each node that is counted as a mismatch or an error is
\* in the report, once (DiffHarness.tla, DiffTypeOK; diff_harness.py:62-112).
THEOREM DiffTypeCorrect == Spec => []DiffTypeOK
<1>1. Tallied /\ [Next]_vars => Tallied'
  BY TallyStep
<1>2. Tallied => DiffTypeOK
  BY DEF Tallied, DiffTypeOK
<1> QED BY <1>1, <1>2, TallyStarts, PTL DEF Spec

-----------------------------------------------------------------------------
\* The edges of the events.

LEMMA EdgesGrow ==
  ASSUME NEW had, NEW has, had \subseteq has
  PROVE  EdgesOf(had) \subseteq EdgesOf(has) /\ InMarquez(had) \subseteq InMarquez(has)
BY DEF EdgesOf, InMarquez

\* What the adapter makes of Marquez's edges is what the events say of them.
LEMMA LinksTyped ==
  ASSUME NEW events
  PROVE  InMarquez(events) = {MarquezEdge(l) : l \in Links(events)}
<1>1. ASSUME NEW k \in InMarquez(events)
      PROVE  \E l \in Links(events) : k = MarquezEdge(l)
  <2>1. PICK e \in events :
          \/ \E id \in MarquezDatasets(e, Inputs(e)) : k = <<id, MarquezJob(e), "consumes">>
          \/ \E id \in MarquezDatasets(e, e.outputs) : k = <<MarquezJob(e), id, "produces">>
    BY DEF InMarquez
  <2>2. ASSUME NEW id \in MarquezDatasets(e, Inputs(e)), k = <<id, MarquezJob(e), "consumes">>
        PROVE  \E l \in Links(events) : k = MarquezEdge(l)
    <3>1. <<id, MarquezJob(e), "DATASET">> \in Links(events)
      BY DEF Links
    <3>2. k = MarquezEdge(<<id, MarquezJob(e), "DATASET">>)
      BY <2>2 DEF MarquezEdge
    <3> QED BY <3>1, <3>2
  <2>3. ASSUME NEW id \in MarquezDatasets(e, e.outputs), k = <<MarquezJob(e), id, "produces">>
        PROVE  \E l \in Links(events) : k = MarquezEdge(l)
    <3>1. <<MarquezJob(e), id, "JOB">> \in Links(events)
      BY DEF Links
    <3>2. k = MarquezEdge(<<MarquezJob(e), id, "JOB">>)
      BY <2>3 DEF MarquezEdge
    <3> QED BY <3>1, <3>2
  <2> QED BY <2>1, <2>2, <2>3
<1>2. ASSUME NEW l \in Links(events)
      PROVE  MarquezEdge(l) \in InMarquez(events)
  <2>1. PICK e \in events :
          \/ \E id \in MarquezDatasets(e, Inputs(e)) : l = <<id, MarquezJob(e), "DATASET">>
          \/ \E id \in MarquezDatasets(e, e.outputs) : l = <<MarquezJob(e), id, "JOB">>
    BY DEF Links
  <2>2. ASSUME NEW id \in MarquezDatasets(e, Inputs(e)), l = <<id, MarquezJob(e), "DATASET">>
        PROVE  MarquezEdge(l) \in InMarquez(events)
    <3>1. MarquezEdge(l) = <<id, MarquezJob(e), "consumes">>
      BY <2>2 DEF MarquezEdge
    <3> QED BY <3>1 DEF InMarquez
  <2>3. ASSUME NEW id \in MarquezDatasets(e, e.outputs), l = <<MarquezJob(e), id, "JOB">>
        PROVE  MarquezEdge(l) \in InMarquez(events)
    <3>1. MarquezEdge(l) = <<MarquezJob(e), id, "produces">>
      BY <2>3 DEF MarquezEdge
    <3> QED BY <3>1 DEF InMarquez
  <2> QED BY <2>1, <2>2, <2>3
<1> QED BY <1>1, <1>2

\* What is answered for a node: edges of Marquez, all of those at the node, and
\* no others but edges at its neighbours.
LEMMA AnswerKnown ==
  ASSUME NEW events, NEW id, NEW found \in Answers(id, Links(events))
  PROVE  /\ found \subseteq InMarquez(events) /\ At(id, InMarquez(events)) \subseteq found
         /\ \A k \in found : id \in {k[1], k[2]} \/ k[1] \in Neighbours(id, Links(events))
<1> DEFINE links == Links(events)
<1>1. PICK more \in SUBSET Neighbours(id, links) :
        found = MarquezEdges({id} \cup Sources(id, links) \cup more, links)
  BY DEF Answers
<1> DEFINE graph == {id} \cup Sources(id, links) \cup more
<1>2. found = {MarquezEdge(l) : l \in {l \in links : l[1] \in graph}}
  BY <1>1 DEF MarquezEdges
<1>3. found \subseteq InMarquez(events)
  BY <1>2, LinksTyped
<1>4. \A l : MarquezEdge(l)[1] = l[1] /\ MarquezEdge(l)[2] = l[2]
  BY DEF MarquezEdge
<1>5. ASSUME NEW k \in At(id, InMarquez(events))
      PROVE  k \in found
  <2>1. PICK l \in links : k = MarquezEdge(l)
    BY <1>5, LinksTyped DEF At
  <2>2. l[1] = id \/ l[2] = id
    BY <1>4, <1>5, <2>1 DEF At
  <2>3. l[1] \in graph
    BY <2>2 DEF Sources
  <2> HIDE DEF graph
  <2> QED BY <1>2, <2>1, <2>3
<1>6. ASSUME NEW k \in found
      PROVE  id \in {k[1], k[2]} \/ k[1] \in Neighbours(id, links)
  <2>1. k[1] \in graph
    BY <1>2, <1>4
  <2> QED BY <2>1 DEF Neighbours
<1> QED BY <1>3, <1>5, <1>6

-----------------------------------------------------------------------------
\* What has been read.

LEMMA ShownStep ==
  ASSUME Tallied, Shown, [Next]_vars
  PROVE  Shown'
<1>1. CASE Take
  BY <1>1 DEF Take, Shown, backends, sample
<1>2. CASE Upstream
  <2>1. /\ a' = {k \in EdgesOf(lineage) : k[2] = node} /\ stage' = "downstream"
        /\ UNCHANGED <<lineage, marquez, file, line, start>>
    BY <1>2 DEF Upstream, backends, sample
  <2>2. EdgesOf(start.lineage) \subseteq EdgesOf(lineage)
    BY EdgesGrow DEF Shown
  <2> QED BY <2>1, <2>2 DEF Shown, node
<1>3. CASE Downstream
  <2>1. /\ a' = a \cup {k \in EdgesOf(lineage) : k[1] = node}
        /\ stage = "downstream" /\ stage' = "marquez"
        /\ UNCHANGED <<lineage, marquez, file, line, start>>
    BY <1>3 DEF Downstream, backends, sample
  <2>2. EdgesOf(start.lineage) \subseteq EdgesOf(lineage)
    BY EdgesGrow DEF Shown
  <2> QED BY <2>1, <2>2 DEF Shown, node
<1>4. CASE AskMarquez
  <2>1. /\ seen' = marquez /\ b' \in Answers(node, Links(marquez))
        /\ stage = "marquez" /\ stage' = "compare"
        /\ UNCHANGED <<lineage, marquez, file, line, start, a>>
    BY <1>4 DEF AskMarquez, backends, sample, Answers
  <2> QED BY <2>1 DEF Shown, node
<1>5. CASE HttpError \/ Compare \/ BadAnswer \/ Report
  <2>1. stage' \in {"next", "ended"} /\ UNCHANGED <<lineage, marquez, start, seen>>
    BY <1>5 DEF HttpError, Compare, BadAnswer, Report, backends
  <2> QED BY <2>1 DEF Shown, node
<1>6. ASSUME NEW e \in Events, Deliver(e)
      PROVE  Shown'
  <2>1. lineage \subseteq lineage' /\ marquez \subseteq marquez'
        /\ UNCHANGED <<stage, file, line, a, b, start, seen>>
    BY <1>6 DEF Deliver, sample
  <2>2. EdgesOf(lineage) \subseteq EdgesOf(lineage')
    BY <2>1, EdgesGrow
  <2> QED BY <2>1, <2>2 DEF Shown, node
<1>7. CASE UNCHANGED vars
  BY <1>7 DEF vars, backends, sample, Shown, node
<1> QED BY <1>1, <1>2, <1>3, <1>4, <1>5, <1>6, <1>7 DEF Next, Rest

LEMMA ShownStarts == Init => Shown
BY DEF Init, Shown

\* What was covered stays covered.
LEMMA CoverStays ==
  ASSUME Shown, [Next]_vars, NEW l, Covered(l)
  PROVE  Covered(l)'
<1>1. start' = start /\ file' = file /\ lineage \subseteq lineage' /\ marquez \subseteq marquez'
  BY DEF Next, Take, Upstream, Downstream, AskMarquez, HttpError, Compare, BadAnswer, Report, Rest,
         Deliver, vars, backends, sample
<1>2. EdgesOf(lineage) \subseteq EdgesOf(lineage') /\ InMarquez(marquez) \subseteq InMarquez(marquez')
  BY <1>1, EdgesGrow
<1> QED BY <1>1, <1>2 DEF Covered

\* Equal edge sets cover the node.
LEMMA MatchCovers ==
  ASSUME Tallied, Shown, stage = "compare", a = b
  PROVE  Covered(line)
<1>1. /\ b \in Answers(node, Links(seen))
      /\ start.marquez \subseteq seen /\ seen \subseteq marquez
      /\ At(node, EdgesOf(start.lineage)) \subseteq a /\ a \subseteq EdgesOf(lineage)
  BY DEF Shown, At
<1>2. b \subseteq InMarquez(seen) /\ At(node, InMarquez(seen)) \subseteq b
  BY <1>1, AnswerKnown
<1>3. InMarquez(start.marquez) \subseteq InMarquez(seen) /\ InMarquez(seen) \subseteq InMarquez(marquez)
  BY <1>1, EdgesGrow
<1>4. At(node, InMarquez(start.marquez)) \subseteq EdgesOf(lineage)
  BY <1>1, <1>2, <1>3 DEF At
<1>5. At(node, EdgesOf(start.lineage)) \subseteq InMarquez(marquez)
  BY <1>1, <1>2, <1>3
<1> QED BY <1>4, <1>5 DEF Covered, node

-----------------------------------------------------------------------------
\* The exit status.

LEMMA SettledStep ==
  ASSUME Tallied, Shown, Settled, [Next]_vars
  PROVE  Settled'
<1>1. \A l : Covered(l) => Covered(l)'
  BY CoverStays
<1>2. CASE Take
  <2>1. PICK l \in left : /\ line' = l /\ left' = left \ {l} /\ checked' = checked \cup {l}
                          /\ stage = "next" /\ stage' = "upstream"
                          /\ UNCHANGED <<file, n, counts, exit>>
    BY <1>2 DEF Take, sample
  <2>2. exit' = -1 /\ exit = -1 /\ l \in checked' /\ l \notin checked
    BY <2>1 DEF Settled, Tallied
  <2>3. ASSUME counts.mismatch = 0, counts.error = 0, NEW m \in checked'
        PROVE  Covered(m)' \/ (stage' \in InHand /\ m = line')
    <3>1. m \in checked => Covered(m)
      BY <2>1, <2>2, <2>3 DEF Settled, InHand
    <3> QED BY <1>1, <2>1, <3>1 DEF InHand
  <2>4. /\ file' # <<>> /\ IsFiniteSet(left') /\ IsFiniteSet(checked')
        /\ Cardinality(left') + Cardinality(checked') = SampleSize'
    <3>1. /\ file # <<>> /\ IsFiniteSet(left) /\ IsFiniteSet(checked)
          /\ Cardinality(left) + Cardinality(checked) = SampleSize
      BY <2>2 DEF Settled
    <3>2. /\ IsFiniteSet(left') /\ Cardinality(left') = Cardinality(left) - 1
          /\ Cardinality(left) \in Nat
      BY <2>1, <3>1, FS_RemoveElement, FS_CardinalityType
    <3>3. /\ IsFiniteSet(checked') /\ Cardinality(checked') = Cardinality(checked) + 1
          /\ Cardinality(checked) \in Nat
      BY <2>1, <2>2, <3>1, FS_AddElement, FS_CardinalityType
    <3>4. SampleSize' = SampleSize
      BY <2>1 DEF SampleSize
    <3> QED BY <2>1, <3>1, <3>2, <3>3, <3>4
  <2> QED BY <2>1, <2>2, <2>3, <2>4 DEF Settled
<1>3. CASE Upstream \/ Downstream \/ AskMarquez
  <2>1. /\ stage \in InHand /\ stage' \in InHand
        /\ UNCHANGED <<file, n, left, line, counts, exit, checked>>
    BY <1>3 DEF Upstream, Downstream, AskMarquez, InHand, sample
  <2> QED BY <1>1, <2>1 DEF Settled, InHand, SampleSize
<1>4. CASE HttpError
  <2>1. /\ stage \in InHand /\ stage' = "next"
        /\ counts' = [counts EXCEPT !.checked = @ + 1, !["error"] = @ + 1]
        /\ UNCHANGED <<file, n, left, exit, checked>>
    BY <1>4 DEF HttpError, Tally, InHand, sample
  <2>2. counts'.error # 0
    <3>1. counts' = [checked |-> counts.checked + 1, match |-> counts.match,
                     mismatch |-> counts.mismatch, error |-> counts.error + 1]
      BY <2>1, Counting DEF Tallied
    <3> QED BY <3>1 DEF Tallied, Counts
  <2> QED BY <2>1, <2>2 DEF Settled, InHand, SampleSize
<1>5. CASE Compare /\ a = b
  <2>1. /\ stage = "compare" /\ stage' = "next"
        /\ counts' = [counts EXCEPT !.checked = @ + 1, !["match"] = @ + 1]
        /\ UNCHANGED <<file, n, left, exit, checked>>
    BY <1>5 DEF Compare, Tally, sample
  <2>2. counts'.mismatch = counts.mismatch /\ counts'.error = counts.error
    <3>1. counts' = [checked |-> counts.checked + 1, match |-> counts.match + 1,
                     mismatch |-> counts.mismatch, error |-> counts.error]
      BY <2>1, Counting DEF Tallied
    <3> QED BY <3>1
  <2>3. Covered(line)
    BY <1>5, <2>1, MatchCovers
  <2> QED BY <1>1, <2>1, <2>2, <2>3 DEF Settled, InHand, SampleSize
<1>6. CASE Compare /\ a # b
  <2>1. /\ stage = "compare" /\ stage' = "next"
        /\ counts' = [counts EXCEPT !.checked = @ + 1, !["mismatch"] = @ + 1]
        /\ UNCHANGED <<file, n, left, exit, checked>>
    BY <1>6 DEF Compare, Tally, sample
  <2>2. counts'.mismatch # 0
    <3>1. counts' = [checked |-> counts.checked + 1, match |-> counts.match,
                     mismatch |-> counts.mismatch + 1, error |-> counts.error]
      BY <2>1, Counting DEF Tallied
    <3> QED BY <3>1 DEF Tallied, Counts
  <2> QED BY <2>1, <2>2 DEF Settled, InHand, SampleSize
<1>7. CASE BadAnswer
  BY <1>7 DEF BadAnswer, Settled
<1>8. CASE Report
  <2>1. /\ stage = "next" /\ left = {} /\ stage' = "ended"
        /\ exit' = IF counts.mismatch = 0 /\ counts.error = 0 THEN 0 ELSE 1
        /\ UNCHANGED <<file, n, left, counts, checked>>
    BY <1>8 DEF Report, sample
  <2>2. exit = -1
    BY <2>1 DEF Settled
  <2> QED BY <1>1, <2>1, <2>2 DEF Settled, InHand, SampleSize
<1>9. ASSUME UNCHANGED <<file, n, left, stage, line, counts, exit, checked>>
      PROVE  Settled'
  BY <1>1, <1>9 DEF Settled, SampleSize
<1>10. CASE UNCHANGED vars \/ \E e \in Events : Deliver(e)
  BY <1>9, <1>10 DEF vars, Deliver, sample
<1> QED BY <1>2, <1>3, <1>4, <1>5, <1>6, <1>7, <1>8, <1>10 DEF Next, Rest

LEMMA SettledStarts == Init => Settled
<1> SUFFICES ASSUME Init PROVE Settled
  OBVIOUS
<1>1. counts = Zero /\ checked = {} /\ file \in Files
  BY DEF Init
<1>2. \/ stage = "ended" /\ exit \in {1, 2}
      \/ /\ stage = "next" /\ exit = -1 /\ file # <<>>
         /\ left \subseteq DOMAIN file /\ Cardinality(left) = SampleSize
  BY DEF Init
<1>3. IsFiniteSet(DOMAIN file)
  <2>1. DOMAIN file = 1..Len(file) /\ Len(file) \in Nat
    BY <1>1, DiffAssumption
  <2> QED BY <2>1, FS_Interval
<1>4. left \subseteq DOMAIN file => IsFiniteSet(left) /\ Cardinality(left) \in Nat
  BY <1>3, FS_Subset, FS_CardinalityType
<1>5. IsFiniteSet(checked) /\ Cardinality(checked) = 0
  BY <1>1, FS_EmptySet
<1>6. stage = "next" => Cardinality(left) + Cardinality(checked) = SampleSize
  BY <1>2, <1>4, <1>5
<1> QED BY <1>1, <1>2, <1>4, <1>5, <1>6 DEF Settled

DInv == Tallied /\ Shown /\ Settled

LEMMA DInvHolds == Spec => []DInv
<1>1. Init => DInv
  BY TallyStarts, ShownStarts, SettledStarts DEF DInv
<1>2. DInv /\ [Next]_vars => DInv'
  BY TallyStep, ShownStep, SettledStep DEF DInv
<1> QED BY <1>1, <1>2, PTL DEF Spec

\* An exit status of 0 says that the whole sample was looked up, as many lines
\* as --n asks for and the file has, and that all edges the backends had of these
\* nodes at the beginning are in both, spelled alike, whatever arrived meanwhile.
\* For --n 0 that is nothing (DiffHarness.tla, ZeroMeansCovered;
\* diff_harness.py:62-112).
THEOREM ZeroIsTrusted == Spec => []ZeroMeansCovered
<1>1. DInv => ZeroMeansCovered
  <2> SUFFICES ASSUME DInv, exit = 0
               PROVE  /\ file # <<>> /\ Cardinality(checked) = SampleSize
                      /\ \A l \in checked : Covered(l)
    BY DEF ZeroMeansCovered, Covered
  <2>1. /\ stage = "ended" /\ left = {} /\ counts.mismatch = 0 /\ counts.error = 0
        /\ file # <<>> /\ IsFiniteSet(checked)
        /\ Cardinality(left) + Cardinality(checked) = SampleSize
    BY DEF DInv, Settled
  <2>2. Cardinality(left) = 0 /\ Cardinality(checked) \in Nat
    BY <2>1, FS_EmptySet, FS_CardinalityType
  <2>3. \A l \in checked : Covered(l)
    BY <2>1 DEF DInv, Settled, InHand
  <2> QED BY <2>1, <2>2, <2>3
<1> QED BY <1>1, DInvHolds, PTL

\* The adapter neither loses an edge at the node nor makes one up, whatever part
\* of its graph Marquez returns (DiffHarness.tla, AdapterExact;
\* diff_harness.py:44-59).
THEOREM AdapterIsExact == Spec => []AdapterExact
<1>1. DInv => AdapterExact
  <2> SUFFICES ASSUME DInv, stage = "compare" PROVE AdapterExact
    BY DEF AdapterExact
  <2>1. b \in Answers(node, Links(seen))
    BY DEF DInv, Shown
  <2> QED BY <2>1, AnswerKnown DEF AdapterExact
<1> QED BY <1>1, DInvHolds, PTL

=============================================================================
