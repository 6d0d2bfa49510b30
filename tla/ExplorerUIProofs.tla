--------------------------- MODULE ExplorerUIProofs ---------------------------
(***************************************************************************)
(* What the page shows, for any texts, namespaces, nodes and replies and   *)
(* any number of actions.  Three facts are carried from step to step: the  *)
(* newest search is in flight, failed, or in the list (SearchKept); the    *)
(* newest view request is one for the current node, in flight or drawn     *)
(* (NewestView); and a user who waits has at most one of each under way    *)
(* (Patient).                                                              *)
(***************************************************************************)
EXTENDS ExplorerUI, SequenceTheorems, TLAPS

Scopes == Namespace \cup {AnyNs}

\* What the drawn graph says is what its reply says of the node in the box.
Drawn ==
  drawn # <<>> =>
    /\ drawn[1].id \in 1..sent /\ drawn[1].view \in View /\ drawn[1].selected \in Node
    /\ drawn[1].counts = Counts(drawn[1].view, drawn[1].selected)

Sent == sent \in Nat /\ latest.view \in 0..sent /\ latest \in [search : Nat, view : Nat]

NewestSearch == [id |-> latest.search, text |-> text, ns |-> ns]

Matches == Found[<<text, ns>>]

SearchKept ==
  ~timer /\ text # NoText =>
    \/ latest.search \in failed
    \/ NewestSearch \in searches
    \/ \E i \in DOMAIN list : list[i] = Matches

NewestView ==
  /\ \A v \in views : v.id = latest.view => v.view.node = current
  /\ drawn # <<>> /\ drawn[1].id = latest.view => drawn[1].view.node = drawn[1].selected

Patient ==
  ~hasty =>
    /\ timer => searches = {}
    /\ ~timer =>
         \/ searches = {} /\ list \in {<<>>, <<Matches>>}
         \/ list = <<>> /\ \E s \in searches : searches = {s} /\ s.text = text /\ s.ns = ns
    /\ \A v \in views : v.view.node = current
    /\ drawn # <<>> => drawn[1].view.node = drawn[1].selected

IInv == ExplorerTypeOK /\ Sent /\ Drawn /\ SearchKept /\ NewestView /\ Patient

-----------------------------------------------------------------------------

\* A reply counts its own node's neighbours as all replies together do.
LEMMA OwnNeighbours ==
  ASSUME NEW v \in View
  PROVE  /\ v.dir # "downstream" => Upstream(Lineage[v], v.node) = Upstream(AllEdges, v.node)
         /\ v.dir # "upstream" => Downstream(Lineage[v], v.node) = Downstream(AllEdges, v.node)
<1>1. Lineage[v] \subseteq AllEdges
  BY DEF AllEdges
<1>2. ASSUME v.dir # "downstream"
      PROVE  {e \in Lineage[v] : e[2] = v.node} = {e \in AllEdges : e[2] = v.node}
  BY <1>1, <1>2, RepliesComplete
<1>3. ASSUME v.dir # "upstream"
      PROVE  {e \in Lineage[v] : e[1] = v.node} = {e \in AllEdges : e[1] = v.node}
  BY <1>1, <1>3, RepliesComplete
<1> QED BY <1>2, <1>3 DEF Upstream, Downstream

\* A graph drawn around its own node is coherent.
LEMMA OwnGraphCoherent ==
  ASSUME Drawn, drawn # <<>>, drawn[1].view.node = drawn[1].selected
  PROVE  Coherent(drawn[1])
<1> DEFINE g == drawn[1]
<1>1. g.view \in View /\ g.counts = Counts(g.view, g.selected) /\ g.view.node = g.selected
  BY DEF Drawn
<1> HIDE DEF g
<1>2. g.counts = <<Upstream(Lineage[g.view], g.view.node), Downstream(Lineage[g.view], g.view.node)>>
  BY <1>1 DEF Counts
<1>3. Coherent(g)
  BY <1>1, <1>2, OwnNeighbours DEF Coherent, CountsCoherent
<1> QED BY <1>3 DEF g

LEMMA IInvInit == Init => IInv
<1> SUFFICES ASSUME Init PROVE IInv
  OBVIOUS
<1>1. ExplorerTypeOK
  <2>1. timer \in BOOLEAN /\ hasty \in BOOLEAN
    BY DEF Init
  <2>2. /\ text \in Text /\ ns \in Scopes /\ current \in Node \cup {NoNode}
        /\ depth \in Depth /\ dir \in Direction /\ acts \in 0..MaxActs
    BY ExplorerAssumption DEF Init, Direction, Scopes
  <2>3. list \in Seq(SUBSET Node)
    BY DEF Init
  <2> QED BY <2>1, <2>2, <2>3 DEF Init, ExplorerTypeOK, Scopes
<1>2. Sent /\ Drawn /\ SearchKept /\ NewestView /\ Patient
  BY DEF Init, Sent, Drawn, SearchKept, NewestView, Patient
<1> QED BY <1>1, <1>2 DEF IInv

-----------------------------------------------------------------------------
\* The steps.  First those that all share.

\* Requests that are sent are numbered on.
LEMMA Numbers ==
  ASSUME ExplorerTypeOK, Sent
  PROVE  /\ 1..sent \subseteq 1..(sent + 1) /\ sent + 1 \in 1..(sent + 1)
         /\ \A i \in 1..sent : i # sent + 1
BY DEF Sent

\* A user who was too quick once stays so.
LEMMA ActIsHasty ==
  ASSUME ExplorerTypeOK, Act
  PROVE  /\ acts' \in 0..MaxActs /\ hasty' \in BOOLEAN
         /\ ~ hasty' => ~ hasty /\ Idle
<1>1. acts' \in 0..MaxActs
  BY ExplorerAssumption DEF Act, ExplorerTypeOK
<1>2. hasty' \in BOOLEAN
  BY DEF Act
<1>3. ~ hasty' => ~ hasty /\ Idle
  BY DEF Act
<1> QED BY <1>1, <1>2, <1>3

\* Steps that leave the search alone.
SearchRests == UNCHANGED <<text, ns, timer, searches, list>> /\ latest'.search = latest.search

\* Steps that leave the graph alone.
GraphRests == UNCHANGED <<current, views, drawn>> /\ latest'.view = latest.view

LEMMA SearchKeptAtRest ==
  ASSUME SearchKept, SearchRests, failed \subseteq failed'
  PROVE  SearchKept'
BY DEF SearchKept, SearchRests, NewestSearch, Matches

LEMMA GraphKeptAtRest ==
  ASSUME Drawn, NewestView, GraphRests, sent \in Nat, sent' \in Nat, sent <= sent'
  PROVE  Drawn' /\ NewestView'
<1>1. 1..sent \subseteq 1..(sent')
  OBVIOUS
<1> QED BY <1>1 DEF Drawn, NewestView, GraphRests

\* runSearch up to its fetch.
LEMMA RunSearchStep ==
  ASSUME IInv, NEW scope \in Scopes, RunSearch(text, scope), ns' = scope, text' = text,
         UNCHANGED <<views, drawn, current>>, timer' = FALSE \/ timer' = timer
  PROVE  /\ searches' \subseteq [id : 1..sent', text : Text \ {NoText}, ns : Scopes]
         /\ list' = <<>> /\ sent' \in Nat /\ sent <= sent'
         /\ Sent' /\ SearchKept' /\ Drawn' /\ NewestView'
         /\ \/ text = NoText /\ searches' = searches
            \/ \E s : /\ searches' = searches \cup {s}
                      /\ s.text = text /\ s.ns = scope
<1>0. /\ ExplorerTypeOK /\ Sent /\ Drawn /\ NewestView
      /\ sent \in Nat /\ text \in Text
      /\ searches \subseteq [id : 1..sent, text : Text \ {NoText}, ns : Scopes]
  BY DEF IInv, Sent, ExplorerTypeOK, Scopes
<1>1. CASE text = NoText
  <2>1. UNCHANGED <<searches, sent, latest>> /\ list' = <<>>
    BY <1>1 DEF RunSearch
  <2>2. SearchKept'
    BY <1>1 DEF SearchKept
  <2>3. Sent' /\ Drawn' /\ NewestView'
    BY <1>0, <2>1 DEF Sent, Drawn, NewestView
  <2> QED BY <1>0, <1>1, <2>1, <2>2, <2>3
<1>2. CASE text # NoText
  <2> DEFINE new == [id |-> sent + 1, text |-> text, ns |-> scope]
  <2>1. /\ list' = <<>> /\ sent' = sent + 1
        /\ latest' = [latest EXCEPT !.search = sent + 1]
        /\ searches' = searches \cup {new}
    BY <1>2 DEF RunSearch
  <2>2. latest'.search = sent + 1 /\ latest'.view = latest.view
    BY <1>0, <2>1 DEF Sent
  <2>3. new \in [id : 1..(sent + 1), text : Text \ {NoText}, ns : Scopes]
    BY <1>0, <1>2
  <2>4. searches' \subseteq [id : 1..sent', text : Text \ {NoText}, ns : Scopes]
    BY <1>0, <2>1, <2>3, Numbers
  <2>5. SearchKept'
    <3>1. NewestSearch' = new
      BY <2>2 DEF NewestSearch
    <3> QED BY <2>1, <3>1 DEF SearchKept
  <2>6. Sent'
    BY <1>0, <2>1 DEF Sent
  <2>7. Drawn' /\ NewestView'
    BY <1>0, <2>1, <2>2, GraphKeptAtRest DEF GraphRests
  <2>8. new.text = text /\ new.ns = scope
    OBVIOUS
  <2> HIDE DEF new
  <2>9. \E s : searches' = searches \cup {s} /\ s.text = text /\ s.ns = scope
    BY <2>1, <2>8
  <2>10. sent' \in Nat /\ sent <= sent'
    BY <1>0, <2>1
  <2> QED BY <2>1, <2>4, <2>5, <2>6, <2>7, <2>9, <2>10
<1> QED BY <1>1, <1>2

\* renderGraph up to its fetch, of the node that is the current one.
LEMMA RenderStep ==
  ASSUME IInv, NEW d \in Depth, NEW direction \in Direction, current' \in Node,
         Render(current', d, direction), UNCHANGED drawn
  PROVE  /\ views' \subseteq [id : 1..sent', view : View]
         /\ sent' \in Nat /\ sent <= sent' /\ latest'.search = latest.search
         /\ Sent' /\ Drawn' /\ NewestView'
         /\ \E v : views' = views \cup {v} /\ v.view.node = current'
<1> DEFINE new == [id   |-> sent + 1,
                   view |-> [node |-> current', depth |-> d,
                             dir |-> IF d = 1 THEN "both" ELSE direction]]
<1>0. /\ ExplorerTypeOK /\ Sent /\ Drawn /\ NewestView /\ sent \in Nat
      /\ views \subseteq [id : 1..sent, view : View]
  BY DEF IInv, Sent, ExplorerTypeOK
<1>1. sent' = sent + 1 /\ latest' = [latest EXCEPT !.view = sent + 1] /\ views' = views \cup {new}
  BY DEF Render
<1>2. latest'.view = sent + 1 /\ latest'.search = latest.search
  BY <1>0, <1>1 DEF Sent
<1>3. new \in [id : 1..(sent + 1), view : View]
  BY <1>0 DEF View, Direction
<1>4. views' \subseteq [id : 1..sent', view : View]
  BY <1>0, <1>1, <1>3, Numbers
<1>5. Sent'
  BY <1>0, <1>1 DEF Sent
<1>6. Drawn'
  BY <1>0, <1>1, Numbers DEF Drawn
<1>7. NewestView'
  <2>1. \A v \in views : v.id # sent + 1
    BY <1>0, Numbers
  <2>2. drawn # <<>> => drawn[1].id # sent + 1
    BY <1>0, Numbers DEF Drawn
  <2>3. new.view.node = current'
    OBVIOUS
  <2> HIDE DEF new
  <2> QED BY <1>1, <1>2, <2>1, <2>2, <2>3 DEF NewestView
<1>8. new.view.node = current'
  OBVIOUS
<1> HIDE DEF new
<1> QED BY <1>0, <1>1, <1>2, <1>4, <1>5, <1>6, <1>7, <1>8

-----------------------------------------------------------------------------
\* Then each action.

\* What of the types an action that does not send leaves to show.
LEMMA TypesKept ==
  ASSUME ExplorerTypeOK, UNCHANGED sent,
         options' \in {{}, Namespace}, text' \in Text, ns' \in Scopes, timer' \in BOOLEAN,
         searches' \subseteq searches, list' \in Seq(SUBSET Node), views' \subseteq views,
         UNCHANGED <<current, depth, dir>>, drawn' = drawn \/ views # {},
         acts' \in 0..MaxActs, hasty' \in BOOLEAN
  PROVE  ExplorerTypeOK'
<1>1. current = NoNode => views' = {} /\ drawn' = <<>>
  BY DEF ExplorerTypeOK
<1>2. /\ current' \in Node \cup {NoNode} /\ depth' \in Depth /\ dir' \in Direction
      /\ searches' \subseteq [id : 1..sent', text : Text \ {NoText}, ns : Scopes]
      /\ views' \subseteq [id : 1..sent', view : View]
  BY DEF ExplorerTypeOK, Scopes
<1> QED BY <1>1, <1>2 DEF ExplorerTypeOK, Scopes

LEMMA NamespacesArriveStep == ASSUME IInv, NamespacesArrive PROVE IInv'
<1>0. /\ ExplorerTypeOK /\ Sent /\ options' = Namespace
      /\ UNCHANGED <<text, ns, depth, dir, timer, searches, list, current, views, drawn,
                     acts, hasty, sent, failed, latest>>
  BY DEF IInv, NamespacesArrive, search, graph
<1>1. ExplorerTypeOK'
  <2>1. timer' \in BOOLEAN /\ hasty' \in BOOLEAN
    BY <1>0 DEF ExplorerTypeOK
  <2> QED BY <1>0, <2>1, TypesKept DEF ExplorerTypeOK, Scopes
<1>2. Sent' /\ Drawn' /\ SearchKept' /\ NewestView' /\ Patient'
  BY <1>0 DEF IInv, Sent, Drawn, SearchKept, NewestSearch, NewestView, Patient, Matches
<1> QED BY <1>1, <1>2 DEF IInv

LEMMA TypeStep == ASSUME IInv, NEW t \in Text, Type(t) PROVE IInv'
<1>0. /\ ExplorerTypeOK /\ Act /\ text' = t /\ timer' = TRUE
      /\ UNCHANGED <<options, ns, depth, dir, searches, list, current, views, drawn,
                     sent, failed, latest>>
  BY DEF IInv, Type, graph
<1>1. ExplorerTypeOK'
  <2>1. timer' \in BOOLEAN
    BY <1>0
  <2> QED BY <1>0, <2>1, TypesKept, ActIsHasty DEF ExplorerTypeOK, Scopes
<1>2. Sent' /\ Drawn' /\ NewestView'
  BY <1>0 DEF IInv, Sent, Drawn, NewestView
<1>3. SearchKept'
  BY <1>0 DEF SearchKept
<1>4. Patient'
  <2>1. ~ hasty' => ~ hasty /\ searches = {}
    BY <1>0, ActIsHasty DEF Idle
  <2> QED BY <1>0, <2>1 DEF IInv, Patient
<1> QED BY <1>1, <1>2, <1>3, <1>4 DEF IInv

LEMMA TimerFiresStep == ASSUME IInv, TimerFires PROVE IInv'
<1>0. /\ ExplorerTypeOK /\ timer /\ timer' = FALSE /\ RunSearch(text, ns) /\ ns \in Scopes
      /\ UNCHANGED <<options, text, ns, depth, dir, current, views, drawn, acts, hasty, failed>>
  BY DEF IInv, TimerFires, fields, graph, ExplorerTypeOK, Scopes
<1>1. /\ searches' \subseteq [id : 1..sent', text : Text \ {NoText}, ns : Scopes]
      /\ list' = <<>> /\ sent' \in Nat /\ sent <= sent'
      /\ Sent' /\ SearchKept' /\ Drawn' /\ NewestView'
      /\ \/ text = NoText /\ searches' = searches
         \/ \E s : searches' = searches \cup {s} /\ s.text = text /\ s.ns = ns
  BY <1>0, RunSearchStep
<1>2. ExplorerTypeOK'
  <2>1. timer' \in BOOLEAN /\ hasty' \in BOOLEAN
    BY <1>0 DEF ExplorerTypeOK
  <2>2. list' \in Seq(SUBSET Node)
    BY <1>1
  <2>3. views' \subseteq [id : 1..sent', view : View]
    BY <1>0, <1>1 DEF ExplorerTypeOK, IInv, Sent
  <2> QED BY <1>0, <1>1, <2>1, <2>2, <2>3 DEF ExplorerTypeOK, Scopes
<1>3. Patient'
  <2> SUFFICES ASSUME ~ hasty' PROVE Patient'
    BY DEF Patient
  <2>1. ~ hasty /\ searches = {}
    BY <1>0 DEF IInv, Patient
  <2>2. \/ searches' = {}
        \/ \E s \in searches' : searches' = {s} /\ s.text = text' /\ s.ns = ns'
    BY <1>0, <1>1, <2>1
  <2>3. (\A v \in views : v.view.node = current) /\
        (drawn # <<>> => drawn[1].view.node = drawn[1].selected)
    BY <2>1 DEF IInv, Patient
  <2> QED BY <1>0, <1>1, <2>2, <2>3 DEF Patient
<1> QED BY <1>1, <1>2, <1>3 DEF IInv

LEMMA PickNamespaceStep == ASSUME IInv, NEW scope \in Scopes, PickNamespace(scope) PROVE IInv'
<1>0. /\ ExplorerTypeOK /\ Act /\ ns' = scope /\ RunSearch(text, scope)
      /\ UNCHANGED <<options, text, depth, dir, timer, current, views, drawn, failed>>
  BY DEF IInv, PickNamespace, graph
<1>1. /\ searches' \subseteq [id : 1..sent', text : Text \ {NoText}, ns : Scopes]
      /\ list' = <<>> /\ sent' \in Nat /\ sent <= sent'
      /\ Sent' /\ SearchKept' /\ Drawn' /\ NewestView'
      /\ \/ text = NoText /\ searches' = searches
         \/ \E s : searches' = searches \cup {s} /\ s.text = text /\ s.ns = scope
  BY <1>0, RunSearchStep
<1>2. ExplorerTypeOK'
  <2>1. timer' \in BOOLEAN
    BY <1>0 DEF ExplorerTypeOK
  <2>2. list' \in Seq(SUBSET Node)
    BY <1>1
  <2>3. views' \subseteq [id : 1..sent', view : View]
    BY <1>0, <1>1 DEF ExplorerTypeOK, IInv, Sent
  <2>4. acts' \in 0..MaxActs /\ hasty' \in BOOLEAN
    BY <1>0, ActIsHasty
  <2> QED BY <1>0, <1>1, <2>1, <2>2, <2>3, <2>4 DEF ExplorerTypeOK, Scopes
<1>3. Patient'
  <2> SUFFICES ASSUME ~ hasty' PROVE Patient'
    BY DEF Patient
  <2>1. ~ hasty /\ searches = {} /\ ~ timer
    BY <1>0, ActIsHasty DEF Idle
  <2>2. \/ searches' = {}
        \/ \E s \in searches' : searches' = {s} /\ s.text = text' /\ s.ns = ns'
    BY <1>0, <1>1, <2>1
  <2>3. (\A v \in views : v.view.node = current) /\
        (drawn # <<>> => drawn[1].view.node = drawn[1].selected)
    BY <2>1 DEF IInv, Patient
  <2>4. ~ timer'
    BY <1>0, <2>1
  <2> QED BY <1>0, <1>1, <2>2, <2>3, <2>4 DEF Patient
<1> QED BY <1>1, <1>2, <1>3 DEF IInv

LEMMA SearchArrivesStep == ASSUME IInv, NEW q \in searches, SearchArrives(q) PROVE IInv'
<1>0. /\ ExplorerTypeOK /\ searches' = searches \ {q}
      /\ list' = Append(list, Found[<<q.text, q.ns>>])
      /\ UNCHANGED <<options, text, ns, depth, dir, timer, current, views, drawn,
                     acts, hasty, sent, failed, latest>>
  BY DEF IInv, SearchArrives, fields, graph
<1>1. list \in Seq(SUBSET Node) /\ q.text \in Text /\ q.ns \in Scopes
  BY <1>0 DEF ExplorerTypeOK, Scopes
<1>2. Found[<<q.text, q.ns>>] \in SUBSET Node
  BY <1>1, ExplorerAssumption DEF Scopes
<1>3. /\ list' \in Seq(SUBSET Node) /\ Len(list') = Len(list) + 1
      /\ \A i \in 1..Len(list) : list'[i] = list[i]
      /\ list'[Len(list) + 1] = Found[<<q.text, q.ns>>]
      /\ DOMAIN list = 1..Len(list) /\ DOMAIN list' = 1..(Len(list) + 1)
      /\ Len(list) \in Nat
  BY <1>0, <1>1, <1>2, AppendProperties, LenProperties
<1>4. ExplorerTypeOK'
  <2>1. timer' \in BOOLEAN /\ hasty' \in BOOLEAN
    BY <1>0 DEF ExplorerTypeOK
  <2> QED BY <1>0, <1>3, <2>1, TypesKept DEF ExplorerTypeOK, Scopes
<1>5. Sent' /\ Drawn' /\ NewestView'
  BY <1>0 DEF IInv, Sent, Drawn, NewestView
<1>6. SearchKept'
  <2> SUFFICES ASSUME ~ timer, text # NoText, latest.search \notin failed,
                      NewestSearch \notin searches'
               PROVE  \E i \in DOMAIN list' : list'[i] = Matches
    BY <1>0 DEF SearchKept, NewestSearch, Matches
  <2>1. CASE NewestSearch \in searches
    <3>1. q = NewestSearch
      BY <1>0, <2>1
    <3>2. Found[<<q.text, q.ns>>] = Matches
      BY <3>1 DEF NewestSearch, Matches
    <3>3. Len(list) + 1 \in DOMAIN list'
      BY <1>3
    <3> QED BY <1>3, <3>2, <3>3
  <2>2. CASE NewestSearch \notin searches
    <3>1. PICK i \in DOMAIN list : list[i] = Matches
      BY <2>2 DEF IInv, SearchKept
    <3>2. i \in DOMAIN list' /\ list'[i] = list[i]
      BY <1>3
    <3> QED BY <3>1, <3>2
  <2> QED BY <2>1, <2>2
<1>7. Patient'
  <2> SUFFICES ASSUME ~ hasty' PROVE Patient'
    BY DEF Patient
  <2>1. ~ timer /\ list = <<>> /\ searches = {q} /\ q.text = text /\ q.ns = ns
    BY <1>0 DEF IInv, Patient
  <2>2. searches' = {} /\ list' = <<Matches>>
    BY <1>0, <2>1 DEF Matches
  <2> QED BY <1>0, <2>1, <2>2 DEF IInv, Patient, Matches
<1> QED BY <1>4, <1>5, <1>6, <1>7 DEF IInv

LEMMA SearchFailsStep == ASSUME IInv, NEW q \in searches, SearchFails(q) PROVE IInv'
<1>0. /\ ExplorerTypeOK /\ searches' = searches \ {q} /\ failed' = failed \cup {q.id}
      /\ UNCHANGED <<options, text, ns, depth, dir, timer, list, current, views, drawn,
                     acts, hasty, sent, latest>>
  BY DEF IInv, SearchFails, fields, graph
<1>1. ExplorerTypeOK'
  <2>1. timer' \in BOOLEAN /\ hasty' \in BOOLEAN
    BY <1>0 DEF ExplorerTypeOK
  <2> QED BY <1>0, <2>1, TypesKept DEF ExplorerTypeOK, Scopes
<1>2. Sent' /\ Drawn' /\ NewestView'
  BY <1>0 DEF IInv, Sent, Drawn, NewestView
<1>3. SearchKept'
  <2>1. NewestSearch.id = latest.search
    BY DEF NewestSearch
  <2> QED BY <1>0, <2>1 DEF IInv, SearchKept, NewestSearch, Matches
<1>4. Patient'
  <2> SUFFICES ASSUME ~ hasty' PROVE Patient'
    BY DEF Patient
  <2>1. ~ timer /\ list = <<>> /\ searches = {q}
    BY <1>0 DEF IInv, Patient
  <2>2. searches' = {} /\ list' = <<>>
    BY <1>0, <2>1
  <2> QED BY <1>0, <2>1, <2>2 DEF IInv, Patient, Matches
<1> QED BY <1>1, <1>2, <1>3, <1>4 DEF IInv

\* Every action that renders: it is the user's, and for the current node.
LEMMA RenderedStep ==
  ASSUME IInv, Act, NEW d \in Depth, NEW direction \in Direction, current' \in Node,
         Render(current', d, direction), depth' \in Depth, dir' \in Direction,
         UNCHANGED <<options, text, ns, timer, searches, list, drawn, failed>>
  PROVE  IInv'
<1>0. ExplorerTypeOK /\ Sent
  BY DEF IInv
<1>1. /\ views' \subseteq [id : 1..sent', view : View]
      /\ sent' \in Nat /\ sent <= sent' /\ latest'.search = latest.search
      /\ Sent' /\ Drawn' /\ NewestView'
      /\ \E v : views' = views \cup {v} /\ v.view.node = current'
  BY RenderStep
<1>2. ExplorerTypeOK'
  <2>1. acts' \in 0..MaxActs /\ hasty' \in BOOLEAN
    BY <1>0, ActIsHasty
  <2>2. timer' \in BOOLEAN
    BY <1>0 DEF ExplorerTypeOK
  <2>3. searches' \subseteq [id : 1..sent', text : Text \ {NoText}, ns : Scopes]
    <3>1. 1..sent \subseteq 1..sent'
      BY <1>0, <1>1 DEF Sent
    <3> QED BY <1>0, <3>1 DEF ExplorerTypeOK, Scopes
  <2>4. current' # NoNode
    BY ExplorerAssumption
  <2> QED BY <1>0, <1>1, <2>1, <2>2, <2>3, <2>4 DEF ExplorerTypeOK, Scopes
<1>3. SearchKept'
  BY <1>1, SearchKeptAtRest DEF IInv, SearchRests
<1>4. Patient'
  <2> SUFFICES ASSUME ~ hasty' PROVE Patient'
    BY DEF Patient
  <2>1. ~ hasty /\ views = {}
    BY <1>0, ActIsHasty DEF Idle
  <2>2. \A v \in views' : v.view.node = current'
    BY <1>1, <2>1
  <2>3. drawn' # <<>> => drawn'[1].view.node = drawn'[1].selected
    BY <2>1 DEF IInv, Patient
  <2>4. UNCHANGED <<text, ns, timer, searches, list>>
    OBVIOUS
  <2> QED BY <2>1, <2>2, <2>3, <2>4 DEF IInv, Patient, Matches
<1> QED BY <1>1, <1>2, <1>3, <1>4 DEF IInv

\* An action of the user that asks for nothing and changes only a setting.
LEMMA SettingStep ==
  ASSUME IInv, Act, depth' \in Depth, dir' \in Direction,
         UNCHANGED <<options, text, ns, timer, searches, list, current, views, drawn,
                     sent, failed, latest>>
  PROVE  IInv'
<1>0. ExplorerTypeOK /\ acts' \in 0..MaxActs /\ hasty' \in BOOLEAN /\ (~ hasty' => ~ hasty)
  BY ActIsHasty DEF IInv
<1>1. ExplorerTypeOK'
  <2>1. timer' \in BOOLEAN
    BY <1>0 DEF ExplorerTypeOK
  <2> QED BY <1>0, <2>1 DEF ExplorerTypeOK
<1>2. Sent' /\ Drawn' /\ NewestView'
  BY DEF IInv, Sent, Drawn, NewestView
<1>3. SearchKept'
  BY DEF IInv, SearchKept, NewestSearch, Matches
<1>4. Patient'
  BY <1>0 DEF IInv, Patient, Matches
<1> QED BY <1>1, <1>2, <1>3, <1>4 DEF IInv

LEMMA RecenterStep == ASSUME IInv, Act, NEW node \in Node, Recenter(node) PROVE IInv'
<1>1. depth \in Depth /\ dir \in Direction
  BY DEF IInv, ExplorerTypeOK
<1>2. /\ current' = node /\ Render(current', depth, dir) /\ depth' = depth /\ dir' = dir
      /\ UNCHANGED <<options, text, ns, timer, searches, list, drawn, failed>>
  BY DEF Recenter, fields, search
<1> QED BY <1>1, <1>2, RenderedStep

LEMMA TapStep == ASSUME IInv, NEW node \in Node, Tap(node) PROVE IInv'
<1>1. CASE node # current
  BY <1>1, RecenterStep DEF Tap
<1>2. CASE node = current
  <2>1. depth' \in Depth /\ dir' \in Direction
    BY <1>2 DEF Tap, fields, IInv, ExplorerTypeOK
  <2> QED BY <1>2, <2>1, SettingStep DEF Tap, fields, search, graph
<1> QED BY <1>1, <1>2

LEMMA AdjustStep ==
  ASSUME IInv, NEW d \in Depth, NEW direction \in Direction, Adjust(d, direction)
  PROVE  IInv'
<1>1. CASE current # NoNode
  <2>1. current' = current /\ current' \in Node
    BY <1>1 DEF Adjust, IInv, ExplorerTypeOK
  <2> QED BY <1>1, <2>1, RenderedStep DEF Adjust, search
<1>2. CASE current = NoNode
  BY <1>2, SettingStep DEF Adjust, search
<1> QED BY <1>1, <1>2

LEMMA ViewArrivesStep == ASSUME IInv, NEW v \in views, ViewArrives(v) PROVE IInv'
<1> DEFINE g == [id |-> v.id, view |-> v.view, selected |-> current,
                 counts |-> Counts(v.view, current)]
<1>0. /\ ExplorerTypeOK /\ views' = views \ {v} /\ drawn' = <<g>>
      /\ UNCHANGED <<options, text, ns, depth, dir, timer, searches, list, current,
                     acts, hasty, sent, failed, latest>>
  BY DEF IInv, ViewArrives, fields, search
<1>1. v.id \in 1..sent /\ v.view \in View /\ current \in Node
  BY <1>0 DEF ExplorerTypeOK
<1>2. /\ drawn'[1].id = v.id /\ drawn'[1].view = v.view /\ drawn'[1].selected = current
      /\ drawn'[1].counts = Counts(v.view, current)
  BY <1>0
<1> HIDE DEF g
<1>3. ExplorerTypeOK'
  <2>1. timer' \in BOOLEAN /\ hasty' \in BOOLEAN
    BY <1>0 DEF ExplorerTypeOK
  <2> QED BY <1>0, <2>1, TypesKept DEF ExplorerTypeOK, Scopes
<1>4. Sent' /\ SearchKept'
  BY <1>0 DEF IInv, Sent, SearchKept, NewestSearch, Matches
<1>5. Drawn'
  BY <1>0, <1>1, <1>2 DEF Drawn
<1>6. NewestView'
  BY <1>0, <1>2 DEF IInv, NewestView
<1>7. Patient'
  <2> SUFFICES ASSUME ~ hasty' PROVE Patient'
    BY DEF Patient
  <2>1. drawn'[1].view.node = drawn'[1].selected
    BY <1>0, <1>2 DEF IInv, Patient
  <2> QED BY <1>0, <2>1 DEF IInv, Patient, Matches
<1> QED BY <1>3, <1>4, <1>5, <1>6, <1>7 DEF IInv

LEMMA ViewFailsStep == ASSUME IInv, NEW v \in views, ViewFails(v) PROVE IInv'
<1>0. /\ ExplorerTypeOK /\ views' = views \ {v} /\ failed \subseteq failed'
      /\ UNCHANGED <<options, text, ns, depth, dir, timer, searches, list, current, drawn,
                     acts, hasty, sent, latest>>
  BY DEF IInv, ViewFails, fields, search
<1>1. ExplorerTypeOK'
  <2>1. timer' \in BOOLEAN /\ hasty' \in BOOLEAN
    BY <1>0 DEF ExplorerTypeOK
  <2> QED BY <1>0, <2>1, TypesKept DEF ExplorerTypeOK, Scopes
<1>2. Sent' /\ Drawn' /\ NewestView'
  BY <1>0 DEF IInv, Sent, Drawn, NewestView
<1>3. SearchKept'
  BY <1>0 DEF IInv, SearchKept, NewestSearch, Matches
<1>4. Patient'
  BY <1>0 DEF IInv, Patient, Matches
<1> QED BY <1>1, <1>2, <1>3, <1>4 DEF IInv

\* Every step keeps the invariant.
LEMMA IInvStep == IInv /\ [Next]_vars => IInv'
<1> SUFFICES ASSUME IInv, [Next]_vars PROVE IInv'
  OBVIOUS
<1>1. CASE User
  <2>1. ASSUME NEW scope \in Namespace \cup {AnyNs}, PickNamespace(scope) PROVE IInv'
    BY <2>1, PickNamespaceStep DEF Scopes
  <2>2. ASSUME NEW node \in Node, Click(node) \/ Tap(node) PROVE IInv'
    BY <2>2, RecenterStep, TapStep DEF Click
  <2> QED BY <1>1, <2>1, <2>2, TypeStep, AdjustStep DEF User
<1>2. CASE Page
  BY <1>2, NamespacesArriveStep, TimerFiresStep, SearchArrivesStep, SearchFailsStep,
     ViewArrivesStep, ViewFailsStep DEF Page
<1>3. CASE UNCHANGED vars
  <2>1. UNCHANGED <<options, text, ns, depth, dir, timer, searches, list, current, views, drawn,
                    acts, hasty, sent, failed, latest>>
    BY <1>3 DEF vars, fields, search, graph
  <2>2. ExplorerTypeOK'
    BY <2>1 DEF IInv, ExplorerTypeOK
  <2>3. Sent' /\ Drawn' /\ SearchKept' /\ NewestView' /\ Patient'
    BY <2>1 DEF IInv, Sent, Drawn, SearchKept, NewestSearch, NewestView, Patient, Matches
  <2> QED BY <2>2, <2>3 DEF IInv
<1> QED BY <1>1, <1>2, <1>3 DEF Next, Rest

-----------------------------------------------------------------------------
\* The theorems.

LEMMA Invariance == Spec => []IInv
BY IInvInit, IInvStep, PTL DEF Spec

\* What the page may hold: among the rest, no graph and no view request before
\* there is a current node (ExplorerUI.tla, ExplorerTypeOK; app.js:91-110, 186).
THEOREM TypeCorrect == Spec => []ExplorerTypeOK
<1>1. IInv => ExplorerTypeOK
  BY DEF IInv
<1> QED BY <1>1, Invariance, PTL

\* Whatever overtakes what, the matches of the fields end up in the list unless
\* their own search failed (app.js:49-75).
THEOREM NewestMatchesShown == Spec => []CurrentMatchesShown
<1>1. IInv => CurrentMatchesShown
  BY DEF IInv, SearchKept, NewestSearch, CurrentMatchesShown, Matches
<1> QED BY <1>1, Invariance, PTL

\* The reply to the newest request is drawn around its own node, with that
\* node's counts (app.js:63-66, 91-110, 184-190).
THEOREM NewestViewCoherent == Spec => []LatestViewCoherent
<1>1. IInv => LatestViewCoherent
  BY OwnGraphCoherent DEF IInv, NewestView, LatestViewCoherent
<1> QED BY <1>1, Invariance, PTL

\* Who lets the page finish sees the matches of the fields, and nothing else
\* (app.js:49-75).
THEOREM PatientListMatches == Spec => []ListMatchesQuery
<1>1. IInv => ListMatchesQuery
  BY DEF IInv, Patient, ListMatchesQuery, Matches
<1> QED BY <1>1, Invariance, PTL

\* And a graph whose counts are those of the node in the box (app.js:91-110).
THEOREM PatientViewIsCoherent == Spec => []PatientViewCoherent
<1>1. IInv => PatientViewCoherent
  BY OwnGraphCoherent DEF IInv, Patient, PatientViewCoherent
<1> QED BY <1>1, Invariance, PTL

-----------------------------------------------------------------------------
\* The box.  The newest graph request is in flight or failed, or the box names
\* the current node.

BoxKept ==
  current # NoNode =>
    \/ \E v \in views : v.id = latest.view
    \/ latest.view \in failed
    \/ drawn # <<>> /\ drawn[1].selected = current

\* Steps that leave the graph alone.
LEMMA BoxKeptAtRest ==
  ASSUME BoxKept, GraphRests, failed \subseteq failed'
  PROVE  BoxKept'
BY DEF BoxKept, GraphRests

\* A new request is the newest.
LEMMA BoxKeptByRender ==
  ASSUME Sent, NEW node, NEW d, NEW direction, Render(node, d, direction)
  PROVE  BoxKept'
<1> DEFINE new == [id |-> sent + 1,
                   view |-> [node |-> node, depth |-> d,
                             dir |-> IF d = 1 THEN "both" ELSE direction]]
<1>1. new \in views' /\ new.id = sent + 1
  BY DEF Render
<1>2. latest'.view = sent + 1
  BY DEF Render, Sent
<1> HIDE DEF new
<1> QED BY <1>1, <1>2 DEF BoxKept

LEMMA BoxKeptByUser == ASSUME IInv, BoxKept, User PROVE BoxKept'
<1>0. Sent
  BY DEF IInv
<1>1. ASSUME NEW t \in Text, Type(t) PROVE BoxKept'
  BY <1>1, BoxKeptAtRest DEF Type, graph, GraphRests
<1>2. ASSUME NEW scope \in Namespace \cup {AnyNs}, PickNamespace(scope) PROVE BoxKept'
  <2>1. latest'.view = latest.view
    BY <1>0, <1>2 DEF PickNamespace, RunSearch, Sent
  <2> QED BY <1>2, <2>1, BoxKeptAtRest DEF PickNamespace, graph, GraphRests
<1>3. ASSUME NEW node \in Node, Click(node) \/ Tap(node) PROVE BoxKept'
  <2>1. CASE Recenter(node)
    BY <1>0, <2>1, BoxKeptByRender DEF Recenter
  <2>2. CASE ~ Recenter(node)
    BY <1>3, <2>2, BoxKeptAtRest DEF Click, Tap, graph, GraphRests
  <2> QED BY <2>1, <2>2
<1>4. ASSUME NEW d \in Depth, NEW direction \in Direction, Adjust(d, direction) PROVE BoxKept'
  <2>1. CASE current # NoNode
    BY <1>0, <1>4, <2>1, BoxKeptByRender DEF Adjust
  <2>2. CASE current = NoNode
    BY <1>4, <2>2 DEF Adjust, BoxKept
  <2> QED BY <2>1, <2>2
<1> QED BY <1>1, <1>2, <1>3, <1>4 DEF User

LEMMA BoxKeptByPage == ASSUME IInv, BoxKept, Page PROVE BoxKept'
<1>0. Sent
  BY DEF IInv
<1>1. CASE NamespacesArrive
  BY <1>1, BoxKeptAtRest DEF NamespacesArrive, graph, GraphRests
<1>2. CASE TimerFires
  <2>1. latest'.view = latest.view
    BY <1>0, <1>2 DEF TimerFires, RunSearch, Sent
  <2> QED BY <1>2, <2>1, BoxKeptAtRest DEF TimerFires, graph, GraphRests
<1>3. ASSUME NEW s \in searches, SearchArrives(s) \/ SearchFails(s) PROVE BoxKept'
  BY <1>3, BoxKeptAtRest DEF SearchArrives, SearchFails, graph, GraphRests
<1>4. ASSUME NEW v \in views, ViewArrives(v) PROVE BoxKept'
  <2>1. drawn' # <<>> /\ drawn'[1].selected = current /\ current' = current
    BY <1>4 DEF ViewArrives
  <2> QED BY <2>1 DEF BoxKept
<1>5. ASSUME NEW v \in views, ViewFails(v) PROVE BoxKept'
  <2>1. /\ views' = views \ {v} /\ failed' = failed \cup {v.id}
        /\ UNCHANGED <<current, drawn, latest>>
    BY <1>5 DEF ViewFails
  <2> QED BY <2>1 DEF BoxKept
<1> QED BY <1>1, <1>2, <1>3, <1>4, <1>5 DEF Page

\* Once all replies are there the box names the current node, in whatever order
\* they came, unless the newest request failed (app.js:91-110, 184-190).
THEOREM BoxFollowsUser == Spec => []BoxNamesCurrent
<1>1. Init => BoxKept
  BY DEF Init, BoxKept
<1>2. IInv /\ BoxKept /\ [Next]_vars => BoxKept'
  <2>1. ASSUME BoxKept, UNCHANGED vars PROVE BoxKept'
    BY <2>1 DEF BoxKept, vars, graph
  <2> QED BY <2>1, BoxKeptByUser, BoxKeptByPage DEF Next, Rest
<1>3. BoxKept => BoxNamesCurrent
  BY DEF BoxKept, BoxNamesCurrent
<1> QED BY <1>1, <1>2, <1>3, Invariance, PTL DEF Spec

=============================================================================
