------------------------------ MODULE ExplorerUI ------------------------------
(***************************************************************************)
(* The graph explorer (app/static/app.js): a debounced search, a list of   *)
(* matches, and a graph around the current node.  Each handler runs to its *)
(* first await, a fetch; what follows runs when the reply comes, in        *)
(* whatever order replies come, over the page as it is by then.  No        *)
(* request is ever cancelled.  What the server knows does not change here. *)
(***************************************************************************)
EXTENDS Integers, Sequences, FiniteSets

CONSTANTS
  Text,       \* what can be typed; NoText is the empty field
  NoText,
  Namespace,  \* the namespaces of the drop-down; AnyNs is its first entry
  AnyNs,
  Node,
  NoNode,
  Depth,      \* values of the depth field
  Found,      \* Found[<<t, ns>>] is the set of nodes a search returns
  Lineage,    \* Lineage[v] is the set of edges <<src, dst>> a view request returns
  MaxActs     \* bound: actions of the user

Direction == {"both", "upstream", "downstream"}

\* What renderGraph asks for: depth 1 goes to /direct and has no direction.
View == [node : Node, depth : Depth, dir : Direction]

ASSUME ExplorerAssumption ==
  /\ NoText \in Text
  /\ AnyNs \notin Namespace
  /\ NoNode \notin Node
  /\ 2 \in Depth
  /\ MaxActs \in Nat
  /\ \A t \in Text, s \in Namespace \cup {AnyNs} : Found[<<t, s>>] \subseteq Node
  /\ \A v \in View : Lineage[v] \subseteq Node \X Node

AllEdges == UNION {Lineage[v] : v \in View}

\* A reply has every edge at its own node, in the directions that were asked
\* for: what Reads shows of an answer.
ASSUME RepliesComplete ==
  \A v \in View : \A e \in AllEdges :
    /\ v.dir # "downstream" /\ e[2] = v.node => e \in Lineage[v]
    /\ v.dir # "upstream" /\ e[1] = v.node => e \in Lineage[v]

VARIABLES
  options,   \* namespaces the drop-down offers so far
  text, ns,  \* the search fields
  timer,     \* is a debounced search due
  searches,  \* searches in flight: [id, text, ns]
  list,      \* the batches of matches the list has
  current,   \* currentNode
  depth, dir,
  views,     \* view requests in flight: [id, view]
  drawn,     \* the graph and the box of the selected node; <<>> before the first
  acts,      \* actions of the user so far
  hasty,     \* history: has the user acted before the page was done
  sent,      \* requests sent so far: their ids
  failed,    \* history: ids of the requests that failed
  latest     \* history: the id of the newest search, and of the newest view request

fields == <<options, text, ns, depth, dir>>
search == <<timer, searches, list>>
graph  == <<current, views, drawn>>
vars   == <<fields, search, graph, acts, hasty, sent, failed, latest>>

Init ==
  /\ options = {}
  /\ text = NoText /\ ns = AnyNs
  /\ timer = FALSE
  /\ searches = {}
  /\ list = <<>>
  /\ current = NoNode
  /\ depth = 2 /\ dir = "both"
  /\ views = {}
  /\ drawn = <<>>
  /\ acts = 0 /\ hasty = FALSE /\ sent = 0
  /\ failed = {} /\ latest = [search |-> 0, view |-> 0]

Idle == searches = {} /\ views = {} /\ ~timer

\* The user does something.
Act ==
  /\ acts < MaxActs
  /\ acts' = acts + 1
  /\ hasty' = (hasty \/ ~Idle)

-----------------------------------------------------------------------------
\* loadNamespaces; should it fail, the drop-down stays as it is.

NamespacesArrive ==
  /\ options = {}
  /\ options' = Namespace
  /\ UNCHANGED <<text, ns, depth, dir, search, graph, acts, hasty, sent, failed, latest>>

-----------------------------------------------------------------------------
\* The search.

\* Mutant of RunSearch: the old matches stay.
RunSearchKeeping(q, scope) ==
  /\ UNCHANGED list
  /\ IF q = NoText
       THEN UNCHANGED <<searches, sent, latest>>
       ELSE /\ sent' = sent + 1
            /\ latest' = [latest EXCEPT !.search = sent + 1]
            /\ searches' = searches \cup {[id |-> sent + 1, text |-> q, ns |-> scope]}

\* runSearch up to its fetch.
RunSearch(q, scope) ==
  /\ list' = <<>>
  /\ IF q = NoText
       THEN UNCHANGED <<searches, sent, latest>>
       ELSE /\ sent' = sent + 1
            /\ latest' = [latest EXCEPT !.search = sent + 1]
            /\ searches' = searches \cup {[id |-> sent + 1, text |-> q, ns |-> scope]}

Type(t) ==
  /\ Act
  /\ t # text
  /\ text' = t
  /\ timer' = TRUE
  /\ UNCHANGED <<options, ns, depth, dir, searches, list, graph, sent, failed, latest>>

TimerFires ==
  /\ timer
  /\ timer' = FALSE
  /\ RunSearch(text, ns)
  /\ UNCHANGED <<fields, graph, acts, hasty, failed>>

\* The search runs at once; a debounced one that is due stays due.
PickNamespace(scope) ==
  /\ Act
  /\ scope \in options \cup {AnyNs}
  /\ scope # ns
  /\ ns' = scope
  /\ RunSearch(text, scope)
  /\ UNCHANGED <<options, text, depth, dir, timer, graph, failed>>

\* Mutant of SearchArrives: the matches replace what is in the list.
SearchReplaces(s) ==
  /\ s \in searches
  /\ searches' = searches \ {s}
  /\ list' = <<Found[<<s.text, s.ns>>]>>
  /\ UNCHANGED <<fields, timer, graph, acts, hasty, sent, failed, latest>>

\* runSearch after its fetch: the matches are appended.
SearchArrives(s) ==
  /\ s \in searches
  /\ searches' = searches \ {s}
  /\ list' = Append(list, Found[<<s.text, s.ns>>])
  /\ UNCHANGED <<fields, timer, graph, acts, hasty, sent, failed, latest>>

SearchFails(s) ==
  /\ s \in searches
  /\ searches' = searches \ {s}
  /\ failed' = failed \cup {s.id}
  /\ UNCHANGED <<fields, timer, list, graph, acts, hasty, sent, latest>>

-----------------------------------------------------------------------------
\* The graph.

\* renderGraph up to its fetch.
Render(node, d, direction) ==
  /\ sent' = sent + 1
  /\ latest' = [latest EXCEPT !.view = sent + 1]
  /\ views' = views \cup
       {[id   |-> sent + 1,
         view |-> [node |-> node, depth |-> d, dir |-> IF d = 1 THEN "both" ELSE direction]]}

Recenter(node) ==
  /\ current' = node
  /\ Render(node, depth, dir)
  /\ UNCHANGED <<fields, search, drawn, failed>>

Click(node) ==
  /\ Act
  /\ \E i \in DOMAIN list : node \in list[i]
  /\ Recenter(node)

InGraph(node) == drawn # <<>> /\ \E e \in Lineage[drawn[1].view] : node \in {e[1], e[2]}

\* Mutant of Tap: the new node is not rendered.
TapOnly(node) ==
  /\ Act
  /\ InGraph(node)
  /\ current' = node
  /\ UNCHANGED <<fields, search, views, drawn, sent, failed, latest>>

Tap(node) ==
  /\ Act
  /\ InGraph(node)
  /\ IF node # current
       THEN Recenter(node)
       ELSE UNCHANGED <<fields, search, graph, sent, failed, latest>>

\* A new depth or direction, or the reload button: rendered if there is a
\* current node.
Adjust(d, direction) ==
  /\ Act
  /\ d = depth \/ direction = dir
  /\ depth' = d
  /\ dir' = direction
  /\ IF current # NoNode THEN Render(current, d, direction) ELSE UNCHANGED <<views, sent, latest>>
  /\ UNCHANGED <<options, text, ns, search, current, drawn, failed>>

Upstream(edges, node)   == Cardinality({e \in edges : e[2] = node})
Downstream(edges, node) == Cardinality({e \in edges : e[1] = node})

\* Mutant of Counts: the two filters are swapped.
CountsSwapped(v, node) == <<Downstream(Lineage[v], node), Upstream(Lineage[v], node)>>

\* The two counts: of /direct the length of its lists, else the edges of the
\* reply that end, and that start, at the current node.
Counts(v, node) ==
  LET of == IF v.depth = 1 THEN v.node ELSE node
  IN  <<Upstream(Lineage[v], of), Downstream(Lineage[v], of)>>

\* Mutant of ViewArrives: the reply is labelled with the node it was asked for.
ViewArrivesAsAsked(v) ==
  /\ v \in views
  /\ views' = views \ {v}
  /\ drawn' = <<[id |-> v.id, view |-> v.view, selected |-> v.view.node,
                 counts |-> Counts(v.view, v.view.node)]>>
  /\ UNCHANGED <<fields, search, current, acts, hasty, sent, failed, latest>>

\* renderGraph after its fetch: it labels the reply with the node that is the
\* current one by now.
ViewArrives(v) ==
  /\ v \in views
  /\ views' = views \ {v}
  /\ drawn' = <<[id |-> v.id, view |-> v.view, selected |-> current,
                 counts |-> Counts(v.view, current)]>>
  /\ UNCHANGED <<fields, search, current, acts, hasty, sent, failed, latest>>

\* The graph that was there stays.
ViewFails(v) ==
  /\ v \in views
  /\ views' = views \ {v}
  /\ failed' = failed \cup {v.id}
  /\ UNCHANGED <<fields, search, current, drawn, acts, hasty, sent, latest>>

-----------------------------------------------------------------------------

User ==
  \/ \E t \in Text : Type(t)
  \/ \E scope \in Namespace \cup {AnyNs} : PickNamespace(scope)
  \/ \E node \in Node : Click(node) \/ Tap(node)
  \/ \E d \in Depth, direction \in Direction : Adjust(d, direction)

Page ==
  \/ NamespacesArrive
  \/ TimerFires
  \/ \E s \in searches : SearchArrives(s) \/ SearchFails(s)
  \/ \E v \in views : ViewArrives(v) \/ ViewFails(v)

\* Nothing is under way: the page waits for its user.
Rest == Idle /\ UNCHANGED vars

Next == User \/ Page \/ Rest

Spec == Init /\ [][Next]_vars

-----------------------------------------------------------------------------
\* Properties.

ExplorerTypeOK ==
  /\ options \in {{}, Namespace}
  /\ text \in Text /\ ns \in Namespace \cup {AnyNs}
  /\ timer \in BOOLEAN
  /\ searches \subseteq [id : 1..sent, text : Text \ {NoText}, ns : Namespace \cup {AnyNs}]
  /\ list \in Seq(SUBSET Node)
  /\ current \in Node \cup {NoNode}
  /\ depth \in Depth /\ dir \in Direction
  /\ views \subseteq [id : 1..sent, view : View]
  /\ current = NoNode => views = {} /\ drawn = <<>>
  /\ acts \in 0..MaxActs /\ hasty \in BOOLEAN

\* For a user who lets the page finish before the next action, the list has the
\* matches of what the fields say, once, also after requests that failed; an
\* empty list is one whose search failed, or was not asked for
\* (docs/ui.md:20-21; app.js:49-75).
ListMatchesQuery ==
  ~hasty /\ ~timer /\ searches = {} /\ list # <<>> => list = <<Found[<<text, ns>>]>>

\* However replies overtake one another, the matches of the fields are in the
\* list in the end, unless their own search failed: only stale ones may have
\* joined them (app.js:49-75).
CurrentMatchesShown ==
  ~timer /\ searches = {} /\ text # NoText /\ latest.search \notin failed =>
    \E i \in DOMAIN list : list[i] = Found[<<text, ns>>]

\* Each count in the box is the number of neighbours of the node named there, in
\* the directions that were asked for.
CountsCoherent(g) ==
  /\ g.view.dir # "downstream" => g.counts[1] = Upstream(AllEdges, g.selected)
  /\ g.view.dir # "upstream" => g.counts[2] = Downstream(AllEdges, g.selected)

\* And the graph is the one around that node.
Coherent(g) == g.view.node = g.selected /\ CountsCoherent(g)

\* docs/ui.md:26: the counts in the box are those of the current node, which the
\* box names (app.js:91-110).
ViewCoherent == drawn # <<>> => CountsCoherent(drawn[1])

\* So they are, after failed requests too, for a user who lets the page finish
\* before the next action, and the graph is that of the node (app.js:91-110).
PatientViewCoherent == ~hasty /\ drawn # <<>> => Coherent(drawn[1])

\* In whatever order replies come, once all are there the box names the current
\* node, the one that a tap does not ask for, unless the newest request failed
\* (app.js:91-110, 184-190).
BoxNamesCurrent ==
  views = {} /\ current # NoNode /\ latest.view \notin failed =>
    drawn # <<>> /\ drawn[1].selected = current

\* However replies overtake one another, the reply to the newest request is
\* drawn around its own node: nothing changes the current node without asking
\* for its graph in the same breath (app.js:63-66, 184-190).
LatestViewCoherent ==
  drawn # <<>> /\ drawn[1].id = latest.view => Coherent(drawn[1])

=============================================================================
