-------------------------------- MODULE Calls --------------------------------
(***************************************************************************)
(* The ingest calls of one run of the system, and the rows they are about: *)
(* the vocabulary that the abstract store (EdgeStore) and the service      *)
(* (Ingest) share.  A producer sends the same call again until one attempt *)
(* is acknowledged, so the unit of work is an attempt <<request, number>>. *)
(***************************************************************************)
EXTENDS Translator, FiniteSets

CONSTANTS
  Request,      \* the distinct calls producers want to land
  MaxAttempts,  \* bound: how often one of them is sent
  MaxBatch,     \* BatchIngestRequest.events max_length (1000 in the code)
  Call,         \* Call[r] = [kind |-> "single" or "batch", events |-> a sequence]
  NoRow         \* no row under this key

Attempt == Request \X (1..MaxAttempts)

Events(a) == Call[a[1]].events

\* FastAPI's 422: a field of the wrong shape, or a batch of the wrong size.
WellFormed(a) ==
  /\ \A i \in DOMAIN Events(a) : Events(a)[i].valid
  /\ Call[a[1]].kind = "batch" => Len(Events(a)) \in 1..MaxBatch

\* The edges that translate() builds for each call, with their places in its
\* list, and among them the ones that reach upsert_edges.
Built ==
  UNION {{[req |-> r, at |-> p, edge |-> EdgeAt(Call[r].events, p)] :
            p \in Positions(Call[r].events)} : r \in Request}

Kept ==
  UNION {{l \in Built : l.req = r /\ l.at \in IF Call[r].kind = "batch"
                                                THEN FirstInBatch(Call[r].events)
                                                ELSE FirstInEvent(Call[r].events)}
         : r \in Request}

BuiltBy(a)  == {l \in Built : l.req = a[1]}
Outgoing(a) == {l \in Kept : l.req = a[1]}

-----------------------------------------------------------------------------
\* lineage_edge: at most one row per primary key (src, dst, type).  created
\* and updated stand for the transaction whose NOW() the column holds.  The
\* metadata column is left out: translate() never sets it.

Edges == {l.edge : l \in Built}

Keys == {KeyOf(e) : e \in Edges}

Row == [job     : {e.job : e \in Edges},
        run     : {e.run : e \in Edges},
        ns      : {e.ns : e \in Edges},
        created : Attempt,
        updated : Attempt]

Table == [Keys -> Row \cup {NoRow}]

-----------------------------------------------------------------------------
\* What a call promises, read off its events directly: the edges an event
\* mentions (each input with the job, the job with each output, each input
\* with each output), with the attributes of the first event to mention them.
KeysOfEvent(e) ==
  LET ins  == {InUrns(e)[x] : x \in DOMAIN InUrns(e)}
      outs == {OutUrns(e)[y] : y \in DOMAIN OutUrns(e)}
  IN       {<<s, JobUrn(e), "consumes">> : s \in ins}
      \cup {<<JobUrn(e), d, "produces">> : d \in outs}
      \cup {<<s, d, "derives_from">> : s \in ins, d \in outs}

Mentioning(r, k) == {i \in DOMAIN Call[r].events : k \in KeysOfEvent(Call[r].events[i])}

AttrsOf(e) == [job |-> JobUrn(e), run |-> e.run, ns |-> JobNs(e)]

PromiseTo(r, k) ==
  [req |-> r, key |-> k,
   attrs |-> AttrsOf(Call[r].events[CHOOSE i \in Mentioning(r, k) :
                                      \A j \in Mentioning(r, k) : i <= j])]

Promises ==
  {PromiseTo(rk[1], rk[2]) : rk \in {rk \in Request \X Keys : Mentioning(rk[1], rk[2]) # {}}}

-----------------------------------------------------------------------------

ASSUME CallsAssumption ==
  /\ MaxAttempts \in Nat \ {0}
  /\ MaxBatch \in Nat
  /\ NoRow \notin Row
  /\ \A r \in Request :
       /\ Call[r].kind \in {"single", "batch"}
       /\ Call[r].kind = "single" => DOMAIN Call[r].events = {1}
       /\ Positions(Call[r].events) \subseteq Place
       /\ IsFiniteSet(Positions(Call[r].events))

=============================================================================
