-------------------------------- MODULE Ingest --------------------------------
(***************************************************************************)
(* The write path: POST /api/v1/lineage and POST /api/v1/lineage:batch     *)
(* (app/main.py), upsert_edges (app/repository.py) and, as far as the code *)
(* relies on it, PostgreSQL at READ COMMITTED: an INSERT .. ON CONFLICT DO *)
(* UPDATE takes its rows one after another, waits for the transaction that *)
(* holds the row's key, then works on the latest committed version; locks  *)
(* last until the transaction ends; a cycle of waiting transactions is     *)
(* broken by aborting one of them.                                         *)
(***************************************************************************)
EXTENDS Calls

CONSTANTS
  Chunk,      \* _UPSERT_CHUNK (5000 in the code)
  Scenario,   \* bound: the sets of calls that may meet in one behaviour
  MaxFaults   \* bound: lost connections and worker deaths in one behaviour

ASSUME IngestAssumption ==
  Chunk \in Nat \ {0} /\ MaxFaults \in Nat /\ Scenario \subseteq SUBSET Request

VARIABLES
  table,    \* lineage_edge, committed
  pc,       \* where the handler of each attempt is
  todo,     \* edges of the attempt no statement has been sent for
  stmt,     \* edges of the running statement not yet inserted
  pend,     \* rows the open transaction has written, and so holds locked
  written,  \* the handler's count of rows
  answer,   \* what the producer has got back
  faults,   \* how many faults have happened
  landed    \* history: the attempts whose COMMIT took effect

vars == <<table, pc, todo, stmt, pend, written, answer, faults, landed>>

Stages  == {"idle", "posted", "executing", "committed", "done"}
Answers == {"none", "201", "422", "500", "lost"}

Unwritten == [k \in Keys |-> NoRow]

TypeOK ==
  /\ table \in Table
  /\ pc \in [Attempt -> Stages]
  /\ todo \in [Attempt -> SUBSET Kept]
  /\ stmt \in [Attempt -> SUBSET Kept]
  /\ pend \in [Attempt -> Table]
  /\ written \in [Attempt -> Nat]
  /\ answer \in [Attempt -> Answers]
  /\ faults \in 0..MaxFaults
  /\ landed \subseteq Attempt

Init ==
  /\ table = Unwritten
  /\ pc = [a \in Attempt |-> "idle"]
  /\ todo = [a \in Attempt |-> {}]
  /\ stmt = [a \in Attempt |-> {}]
  /\ pend = [a \in Attempt |-> Unwritten]
  /\ written = [a \in Attempt |-> 0]
  /\ answer = [a \in Attempt |-> "none"]
  /\ faults = 0
  /\ landed = {}

-----------------------------------------------------------------------------
\* Ends of an attempt.

Answer(a, code) ==
  /\ pc' = [pc EXCEPT ![a] = "done"]
  /\ answer' = [answer EXCEPT ![a] = code]

\* Closing the session rolls back whatever its transaction had written.
Rollback(a) ==
  /\ todo' = [todo EXCEPT ![a] = {}]
  /\ stmt' = [stmt EXCEPT ![a] = {}]
  /\ pend' = [pend EXCEPT ![a] = Unwritten]

-----------------------------------------------------------------------------
\* The producer: the next attempt may be sent while earlier ones are still
\* running (it timed out), until it has seen one succeed.

Sent == {a \in Attempt : pc[a] # "idle"}

Post(a) ==
  /\ pc[a] = "idle"
  /\ \E s \in Scenario : {b[1] : b \in Sent \cup {a}} \subseteq s
  /\ \A n \in 1..(a[2] - 1) : pc[<<a[1], n>>] # "idle"
  /\ \A n \in 1..MaxAttempts : answer[<<a[1], n>>] # "201"
  /\ pc' = [pc EXCEPT ![a] = "posted"]
  /\ UNCHANGED <<table, todo, stmt, pend, written, answer, faults, landed>>

-----------------------------------------------------------------------------
\* The handler, up to its first await: validation, translation, deduplication.

Reject(a) ==
  /\ pc[a] = "posted"
  /\ ~WellFormed(a)
  /\ Answer(a, "422")
  /\ UNCHANGED <<table, todo, stmt, pend, written, faults, landed>>

FailToTranslate(a) ==
  /\ pc[a] = "posted"
  /\ WellFormed(a)
  /\ \E l \in BuiltBy(a) : CannotBuild(l.edge)
  /\ Answer(a, "500")
  /\ UNCHANGED <<table, todo, stmt, pend, written, faults, landed>>

NothingToWrite(a) ==
  /\ pc[a] = "posted"
  /\ WellFormed(a)
  /\ Outgoing(a) = {}
  /\ Answer(a, "201")
  /\ UNCHANGED <<table, todo, stmt, pend, written, faults, landed>>

Translate(a) ==
  /\ pc[a] = "posted"
  /\ WellFormed(a)
  /\ \A l \in BuiltBy(a) : ~CannotBuild(l.edge)
  /\ Outgoing(a) # {}
  /\ pc' = [pc EXCEPT ![a] = "executing"]
  /\ todo' = [todo EXCEPT ![a] = Outgoing(a)]
  /\ UNCHANGED <<table, stmt, pend, written, answer, faults, landed>>

-----------------------------------------------------------------------------
\* upsert_edges.

\* edges[start : start + _UPSERT_CHUNK], the first ones not yet sent.
NextChunk(ls) == {l \in ls : Cardinality({m \in ls : Before(m.at, l.at)}) < Chunk}

\* One statement may not write the same row twice: PostgreSQL refuses it.
Ambiguous(ls) == \E l, m \in ls : l # m /\ KeyOf(l.edge) = KeyOf(m.edge)

Send(a) ==
  /\ pc[a] = "executing"
  /\ stmt[a] = {}
  /\ todo[a] # {}
  /\ LET chunk == NextChunk(todo[a])
     IN  IF Ambiguous(chunk)
           THEN Answer(a, "500") /\ Rollback(a) /\ UNCHANGED written
           ELSE /\ stmt' = [stmt EXCEPT ![a] = chunk]
                /\ todo' = [todo EXCEPT ![a] = @ \ chunk]
                /\ written' = [written EXCEPT ![a] = @ + Cardinality(chunk)]
                /\ UNCHANGED <<pc, answer, pend>>
  /\ UNCHANGED <<table, faults, landed>>

Holds(a, k) == pend[a][k] # NoRow

\* Mutant of Upserted: run_id is missing from the DO UPDATE.
KeepsRun(edge, old, a) ==
  [job     |-> edge.job,
   run     |-> IF old = NoRow THEN edge.run ELSE old.run,
   ns      |-> edge.ns,
   created |-> IF old = NoRow THEN a ELSE old.created,
   updated |-> IF old = NoRow THEN a ELSE old.updated]

\* The row an insert leaves: a new one, or the old one with the four columns
\* of the DO UPDATE replaced.
Upserted(edge, old, a) ==
  [job     |-> edge.job,
   run     |-> edge.run,
   ns      |-> edge.ns,
   created |-> IF old = NoRow THEN a ELSE old.created,
   updated |-> IF old = NoRow THEN a ELSE old.updated]

\* Mutant of IsTurn: the rows of a statement go in any order, as they would
\* had the edges been collected in a set.
AnyOrder(a, l) == l \in stmt[a]

\* The row of the running statement whose turn it is.
IsTurn(a, l) == l \in stmt[a] /\ \A m \in stmt[a] : ~Before(m.at, l.at)

\* Mutant of InsertRow: select, then insert or update, with no lock on the key.
InsertUnlocked(a) ==
  /\ pc[a] = "executing"
  /\ \E l \in stmt[a] :
       /\ IsTurn(a, l)
       /\ pend' = [pend EXCEPT ![a][KeyOf(l.edge)] =
                     Upserted(l.edge, IF @ # NoRow THEN @ ELSE table[KeyOf(l.edge)], a)]
       /\ stmt' = [stmt EXCEPT ![a] = @ \ {l}]
  /\ UNCHANGED <<table, pc, todo, written, answer, faults, landed>>

InsertRow(a) ==
  /\ pc[a] = "executing"
  /\ \E l \in stmt[a] :
       LET k == KeyOf(l.edge) IN
       /\ IsTurn(a, l)
       /\ \A b \in Attempt \ {a} : ~Holds(b, k)
       /\ pend' = [pend EXCEPT ![a][k] =
                     Upserted(l.edge, IF Holds(a, k) THEN @ ELSE table[k], a)]
       /\ stmt' = [stmt EXCEPT ![a] = @ \ {l}]
  /\ UNCHANGED <<table, pc, todo, written, answer, faults, landed>>

\* Mutant of Commit: the commit is inside the loop over the chunks.
CommitFirstChunk(a) ==
  /\ pc[a] = "executing"
  /\ stmt[a] = {}
  /\ table' = [k \in Keys |-> IF Holds(a, k) THEN pend[a][k] ELSE table[k]]
  /\ pend' = [pend EXCEPT ![a] = Unwritten]
  /\ pc' = [pc EXCEPT ![a] = "committed"]
  /\ landed' = landed \cup {a}
  /\ UNCHANGED <<todo, stmt, written, answer, faults>>

\* Mutant of Commit: the transaction stays open behind the answer.
CommitForgotten(a) ==
  /\ pc[a] = "executing"
  /\ stmt[a] = {}
  /\ todo[a] = {}
  /\ pc' = [pc EXCEPT ![a] = "committed"]
  /\ UNCHANGED <<table, pend, todo, stmt, written, answer, faults, landed>>

Commit(a) ==
  /\ pc[a] = "executing"
  /\ stmt[a] = {}
  /\ todo[a] = {}
  /\ table' = [k \in Keys |-> IF Holds(a, k) THEN pend[a][k] ELSE table[k]]
  /\ pend' = [pend EXCEPT ![a] = Unwritten]
  /\ pc' = [pc EXCEPT ![a] = "committed"]
  /\ landed' = landed \cup {a}
  /\ UNCHANGED <<todo, stmt, written, answer, faults>>

Reply(a) ==
  /\ pc[a] = "committed"
  /\ Answer(a, "201")
  /\ UNCHANGED <<table, todo, stmt, pend, written, faults, landed>>

-----------------------------------------------------------------------------
\* Failures.

\* The attempts that hold a row the running statement of b has come to.
WaitsFor(b) ==
  {c \in Attempt \ {b} : \E l \in stmt[b] : IsTurn(b, l) /\ Holds(c, KeyOf(l.edge))}

Waiting == {b \in Attempt : WaitsFor(b) # {}}

\* A set of attempts that wait for one another in a ring.
OnCycle(a) ==
  \E ring \in SUBSET Waiting : a \in ring /\ UNION {WaitsFor(b) : b \in ring} = ring

Deadlock(a) ==
  /\ a \in Waiting
  /\ OnCycle(a)
  /\ Answer(a, "500")
  /\ Rollback(a)
  /\ UNCHANGED <<table, written, faults, landed>>

\* The connection to PostgreSQL breaks: before the COMMIT took effect, or
\* after it and before its answer arrived.  Either way execute() or commit()
\* raises and the handler answers 500.
LoseDatabase(a) ==
  /\ pc[a] \in {"executing", "committed"}
  /\ faults < MaxFaults
  /\ faults' = faults + 1
  /\ Answer(a, "500")
  /\ Rollback(a)
  /\ UNCHANGED <<table, written, landed>>

\* The worker process, or the connection of the producer, dies: no answer.
LoseWorker(a) ==
  /\ pc[a] \in {"posted", "executing", "committed"}
  /\ faults < MaxFaults
  /\ faults' = faults + 1
  /\ Answer(a, "lost")
  /\ Rollback(a)
  /\ UNCHANGED <<table, written, landed>>

-----------------------------------------------------------------------------

\* Nothing is in flight: the service waits for the next call.
Quiescent == (\A a \in Attempt : pc[a] \in {"idle", "done"}) /\ UNCHANGED vars

Handle(a) ==
  \/ Reject(a) \/ FailToTranslate(a) \/ NothingToWrite(a) \/ Translate(a)
  \/ Send(a) \/ InsertRow(a) \/ Commit(a) \/ Reply(a)

Step(a) ==
  Post(a) \/ Handle(a) \/ Deadlock(a) \/ LoseDatabase(a) \/ LoseWorker(a)

Next == (\E a \in Attempt : Step(a)) \/ Quiescent

Spec == Init /\ [][Next]_vars

\* As long as some handler can go on the event loop runs one: an await is over,
\* or a statement's row is free.  deadlock_timeout makes PostgreSQL look for a
\* ring.
Fairness ==
  /\ WF_vars(\E a \in Attempt : Handle(a))
  /\ WF_vars(\E a \in Attempt : Deadlock(a))

FairSpec == Spec /\ Fairness

-----------------------------------------------------------------------------
\* Safety.

Present(k) == k \in Keys /\ table[k] # NoRow

\* Every committed derives_from row is backed by the two rows it was
\* denormalised from: its input is consumed, and its output produced, by the
\* very job the row names (translator.py:66-99).  A reader never sees a call
\* half written, whichever chunk, retry or failure cut it short.
DerivationWitnessed ==
  \A k \in Keys :
    Present(k) /\ k[3] = "derives_from" =>
      /\ Present(<<k[1], table[k].job, "consumes">>)
      /\ Present(<<table[k].job, k[2], "produces">>)

\* A 201 is the truth, whatever happens afterwards: every edge that any event
\* of the call mentions is in the committed table (main.py:51-57, 70-85).
AckedIsDurable ==
  \A a \in Attempt : answer[a] = "201" =>
    \A l \in BuiltBy(a) : Present(KeyOf(l.edge))

\* A row is the work of one attempt whose COMMIT took effect: its job, run and
\* namespace come together from one edge of one call, and its creation mark
\* from an attempt that landed too (repository.py:38-50).  Nothing of a call
\* that was rolled back is ever visible.
RowsComeFromLandedCalls ==
  \A k \in Keys : Present(k) =>
    /\ \E a \in landed : \E l \in Outgoing(a) :
         /\ KeyOf(l.edge) = k
         /\ table[k].job = l.edge.job
         /\ table[k].run = l.edge.run
         /\ table[k].ns = l.edge.ns
    /\ table[k].created \in landed

\* edges_written in a 201 is the number of distinct edges the call mentions,
\* however its events overlap and however it was chunked: what the docstring
\* of _dedupe calls accurate write counts (translator.py:34-38).
CountsAccurate ==
  \A a \in Attempt : answer[a] = "201" =>
    written[a] = Cardinality({KeyOf(l.edge) : l \in BuiltBy(a)})

\* Pairs of rows an attempt takes, the first before the second.
Takes(a) ==
  {<<KeyOf(p[1].edge), KeyOf(p[2].edge)>> :
     p \in {q \in Outgoing(a) \X Outgoing(a) : Before(q[1].at, q[2].at)}}

\* Attempts whose rows could all be taken in one common order.
OrderedAlike(as) ==
  LET pairs == UNION {Takes(a) : a \in as}
  IN  \A ks \in (SUBSET {p[1] : p \in pairs}) \ {{}} :
        \E k \in ks : \A m \in ks : <<m, k>> \notin pairs

\* Without a fault a well-formed call fails only for a namespace that is null,
\* or because the calls that were sent list the rows they share in different
\* orders: row locks never cost identical events an answer, however they
\* interleave (repository.py:35-48; benchmark/hard_tests/concurrent_writes.py:7
\* for the storm).  Time-outs of the pool are another matter, that of Pool.
ErrorsHaveCauses ==
  \A a \in Attempt : answer[a] = "500" =>
    \/ faults > 0
    \/ \E l \in BuiltBy(a) : CannotBuild(l.edge)
    \/ ~OrderedAlike(Sent)

\* Once a row is there it keeps its creation mark, also when two transactions
\* raced to insert it (repository.py:41-46 leaves created_at alone).
CreatedAtStable ==
  [][\A k \in Keys : Present(k) =>
       table'[k] # NoRow /\ table'[k].created = table[k].created]_vars

\* Scoped search (routes_ui.py:51-67): u is an end of a row of namespace ns.
Discoverable(t, ns, u) ==
  \E k \in Keys : t[k] # NoRow /\ t[k].ns = ns /\ u \in {k[1], k[2]}

\* A node found in the search of a namespace stays findable there: another
\* producer may take over the row that showed it, with a namespace of its own,
\* but the rows of the node's job keep the job's namespace.  This needs job
\* URNs that determine their namespace (JobUrnsDistinct).
ScopedDiscoveryStable ==
  [][\A k \in Keys : Present(k) =>
       \A u \in {k[1], k[2]} : Discoverable(table', table[k].ns, u)]_vars

\* Jobs of different namespaces have different URNs (translator.py:21-22 joins
\* namespace and name with a slash, which either may contain).
JobUrnsDistinct == \A e, f \in Edges : e.job = f.job => e.ns = f.ns

Store == INSTANCE EdgeStore WITH
           Version <- 1..MaxAttempts,
           Key     <- Keys,
           Promise <- Promises,
           acked   <- {a \in Attempt : answer[a] = "201"}

\* The service implements the atomic store: every interleaving of chunks, row
\* locks, retries, aborts and lost connections has the effect of the calls
\* that landed, one after another in commit order (main.py:51-85,
\* repository.py:29-51).
ImplementsEdgeStore == Store!Spec

\* Every call that reaches a handler ends, deadlocks included: producers send
\* finitely often, so no moment is the last at which nothing is in flight.
EveryCallEnds == []<>(\A a \in Attempt : pc[a] \in {"idle", "done"})

-----------------------------------------------------------------------------
\* The inductive invariant behind the safety properties.

\* The edges of a that its open transaction has inserted so far.
Inserted(a) == Outgoing(a) \ (todo[a] \cup stmt[a])

\* An open transaction holds exactly the rows of the edges it has inserted,
\* each of them computed over the version that is committed now; outside the
\* execution of its statements an attempt holds nothing.
TransactionConsistent(a) ==
  IF pc[a] = "executing"
    THEN /\ todo[a] \cup stmt[a] \subseteq Outgoing(a)
         /\ todo[a] \cap stmt[a] = {}
         /\ \A l \in Inserted(a) : Holds(a, KeyOf(l.edge))
         /\ \A k \in Keys : Holds(a, k) =>
              \E l \in Inserted(a) :
                KeyOf(l.edge) = k /\ pend[a][k] = Upserted(l.edge, table[k], a)
    ELSE todo[a] = {} /\ stmt[a] = {} /\ pend[a] = Unwritten

TransactionsConsistent == \A a \in Attempt : TransactionConsistent(a)

\* No row is locked by two transactions.
LocksExclusive ==
  \A a, b \in Attempt : a # b => \A k \in Keys : ~(Holds(a, k) /\ Holds(b, k))

\* What has landed is over, is in the table, and is all that was acknowledged.
OutcomeConsistent(a) ==
  /\ pc[a] = "committed" => a \in landed
  /\ a \in landed => /\ pc[a] \in {"committed", "done"}
                     /\ \A l \in Outgoing(a) : Present(KeyOf(l.edge))
  /\ answer[a] = "201" => a \in landed \/ Outgoing(a) = {}
  /\ pc[a] # "done" => answer[a] = "none"

OutcomesConsistent == \A a \in Attempt : OutcomeConsistent(a)

IInv ==
  /\ TypeOK
  /\ TransactionsConsistent
  /\ LocksExclusive
  /\ OutcomesConsistent
  /\ RowsComeFromLandedCalls
  /\ DerivationWitnessed

-----------------------------------------------------------------------------
\* What the repository's documents say of the program.

\* benchmark/hard_tests/concurrent_writes.py:7 of producers that write the
\* same edges at once: zero client-visible errors.
NoClientErrors == \A a \in Attempt : answer[a] # "500"

=============================================================================
