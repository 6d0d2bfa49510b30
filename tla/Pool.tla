---------------------------------- MODULE Pool ----------------------------------
(***************************************************************************)
(* The connections of one worker process (app/db.py): a pool of PoolSize   *)
(* connections and MaxOverflow more, pre-pinged at every check-out, and    *)
(* the sessions of the requests that use them.  Every write of the model   *)
(* goes to one hot row, so that writers wait for its lock with their       *)
(* connections in hand.  What a statement computes is in Ingest and Reads. *)
(*                                                                         *)
(* A connection is known by the run of the server it was made to.          *)
(***************************************************************************)
EXTENDS Integers, Sequences, FiniteSets

CONSTANTS
  Writer, Reader,         \* requests to the ingest and to the read endpoints
  PoolSize, MaxOverflow,
  MaxCrashes,             \* bound: crashes of PostgreSQL
  Nobody

ASSUME PoolAssumption ==
  /\ Writer \cap Reader = {} /\ Nobody \notin Writer \cup Reader
  /\ IsFiniteSet(Writer \cup Reader)
  /\ PoolSize \in Nat \ {0} /\ MaxOverflow \in Nat /\ MaxCrashes \in Nat

VARIABLES
  up,       \* PostgreSQL answers
  run,      \* its current run
  idle,     \* the pool's queue of connections
  stage,    \* where each request is
  conn,     \* the connection it has checked out
  owner,    \* the request whose transaction holds the row lock
  answer,   \* what it was answered
  sawDown   \* whether PostgreSQL was down while it was in flight

vars == <<up, run, idle, stage, conn, owner, answer, sawDown>>

Request == Writer \cup Reader
Stages  == {"new", "asking", "waiting", "working", "locked", "answered"}
Answers == {"none", "ok", "unavailable", "timeout", "failed"}

None        == 0                   \* no connection, or the empty record of one
Connections == 0..(MaxCrashes + 1)
Limit       == PoolSize + MaxOverflow

InFlight(r) == stage[r] \notin {"new", "answered"}
Holders     == {r \in Request : conn[r] # None}

\* The connections that count against the limit.
Slots == Len(idle) + Cardinality(Holders)

Init ==
  /\ up = TRUE
  /\ run = 1
  /\ idle = <<>>
  /\ stage = [r \in Request |-> "new"]
  /\ conn = [r \in Request |-> None]
  /\ owner = Nobody
  /\ answer = [r \in Request |-> "none"]
  /\ sawDown = [r \in Request |-> FALSE]

-----------------------------------------------------------------------------
\* The end of a request.

Answered(r, a) ==
  /\ stage' = [stage EXCEPT ![r] = "answered"]
  /\ answer' = [answer EXCEPT ![r] = a]

\* Back to the pool, which closes what it has no room for.
Returned(queue, c) == IF Len(queue) < PoolSize THEN Append(queue, c) ELSE queue

\* Mutant of Close: get_session yields a session that nobody closes, so that
\* only what commits gives its connection and its locks back.
CloseForgotten(r, c, a) ==
  /\ Answered(r, a)
  /\ IF a = "ok"
       THEN /\ idle' = Returned(idle, c)
            /\ conn' = [conn EXCEPT ![r] = None]
            /\ owner' = IF owner = r THEN Nobody ELSE owner
       ELSE UNCHANGED <<idle, conn, owner>>

\* The session is closed with the request: what is left of its transaction is
\* rolled back and the connection, or the record of a broken one, returned.
Close(r, c, a) ==
  /\ Answered(r, a)
  /\ idle' = Returned(idle, c)
  /\ conn' = [conn EXCEPT ![r] = None]
  /\ owner' = IF owner = r THEN Nobody ELSE owner

-----------------------------------------------------------------------------
\* Checking a connection out.  A session does so at its first statement.

Arrive(r) ==
  /\ stage[r] = "new"
  /\ stage' = [stage EXCEPT ![r] = "asking"]
  /\ sawDown' = [sawDown EXCEPT ![r] = ~up]
  /\ UNCHANGED <<up, run, idle, conn, owner, answer>>

\* Mutant of CheckOut: pool_pre_ping is off.
CheckOutBlind(r) ==
  /\ stage[r] \in {"asking", "waiting"}
  /\ idle # <<>>
  /\ Head(idle) # None \/ up
  /\ idle' = Tail(idle)
  /\ conn' = [conn EXCEPT ![r] = IF Head(idle) = None THEN run ELSE Head(idle)]
  /\ stage' = [stage EXCEPT ![r] = "working"]
  /\ UNCHANGED <<up, run, owner, answer, sawDown>>

\* The oldest idle connection is pinged, and made anew when it is broken; if
\* that fails as well the pool keeps its empty record.
CheckOut(r) ==
  /\ stage[r] \in {"asking", "waiting"}
  /\ idle # <<>>
  /\ IF up
       THEN /\ idle' = Tail(idle)
            /\ conn' = [conn EXCEPT ![r] = run]
            /\ stage' = [stage EXCEPT ![r] = "working"]
            /\ UNCHANGED answer
       ELSE /\ idle' = Append(Tail(idle), None)
            /\ Answered(r, "unavailable")
            /\ UNCHANGED conn
  /\ UNCHANGED <<up, run, owner, sawDown>>

\* A new connection, within the limit; a failed attempt takes no slot.
Connect(r) ==
  /\ IF up
       THEN /\ conn' = [conn EXCEPT ![r] = run]
            /\ stage' = [stage EXCEPT ![r] = "working"]
            /\ UNCHANGED answer
       ELSE Answered(r, "unavailable") /\ UNCHANGED conn
  /\ UNCHANGED <<up, run, idle, owner, sawDown>>

Open(r) ==
  /\ stage[r] = "asking"
  /\ idle = <<>> /\ Slots < Limit
  /\ Connect(r)

Queue(r) ==
  /\ stage[r] = "asking"
  /\ idle = <<>> /\ Slots = Limit
  /\ stage' = [stage EXCEPT ![r] = "waiting"]
  /\ UNCHANGED <<up, run, idle, conn, owner, answer, sawDown>>

\* A connection that is returned wakes a waiter; a slot that is given up does
\* not, and is only seen when the waiting time is over.
TimeOut(r) ==
  /\ stage[r] = "waiting"
  /\ idle = <<>>
  /\ IF Slots < Limit
       THEN Connect(r)
       ELSE /\ Answered(r, "timeout")
            /\ UNCHANGED <<up, run, idle, conn, owner, sawDown>>

-----------------------------------------------------------------------------
\* The statements of a request.

Alive(r) == up /\ conn[r] = run

Lock(r) ==
  /\ r \in Writer /\ stage[r] = "working"
  /\ Alive(r) /\ owner = Nobody
  /\ owner' = r
  /\ stage' = [stage EXCEPT ![r] = "locked"]
  /\ UNCHANGED <<up, run, idle, conn, answer, sawDown>>

\* COMMIT of upsert_edges.
Commit(r) ==
  /\ stage[r] = "locked" /\ Alive(r)
  /\ Close(r, conn[r], "ok")
  /\ UNCHANGED <<up, run, sawDown>>

Read(r) ==
  /\ r \in Reader /\ stage[r] = "working" /\ Alive(r)
  /\ Close(r, conn[r], "ok")
  /\ UNCHANGED <<up, run, sawDown>>

\* A statement that PostgreSQL refuses, as the victim of a deadlock is.
Refused(r) ==
  /\ stage[r] \in {"working", "locked"} /\ Alive(r)
  /\ Close(r, conn[r], "failed")
  /\ UNCHANGED <<up, run, sawDown>>

\* A statement on a connection that is gone.
Broken(r) ==
  /\ stage[r] \in {"working", "locked"} /\ ~Alive(r)
  /\ Close(r, None, "unavailable")
  /\ UNCHANGED <<up, run, sawDown>>

-----------------------------------------------------------------------------
\* PostgreSQL.

Crash ==
  /\ up /\ run <= MaxCrashes
  /\ up' = FALSE
  /\ owner' = Nobody
  /\ sawDown' = [r \in Request |-> sawDown[r] \/ InFlight(r)]
  /\ UNCHANGED <<run, idle, stage, conn, answer>>

Recover ==
  /\ ~up
  /\ up' = TRUE
  /\ run' = run + 1
  /\ UNCHANGED <<idle, stage, conn, owner, answer, sawDown>>

-----------------------------------------------------------------------------

Handle(r) ==
  \/ CheckOut(r) \/ Open(r) \/ Queue(r) \/ TimeOut(r)
  \/ Lock(r) \/ Commit(r) \/ Read(r) \/ Broken(r)

\* Nobody is asking for anything.
Rest == (\A r \in Request : ~InFlight(r)) /\ UNCHANGED vars

Next == (\E r \in Request : Arrive(r) \/ Handle(r) \/ Refused(r)) \/ Crash \/ Recover \/ Rest

Spec == Init /\ [][Next]_vars

\* The event loop runs every handler that can go on, and the timer of the pool
\* fires; nothing need fail, and PostgreSQL need not come back.
FairSpec == Spec /\ \A r \in Request : WF_vars(Handle(r))

-----------------------------------------------------------------------------
\* Properties.

\* Types; the pool never has more connections than it is allowed, nor more idle
\* ones than it keeps; a request holds one exactly while it has statements to
\* run, and the row lock belongs to one of these.
PoolTypeOK ==
  /\ up \in BOOLEAN
  /\ run \in 1..(MaxCrashes + 1)
  /\ idle \in Seq(Connections) /\ Len(idle) <= PoolSize /\ Slots <= Limit
  /\ stage \in [Request -> Stages]
  /\ conn \in [Request -> Connections]
  /\ \A r \in Request : conn[r] # None <=> stage[r] \in {"working", "locked"}
  /\ owner \in Writer \cup {Nobody}
  /\ owner # Nobody => stage[owner] = "locked"
  /\ answer \in [Request -> Answers]
  /\ \A r \in Request : answer[r] # "none" <=> stage[r] = "answered"
  /\ sawDown \in [Request -> BOOLEAN]

\* A request fails for want of a connection only if PostgreSQL was down while
\* the request was in flight: connections left over from before a restart, idle
\* in the pool, fail nobody (db.py:21; docs/benchmark/hard-tests.md:128,
\* "asyncpg's connection pool reconnects cleanly without restarting the app").
NoStaleFailure == \A r \in Request : answer[r] = "unavailable" => sawDown[r]

\* A request is turned away by the pool only while as many others as the pool
\* allows are being worked on: no failure of an earlier request, whatever it
\* was, leaves the pool with less than it has (db.py:22-23, 29-31).
TimeoutMeansBusy ==
  [][\A r \in Request :
       answer[r] # "timeout" /\ answer'[r] = "timeout" =>
         Cardinality({q \in Request \ {r} : conn[q] # None /\ InFlight(q)}) = Limit]_vars

\* Every request is answered, though requests wait for one another's
\* connections and for one another's row locks: who holds the lock has its
\* connection already and needs no second one (db.py:29-31).
EveryRequestEnds == \A r \in Request : InFlight(r) ~> stage[r] = "answered"

=============================================================================
