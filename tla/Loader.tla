--------------------------------- MODULE Loader ---------------------------------
(***************************************************************************)
(* The loader that fills a service from a file (load and load_batch of     *)
(* benchmark/fixtures/generate.py), against a service whose application    *)
(* and database may be away.  The main thread submits calls to a pool of   *)
(* threads until a window of them is in flight, then waits for them all;   *)
(* an exception of one of them ends the load once the pool has run what it *)
(* was given.  Nothing is sent twice.                                      *)
(***************************************************************************)
EXTENDS Integers, FiniteSets

CONSTANTS
  Lines,        \* of the file
  BatchSize,    \* 1 in load()
  Concurrency,  \* threads of the pool
  Window,       \* concurrency * 4 in the code
  MaxOutages    \* bound: times a part of the service is killed

ASSUME LoaderAssumption ==
  /\ Lines \in Nat /\ MaxOutages \in Nat
  /\ {BatchSize, Concurrency, Window} \subseteq Nat \ {0}

VARIABLES
  phase,     \* of the main thread
  next,      \* calls submitted
  inflight,  \* those of the current window whose result it has not taken
  call,      \* where each call is, with its result once it has one
  sent, errors,   \* the counters that are printed
  app, db,   \* the two parts of the service
  inside,    \* calls the application is working on
  landed,    \* calls whose events are committed
  outages

loader  == <<phase, next, inflight, call, sent, errors>>
service == <<app, db, inside, landed, outages>>
vars    == <<loader, service>>

Phases == {"submitting", "draining", "aborting", "loaded", "aborted"}
Stages == {"unsent", "queued", "posting", "created", "refused", "raised"}
Part   == {"up", "starting", "down"}

-----------------------------------------------------------------------------
\* The file in calls.

\* Mutant of Calls: what is left in the buffer at the end is not yielded.
FullBatches == Lines \div BatchSize

Calls == (Lines + BatchSize - 1) \div BatchSize

Size(i) == IF i * BatchSize <= Lines THEN BatchSize ELSE Lines % BatchSize

Call == 1..Calls

In(s) == {i \in Call : call[i] = s}

Init ==
  /\ phase = "submitting" /\ next = 0 /\ inflight = {}
  /\ call = [i \in Call |-> "unsent"]
  /\ sent = 0 /\ errors = 0
  /\ app = "up" /\ db = "up" /\ inside = {} /\ landed = {} /\ outages = 0

-----------------------------------------------------------------------------
\* The main thread.

\* Mutant of Submit: everything is submitted at once.
SubmitAll ==
  /\ phase = "submitting"
  /\ next < Calls
  /\ next' = next + 1
  /\ inflight' = inflight \cup {next + 1}
  /\ call' = [call EXCEPT ![next + 1] = "queued"]
  /\ phase' = IF next + 1 = Calls THEN "draining" ELSE phase
  /\ UNCHANGED <<sent, errors, service>>

Submit ==
  /\ phase = "submitting"
  /\ next < Calls
  /\ next' = next + 1
  /\ inflight' = inflight \cup {next + 1}
  /\ call' = [call EXCEPT ![next + 1] = "queued"]
  /\ phase' = IF Cardinality(inflight) + 1 >= Window THEN "draining" ELSE phase
  /\ UNCHANGED <<sent, errors, service>>

\* The end of the file.
LastWindow ==
  /\ phase = "submitting"
  /\ next = Calls
  /\ phase' = "draining"
  /\ UNCHANGED <<next, inflight, call, sent, errors, service>>

Count(i, wrong) ==
  /\ sent' = sent + Size(i)
  /\ errors' = IF wrong THEN errors + 1 ELSE errors
  /\ inflight' = inflight \ {i}
  /\ UNCHANGED phase

\* Mutant of Collect: a 500 is no error.
CollectLenient(i) ==
  /\ phase = "draining" /\ i \in inflight
  /\ \/ call[i] \in {"created", "refused"} /\ Count(i, FALSE)
     \/ call[i] = "raised" /\ phase' = "aborting" /\ UNCHANGED <<sent, errors, inflight>>
  /\ UNCHANGED <<next, call, service>>

\* Mutant of Collect: raise_for_status.
CollectStrict(i) ==
  /\ phase = "draining" /\ i \in inflight
  /\ \/ call[i] = "created" /\ Count(i, FALSE)
     \/ /\ call[i] \in {"refused", "raised"}
        /\ phase' = "aborting" /\ UNCHANGED <<sent, errors, inflight>>
  /\ UNCHANGED <<next, call, service>>

\* as_completed: the result of a call, which for an exception raises it.
Collect(i) ==
  /\ phase = "draining" /\ i \in inflight
  /\ \/ call[i] = "created" /\ Count(i, FALSE)
     \/ call[i] = "refused" /\ Count(i, TRUE)
     \/ call[i] = "raised" /\ phase' = "aborting" /\ UNCHANGED <<sent, errors, inflight>>
  /\ UNCHANGED <<next, call, service>>

WindowDone ==
  /\ phase = "draining" /\ inflight = {}
  /\ phase' = IF next = Calls THEN "loaded" ELSE "submitting"
  /\ UNCHANGED <<next, inflight, call, sent, errors, service>>

\* Leaving the with statement waits for all that was submitted.
Abort ==
  /\ phase = "aborting" /\ In("queued") \cup In("posting") = {}
  /\ phase' = "aborted"
  /\ UNCHANGED <<next, inflight, call, sent, errors, service>>

-----------------------------------------------------------------------------
\* A thread of the pool, and the service at the other end.

Post(i) ==
  /\ call[i] = "queued"
  /\ Cardinality(In("posting")) < Concurrency
  /\ IF app = "up"
       THEN call' = [call EXCEPT ![i] = "posting"] /\ inside' = inside \cup {i}
       ELSE call' = [call EXCEPT ![i] = "raised"] /\ UNCHANGED inside
  /\ UNCHANGED <<phase, next, inflight, sent, errors, app, db, landed, outages>>

\* Mutant of TimeOut: timeout=None, a call ends when the connection does.
NoTimeOut(i) ==
  /\ call[i] = "posting" /\ app # "up"
  /\ call' = [call EXCEPT ![i] = "raised"]
  /\ UNCHANGED <<phase, next, inflight, sent, errors, service>>

\* The client gives up waiting; the application does not know.
TimeOut(i) ==
  /\ call[i] = "posting"
  /\ call' = [call EXCEPT ![i] = "raised"]
  /\ UNCHANGED <<phase, next, inflight, sent, errors, service>>

Land(i) ==
  /\ i \in inside /\ db = "up" /\ i \notin landed
  /\ landed' = landed \cup {i}
  /\ UNCHANGED <<loader, app, db, inside, outages>>

\* 201 only for what has landed; a 500 also when the database did not answer
\* the commit.  The answer may find nobody waiting.
Answer(i) ==
  /\ i \in inside
  /\ \E code \in {"created", "refused"} :
       /\ code = "created" => i \in landed
       /\ call' = IF call[i] = "posting" THEN [call EXCEPT ![i] = code] ELSE call
  /\ inside' = inside \ {i}
  /\ UNCHANGED <<phase, next, inflight, sent, errors, app, db, landed, outages>>

\* What the application was working on and had not committed is lost with it.
KillApp ==
  /\ app' = "down"
  /\ inside' = {}
  /\ call' = [i \in Call |-> IF call[i] = "posting" THEN "raised" ELSE call[i]]
  /\ UNCHANGED <<phase, next, inflight, sent, errors, db, landed>>

KillDatabase == db' = "down" /\ UNCHANGED <<loader, app, inside, landed>>

\* docker compose up -d returns before what it starts is ready.
Restart(part) ==
  \/ part = "app" /\ app = "down" /\ app' = "starting" /\ UNCHANGED <<loader, db, inside, landed, outages>>
  \/ part = "db" /\ db = "down" /\ db' = "starting" /\ UNCHANGED <<loader, app, inside, landed, outages>>

\* The entrypoint ends in uvicorn only with a database to migrate.
AppReady ==
  /\ app = "starting" /\ db = "up"
  /\ app' = "up"
  /\ UNCHANGED <<loader, db, inside, landed, outages>>

DatabaseReady ==
  /\ db = "starting"
  /\ db' = "up"
  /\ UNCHANGED <<loader, app, inside, landed, outages>>

-----------------------------------------------------------------------------

Outage ==
  /\ outages < MaxOutages /\ outages' = outages + 1
  /\ \/ app = "up" /\ KillApp
     \/ db = "up" /\ KillDatabase

Main == Submit \/ LastWindow \/ WindowDone \/ Abort \/ \E i \in Call : Collect(i)

Thread(i) == Post(i) \/ TimeOut(i)

Serve == AppReady \/ DatabaseReady \/ \E i \in Call : Land(i) \/ Answer(i)

Ended == phase \in {"loaded", "aborted"}

\* The load is over and so is what the service had to do for it.
Rest == Ended /\ inside = {} /\ UNCHANGED vars

Load == Main \/ Serve \/ \E i \in Call : Thread(i)

Next == Load \/ Outage \/ Restart("app") \/ Restart("db") \/ Rest

Spec == Init /\ [][Next]_vars

\* The loader's threads run and its timeouts fire; the service need do nothing.
LoaderFairness == WF_vars(Main) /\ \A i \in Call : WF_vars(Thread(i))

FairSpec == Spec /\ LoaderFairness

-----------------------------------------------------------------------------
\* Properties.

LoaderTypeOK ==
  /\ phase \in Phases /\ next \in 0..Calls /\ inflight \subseteq 1..next
  /\ call \in [Call -> Stages] /\ \A i \in Call : call[i] = "unsent" <=> i > next
  /\ sent \in Nat /\ errors \in Nat
  /\ {app, db} \subseteq Part /\ outages \in 0..MaxOutages
  /\ inside \subseteq 1..next /\ landed \subseteq 1..next
  /\ Cardinality(In("posting")) <= Concurrency

\* "Loaded n events": n is the lines of the file, whatever is left for the last
\* call and the last window (generate.py:133-138, 157-166, 188-193).
LoadedCounts == phase = "loaded" => sent = Lines

\* The printed errors are honest: at most so many calls of a finished load have
\* not landed, whatever was down meanwhile (generate.py:124, 136, 179, 191).
LoadedHonest == phase = "loaded" => Cardinality(Call \ landed) <= errors

\* An exception costs one window: of what an aborted load had submitted, no more
\* is missing than the errors it counted and a window of calls it did not, and
\* no thread is left that could still send (generate.py:112-122, 168-177).
AbortLosesOneWindow ==
  phase = "aborted" =>
    /\ Cardinality((1..next) \ landed) <= errors + Window
    /\ In("queued") \cup In("posting") = {}

\* Every load ends, whether the service answers or not (generate.py:113, 169).
EveryLoadEnds == <>Ended

=============================================================================
