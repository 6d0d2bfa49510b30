-------------------------------- MODULE Startup --------------------------------
(***************************************************************************)
(* How a container of the service comes up: docker-entrypoint.sh runs      *)
(* alembic upgrade head (migrations/env.py, the one revision under         *)
(* migrations/versions) against the database of app/config.py and, only if *)
(* that succeeded, becomes uvicorn.  Several containers may start at once, *)
(* and containers and databases may die at any point.                      *)
(*                                                                         *)
(* The upgrade is one transaction (env.py begins it, DDL of PostgreSQL is  *)
(* transactional): what it has created is held against other transactions  *)
(* until it ends.                                                          *)
(***************************************************************************)
EXTENDS Integers, Sequences

CONSTANTS
  Container,
  Database,         \* the addresses a URL may have
  Running,          \* those with a PostgreSQL server behind them
  Env,              \* Env[c]: what the variables of a container's environment name
  DefaultDatabase,  \* Settings.database_url
  MaxStarts,        \* bound: starts of one container
  MaxCrashes        \* bound: crashes of databases

ASSUME StartupAssumption ==
  /\ DefaultDatabase \in Database /\ Running \subseteq Database
  /\ \A c \in Container : \A v \in DOMAIN Env[c] : Env[c][v] \in Database
  /\ MaxStarts \in Nat /\ MaxCrashes \in Nat

VARIABLES
  up,       \* the databases that answer
  schema,   \* what is committed in each database
  pc,       \* where each container is
  next,     \* how far it is in Upgrade
  made,     \* what its open transaction has created
  reason,   \* why it exited
  starts,   \* how often each container was started
  crashes

vars == <<up, schema, pc, next, made, reason, starts, crashes>>

Stages ==
  {"down", "connecting", "reading", "checking", "migrating", "committed", "serving", "exited"}
Reasons == {"none", "connection", "duplicate"}

-----------------------------------------------------------------------------
\* app/config.py.

\* env_prefix and the name of the field.
SettingsVariable == "LINEAGE_DATABASE_URL"

\* Mutant of DatabaseOf: the prefix is not the one of the environment.
DefaultOnly(c) == DefaultDatabase

DatabaseOf(c) ==
  IF SettingsVariable \in DOMAIN Env[c] THEN Env[c][SettingsVariable] ELSE DefaultDatabase

\* What whoever wrote the environment wanted.
Named(c) == {Env[c][v] : v \in DOMAIN Env[c]}

-----------------------------------------------------------------------------
\* The revision: alembic's own table, upgrade(), and the row that says head.

Upgrade ==
  <<"alembic_version", "lineage_edge", "ix_lineage_edge_src_urn", "ix_lineage_edge_dst_urn",
    "ix_lineage_edge_job_urn", "ix_lineage_edge_namespace", "head">>

Objects == {Upgrade[i] : i \in DOMAIN Upgrade}

Done == Len(Upgrade) + 1

Init ==
  /\ up = Running
  /\ schema = [d \in Database |-> {}]
  /\ pc = [c \in Container |-> "down"]
  /\ next = [c \in Container |-> Done]
  /\ made = [c \in Container |-> {}]
  /\ reason = [c \in Container |-> "none"]
  /\ starts = [c \in Container |-> 0]
  /\ crashes = 0

-----------------------------------------------------------------------------
\* The entrypoint.

\* Mutant of Exit: no set -e, uvicorn is started whatever alembic says.
ExitAnyway(who, why) ==
  /\ pc' = [c \in Container |-> IF c \in who THEN "serving" ELSE pc[c]]
  /\ reason' = [c \in Container |-> IF c \in who THEN why ELSE reason[c]]
  /\ next' = [c \in Container |-> IF c \in who THEN Done ELSE next[c]]
  /\ made' = [c \in Container |-> IF c \in who THEN {} ELSE made[c]]

\* alembic fails, its transaction is rolled back, and set -e ends the container.
Exit(who, why) ==
  /\ pc' = [c \in Container |-> IF c \in who THEN "exited" ELSE pc[c]]
  /\ reason' = [c \in Container |-> IF c \in who THEN why ELSE reason[c]]
  /\ next' = [c \in Container |-> IF c \in who THEN Done ELSE next[c]]
  /\ made' = [c \in Container |-> IF c \in who THEN {} ELSE made[c]]

\* docker compose up: not before the database the environment names is healthy.
Start(c) ==
  /\ pc[c] \in {"down", "exited"}
  /\ starts[c] < MaxStarts
  /\ Named(c) \subseteq up
  /\ pc' = [pc EXCEPT ![c] = "connecting"]
  /\ starts' = [starts EXCEPT ![c] = @ + 1]
  /\ reason' = [reason EXCEPT ![c] = "none"]
  /\ UNCHANGED <<up, schema, next, made, crashes>>

Connect(c) ==
  /\ pc[c] = "connecting"
  /\ IF DatabaseOf(c) \in up
       THEN pc' = [pc EXCEPT ![c] = "reading"] /\ UNCHANGED <<next, made, reason>>
       ELSE Exit({c}, "connection")
  /\ UNCHANGED <<up, schema, starts, crashes>>

\* alembic reads the current head; at head there is nothing to create.
ReadHead(c) ==
  /\ pc[c] = "reading"
  /\ pc' = [pc EXCEPT ![c] = IF "head" \in schema[DatabaseOf(c)] THEN "migrating" ELSE "checking"]
  /\ UNCHANGED <<up, schema, next, made, reason, starts, crashes>>

\* Its own table, unlike those of upgrade(), is created only if it is not there.
CheckVersionTable(c) ==
  /\ pc[c] = "checking"
  /\ pc' = [pc EXCEPT ![c] = "migrating"]
  /\ next' = [next EXCEPT ![c] = IF "alembic_version" \in schema[DatabaseOf(c)] THEN 2 ELSE 1]
  /\ UNCHANGED <<up, schema, made, reason, starts, crashes>>

HeldByOther(c, o) ==
  \E b \in Container \ {c} : DatabaseOf(b) = DatabaseOf(c) /\ o \in made[b]

\* Mutant of Create: every statement commits by itself.
CreateCommitted(c) ==
  /\ pc[c] = "migrating"
  /\ next[c] < Done
  /\ IF Upgrade[next[c]] \in schema[DatabaseOf(c)]
       THEN Exit({c}, "duplicate") /\ UNCHANGED schema
       ELSE /\ schema' = [schema EXCEPT ![DatabaseOf(c)] = @ \cup {Upgrade[next[c]]}]
            /\ next' = [next EXCEPT ![c] = @ + 1]
            /\ UNCHANGED <<pc, made, reason>>
  /\ UNCHANGED <<up, starts, crashes>>

\* Mutant of Create: a lock timeout, so that it does not wait.
CreateNoWait(c) ==
  /\ pc[c] = "migrating"
  /\ next[c] < Done
  /\ IF HeldByOther(c, Upgrade[next[c]]) \/ Upgrade[next[c]] \in schema[DatabaseOf(c)]
       THEN Exit({c}, "duplicate")
       ELSE /\ made' = [made EXCEPT ![c] = @ \cup {Upgrade[next[c]]}]
            /\ next' = [next EXCEPT ![c] = @ + 1]
            /\ UNCHANGED <<pc, reason>>
  /\ UNCHANGED <<up, schema, starts, crashes>>

\* One statement of upgrade(): it waits for the transaction that has made the
\* same object, and fails if the object is there.
Create(c) ==
  /\ pc[c] = "migrating"
  /\ next[c] < Done
  /\ ~HeldByOther(c, Upgrade[next[c]])
  /\ IF Upgrade[next[c]] \in schema[DatabaseOf(c)]
       THEN Exit({c}, "duplicate")
       ELSE /\ made' = [made EXCEPT ![c] = @ \cup {Upgrade[next[c]]}]
            /\ next' = [next EXCEPT ![c] = @ + 1]
            /\ UNCHANGED <<pc, reason>>
  /\ UNCHANGED <<up, schema, starts, crashes>>

CommitUpgrade(c) ==
  /\ pc[c] = "migrating"
  /\ next[c] = Done
  /\ schema' = [schema EXCEPT ![DatabaseOf(c)] = @ \cup made[c]]
  /\ made' = [made EXCEPT ![c] = {}]
  /\ pc' = [pc EXCEPT ![c] = "committed"]
  /\ UNCHANGED <<up, next, reason, starts, crashes>>

\* exec "$@": the application asks nothing of the database to come up.
Launch(c) ==
  /\ pc[c] = "committed"
  /\ pc' = [pc EXCEPT ![c] = "serving"]
  /\ UNCHANGED <<up, schema, next, made, reason, starts, crashes>>

-----------------------------------------------------------------------------
\* The environment.

\* Mutant of Kill: the connection of the dead container is kept open.
KillHalf(c) ==
  /\ pc[c] \notin {"down", "exited"}
  /\ pc' = [pc EXCEPT ![c] = "down"]
  /\ UNCHANGED <<up, schema, next, made, reason, starts, crashes>>

\* PostgreSQL rolls back the transaction of a connection that is closed.
Kill(c) ==
  /\ pc[c] \notin {"down", "exited"}
  /\ pc' = [pc EXCEPT ![c] = "down"]
  /\ next' = [next EXCEPT ![c] = Done]
  /\ made' = [made EXCEPT ![c] = {}]
  /\ UNCHANGED <<up, schema, reason, starts, crashes>>

\* Every upgrade that is talking to the database fails and what is committed
\* stays; a commit that was under way may have been made or not.
CrashDatabase(d) ==
  /\ d \in up
  /\ crashes < MaxCrashes
  /\ crashes' = crashes + 1
  /\ up' = up \ {d}
  /\ LET talking == {c \in Container :
                       DatabaseOf(c) = d /\ pc[c] \in {"reading", "checking", "migrating"}}
     IN  /\ \E done \in SUBSET {c \in talking : pc[c] = "migrating" /\ next[c] = Done} :
              schema' = [schema EXCEPT ![d] = @ \cup UNION {made[c] : c \in done}]
         /\ Exit(talking, "connection")
  /\ UNCHANGED starts

StartDatabase(d) ==
  /\ d \in Running \ up
  /\ up' = up \cup {d}
  /\ UNCHANGED <<schema, pc, next, made, reason, starts, crashes>>

-----------------------------------------------------------------------------

Entrypoint(c) == 
  Connect(c) \/ ReadHead(c) \/ CheckVersionTable(c) \/ Create(c) \/ CommitUpgrade(c) \/ Launch(c)

\* Every container is up or has ended: nobody has to start it again.
Settled == (\A c \in Container : pc[c] \in {"down", "serving", "exited"}) /\ UNCHANGED vars

Next ==
  \/ \E c \in Container : Start(c) \/ Entrypoint(c) \/ Kill(c)
  \/ \E d \in Database : CrashDatabase(d) \/ StartDatabase(d)
  \/ Settled

Spec == Init /\ [][Next]_vars

\* A process that can go on does.  Nobody need start a container or a
\* database: compose has no restart policy.
FairSpec == Spec /\ \A c \in Container : WF_vars(Entrypoint(c))

-----------------------------------------------------------------------------
\* Properties.

StartupTypeOK ==
  /\ up \subseteq Database
  /\ schema \in [Database -> SUBSET Objects]
  /\ pc \in [Container -> Stages]
  /\ next \in [Container -> 1..Done]
  /\ made \in [Container -> SUBSET Objects]
  /\ \A c \in Container : made[c] # {} => pc[c] = "migrating"
  /\ reason \in [Container -> Reasons]
  /\ starts \in [Container -> 0..MaxStarts]
  /\ crashes \in 0..MaxCrashes

\* Whoever dies in the middle of an upgrade, and however many run at once, a
\* database has all of the revision or nothing of it: a table that alembic does
\* not know of would make every later start fail (env.py:33-34).
SchemaAllOrNothing == \A d \in Database : schema[d] \in {{}, Objects}

\* A container that takes requests has the schema for them: no start leads to
\* uvicorn beside a missing table (docker-entrypoint.sh:5-11), which is what
\* docs/benchmark/issues-and-fixes.md:44-45 describes.
ServesOnSchema ==
  \A c \in Container : pc[c] = "serving" => schema[DatabaseOf(c)] = Objects

\* Of several upgrades that run at once the losers exit, but only once the
\* winner has committed: starting them again is enough (docker-entrypoint.sh:3).
LoserFindsSchema ==
  \A c \in Container :
    pc[c] = "exited" /\ reason[c] = "duplicate" => schema[DatabaseOf(c)] = Objects

\* A container that is started once the database its environment names is
\* healthy finds it, as long as no database crashes (README.md:79-80, "Alembic
\* runs automatically inside the container"; docker-compose.yml:21-25).
ComesUp ==
  \A c \in Container : pc[c] = "exited" /\ crashes = 0 => reason[c] = "duplicate"

\* Every start is over some time: upgrades that wait for one another's objects
\* create them in one order, so they never wait in a ring.
StartsEnd ==
  \A c \in Container : pc[c] = "connecting" ~> pc[c] \in {"down", "serving", "exited"}

=============================================================================
