----------------------------- MODULE StartupProofs -----------------------------
(***************************************************************************)
(* What start-up guarantees for any number of containers and databases.    *)
(* SchemaAllOrNothing is not inductive: that a commit adds the whole       *)
(* revision follows from how far the transaction has come, and that two    *)
(* transactions do not add a half each follows from the objects they hold. *)
(***************************************************************************)
EXTENDS Startup, TLAPS

\* Two open transactions on a database never hold the same object.
Exclusive ==
  \A a, b \in Container : a # b /\ DatabaseOf(a) = DatabaseOf(b) => made[a] \cap made[b] = {}

Remaining(c) == {Upgrade[i] : i \in next[c]..Len(Upgrade)}

\* While there is no schema an upgrade has made what it no longer has to make,
\* and once there is one an upgrade that is still running holds nothing.
Progress ==
  \A c \in Container : pc[c] = "migrating" =>
    IF schema[DatabaseOf(c)] = {}
      THEN made[c] \cup Remaining(c) = Objects
      ELSE made[c] = {}

Migrated ==
  \A c \in Container : pc[c] \in {"committed", "serving"} => schema[DatabaseOf(c)] = Objects

Duplicates == \A c \in Container : reason[c] = "duplicate" => schema[DatabaseOf(c)] = Objects

IInv == /\ StartupTypeOK
        /\ SchemaAllOrNothing
        /\ Exclusive
        /\ Progress
        /\ Migrated
        /\ Duplicates

-----------------------------------------------------------------------------

\* The revision as the proofs use it.
LEMMA Revision ==
  /\ Len(Upgrade) = 7 /\ Done = 8
  /\ Objects = {Upgrade[i] : i \in 1..7}
  /\ "head" \in Objects /\ "alembic_version" \in Objects
<1>1. Len(Upgrade) = 7 /\ DOMAIN Upgrade = 1..7
  BY DEF Upgrade
<1>2. Upgrade[1] = "alembic_version" /\ Upgrade[7] = "head"
  BY DEF Upgrade
<1>3. Objects = {Upgrade[i] : i \in 1..7}
  BY <1>1 DEF Objects
<1>4. Upgrade[1] \in Objects /\ Upgrade[7] \in Objects
  BY <1>3
<1> QED
  BY <1>1, <1>2, <1>3, <1>4 DEF Done

\* Whatever the environment says, the settings name a database.
LEMMA DatabaseTyped == \A c \in Container : DatabaseOf(c) \in Database
BY StartupAssumption DEF DatabaseOf

LEMMA InitIInv == Init => IInv
BY StartupAssumption, Revision
   DEF Init, IInv, StartupTypeOK, SchemaAllOrNothing, Exclusive, Progress, Migrated, Duplicates,
       Stages, Reasons

-----------------------------------------------------------------------------

\* A failing upgrade takes nothing away and leaves nothing behind.
LEMMA ExitKeepsIInv ==
  ASSUME IInv, NEW who \in SUBSET Container, NEW why \in {"connection", "duplicate"},
         Exit(who, why), UNCHANGED <<schema, starts>>,
         up' \subseteq Database, crashes' \in 0..MaxCrashes,
         why = "duplicate" => \A c \in who : schema[DatabaseOf(c)] = Objects
  PROVE  IInv'
<1> USE DEF IInv
<1>1. /\ pc' \in [Container -> Stages]
      /\ next' \in [Container -> 1..Done]
      /\ made' \in [Container -> SUBSET Objects]
      /\ reason' \in [Container -> Reasons]
  BY Revision DEF StartupTypeOK, Exit, Stages, Reasons
<1>2. \A c \in Container :
        IF c \in who THEN pc'[c] = "exited" /\ made'[c] = {} /\ reason'[c] = why
        ELSE pc'[c] = pc[c] /\ made'[c] = made[c] /\ reason'[c] = reason[c] /\ next'[c] = next[c]
  BY DEF Exit
<1>3. StartupTypeOK'
  BY <1>1, <1>2 DEF StartupTypeOK
<1>4. \A c \in Container : DatabaseOf(c)' = DatabaseOf(c)
  BY DEF DatabaseOf
<1>5. SchemaAllOrNothing'
  BY DEF SchemaAllOrNothing
<1>6. Exclusive'
  BY <1>2, <1>4 DEF Exclusive
<1>7. Progress'
  BY <1>2, <1>4 DEF Progress, Remaining
<1>8. Migrated' /\ Duplicates'
  BY <1>2, <1>4 DEF Migrated, Duplicates
<1> QED
  BY <1>3, <1>5, <1>6, <1>7, <1>8

\* A step of one container that commits nothing and creates nothing.
LEMMA QuietKeepsIInv ==
  ASSUME IInv, NEW c \in Container, NEW s \in Stages, NEW n \in 1..Done,
         pc' = [pc EXCEPT ![c] = s],
         next' = [next EXCEPT ![c] = n],
         \/ made' = made /\ made[c] = {}
         \/ made' = [made EXCEPT ![c] = {}],
         reason' \in {reason, [reason EXCEPT ![c] = "none"]},
         starts' \in [Container -> 0..MaxStarts],
         UNCHANGED <<up, schema, crashes>>,
         s = "migrating" => schema[DatabaseOf(c)] # {} \/ n = 1,
         s \in {"committed", "serving"} => schema[DatabaseOf(c)] = Objects
  PROVE  IInv'
<1> USE DEF IInv
<1>1. made' = [made EXCEPT ![c] = {}] /\ made' \in [Container -> SUBSET Objects]
  BY DEF StartupTypeOK
<1>2. /\ pc' \in [Container -> Stages]
      /\ next' \in [Container -> 1..Done]
      /\ reason' \in [Container -> Reasons]
  BY DEF StartupTypeOK, Reasons
<1>3. \A b \in Container : b # c => pc'[b] = pc[b] /\ next'[b] = next[b] /\ made'[b] = made[b]
  BY <1>1 DEF StartupTypeOK
<1>4. pc'[c] = s /\ next'[c] = n /\ made'[c] = {}
  BY <1>1 DEF StartupTypeOK
<1>5. \A b \in Container : reason'[b] \in {reason[b], "none"}
  BY DEF StartupTypeOK
<1>6. StartupTypeOK'
  BY <1>1, <1>2, <1>3, <1>4 DEF StartupTypeOK
<1>7. SchemaAllOrNothing'
  BY DEF SchemaAllOrNothing
<1>8. Exclusive'
  BY <1>3, <1>4 DEF Exclusive, DatabaseOf
<1>9. Progress'
  <2> SUFFICES ASSUME NEW b \in Container, pc'[b] = "migrating"
               PROVE  IF schema[DatabaseOf(b)] = {}
                        THEN made'[b] \cup Remaining(b)' = Objects
                        ELSE made'[b] = {}
    BY DEF Progress, DatabaseOf
  <2>1. CASE b # c
    BY <2>1, <1>3 DEF Progress, Remaining
  <2>2. CASE b = c /\ schema[DatabaseOf(c)] # {}
    BY <2>2, <1>4
  <2>3. CASE b = c /\ schema[DatabaseOf(c)] = {}
    <3>1. Remaining(c)' = Objects
      BY <2>3, <1>4, Revision DEF Remaining
    <3> QED
      BY <3>1, <2>3, <1>4
  <2> QED
    BY <2>1, <2>2, <2>3
<1>10. Migrated'
  BY <1>3, <1>4 DEF Migrated, DatabaseOf
<1>11. Duplicates'
  BY <1>5 DEF Duplicates, DatabaseOf
<1> QED
  BY <1>6, <1>7, <1>8, <1>9, <1>10, <1>11

\* A statement of the revision is executed.
LEMMA CreateKeepsIInv ==
  ASSUME IInv, NEW c \in Container, Create(c)
  PROVE  IInv'
<1> USE DEF IInv
<1> DEFINE o == Upgrade[next[c]]
<1>1. next[c] \in 1..7 /\ pc[c] = "migrating" /\ ~HeldByOther(c, o)
  BY Revision DEF Create, StartupTypeOK
<1>2. o \in Objects
  BY <1>1, Revision
<1>3. CASE o \in schema[DatabaseOf(c)]
  <2>1. schema[DatabaseOf(c)] = Objects
    BY <1>3, DatabaseTyped DEF SchemaAllOrNothing
  <2>2. Exit({c}, "duplicate") /\ UNCHANGED <<up, schema, starts, crashes>>
    BY <1>3 DEF Create
  <2> QED
    BY <2>1, <2>2, ExitKeepsIInv DEF StartupTypeOK
<1>4. CASE o \notin schema[DatabaseOf(c)]
  <2>1. /\ made' = [made EXCEPT ![c] = @ \cup {o}]
        /\ next' = [next EXCEPT ![c] = @ + 1]
        /\ UNCHANGED <<pc, reason, up, schema, starts, crashes>>
    BY <1>4 DEF Create
  <2>2. made'[c] = made[c] \cup {o} /\ next'[c] = next[c] + 1
    BY <2>1 DEF StartupTypeOK
  <2>3. \A b \in Container : b # c => made'[b] = made[b] /\ next'[b] = next[b]
    BY <2>1 DEF StartupTypeOK
  <2>4. StartupTypeOK'
    <3>1. made' \in [Container -> SUBSET Objects]
      BY <2>1, <1>2 DEF StartupTypeOK
    <3>2. next' \in [Container -> 1..Done]
      BY <2>1, <1>1, Revision DEF StartupTypeOK
    <3>3. \A b \in Container : made'[b] # {} => pc'[b] = "migrating"
      BY <2>1, <2>2, <2>3, <1>1 DEF StartupTypeOK
    <3> QED
      BY <3>1, <3>2, <3>3, <2>1 DEF StartupTypeOK
  <2>5. Exclusive'
    <3> SUFFICES ASSUME NEW a \in Container, NEW b \in Container, a # b,
                        DatabaseOf(a) = DatabaseOf(b)
                 PROVE  made'[a] \cap made'[b] = {}
      BY DEF Exclusive, DatabaseOf
    <3>1. made[a] \cap made[b] = {}
      BY DEF Exclusive
    <3>2. CASE a = c
      BY <3>1, <3>2, <2>2, <2>3, <1>1 DEF HeldByOther
    <3>3. CASE b = c
      BY <3>1, <3>3, <2>2, <2>3, <1>1 DEF HeldByOther
    <3> QED
      BY <3>1, <3>2, <3>3, <2>3
  <2>6. Progress'
    <3>1. schema[DatabaseOf(c)] = {}
      BY <1>2, <1>4, DatabaseTyped DEF SchemaAllOrNothing
    <3>2. Remaining(c) = {o} \cup Remaining(c)'
      BY <1>1, <2>2, Revision DEF Remaining
    <3>3. made'[c] \cup Remaining(c)' = Objects
      BY <3>1, <3>2, <2>2, <1>1 DEF Progress
    <3> QED
      BY <3>1, <3>3, <2>1, <2>3 DEF Progress, Remaining, DatabaseOf
  <2> QED
    BY <2>1, <2>4, <2>5, <2>6 DEF SchemaAllOrNothing, Migrated, Duplicates, DatabaseOf
<1> QED
  BY <1>3, <1>4

\* An upgrade that is at its end holds all of the revision or nothing.
LEMMA EndHoldsAllOrNothing ==
  ASSUME IInv, NEW c \in Container, pc[c] = "migrating", next[c] = Done
  PROVE  IF schema[DatabaseOf(c)] = {} THEN made[c] = Objects ELSE made[c] = {}
<1>1. Remaining(c) = {}
  BY Revision DEF Remaining
<1> QED
  BY <1>1 DEF IInv, Progress

\* The commit makes the whole revision visible, and the transactions that run
\* beside it hold nothing.
LEMMA CommitKeepsIInv ==
  ASSUME IInv, NEW c \in Container, CommitUpgrade(c)
  PROVE  IInv'
<1> USE DEF IInv
<1> DEFINE d == DatabaseOf(c)
<1>1. /\ pc[c] = "migrating" /\ next[c] = Done
      /\ schema' = [schema EXCEPT ![d] = @ \cup made[c]]
      /\ made' = [made EXCEPT ![c] = {}]
      /\ pc' = [pc EXCEPT ![c] = "committed"]
      /\ UNCHANGED <<up, next, reason, starts, crashes>>
  BY DEF CommitUpgrade
<1>2. d \in Database /\ schema[d] \in {{}, Objects} /\ Objects # {}
  BY DatabaseTyped, Revision DEF SchemaAllOrNothing
<1>3. IF schema[d] = {} THEN made[c] = Objects ELSE made[c] = {}
  BY <1>1, EndHoldsAllOrNothing
<1>4. schema'[d] = Objects /\ schema' \in [Database -> SUBSET Objects]
  BY <1>1, <1>2, <1>3 DEF StartupTypeOK
<1>5. \A e \in Database : e # d => schema'[e] = schema[e]
  BY <1>1 DEF StartupTypeOK
<1>6. pc'[c] = "committed" /\ made'[c] = {}
  BY <1>1 DEF StartupTypeOK
<1>7. \A b \in Container : b # c => pc'[b] = pc[b] /\ made'[b] = made[b]
  BY <1>1 DEF StartupTypeOK
<1>8. StartupTypeOK'
  BY <1>1, <1>4, <1>6, <1>7 DEF StartupTypeOK, Stages
<1>9. SchemaAllOrNothing'
  BY <1>4, <1>5 DEF SchemaAllOrNothing
<1>10. Exclusive'
  BY <1>6, <1>7 DEF Exclusive, DatabaseOf
<1>11. Progress'
  <2> SUFFICES ASSUME NEW b \in Container, pc'[b] = "migrating"
               PROVE  IF schema'[DatabaseOf(b)] = {}
                        THEN made'[b] \cup Remaining(b)' = Objects
                        ELSE made'[b] = {}
    BY DEF Progress, DatabaseOf
  <2>1. b # c /\ pc[b] = "migrating" /\ made'[b] = made[b] /\ next'[b] = next[b]
    BY <1>1, <1>6, <1>7
  <2>2. CASE DatabaseOf(b) # d
    BY <2>1, <2>2, <1>5, DatabaseTyped DEF Progress, Remaining
  <2>3. CASE DatabaseOf(b) = d
    <3>1. made[b] \subseteq Objects /\ made[b] \cap made[c] = {}
      BY <2>1, <2>3 DEF StartupTypeOK, Exclusive
    <3>2. made[b] = {}
      BY <3>1, <2>1, <2>3, <1>3 DEF Progress
    <3> QED
      BY <3>2, <2>1, <2>3, <1>2, <1>4
  <2> QED
    BY <2>2, <2>3
<1>12. Migrated' /\ Duplicates'
  <2>1. \A b \in Container : schema[DatabaseOf(b)] = Objects => schema'[DatabaseOf(b)] = Objects
    BY <1>4, <1>5, DatabaseTyped
  <2> QED
    BY <2>1, <1>1, <1>4, <1>6, <1>7 DEF Migrated, Duplicates, DatabaseOf
<1> QED
  BY <1>8, <1>9, <1>10, <1>11, <1>12

\* A crash of the database: a commit under way counts or does not.
LEMMA CrashKeepsIInv ==
  ASSUME IInv, NEW d \in Database, CrashDatabase(d)
  PROVE  IInv'
<1> USE DEF IInv
<1> DEFINE talking == {c \in Container :
             DatabaseOf(c) = d /\ pc[c] \in {"reading", "checking", "migrating"}}
           ending == {c \in talking : pc[c] = "migrating" /\ next[c] = Done}
<1>1. PICK done \in SUBSET ending :
        /\ schema' = [schema EXCEPT ![d] = @ \cup UNION {made[c] : c \in done}]
        /\ Exit(talking, "connection")
        /\ up' = up \ {d} /\ crashes < MaxCrashes /\ crashes' = crashes + 1 /\ UNCHANGED starts
  BY DEF CrashDatabase
<1>2. Objects # {} /\ schema[d] \in {{}, Objects}
  BY Revision DEF SchemaAllOrNothing
<1>3. \A c \in done : IF schema[d] = {} THEN made[c] = Objects ELSE made[c] = {}
  BY EndHoldsAllOrNothing
<1>4. schema'[d] = schema[d] \/ (schema[d] = {} /\ schema'[d] = Objects)
  <2>1. schema'[d] = schema[d] \cup UNION {made[c] : c \in done}
    BY <1>1 DEF StartupTypeOK
  <2>2. CASE schema[d] # {}
    BY <2>1, <2>2, <1>3
  <2>3. CASE schema[d] = {} /\ done = {}
    BY <2>1, <2>3
  <2>4. CASE schema[d] = {} /\ done # {}
    BY <2>1, <2>4, <1>3
  <2> QED
    BY <2>2, <2>3, <2>4
<1>5. \A e \in Database : e # d => schema'[e] = schema[e]
  BY <1>1 DEF StartupTypeOK
<1>6. schema' \in [Database -> SUBSET Objects]
  BY <1>1, <1>2, <1>4, <1>5 DEF StartupTypeOK
<1>7. \A c \in Container :
        IF c \in talking
          THEN pc'[c] = "exited" /\ made'[c] = {} /\ reason'[c] = "connection"
          ELSE pc'[c] = pc[c] /\ made'[c] = made[c] /\ reason'[c] = reason[c] /\ next'[c] = next[c]
  BY <1>1 DEF Exit
<1>8. StartupTypeOK'
  <2>1. /\ pc' \in [Container -> Stages]
        /\ next' \in [Container -> 1..Done]
        /\ made' \in [Container -> SUBSET Objects]
        /\ reason' \in [Container -> Reasons]
    BY <1>1, Revision DEF StartupTypeOK, Exit, Stages, Reasons
  <2>2. up' \subseteq Database /\ crashes' \in 0..MaxCrashes
    BY <1>1, StartupAssumption DEF StartupTypeOK
  <2> QED
    BY <2>1, <2>2, <1>1, <1>6, <1>7 DEF StartupTypeOK
<1>9. SchemaAllOrNothing'
  BY <1>4, <1>5 DEF SchemaAllOrNothing
<1>10. Exclusive'
  BY <1>7 DEF Exclusive, DatabaseOf
<1>11. Progress'
  <2> SUFFICES ASSUME NEW b \in Container, pc'[b] = "migrating"
               PROVE  IF schema'[DatabaseOf(b)] = {}
                        THEN made'[b] \cup Remaining(b)' = Objects
                        ELSE made'[b] = {}
    BY DEF Progress, DatabaseOf
  <2>1. b \notin talking
    BY <1>7
  <2>2. DatabaseOf(b) # d
    BY <2>1, <1>7
  <2> QED
    BY <2>1, <2>2, <1>5, <1>7, DatabaseTyped DEF Progress, Remaining
<1>12. Migrated' /\ Duplicates'
  <2>1. \A b \in Container : schema[DatabaseOf(b)] = Objects => schema'[DatabaseOf(b)] = Objects
    BY <1>2, <1>4, <1>5, DatabaseTyped
  <2> QED
    BY <2>1, <1>7 DEF Migrated, Duplicates, DatabaseOf
<1> QED
  BY <1>8, <1>9, <1>10, <1>11, <1>12

LEMMA StepIInv == IInv /\ [Next]_vars => IInv'
<1> SUFFICES ASSUME IInv, [Next]_vars PROVE IInv'
  OBVIOUS
<1> USE DEF IInv
<1>1. ASSUME NEW c \in Container, Start(c) PROVE IInv'
  <2>1. made[c] = {} /\ next[c] \in 1..Done /\ starts' \in [Container -> 0..MaxStarts]
    BY <1>1, StartupAssumption DEF Start, StartupTypeOK
  <2>2. next' = [next EXCEPT ![c] = next[c]]
    BY <1>1 DEF Start, StartupTypeOK
  <2> QED
    BY <1>1, <2>1, <2>2, QuietKeepsIInv DEF Start, Stages
<1>2. ASSUME NEW c \in Container, Connect(c) PROVE IInv'
  <2>1. CASE DatabaseOf(c) \in up
    <3>1. made[c] = {} /\ next[c] \in 1..Done /\ starts' \in [Container -> 0..MaxStarts]
      BY <1>2 DEF Connect, StartupTypeOK
    <3>2. next' = [next EXCEPT ![c] = next[c]]
      BY <1>2, <2>1 DEF Connect, StartupTypeOK
    <3> QED
      BY <1>2, <2>1, <3>1, <3>2, QuietKeepsIInv DEF Connect, Stages
  <2>2. CASE DatabaseOf(c) \notin up
    BY <1>2, <2>2, ExitKeepsIInv DEF Connect, StartupTypeOK
  <2> QED
    BY <2>1, <2>2
<1>3. ASSUME NEW c \in Container, ReadHead(c) PROVE IInv'
  <2>1. made[c] = {} /\ next[c] \in 1..Done /\ starts' \in [Container -> 0..MaxStarts]
    BY <1>3 DEF ReadHead, StartupTypeOK
  <2>2. next' = [next EXCEPT ![c] = next[c]]
    BY <1>3 DEF ReadHead, StartupTypeOK
  <2>3. CASE "head" \in schema[DatabaseOf(c)]
    BY <1>3, <2>1, <2>2, <2>3, QuietKeepsIInv DEF ReadHead, Stages
  <2>4. CASE "head" \notin schema[DatabaseOf(c)]
    BY <1>3, <2>1, <2>2, <2>4, QuietKeepsIInv DEF ReadHead, Stages
  <2> QED
    BY <2>3, <2>4
<1>4. ASSUME NEW c \in Container, CheckVersionTable(c) PROVE IInv'
  <2>1. made[c] = {} /\ starts' \in [Container -> 0..MaxStarts] /\ {1, 2} \subseteq 1..Done
    BY <1>4, Revision DEF CheckVersionTable, StartupTypeOK
  <2>2. CASE "alembic_version" \in schema[DatabaseOf(c)]
    BY <1>4, <2>1, <2>2, QuietKeepsIInv DEF CheckVersionTable, Stages
  <2>3. CASE "alembic_version" \notin schema[DatabaseOf(c)]
    BY <1>4, <2>1, <2>3, QuietKeepsIInv DEF CheckVersionTable, Stages
  <2> QED
    BY <2>2, <2>3
<1>5. ASSUME NEW c \in Container, Launch(c) PROVE IInv'
  <2>1. made[c] = {} /\ next[c] \in 1..Done /\ starts' \in [Container -> 0..MaxStarts]
    BY <1>5 DEF Launch, StartupTypeOK
  <2>2. next' = [next EXCEPT ![c] = next[c]]
    BY <1>5 DEF Launch, StartupTypeOK
  <2>3. schema[DatabaseOf(c)] = Objects
    BY <1>5 DEF Launch, Migrated
  <2> QED
    BY <1>5, <2>1, <2>2, <2>3, QuietKeepsIInv DEF Launch, Stages
<1>6. ASSUME NEW c \in Container, Kill(c) PROVE IInv'
  <2>1. Done \in 1..Done /\ starts' \in [Container -> 0..MaxStarts]
    BY <1>6, Revision DEF Kill, StartupTypeOK
  <2> QED
    BY <1>6, <2>1, QuietKeepsIInv DEF Kill, Stages
<1>7. ASSUME NEW d \in Database, StartDatabase(d) PROVE IInv'
  BY <1>7, StartupAssumption
     DEF StartDatabase, StartupTypeOK, SchemaAllOrNothing, Exclusive, Progress, Remaining,
         Migrated, Duplicates, DatabaseOf
<1>8. CASE UNCHANGED vars
  BY <1>8 DEF vars, StartupTypeOK, SchemaAllOrNothing, Exclusive, Progress, Remaining,
              Migrated, Duplicates, DatabaseOf
<1> QED
  BY <1>1, <1>2, <1>3, <1>4, <1>5, <1>6, <1>7, <1>8,
     CreateKeepsIInv, CommitKeepsIInv, CrashKeepsIInv
     DEF Next, Entrypoint, Settled

-----------------------------------------------------------------------------

\* The inductive invariant holds however many containers start, die and start
\* again on however many databases.
THEOREM StartupInvariant == Spec => []IInv
BY InitIInv, StepIInv, PTL DEF Spec

\* Type correctness: only a running upgrade holds uncommitted objects
\* (migrations/env.py:33-34).
THEOREM StartupTypeCorrect == Spec => []StartupTypeOK
<1>1. IInv => StartupTypeOK
  BY DEF IInv
<1> QED
  BY <1>1, StartupInvariant, PTL

\* The revision is committed whole or not at all (env.py:33-34).
THEOREM RevisionAtomic == Spec => []SchemaAllOrNothing
<1>1. IInv => SchemaAllOrNothing
  BY DEF IInv
<1> QED
  BY <1>1, StartupInvariant, PTL

\* Nobody serves without the schema (docker-entrypoint.sh:5-11).
THEOREM ServedSchema == Spec => []ServesOnSchema
<1>1. IInv => ServesOnSchema
  BY DEF IInv, Migrated, ServesOnSchema
<1> QED
  BY <1>1, StartupInvariant, PTL

\* The losers of a race of upgrades can simply be started again.
THEOREM LosersCanRestart == Spec => []LoserFindsSchema
<1>1. IInv => LoserFindsSchema
  BY DEF IInv, Duplicates, LoserFindsSchema
<1> QED
  BY <1>1, StartupInvariant, PTL

-----------------------------------------------------------------------------
\* Coming up.

\* Every environment names the variable that the settings read, as .env.example
\* does (app/config.py:5-6).
EnvNamesSettings == \A c \in Container : SettingsVariable \in DOMAIN Env[c]

\* Until the first crash every server answers, a container that looks for its
\* database was started when it did, and no upgrade has lost its connection.
Undisturbed ==
  crashes = 0 =>
    /\ up = Running
    /\ \A c \in Container : pc[c] = "connecting" => DatabaseOf(c) \in Running
    /\ \A c \in Container : pc[c] = "exited" => reason[c] = "duplicate"

LEMMA UndisturbedStep ==
  ASSUME EnvNamesSettings, StartupTypeOK, Undisturbed, [Next]_vars
  PROVE  Undisturbed'
<1> SUFFICES ASSUME crashes' = 0
             PROVE  /\ up' = Running
                    /\ \A c \in Container : pc'[c] = "connecting" => DatabaseOf(c) \in Running
                    /\ \A c \in Container : pc'[c] = "exited" => reason'[c] = "duplicate"
  BY DEF Undisturbed, DatabaseOf
<1>1. \A d \in Database : ~ CrashDatabase(d)
  BY StartupAssumption DEF CrashDatabase, StartupTypeOK
<1>2. crashes' = crashes
  BY <1>1 DEF Next, Entrypoint, Start, Connect, ReadHead, CheckVersionTable, Create,
     CommitUpgrade, Launch, Kill, StartDatabase, Settled, vars
<1>3. /\ up = Running
      /\ \A c \in Container : pc[c] = "connecting" => DatabaseOf(c) \in Running
      /\ \A c \in Container : pc[c] = "exited" => reason[c] = "duplicate"
  BY <1>2 DEF Undisturbed
<1>4. ASSUME NEW c \in Container, Start(c)
      PROVE  /\ DatabaseOf(c) \in Running
             /\ pc' = [pc EXCEPT ![c] = "connecting"]
             /\ reason' = [reason EXCEPT ![c] = "none"] /\ up' = up
  BY <1>3, <1>4 DEF EnvNamesSettings, Start, Named, DatabaseOf
<1>5. CASE \E c \in Container : Start(c)
  BY <1>3, <1>4, <1>5 DEF StartupTypeOK
<1>6. ASSUME NEW c \in Container, Connect(c)
      PROVE  pc' = [pc EXCEPT ![c] = "reading"] /\ reason' = reason /\ up' = up
  BY <1>3, <1>6 DEF Connect
<1>7. CASE \E c \in Container : Connect(c)
  BY <1>3, <1>6, <1>7 DEF StartupTypeOK
<1>8. ASSUME NEW c \in Container, Create(c)
      PROVE  up' = up /\ (Exit({c}, "duplicate") \/ UNCHANGED <<pc, reason>>)
  BY <1>8 DEF Create
<1>9. CASE \E c \in Container : Create(c)
  BY <1>3, <1>8, <1>9 DEF Exit
<1>10. CASE \E c \in Container :
              ReadHead(c) \/ CheckVersionTable(c) \/ CommitUpgrade(c) \/ Launch(c) \/ Kill(c)
  BY <1>3, <1>10
  DEF ReadHead, CheckVersionTable, CommitUpgrade, Launch, Kill, StartupTypeOK
<1>11. CASE (\E d \in Database : StartDatabase(d)) \/ Settled \/ UNCHANGED vars
  BY <1>3, <1>11 DEF StartDatabase, Settled, vars
<1> QED BY <1>1, <1>5, <1>7, <1>9, <1>10, <1>11 DEF Next, Entrypoint

\* Where the environment names the variable that the settings read, a container
\* started beside a healthy database comes up, or loses a race of upgrades and
\* comes up when it is started again: for any number of containers, as long as
\* no database crashes.
THEOREM ContainerComesUp ==
  ASSUME EnvNamesSettings
  PROVE  Spec => []ComesUp
<1>1. Init => Undisturbed
  BY DEF Init, Undisturbed
<1>2. IInv /\ Undisturbed /\ [Next]_vars => Undisturbed'
  BY UndisturbedStep, EnvNamesSettings DEF IInv
<1>3. Undisturbed => ComesUp
  BY DEF Undisturbed, ComesUp
<1> QED
  BY <1>1, <1>2, <1>3, StartupInvariant, PTL DEF Spec

-----------------------------------------------------------------------------
\* Why every start is over some time, as far as it can be said without fairness.

\* The container's next step waits for nobody.
CanGo(c) ==
  \/ pc[c] \in {"connecting", "reading", "checking", "committed"}
  \/ pc[c] = "migrating" /\ (next[c] = Done \/ ~ HeldByOther(c, Upgrade[next[c]]))

\* An upgrade that has made something has made alembic's own table.
Begun == \A c \in Container : made[c] # {} => next[c] > 1

\* A container waits for nobody but the one upgrade of its database that has
\* begun, and that one can go on.
UpgradesQueue ==
  \A c \in Container : pc[c] \in {"connecting", "reading", "checking", "migrating", "committed"} =>
    \/ CanGo(c)
    \/ \E b \in Container \ {c} : DatabaseOf(b) = DatabaseOf(c) /\ made[b] # {} /\ CanGo(b)

LEMMA BegunStep ==
  ASSUME IInv, Begun, [Next]_vars
  PROVE  Begun'
<1>1. ASSUME NEW who \in SUBSET Container, NEW why, Exit(who, why)
      PROVE  Begun'
  BY <1>1 DEF Begun, Exit
<1>2. ASSUME NEW c \in Container, Start(c) \/ ReadHead(c) \/ Launch(c) PROVE Begun'
  BY <1>2 DEF Start, ReadHead, Launch, Begun
<1>3. ASSUME NEW c \in Container, Connect(c) PROVE Begun'
  BY <1>1, <1>3 DEF Connect, Begun
<1>4. ASSUME NEW c \in Container, CheckVersionTable(c) PROVE Begun'
  <2>1. made[c] = {}
    BY <1>4 DEF CheckVersionTable, IInv, StartupTypeOK
  <2> QED BY <1>4, <2>1 DEF CheckVersionTable, Begun, IInv, StartupTypeOK
<1>5. ASSUME NEW c \in Container, Create(c) PROVE Begun'
  <2>1. CASE Upgrade[next[c]] \in schema[DatabaseOf(c)]
    BY <1>1, <1>5, <2>1 DEF Create
  <2>2. CASE Upgrade[next[c]] \notin schema[DatabaseOf(c)]
    <3>1. next' = [next EXCEPT ![c] = next[c] + 1] /\ next[c] \in 1..Done
          /\ \A b \in Container \ {c} : made'[b] = made[b]
      BY <1>5, <2>2 DEF Create, IInv, StartupTypeOK
    <3>2. next'[c] > 1 /\ \A b \in Container \ {c} : next'[b] = next[b]
      BY <3>1, Revision DEF IInv, StartupTypeOK
    <3> QED BY <3>1, <3>2 DEF Begun
  <2> QED BY <2>1, <2>2
<1>6. ASSUME NEW c \in Container, CommitUpgrade(c) \/ Kill(c) PROVE Begun'
  BY <1>6 DEF CommitUpgrade, Kill, Begun, IInv, StartupTypeOK
<1>7. ASSUME NEW d \in Database, CrashDatabase(d) PROVE Begun'
  BY <1>1, <1>7 DEF CrashDatabase
<1>8. ASSUME NEW d \in Database, StartDatabase(d) PROVE Begun'
  BY <1>8 DEF StartDatabase, Begun
<1>9. CASE UNCHANGED vars
  BY <1>9 DEF Begun, vars
<1> QED BY <1>2, <1>3, <1>4, <1>5, <1>6, <1>7, <1>8, <1>9 DEF Next, Entrypoint, Settled

\* Of two upgrades of a database that have not committed only one has begun: it
\* holds the table that both would make first.
LEMMA OneHasBegun ==
  ASSUME IInv, Begun, NEW b \in Container, made[b] # {},
         NEW c \in Container \ {b}, DatabaseOf(b) = DatabaseOf(c)
  PROVE  made[c] = {}
<1>1. ASSUME NEW e \in Container, made[e] # {}
      PROVE  Upgrade[1] \in made[e]
  <2>1. pc[e] = "migrating" /\ next[e] \in 1..Done /\ next[e] > 1
    BY <1>1 DEF IInv, StartupTypeOK, Begun
  <2>2. schema[DatabaseOf(e)] = {} /\ made[e] \cup Remaining(e) = Objects
    BY <1>1, <2>1 DEF IInv, Progress
  <2>3. Upgrade[1] \notin Remaining(e)
    <3>1. \A i \in 2..7 : Upgrade[i] # Upgrade[1]
      BY DEF Upgrade
    <3>2. next[e]..Len(Upgrade) \subseteq 2..7
      BY <2>1, Revision
    <3> QED BY <3>1, <3>2 DEF Remaining
  <2>4. Upgrade[1] \in Objects
    BY Revision
  <2> QED BY <2>2, <2>3, <2>4
<1> QED BY <1>1 DEF IInv, Exclusive

LEMMA QueueMoves == IInv /\ Begun => UpgradesQueue
<1> SUFFICES ASSUME IInv, Begun, NEW c \in Container, pc[c] = "migrating", ~ CanGo(c)
             PROVE  \E b \in Container \ {c} :
                      DatabaseOf(b) = DatabaseOf(c) /\ made[b] # {} /\ CanGo(b)
  BY DEF UpgradesQueue, CanGo
<1>1. PICK b \in Container \ {c} :
        DatabaseOf(b) = DatabaseOf(c) /\ Upgrade[next[c]] \in made[b]
  BY DEF CanGo, HeldByOther
<1>2. pc[b] = "migrating"
  BY <1>1 DEF IInv, StartupTypeOK
<1>3. ~ HeldByOther(b, Upgrade[next[b]])
  BY <1>1, OneHasBegun DEF HeldByOther
<1> QED BY <1>1, <1>2, <1>3 DEF CanGo

\* No start waits for ever: of the upgrades of a database at most one has made
\* anything, that one can go on, and nobody waits for another
\* (migrations/versions/20260523_0001_initial_lineage_edge.py:19-48,
\* docker-entrypoint.sh:7; Startup.tla, StartsEnd).
THEOREM UpgradesNeverDeadlock == Spec => []UpgradesQueue
<1>1. Init => Begun
  BY DEF Init, Begun
<1>2. IInv /\ Begun /\ [Next]_vars => Begun'
  BY BegunStep
<1> QED BY <1>1, <1>2, QueueMoves, StartupInvariant, PTL DEF Spec

\* Steps that are left of a start, at most: at most one for each object of the
\* revision, and five around them.
StepsLeft(c) ==
  CASE pc[c] = "connecting" -> Done + 4
    [] pc[c] = "reading"    -> Done + 3
    [] pc[c] = "checking"   -> Done + 2
    [] pc[c] = "migrating"  -> Done - next[c] + 2
    [] pc[c] = "committed"  -> 1
    [] OTHER                -> 0

\* The entrypoint uses them up, and only another start gives new ones.
StartsRunOut ==
  [][\A c \in Container :
       /\ StepsLeft(c) \in 0..(Done + 4) /\ StepsLeft(c)' \in 0..(Done + 4)
       /\ Entrypoint(c) => StepsLeft(c)' < StepsLeft(c)
       /\ ~ Start(c) => StepsLeft(c)' <= StepsLeft(c)]_vars

LEMMA StepsBounded ==
  ASSUME IInv, NEW c \in Container
  PROVE  StepsLeft(c) \in 0..(Done + 4)
<1>1. next[c] \in 1..Done /\ Done = 8
  BY Revision DEF IInv, StartupTypeOK
<1> QED BY <1>1 DEF StepsLeft

\* A step of the entrypoint brings it forward.
LEMMA EntrypointCosts ==
  ASSUME IInv, NEW c \in Container, Entrypoint(c)
  PROVE  StepsLeft(c)' < StepsLeft(c)
<1>1. /\ pc \in [Container -> Stages] /\ next \in [Container -> 1..Done] /\ Done = 8
      /\ next[c] \in 1..Done
  BY Revision DEF IInv, StartupTypeOK
<1>2. ASSUME NEW why, Exit({c}, why) PROVE StepsLeft(c)' = 0
  <2>1. pc'[c] = "exited"
    BY <1>2 DEF Exit
  <2> QED BY <2>1 DEF StepsLeft
<1>3. CASE Connect(c)
  <2>1. pc[c] = "connecting" /\ (pc'[c] = "reading" \/ Exit({c}, "connection"))
    BY <1>1, <1>3 DEF Connect
  <2> QED BY <1>1, <1>2, <2>1 DEF StepsLeft
<1>4. CASE ReadHead(c)
  <2>1. pc[c] = "reading" /\ pc'[c] \in {"migrating", "checking"} /\ next'[c] = next[c]
    BY <1>1, <1>4 DEF ReadHead
  <2> QED BY <1>1, <2>1 DEF StepsLeft
<1>5. CASE CheckVersionTable(c)
  <2>1. pc[c] = "checking" /\ pc'[c] = "migrating" /\ next'[c] \in {1, 2}
    BY <1>1, <1>5 DEF CheckVersionTable
  <2> QED BY <1>1, <2>1 DEF StepsLeft
<1>6. CASE Create(c)
  <2>1. /\ pc[c] = "migrating" /\ next[c] < Done
        /\ \/ Exit({c}, "duplicate")
           \/ pc' = pc /\ next' = [next EXCEPT ![c] = next[c] + 1]
    BY <1>6 DEF Create
  <2>2. CASE Exit({c}, "duplicate")
    BY <1>1, <1>2, <2>1, <2>2 DEF StepsLeft
  <2>3. CASE pc' = pc /\ next' = [next EXCEPT ![c] = next[c] + 1]
    <3>1. next'[c] = next[c] + 1 /\ pc'[c] = "migrating"
      BY <1>1, <2>1, <2>3
    <3> QED BY <1>1, <2>1, <3>1 DEF StepsLeft
  <2> QED BY <2>1, <2>2, <2>3
<1>7. CASE CommitUpgrade(c)
  <2>1. pc[c] = "migrating" /\ next[c] = Done /\ pc'[c] = "committed"
    BY <1>1, <1>7 DEF CommitUpgrade
  <2> QED BY <1>1, <2>1 DEF StepsLeft
<1>8. CASE Launch(c)
  <2>1. pc[c] = "committed" /\ pc'[c] = "serving"
    BY <1>1, <1>8 DEF Launch
  <2> QED BY <2>1 DEF StepsLeft
<1> QED BY <1>3, <1>4, <1>5, <1>6, <1>7, <1>8 DEF Entrypoint

\* Nobody else gives a container a step: it goes on as it was or is ended.
LEMMA OthersTakeSteps ==
  ASSUME IInv, Next, NEW c \in Container, ~ Entrypoint(c), ~ Start(c)
  PROVE  StepsLeft(c)' <= StepsLeft(c)
<1>1. \/ pc'[c] = pc[c] /\ next'[c] = next[c]
      \/ pc'[c] \in {"down", "exited"}
  <2>1. pc \in [Container -> Stages] /\ next \in [Container -> 1..Done]
    BY DEF IInv, StartupTypeOK
  <2>2. ASSUME NEW who \in SUBSET Container, NEW why, Exit(who, why)
        PROVE  (pc'[c] = pc[c] /\ next'[c] = next[c]) \/ pc'[c] \in {"down", "exited"}
    BY <2>2 DEF Exit
  <2>3. ASSUME NEW b \in Container, b # c, Start(b) \/ ReadHead(b) \/ CheckVersionTable(b)
                                           \/ CommitUpgrade(b) \/ Launch(b)
        PROVE  pc'[c] = pc[c] /\ next'[c] = next[c]
    BY <2>1, <2>3 DEF Start, ReadHead, CheckVersionTable, CommitUpgrade, Launch
  <2>4. ASSUME NEW b \in Container, b # c, Connect(b) \/ Create(b)
        PROVE  (pc'[c] = pc[c] /\ next'[c] = next[c]) \/ pc'[c] \in {"down", "exited"}
    BY <2>1, <2>2, <2>4 DEF Connect, Create
  <2>5. ASSUME NEW b \in Container, Kill(b)
        PROVE  (pc'[c] = pc[c] /\ next'[c] = next[c]) \/ pc'[c] \in {"down", "exited"}
    BY <2>1, <2>5 DEF Kill
  <2>6. ASSUME NEW d \in Database, CrashDatabase(d) \/ StartDatabase(d)
        PROVE  (pc'[c] = pc[c] /\ next'[c] = next[c]) \/ pc'[c] \in {"down", "exited"}
    BY <2>2, <2>6 DEF CrashDatabase, StartDatabase
  <2>7. CASE Settled
    BY <2>7 DEF Settled, vars
  <2> QED BY <2>3, <2>4, <2>5, <2>6, <2>7 DEF Next, Entrypoint
<1>2. StepsLeft(c) \in 0..(Done + 4) /\ Done = 8
  BY StepsBounded, Revision
<1>3. StepsLeft(c)' = StepsLeft(c) \/ StepsLeft(c)' = 0
  BY <1>1 DEF StepsLeft
<1> QED BY <1>2, <1>3

\* A start is over after at most twelve steps of the entrypoint, whatever the
\* other containers, kills and crashes do; with UpgradesNeverDeadlock: it is over
\* if processes go on that can (docker-entrypoint.sh:5-11; Startup.tla, StartsEnd).
THEOREM EntrypointsRunOut == Spec => StartsRunOut
<1> DEFINE Uses(c) ==
       /\ StepsLeft(c) \in 0..(Done + 4) /\ StepsLeft(c)' \in 0..(Done + 4)
       /\ Entrypoint(c) => StepsLeft(c)' < StepsLeft(c)
       /\ ~ Start(c) => StepsLeft(c)' <= StepsLeft(c)
<1>1. IInv => \A c \in Container : StepsLeft(c) \in 0..(Done + 4)
  BY StepsBounded
<1>2. Spec => [](\A c \in Container : StepsLeft(c) \in 0..(Done + 4))
  BY <1>1, StartupInvariant, PTL
<1>3. /\ IInv /\ [Next]_vars
      /\ \A c \in Container : StepsLeft(c) \in 0..(Done + 4)
      /\ (\A c \in Container : StepsLeft(c) \in 0..(Done + 4))'
      => [\A c \in Container : Uses(c)]_vars
  <2> SUFFICES ASSUME IInv, Next, NEW c \in Container,
                      StepsLeft(c) \in 0..(Done + 4), StepsLeft(c)' \in 0..(Done + 4)
               PROVE  /\ Entrypoint(c) => StepsLeft(c)' < StepsLeft(c)
                      /\ ~ Start(c) => StepsLeft(c)' <= StepsLeft(c)
    OBVIOUS
  <2>1. Done = 8
    BY Revision
  <2>2. Entrypoint(c) => StepsLeft(c)' < StepsLeft(c)
    BY EntrypointCosts
  <2>3. ~ Entrypoint(c) /\ ~ Start(c) => StepsLeft(c)' <= StepsLeft(c)
    BY OthersTakeSteps
  <2>4. \A a, b \in 0..12 : a < b => a <= b
    OBVIOUS
  <2> QED BY <2>1, <2>2, <2>3, <2>4
<1> QED BY <1>2, <1>3, StartupInvariant, PTL DEF Spec, StartsRunOut

=============================================================================
