# Verification of data-lineage

TLA+ models of the `data-lineage` service, the model-checking runs that examine
them and the theorems proved about them: which rows are stored for which
OpenLineage events, what a producer may rely on when it is answered, what a
reader sees while producers write, what the graph explorer shows, how the
service starts, waits and recovers, and what its loader and its comparison with
Marquez may conclude.

## 1. Inventory

| Part | State | Operations | What is hard about it |
| --- | --- | --- | --- |
| translator (`app/translator.py`) | none | `translate`, `_dedupe` | which of several equal edges survives; nulls and missing fields; colliding URNs |
| ingest endpoints (`app/main.py`, `app/schemas.py`) | the handler's locals | `POST /lineage`, `POST /lineage:batch` | retries of calls that may have landed; one bad event in a batch |
| repository, write path (`app/repository.py`) | the open transaction | `upsert_edges` | races on a primary key, row-lock order, chunks, COMMIT in doubt |
| edge table (`app/models.py`, `migrations/`) | `lineage_edge` | insert, update; no delete | attributes and timestamps under overlapping upserts |
| read path (`app/repository.py`, `app/main.py`) | running statement | `direct_neighbors`, `traverse` | two statements see two tables; cycles; the depth bound |
| discovery (`app/routes_ui.py`) | none | `list_namespaces`, `search_nodes` | the namespace filter reads an attribute that other producers overwrite; LIKE patterns; limits |
| graph explorer (`app/static/app.js`) | fields, list, `currentNode`, timer, graph | typing, picking, tapping, replies | replies in any order, nothing cancelled, `currentNode` read before and after a fetch |
| sessions and pool (`app/db.py`) | open connections | `get_session` | a bounded pool shared by writers that wait for locks and by readers; connections from before a restart |
| start-up (`docker-entrypoint.sh`, `migrations/`, `app/config.py`) | schema version | migrate, serve | concurrent starts, a crash in the middle of the upgrade, which database is meant |
| loader (`benchmark/fixtures/generate.py`) | windows of futures, counters | `load`, `load_batch` | partial failure without retry; an exception in the middle of a window |
| hard tests (`benchmark/hard_tests/`, `benchmark/recovery_test.sh`) | a background writer, a verdict | kill, restart, poll, judge | `/health` does not ask the database; the writer's end is ignored |
| diff harness (`benchmark/diff_harness.py`) | counters, report | sample, compare | three reads of two backends that move on meanwhile |
| k6 scenarios, dashboards, `scripts/` | none | | |

How they interact: producers (the DTS workers, the loader) call the ingest
endpoints and repeat a call that was not acknowledged. A handler takes a
connection from the pool, translates, removes duplicates and runs one
transaction against PostgreSQL. Readers run statements against the same table,
each over the table of its own moment. The explorer is one more reader, over
HTTP, whose replies come in any order. The entrypoint must have migrated the
table before uvicorn serves any of it. `PROJECT.json` lists every hazard with
its line and the properties that cover it.

## 2. Modules

```
Translator <-- Calls <-- Ingest ---implements---> EdgeStore
    ^                       ^                      ^     ^
    |                  IngestProofs     writers of |     | writers of
DiffHarness                                      Reads  Discovery
    ^                                              ^     ^
DiffHarnessProofs                       ReadsProofs     DiscoveryProofs

ExplorerUI     Startup         Pool         Loader <-- Chaos <-- LoaderProofs
    ^             ^              ^
ExplorerUIProofs  StartupProofs  PoolProofs
```

| Module | Models | State and actions |
| --- | --- | --- |
| `Translator` | `translator.py`, and the batch loop of `ingest_batch` | No state. A URN is the sequence of its `/`-free segments, so two URNs are equal exactly when the f-strings are. The edges of a request are indexed by their place <<event, loop, input, output>>; the order of places is the order of the list, and `FirstInEvent`, `FirstInBatch` are the two deduplications. |
| `Calls` | the requests of a run, the rows of `lineage_edge` | No state. `Attempt` is a call and the number of the try; `Outgoing` what reaches `upsert_edges`. `Promises` is what the calls promise, read off their events without the translator's loops; it is the reference the service is compared with. |
| `EdgeStore` | the promise of the ingest API | `table`, `landed`, `acked`; `Land` is one atomic write of a whole call, `Acknowledge` comes after it. |
| `Ingest` | `main.py`, `upsert_edges`, PostgreSQL as far as the code relies on it | `pc` is the stage of each attempt's handler, `todo` and `stmt` the edges not sent and not yet inserted, `pend` the row versions (and locks) of its open transaction, `table` what is committed. One action per step: `Post`, `Reject`, `FailToTranslate`, `NothingToWrite`, `Translate`, `Send` (one chunk), `InsertRow` (one row, waits for the key's lock), `Commit`, `Reply`, `Deadlock`, `LoseDatabase`, `LoseWorker`. |
| `Reads` | `direct_neighbors`, `traverse`, their endpoints | A request is a plan of one or two statements. `Start` takes the snapshot and evaluates the seeds, `Extend` is one round of the recursive CTE, `Return` is the SELECT DISTINCT; `Merged` is the Python loop of "both". The writers are `EdgeStore`'s: since `Ingest` implements it, what holds here holds beside the service. |
| `Discovery` | `list_namespaces`, `search_nodes` | `Ask` validates, `Select` is the one SELECT, `Fail` a lost connection, between writes of `EdgeStore`. LIKE is a pattern match on the characters of a URN (`Like`), `First` is ORDER BY ... LIMIT, `Hits` the UNION of both columns. |
| `ExplorerUI` | `app.js` | `NamespacesArrive` fills the dropdown; `Type`, `PickNamespace`, `Click`, `Tap`, `Adjust` are the event handlers up to their fetch, `TimerFires` the debounced search, `SearchArrives`/`SearchFails`, `ViewArrives`/`ViewFails` the rest of a handler when its reply comes. |
| `Pool` | `get_session`, SQLAlchemy's QueuePool as `db.py` configures it | `up`, `run` (which run of the server a connection belongs to), `idle`, and per request its stage and connection; `owner` holds the one row lock the writers want. `CheckOut` pings and replaces a dead connection, `Open` uses the overflow, `Queue`/`TimeOut` wait, `Lock`, `Commit`, `Read`, `Refused`, `Broken` are what the request does; `Crash`/`Recover` are PostgreSQL's. |
| `Startup` | `docker-entrypoint.sh`, `env.py`, the revision, `config.py`, compose's health condition | Per container the stage of its entrypoint and what its open upgrade transaction has `made`; per database the committed `schema`. `Start`, `Connect`, `ReadHead`, `CheckVersionTable`, `Create` (one object, waits for another transaction that has made it), `CommitUpgrade`, `Launch`; `Kill`, `CrashDatabase`, `StartDatabase`. The upgrade is one transaction. |
| `Loader` | `load`, `load_batch` | `Submit` fills a window, `LastWindow`, `Collect`, `WindowDone`, `Abort` are the main thread; `Post`, `TimeOut` the pool's threads; `Land`, `Answer` the service, whose application and database go down and come up. |
| `Chaos` | one scenario of `chaos.sh`, the poll of `recovery_test.sh` | `Kill`, `UpAgain`, `Recovered`, `NotRecovered`, `Judge` around the steps of `Loader` (`Meanwhile`). |
| `DiffHarness` | `run`, `diff_one`, both adapters | The lines of the sample file and `--n` are part of the initial state; the sample is a set of line numbers, so that a node may be in it twice. Marquez has ids of its own (`MarquezId`). `Take` a line, `Upstream`, `Downstream` (the two SELECTs of `/direct`), `AskMarquez`, `Compare`, `HttpError`, `BadAnswer`, `Report`; `Deliver` brings an event to one backend. |
| `MC*` | | Small instances: events, calls, queries, a page, containers. `MCEvents` has the shorthands for events. |
| `*Proofs` | | The theorems. `IngestProofs` also has those about `Translator` and `Calls`, `LoaderProofs` those about `Chaos`. |

Actions take the whole handler segment between two awaits, since the event
loop cannot interleave anything within it. Statements are split into rows
because PostgreSQL does interleave them, and the order of row locks matters;
SELECTs are split into the rounds of the CTE, each over the snapshot taken at
its start. Operators named "Mutant of ..." are plausible mistakes in the
definition that follows them; each property is violated once one of them takes
the place of its definition.

## 3. Runs

| Run | Instance | Shows |
| --- | --- | --- |
| `ingest` | a batch of two overlapping events of different jobs and namespaces, and one of them alone; or a call without edges and one that cannot be translated; or a malformed one. 2 attempts each, chunks of 2 rows, 1 fault | `ImplementsEdgeStore`: the service is the atomic store, calls land in commit order. `DerivationWitnessed`, `RowsComeFromLandedCalls`: nothing half written or rolled back is visible. `AckedIsDurable`, `CountsAccurate`: a 201 tells the truth. `ErrorsHaveCauses`: without faults a well-formed call fails only where calls list shared rows in different orders. `CreatedAtStable`: the loser of an insert race keeps the winner's mark. `ScopedDiscoveryStable`: a node found in a namespace stays findable there. `EveryCallEnds`, deadlocks included. |
| `ingest_overlap` (violation) | two events that share edges but list their inputs differently, one statement per call, no fault | `NoClientErrors` fails: a deadlock, and a 500. |
| `reads` | two jobs that derive two datasets from one another, a third call that changes rows and adds a self-loop; every direction, depths on both sides of the bound | `StatementExact`: the walk is what chains of at most `depth` rows reach in its snapshot. `AnswerBetween`: an answer lies between the table at the request and the table at the answer. `OneRowPerKey`, `ReadYourWrites`, `EveryReadEnds` on a cycle. |
| `ui` | a page and up to five actions of a user who may or may not wait, failures included | `CurrentMatchesShown`, `LatestViewCoherent`: what holds for every order of replies. `BoxNamesCurrent`: the box names the node that a tap does not ask for, unless the newest request failed. `ListMatchesQuery`, `PatientViewCoherent`: what a user who waits may rely on besides. |
| `ui_stale_view` (violation) | same | `ViewCoherent` fails without the waiting: the counts of one node under the name of another. |
| `startup` | three containers, two of them on one database, started twice, one crash of a database, kills at any point | `SchemaAllOrNothing`, `ServesOnSchema`, `LoserFindsSchema`: the race is harmless. `ComesUp`, `StartsEnd`. |
| `startup_compose_env` (violation) | the variable the compose files set | `ComesUp` fails: the variable is not the one the settings read. |
| `pool` | two writers of one row, two readers, one connection and one of overflow, two crashes of PostgreSQL | `NoStaleFailure`: no connection from before a restart fails a later request. `TimeoutMeansBusy`: no connection is lost. `EveryRequestEnds`. |
| `discovery` | two jobs of two namespaces that write the same rows in turn, searches and listings with valid and invalid limits | `ScopeKeepsTenantsApart`, `AckedNodesFindable`, `ListedNamespaceSearchable`; `SubstringOnly` for words without wildcards. |
| `discovery_wildcards` (violation) | a word with `_` | `SubstringOnly` fails. |
| `chaos` | nine events in five calls, the last not full, two threads, windows of three calls; the application or the database is killed at any point and may never come back | `LoadedCounts`, `LoadedHonest`, `AbortLosesOneWindow`: what the loader's numbers mean. `WriterSurvivesDatabase`: an outage of the database does not end the load. `EveryLoadEnds`, `VerdictComes`. |
| `diff` | sample files that are empty, name a node twice, or hold URNs, Marquez's ids and a node that is both; `--n` of -1, 0 and 2; three events that reach each backend at any time, or never | `ZeroMeansCovered`: what exit 0 is worth. `AdapterExact`: what the adapter makes of any part of Marquez's graph. `DiffTypeOK`: the report's arithmetic. |

Bounds, and why they are enough:

- `MaxAttempts = 2`: an attempt that is overtaken by its own retry needs two;
  a third adds no new pair of transactions.
- `Chunk = 2` against calls of 3 and 7 rows: calls of one and of several
  statements, chunk boundaries inside an event and between events of a batch.
  `Chunk = 5` puts a call in one statement, as 5000 does for nearly all calls.
- `MaxFaults = 1`: one lost connection or worker at every point. Every fault
  ends its attempt.
- `Scenario` says which calls meet: those that never reach the database need
  not be interleaved with those that do.
- `MaxBatch = 2`, `MaxDepth = 3`, `MaxText = 2`, `MaxResults = 3`,
  `MaxNamespaces = 3`: the guards are compared on both sides of the bound.
- `MaxActs = 5`: type, click, and three more actions while their requests are in
  flight; two racing requests of a kind take three.
- `MaxStarts = 2`, `MaxCrashes = 1` (`startup`): a start next to another, one
  after it, and a database lost under either.
- `PoolSize = 1`, `MaxOverflow = 1`, `MaxCrashes = 2`: four requests for two
  connections; an idle connection can be older than the last restart, and
  than the one before.
- `Window = 3` of five calls: a full window and one that is not.
  `MaxOutages = 1` is the script's own kill: a scenario kills once. `Threshold`
  stands for the script's 100 rows. The script loads single events; here a call
  has two, so that the last one may be smaller than the others.
- `--n` of 2 of files of one to three lines: a file that is too short, one taken
  whole and one of which a line is left out. With 0 nothing is compared, and the
  run succeeds; a negative number raises.
- One reader or client: readers share nothing but the table.

Deadlock checking is on in every run; a state where nothing is under way and
the system waits for its users is a stuttering action (`Quiescent`, `Rest`,
`Settled`, `ChaosRest`). A ring of waiting transactions is not such a state:
`Deadlock` must break it.

Fairness. `Ingest`: weak fairness of each handler (the event loop resumes a
handler whose await is over; a statement whose row is free goes on) and of
deadlock detection (`deadlock_timeout` makes PostgreSQL look). No fairness of
producers, faults, or of any particular victim. `Reads`: weak fairness of each
request; a SELECT waits for no lock. `Pool`: weak fairness of each request's
handler and of the pool's timer; PostgreSQL need never come back. `Startup`:
weak fairness of each entrypoint that runs; nobody need start a container or a
database. `Chaos`: the main thread and the threads of the loader run, their
timeouts fire (httpx has one), and the script, one process, goes on; the
service need do nothing. `ExplorerUI`, `Discovery` and `DiffHarness` have only
safety properties.

## 4. Proofs

Everything is proved for all values of the constants that satisfy the
assumptions: any calls, events of any length, any numbers of attempts, faults,
readers, containers, connections and lines. The assumptions are named, stand in
the module that declares the constants, and TLC evaluates each of them in the
runs:

- `CallsAssumption`: finitely many edges per event, whose places are quadruples
  of naturals; `NoRow` is not a row. `IngestAssumption`: `Chunk` is positive.
- `ReadsAssumption`, `DiscoveryAssumption`: requests are well formed, promises
  name keys; `Rank` orders the URNs, and there are finitely many.
- `PromisesAssumption` of `Discovery`: a promise is about a row of the table; a
  call promises an edge one set of attributes; a consumes edge ends at its job,
  a produces edge starts there, and a derives_from edge comes with one of either
  kind. `ServicePromisesCoherent` proves it of the promises that `Ingest` keeps.
- `RepliesComplete` of `ExplorerUI`: a reply around a node has all edges at the
  node. `RepliesAreComplete` proves it of what `Reads` answers, for the edges
  that were there at the request.
- `DiffAssumption`: `--n` is an integer and a file a sequence of lines, of any
  length, with any lines.
- `ExplorerAssumption`, `StartupAssumption`, `PoolAssumption`,
  `LoaderAssumption`, `ChaosAssumption`: types and positive limits.

Six theorems have a hypothesis besides, each one that the code does not ensure
and cannot do without:

| Hypothesis | of | Why the code needs it |
| --- | --- | --- |
| `JobUrnsDistinct`: no two jobs of different namespaces have one URN | `DiscoveryStable`, `ServiceJobsTellNamespace` | URNs are joined with '/', which names may contain (`translator.py:17-22`); the row of such a URN changes its namespace with every write |
| `JobsTellNamespace`, what that means for promises | `ListedStaysSearchable`, `AcknowledgedIsFound` | the same; `ServiceJobsTellNamespace` derives it from `JobUrnsDistinct` |
| `EnvNamesSettings`: the environment names the variable that the settings read | `ContainerComesUp` | run `startup_compose_env` shows what happens without |
| `NoWildcards`: no `%` or `_` in a search word | `ResultsHaveTheWord` | run `discovery_wildcards` shows what happens with one |

The instances of the passing runs satisfy all of them.

| Module | Theorems | Inductive invariant, and why it is needed |
| --- | --- | --- |
| `IngestProofs` | deduplication loses no key, `KeysSurvive`; lemmas: a batch keeps the edge of the first event to mention it (`BatchKeepsFirstEvent`), no two edges of a call have one key (`OutgoingKeysDiffer`), with a derives_from edge `translate` builds its consumes and produces edges (`DerivationBuilt`), what reaches the repository is what was promised (`PromiseKept`) | none; all rest on `FirstPlace`: a nonempty set of places has a first one |
| | `TypeCorrect`, `DerivationAlwaysWitnessed`, `OnlyLandedRowsShow`, `AcknowledgedIsDurable`, `CreationMarkKept`, `ServiceImplementsStore`, `CountsRight` | `IInv`. That nothing half written shows needs to know that at its commit a transaction holds the row of *every* edge of its call and of no other: `TransactionConsistent` says which edges are in so far. That a creation mark survives needs to know that the version a pending row was computed over is still the committed one, which others preserve only because `LocksExclusive` keeps them off the row. That a 201 is durable needs `OutcomesConsistent`, which ties answers and stages to `landed`. For the counts, `WrittenConsistent`: what is written and what is to do are together the edges of the call. |
| | `ErrorsAlwaysHaveCauses` | `InOrder`: the rows that an attempt holds come before those it has yet to lock, in the order of its own list. In a ring of waiting transactions each waits for a row that the next one holds, so that each of these rows has another of them taken before it by some call; of calls that could take their rows in one order, some row would be the first (`RingIsDisorder`). That no call sent later mends the disorder is `DisorderStays`. |
| | `DiscoveryStable`, `ServicePromisesCoherent`, `ServiceJobsTellNamespace` | only jobs write a namespace, and the job of a row tells it |
| | `NobodyStandsStill`, `HandlersRunOut` | finitely many attempts are under way (`IsFiniteSet(Sent)`): if none can go, following from each the one it waits for ends in a ring (`RingExists`), which `Deadlock` breaks. `Left` counts the steps an attempt has: at most 2n + 4 with n edges, since a row is first sent and then inserted. |
| `ReadsProofs` | `TypeCorrect`, `WalksExactly`, `KeysOnce`, `AnswersBetween`, `WritesAreRead`, `RepliesAreComplete` | `WalkExact`: after d rounds the walk is the rows that end chains of at most d rows, and the working table those of d. `ChainBegins` and `ChainGrows` give the next round without an induction over chains. `PlanFits` and `FoundFits` tie the lists found so far to the request, `Grown` says that tables only grow between its moments. |
| | `EveryWalkStops` | the same: the depth of the working table grows with each round, so that `Left` falls with every step, on cycles too |
| `DiscoveryProofs` | `TypeCorrect`, `TenantsStayApart` | every row still has what some landed call promised it (`RowsPromised`) |
| | `ListedStaysSearchable`, `AcknowledgedIsFound`, `ResultsHaveTheWord` | `StoreInv`: what has landed or was acknowledged is in the table, whoever has written the row since, and what had been acknowledged at a request (`asked`) still is when its SELECT reads; `Served`: only requests that were accepted are served. That `LIKE` finds what has the word, and nothing else, is `ContainsMatches` and `MatchesContain`, about the places of a pattern without wildcards. |
| `ExplorerUIProofs` | `TypeCorrect`, `NewestMatchesShown`, `NewestViewCoherent`, `PatientListMatches`, `PatientViewIsCoherent`, `BoxFollowsUser` | `SearchKept`: the matches of the fields are in the list, or their search is under way or failed; `NewestView`: the newest graph request is about the current node, and so is its drawing; `Patient`: while the user waits, at most one search is under way, that of the fields, and every graph request is about the current node; `BoxKept`: the newest graph request is in flight or failed, or the box names the current node |
| `StartupProofs` | `StartupTypeCorrect`, `RevisionAtomic`, `ServedSchema`, `LosersCanRestart` | what open upgrades of one database have made is disjoint (`Exclusive`); while there is no schema an upgrade has made all that it need not make any more, and afterwards one that still runs holds nothing (`Progress`); who is past the upgrade has the schema (`Migrated`) |
| | `ContainerComesUp` | `Undisturbed`: until the first crash every server answers, and whoever looks for its database was started beside it |
| | `UpgradesNeverDeadlock`, `EntrypointsRunOut` | `Begun`: an upgrade that holds anything holds alembic's table, so that of two upgrades of a database only one has begun, and it waits for nobody. `StepsLeft` is at most 12. |
| `PoolProofs` | `PoolTypeCorrect`, `StaleConnectionsHarmless`, `TurnedAwayOnlyWhenBusy` | `PoolTypeOK` itself bounds the connections (`HoldersCount` counts who holds one); a request in flight while PostgreSQL is down, or with a connection to an earlier run of it, has seen it down (`Seen`) |
| | `NobodyWaitsForever`, `HandlersRunOut` | that the owner of the row has its connection is in `PoolTypeOK`; a request has at most four steps |
| `LoaderProofs` | `TypeCorrect`, `EveryLineCounted`, `ErrorsTellTheLoss`, `AbortBounded`; `DatabaseOutageSurvived` | never more than a window is in flight (`Windows`), a call that was answered well has landed (`Honest`), `sent` and `errors` number what was collected (`Counted`); for `Chaos`, whom an outage spares (`Spared`), with the loader's own invariant |
| | `HarnessGoesOn`, `LoadIsFinite` | what was killed is down until it is restarted (`ScriptOK`). `StepsLeft` adds what each call, the window and the phase still cost; `Window` and `Concurrency` being positive, something can always go. |
| `DiffHarnessProofs` | `DiffTypeCorrect`, `ZeroIsTrusted`, `AdapterIsExact` | `Tallied`: the counts are those of the nodes looked up, the one in hand left out; `Shown`: the edges found so far are those of each backend at some moment between the start and now; `Settled`: while nothing is wrong all nodes but the one in hand are covered |

The refinement: a `Commit` of `Ingest` is a `Land` of the store (`CommitLands`:
the rows it shows are what `StorePromise` says the call promised), a `Reply` is
an `Acknowledge` or a stutter, every other step a stutter
(`OthersAcknowledge`). `Reads` and `Discovery` have the store as their writer,
so their theorems are about readers beside the whole service.

Type invariants are theorems and, but for that of `DiffHarness`, which is the
arithmetic of its report, not checked again by the runs. Every invariant and
action property that a passing run checks is a theorem.

Model-checked only: the six properties that need fairness, `EveryCallEnds`,
`EveryReadEnds`, `StartsEnd`, `EveryRequestEnds`, `EveryLoadEnds` and
`VerdictComes`; liveness and ENABLED are out of the prover's reach. What is
proved of them, for all instances, is what is hard about them: that as long as
the goal is not reached somebody can go on, and that the steps run out.

| Liveness | Somebody can go on | The steps run out |
| --- | --- | --- |
| `EveryCallEnds` | `NobodyStandsStill` | `HandlersRunOut` of `IngestProofs` |
| `EveryReadEnds` | a SELECT waits for nobody | `EveryWalkStops` |
| `StartsEnd` | `UpgradesNeverDeadlock` | `EntrypointsRunOut` |
| `EveryRequestEnds` | `NobodyWaitsForever` | `HandlersRunOut` of `PoolProofs` |
| `EveryLoadEnds`, `VerdictComes` | `HarnessGoesOn` | `LoadIsFinite` |

`CanGo`, `LoadCanGo` and `ScriptCanGo` say in state formulas when the fair
actions are enabled. That they coincide with `ENABLED` of those actions was
compared by TLC on the instances of the runs, and is not proved.

## 5. Findings

Four places where a document, a comment or a test says otherwise than the code
does, each with its run; `PROJECT.json` has both lines.

- Events that overlap without being identical can deadlock, and one producer
  gets a 500 (`ingest_overlap`).
- The explorer shows the reply for an earlier node under the name of a later
  one, with counts that are not the later one's (`ui_stale_view`). The trace
  needs depth 1, or one direction: at depth 2 the replies for two neighbours may
  be one and the same graph.
- The compose files set `DATA_LINEAGE_DATABASE_URL`, the settings read
  `LINEAGE_DATABASE_URL`: the container migrates localhost and exits
  (`startup_compose_env`).
- `_` and `%` in a search word are wildcards (`discovery_wildcards`).

Others that were noticed and have no run of their own:

- `models.py:25-27` declares `onupdate=func.now()` for `updated_at`, but the
  upsert (`repository.py:39-47`) lists its columns and this is not one: a row
  keeps the mark of its insertion. `EdgeStore` says so (`Replaced`).
- Two searches of a user who does not wait may both append to the list
  (`app.js:54-57`): only stale results may join it, `CurrentMatchesShown`.
- `app.js:186`: `currentNode` moves on before the fetch; should that fail, the
  graph and the box stay those of the node before, and a tap on the node does
  nothing, though `docs/ui.md:23` says "Tap any node". `BoxNamesCurrent` is what
  holds: once the replies are there, only then do the box and `currentNode` differ.
- `/health` (`main.py:41-43`) does not ask the database: the recovery that
  `recovery_test.sh:2` and `chaos.sh` measure for `kill_pg` is that of nothing.
  `Recovered` of `Chaos` is taken while the database starts, or never does.
- The diff harness looks a node up by one string in both backends, whose ids are
  spelled differently (`benchmark/k6/lib/urn.js:23-24`): a URN with '/' is an
  error in Marquez, an id of Marquez's a mismatch of equal lineage. `DiffHarness`
  has the ids of both, so that no property of it says what a mismatch means, only
  what exit 0 and the adapter do.
- `docs/decision.md:169` says that events of the outage were "queued + flushed";
  the loader counts a failed post and goes on, nothing is sent again
  (`LoadedHonest`). `chaos.sh:78-92` can pass though nothing was written after
  the kill; the writer's own output tells of it, as `LoadedHonest` says.
- The Marquez adapter never yields `derives_from` edges
  (`diff_harness.py:57`) and compares all edges of the returned graph: apart from
  the ids, a dataset of an event with inputs and outputs, and a job that shares
  a dataset with another, are mismatches.
- `diff_harness.py --n 0` compares nothing and exits 0 (`ZeroMeansCovered` says
  how many lines an exit 0 is about).

As the code does them, and contradicting nothing written: a late retry takes a
row back to the older run, because `eventTime` is never looked at
(`ImplementsEdgeStore` says that the order is that of commits); and an answer
of `/direct` or of "both" need not be the answer for any one moment
(`AnswerBetween` is what holds instead).

## 6. Not modelled, and abstractions

- `metadata` is never set by `translate` and is left out of rows; so are the
  types of JSON values other than missing, null and present: a run id or a name
  that is a number is not in the events.
- `created` and `updated` stand for the transaction whose `NOW()` the column
  holds, so two transactions never have the same.
- PostgreSQL, SQLAlchemy's pool, docker compose and Marquez are external:
  READ COMMITTED, row locks until the end of the transaction, transactional DDL, a
  victim in every ring of waiting transactions. What of them the models use is
  marked external in the map.
- Of `main.py`: the lifespan, the metrics and the static files. Of alembic:
  downgrade and the offline mode, which nothing in the repository calls.
- A backslash in a search word; indexes, which change no answer.
- URNs of jobs that collide because of a '/' are in the theorems
  (`TenantsStayApart` holds for any keys), not in a run; those of datasets are in
  `ingest`, whose two jobs have their datasets in the namespaces `ns` and `ns/x`.
- `growing_graph.py`, the k6 scenarios, the dashboards and the event generator:
  they measure, or make input. `run_local_ui.py`: a copy of the start-up over
  SQLite for one developer.
- Formatting, logging, the status line and the layout of the explorer.

## 7. Plan

Done: every part of section 1 but the measurements, and a theorem for every
safety property that is checked. Left, in order:

1. `ExplorerUI` over `Reads` and `Discovery`, so that the table changes under
   the page: which counts in the box are those of some moment.
2. `Pool` under `Ingest`: the faults of the pool as the faults of the write path.
