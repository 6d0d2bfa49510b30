---------------------------------- MODULE Chaos ----------------------------------
(***************************************************************************)
(* One scenario of benchmark/hard_tests/chaos.sh: a load runs in the       *)
(* background, a part of the service is killed and started again, /health  *)
(* is polled, the end of the load awaited and the added rows counted.      *)
(* benchmark/recovery_test.sh does the first half for the database.        *)
(* Every call of the load adds one row.                                    *)
(***************************************************************************)
EXTENDS Loader

CONSTANT Threshold  \* rows that must have been added: 100 in the script

ASSUME ChaosAssumption == Threshold \in Nat /\ MaxOutages >= 1

VARIABLES
  target,    \* the part this scenario kills
  script,    \* where the script is
  verdict,   \* what it prints
  gaveUp     \* history: whether a call of the loader timed out

chaos   == <<target, script, verdict, gaveUp>>
allVars == <<vars, chaos>>

ScriptStages == {"writing", "killed", "polling", "waiting", "ended"}

ChaosInit ==
  /\ Init
  /\ target \in {"app", "db"} /\ script = "writing" /\ verdict = "none"
  /\ gaveUp = FALSE

-----------------------------------------------------------------------------

\* After eight seconds of writing, which may be the whole load.
Kill ==
  /\ script = "writing"
  /\ IF target = "app" THEN KillApp ELSE KillDatabase
  /\ outages' = outages + 1
  /\ script' = "killed"
  /\ UNCHANGED <<target, verdict, gaveUp>>

UpAgain ==
  /\ script = "killed"
  /\ Restart(target)
  /\ script' = "polling"
  /\ UNCHANGED <<target, verdict, gaveUp>>

\* /health asks nobody.
Health == app = "up"

Recovered ==
  /\ script = "polling" /\ Health
  /\ script' = "waiting"
  /\ UNCHANGED <<vars, target, verdict, gaveUp>>

\* Sixty polls failed: the writer is killed, if it still runs.
NotRecovered ==
  /\ script = "polling" /\ ~Health
  /\ script' = "ended" /\ verdict' = "FAIL"
  /\ phase' = IF Ended THEN phase ELSE "aborted"
  /\ call' = [i \in Call |-> IF call[i] \in {"queued", "posting"} THEN "raised" ELSE call[i]]
  /\ UNCHANGED <<next, inflight, sent, errors, service, target, gaveUp>>

\* wait || true, and the rows counted against those before the writer started;
\* a recovery of more than thirty seconds fails too.
Judge ==
  /\ script = "waiting" /\ Ended
  /\ script' = "ended"
  /\ verdict' \in IF Cardinality(landed) >= Threshold THEN {"PASS", "FAIL"} ELSE {"FAIL"}
  /\ UNCHANGED <<vars, target, gaveUp>>

Script == Kill \/ UpAgain \/ Recovered \/ NotRecovered \/ Judge

Meanwhile ==
  /\ Load
  /\ gaveUp' = (gaveUp \/ \E i \in Call : call[i] = "posting" /\ call'[i] = "raised")
  /\ UNCHANGED <<target, script, verdict>>

ChaosRest == script = "ended" /\ Rest /\ UNCHANGED chaos

ChaosNext == Script \/ Meanwhile \/ ChaosRest

ChaosSpec == ChaosInit /\ [][ChaosNext]_allVars

\* As in Loader; the script is one process that never stops to ask.
ChaosFairSpec ==
  /\ ChaosSpec
  /\ WF_allVars(Main /\ Meanwhile) /\ WF_allVars(Script)
  /\ \A i \in Call : WF_allVars(Thread(i) /\ Meanwhile)

-----------------------------------------------------------------------------
\* Properties.

\* An outage of the database alone does not end the load: the application
\* answers the calls it cannot serve (docs/benchmark/hard-tests.md:126, "writer
\* survived the PG outage too"); only a call that is never answered does.
WriterSurvivesDatabase ==
  target = "db" /\ phase \in {"aborting", "aborted"} => gaveUp

\* Once the part is killed the script comes to a verdict: neither the polling
\* nor the writer it waits for goes on for ever (chaos.sh:61-78).
VerdictComes == script = "killed" ~> script = "ended"

=============================================================================
