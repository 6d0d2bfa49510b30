------------------------------- MODULE MCStartup -------------------------------
EXTENDS Startup, TLC

CONSTANTS c1, c2, c3, pg, other, localhost

\* The variable the settings read, as .env.example spells it: two containers
\* on one database and one on another.
EnvExample ==
  [c \in Container |-> "LINEAGE_DATABASE_URL" :> (IF c = c3 THEN other ELSE pg)]

\* The variable of docker-compose.yml and benchmark/docker-compose.yml.
EnvCompose == [c \in Container |-> "DATA_LINEAGE_DATABASE_URL" :> pg]

=============================================================================
