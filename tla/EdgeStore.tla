------------------------------ MODULE EdgeStore ------------------------------
(***************************************************************************)
(* What the ingest API promises a producer, with nothing said of HTTP,     *)
(* chunks, locks or failures: a call lands as one atomic write that        *)
(* replaces the attributes of every edge it mentions, keeps the creation   *)
(* mark of the rows that were there, and touches no other row; and a call  *)
(* is acknowledged only once it has landed.  Nothing is ever deleted.      *)
(***************************************************************************)
EXTENDS Integers

CONSTANTS
  Request,  \* the calls
  Version,  \* the attempts to land a call are the pairs <<request, version>>
  Key,      \* the primary keys
  Promise,  \* the [job, run, ns] each call gives each edge it mentions
  NoRow

VARIABLES
  table,   \* the committed rows
  landed,  \* the attempts whose write has taken effect
  acked    \* the attempts a producer was told have landed

vars == <<table, landed, acked>>

Mentions(w, k) == \E m \in Promise : m.req = w[1] /\ m.key = k

Promised(w, k) == (CHOOSE m \in Promise : m.req = w[1] /\ m.key = k).attrs

Replaced(attrs, old, w) ==
  [job     |-> attrs.job,
   run     |-> attrs.run,
   ns      |-> attrs.ns,
   created |-> IF old = NoRow THEN w ELSE old.created,
   updated |-> IF old = NoRow THEN w ELSE old.updated]

Init ==
  /\ table = [k \in Key |-> NoRow]
  /\ landed = {}
  /\ acked = {}

Land(w) ==
  /\ w \notin landed
  /\ table' = [k \in Key |-> IF Mentions(w, k)
                               THEN Replaced(Promised(w, k), table[k], w)
                               ELSE table[k]]
  /\ landed' = landed \cup {w}
  /\ UNCHANGED acked

Acknowledge(w) ==
  /\ w \in landed \/ \A k \in Key : ~Mentions(w, k)
  /\ acked' = acked \cup {w}
  /\ UNCHANGED <<table, landed>>

Next == \E w \in Request \X Version : Land(w) \/ Acknowledge(w)

Spec == Init /\ [][Next]_vars

-----------------------------------------------------------------------------
\* What readers of the store may rely on.

\* A promise is about a row of the table; a call promises an edge one set of
\* attributes; a consumes edge ends at its job, a produces edge starts there,
\* and a derives_from edge comes with one of either kind for its job.
PromisesCoherent ==
  /\ \A m \in Promise :
       /\ m.key \in Key
       /\ m.key[3] \in {"consumes", "produces", "derives_from"}
       /\ m.key[3] = "consumes" => m.key[2] = m.attrs.job
       /\ m.key[3] = "produces" => m.key[1] = m.attrs.job
       /\ m.key[3] = "derives_from" =>
            \E c, p \in Promise :
              /\ c.req = m.req /\ c.key = <<m.key[1], m.attrs.job, "consumes">>
              /\ p.req = m.req /\ p.key = <<m.attrs.job, m.key[2], "produces">>
  /\ \A m, n \in Promise : m.req = n.req /\ m.key = n.key => m = n

\* A job's URN says which namespace the job is of.
JobsTellNamespace == \A m, n \in Promise : m.attrs.job = n.attrs.job => m.attrs.ns = n.attrs.ns

=============================================================================
