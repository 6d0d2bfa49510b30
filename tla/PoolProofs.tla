------------------------------- MODULE PoolProofs -------------------------------
(***************************************************************************)
(* The pool's bounds and what a request may fail for, for any number of    *)
(* requests and connections.  What a request may have missed is carried    *)
(* from its arrival: as long as it has not seen PostgreSQL down, the       *)
(* server is up and the connection it holds is one to the current run.     *)
(***************************************************************************)
EXTENDS Pool, FiniteSetTheorems, SequenceTheorems, TLAPS

Seen ==
  \A r \in Request :
    /\ InFlight(r) /\ (~up \/ conn[r] \notin {None, run}) => sawDown[r]
    /\ answer[r] = "unavailable" => sawDown[r]

\* A crash that may still happen leaves a run for the recovery.
Bounded == up \/ run <= MaxCrashes

IInv == PoolTypeOK /\ Seen /\ Bounded

-----------------------------------------------------------------------------

\* The limits are numbers.
LEMMA Limits == /\ PoolSize \in Nat /\ PoolSize >= 1 /\ Limit \in Nat /\ PoolSize <= Limit
                /\ Nobody \notin Request
BY PoolAssumption DEF Limit, Request

\* How many connections are checked out after one request has taken c.
LEMMA HoldersCount ==
  ASSUME PoolTypeOK, NEW r \in Request, NEW c, conn' = [conn EXCEPT ![r] = c]
  PROVE  /\ Cardinality(Holders) \in Nat
         /\ c # None /\ conn[r] = None => Cardinality(Holders') = Cardinality(Holders) + 1
         /\ c = None /\ conn[r] # None => Cardinality(Holders') = Cardinality(Holders) - 1
<1>1. IsFiniteSet(Request)
  BY PoolAssumption DEF Request
<1>2. IsFiniteSet(Holders)
  BY <1>1, FS_Subset DEF Holders
<1>3. Cardinality(Holders) \in Nat
  BY <1>2, FS_CardinalityType
<1>4. conn \in [Request -> Connections]
  BY DEF PoolTypeOK
<1>5. Holders' = IF c # None THEN Holders \cup {r} ELSE Holders \ {r}
  <2>1. \A q \in Request : conn'[q] = IF q = r THEN c ELSE conn[q]
    BY <1>4
  <2> QED
    BY <2>1 DEF Holders
<1>6. r \in Holders <=> conn[r] # None
  BY DEF Holders
<1> QED
  <2>1. CASE c # None /\ conn[r] = None
    <3>1. Holders' = Holders \cup {r} /\ r \notin Holders
      BY <2>1, <1>5, <1>6
    <3> QED
      BY <3>1, <2>1, <1>2, <1>3, FS_AddElement
  <2>2. CASE c = None /\ conn[r] # None
    <3>1. Holders' = Holders \ {r} /\ r \in Holders
      BY <2>2, <1>5, <1>6
    <3> QED
      BY <3>1, <2>2, <1>2, <1>3, FS_RemoveElement
  <2> QED
    BY <2>1, <2>2, <1>3

\* What the pool's queue is after a connection has come back.
LEMMA ReturnedBounds ==
  ASSUME NEW queue \in Seq(Connections), NEW c \in Connections, Len(queue) <= PoolSize
  PROVE  /\ Returned(queue, c) \in Seq(Connections)
         /\ Len(Returned(queue, c)) <= PoolSize
         /\ Len(Returned(queue, c)) <= Len(queue) + 1
<1>1. Len(queue) \in Nat /\ PoolSize \in Nat
  BY Limits, LenProperties
<1> QED
  BY <1>1, AppendProperties DEF Returned

\* A step of one request that is being answered.
LEMMA RequestStep ==
  ASSUME IInv, NEW r \in Request, InFlight(r),
         NEW s \in Stages \ {"new"}, NEW c \in Connections, NEW a \in Answers,
         stage' = [stage EXCEPT ![r] = s],
         conn' = [conn EXCEPT ![r] = c],
         answer' = [answer EXCEPT ![r] = a],
         UNCHANGED <<up, run, sawDown>>,
         c # None <=> s \in {"working", "locked"},
         a # "none" <=> s = "answered",
         c \in {None, run, conn[r]},
         a = "unavailable" => sawDown[r],
         idle' \in Seq(Connections), Len(idle') <= PoolSize, Slots' <= Limit,
         owner' \in Writer \cup {Nobody},
         owner' # Nobody => (owner' = r /\ s = "locked") \/ (owner' = owner /\ owner # r)
  PROVE  IInv'
<1> USE DEF IInv
<1>1. \A q \in Request : q # r =>
        stage'[q] = stage[q] /\ conn'[q] = conn[q] /\ answer'[q] = answer[q]
  BY DEF PoolTypeOK
<1>2. stage'[r] = s /\ conn'[r] = c /\ answer'[r] = a
  BY DEF PoolTypeOK
<1>3. owner' # Nobody => stage'[owner'] = "locked"
  BY <1>1, <1>2, Limits DEF PoolTypeOK, Request
<1>4. /\ stage' \in [Request -> Stages]
      /\ conn' \in [Request -> Connections]
      /\ answer' \in [Request -> Answers]
  BY DEF PoolTypeOK
<1>5. PoolTypeOK'
  BY <1>1, <1>2, <1>3, <1>4 DEF PoolTypeOK
<1>6. Seen' /\ Bounded'
  BY <1>1, <1>2 DEF Seen, InFlight, Bounded
<1> QED
  BY <1>5, <1>6

LEMMA InitIInv == Init => IInv
<1> SUFFICES ASSUME Init PROVE IInv
  OBVIOUS
<1>1. Holders = {} /\ Cardinality(Holders) = 0
  BY FS_EmptySet DEF Init, Holders
<1>2. Len(idle) = 0 /\ idle \in Seq(Connections)
  BY DEF Init
<1>3. None \in Connections /\ 1 \in 1..(MaxCrashes + 1)
  BY PoolAssumption DEF None, Connections
<1> QED
  BY <1>1, <1>2, <1>3, Limits
     DEF Init, IInv, PoolTypeOK, Seen, Bounded, Slots, Stages, Answers, InFlight

-----------------------------------------------------------------------------

\* The end of a request, whatever its end is.
LEMMA CloseStep ==
  ASSUME IInv, NEW r \in Request, NEW c \in Connections,
         NEW a \in Answers \ {"none"},
         stage[r] \in {"working", "locked"},
         Close(r, c, a), UNCHANGED <<up, run, sawDown>>,
         a = "unavailable" => sawDown[r]
  PROVE  IInv'
<1> USE DEF IInv
<1>1. conn[r] # None /\ idle \in Seq(Connections) /\ Len(idle) <= PoolSize /\ Slots <= Limit
  BY DEF PoolTypeOK
<1>2. /\ idle' = Returned(idle, c)
      /\ conn' = [conn EXCEPT ![r] = None]
      /\ stage' = [stage EXCEPT ![r] = "answered"]
      /\ answer' = [answer EXCEPT ![r] = a]
      /\ owner' = IF owner = r THEN Nobody ELSE owner
  BY DEF Close, Answered
<1>3. /\ idle' \in Seq(Connections) /\ Len(idle') <= PoolSize
      /\ Len(idle') <= Len(idle) + 1 /\ Len(idle) \in Nat /\ Len(idle') \in Nat
  BY <1>1, <1>2, ReturnedBounds, LenProperties
<1>4. Cardinality(Holders') = Cardinality(Holders) - 1 /\ Cardinality(Holders) \in Nat
  BY <1>1, <1>2, HoldersCount
<1>5. Slots' <= Limit
  BY <1>1, <1>3, <1>4, Limits DEF Slots
<1>6. None \in Connections /\ "answered" \in Stages /\ InFlight(r)
  BY PoolAssumption DEF None, Connections, Stages, InFlight
<1>7. owner' \in Writer \cup {Nobody} /\ (owner' # Nobody => owner' = owner /\ owner # r)
  BY <1>2 DEF PoolTypeOK
<1> QED
  BY <1>2, <1>3, <1>5, <1>6, <1>7, RequestStep

\* Who asks for a connection has none, and no lock.
LEMMA AskingHoldsNothing ==
  ASSUME IInv, NEW r \in Request, stage[r] \in {"asking", "waiting"}
  PROVE  /\ conn[r] = None /\ InFlight(r) /\ answer[r] = "none"
         /\ run \in Connections /\ run # None /\ None \in Connections
         /\ Slots <= Limit /\ idle \in Seq(Connections) /\ Len(idle) \in Nat
         /\ (owner # Nobody => owner # r) /\ owner \in Writer \cup {Nobody}
<1> USE DEF IInv
<1>1. conn[r] = None /\ InFlight(r) /\ answer[r] = "none"
  BY DEF PoolTypeOK, InFlight
<1>2. run \in Connections /\ run # None /\ None \in Connections
  BY PoolAssumption DEF PoolTypeOK, None, Connections
<1>3. Slots <= Limit /\ idle \in Seq(Connections) /\ Len(idle) \in Nat
  BY LenProperties DEF PoolTypeOK
<1>4. (owner # Nobody => owner # r) /\ owner \in Writer \cup {Nobody}
  BY DEF PoolTypeOK
<1> QED
  BY <1>1, <1>2, <1>3, <1>4

\* A request gets its connection, or PostgreSQL is not there to connect to.
LEMMA ConnectStep ==
  ASSUME IInv, NEW r \in Request, stage[r] \in {"asking", "waiting"},
         Slots < Limit, Connect(r)
  PROVE  IInv'
<1> USE DEF IInv
<1>1. /\ conn[r] = None /\ InFlight(r) /\ answer[r] = "none"
      /\ run \in Connections /\ run # None /\ None \in Connections
      /\ Slots <= Limit /\ idle \in Seq(Connections) /\ Len(idle) \in Nat
      /\ (owner # Nobody => owner # r) /\ owner \in Writer \cup {Nobody}
  BY AskingHoldsNothing
<1>2. UNCHANGED <<up, run, idle, owner, sawDown>>
  BY DEF Connect
<1>3. CASE up
  <2>1. /\ conn' = [conn EXCEPT ![r] = run]
        /\ stage' = [stage EXCEPT ![r] = "working"]
        /\ answer' = answer
    BY <1>3 DEF Connect
  <2>2. answer' = [answer EXCEPT ![r] = "none"]
    BY <2>1, <1>1 DEF PoolTypeOK
  <2>3. Cardinality(Holders') = Cardinality(Holders) + 1 /\ Cardinality(Holders) \in Nat
    BY <2>1, <1>1, HoldersCount
  <2>4. Slots' <= Limit
    BY <2>3, <1>1, <1>2, Limits DEF Slots
  <2>5. idle' \in Seq(Connections) /\ Len(idle') <= PoolSize
    BY <1>2 DEF PoolTypeOK
  <2> QED
    BY <2>1, <2>2, <2>4, <2>5, <1>1, <1>2, RequestStep DEF Stages, Answers
<1>4. CASE ~up
  <2>1. /\ conn' = conn
        /\ stage' = [stage EXCEPT ![r] = "answered"]
        /\ answer' = [answer EXCEPT ![r] = "unavailable"]
    BY <1>4 DEF Connect, Answered
  <2>2. conn' = [conn EXCEPT ![r] = None]
    BY <2>1, <1>1 DEF PoolTypeOK
  <2>3. Slots' <= Limit /\ idle' \in Seq(Connections) /\ Len(idle') <= PoolSize
    BY <2>1, <1>1, <1>2 DEF Slots, Holders, PoolTypeOK
  <2>4. sawDown[r]
    BY <1>1, <1>4 DEF Seen
  <2> QED
    BY <2>1, <2>2, <2>3, <2>4, <1>1, <1>2, RequestStep DEF Stages, Answers
<1> QED
  BY <1>3, <1>4

LEMMA CheckOutStep ==
  ASSUME IInv, NEW r \in Request, CheckOut(r)
  PROVE  IInv'
<1> USE DEF IInv
<1>1. /\ conn[r] = None /\ InFlight(r) /\ answer[r] = "none"
      /\ run \in Connections /\ run # None /\ None \in Connections
      /\ Slots <= Limit /\ idle \in Seq(Connections) /\ Len(idle) \in Nat
      /\ idle # <<>> /\ Len(idle) <= PoolSize
      /\ (owner # Nobody => owner # r) /\ owner \in Writer \cup {Nobody}
  BY AskingHoldsNothing DEF CheckOut, PoolTypeOK
<1>2. UNCHANGED <<up, run, owner, sawDown>>
  BY DEF CheckOut
<1>3. Tail(idle) \in Seq(Connections) /\ Len(Tail(idle)) = Len(idle) - 1
  BY <1>1, HeadTailProperties
<1>4. CASE up
  <2>1. /\ idle' = Tail(idle)
        /\ conn' = [conn EXCEPT ![r] = run]
        /\ stage' = [stage EXCEPT ![r] = "working"]
        /\ answer' = answer
    BY <1>4 DEF CheckOut
  <2>2. answer' = [answer EXCEPT ![r] = "none"]
    BY <2>1, <1>1 DEF PoolTypeOK
  <2>3. Cardinality(Holders') = Cardinality(Holders) + 1 /\ Cardinality(Holders) \in Nat
    BY <2>1, <1>1, HoldersCount
  <2>4. Slots' <= Limit /\ Len(idle') <= PoolSize
    BY <2>1, <2>3, <1>1, <1>3, Limits DEF Slots
  <2> QED
    BY <2>1, <2>2, <2>4, <1>1, <1>2, <1>3, RequestStep DEF Stages, Answers
<1>5. CASE ~up
  <2>1. /\ idle' = Append(Tail(idle), None)
        /\ conn' = conn
        /\ stage' = [stage EXCEPT ![r] = "answered"]
        /\ answer' = [answer EXCEPT ![r] = "unavailable"]
    BY <1>5 DEF CheckOut, Answered
  <2>2. conn' = [conn EXCEPT ![r] = None]
    BY <2>1, <1>1 DEF PoolTypeOK
  <2>3. idle' \in Seq(Connections) /\ Len(idle') = Len(idle)
    BY <2>1, <1>1, <1>3, AppendProperties
  <2>4. Slots' <= Limit /\ Len(idle') <= PoolSize
    BY <2>1, <2>3, <1>1 DEF Slots, Holders
  <2>5. sawDown[r]
    BY <1>1, <1>5 DEF Seen
  <2> QED
    BY <2>1, <2>2, <2>3, <2>4, <2>5, <1>1, <1>2, RequestStep DEF Stages, Answers
<1> QED
  BY <1>4, <1>5

\* A request moves on without touching the pool or its connection.
LEMMA MoveStep ==
  ASSUME IInv, NEW r \in Request, InFlight(r),
         NEW s \in Stages \ {"new"}, NEW a \in Answers,
         stage' = [stage EXCEPT ![r] = s],
         answer' = [answer EXCEPT ![r] = a],
         UNCHANGED <<up, run, idle, conn, sawDown>>,
         conn[r] # None <=> s \in {"working", "locked"},
         a # "none" <=> s = "answered", a # "unavailable",
         owner' \in {owner, r}, owner' = r => s = "locked", r \in Writer \/ owner' = owner
  PROVE  IInv'
<1> USE DEF IInv
<1>1. conn' = [conn EXCEPT ![r] = conn[r]] /\ conn[r] \in Connections
  BY DEF PoolTypeOK
<1>2. Slots' <= Limit /\ idle' \in Seq(Connections) /\ Len(idle') <= PoolSize
  BY DEF Slots, Holders, PoolTypeOK
<1>3. owner' \in Writer \cup {Nobody}
  BY DEF PoolTypeOK
<1> QED
  BY <1>1, <1>2, <1>3, RequestStep

LEMMA StepIInv == IInv /\ [Next]_vars => IInv'
<1> SUFFICES ASSUME IInv, [Next]_vars PROVE IInv'
  OBVIOUS
<1> USE DEF IInv
<1>1. ASSUME NEW r \in Request, Arrive(r) PROVE IInv'
  <2>1. /\ \A q \in Request : q # r => stage'[q] = stage[q] /\ sawDown'[q] = sawDown[q]
        /\ stage'[r] = "asking" /\ sawDown'[r] = ~up
        /\ UNCHANGED <<up, run, idle, conn, owner, answer>>
        /\ stage[r] = "new"
    BY <1>1 DEF Arrive, PoolTypeOK
  <2>2. stage' \in [Request -> Stages] /\ sawDown' \in [Request -> BOOLEAN]
    BY <1>1 DEF Arrive, PoolTypeOK, Stages
  <2>3. Slots' <= Limit /\ conn[r] = None /\ answer[r] = "none"
    BY <2>1 DEF Slots, Holders, PoolTypeOK
  <2>4. owner # Nobody => stage'[owner] = "locked"
    BY <2>1 DEF PoolTypeOK, Request
  <2>5. PoolTypeOK'
    BY <2>1, <2>2, <2>3, <2>4 DEF PoolTypeOK
  <2>6. Seen' /\ Bounded'
    BY <2>1, <2>3 DEF Seen, InFlight, Bounded
  <2> QED
    BY <2>5, <2>6
<1>2. ASSUME NEW r \in Request, Open(r) PROVE IInv'
  BY <1>2, ConnectStep DEF Open
<1>3. ASSUME NEW r \in Request, Queue(r) PROVE IInv'
  <2>1. answer' = [answer EXCEPT ![r] = "none"] /\ InFlight(r) /\ conn[r] = None /\ owner # r
    BY <1>3, Limits DEF Queue, PoolTypeOK, InFlight
  <2> QED
    BY <1>3, <2>1, MoveStep DEF Queue, Stages, Answers
<1>4. ASSUME NEW r \in Request, TimeOut(r) PROVE IInv'
  <2>1. CASE Slots < Limit
    BY <1>4, <2>1, ConnectStep DEF TimeOut
  <2>2. CASE ~(Slots < Limit)
    <3>1. InFlight(r) /\ conn[r] = None /\ owner # r
      BY <1>4, Limits DEF TimeOut, PoolTypeOK, InFlight
    <3> QED
      BY <1>4, <2>2, <3>1, MoveStep DEF TimeOut, Answered, Stages, Answers
  <2> QED
    BY <2>1, <2>2
<1>5. ASSUME NEW r \in Request, Lock(r) PROVE IInv'
  <2>1. answer' = [answer EXCEPT ![r] = "none"] /\ InFlight(r) /\ conn[r] # None
    BY <1>5 DEF Lock, PoolTypeOK, InFlight
  <2> QED
    BY <1>5, <2>1, MoveStep DEF Lock, Stages, Answers
<1>6. ASSUME NEW r \in Request, Commit(r) \/ Read(r) \/ Refused(r) PROVE IInv'
  <2>1. stage[r] \in {"working", "locked"} /\ conn[r] \in Connections
    BY <1>6 DEF Commit, Read, Refused, PoolTypeOK
  <2> QED
    BY <1>6, <2>1, CloseStep DEF Commit, Read, Refused, Answers
<1>7. ASSUME NEW r \in Request, Broken(r) PROVE IInv'
  <2>1. stage[r] \in {"working", "locked"} /\ conn[r] # None /\ InFlight(r)
    BY <1>7 DEF Broken, PoolTypeOK, InFlight
  <2>2. sawDown[r]
    BY <1>7, <2>1 DEF Broken, Alive, Seen
  <2>3. None \in Connections
    BY PoolAssumption DEF None, Connections
  <2> QED
    BY <1>7, <2>1, <2>2, <2>3, CloseStep DEF Broken, Answers
<1>8. CASE Crash
  <2>1. Slots' <= Limit
    BY <1>8 DEF Crash, Slots, Holders, PoolTypeOK
  <2>2. sawDown' \in [Request -> BOOLEAN]
    <3>1. \A r \in Request : (sawDown[r] \/ InFlight(r)) \in BOOLEAN
      BY DEF PoolTypeOK, InFlight
    <3> QED
      BY <1>8, <3>1 DEF Crash
  <2>3. PoolTypeOK'
    BY <1>8, <2>1, <2>2 DEF Crash, PoolTypeOK
  <2>4. Seen' /\ Bounded'
    BY <1>8 DEF Crash, Seen, InFlight, Bounded
  <2> QED
    BY <2>3, <2>4
<1>9. CASE Recover
  <2>1. Slots' <= Limit
    BY <1>9 DEF Recover, Slots, Holders, PoolTypeOK
  <2>2. PoolTypeOK'
    BY <1>9, <2>1, PoolAssumption DEF Recover, PoolTypeOK, Bounded
  <2>3. Seen' /\ Bounded'
    BY <1>9 DEF Recover, Seen, InFlight, Bounded
  <2> QED
    BY <2>2, <2>3
<1>10. CASE UNCHANGED vars
  BY <1>10 DEF vars, PoolTypeOK, Slots, Holders, Seen, InFlight, Bounded
<1> QED
  BY <1>1, <1>2, <1>3, <1>4, <1>5, <1>6, <1>7, <1>8, <1>9, <1>10, CheckOutStep
     DEF Next, Handle, Rest

-----------------------------------------------------------------------------

THEOREM PoolInvariant == Spec => []IInv
BY InitIInv, StepIInv, PTL DEF Spec

\* The bounds of the pool hold, and a row lock belongs to a request that is
\* being answered (db.py:22-23, 29-31).
THEOREM PoolTypeCorrect == Spec => []PoolTypeOK
<1>1. IInv => PoolTypeOK
  BY DEF IInv
<1> QED
  BY <1>1, PoolInvariant, PTL

\* Stale connections fail nobody (db.py:21).
THEOREM StaleConnectionsHarmless == Spec => []NoStaleFailure
<1>1. IInv => NoStaleFailure
  BY DEF IInv, Seen, NoStaleFailure
<1> QED
  BY <1>1, PoolInvariant, PTL

\* The pool turns a request away only while all its connections are in use by
\* requests that are being answered (db.py:22-23, 29-31).
THEOREM TurnedAwayOnlyWhenBusy == Spec => TimeoutMeansBusy
<1> DEFINE Busy(r) == {q \in Request \ {r} : conn[q] # None /\ InFlight(q)}
           Step == \A r \in Request :
                     answer[r] # "timeout" /\ answer'[r] = "timeout" => Cardinality(Busy(r)) = Limit
<1>1. IInv /\ [Next]_vars => [Step]_vars
  <2> SUFFICES ASSUME IInv, Next, NEW r \in Request,
                      answer[r] # "timeout", answer'[r] = "timeout"
               PROVE  Cardinality(Busy(r)) = Limit
    OBVIOUS
  <2> USE DEF IInv
  <2>1. TimeOut(r) /\ ~(Slots < Limit)
    BY DEF Next, Handle, Arrive, CheckOut, Open, Queue, TimeOut, Connect, Lock, Commit, Read,
           Refused, Broken, Close, Answered, Crash, Recover, Rest, vars, PoolTypeOK
  <2>2. Busy(r) = Holders
    BY <2>1 DEF TimeOut, Holders, InFlight, PoolTypeOK
  <2> HIDE DEF Busy
  <2>3. Len(idle) = 0 /\ Slots <= Limit
    BY <2>1 DEF TimeOut, PoolTypeOK
  <2>4. Cardinality(Holders) \in Nat
    BY FS_Subset, FS_CardinalityType, PoolAssumption DEF Holders, Request
  <2> QED
    BY <2>1, <2>2, <2>3, <2>4, Limits DEF Slots
<1> QED
  BY <1>1, PoolInvariant, PTL DEF Spec, TimeoutMeansBusy

-----------------------------------------------------------------------------
\* Why every request ends, as far as it can be said without fairness.

\* The request's next step waits for nobody.
CanGo(r) ==
  \/ stage[r] \in {"asking", "waiting"} /\ idle # <<>>
  \/ stage[r] = "asking" /\ idle = <<>> /\ Slots <= Limit
  \/ stage[r] = "waiting" /\ idle = <<>>
  \/ stage[r] \in {"working", "locked"} /\ ~ Alive(r)
  \/ stage[r] = "locked"
  \/ stage[r] = "working" /\ (r \in Reader \/ owner = Nobody)

\* A request waits for nobody but the writer that holds the row, and that one
\* can go on: it has its connection and needs no second one.
NobodyBlocksTheOwner ==
  \A r \in Request : InFlight(r) =>
    \/ CanGo(r)
    \/ r \in Writer /\ stage[r] = "working" /\ owner \in Writer \ {r} /\ CanGo(owner)

LEMMA OwnerGoesOn == IInv => NobodyBlocksTheOwner
<1> SUFFICES ASSUME IInv, NEW r \in Request, InFlight(r)
             PROVE  \/ CanGo(r)
                    \/ r \in Writer /\ stage[r] = "working" /\ owner \in Writer \ {r} /\ CanGo(owner)
  BY DEF NobodyBlocksTheOwner
<1>1. stage[r] \in {"asking", "waiting", "working", "locked"} /\ Slots <= Limit
  BY DEF IInv, PoolTypeOK, Stages, InFlight
<1>2. CASE stage[r] \in {"asking", "waiting", "locked"}
  BY <1>1, <1>2 DEF CanGo
<1>3. CASE stage[r] = "working"
  <2>1. r \in Writer \/ r \in Reader
    BY DEF Request
  <2>2. owner # Nobody => owner \in Writer /\ stage[owner] = "locked"
    BY DEF IInv, PoolTypeOK
  <2> QED BY <1>3, <2>1, <2>2 DEF CanGo
<1> QED BY <1>1, <1>2, <1>3

\* No request waits for ever for a connection or for the row: whoever holds the
\* row can go on, and everybody else with a connection or in the queue can
\* unless it waits for that row (db.py:22-23, 29-31; Pool.tla,
\* EveryRequestEnds).
THEOREM NobodyWaitsForever == Spec => []NobodyBlocksTheOwner
BY OwnerGoesOn, PoolInvariant, PTL

\* Steps that are left of a request that is being answered, at most.
StepsLeft(r) ==
  CASE stage[r] = "asking"  -> 4
    [] stage[r] = "waiting" -> 3
    [] stage[r] = "working" -> 2
    [] stage[r] = "locked"  -> 1
    [] OTHER                -> 0

\* A handler that goes on uses one up, and nothing throws it back: a request is
\* not queued again, asks for no second connection and is not tried again.
RequestsRunOut ==
  [][\A r \in Request :
       /\ Handle(r) \/ Refused(r) => StepsLeft(r)' < StepsLeft(r)
       /\ ~ Arrive(r) => StepsLeft(r)' <= StepsLeft(r)]_vars

\* A step of a handler brings it forward.
LEMMA HandlerGoesOn ==
  ASSUME IInv, NEW r \in Request, Handle(r) \/ Refused(r)
  PROVE  StepsLeft(r)' < StepsLeft(r)
<1>1. stage \in [Request -> Stages]
  BY DEF IInv, PoolTypeOK
<1>2. \/ stage[r] \in {"asking", "waiting"} /\ stage'[r] \in {"working", "answered"}
      \/ stage[r] = "asking" /\ stage'[r] = "waiting"
      \/ stage[r] = "working" /\ stage'[r] \in {"locked", "answered"}
      \/ stage[r] = "locked" /\ stage'[r] = "answered"
  <2>1. CASE CheckOut(r) \/ Open(r) \/ Queue(r) \/ TimeOut(r)
    BY <1>1, <2>1 DEF CheckOut, Open, Queue, TimeOut, Connect, Answered
  <2>2. CASE Lock(r)
    BY <1>1, <2>2 DEF Lock
  <2>3. CASE Commit(r) \/ Read(r) \/ Refused(r) \/ Broken(r)
    BY <1>1, <2>3 DEF Commit, Read, Refused, Broken, Close, Answered
  <2> QED BY <2>1, <2>2, <2>3 DEF Handle
<1> QED BY <1>2 DEF StepsLeft

\* Nobody else does anything to it.
LEMMA OthersThrowNobodyBack ==
  ASSUME IInv, Next, NEW r \in Request, ~ (Handle(r) \/ Refused(r)), ~ Arrive(r)
  PROVE  StepsLeft(r)' <= StepsLeft(r)
<1>1. stage \in [Request -> Stages]
  BY DEF IInv, PoolTypeOK
<1>2. stage'[r] = stage[r]
  BY <1>1 DEF Next, Handle, Arrive, CheckOut, Open, Queue, TimeOut, Connect, Lock,
     Commit, Read, Refused, Broken, Close, Answered, Crash, Recover, Rest, vars
<1>3. StepsLeft(r)' = StepsLeft(r) /\ StepsLeft(r) \in 0..4
  BY <1>2 DEF StepsLeft
<1> QED BY <1>3

\* A request is over after at most four steps of its handler, whatever the others
\* and PostgreSQL do; with NobodyWaitsForever: it ends if handlers go on that can
\* (db.py:22-23, 29-31; Pool.tla, EveryRequestEnds).
THEOREM HandlersRunOut == Spec => RequestsRunOut
<1> DEFINE Uses(r) == /\ Handle(r) \/ Refused(r) => StepsLeft(r)' < StepsLeft(r)
                      /\ ~ Arrive(r) => StepsLeft(r)' <= StepsLeft(r)
<1>1. IInv /\ [Next]_vars => [\A r \in Request : Uses(r)]_vars
  <2> SUFFICES ASSUME IInv, Next, NEW r \in Request PROVE Uses(r)
    OBVIOUS
  <2>1. StepsLeft(r)' \in 0..4 /\ StepsLeft(r) \in 0..4
    BY DEF StepsLeft
  <2> QED BY <2>1, HandlerGoesOn, OthersThrowNobodyBack
<1> QED BY <1>1, PoolInvariant, PTL DEF Spec, RequestsRunOut

=============================================================================
