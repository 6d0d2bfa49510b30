------------------------------ MODULE LoaderProofs ------------------------------
(***************************************************************************)
(* What the loader prints, for a file, batches, windows and pools of any   *)
(* size and any outages.  The errors are the refused calls among those     *)
(* collected, a created call has landed, and the lines counted are the     *)
(* full batches collected less what the last one is short of.  And what a  *)
(* scenario of chaos.sh around such a load shows.                          *)
(***************************************************************************)
EXTENDS Chaos, FiniteSetTheorems, TLAPS

Collected == (1..next) \ inflight

Refused == {i \in Collected : call[i] = "refused"}

Short == Calls * BatchSize - Lines

Windows ==
  /\ Cardinality(inflight) <= Window
  /\ phase = "submitting" => Cardinality(inflight) < Window

Ends ==
  /\ phase = "loaded" => next = Calls /\ inflight = {}
  /\ phase = "aborted" => In("queued") \cup In("posting") = {}

Honest ==
  /\ \A i \in Collected : call[i] \in {"created", "refused"}
  /\ \A i \in Call : call[i] = "created" => i \in landed
  /\ errors = Cardinality(Refused)

Counted ==
  sent = Cardinality(Collected) * BatchSize - (IF Calls \in Collected THEN Short ELSE 0)

IInv == LoaderTypeOK /\ Windows /\ Ends /\ Honest /\ Counted

-----------------------------------------------------------------------------
\* The file in calls.

LEMMA Division ==
  ASSUME NEW a \in Nat, NEW b \in Nat \ {0}
  PROVE  /\ a \div b \in Nat /\ a % b \in 0..(b - 1)
         /\ a = (a \div b) * b + (a % b)
OBVIOUS

\* All calls are full but the last, which is short of what the file does not have.
LEMMA Sizes ==
  /\ Calls \in Nat
  /\ Calls = 0 => Lines = 0
  /\ \A i \in Call : Size(i) \in Nat /\ Size(i) = IF i = Calls THEN BatchSize - Short ELSE BatchSize
<1>1. /\ Lines \in Nat /\ BatchSize \in Nat \ {0}
  BY LoaderAssumption
<1>2. /\ Calls \in Nat
      /\ \E r \in 0..(BatchSize - 1) : Lines + BatchSize - 1 = Calls * BatchSize + r
  <2>1. Lines + BatchSize - 1 \in Nat
    BY <1>1
  <2>2. /\ Calls \in Nat /\ (Lines + BatchSize - 1) % BatchSize \in 0..(BatchSize - 1)
        /\ Lines + BatchSize - 1 = Calls * BatchSize + ((Lines + BatchSize - 1) % BatchSize)
    BY <1>1, <2>1, Division DEF Calls
  <2> QED
    BY <2>2
<1>3. Calls = 0 => Lines = 0
  BY <1>1, <1>2
<1>4. ASSUME NEW i \in Call, i # Calls PROVE Size(i) = BatchSize
  <2>1. i + 1 <= Calls /\ i \in Nat
    BY <1>2, <1>4 DEF Call
  <2>2. (i + 1) * BatchSize <= Calls * BatchSize
    BY <1>1, <1>2, <2>1
  <2>3. i * BatchSize <= Lines
    BY <1>1, <1>2, <2>1, <2>2
  <2> QED
    BY <2>3 DEF Size
<1>5. ASSUME Calls \in Call PROVE Size(Calls) \in Nat /\ Size(Calls) = BatchSize - Short
  <2>1. Calls * BatchSize \in Nat /\ Short \in 0..(BatchSize - 1)
    BY <1>1, <1>2 DEF Short
  <2>2. CASE Calls * BatchSize <= Lines
    BY <1>1, <2>1, <2>2 DEF Size, Short
  <2>3. CASE ~(Calls * BatchSize <= Lines)
    <3>1. Lines % BatchSize = BatchSize - Short
      <4>1. PICK q \in Nat, r \in 0..(BatchSize - 1) : Lines = q * BatchSize + r /\ r = Lines % BatchSize
        BY <1>1, Division
      <4>2. Lines = (Calls - 1) * BatchSize + (BatchSize - Short)
        BY <1>1, <1>2 DEF Short
      <4>3. BatchSize - Short \in 0..(BatchSize - 1)
        BY <1>1, <2>1, <2>3 DEF Short
      <4>4. q = Calls - 1
        <5>1. CASE q >= Calls
          <6>1. q * BatchSize >= Calls * BatchSize
            BY <1>1, <1>2, <5>1
          <6> QED
            BY <6>1, <4>1, <1>1, <2>3, <2>1
        <5>2. CASE q + 1 <= Calls - 1
          <6>1. (q + 1) * BatchSize <= (Calls - 1) * BatchSize
            BY <1>1, <1>2, <5>2
          <6> QED
            BY <6>1, <4>1, <4>2, <4>3, <1>1, <1>2, <2>1
        <5> QED
          BY <5>1, <5>2, <1>2
      <4> QED
        BY <4>1, <4>2, <4>4, <1>1, <1>2, <2>1
    <3> QED
      BY <3>1, <1>1, <2>1, <2>3 DEF Size
  <2> QED
    BY <2>2, <2>3, <1>1, <2>1
<1> QED
  BY <1>1, <1>2, <1>3, <1>4, <1>5 DEF Call

-----------------------------------------------------------------------------
\* The invariant.

LEMMA Limits == /\ Concurrency \in Nat \ {0} /\ Window \in Nat \ {0} /\ BatchSize \in Nat \ {0}
                /\ Lines \in Nat /\ MaxOutages \in Nat /\ Calls \in Nat /\ Short \in Int
BY LoaderAssumption, Sizes DEF Short

LEMMA FiniteSets ==
  ASSUME LoaderTypeOK
  PROVE  /\ next \in Nat
         /\ \A S \in SUBSET (1..next) : IsFiniteSet(S) /\ Cardinality(S) \in Nat
         /\ \A S \in SUBSET Call : IsFiniteSet(S) /\ Cardinality(S) \in Nat
<1>1. next \in Nat /\ Calls \in Nat
  BY Limits DEF LoaderTypeOK
<1>2. IsFiniteSet(1..next) /\ IsFiniteSet(Call)
  BY <1>1, FS_Interval DEF Call
<1> QED
  BY <1>1, <1>2, FS_Subset, FS_CardinalityType

LEMMA InitIInv == Init => IInv
<1> SUFFICES ASSUME Init PROVE IInv
  OBVIOUS
<1>1. 1..next = {} /\ Collected = {} /\ Refused = {} /\ In("posting") = {}
  BY DEF Init, Collected, Refused, In
<1>2. Cardinality({}) = 0
  BY FS_EmptySet
<1>3. LoaderTypeOK
  <2>1. Cardinality(In("posting")) = 0
    BY <1>1, <1>2
  <2>2. call \in [Call -> Stages] /\ \A i \in Call : call[i] = "unsent" /\ i > 0
    BY Limits DEF Init, Stages, Call
  <2>3. {app, db} \subseteq Part /\ phase \in Phases
    BY DEF Init, Part, Phases
  <2> QED
    BY <2>1, <2>2, <2>3, Limits DEF Init, LoaderTypeOK
<1>4. Windows /\ Ends
  BY <1>2, Limits DEF Init, Windows, Ends
<1>5. Honest /\ Counted
  BY <1>1, <1>2, Limits DEF Init, Honest, Counted
<1> QED
  BY <1>3, <1>4, <1>5 DEF IInv

\* Steps that collect nothing: a call only moves while it is queued or posted.
LEMMA QuietStep ==
  ASSUME IInv, LoaderTypeOK',
         UNCHANGED <<next, inflight, sent, errors>>,
         \A i \in Call : call'[i] = call[i] \/ call[i] \in {"queued", "posting"},
         \A i \in Call : call'[i] = "created" => call[i] = "created" \/ i \in landed,
         landed \subseteq landed',
         phase' = "submitting" => phase = "submitting" \/ inflight = {},
         phase' = "loaded" => phase = "loaded" \/ (next = Calls /\ inflight = {}),
         phase' = "aborted" => (In("queued") \cup In("posting"))' = {}
  PROVE  IInv'
<1> USE DEF IInv
<1>1. Collected' = Collected /\ Collected \subseteq Call
  BY Limits DEF Collected, LoaderTypeOK, Call
<1>2. \A i \in Collected : call'[i] = call[i]
  BY <1>1 DEF Honest
<1>3. Refused' = Refused
  BY <1>1, <1>2 DEF Refused
<1>4. Windows'
  BY FS_EmptySet, Limits DEF Windows
<1>5. Ends'
  BY DEF Ends
<1>6. Honest'
  BY <1>1, <1>2, <1>3 DEF Honest
<1>7. Counted'
  BY <1>1 DEF Counted
<1> QED
  BY <1>4, <1>5, <1>6, <1>7

\* A stage of one call changes.
LEMMA OneCall ==
  ASSUME LoaderTypeOK, NEW i \in Call, NEW s \in Stages \ {"unsent"}, i <= next,
         call' = [call EXCEPT ![i] = s], next' = next
  PROVE  /\ call' \in [Call -> Stages]
         /\ \A j \in Call : call'[j] = IF j = i THEN s ELSE call[j]
         /\ \A j \in Call : call'[j] = "unsent" <=> j > next'
         /\ s # "posting" => Cardinality(In("posting")') <= Concurrency
<1>1. /\ call' \in [Call -> Stages]
      /\ \A j \in Call : call'[j] = IF j = i THEN s ELSE call[j]
  BY DEF LoaderTypeOK
<1>2. \A j \in Call : call'[j] = "unsent" <=> j > next'
  BY <1>1, FiniteSets, Limits DEF LoaderTypeOK, Call
<1>3. ASSUME s # "posting" PROVE Cardinality(In("posting")') <= Concurrency
  <2>1. In("posting")' \in SUBSET In("posting") /\ In("posting") \in SUBSET Call
    BY <1>1, <1>3 DEF In
  <2>2. /\ IsFiniteSet(In("posting")) /\ Cardinality(In("posting")) \in Nat
        /\ Cardinality(In("posting")') \in Nat
    BY <2>1, FiniteSets
  <2>3. Cardinality(In("posting")') <= Cardinality(In("posting"))
    BY <2>1, <2>2, FS_Subset
  <2> QED
    BY <2>2, <2>3, Limits DEF LoaderTypeOK
<1> QED
  BY <1>1, <1>2, <1>3

-----------------------------------------------------------------------------
\* The steps.

LEMMA SubmitStep == ASSUME IInv, Submit PROVE IInv'
<1> USE DEF IInv
<1>1. /\ next + 1 \in Call /\ next + 1 \notin inflight /\ next \in Nat
      /\ inflight \in SUBSET (1..next)
  BY Limits DEF Submit, LoaderTypeOK, Call
<1>2. /\ \A j \in Call : call'[j] = IF j = next + 1 THEN "queued" ELSE call[j]
      /\ call' \in [Call -> Stages]
  BY <1>1 DEF Submit, LoaderTypeOK, Stages
<1>3. Collected' = Collected /\ Collected \subseteq Call /\ next + 1 \notin Collected
  BY <1>1, Limits DEF Submit, Collected, LoaderTypeOK, Call
<1>4. Refused' = Refused
  BY <1>2, <1>3 DEF Refused
<1>5. /\ Cardinality(inflight) \in Nat
      /\ Cardinality(inflight') = Cardinality(inflight) + 1
  BY <1>1, FiniteSets, FS_AddElement DEF Submit
<1>6. LoaderTypeOK'
  <2>1. In("posting")' = In("posting")
    BY <1>2, <1>1 DEF In, LoaderTypeOK
  <2>2. \A j \in Call : call'[j] = "unsent" <=> j > next'
    BY <1>1, <1>2, Limits DEF Submit, LoaderTypeOK, Call
  <2>3. /\ next' \in 0..Calls /\ inflight' \subseteq 1..next'
        /\ inside' \subseteq 1..next' /\ landed' \subseteq 1..next'
    BY <1>1, Limits DEF Submit, service, LoaderTypeOK, Call
  <2>4. phase' \in Phases
    BY DEF Submit, LoaderTypeOK, Phases
  <2> QED
    BY <1>2, <2>1, <2>2, <2>3, <2>4 DEF Submit, service, LoaderTypeOK
<1>7. Windows'
  BY <1>5, Limits DEF Submit, Windows
<1>8. Ends'
  BY DEF Submit, Ends
<1>9. Honest'
  <2>1. \A j \in Collected' : call'[j] \in {"created", "refused"}
    BY <1>2, <1>3 DEF Honest
  <2>2. \A j \in Call : call'[j] = "created" => j \in landed'
    BY <1>2 DEF Honest, Submit, service
  <2> QED
    BY <2>1, <2>2, <1>4 DEF Honest, Submit
<1>10. Counted'
  BY <1>3 DEF Counted, Submit
<1> QED
  BY <1>6, <1>7, <1>8, <1>9, <1>10

\* A result that is no exception.
LEMMA CountStep ==
  ASSUME IInv, phase = "draining", NEW i \in inflight, NEW wrong \in BOOLEAN,
         call[i] = IF wrong THEN "refused" ELSE "created",
         Count(i, wrong), UNCHANGED <<next, call, service>>
  PROVE  IInv'
<1> USE DEF IInv
<1>1. /\ i \in Call /\ i \in 1..next /\ next \in Nat
      /\ inflight \in SUBSET (1..next) /\ Collected \in SUBSET (1..next)
      /\ Collected \subseteq Call /\ Refused \in SUBSET (1..next)
  BY Limits DEF LoaderTypeOK, Call, Collected, Refused
<1>2. Collected' = Collected \cup {i} /\ i \notin Collected
  BY <1>1 DEF Count, Collected
<1>3. Refused' = (IF wrong THEN Refused \cup {i} ELSE Refused) /\ i \notin Refused
  BY <1>2 DEF Refused
<1>4. /\ Cardinality(Collected) \in Nat /\ Cardinality(Refused) \in Nat
      /\ Cardinality(Collected') = Cardinality(Collected) + 1
  BY <1>1, <1>2, FiniteSets, FS_AddElement
<1>5. Cardinality(Refused') = IF wrong THEN Cardinality(Refused) + 1 ELSE Cardinality(Refused)
  BY <1>1, <1>3, FiniteSets, FS_AddElement
<1>6. /\ Cardinality(inflight) \in Nat
      /\ Cardinality(inflight') = Cardinality(inflight) - 1
  BY <1>1, FiniteSets, FS_RemoveElement DEF Count
<1>7. /\ Size(i) \in Nat
      /\ Size(i) = IF i = Calls THEN BatchSize - Short ELSE BatchSize
  BY <1>1, Sizes
<1>8. LoaderTypeOK'
  <2>1. sent' \in Nat /\ errors' \in Nat
    BY <1>7 DEF Count, LoaderTypeOK
  <2> QED
    BY <2>1 DEF Count, service, LoaderTypeOK, In
<1>9. Windows'
  BY <1>6, Limits DEF Windows, Count
<1>10. Ends'
  BY DEF Ends, Count
<1>11. Honest'
  BY <1>2, <1>5 DEF Honest, Count, service
<1>12. Counted'
  <2>1. (Cardinality(Collected) + 1) * BatchSize = Cardinality(Collected) * BatchSize + BatchSize
    BY <1>4, Limits
  <2>2. Cardinality(Collected) * BatchSize \in Nat
    BY <1>4, Limits
  <2>3. sent' = sent + Size(i)
    BY DEF Count
  <2>4. Calls \in Collected' <=> Calls \in Collected \/ i = Calls
    BY <1>2
  <2>5. CASE i = Calls
    BY <2>1, <2>2, <2>3, <2>4, <2>5, <1>2, <1>4, <1>7, Limits DEF Counted
  <2>6. CASE i # Calls
    BY <2>1, <2>2, <2>3, <2>4, <2>6, <1>4, <1>7, Limits DEF Counted
  <2> QED
    BY <2>5, <2>6
<1> QED
  BY <1>8, <1>9, <1>10, <1>11, <1>12

LEMMA CollectStep == ASSUME IInv, NEW i \in Call, Collect(i) PROVE IInv'
<1>1. CASE call[i] = "created" /\ Count(i, FALSE)
  BY <1>1, CountStep DEF Collect
<1>2. CASE call[i] = "refused" /\ Count(i, TRUE)
  BY <1>2, CountStep DEF Collect
<1>3. CASE call[i] = "raised" /\ phase' = "aborting" /\ UNCHANGED <<sent, errors, inflight>>
  <2>1. LoaderTypeOK'
    BY <1>3 DEF Collect, IInv, LoaderTypeOK, Phases, In, service
  <2> QED
    BY <1>3, <2>1, QuietStep DEF Collect, service
<1> QED
  BY <1>1, <1>2, <1>3 DEF Collect

\* The end of the file and of a window, and leaving the with statement.
LEMMA PhaseStep == ASSUME IInv, LastWindow \/ WindowDone \/ Abort PROVE IInv'
<1>1. LoaderTypeOK'
  BY DEF LastWindow, WindowDone, Abort, IInv, LoaderTypeOK, Phases, In, service
<1>2. UNCHANGED <<next, inflight, call, sent, errors, landed>>
  BY DEF LastWindow, WindowDone, Abort, service
<1>3. /\ phase' = "submitting" => inflight = {}
      /\ phase' = "loaded" => next = Calls /\ inflight = {}
      /\ phase' = "aborted" => (In("queued") \cup In("posting"))' = {}
  BY DEF LastWindow, WindowDone, Abort, In
<1> QED
  BY <1>1, <1>2, <1>3, QuietStep

\* A call that is not unsent has been submitted.
LEMMA Submitted ==
  ASSUME LoaderTypeOK, NEW i \in Call, call[i] # "unsent"
  PROVE  i \in 1..next
BY Limits DEF LoaderTypeOK, Call

LEMMA PostStep == ASSUME IInv, NEW i \in Call, Post(i) PROVE IInv'
<1> USE DEF IInv
<1>1. i \in 1..next /\ call[i] = "queued" /\ UNCHANGED <<phase, next, inflight, landed>>
  BY Submitted DEF Post
<1>2. PICK s \in {"posting", "raised"} :
        /\ call' = [call EXCEPT ![i] = s]
        /\ inside' \subseteq inside \cup {i}
  BY DEF Post
<1>3. /\ call' \in [Call -> Stages]
      /\ \A j \in Call : call'[j] = IF j = i THEN s ELSE call[j]
      /\ \A j \in Call : call'[j] = "unsent" <=> j > next'
      /\ s # "posting" => Cardinality(In("posting")') <= Concurrency
  <2>1. s \in Stages \ {"unsent"} /\ i <= next /\ next' = next
    BY <1>1 DEF Stages
  <2> QED
    BY <1>2, <2>1, OneCall
<1>4. ASSUME s = "posting" PROVE Cardinality(In("posting")') <= Concurrency
  <2>1. In("posting")' = In("posting") \cup {i} /\ i \notin In("posting") /\ In("posting") \in SUBSET Call
    BY <1>1, <1>3, <1>4 DEF In
  <2>2. /\ Cardinality(In("posting")) \in Nat
        /\ Cardinality(In("posting")') = Cardinality(In("posting")) + 1
    BY <2>1, FiniteSets, FS_AddElement
  <2>3. Cardinality(In("posting")) < Concurrency
    BY DEF Post
  <2> QED
    BY <2>2, <2>3, Limits
<1>5. LoaderTypeOK'
  BY <1>1, <1>2, <1>3, <1>4 DEF Post, LoaderTypeOK
<1>6. /\ \A j \in Call : call'[j] = call[j] \/ call[j] \in {"queued", "posting"}
      /\ \A j \in Call : call'[j] = "created" => call[j] = "created"
  BY <1>1, <1>3
<1>7. phase # "aborted" /\ (phase' = "loaded" => next = Calls /\ inflight = {})
  BY <1>1 DEF Ends, In
<1> QED
  BY <1>1, <1>5, <1>6, <1>7, QuietStep DEF Post

LEMMA TimeOutStep == ASSUME IInv, NEW i \in Call, TimeOut(i) PROVE IInv'
<1> USE DEF IInv
<1>1. i \in 1..next /\ call[i] = "posting"
  BY Submitted DEF TimeOut
<1>2. /\ call' \in [Call -> Stages]
      /\ \A j \in Call : call'[j] = IF j = i THEN "raised" ELSE call[j]
      /\ \A j \in Call : call'[j] = "unsent" <=> j > next'
      /\ Cardinality(In("posting")') <= Concurrency
  <2>1. "raised" \in Stages \ {"unsent"} /\ i <= next /\ next' = next
    BY <1>1 DEF TimeOut, Stages
  <2> QED
    BY <2>1, OneCall DEF TimeOut
<1>3. LoaderTypeOK'
  BY <1>2 DEF TimeOut, LoaderTypeOK, service
<1>4. phase # "aborted"
  BY <1>1 DEF Ends, In
<1> QED
  BY <1>1, <1>2, <1>3, <1>4, QuietStep DEF TimeOut, service, Ends

LEMMA AnswerStep == ASSUME IInv, NEW i \in Call, Answer(i) PROVE IInv'
<1> USE DEF IInv
<1>1. UNCHANGED <<phase, next, inflight, sent, errors, landed>> /\ inside' \subseteq inside
  BY DEF Answer
<1>2. PICK code \in {"created", "refused"} :
        /\ code = "created" => i \in landed
        /\ call' = IF call[i] = "posting" THEN [call EXCEPT ![i] = code] ELSE call
  BY DEF Answer
<1>3. CASE call[i] = "posting"
  <2>1. i \in 1..next
    BY <1>3, Submitted
  <2>2. /\ call' \in [Call -> Stages]
        /\ \A j \in Call : call'[j] = IF j = i THEN code ELSE call[j]
        /\ \A j \in Call : call'[j] = "unsent" <=> j > next'
        /\ Cardinality(In("posting")') <= Concurrency
    <3>1. code \in Stages \ {"unsent"} /\ code # "posting" /\ i <= next /\ next' = next
      BY <1>1, <2>1 DEF Stages
    <3> QED
      BY <1>2, <1>3, <3>1, OneCall
  <2>3. LoaderTypeOK'
    BY <1>1, <2>2 DEF Answer, LoaderTypeOK
  <2>4. phase # "aborted"
    BY <1>3 DEF Ends, In
  <2>5. /\ \A j \in Call : call'[j] = call[j] \/ call[j] \in {"queued", "posting"}
        /\ \A j \in Call : call'[j] = "created" => call[j] = "created" \/ j \in landed
    BY <1>2, <1>3, <2>2
  <2> QED
    BY <1>1, <2>3, <2>4, <2>5, QuietStep DEF Ends
<1>4. CASE call[i] # "posting"
  <2>1. call' = call
    BY <1>2, <1>4
  <2>2. LoaderTypeOK'
    BY <1>1, <2>1 DEF Answer, LoaderTypeOK, In
  <2> QED
    BY <1>1, <2>1, <2>2, QuietStep DEF Ends, In
<1> QED
  BY <1>3, <1>4

LEMMA KillAppStep == ASSUME IInv, KillApp, outages' \in 0..MaxOutages PROVE IInv'
<1> USE DEF IInv
<1>1. UNCHANGED <<phase, next, inflight, sent, errors, db, landed>> /\ inside' = {} /\ app' = "down"
  BY DEF KillApp
<1>2. /\ \A j \in Call : call'[j] = IF call[j] = "posting" THEN "raised" ELSE call[j]
      /\ call' \in [Call -> Stages]
  BY DEF KillApp, LoaderTypeOK, Stages
<1>3. In("posting")' = {}
  BY <1>2 DEF In
<1>4. LoaderTypeOK'
  <2>1. Cardinality(In("posting")') <= Concurrency
    BY <1>3, FS_EmptySet, Limits
  <2>2. \A j \in Call : call'[j] = "unsent" <=> j > next'
    BY <1>1, <1>2 DEF LoaderTypeOK
  <2> QED
    BY <1>1, <1>2, <2>1, <2>2 DEF LoaderTypeOK, Part
<1>5. (In("queued") \cup In("posting"))' \subseteq In("queued")
  BY <1>2 DEF In
<1> QED
  BY <1>1, <1>2, <1>4, <1>5, QuietStep DEF Ends

\* Steps of the service that no call notices.
LEMMA ServiceStep ==
  ASSUME IInv, UNCHANGED <<loader, inside>>, {app', db'} \subseteq Part,
         outages' \in 0..MaxOutages, landed \subseteq landed', landed' \subseteq landed \cup inside
  PROVE  IInv'
<1> USE DEF IInv
<1>1. LoaderTypeOK'
  BY DEF LoaderTypeOK, loader, In
<1> QED
  BY <1>1, QuietStep DEF loader, Ends, In

LEMMA NextIInv == IInv /\ [Next]_vars => IInv'
<1> SUFFICES ASSUME IInv, [Next]_vars PROVE IInv'
  OBVIOUS
<1>1. CASE Main
  BY <1>1, SubmitStep, CollectStep, PhaseStep DEF Main
<1>2. CASE \E i \in Call : Thread(i)
  BY <1>2, PostStep, TimeOutStep DEF Thread
<1>3. ASSUME NEW i \in Call, Land(i) PROVE IInv'
  <2>1. landed \subseteq landed' /\ landed' \subseteq landed \cup inside
    BY <1>3 DEF Land
  <2> QED
    BY <1>3, <2>1, ServiceStep DEF Land, IInv, LoaderTypeOK, loader
<1>4. CASE AppReady \/ DatabaseReady \/ Restart("app") \/ Restart("db")
  <2>1. {app', db'} \subseteq Part /\ UNCHANGED <<loader, inside, landed, outages>>
    BY <1>4 DEF AppReady, DatabaseReady, Restart, IInv, LoaderTypeOK, Part
  <2> QED
    BY <2>1, ServiceStep DEF IInv, LoaderTypeOK
<1>5. CASE Outage
  <2>1. outages' \in 0..MaxOutages
    BY <1>5, Limits DEF Outage, IInv, LoaderTypeOK
  <2>2. CASE KillApp
    BY <2>1, <2>2, KillAppStep
  <2>3. CASE KillDatabase
    BY <2>1, <2>3, ServiceStep DEF KillDatabase, IInv, LoaderTypeOK, Part
  <2> QED
    BY <1>5, <2>2, <2>3 DEF Outage
<1>6. CASE Rest \/ UNCHANGED vars
  <2>1. UNCHANGED <<loader, service>>
    BY <1>6 DEF Rest, vars
  <2> QED
    BY <2>1, ServiceStep DEF loader, service, IInv, LoaderTypeOK
<1> QED
  BY <1>1, <1>2, <1>3, <1>4, <1>5, <1>6, AnswerStep DEF Next, Load, Serve

THEOREM Invariance == Spec => []IInv
<1> QED
  BY InitIInv, NextIInv, PTL DEF Spec

-----------------------------------------------------------------------------
\* What it is for.

\* The loader is in order: no more posts than threads, and nothing of a call
\* that was not submitted reaches the service (generate.py:112-120).
THEOREM TypeCorrect == Spec => []LoaderTypeOK
<1>1. IInv => LoaderTypeOK
  BY DEF IInv
<1> QED
  BY <1>1, Invariance, PTL

\* What has not landed was refused or is in flight.
LEMMA MissingBounded ==
  ASSUME IInv
  PROVE  Cardinality((1..next) \ landed) <= errors + Cardinality(inflight)
<1> USE DEF IInv
<1>1. (1..next) \ landed \in SUBSET (Refused \cup inflight)
  BY Limits DEF Honest, Refused, Collected, LoaderTypeOK, Call
<1>2. Refused \in SUBSET (1..next) /\ inflight \in SUBSET (1..next)
  BY DEF Refused, Collected, LoaderTypeOK
<1>3. /\ IsFiniteSet(Refused) /\ IsFiniteSet(inflight) /\ IsFiniteSet(Refused \cup inflight)
      /\ Cardinality(Refused) \in Nat /\ Cardinality(inflight) \in Nat
      /\ Cardinality(Refused \cap inflight) \in Nat
  <2>1. Refused \cap inflight \in SUBSET (1..next) /\ Refused \cup inflight \in SUBSET (1..next)
    BY <1>2
  <2> QED
    BY <1>2, <2>1, FiniteSets
<1>4. Cardinality(Refused \cup inflight) <= Cardinality(Refused) + Cardinality(inflight)
  <2>1. Cardinality(Refused \cup inflight)
          = Cardinality(Refused) + Cardinality(inflight) - Cardinality(Refused \cap inflight)
    BY <1>3, FS_Union
  <2> QED
    BY <2>1, <1>3
<1>5. /\ Cardinality((1..next) \ landed) <= Cardinality(Refused \cup inflight)
      /\ Cardinality((1..next) \ landed) \in Nat /\ Cardinality(Refused \cup inflight) \in Nat
  BY <1>1, <1>3, FS_Subset, FS_CardinalityType
<1> QED
  BY <1>3, <1>4, <1>5 DEF Honest

\* Of a finished load it was refused.
LEMMA FinishedHonest ==
  ASSUME IInv, phase = "loaded"
  PROVE  Cardinality(Call \ landed) <= errors
<1>1. next = Calls /\ inflight = {}
  BY DEF IInv, Ends
<1>2. Call \ landed = (1..next) \ landed /\ Cardinality(inflight) = 0
  BY <1>1, FS_EmptySet DEF Call
<1>3. errors \in Nat /\ Cardinality((1..next) \ landed) <= errors + Cardinality(inflight)
  BY MissingBounded DEF IInv, LoaderTypeOK
<1> QED
  BY <1>2, <1>3

\* The errors a finished load prints bound what is missing, for any file, batches,
\* threads and outages (generate.py:124, 138).
THEOREM ErrorsTellTheLoss == Spec => []LoadedHonest
<1>1. IInv => LoadedHonest
  BY FinishedHonest DEF LoadedHonest
<1> QED
  BY <1>1, Invariance, PTL

\* An exception costs at most one window beyond the errors counted
\* (generate.py:112-122, 168-177).
THEOREM AbortBounded == Spec => []AbortLosesOneWindow
<1>1. ASSUME IInv, phase = "aborted" PROVE Cardinality((1..next) \ landed) <= errors + Window
  <2>1. /\ Cardinality((1..next) \ landed) \in Nat /\ Cardinality(inflight) \in Nat
        /\ errors \in Nat /\ Cardinality(inflight) <= Window
    BY <1>1, FiniteSets DEF IInv, LoaderTypeOK, Windows
  <2> QED
    BY <1>1, <2>1, MissingBounded, Limits
<1>2. IInv => AbortLosesOneWindow
  BY <1>1 DEF AbortLosesOneWindow, IInv, Ends
<1> QED
  BY <1>2, Invariance, PTL

\* A finished load has counted every line of the file, whatever the batches and
\* windows leave for the end (generate.py:133-138, 157-166, 188-193).
THEOREM EveryLineCounted == Spec => []LoadedCounts
<1>1. ASSUME IInv, phase = "loaded" PROVE sent = Lines
  <2>1. Collected = 1..Calls
    BY <1>1 DEF IInv, Ends, Collected
  <2>2. Cardinality(Collected) = Calls
    BY <2>1, FS_Interval, Limits
  <2>3. sent = Calls * BatchSize - (IF Calls \in 1..Calls THEN Short ELSE 0)
    BY <1>1, <2>1, <2>2 DEF IInv, Counted
  <2>4. CASE Calls = 0
    <3>1. sent = 0 * BatchSize - 0
      BY <2>3, <2>4
    <3> QED
      BY <3>1, <2>4, Sizes, Limits
  <2>5. CASE Calls # 0
    <3>1. Calls \in 1..Calls /\ Calls * BatchSize \in Nat
      BY <2>5, Limits
    <3> QED
      BY <2>3, <3>1, Limits DEF Short
  <2> QED
    BY <2>4, <2>5
<1>2. IInv => LoadedCounts
  BY <1>1 DEF LoadedCounts
<1> QED
  BY <1>2, Invariance, PTL

-----------------------------------------------------------------------------
\* A scenario of chaos.sh around the load.

\* The database's scenario leaves the application alone, so no call fails but
\* by its timeout.
Spared ==
  target = "db" =>
    /\ app = "up"
    /\ In("raised") # {} \/ phase \in {"aborting", "aborted"} => gaveUp

ScriptOK ==
  /\ target \in {"app", "db"} /\ script \in ScriptStages /\ verdict \in {"none", "PASS", "FAIL"}
  /\ gaveUp \in BOOLEAN
  /\ script = "writing" => outages = 0
  /\ script = "killed" => (IF target = "app" THEN app ELSE db) = "down"

ChaosInv == IInv /\ ScriptOK /\ Spared

LEMMA ChaosInvInit == ChaosInit => ChaosInv
<1> SUFFICES ASSUME ChaosInit PROVE ChaosInv
  OBVIOUS
<1>1. IInv
  BY InitIInv DEF ChaosInit
<1>2. ScriptOK
  BY DEF ChaosInit, Init, ScriptOK, ScriptStages
<1>3. Spared
  BY DEF ChaosInit, Init, Spared, In
<1> QED BY <1>1, <1>2, <1>3 DEF ChaosInv

\* The load and the service go on under the script.
LEMMA MeanwhileStep == ASSUME ChaosInv, Meanwhile PROVE ChaosInv'
<1>0. /\ IInv /\ Load /\ UNCHANGED <<target, script, verdict>>
      /\ gaveUp' = (gaveUp \/ \E i \in Call : call[i] = "posting" /\ call'[i] = "raised")
  BY DEF ChaosInv, Meanwhile
<1>1. IInv'
  BY <1>0, NextIInv DEF Next
<1>2. outages' = outages
  BY <1>0 DEF Load, Main, Serve, Thread, Submit, LastWindow, WindowDone, Abort, Collect, Post,
     TimeOut, AppReady, DatabaseReady, Land, Answer, service
<1>3. ScriptOK'
  <2>1. script = "killed" /\ app = "down" => app' = "down"
    BY <1>0 DEF Load, Main, Serve, Thread, Submit, LastWindow, WindowDone, Abort, Collect, Post,
       TimeOut, AppReady, DatabaseReady, Land, Answer, service
  <2>2. script = "killed" /\ db = "down" => db' = "down"
    BY <1>0 DEF Load, Main, Serve, Thread, Submit, LastWindow, WindowDone, Abort, Collect, Post,
       TimeOut, AppReady, DatabaseReady, Land, Answer, service
  <2>3. target \in {"app", "db"}
    BY DEF ChaosInv, ScriptOK
  <2> QED BY <1>0, <1>2, <2>1, <2>2, <2>3 DEF ChaosInv, ScriptOK
<1>4. Spared'
  <2> SUFFICES ASSUME target = "db"
               PROVE  /\ app' = "up"
                      /\ In("raised")' # {} \/ phase' \in {"aborting", "aborted"} => gaveUp'
    BY <1>0 DEF Spared
  <2>0. app = "up" /\ (In("raised") # {} \/ phase \in {"aborting", "aborted"} => gaveUp)
    BY DEF ChaosInv, Spared
  <2>1. app' = "up"
    BY <1>0, <2>0 DEF Load, Main, Serve, Thread, Submit, LastWindow, WindowDone, Abort, Collect,
       Post, TimeOut, AppReady, DatabaseReady, Land, Answer, service
  <2>2. ASSUME NEW i \in Call, call'[i] = "raised", call[i] # "raised" PROVE call[i] = "posting"
    <3>1. call \in [Call -> Stages]
      BY <1>0 DEF IInv, LoaderTypeOK
    <3> QED BY <1>0, <2>0, <2>2, <3>1 DEF Load, Main, Serve, Thread, Submit, LastWindow,
         WindowDone, Abort, Collect, Post, TimeOut, AppReady, DatabaseReady, Land, Answer, loader
  <2>3. In("raised")' # {} => gaveUp'
    <3> SUFFICES ASSUME NEW i \in Call, call'[i] = "raised" PROVE gaveUp'
      BY DEF In
    <3>1. CASE call[i] = "raised"
      BY <1>0, <2>0, <3>1 DEF In
    <3>2. CASE call[i] # "raised"
      BY <1>0, <2>2, <3>2
    <3> QED BY <3>1, <3>2
  <2>4. ASSUME phase' \in {"aborting", "aborted"}
        PROVE  phase \in {"aborting", "aborted"} \/ In("raised") # {}
    BY <1>0, <2>4 DEF Load, Main, Serve, Thread, Submit, LastWindow, WindowDone, Abort, Collect,
       Count, Post, TimeOut, AppReady, DatabaseReady, Land, Answer, loader, In
  <2>5. gaveUp => gaveUp'
    BY <1>0
  <2> QED BY <2>0, <2>1, <2>3, <2>4, <2>5
<1> QED BY <1>1, <1>3, <1>4 DEF ChaosInv

LEMMA KillStep == ASSUME ChaosInv, Kill PROVE ChaosInv'
<1>0. /\ IInv /\ target' = target /\ verdict' = verdict /\ gaveUp' = gaveUp /\ script' = "killed"
      /\ script = "writing" /\ outages' \in 0..MaxOutages
  BY Limits, ChaosAssumption DEF ChaosInv, Kill, ScriptOK
<1>1. CASE target = "app"
  <2>1. KillApp
    BY <1>1 DEF Kill
  <2>2. IInv'
    BY <1>0, <2>1, KillAppStep
  <2>3. app' = "down"
    BY <2>1 DEF KillApp
  <2> QED BY <1>0, <1>1, <2>2, <2>3 DEF ChaosInv, ScriptOK, ScriptStages, Spared
<1>2. CASE target # "app"
  <2>1. KillDatabase
    BY <1>2 DEF Kill
  <2>2. IInv'
    BY <1>0, <2>1, ServiceStep DEF KillDatabase, IInv, LoaderTypeOK, Part
  <2>3. Spared'
    BY <1>0, <2>1 DEF KillDatabase, loader, ChaosInv, Spared, In
  <2>4. db' = "down"
    BY <2>1 DEF KillDatabase
  <2> QED BY <1>0, <1>2, <2>2, <2>3, <2>4 DEF ChaosInv, ScriptOK, ScriptStages
<1> QED BY <1>1, <1>2

LEMMA UpAgainStep == ASSUME ChaosInv, UpAgain PROVE ChaosInv'
<1>0. /\ IInv /\ UNCHANGED <<target, verdict, gaveUp, loader, inside, landed, outages>>
      /\ script' = "polling" /\ script = "killed"
      /\ {app', db'} \subseteq Part /\ (target = "db" => app' = app)
  BY DEF ChaosInv, UpAgain, Restart, ScriptOK, IInv, LoaderTypeOK, Part
<1>1. IInv'
  BY <1>0, ServiceStep DEF IInv, LoaderTypeOK
<1>2. Spared'
  BY <1>0 DEF ChaosInv, Spared, In, loader
<1> QED BY <1>0, <1>1, <1>2 DEF ChaosInv, ScriptOK, ScriptStages

\* The poll that gives up ends the load; only the application's can.
LEMMA NotRecoveredStep == ASSUME ChaosInv, NotRecovered PROVE ChaosInv'
<1>0. /\ IInv /\ script = "polling" /\ app # "up" /\ script' = "ended" /\ verdict' = "FAIL"
      /\ phase' = (IF Ended THEN phase ELSE "aborted")
      /\ call' = [i \in Call |-> IF call[i] \in {"queued", "posting"} THEN "raised" ELSE call[i]]
      /\ UNCHANGED <<next, inflight, sent, errors, app, db, inside, landed, outages,
                     target, gaveUp>>
  BY DEF ChaosInv, NotRecovered, Health, service
<1>1. call' \in [Call -> Stages] /\ In("posting")' = {} /\ In("queued")' = {}
  BY <1>0 DEF IInv, LoaderTypeOK, Stages, In
<1>2. LoaderTypeOK'
  <2>1. Cardinality(In("posting")') <= Concurrency
    BY <1>1, FS_EmptySet, Limits
  <2>2. phase' \in Phases
    BY <1>0 DEF IInv, LoaderTypeOK, Phases
  <2>3. \A i \in Call : call'[i] = "unsent" <=> i > next'
    BY <1>0 DEF IInv, LoaderTypeOK
  <2> QED BY <1>0, <1>1, <2>1, <2>2, <2>3 DEF IInv, LoaderTypeOK
<1>3. IInv'
  BY <1>0, <1>1, <1>2, QuietStep DEF Ended
<1>4. target # "db"
  BY <1>0 DEF ChaosInv, Spared
<1> QED BY <1>0, <1>3, <1>4 DEF ChaosInv, ScriptOK, ScriptStages, Spared

LEMMA JudgeStep == ASSUME ChaosInv, Judge PROVE ChaosInv'
<1>0. /\ IInv /\ Ended /\ script' = "ended" /\ verdict' \in {"PASS", "FAIL"}
      /\ UNCHANGED <<loader, service, target, gaveUp>>
  BY DEF ChaosInv, Judge, vars
<1>1. IInv'
  BY <1>0, ServiceStep DEF service, IInv, LoaderTypeOK
<1>2. Spared' /\ ScriptOK'
  BY <1>0 DEF ChaosInv, Spared, ScriptOK, ScriptStages, In, loader, service
<1> QED BY <1>1, <1>2 DEF ChaosInv

LEMMA ChaosInvStep == ChaosInv /\ [ChaosNext]_allVars => ChaosInv'
<1> SUFFICES ASSUME ChaosInv, [ChaosNext]_allVars PROVE ChaosInv'
  OBVIOUS
<1>1. ASSUME Recovered \/ ChaosRest \/ UNCHANGED allVars PROVE ChaosInv'
  <2>1. /\ UNCHANGED <<loader, service, target, verdict, gaveUp>>
        /\ script' = script \/ (script = "polling" /\ script' = "waiting")
    BY <1>1 DEF Recovered, ChaosRest, Rest, allVars, vars, chaos
  <2>2. IInv'
    BY <2>1, ServiceStep DEF service, ChaosInv, IInv, LoaderTypeOK
  <2>3. ScriptOK' /\ Spared'
    BY <2>1 DEF ChaosInv, ScriptOK, ScriptStages, Spared, In, loader, service
  <2> QED BY <2>2, <2>3 DEF ChaosInv
<1> QED BY <1>1, MeanwhileStep, KillStep, UpAgainStep, NotRecoveredStep, JudgeStep
     DEF ChaosNext, Script

LEMMA ChaosInvariance == ChaosSpec => []ChaosInv
BY ChaosInvInit, ChaosInvStep, PTL DEF ChaosSpec

\* An outage of the database alone ends the load only by a timeout
\* (docs/benchmark/hard-tests.md:126; chaos.sh:42-92).
THEOREM DatabaseOutageSurvived == ChaosSpec => []WriterSurvivesDatabase
<1>1. ChaosInv => WriterSurvivesDatabase
  BY DEF ChaosInv, Spared, WriterSurvivesDatabase
<1> QED BY <1>1, ChaosInvariance, PTL

-----------------------------------------------------------------------------
\* That load and script come to an end.

\* The main thread or a thread of the pool has a step it can take.
LoadCanGo ==
  \/ phase = "submitting"
  \/ phase = "draining" /\ (inflight = {} \/ \E i \in inflight : call[i] \in {"created", "refused", "raised"})
  \/ phase = "aborting" /\ In("queued") \cup In("posting") = {}
  \/ In("posting") # {}
  \/ In("queued") # {} /\ Cardinality(In("posting")) < Concurrency

\* So has the script: it can restart what it killed, poll, or judge a load that is over.
ScriptCanGo ==
  \/ script = "killed" /\ (IF target = "app" THEN app ELSE db) = "down"
  \/ script = "polling"
  \/ script = "waiting" /\ Ended

NobodyHangs ==
  /\ Ended \/ LoadCanGo
  /\ script \in {"killed", "polling", "waiting"} => ScriptCanGo \/ (script = "waiting" /\ ~ Ended)

Rank ==
  CASE phase = "submitting" -> 3
    [] phase = "draining"   -> IF next = Calls THEN 2 ELSE 4
    [] phase = "aborting"   -> 1
    [] OTHER                -> 0

\* Steps that are left of the load, at most.
StepsLeft ==
  6 * (Calls - next) + Cardinality(inflight)
    + 2 * Cardinality(In("queued")) + Cardinality(In("posting")) + Rank

LoadStep == Main \/ \E i \in Call : Thread(i)

\* The load uses its steps up and nobody gives it new ones.
LoadRunsOut ==
  [][/\ StepsLeft \in Nat /\ StepsLeft' \in Nat
     /\ LoadStep => StepsLeft' < StepsLeft
     /\ StepsLeft' <= StepsLeft]_allVars

\* While the load is not over, a result can be taken, or a call of the window is
\* with the service and can time out, or a thread is free for one.
LEMMA LoadGoesOn ==
  ASSUME IInv, ~ Ended
  PROVE  LoadCanGo
<1>1. phase \in {"submitting", "draining", "aborting"}
  BY DEF IInv, LoaderTypeOK, Phases, Ended
<1>2. ASSUME In("queued") # {} PROVE LoadCanGo
  <2>1. In("posting") = {} => Cardinality(In("posting")) = 0
    BY FS_EmptySet
  <2> QED BY <1>2, <2>1, Limits DEF LoadCanGo
<1>3. CASE phase = "draining"
  <2> SUFFICES ASSUME NEW i \in inflight PROVE LoadCanGo
    BY <1>3 DEF LoadCanGo
  <2>1. i \in Call /\ call[i] \in Stages \ {"unsent"}
    BY Limits DEF IInv, LoaderTypeOK, Call
  <2>2. CASE call[i] = "queued"
    BY <1>2, <2>1, <2>2 DEF In
  <2>3. CASE call[i] = "posting"
    BY <2>1, <2>3 DEF In, LoadCanGo
  <2> QED BY <1>3, <2>1, <2>2, <2>3 DEF LoadCanGo, Stages
<1>4. CASE phase = "aborting"
  BY <1>2, <1>4 DEF LoadCanGo
<1> QED BY <1>1, <1>3, <1>4 DEF LoadCanGo

\* The parts of what is left are numbers.
LEMMA PartsAreNumbers ==
  ASSUME IInv
  PROVE  /\ Calls - next \in Nat /\ Cardinality(inflight) \in Nat
         /\ \A s \in Stages : IsFiniteSet(In(s)) /\ Cardinality(In(s)) \in Nat
         /\ Rank \in 0..4 /\ StepsLeft \in Nat
<1>1. Calls - next \in Nat
  BY Limits DEF IInv, LoaderTypeOK
<1>2. Cardinality(inflight) \in Nat
  BY FiniteSets DEF IInv, LoaderTypeOK
<1>3. \A s \in Stages : IsFiniteSet(In(s)) /\ Cardinality(In(s)) \in Nat
  <2>1. \A s \in Stages : In(s) \in SUBSET Call
    BY DEF In
  <2> QED BY <2>1, FiniteSets DEF IInv
<1>4. Rank \in 0..4
  BY DEF Rank
<1>5. Cardinality(In("queued")) \in Nat /\ Cardinality(In("posting")) \in Nat
  BY <1>3 DEF Stages
<1> QED BY <1>1, <1>2, <1>3, <1>4, <1>5 DEF StepsLeft

\* A call is submitted.
LEMMA SubmitCosts == ASSUME IInv, Submit PROVE StepsLeft' < StepsLeft
<1>1. /\ next + 1 \in Call /\ next + 1 \notin inflight /\ next \in Nat
      /\ inflight \in SUBSET (1..next) /\ call \in [Call -> Stages] /\ call[next + 1] = "unsent"
  BY Limits DEF IInv, Submit, LoaderTypeOK, Call
<1>2. /\ In("queued")' = In("queued") \cup {next + 1} /\ next + 1 \notin In("queued")
      /\ In("posting")' = In("posting")
  BY <1>1 DEF Submit, In
<1>3. /\ Cardinality(inflight') = Cardinality(inflight) + 1
      /\ Cardinality(In("queued")') = Cardinality(In("queued")) + 1
  BY <1>1, <1>2, FiniteSets, FS_AddElement, PartsAreNumbers DEF IInv, Submit, Stages
<1>4. Rank = 3 /\ Rank' \in 0..4 /\ next' = next + 1
  BY DEF Submit, Rank
<1>5. /\ Calls - next \in Nat /\ Cardinality(inflight) \in Nat /\ Calls \in Nat
      /\ Cardinality(In("queued")) \in Nat /\ Cardinality(In("posting")) \in Nat
  BY PartsAreNumbers, Limits DEF Stages
<1>6. StepsLeft' = 6 * (Calls - (next + 1)) + (Cardinality(inflight) + 1)
                     + 2 * (Cardinality(In("queued")) + 1) + Cardinality(In("posting")) + Rank'
  BY <1>2, <1>3, <1>4 DEF StepsLeft
<1> QED BY <1>1, <1>4, <1>5, <1>6 DEF StepsLeft

\* Nobody else gives the load a step.
LEMMA NothingAdded ==
  ASSUME IInv, next' = next, inflight' \subseteq inflight, Rank' \in Nat, Rank' <= Rank,
         In("queued")' \subseteq In("queued"), In("posting")' \subseteq In("posting")
  PROVE  /\ StepsLeft' <= StepsLeft
         /\ Rank' < Rank => StepsLeft' < StepsLeft
         /\ inflight' # inflight => StepsLeft' < StepsLeft
         /\ In("queued")' # In("queued") => StepsLeft' < StepsLeft
         /\ In("posting")' # In("posting") => StepsLeft' < StepsLeft
<1> DEFINE f == Cardinality(inflight)
           q == Cardinality(In("queued"))
           p == Cardinality(In("posting"))
<1>1. /\ Calls - next \in Nat /\ f \in Nat /\ q \in Nat /\ p \in Nat /\ Rank \in Nat
      /\ IsFiniteSet(inflight) /\ IsFiniteSet(In("queued")) /\ IsFiniteSet(In("posting"))
  BY PartsAreNumbers, FiniteSets DEF IInv, LoaderTypeOK, Stages
<1>2. /\ f' \in Nat /\ f' <= f /\ (inflight' # inflight => f' < f)
      /\ q' \in Nat /\ q' <= q /\ (In("queued")' # In("queued") => q' < q)
      /\ p' \in Nat /\ p' <= p /\ (In("posting")' # In("posting") => p' < p)
  <2>1. ASSUME NEW S, NEW T, IsFiniteSet(S), T \subseteq S
        PROVE  /\ Cardinality(T) \in Nat /\ Cardinality(T) <= Cardinality(S)
               /\ T # S => Cardinality(T) < Cardinality(S)
    <3>1. IsFiniteSet(T) /\ Cardinality(T) \in Nat /\ Cardinality(S) \in Nat
          /\ Cardinality(T) <= Cardinality(S)
      BY <2>1, FS_Subset, FS_CardinalityType
    <3>2. Cardinality(T) = Cardinality(S) => S = T
      BY <2>1, FS_Subset
    <3> QED BY <3>1, <3>2
  <2> QED BY <1>1, <2>1
<1>3. /\ StepsLeft = 6 * (Calls - next) + f + 2 * q + p + Rank
      /\ StepsLeft' = 6 * (Calls - next) + f' + 2 * q' + p' + Rank'
  BY DEF StepsLeft
<1> HIDE DEF f, q, p
<1> QED BY <1>1, <1>2, <1>3

\* The steps of the main thread but the submitting.
LEMMA MainCosts == ASSUME IInv, Main, ~ Submit PROVE StepsLeft' < StepsLeft
<1>1. CASE LastWindow \/ WindowDone \/ Abort
  <2>1. /\ next' = next /\ inflight' = inflight /\ call' = call
        /\ Rank' \in Nat /\ Rank' < Rank /\ Rank' <= Rank
    BY <1>1 DEF LastWindow, WindowDone, Abort, Rank
  <2>2. In("queued")' = In("queued") /\ In("posting")' = In("posting")
    BY <2>1 DEF In
  <2> QED BY <2>1, <2>2, NothingAdded
<1>2. ASSUME NEW i \in Call, Collect(i) PROVE StepsLeft' < StepsLeft
  <2>1. /\ next' = next /\ call' = call /\ phase = "draining" /\ i \in inflight
        /\ \/ phase' = phase /\ inflight' = inflight \ {i}
           \/ phase' = "aborting" /\ inflight' = inflight
    BY <1>2 DEF Collect, Count
  <2>2. In("queued")' = In("queued") /\ In("posting")' = In("posting")
    BY <2>1 DEF In
  <2>3. Rank' \in Nat /\ Rank' <= Rank /\ (phase' = "aborting" => Rank' < Rank)
    BY <2>1 DEF Rank
  <2>4. inflight' \subseteq inflight /\ (inflight' # inflight \/ phase' = "aborting")
    BY <2>1
  <2> QED BY <2>1, <2>2, <2>3, <2>4, NothingAdded
<1> QED BY <1>1, <1>2 DEF Main

\* The steps of a thread.
LEMMA ThreadCosts == ASSUME IInv, NEW i \in Call, Thread(i) PROVE StepsLeft' < StepsLeft
<1>1. PICK s \in {"posting", "raised"} :
        /\ call' = [call EXCEPT ![i] = s] /\ UNCHANGED <<phase, next, inflight>>
        /\ \/ call[i] = "queued"
           \/ call[i] = "posting" /\ s = "raised"
  BY DEF Thread, Post, TimeOut
<1>2. \A j \in Call : call'[j] = IF j = i THEN s ELSE call[j]
  BY <1>1 DEF IInv, LoaderTypeOK
<1>3. Rank' = Rank /\ Rank \in Nat /\ next' = next /\ inflight' = inflight
  BY <1>1 DEF Rank
<1>4. CASE s = "raised"
  <2>1. /\ In("queued")' = In("queued") \ {i} /\ In("posting")' = In("posting") \ {i}
        /\ i \in In("queued") \cup In("posting")
    BY <1>1, <1>2, <1>4 DEF In
  <2> QED BY <1>3, <2>1, NothingAdded
<1>5. CASE s = "posting"
  <2>1. /\ In("queued")' = In("queued") \ {i} /\ In("posting")' = In("posting") \cup {i}
        /\ i \in In("queued") /\ i \notin In("posting")
    BY <1>1, <1>2, <1>5 DEF In
  <2>2. /\ IsFiniteSet(In("queued")) /\ IsFiniteSet(In("posting"))
        /\ Cardinality(In("queued")) \in Nat /\ Cardinality(In("posting")) \in Nat
        /\ Calls - next \in Nat /\ Cardinality(inflight) \in Nat
    BY PartsAreNumbers DEF Stages
  <2>3. /\ Cardinality(In("queued")') = Cardinality(In("queued")) - 1
        /\ Cardinality(In("posting")') = Cardinality(In("posting")) + 1
    <3>1. /\ Cardinality(In("queued") \ {i}) = Cardinality(In("queued")) - 1
          /\ Cardinality(In("posting") \cup {i}) = Cardinality(In("posting")) + 1
      BY <2>1, <2>2, FS_AddElement, FS_RemoveElement
    <3> QED BY <2>1, <3>1
  <2>4. StepsLeft' = 6 * (Calls - next) + Cardinality(inflight)
                       + 2 * (Cardinality(In("queued")) - 1) + (Cardinality(In("posting")) + 1) + Rank
    BY <1>3, <2>3 DEF StepsLeft
  <2> QED BY <1>3, <2>2, <2>4 DEF StepsLeft
<1> QED BY <1>4, <1>5

\* The service and the script only take calls off the threads, or end the load.
LEMMA OthersAddNothing ==
  ASSUME IInv, [ChaosNext]_allVars, ~ LoadStep
  PROVE  StepsLeft' <= StepsLeft
<1>1. /\ UNCHANGED <<next, inflight>> /\ (phase' = phase \/ phase' = "aborted")
      /\ \A i \in Call : call'[i] \in {"queued", "posting"} => call'[i] = call[i]
  <2>1. CASE Meanwhile
    <3>1. Serve
      BY <2>1 DEF Meanwhile, Load, LoadStep
    <3> QED BY <3>1 DEF Serve, AppReady, DatabaseReady, Land, Answer, loader, IInv, LoaderTypeOK
  <2>2. CASE Script
    BY <2>2 DEF Script, Kill, KillApp, KillDatabase, UpAgain, Restart, Recovered, NotRecovered,
       Judge, loader, vars
  <2>3. CASE ChaosRest \/ UNCHANGED allVars
    BY <2>3 DEF ChaosRest, Rest, allVars, vars, loader
  <2> QED BY <2>1, <2>2, <2>3 DEF ChaosNext
<1>2. In("queued")' \subseteq In("queued") /\ In("posting")' \subseteq In("posting")
  BY <1>1 DEF In
<1>3. Rank' \in Nat /\ Rank' <= Rank
  BY <1>1 DEF Rank
<1> QED BY <1>1, <1>2, <1>3, NothingAdded

\* Load and script always have a step to take until they are over
\* (generate.py:112-122, 168-177; chaos.sh:61-78): no result is waited for that
\* cannot come or time out, and what was killed can be started again.
THEOREM HarnessGoesOn == ChaosSpec => []NobodyHangs
<1>1. ChaosInv => NobodyHangs
  BY LoadGoesOn DEF ChaosInv, ScriptOK, NobodyHangs, ScriptCanGo
<1> QED BY <1>1, ChaosInvariance, PTL

\* And they run out of them: a load takes a number of steps that its calls bound,
\* whatever the service answers and the script does (generate.py:99-137, 152-193).
THEOREM LoadIsFinite == ChaosSpec => LoadRunsOut
<1>1. ChaosInv => StepsLeft \in Nat
  BY PartsAreNumbers DEF ChaosInv
<1>2. ChaosSpec => [](StepsLeft \in Nat)
  BY <1>1, ChaosInvariance, PTL
<1>3. ChaosInv /\ [ChaosNext]_allVars /\ StepsLeft \in Nat /\ (StepsLeft \in Nat)'
      => [/\ StepsLeft \in Nat /\ StepsLeft' \in Nat
          /\ LoadStep => StepsLeft' < StepsLeft
          /\ StepsLeft' <= StepsLeft]_allVars
  BY SubmitCosts, MainCosts, ThreadCosts, OthersAddNothing DEF ChaosInv, LoadStep
<1> QED BY <1>2, <1>3, ChaosInvariance, PTL DEF ChaosSpec, LoadRunsOut

=============================================================================
