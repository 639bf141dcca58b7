---------------------------- MODULE OutboxProofs ----------------------------
(***************************************************************************)
(* Proofs about module Outbox: the bounded retries for any number of       *)
(* workers, and what holds as long as only one of them runs.               *)
(***************************************************************************)
EXTENDS Outbox, TLAPS

\* A worker that is not idle has an event.
LEMMA BusyHasEvent ==
  ASSUME TypeOK, NEW w \in Worker, wk[w].pc # "idle"
  PROVE  wk[w].event \in Event
BY DEF TypeOK

\* The clock keeps due an integer.
LEMMA PastIsInt == \A n \in Int : Past(n) \in Int
BY SecondAssumption DEF Past, LongPast

\* Every step keeps the shapes.
LEMMA NextKeepsType ==
  ASSUME TypeOK, [Next]_vars
  PROVE  TypeOK'
<1> USE NoEventAssumption
<1>1. ASSUME NEW e \in Event, Insert(e)
      PROVE  TypeOK'
  BY <1>1 DEF TypeOK, Insert, RowState
<1>2. ASSUME NEW w \in Worker, NEW e \in Event, Select(w, e)
      PROVE  TypeOK'
  BY <1>2 DEF TypeOK, Select, Busy
<1>3. ASSUME NEW w \in Worker, Claim(w)
      PROVE  TypeOK'
  <2>1. wk[w].event \in Event
    BY <1>3, BusyHasEvent DEF Claim
  <2>2. row' \in [Event -> [state : RowState, attempts : Nat, due : Int]]
    BY <1>3, <2>1 DEF TypeOK, Claim, RowState
  <2>3. QED
    BY <1>3, <2>1, <2>2 DEF TypeOK, Claim, Busy
<1>4. ASSUME NEW w \in Worker, Publish(w)
      PROVE  TypeOK'
  <2>1. wk[w].event \in Event
    BY <1>4, BusyHasEvent DEF Publish, PublishSucceeds, PublishFails
  <2>2. delivered' \in [Event -> BOOLEAN]
    <3>1. CASE PublishSucceeds(w)
      BY <2>1, <3>1 DEF TypeOK, PublishSucceeds
    <3>2. CASE PublishFails(w)
      BY <2>1, <3>2 DEF TypeOK, PublishFails
    <3>3. QED
      BY <1>4, <3>1, <3>2 DEF Publish
  <2>3. calls' \in [Event -> Nat]
    <3>1. calls' = [calls EXCEPT ![wk[w].event] = @ + 1]
      BY <1>4 DEF Publish, PublishSucceeds, PublishFails
    <3>2. calls \in [Event -> Nat]
      BY DEF TypeOK
    <3>3. QED
      BY <2>1, <3>1, <3>2
  <2>4. /\ wk' \in [Worker -> [pc : Busy \cup {"idle"}, event : Event \cup {NoEvent}]]
        /\ \A v \in Worker : (wk'[v].event = NoEvent) = (wk'[v].pc = "idle")
        /\ \A v \in Worker : wk'[v].pc # "idle" => v \in active
    <3>1. CASE PublishSucceeds(w)
      BY <2>1, <3>1 DEF TypeOK, PublishSucceeds, Busy
    <3>2. CASE PublishFails(w)
      BY <2>1, <3>2 DEF TypeOK, PublishFails, Busy
    <3>3. QED
      BY <1>4, <3>1, <3>2 DEF Publish
  <2>5. UNCHANGED <<row, active, fraction, faults>>
    BY <1>4 DEF Publish, PublishSucceeds, PublishFails
  <2>6. QED
    BY <2>2, <2>3, <2>4, <2>5 DEF TypeOK
<1>5. ASSUME NEW w \in Worker, Mark(w)
      PROVE  TypeOK'
  <2>1. wk[w].event \in Event
    BY <1>5, BusyHasEvent DEF Mark, MarkPublished, MarkFailed
  <2>2. row' \in [Event -> [state : RowState, attempts : Nat, due : Int]]
    <3>1. CASE MarkPublished(w)
      BY <2>1, <3>1 DEF TypeOK, MarkPublished, RowState
    <3>2. CASE MarkFailed(w)
      <4>1. (IF row[wk[w].event].attempts >= MaxAttempts
               THEN "failed" ELSE "pending") \in RowState
        BY DEF RowState
      <4>2. QED
        BY <2>1, <3>2, <4>1, DelayAssumption DEF TypeOK, MarkFailed
    <3>3. QED
      BY <1>5, <3>1, <3>2 DEF Mark
  <2>3. /\ wk' \in [Worker -> [pc : Busy \cup {"idle"}, event : Event \cup {NoEvent}]]
        /\ \A v \in Worker : (wk'[v].event = NoEvent) = (wk'[v].pc = "idle")
        /\ \A v \in Worker : wk'[v].pc # "idle" => v \in active
    <3>1. wk' = [wk EXCEPT ![w] = Between]
      BY <1>5 DEF Mark, MarkPublished, MarkFailed
    <3>2. QED
      BY <3>1 DEF TypeOK, Between
  <2>4. UNCHANGED <<active, fraction, delivered, calls, faults>>
    BY <1>5 DEF Mark, MarkPublished, MarkFailed
  <2>5. QED
    BY <2>2, <2>3, <2>4 DEF TypeOK
<1>6. ASSUME NEW w \in Worker, StatementFails(w) \/ Crash(w)
      PROVE  TypeOK'
  <2>1. /\ wk' = [wk EXCEPT ![w] = Between]
        /\ faults < MaxFaults /\ faults' = faults + 1
        /\ UNCHANGED <<row, active, fraction, delivered, calls>>
    BY <1>6 DEF StatementFails, Crash
  <2>2. /\ wk' \in [Worker -> [pc : Busy \cup {"idle"}, event : Event \cup {NoEvent}]]
        /\ \A v \in Worker : (wk'[v].event = NoEvent) = (wk'[v].pc = "idle")
        /\ \A v \in Worker : wk'[v].pc # "idle" => v \in active
    BY <2>1 DEF TypeOK, Between
  <2>3. faults' \in 0..MaxFaults
    BY <2>1, MaxFaultsAssumption DEF TypeOK
  <2>4. QED
    BY <2>1, <2>2, <2>3 DEF TypeOK
<1>7. CASE Tick
  <2>1. row' \in [Event -> [state : RowState, attempts : Nat, due : Int]]
    BY <1>7, PastIsInt DEF TypeOK, Tick
  <2>2. fraction' \in 0..(Second - 1)
    BY <1>7, SecondAssumption DEF TypeOK, Tick
  <2>3. QED
    BY <1>7, <2>1, <2>2 DEF TypeOK, Tick
<1>8. ASSUME NEW w \in Worker, Start(w)
      PROVE  TypeOK'
  BY <1>8 DEF TypeOK, Start
<1>9. CASE UNCHANGED vars
  BY <1>9 DEF TypeOK, vars
<1>10. QED
  BY <1>1, <1>2, <1>3, <1>4, <1>5, <1>6, <1>7, <1>8, <1>9 DEF Next

\* The invariant of racing workers is inductive.
LEMMA NextKeepsRacing ==
  ASSUME Racing, [Next]_vars
  PROVE  Racing'
<1>0. TypeOK /\ TypeOK'
  BY NextKeepsType DEF Racing
<1>1. ASSUME NEW e \in Event, Insert(e)
      PROVE  Racing'
  BY <1>0, <1>1 DEF Racing, TypeOK, AttemptsBounded, PublishedWasDelivered,
       Insert, MaxAttempts
<1>2. ASSUME NEW w \in Worker, NEW e \in Event, Select(w, e)
      PROVE  Racing'
  BY <1>0, <1>2 DEF Racing, TypeOK, AttemptsBounded, PublishedWasDelivered,
       Select
<1>3. ASSUME NEW w \in Worker, Claim(w)
      PROVE  Racing'
  <2>1. wk[w].event \in Event
    BY <1>0, <1>3, BusyHasEvent DEF Claim
  <2>2. AttemptsBounded'
    BY <1>0, <1>3, <2>1 DEF Racing, TypeOK, AttemptsBounded, Claim, MaxAttempts
  <2>3. PublishedWasDelivered'
    BY <1>0, <1>3, <2>1 DEF Racing, TypeOK, PublishedWasDelivered, Claim
  <2>4. \A v \in Worker : wk'[v].pc = "succeeded" => delivered'[wk'[v].event]
    BY <1>0, <1>3 DEF Racing, TypeOK, Claim
  <2>5. QED
    BY <1>0, <2>2, <2>3, <2>4 DEF Racing
<1>4. ASSUME NEW w \in Worker, Publish(w)
      PROVE  Racing'
  <2>1. wk[w].event \in Event
    BY <1>0, <1>4, BusyHasEvent DEF Publish, PublishSucceeds, PublishFails
  <2>2. \A e \in Event : delivered[e] => delivered'[e]
    BY <1>0, <1>4, <2>1 DEF TypeOK, Publish, PublishSucceeds, PublishFails
  <2>3. row' = row
    BY <1>4 DEF Publish, PublishSucceeds, PublishFails
  <2>4. \A v \in Worker : v # w => wk'[v] = wk[v]
    BY <1>0, <1>4 DEF TypeOK, Publish, PublishSucceeds, PublishFails
  <2>5. wk'[w].pc = "succeeded" => delivered'[wk'[w].event]
    BY <1>0, <1>4, <2>1 DEF TypeOK, Publish, PublishSucceeds, PublishFails
  <2>6. \A v \in Worker : wk'[v].pc = "succeeded" => delivered'[wk'[v].event]
    <3>1. TAKE v \in Worker
    <3>2. CASE v = w
      BY <2>5, <3>2
    <3>3. CASE v # w
      <4>1. SUFFICES ASSUME wk'[v].pc = "succeeded"
                     PROVE  delivered'[wk'[v].event]
        OBVIOUS
      <4>2. wk[v].pc = "succeeded" /\ wk'[v].event = wk[v].event
        BY <2>4, <3>3, <4>1
      <4>3. wk[v].event \in Event
        BY <1>0, <4>2, BusyHasEvent
      <4>4. delivered[wk[v].event]
        BY <4>2 DEF Racing
      <4>5. QED
        BY <2>2, <4>2, <4>3, <4>4
    <3>4. QED
      BY <3>2, <3>3
  <2>7. QED
    BY <1>0, <2>2, <2>3, <2>6 DEF Racing, AttemptsBounded, PublishedWasDelivered
<1>5. ASSUME NEW w \in Worker, Mark(w)
      PROVE  Racing'
  <2>1. wk[w].event \in Event
    BY <1>0, <1>5, BusyHasEvent DEF Mark, MarkPublished, MarkFailed
  <2>2. AttemptsBounded'
    <3>1. AttemptsBounded
      BY DEF Racing
    <3>2. CASE MarkPublished(w)
      BY <1>0, <2>1, <3>1, <3>2
         DEF TypeOK, AttemptsBounded, MarkPublished, MaxAttempts
    <3>3. CASE MarkFailed(w)
      BY <1>0, <2>1, <3>1, <3>3
         DEF TypeOK, AttemptsBounded, MarkFailed, MaxAttempts
    <3>4. QED
      BY <1>5, <3>2, <3>3 DEF Mark
  <2>3. PublishedWasDelivered'
    <3>1. delivered' = delivered
      BY <1>5 DEF Mark, MarkPublished, MarkFailed
    <3>2. ASSUME NEW e \in Event, row'[e].state = "published"
          PROVE  row[e].state = "published" \/ delivered[e]
      <4>1. CASE MarkPublished(w)
        BY <1>0, <2>1, <3>2, <4>1 DEF Racing, TypeOK, MarkPublished
      <4>2. CASE MarkFailed(w)
        BY <1>0, <2>1, <3>2, <4>2 DEF TypeOK, MarkFailed
      <4>3. QED
        BY <1>5, <4>1, <4>2 DEF Mark
    <3>3. QED
      BY <3>1, <3>2 DEF Racing, PublishedWasDelivered
  <2>4. \A v \in Worker : wk'[v].pc = "succeeded" => delivered'[wk'[v].event]
    <3>0. delivered' = delivered
      BY <1>5 DEF Mark, MarkPublished, MarkFailed
    <3>1. wk' = [wk EXCEPT ![w] = Between]
      BY <1>5 DEF Mark, MarkPublished, MarkFailed
    <3>2. wk'[w].pc # "succeeded" /\ \A v \in Worker : v # w => wk'[v] = wk[v]
      BY <1>0, <3>1 DEF TypeOK, Between
    <3>3. QED
      BY <3>0, <3>2 DEF Racing
  <2>5. QED
    BY <1>0, <2>2, <2>3, <2>4 DEF Racing
<1>6. ASSUME NEW w \in Worker, StatementFails(w) \/ Crash(w)
      PROVE  Racing'
  BY <1>0, <1>6 DEF Racing, TypeOK, AttemptsBounded, PublishedWasDelivered,
       StatementFails, Crash, Between
<1>7. CASE Tick
  <2>1. \A e \in Event : /\ row'[e].state = row[e].state
                         /\ row'[e].attempts = row[e].attempts
    BY <1>0, <1>7 DEF TypeOK, Tick
  <2>2. QED
    BY <1>0, <1>7, <2>1
       DEF Racing, AttemptsBounded, PublishedWasDelivered, Tick
<1>8. ASSUME NEW w \in Worker, Start(w)
      PROVE  Racing'
  BY <1>0, <1>8 DEF Racing, AttemptsBounded, PublishedWasDelivered, Start
<1>9. CASE UNCHANGED vars
  BY <1>0, <1>9 DEF Racing, AttemptsBounded, PublishedWasDelivered, vars
<1>10. QED
  BY <1>1, <1>2, <1>3, <1>4, <1>5, <1>6, <1>7, <1>8, <1>9 DEF Next

\* The invariant of racing workers holds in every state.
LEMMA RacingInvariant == Spec => []Racing
<1>1. Init => Racing
  BY MaxFaultsAssumption, NoEventAssumption
     DEF Init, Racing, TypeOK, AttemptsBounded, PublishedWasDelivered, Between,
         RowState, Busy, MaxAttempts
<1>2. Racing /\ [Next]_vars => Racing'
  BY NextKeepsRacing
<1>3. QED
  BY <1>1, <1>2, PTL DEF Spec

\* The shapes of rows and workers.
THEOREM OutboxTypeCorrect == Spec => []TypeOK
<1>1. Racing => TypeOK
  BY DEF Racing
<1>2. QED
  BY <1>1, RacingInvariant, PTL

\* Retries of ClaimOutbox and MarkOutbox are bounded for any number of workers,
\* although no statement checks who claimed the row.
THEOREM RetriesBounded == Spec => []AttemptsBounded
<1>1. Racing => AttemptsBounded
  BY DEF Racing
<1>2. QED
  BY <1>1, RacingInvariant, PTL

\* A published row was really delivered, for any number of workers.
THEOREM DeliveredWhenPublished == Spec => []PublishedWasDelivered
<1>1. Racing => PublishedWasDelivered
  BY DEF Racing
<1>2. QED
  BY <1>1, RacingInvariant, PTL

----------------------------------------------------------------------------
(* As long as one worker runs *)

\* Workers only ever join.
LEMMA WorkersJoin ==
  ASSUME TypeOK, [Next]_vars
  PROVE  active \subseteq active'
BY DEF Next, Insert, Start, Select, Claim, Publish, PublishSucceeds,
       PublishFails, Mark, MarkPublished, MarkFailed, StatementFails, Crash,
       Tick, vars

\* While one worker runs, the worker that acts is the only one that is busy.
LEMMA OnlyOne ==
  ASSUME OneWorker, TypeOK', active' = active,
         NEW w \in active, InStep(w)'
  PROVE  \A v \in Worker : InStep(v)'
<1>1. TAKE v \in Worker
<1>2. CASE v \in active
  BY <1>2 DEF OneWorker
<1>3. CASE v \notin active
  <2>1. wk'[v].pc = "idle"
    BY <1>3 DEF TypeOK
  <2>2. QED
    BY <2>1 DEF InStep
<1>4. QED
  BY <1>2, <1>3

\* The invariant of one worker is inductive, and no step touches a settled row.
LEMMA NextKeepsInStep ==
  ASSUME OneWorker, AllInStep, [Next]_vars
  PROVE  /\ AllInStep'
         /\ \A e \in Event : row[e].state \in {"published", "failed"} =>
              row'[e].state = row[e].state
<1> DEFINE Final == \A e \in Event : row[e].state \in {"published", "failed"} =>
                      row'[e].state = row[e].state
<1>0. TypeOK /\ TypeOK' /\ CallsCovered /\ Untouched /\ \A w \in Worker : InStep(w)
  BY NextKeepsType DEF AllInStep
<1>1. ASSUME NEW e \in Event, Insert(e)
      PROVE  AllInStep' /\ Final
  <2>1. CallsCovered' /\ Untouched' /\ Final
    BY <1>0, <1>1 DEF TypeOK, CallsCovered, Untouched, Insert
  <2>2. ASSUME NEW w \in Worker PROVE InStep(w)'
    <3>1. wk'[w] = wk[w] /\ calls' = calls
      BY <1>1 DEF Insert
    <3>2. CASE wk[w].pc = "idle"
      BY <3>1, <3>2 DEF InStep
    <3>3. CASE wk[w].pc # "idle"
      <4>1. wk[w].event \in Event /\ wk[w].pc \in Busy /\ InStep(w)
        BY <1>0, <3>3, BusyHasEvent DEF TypeOK
      <4>2. row[wk[w].event].state # "none"
        BY <4>1 DEF InStep, Busy
      <4>3. row'[wk[w].event] = row[wk[w].event]
        BY <1>0, <1>1, <4>1, <4>2 DEF TypeOK, Insert
      <4>4. QED
        BY <3>1, <4>1, <4>3 DEF InStep
    <3>4. QED
      BY <3>2, <3>3
  <2>3. QED
    BY <1>0, <2>1, <2>2 DEF AllInStep
<1>2. ASSUME NEW w \in Worker, NEW e \in Event, Select(w, e)
      PROVE  AllInStep' /\ Final
  <2>0. w \in active /\ active' = active
    BY <1>0, <1>2 DEF TypeOK, Select
  <2>1. CallsCovered' /\ Untouched' /\ Final
    BY <1>0, <1>2 DEF CallsCovered, Untouched, Select
  <2>2. InStep(w)'
    BY <1>0, <1>2 DEF TypeOK, InStep, Select
  <2>3. QED
    BY <1>0, <2>0, <2>1, <2>2, OnlyOne DEF AllInStep
<1>3. ASSUME NEW w \in Worker, Claim(w)
      PROVE  AllInStep' /\ Final
  <2>0. w \in active /\ active' = active
    BY <1>0, <1>3 DEF TypeOK, Claim
  <2>1. wk[w].event \in Event /\ row[wk[w].event].state = "pending"
    BY <1>0, <1>3, BusyHasEvent DEF Claim, InStep
  <2>2. row' = [row EXCEPT ![wk[w].event].state = "processing",
                           ![wk[w].event].attempts = @ + 1]
    BY <1>3, <2>1 DEF Claim
  <2>3. CallsCovered' /\ Untouched' /\ Final
    BY <1>0, <1>3, <2>1, <2>2 DEF TypeOK, CallsCovered, Untouched, Claim
  <2>4. InStep(w)'
    BY <1>0, <1>3, <2>1, <2>2 DEF TypeOK, CallsCovered, InStep, Claim
  <2>5. QED
    BY <1>0, <2>0, <2>3, <2>4, OnlyOne DEF AllInStep
<1>4. ASSUME NEW w \in Worker, Publish(w)
      PROVE  AllInStep' /\ Final
  <2>0. w \in active /\ active' = active
    BY <1>0, <1>4 DEF TypeOK, Publish, PublishSucceeds, PublishFails
  <2>1. /\ wk[w].event \in Event /\ row[wk[w].event].state = "processing"
        /\ calls[wk[w].event] < row[wk[w].event].attempts
    BY <1>0, <1>4, BusyHasEvent
       DEF InStep, Publish, PublishSucceeds, PublishFails
  <2>2. /\ row' = row
        /\ calls' = [calls EXCEPT ![wk[w].event] = @ + 1]
        /\ wk'[w].event = wk[w].event /\ wk'[w].pc \in {"succeeded", "erred"}
    BY <1>0, <1>4 DEF TypeOK, Publish, PublishSucceeds, PublishFails
  <2>3. CallsCovered' /\ Untouched' /\ Final
    BY <1>0, <2>1, <2>2 DEF TypeOK, CallsCovered, Untouched
  <2>4. InStep(w)'
    BY <2>1, <2>2 DEF InStep
  <2>5. QED
    BY <1>0, <2>0, <2>3, <2>4, OnlyOne DEF AllInStep
<1>5. ASSUME NEW w \in Worker, Mark(w)
      PROVE  AllInStep' /\ Final
  <2>0. w \in active /\ active' = active
    BY <1>0, <1>5 DEF TypeOK, Mark, MarkPublished, MarkFailed
  <2>1. wk[w].event \in Event /\ row[wk[w].event].state = "processing"
    BY <1>0, <1>5, BusyHasEvent DEF InStep, Mark, MarkPublished, MarkFailed
  <2>2. /\ \A e \in Event : e # wk[w].event => row'[e] = row[e]
        /\ \A e \in Event : row'[e].attempts = row[e].attempts
        /\ row'[wk[w].event].state # "none"
        /\ calls' = calls /\ wk'[w].pc = "idle"
    <3>1. CASE MarkPublished(w)
      BY <1>0, <2>1, <3>1 DEF TypeOK, MarkPublished, Between
    <3>2. CASE MarkFailed(w)
      BY <1>0, <2>1, <3>2 DEF TypeOK, MarkFailed, Between
    <3>3. QED
      BY <1>5, <3>1, <3>2 DEF Mark
  <2>3. CallsCovered' /\ Untouched' /\ Final
    BY <1>0, <2>1, <2>2 DEF CallsCovered, Untouched
  <2>4. InStep(w)'
    BY <2>2 DEF InStep
  <2>5. QED
    BY <1>0, <2>0, <2>3, <2>4, OnlyOne DEF AllInStep
<1>6. ASSUME NEW w \in Worker, StatementFails(w) \/ Crash(w)
      PROVE  AllInStep' /\ Final
  <2>0. w \in active /\ active' = active
    BY <1>0, <1>6 DEF TypeOK, StatementFails, Crash
  <2>1. CallsCovered' /\ Untouched' /\ Final
    BY <1>0, <1>6 DEF CallsCovered, Untouched, StatementFails, Crash
  <2>2. wk'[w].pc = "idle"
    BY <1>0, <1>6 DEF TypeOK, StatementFails, Crash, Between
  <2>3. InStep(w)'
    BY <2>2 DEF InStep
  <2>4. QED
    BY <1>0, <2>0, <2>1, <2>3, OnlyOne DEF AllInStep
<1>7. CASE Tick
  <2>1. \A e \in Event : /\ row'[e].state = row[e].state
                         /\ row'[e].attempts = row[e].attempts
    BY <1>0, <1>7 DEF TypeOK, Tick
  <2>2. CallsCovered' /\ Untouched' /\ Final
    BY <1>0, <1>7, <2>1 DEF CallsCovered, Untouched, Tick
  <2>3. ASSUME NEW w \in Worker PROVE InStep(w)'
    <3>1. wk' = wk /\ calls' = calls
      BY <1>7 DEF Tick
    <3>2. CASE wk[w].pc = "idle"
      BY <3>1, <3>2 DEF InStep
    <3>3. CASE wk[w].pc # "idle"
      <4>1. wk[w].event \in Event /\ InStep(w)
        BY <1>0, <3>3, BusyHasEvent
      <4>2. QED
        BY <2>1, <3>1, <4>1 DEF InStep
    <3>4. QED
      BY <3>2, <3>3
  <2>4. QED
    BY <1>0, <2>2, <2>3 DEF AllInStep
<1>8. ASSUME NEW w \in Worker, Start(w)
      PROVE  AllInStep' /\ Final
  BY <1>0, <1>8 DEF AllInStep, CallsCovered, Untouched, InStep, Start
<1>9. CASE UNCHANGED vars
  BY <1>0, <1>9 DEF AllInStep, CallsCovered, Untouched, InStep, vars
<1>10. QED
  BY <1>1, <1>2, <1>3, <1>4, <1>5, <1>6, <1>7, <1>8, <1>9 DEF Next

\* The invariant holds for as long as one worker runs.
LEMMA InStepInvariant == Spec => [](TypeOK /\ (OneWorker => AllInStep))
<1>1. Init => TypeOK /\ (OneWorker => AllInStep)
  BY MaxFaultsAssumption, NoEventAssumption
     DEF Init, AllInStep, TypeOK, CallsCovered, Untouched, InStep, Between,
         RowState, Busy
<1>2. TypeOK /\ (OneWorker => AllInStep) /\ [Next]_vars
        => (TypeOK /\ (OneWorker => AllInStep))'
  <2>1. SUFFICES ASSUME TypeOK, OneWorker => AllInStep, [Next]_vars
                 PROVE  TypeOK' /\ (OneWorker' => AllInStep')
    OBVIOUS
  <2>2. TypeOK'
    BY <2>1, NextKeepsType
  <2>3. OneWorker' => OneWorker
    BY <2>1, WorkersJoin DEF OneWorker
  <2>4. OneWorker => AllInStep'
    BY <2>1, NextKeepsInStep
  <2>5. QED
    BY <2>2, <2>3, <2>4
<1>3. QED
  BY <1>1, <1>2, PTL DEF Spec

\* Attempts are bounded for any number of workers, and as long as one worker runs
\* Publish is called at most as often as attempts were counted.
THEOREM CallsCounted == Spec => []CallsBounded
<1>1. Racing /\ TypeOK /\ (OneWorker => AllInStep) => CallsBounded
  BY DEF Racing, AllInStep, CallsBounded
<1>2. QED
  BY <1>1, RacingInvariant, InStepInvariant, PTL

\* As long as one worker runs, an event that is published or given up is never
\* taken up again.
THEOREM SettledStays == Spec => SettledIsFinal
<1>1. TypeOK /\ (OneWorker => AllInStep) /\ [Next]_vars =>
        [OneWorker => \A e \in Event : row[e].state \in {"published", "failed"} =>
           row'[e].state = row[e].state]_vars
  BY NextKeepsInStep
<1>2. QED
  BY <1>1, InStepInvariant, PTL DEF Spec, SettledIsFinal

\* What SELECT takes for due is due, or will be within the second.
LEMMA DueSoon ==
  ASSUME NEW due \in Int, fraction \in 0..(Second - 1), DueNow(due)
  PROVE  due < Second
BY SecondAssumption DEF DueNow

\* While one worker runs, what it has selected stays as due as it was.
InTime == \A w \in Worker : wk[w].pc = "selected" => row[wk[w].event].due < Second

\* The worker that acts has selected nothing, or something that is due.
LEMMA OnlyOneInTime ==
  ASSUME OneWorker, TypeOK', active' = active, NEW w \in active,
         wk'[w].pc = "selected" => row'[wk'[w].event].due < Second
  PROVE  InTime'
PROOF
<1>1. ASSUME NEW v \in Worker, v \notin active PROVE wk'[v].pc = "idle"
  BY <1>1 DEF TypeOK
<1>2. QED BY <1>1 DEF InTime, OneWorker

\* Every step keeps that, and only rows that are due are claimed.
LEMMA NextInTime ==
  ASSUME OneWorker, TypeOK, InTime, [Next]_vars
  PROVE  /\ InTime'
         /\ \A e \in Event :
              row[e].state = "pending" /\ row'[e].state = "processing" => row[e].due < Second
PROOF
<1> DEFINE Soon == \A e \in Event :
                     row[e].state = "pending" /\ row'[e].state = "processing"
                       => row[e].due < Second
<1>0. TypeOK'
  BY NextKeepsType
<1>1. ASSUME NEW e \in Event, Insert(e) PROVE InTime' /\ Soon
  <2>1. wk' = wk /\ row'[e].due = 0 /\ row'[e].state = "pending"
        /\ \A f \in Event : f # e => row'[f] = row[f]
    BY <1>1 DEF TypeOK, Insert
  <2>2. \A w \in Worker : wk[w].pc = "selected" => wk[w].event \in Event
    BY BusyHasEvent
  <2>3. QED BY <2>1, <2>2, SecondAssumption DEF InTime
<1>2. ASSUME NEW w \in Worker, NEW e \in Event, Select(w, e) PROVE InTime' /\ Soon
  <2>1. w \in active /\ active' = active /\ row' = row /\ wk'[w].event = e
    BY <1>2 DEF TypeOK, Select
  <2>2. row[e].due \in Int /\ fraction \in 0..(Second - 1) /\ DueNow(row[e].due)
    BY <1>2 DEF TypeOK, Select
  <2>3. row[e].due < Second
    BY <2>2, DueSoon
  <2>4. QED BY <1>0, <2>1, <2>3, OnlyOneInTime
<1>3. ASSUME NEW w \in Worker, Claim(w) PROVE InTime' /\ Soon
  <2>1. /\ w \in active /\ active' = active /\ wk'[w].pc # "selected"
        /\ wk[w].event \in Event /\ row[wk[w].event].due < Second
        /\ \A e \in Event : e # wk[w].event => row'[e] = row[e]
    BY <1>3, BusyHasEvent DEF TypeOK, Claim, InTime
  <2>2. QED BY <1>0, <2>1, OnlyOneInTime
<1>4. ASSUME NEW w \in Worker, Publish(w) PROVE InTime' /\ Soon
  <2>1. w \in active /\ active' = active /\ wk'[w].pc # "selected" /\ row' = row
    BY <1>4 DEF TypeOK, Publish, PublishSucceeds, PublishFails
  <2>2. QED BY <1>0, <2>1, OnlyOneInTime
<1>5. ASSUME NEW w \in Worker, Mark(w) PROVE InTime' /\ Soon
  <2>1. w \in active /\ active' = active /\ wk'[w].pc # "selected"
    BY <1>5 DEF TypeOK, Mark, MarkPublished, MarkFailed, Between
  <2>2. \A e \in Event : row'[e].state = "processing" => row[e].state = "processing"
    <3>1. wk[w].event \in Event
      BY <1>5, BusyHasEvent DEF Mark, MarkPublished, MarkFailed
    <3>2. CASE MarkPublished(w)
      BY <3>1, <3>2 DEF TypeOK, MarkPublished
    <3>3. CASE MarkFailed(w)
      BY <3>1, <3>3 DEF TypeOK, MarkFailed
    <3>4. QED BY <1>5, <3>2, <3>3 DEF Mark
  <2>3. QED BY <1>0, <2>1, <2>2, OnlyOneInTime
<1>6. ASSUME NEW w \in Worker, StatementFails(w) \/ Crash(w) PROVE InTime' /\ Soon
  <2>1. w \in active /\ active' = active /\ wk'[w].pc # "selected" /\ row' = row
    BY <1>6 DEF TypeOK, StatementFails, Crash, Between
  <2>2. QED BY <1>0, <2>1, OnlyOneInTime
<1>7. CASE Tick
  <2>1. /\ wk' = wk
        /\ \A e \in Event : row'[e].state = row[e].state /\ row'[e].due = Past(row[e].due - 1)
    BY <1>7 DEF TypeOK, Tick
  <2>2. \A n \in Int : n < Second => Past(n - 1) < Second
    BY SecondAssumption DEF Past, LongPast
  <2>3. \A w \in Worker : wk[w].pc = "selected" =>
          wk[w].event \in Event /\ row[wk[w].event].due \in Int
    BY BusyHasEvent DEF TypeOK
  <2>4. QED BY <2>1, <2>2, <2>3 DEF InTime
<1>8. ASSUME NEW w \in Worker, Start(w) PROVE InTime' /\ Soon
  BY <1>8 DEF InTime, Start
<1>9. CASE UNCHANGED vars
  BY <1>9 DEF InTime, vars
<1>10. QED
  BY <1>1, <1>2, <1>3, <1>4, <1>5, <1>6, <1>7, <1>8, <1>9 DEF Next

\* As long as one worker runs, nothing is claimed a second or more before its next
\* attempt is due, whatever the fractions of seconds look like as text, and
\* however long the worker takes between its two statements.
THEOREM BackoffKept == Spec => BackoffRespected
PROOF
<1>1. Init => TypeOK /\ (OneWorker => InTime)
  BY MaxFaultsAssumption, NoEventAssumption
     DEF Init, InTime, TypeOK, Between, RowState, Busy
<1>2. TypeOK /\ (OneWorker => InTime) /\ [Next]_vars
        => (TypeOK /\ (OneWorker => InTime))'
  <2>1. SUFFICES ASSUME TypeOK, OneWorker => InTime, [Next]_vars
                 PROVE  TypeOK' /\ (OneWorker' => InTime')
    OBVIOUS
  <2>2. TypeOK'
    BY <2>1, NextKeepsType
  <2>3. OneWorker' => OneWorker
    BY <2>1, WorkersJoin DEF OneWorker
  <2>4. OneWorker => InTime'
    BY <2>1, NextInTime
  <2>5. QED
    BY <2>2, <2>3, <2>4
<1>3. TypeOK /\ (OneWorker => InTime) /\ [Next]_vars =>
        [OneWorker => \A e \in Event :
           row[e].state = "pending" /\ row'[e].state = "processing"
             => row[e].due < Second]_vars
  BY NextInTime
<1>4. QED BY <1>1, <1>2, <1>3, PTL DEF Spec, BackoffRespected
=============================================================================
