------------------------------- MODULE Outbox -------------------------------
(***************************************************************************)
(* The publication of outbox events: the outbox rows that recoveries leave *)
(* behind, and the workers that claim, publish and mark them               *)
(* (service/worker.go on ClaimOutbox and MarkOutbox of                     *)
(* storage/sqlite/store.go).  Every statement is a step of its own, so     *)
(* workers interleave between the SELECT, the UPDATE, the call of the      *)
(* publisher and the mark, and a worker may die or fail between them.      *)
(*                                                                         *)
(* Time advances in ticks, the smallest fraction of a second that a time   *)
(* stamp can show.  A row keeps how many ticks away its next_attempt_at    *)
(* is; the past is not told apart beyond one second.  Time stamps are      *)
(* compared as text.  SELECT takes the row with the first created_at of    *)
(* those that are due: the model lets it take any of them, so what it      *)
(* shows does not depend on the order.                                     *)
(***************************************************************************)
EXTENDS Integers, FiniteSets

CONSTANTS
  Event,      \* the outbox rows
  Worker,     \* the goroutines that may call OutboxWorker.Run
  Base,       \* how many digits there are: 10
  Digits,     \* how many of them a fraction of a second has at most: 9
  Delay,      \* time.Minute in ticks: how long a failure postpones
  MaxFaults,  \* bound: how many statements fail or workers die
  NoEvent     \* a worker between two events

\* A second, in ticks.
Second == Base ^ Digits

ASSUME SecondAssumption == Base \in Nat /\ Digits \in Nat /\ Second \in Nat \ {0}
ASSUME DelayAssumption == Delay \in Nat /\ Delay > Second
ASSUME MaxFaultsAssumption == MaxFaults \in Nat
ASSUME NoEventAssumption == NoEvent \notin Event

\* MarkOutbox: attempts>=3.  The field OutboxWorker.MaxAttempts is never read.
MaxAttempts == 3

VARIABLES
  row,        \* row[e]: state, attempts, and due, the ticks until
              \* next_attempt_at
  active,     \* the workers inside OutboxWorker.Run
  fraction,   \* how many ticks now is past a whole second
  wk,         \* wk[w]: where worker w is, and with which event
  delivered,  \* delivered[e]: the publisher has passed e on
  calls,      \* calls[e]: how often Publish was called
  faults      \* how many faults there were

vars == <<row, active, fraction, wk, delivered, calls, faults>>

RowState == {"none", "pending", "processing", "published", "failed"}

\* More than a second ago.
LongPast == -Second

Past(n) == IF n < LongPast THEN LongPast ELSE n

----------------------------------------------------------------------------
(* Text order of time stamps *)

Place(i) == Base ^ (Digits - i)

\* The i-th sign of a fraction of n ticks.  RFC3339Nano drops the zeros at its
\* end, and the "." with them when nothing is left: what follows is the "Z",
\* which sorts after every digit and after the ".".  As text, "05.25Z" <
\* "05.2Z" < "05Z".
Sign(n, i) == IF n % Place(i - 1) = 0 THEN Base ELSE (n \div Place(i)) % Base

\* m is not after n, as text.
TextAtMost(m, n) ==
  m = n \/ \E i \in 1..Digits : /\ Sign(m, i) < Sign(n, i)
                                 /\ \A j \in 1..(i - 1) : Sign(m, j) = Sign(n, j)

\* next_attempt_at<=now, when it is due that many ticks away: in an earlier
\* second, or in the same one and not after now.
DueNow(due) ==
  LET at == fraction + due
  IN  \/ at < 0
      \/ at < Second /\ TextAtMost(at, fraction)

----------------------------------------------------------------------------
(* Producing *)

\* InsertOutbox, in the transaction of Recover.
Insert(e) ==
  /\ row[e].state = "none"
  /\ row' = [row EXCEPT ![e] = [state |-> "pending", attempts |-> 0, due |-> 0]]
  /\ UNCHANGED <<active, fraction, wk, delivered, calls, faults>>

----------------------------------------------------------------------------
(* OutboxWorker.Run and RunOnce *)

\* Someone calls Run.  It stays until the program ends.
Start(w) ==
  /\ w \notin active
  /\ active' = active \cup {w}
  /\ UNCHANGED <<row, fraction, wk, delivered, calls, faults>>

\* A mutant of Select: next_attempt_at is not looked at.
SelectEarly(w, e) ==
  /\ w \in active /\ wk[w].pc = "idle"
  /\ row[e].state = "pending"
  /\ wk' = [wk EXCEPT ![w] = [pc |-> "selected", event |-> e]]
  /\ UNCHANGED <<row, active, fraction, delivered, calls, faults>>

\* A mutant of Select: rows on their last attempt are left to nobody.
SelectNotLast(w, e) ==
  /\ w \in active /\ wk[w].pc = "idle"
  /\ row[e].state = "pending" /\ DueNow(row[e].due)
  /\ row[e].attempts + 1 < MaxAttempts
  /\ wk' = [wk EXCEPT ![w] = [pc |-> "selected", event |-> e]]
  /\ UNCHANGED <<row, active, fraction, delivered, calls, faults>>

\* A mutant of Select: failed rows are taken up again.
SelectFailed(w, e) ==
  /\ w \in active /\ wk[w].pc = "idle"
  /\ row[e].state \in {"pending", "failed"} /\ DueNow(row[e].due)
  /\ wk' = [wk EXCEPT ![w] = [pc |-> "selected", event |-> e]]
  /\ UNCHANGED <<row, active, fraction, delivered, calls, faults>>

\* ClaimOutbox, first statement.  No row, or an error, ends RunOnce without an
\* effect.
Select(w, e) ==
  /\ w \in active /\ wk[w].pc = "idle"
  /\ row[e].state = "pending" /\ DueNow(row[e].due)
  /\ wk' = [wk EXCEPT ![w] = [pc |-> "selected", event |-> e]]
  /\ UNCHANGED <<row, active, fraction, delivered, calls, faults>>

\* A mutant of Claim: the attempt is not counted.
ClaimUncounted(w) ==
  LET e == wk[w].event
  IN  /\ wk[w].pc = "selected"
      /\ row' = IF row[e].state = "pending"
                  THEN [row EXCEPT ![e].state = "processing"]
                  ELSE row
      /\ wk' = [wk EXCEPT ![w].pc = "publishing"]
      /\ UNCHANGED <<active, fraction, delivered, calls, faults>>

\* ClaimOutbox, second statement: WHERE id=? AND state='pending'.  Nobody looks
\* at how many rows it changed, the worker goes on even when it was none.
Claim(w) ==
  LET e == wk[w].event
  IN  /\ wk[w].pc = "selected"
      /\ row' = IF row[e].state = "pending"
                  THEN [row EXCEPT ![e].state = "processing",
                                   ![e].attempts = @ + 1]
                  ELSE row
      /\ wk' = [wk EXCEPT ![w].pc = "publishing"]
      /\ UNCHANGED <<active, fraction, delivered, calls, faults>>

\* Publish returns nil: the event is out.
PublishSucceeds(w) ==
  LET e == wk[w].event
  IN  /\ wk[w].pc = "publishing"
      /\ delivered' = [delivered EXCEPT ![e] = TRUE]
      /\ calls' = [calls EXCEPT ![e] = @ + 1]
      /\ wk' = [wk EXCEPT ![w].pc = "succeeded"]
      /\ UNCHANGED <<row, active, fraction, faults>>

\* Publish returns an error; the event may be out all the same.
PublishFails(w) ==
  LET e == wk[w].event
  IN  /\ wk[w].pc = "publishing"
      /\ \E out \in BOOLEAN :
           delivered' = [delivered EXCEPT ![e] = @ \/ out]
      /\ calls' = [calls EXCEPT ![e] = @ + 1]
      /\ wk' = [wk EXCEPT ![w].pc = "erred"]
      /\ UNCHANGED <<row, active, fraction, faults>>

Between == [pc |-> "idle", event |-> NoEvent]

\* A mutant of MarkPublished: the error of Publish is dropped.
MarkPublishedAnyway(w) ==
  /\ wk[w].pc \in {"succeeded", "erred"}
  /\ row' = [row EXCEPT ![wk[w].event].state = "published"]
  /\ wk' = [wk EXCEPT ![w] = Between]
  /\ UNCHANGED <<active, fraction, delivered, calls, faults>>

\* MarkOutbox(id, nil).
MarkPublished(w) ==
  /\ wk[w].pc = "succeeded"
  /\ row' = [row EXCEPT ![wk[w].event].state = "published"]
  /\ wk' = [wk EXCEPT ![w] = Between]
  /\ UNCHANGED <<active, fraction, delivered, calls, faults>>

\* A mutant of MarkFailed: the bound is off by one.
MarkFailedLate(w) ==
  LET e == wk[w].event
  IN  /\ wk[w].pc = "erred"
      /\ row' = [row EXCEPT ![e].state = IF row[e].attempts > MaxAttempts
                                           THEN "failed" ELSE "pending",
                            ![e].due = Delay]
      /\ wk' = [wk EXCEPT ![w] = Between]
      /\ UNCHANGED <<active, fraction, delivered, calls, faults>>

\* MarkOutbox(id, err): back to pending with a delay, or failed for good.  The
\* WHERE clause has the id only.
MarkFailed(w) ==
  LET e == wk[w].event
  IN  /\ wk[w].pc = "erred"
      /\ row' = [row EXCEPT ![e].state = IF row[e].attempts >= MaxAttempts
                                           THEN "failed" ELSE "pending",
                            ![e].due = Delay]
      /\ wk' = [wk EXCEPT ![w] = Between]
      /\ UNCHANGED <<active, fraction, delivered, calls, faults>>

\* A statement of ClaimOutbox or MarkOutbox fails (the database, or the context
\* has ended): RunOnce returns the error, Run carries on with the next tick.
StatementFails(w) ==
  /\ faults < MaxFaults
  /\ wk[w].pc \in {"selected", "succeeded", "erred"}
  /\ wk' = [wk EXCEPT ![w] = Between]
  /\ faults' = faults + 1
  /\ UNCHANGED <<row, active, fraction, delivered, calls>>

\* The process dies and is started again; the rows stay as they are.
Crash(w) ==
  /\ faults < MaxFaults
  /\ wk[w].pc # "idle"
  /\ wk' = [wk EXCEPT ![w] = Between]
  /\ faults' = faults + 1
  /\ UNCHANGED <<row, active, fraction, delivered, calls>>

\* A tick of time passes.
Tick ==
  /\ fraction' = IF fraction + 1 = Second THEN 0 ELSE fraction + 1
  /\ row' = [e \in Event |-> [row[e] EXCEPT !.due = Past(@ - 1)]]
  /\ UNCHANGED <<active, wk, delivered, calls, faults>>

----------------------------------------------------------------------------
Init ==
  /\ row = [e \in Event |-> [state |-> "none", attempts |-> 0, due |-> 0]]
  /\ active = {}
  /\ fraction \in 0..(Second - 1)
  /\ wk = [w \in Worker |-> Between]
  /\ delivered = [e \in Event |-> FALSE]
  /\ calls = [e \in Event |-> 0]
  /\ faults = 0

Publish(w) == PublishSucceeds(w) \/ PublishFails(w)
Mark(w) == MarkPublished(w) \/ MarkFailed(w)

Next ==
  \/ \E e \in Event : Insert(e)
  \/ \E w \in Worker :
       \/ Start(w)
       \/ \E e \in Event : Select(w, e)
       \/ Claim(w) \/ Publish(w) \/ Mark(w)
       \/ StatementFails(w) \/ Crash(w)
  \/ Tick

Spec == Init /\ [][Next]_vars

\* The ticker keeps calling RunOnce, whose statements and Publish return; time
\* passes.  No order among the rows that are due is assumed.
Fairness ==
  /\ \A w \in Worker : /\ WF_vars(\E e \in Event : Select(w, e))
                       /\ WF_vars(Claim(w))
                       /\ WF_vars(Publish(w))
                       /\ WF_vars(Mark(w))
  /\ WF_vars(Tick)

FairSpec == Spec /\ Fairness

----------------------------------------------------------------------------
(* Properties *)

\* What OutboxWorker.Run is meant for: one goroutine inside it.
OneWorker == \A v, w \in active : v = w

Busy == {"selected", "publishing", "succeeded", "erred"}

\* Shapes; a worker has an event exactly while it is inside RunOnce.
TypeOK ==
  /\ row \in [Event -> [state : RowState, attempts : Nat, due : Int]]
  /\ fraction \in 0..(Second - 1)
  /\ wk \in [Worker -> [pc : Busy \cup {"idle"}, event : Event \cup {NoEvent}]]
  /\ \A w \in Worker : (wk[w].event = NoEvent) = (wk[w].pc = "idle")
  /\ active \subseteq Worker
  /\ \A w \in Worker : wk[w].pc # "idle" => w \in active
  /\ delivered \in [Event -> BOOLEAN]
  /\ calls \in [Event -> Nat]
  /\ faults \in 0..MaxFaults

\* Retries are bounded, however many workers race and whatever fails: nothing
\* is claimed a fourth time, and only three attempts make a failure permanent.
AttemptsBounded ==
  \A e \in Event :
    /\ row[e].attempts <= MaxAttempts
    /\ row[e].state \in {"none", "pending"} => row[e].attempts < MaxAttempts
    /\ row[e].state = "failed" => row[e].attempts = MaxAttempts

\* A row says published only when the publisher really passed the event on.
PublishedWasDelivered ==
  \A e \in Event : row[e].state = "published" => delivered[e]

\* Attempts are bounded, and as long as one worker runs the publisher is called at
\* most once per counted attempt, so at most three times, crashes included.
CallsCovered == \A e \in Event : calls[e] <= row[e].attempts
CallsBounded == AttemptsBounded /\ (OneWorker => CallsCovered)

\* As long as one worker runs, a settled event is never taken up again.
SettledIsFinal ==
  [][OneWorker => \A e \in Event : row[e].state \in {"published", "failed"} =>
       row'[e].state = row[e].state]_vars

\* As long as one worker runs, an event is claimed less than one second before its
\* next attempt is due: the text order of time stamps costs that much, no more.
BackoffRespected ==
  [][OneWorker => \A e \in Event :
       row[e].state = "pending" /\ row'[e].state = "processing"
         => row[e].due < Second]_vars

\* The inductive invariant while one worker runs: the row of the event the
\* worker is busy with is where the worker left it.
InStep(w) ==
  LET e == wk[w].event
  IN  /\ wk[w].pc = "selected" => row[e].state = "pending"
      /\ wk[w].pc \in {"publishing", "succeeded", "erred"} =>
           row[e].state = "processing"
      /\ wk[w].pc = "publishing" => calls[e] < row[e].attempts

Untouched == \A e \in Event : row[e].state = "none" => row[e].attempts = 0

AllInStep ==
  TypeOK /\ CallsCovered /\ Untouched /\ \A w \in Worker : InStep(w)

\* The inductive invariant with any number of workers.
Racing ==
  /\ TypeOK
  /\ AttemptsBounded
  /\ PublishedWasDelivered
  /\ \A w \in Worker : wk[w].pc = "succeeded" => delivered[wk[w].event]

\* An event whose worker was interrupted between claiming and marking.
Orphaned(e) == /\ row[e].state = "processing"
               /\ \A w \in Worker : wk[w].event # e

\* Once a worker runs, with finitely many faults every event settles, or is
\* orphaned, even while workers race for it.
SettlesOrOrphaned ==
  \A e \in Event :
    (active # {} /\ row[e].state = "pending") ~>
      (row[e].state \in {"published", "failed"} \/ Orphaned(e))

\* README, Workflow: "A worker retries certificate publication with bounded
\* backoff and records permanent failures."
Settles ==
  \A e \in Event :
    (active # {} /\ row[e].state = "pending")
      ~> row[e].state \in {"published", "failed"}
=============================================================================
