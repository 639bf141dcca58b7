------------------------------- MODULE Batch -------------------------------
(***************************************************************************)
(* Importing many lots at once: service/batch.go.  Import starts a         *)
(* goroutine per item; a channel of Workers slots limits how many of them  *)
(* call Intake at a time, and a mutex guards the result they share.  The   *)
(* context may end at any moment, other clients take lots in meanwhile,    *)
(* and RetryFailed repeats what failed.  Intake is the atomic operation of *)
(* Lifecycle, and may always fail.                                         *)
(***************************************************************************)
EXTENDS Lifecycle

CONSTANTS
  Batches,      \* the batches people import: sequences of [code, hazard]
  WorkerCounts  \* the settings of Workers

VARIABLES
  phase,    \* the caller: idle, importing, returned, retrying or over
  who,      \* the person who imports
  ended,    \* whether the caller's context has ended
  job,      \* job[i]: the goroutine of item i, and the lot it got
  slots,    \* the free places in the semaphore
  created,  \* BatchResult.Created
  failures, \* the codes in BatchResult.Failures
  retry     \* the codes RetryFailed has still to try

result == <<created, failures>>
batchVars == <<db, phase, who, ended, job, slots, result, retry>>

\* The positions of items in batches.
Position == UNION {DOMAIN batch : batch \in Batches}

At(i, pc) == i \in DOMAIN job /\ job[i].pc = pc
Go(i, pc, lot) == job' = [job EXCEPT ![i].pc = pc, ![i].lot = lot]

\* The severity RetryFailed gives every lot, whatever the item said.
RetryHazard == 1

----------------------------------------------------------------------------
Import(p, batch, workers) ==
  /\ phase = "idle"
  /\ Can(p, "intake")
  /\ batch # <<>>
  /\ phase' = "importing"
  /\ who' = p
  /\ job' = [i \in DOMAIN batch |-> [item |-> batch[i], pc |-> "waiting", lot |-> NoLot]]
  /\ slots' = IF workers < 1 THEN 1 ELSE workers
  /\ UNCHANGED <<db, ended, result, retry>>

\* The select of a goroutine takes a slot ...
Acquire(i) ==
  /\ At(i, "waiting")
  /\ slots > 0
  /\ slots' = slots - 1
  /\ Go(i, "intake", NoLot)
  /\ UNCHANGED <<db, phase, who, ended, result, retry>>

\* A mutant of Skip: a goroutine that finds the context ended just returns.
SkipSilently(i) ==
  /\ At(i, "waiting")
  /\ ended
  /\ Go(i, "done", NoLot)
  /\ UNCHANGED <<db, phase, who, ended, slots, result, retry>>

\* ... or finds the context ended, whichever it sees first.
Skip(i) ==
  /\ At(i, "waiting")
  /\ ended
  /\ failures' = failures \cup {job[i].item.code}
  /\ Go(i, "done", NoLot)
  /\ UNCHANGED <<db, phase, who, ended, slots, created, retry>>

IntakeSucceeds(i) ==
  /\ At(i, "intake")
  /\ ~ended
  /\ \E id \in Lot : /\ Intake(who, id, job[i].item.code, job[i].item.hazard)
                     /\ Go(i, "answered", id)
  /\ UNCHANGED <<phase, who, ended, slots, result, retry>>

\* The code is taken, the context has ended, or the database fails.
IntakeFails(i) ==
  /\ At(i, "intake")
  /\ Go(i, "answered", NoLot)
  /\ UNCHANGED <<db, phase, who, ended, slots, result, retry>>

\* The outcome is recorded under the mutex.
Record(i) ==
  /\ At(i, "answered")
  /\ IF job[i].lot = NoLot
       THEN failures' = failures \cup {job[i].item.code} /\ UNCHANGED created
       ELSE created' = created \cup {job[i].lot} /\ UNCHANGED failures
  /\ Go(i, "recorded", job[i].lot)
  /\ UNCHANGED <<db, phase, who, ended, slots, retry>>

\* A mutant of Release: the slot is not given back.
ReleaseLeaks(i) ==
  /\ At(i, "recorded")
  /\ Go(i, "done", job[i].lot)
  /\ UNCHANGED <<db, phase, who, ended, slots, result, retry>>

Release(i) ==
  /\ At(i, "recorded")
  /\ slots' = slots + 1
  /\ Go(i, "done", job[i].lot)
  /\ UNCHANGED <<db, phase, who, ended, result, retry>>

\* wg.Wait returns, and Import with the result.
Return ==
  /\ phase = "importing"
  /\ \A i \in DOMAIN job : job[i].pc = "done"
  /\ phase' = "returned"
  /\ UNCHANGED <<db, who, ended, job, slots, result, retry>>

RetryFailed ==
  /\ phase = "returned"
  /\ ~ended
  /\ phase' = "retrying"
  /\ retry' = failures
  /\ UNCHANGED <<db, who, ended, job, slots, result>>

\* One round of RetryFailed, in any order; what fails again is not recorded.
RetryOne(code) ==
  /\ phase = "retrying"
  /\ code \in retry
  /\ \/ ~ended /\ \E id \in Lot : Intake(who, id, code, RetryHazard)
     \/ UNCHANGED db
  /\ retry' = retry \ {code}
  /\ UNCHANGED <<phase, who, ended, job, slots, result>>

RetryReturns ==
  /\ phase = "retrying"
  /\ retry = {}
  /\ phase' = "over"
  /\ UNCHANGED <<db, who, ended, job, slots, result, retry>>

EndContext ==
  /\ ~ended
  /\ ended' = TRUE
  /\ UNCHANGED <<db, phase, who, job, slots, result, retry>>

\* Somebody else takes a lot in, whose hazard nobody here looks at.
OtherIntake(p, code) ==
  /\ \E id \in Lot : Intake(p, id, code, RetryHazard)
  /\ UNCHANGED <<phase, who, ended, job, slots, result, retry>>

----------------------------------------------------------------------------
BatchInit ==
  /\ Init
  /\ phase = "idle"
  /\ who = "nobody"
  /\ ended = FALSE
  /\ job = <<>>
  /\ slots = 0
  /\ created = {}
  /\ failures = {}
  /\ retry = {}

Worker(i) ==
  \/ Acquire(i) \/ Skip(i)
  \/ IntakeSucceeds(i) \/ IntakeFails(i)
  \/ Record(i) \/ Release(i)

BatchNext ==
  \/ \E p \in Principal, batch \in Batches, n \in WorkerCounts : Import(p, batch, n)
  \/ \E i \in Position : Worker(i)
  \/ Return \/ RetryFailed \/ RetryReturns \/ EndContext
  \/ \E code \in retry : RetryOne(code)
  \/ \E p \in Principal, code \in Code : OtherIntake(p, code)

\* Goroutines that can run do run, and an intake ends in one way or the other.
BatchFairness ==
  /\ \A i \in Position : WF_batchVars(Worker(i))
  /\ WF_batchVars(Return)

----------------------------------------------------------------------------
(* Properties *)

\* When Import has returned, every item is answered for: its code is among the
\* failures, or a created lot of the caller's tenant has its code and hazard.
\* Nothing is created twice: there is an entry for each item at most.
EveryItemAnswered ==
  phase \notin {"idle", "importing"} =>
    /\ \A i \in DOMAIN job :
         LET item == job[i].item
         IN  \/ item.code \in failures
             \/ \E id \in created :
                  /\ LotFound(db, id, who.tenant)
                  /\ db.lots[id].code = item.code /\ db.lots[id].hazard = item.hazard
    /\ \A a, b \in created : db.lots[a].code = db.lots[b].code => a = b

\* Import returns, with fewer slots than items too, and whether or not the
\* context ends.
ImportReturns == phase = "importing" ~> phase # "importing"
============================================================================
