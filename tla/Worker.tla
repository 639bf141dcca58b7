------------------------------- MODULE Worker -------------------------------
(***************************************************************************)
(* The package internal/worker: the queue with its dispatcher, and the     *)
(* scheduler.  They have no state in common and never call one another, so *)
(* a behaviour follows one of them, its focus, as those of Services do.    *)
(* A run may ask for one of the two.                                       *)
(***************************************************************************)
EXTENDS Naturals, Sequences

CONSTANTS
  Focus, \* which of "dispatcher" and "scheduler" to follow
  Runner,
  Job, Kind, kindOf, Malformed, NoJob,
  Submission, Id, idOf, given, Cancellable, MaxFailures, NoEntry

ASSUME KindAssumption == kindOf \in [Job -> Kind]
ASSUME MalformedAssumption == Malformed \subseteq Job
ASSUME NoJobAssumption == NoJob \notin Job
ASSUME IdAssumption == idOf \in [Submission -> Id]
ASSUME GivenAssumption ==
  \A s \in Submission : /\ given[s].attempts \in Nat /\ given[s].next \in Nat
                         /\ given[s].set \in {<<>>} \cup (Submission \X Nat)
ASSUME CancellableAssumption == Cancellable \subseteq Id
ASSUME MaxFailuresAssumption == MaxFailures \in Nat
ASSUME NoEntryAssumption ==
  NoEntry \notin [work : Submission, attempts : Nat, next : Nat,
                  set : {<<>>} \cup (Submission \X Nat)]

VARIABLES
  focus,
  items, closed, token, handlers, cancelled, pc, job, pushed, consumed, health,
  jobs, added, withdrawn, succeeded, failures, rn, stopped, overtaken

\* What the scheduler calls cancelled are submissions, and here withdrawn; the
\* context of the dispatcher is cancelled too.
D == INSTANCE Dispatcher
S == INSTANCE Scheduler WITH cancelled <- withdrawn

dispatcherVars == <<items, closed, token, handlers, cancelled, pc, job, pushed, consumed,
                    health>>
schedulerVars == <<jobs, added, withdrawn, succeeded, failures, rn, stopped, overtaken>>
vars == <<focus, dispatcherVars, schedulerVars>>

Init == focus \in Focus /\ D!Init /\ S!Init

Next ==
  \/ focus = "dispatcher" /\ D!Next /\ UNCHANGED <<focus, schedulerVars>>
  \/ focus = "scheduler" /\ S!Next /\ UNCHANGED <<focus, dispatcherVars>>

Spec == Init /\ [][Next]_vars

\* What is not in focus has nothing to do: no Run has been called there.
FairSpec == Spec /\ D!Fairness /\ S!Fairness

----------------------------------------------------------------------------
(* Properties: those of the two. *)

\* Dispatcher: every job is in one place, is consumed, and every Run returns.
NoJobLost == D!NoJobLost
EveryJobConsumed == D!EveryJobConsumed
RunReturns == D!RunReturns

\* Scheduler: a submission is scheduled until it is done, what was cancelled
\* does not come back, and everything comes to an end.
ScheduledUntilDone == S!ScheduledUntilDone
CancelledStaysOut == S!CancelledStaysOut
NeverResurrected == S!NeverResurrected
AllEnds == S!AllEnds
=============================================================================
