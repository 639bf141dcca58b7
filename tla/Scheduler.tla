----------------------------- MODULE Scheduler -----------------------------
(***************************************************************************)
(* The retrying job scheduler of internal/worker/scheduler.go.  runDue     *)
(* copies the jobs that are due, runs each copy outside the lock, and only *)
(* then looks again whether the entry is still the one it ran; meanwhile   *)
(* clients add and cancel.  Several goroutines may be inside Run.          *)
(*                                                                         *)
(* A submission is one call of Add: two submissions may use the same job   *)
(* id, and bring different work under it.  An entry of the jobs map is the *)
(* submission whose work it holds, its attempts, and its time Next: in how *)
(* many seconds that is (0: now, in the past, or never set), and who set   *)
(* it: a failure, each at a time of its own, or the caller of Add.         *)
(***************************************************************************)
EXTENDS Naturals, Sequences, FiniteSets, SequencesExt

CONSTANTS
  Submission, \* the calls of Add
  Id,         \* the job ids
  idOf,       \* idOf[s]: the job id that submission s uses
  given,      \* given[s]: the attempts and the time Next it comes with
  Cancellable,\* the ids clients cancel
  Runner,     \* the goroutines that may call Run
  MaxFailures,\* bound: how often the work of one submission fails
  NoEntry     \* no job with this id

VARIABLES
  jobs,      \* jobs[id]: the entry of the map, or NoEntry
  added,     \* the submissions Add has accepted
  cancelled, \* the submissions whose entry Cancel has deleted
  succeeded, \* the submissions whose work has returned nil
  failures,  \* failures[s]: how often the work of s has returned an error
  rn,        \* rn[r]: what runner r is doing
  stopped,   \* Stop has closed the done channel
  overtaken  \* the ids that were added while a runner still had a copy of
             \* what was there before

vars == <<jobs, added, cancelled, succeeded, failures, rn, stopped, overtaken>>

\* set is empty when Next is the zero time, else the submission whose failure
\* set it and how many failures that made, or none for a time a caller gave.
Times == {<<>>} \cup (Submission \X Nat)
Entry == [work : Submission, attempts : Nat, next : Nat, set : Times]

\* The entry Add is given.
Fresh(s) == [work |-> s, attempts |-> given[s].attempts, next |-> given[s].next,
             set |-> given[s].set]

\* A runner has not called Run yet, waits for its ticker, or works on its copies:
\* todo has the ones it has not finished, the first being run, and elapsed says
\* how many seconds ago the tick was that the copies were due at.
New == [pc |-> "new", todo |-> <<>>, elapsed |-> 0]
Waiting == [pc |-> "waiting", todo |-> <<>>, elapsed |-> 0]
Out == [pc |-> "out", todo |-> <<>>, elapsed |-> 0]

Minus(a, b) == IF a > b THEN a - b ELSE 0

----------------------------------------------------------------------------
(* Clients *)

\* A runner has a copy of an entry with this id.
InHand(id) ==
  \E r \in Runner : \E i \in DOMAIN rn[r].todo : idOf[rn[r].todo[i].work] = id

NoteOvertaken(id) == overtaken' = IF InHand(id) THEN overtaken \cup {id} ELSE overtaken

\* A mutant of Add: an entry with the same id is replaced.
AddReplaces(s) ==
  /\ s \notin added
  /\ jobs' = [jobs EXCEPT ![idOf[s]] = Fresh(s)]
  /\ added' = added \cup {s}
  /\ NoteOvertaken(idOf[s])
  /\ UNCHANGED <<cancelled, succeeded, failures, rn, stopped>>

\* Add: ErrDuplicate when the id is taken, which changes nothing.
Add(s) ==
  /\ s \notin added
  /\ jobs[idOf[s]] = NoEntry
  /\ jobs' = [jobs EXCEPT ![idOf[s]] = Fresh(s)]
  /\ added' = added \cup {s}
  /\ NoteOvertaken(idOf[s])
  /\ UNCHANGED <<cancelled, succeeded, failures, rn, stopped>>

\* Cancel(id).  Of an id that is not there it changes nothing.
Cancel(id) ==
  /\ jobs[id] # NoEntry
  /\ jobs' = [jobs EXCEPT ![id] = NoEntry]
  /\ cancelled' = cancelled \cup {jobs[id].work}
  /\ UNCHANGED <<added, succeeded, failures, rn, stopped, overtaken>>

\* Stop.  A second call finds the channel closed and does nothing.
Stop ==
  /\ ~stopped
  /\ stopped' = TRUE
  /\ UNCHANGED <<jobs, added, cancelled, succeeded, failures, rn, overtaken>>

----------------------------------------------------------------------------
(* Run *)

\* Run is called.
Start(r) ==
  /\ rn[r].pc = "new"
  /\ rn' = [rn EXCEPT ![r] = Waiting]
  /\ UNCHANGED <<jobs, added, cancelled, succeeded, failures, stopped, overtaken>>

\* select: the done channel, or the context.
Leave(r) ==
  /\ rn[r].pc = "waiting" /\ stopped
  /\ rn' = [rn EXCEPT ![r] = Out]
  /\ UNCHANGED <<jobs, added, cancelled, succeeded, failures, stopped, overtaken>>

Due == {id \in Id : jobs[id] # NoEntry /\ jobs[id].next = 0}

\* runDue, the first lock section: copies of what is due, in the order of a
\* range over a map, which is any order.
Snapshot(r) ==
  /\ rn[r].pc = "waiting" /\ Due # {}
  /\ \E order \in SetToSeqs(Due) :
       rn' = [rn EXCEPT ![r] =
                [pc |-> "running", todo |-> [i \in DOMAIN order |-> jobs[order[i]]],
                 elapsed |-> 0]]
  /\ UNCHANGED <<jobs, added, cancelled, succeeded, failures, stopped, overtaken>>

\* A mutant of Advance: the loop does not end.
AdvanceForever(r) ==
  rn' = [rn EXCEPT ![r].todo = IF Len(@) = 1 THEN @ ELSE Tail(@)]

\* The runner is done with the first of its copies.
Advance(r) ==
  rn' = [rn EXCEPT ![r] = IF Len(rn[r].todo) = 1
                            THEN Waiting
                            ELSE [rn[r] EXCEPT !.todo = Tail(@)]]

\* The entry is still there, with the attempts and the time of the copy.  That
\* it holds the same work is not compared.
Unchanged(copy) ==
  LET current == jobs[idOf[copy.work]]
  IN  /\ current # NoEntry
      /\ current.attempts = copy.attempts
      /\ current.set = copy.set

\* A job returns nil, and the second lock section deletes its entry.
RunSucceeds(r) ==
  LET copy == Head(rn[r].todo)
  IN  /\ rn[r].pc = "running"
      /\ jobs' = IF Unchanged(copy)
                   THEN [jobs EXCEPT ![idOf[copy.work]] = NoEntry]
                   ELSE jobs
      /\ succeeded' = succeeded \cup {copy.work}
      /\ Advance(r)
      /\ UNCHANGED <<added, cancelled, failures, stopped, overtaken>>

\* The copy with one attempt more, due that many seconds after the tick.
Retry(r, copy) ==
  [copy EXCEPT !.attempts = @ + 1,
               !.next = Minus(copy.attempts + 1, rn[r].elapsed),
               !.set = <<copy.work, failures[copy.work] + 1>>]

\* A mutant of Reschedule: the entry is written back without looking.
RescheduleBlindly(r, copy) ==
  [jobs EXCEPT ![idOf[copy.work]] = Retry(r, copy)]

\* A mutant of Reschedule: a job that has failed is forgotten.
RescheduleForgets(r, copy) ==
  IF Unchanged(copy) THEN [jobs EXCEPT ![idOf[copy.work]] = NoEntry] ELSE jobs

\* What the second lock section writes after an error.
Reschedule(r, copy) ==
  IF Unchanged(copy)
    THEN [jobs EXCEPT ![idOf[copy.work]] = Retry(r, copy)]
    ELSE jobs

\* A job returns an error, and the second lock section writes the copy back.
RunFails(r) ==
  LET copy == Head(rn[r].todo)
  IN  /\ rn[r].pc = "running"
      /\ failures[copy.work] < MaxFailures
      /\ jobs' = Reschedule(r, copy)
      /\ failures' = [failures EXCEPT ![copy.work] = @ + 1]
      /\ Advance(r)
      /\ UNCHANGED <<added, cancelled, succeeded, stopped, overtaken>>

\* A second passes.  Copies are due already, so only entries come closer; elapsed
\* is counted as far as the delay of a copy may reach.
Tick ==
  /\ jobs' = [id \in Id |-> IF jobs[id] = NoEntry THEN NoEntry
                            ELSE [jobs[id] EXCEPT !.next = Minus(@, 1)]]
  /\ rn' = [r \in Runner |->
              IF \E i \in DOMAIN rn[r].todo : rn[r].elapsed <= rn[r].todo[i].attempts
                THEN [rn[r] EXCEPT !.elapsed = @ + 1]
                ELSE rn[r]]
  /\ UNCHANGED <<added, cancelled, succeeded, failures, stopped, overtaken>>

----------------------------------------------------------------------------
Init ==
  /\ jobs = [id \in Id |-> NoEntry]
  /\ added = {} /\ cancelled = {} /\ succeeded = {}
  /\ failures = [s \in Submission |-> 0]
  /\ rn = [r \in Runner |-> New]
  /\ stopped = FALSE
  /\ overtaken = {}

Work(r) == RunSucceeds(r) \/ RunFails(r)

Next ==
  \/ \E s \in Submission : Add(s)
  \/ \E id \in Cancellable : Cancel(id)
  \/ Stop
  \/ \E r \in Runner : Start(r) \/ Leave(r) \/ Snapshot(r) \/ Work(r)
  \/ Tick

Spec == Init /\ [][Next]_vars

\* The ticker ticks, jobs return, a stopped Run sees it.
Fairness ==
  /\ \A r \in Runner : /\ WF_vars(Snapshot(r)) /\ WF_vars(Work(r))
                       /\ WF_vars(Leave(r))
  /\ WF_vars(Tick)

FairSpec == Spec /\ Fairness

----------------------------------------------------------------------------
(* Properties *)

Started == {r \in Runner : rn[r].pc # "new"}

\* What Run is meant for: one goroutine.
OneRunner == Cardinality(Started) <= 1

RunnerState == [pc : {"new", "waiting", "running", "out"}, todo : Seq(Entry),
                elapsed : Nat]

\* Shapes; a runner has copies exactly while it runs, and they were due.
TypeOK ==
  /\ jobs \in [Id -> Entry \cup {NoEntry}]
  /\ \A id \in Id : jobs[id] # NoEntry => idOf[jobs[id].work] = id
  /\ added \subseteq Submission
  /\ cancelled \subseteq added /\ succeeded \subseteq added
  /\ failures \in [Submission -> 0..MaxFailures]
  /\ rn \in [Runner -> RunnerState]
  /\ \A r \in Runner : (rn[r].todo # <<>>) = (rn[r].pc = "running")
  /\ stopped \in BOOLEAN
  /\ overtaken \subseteq Id

\* An accepted submission is scheduled exactly until its work succeeds or it is
\* cancelled: nobody else's run deletes it, puts other work in its place, or
\* leaves it there; and its attempts count its failures, so the delays grow as
\* they should.  With one runner, for ids that were never added while a run of
\* what was cancelled under them was still under way.
ScheduledUntilDone ==
  OneRunner => \A s \in added :
    LET entry == jobs[idOf[s]]
        scheduled == entry # NoEntry /\ entry.work = s
    IN  idOf[s] \notin overtaken =>
          /\ scheduled <=> s \notin succeeded \cup cancelled
          /\ scheduled => entry.attempts = given[s].attempts + failures[s]

\* What was cancelled stays out of the map, however many runners work on copies
\* of it and whatever is added later, for ids that were never added while a
\* runner still had a copy of what was there before.
CancelledStaysOut ==
  \A id \in Id \ overtaken :
    jobs[id] # NoEntry => jobs[id].work \notin cancelled

\* internal/worker/worker_test.go:57, "TestSchedulerCancellationDuringRunDoes-
\* NotResurrectJob", and 81, "cancelled job was reinserted after failure": what
\* was cancelled stays out of the map, without exception.
NeverResurrected ==
  \A id \in Id : jobs[id] # NoEntry => jobs[id].work \notin cancelled

\* Once one runner runs an accepted job succeeds in the end, if its failures are
\* finitely many, or it is cancelled, or the scheduler is stopped.  Except again
\* for ids that were added during a run of what was there before.
EveryJobSucceeds ==
  \A s \in Submission :
    (s \in added /\ Started # {})
      ~> (\/ s \in succeeded \/ s \in cancelled \/ stopped
          \/ ~OneRunner \/ idOf[s] \in overtaken)

\* After Stop every Run returns; the copies it still has are run first.
StopEndsRun == \A r \in Runner : (stopped /\ r \in Started) ~> rn[r].pc = "out"

\* What has begun comes to its end, jobs and runs alike.
AllEnds == EveryJobSucceeds /\ StopEndsRun
=============================================================================
