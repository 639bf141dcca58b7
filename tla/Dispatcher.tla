----------------------------- MODULE Dispatcher -----------------------------
(***************************************************************************)
(* The in-memory job queue of internal/worker (queue.go) and the goroutines *)
(* that consume it (dispatcher.go, monitor.go): producers push jobs, each  *)
(* runner pops one, looks its handler up and runs it, and after an error   *)
(* pauses.  A lock section is one step; the select on the notify channel,  *)
(* whose buffer holds one token, is a step of its own, so a runner may     *)
(* look at the queue, find it empty, and be overtaken before it waits.     *)
(***************************************************************************)
EXTENDS Naturals, Sequences, FiniteSets, SequencesExt

CONSTANTS
  Runner,    \* the goroutines inside Dispatcher.Run
  Job,       \* the jobs producers push, once each
  Kind,      \* the kinds of jobs
  kindOf,    \* kindOf[j]: the part of "kind:id" before the colon
  Malformed, \* jobs whose text has no kind or no id
  NoJob      \* a runner without a job

VARIABLES
  items,     \* the queue
  closed,    \* "no", "flagged" inside Close before the token, "yes" after it
  token,     \* the notify channel holds its token
  handlers,  \* the kinds that have a handler
  cancelled, \* the context of the runners has ended
  pc,        \* pc[r]: where runner r is
  job,       \* job[r]: the job it has popped
  pushed,    \* the jobs Push accepted, in order
  consumed,  \* the jobs that are done with, in order
  health     \* running flag and failure count

vars == <<items, closed, token, handlers, cancelled, pc, job, pushed,
          consumed, health>>

\* new      Run has not been called yet
\* pop      about to lock the queue        wait    in the select of Pop
\* lookup   has popped a job               handle  inside its handler
\* pause    in Wait after an error         out     Run has returned
PC == {"new", "pop", "wait", "lookup", "handle", "pause", "out"}

----------------------------------------------------------------------------
(* Producers *)

\* Push: the item, and the token unless there is one already.  A push on a
\* closed queue is refused and changes nothing.
Push(j) ==
  /\ j \notin Range(pushed)
  /\ closed = "no"
  /\ items' = Append(items, j)
  /\ token' = TRUE
  /\ pushed' = Append(pushed, j)
  /\ UNCHANGED <<closed, handlers, cancelled, pc, job, consumed, health>>

\* Register: a second handler for a kind is refused.
Register(k) ==
  /\ k \notin handlers
  /\ handlers' = handlers \cup {k}
  /\ UNCHANGED <<items, closed, token, cancelled, pc, job, pushed, consumed,
                 health>>

\* Close, the lock section, and then the token outside the lock.
CloseFlag ==
  /\ closed = "no"
  /\ closed' = "flagged"
  /\ UNCHANGED <<items, token, handlers, cancelled, pc, job, pushed, consumed,
                 health>>

\* A mutant of CloseNotify: those who wait are not told.
CloseSilently ==
  /\ closed = "flagged"
  /\ closed' = "yes"
  /\ UNCHANGED <<items, token, handlers, cancelled, pc, job, pushed, consumed,
                 health>>

CloseNotify ==
  /\ closed = "flagged"
  /\ closed' = "yes"
  /\ token' = TRUE
  /\ UNCHANGED <<items, handlers, cancelled, pc, job, pushed, consumed, health>>

Cancel ==
  /\ ~cancelled
  /\ cancelled' = TRUE
  /\ UNCHANGED <<items, closed, token, handlers, pc, job, pushed, consumed,
                 health>>

----------------------------------------------------------------------------
(* Dispatcher.Run *)

\* Run is called.
Start(r) ==
  /\ pc[r] = "new"
  /\ pc' = [pc EXCEPT ![r] = "pop"]
  /\ health' = [health EXCEPT !.running = TRUE]
  /\ UNCHANGED <<items, closed, token, handlers, cancelled, job, pushed,
                 consumed>>

\* The deferred health.Stop of a Run that returns.
Leave(r) == /\ pc' = [pc EXCEPT ![r] = "out"]
            /\ health' = [health EXCEPT !.running = FALSE]

\* A mutant of Pop: the item stays in the queue.
PopKeepsItem(r) ==
  /\ pc[r] = "pop" /\ items # <<>>
  /\ job' = [job EXCEPT ![r] = Head(items)]
  /\ pc' = [pc EXCEPT ![r] = "lookup"]
  /\ UNCHANGED <<items, closed, token, handlers, cancelled, pushed, consumed,
                 health>>

\* A mutant of Pop: a closed queue is taken for an empty one.
PopClosedFirst(r) ==
  /\ pc[r] = "pop"
  /\ IF closed # "no"
       THEN Leave(r) /\ UNCHANGED <<items, job>>
       ELSE /\ IF items # <<>>
                 THEN /\ job' = [job EXCEPT ![r] = Head(items)]
                      /\ items' = Tail(items)
                      /\ pc' = [pc EXCEPT ![r] = "lookup"]
                 ELSE /\ pc' = [pc EXCEPT ![r] = "wait"]
                      /\ UNCHANGED <<items, job>>
            /\ UNCHANGED health
  /\ UNCHANGED <<closed, token, handlers, cancelled, pushed, consumed>>

\* Pop, the lock section: an item, the end, or wait.  Pop does not look at the
\* context while there are items.
Pop(r) ==
  /\ pc[r] = "pop"
  /\ IF items # <<>>
       THEN /\ job' = [job EXCEPT ![r] = Head(items)]
            /\ items' = Tail(items)
            /\ pc' = [pc EXCEPT ![r] = "lookup"]
            /\ UNCHANGED health
       ELSE /\ IF closed # "no"
                 THEN Leave(r)
                 ELSE pc' = [pc EXCEPT ![r] = "wait"] /\ UNCHANGED health
            /\ UNCHANGED <<items, job>>
  /\ UNCHANGED <<closed, token, handlers, cancelled, pushed, consumed>>

\* The select of Pop: the token, and then the loop looks again.
Wake(r) ==
  /\ pc[r] = "wait" /\ token
  /\ token' = FALSE
  /\ pc' = [pc EXCEPT ![r] = "pop"]
  /\ UNCHANGED <<items, closed, handlers, cancelled, job, pushed, consumed,
                 health>>

\* The select of Pop: the context.
WaitCancelled(r) ==
  /\ pc[r] = "wait" /\ cancelled
  /\ Leave(r)
  /\ UNCHANGED <<items, closed, token, handlers, cancelled, job, pushed,
                 consumed>>

Finished(r) == /\ consumed' = Append(consumed, job[r])
               /\ job' = [job EXCEPT ![r] = NoJob]

Failure == health' = [health EXCEPT !.failures = @ + 1]

\* The job is malformed, or nobody has registered its kind: it is dropped and
\* counted as a failure.  Otherwise its handler is called.
Lookup(r) ==
  /\ pc[r] = "lookup"
  /\ IF job[r] \in Malformed \/ kindOf[job[r]] \notin handlers
       THEN /\ Finished(r)
            /\ Failure
            /\ pc' = [pc EXCEPT ![r] = "pop"]
       ELSE /\ pc' = [pc EXCEPT ![r] = "handle"]
            /\ UNCHANGED <<job, consumed, health>>
  /\ UNCHANGED <<items, closed, token, handlers, cancelled, pushed>>

HandlerSucceeds(r) ==
  /\ pc[r] = "handle"
  /\ Finished(r)
  /\ pc' = [pc EXCEPT ![r] = "pop"]
  /\ UNCHANGED <<items, closed, token, handlers, cancelled, pushed, health>>

\* An error is counted, the job is not retried, and the runner pauses.
HandlerFails(r) ==
  /\ pc[r] = "handle"
  /\ Finished(r)
  /\ Failure
  /\ pc' = [pc EXCEPT ![r] = "pause"]
  /\ UNCHANGED <<items, closed, token, handlers, cancelled, pushed>>

\* Wait: the timer, or the context.
PauseEnds(r) ==
  /\ pc[r] = "pause"
  /\ pc' = [pc EXCEPT ![r] = "pop"]
  /\ UNCHANGED <<items, closed, token, handlers, cancelled, job, pushed,
                 consumed, health>>

PauseCancelled(r) ==
  /\ pc[r] = "pause" /\ cancelled
  /\ Leave(r)
  /\ UNCHANGED <<items, closed, token, handlers, cancelled, job, pushed,
                 consumed>>

----------------------------------------------------------------------------
Init ==
  /\ items = <<>> /\ closed = "no" /\ token = FALSE
  /\ handlers = {} /\ cancelled = FALSE
  /\ pc = [r \in Runner |-> "new"]
  /\ job = [r \in Runner |-> NoJob]
  /\ pushed = <<>> /\ consumed = <<>>
  /\ health = [running |-> FALSE, failures |-> 0]

Run(r) == \/ Pop(r) \/ Wake(r) \/ WaitCancelled(r) \/ Lookup(r)
          \/ HandlerSucceeds(r) \/ HandlerFails(r)
          \/ PauseEnds(r) \/ PauseCancelled(r)

Next ==
  \/ \E j \in Job : Push(j)
  \/ \E k \in Kind : Register(k)
  \/ CloseFlag \/ CloseNotify \/ Cancel
  \/ \E r \in Runner : Start(r) \/ Run(r)

Spec == Init /\ [][Next]_vars

\* Goroutines that can run do, handlers return, and whoever has set the flag of
\* Close goes on to its next line.  Nobody has to start a runner, push, close or
\* cancel.
Fairness == WF_vars(CloseNotify) /\ \A r \in Runner : WF_vars(Run(r))

FairSpec == Spec /\ Fairness

----------------------------------------------------------------------------
(* Properties *)

\* Shapes.
TypeOK ==
  /\ items \in Seq(Job) /\ pushed \in Seq(Job) /\ consumed \in Seq(Job)
  /\ closed \in {"no", "flagged", "yes"}
  /\ token \in BOOLEAN /\ cancelled \in BOOLEAN
  /\ handlers \subseteq Kind
  /\ pc \in [Runner -> PC]
  /\ job \in [Runner -> Job \cup {NoJob}]
  /\ \A r \in Runner : (job[r] # NoJob) = (pc[r] \in {"lookup", "handle"})
  /\ health \in [running : BOOLEAN, failures : Nat]

InHand == {job[r] : r \in Runner} \ {NoJob}

\* An accepted job is in exactly one place: the queue, a runner's hands, or
\* done.  None is lost, none is run twice, however many runners there are.
NoJobLost ==
  /\ Range(pushed) = Range(items) \cup InHand \cup Range(consumed)
  /\ Len(pushed) = Len(items) + Cardinality({r \in Runner : job[r] # NoJob})
                     + Len(consumed)

Started == {r \in Runner : pc[r] # "new"}

OneRunner == Cardinality(Started) <= 1

\* Once there is a runner every accepted job is consumed, unless the context
\* ends; closing the queue does not throw jobs away.
EveryJobConsumed ==
  \A j \in Job :
    (j \in Range(pushed) /\ Started # {}) ~> (j \in Range(consumed) \/ cancelled)

\* Run returns.  After the context has ended every Run does, once the queue is
\* drained or an error made it pause.  After Close a runner on its own does: the
\* test TestQueuePopWakesForPushAndClose says that Pop wakes for Close, but Close
\* leaves one token, and of several runners that wait only one is sure to get it.
RunReturns ==
  \A r \in Runner :
    /\ (cancelled /\ r \in Started) ~> pc[r] = "out"
    /\ (closed = "yes" /\ r \in Started) ~> (pc[r] = "out" \/ ~OneRunner)
=============================================================================
