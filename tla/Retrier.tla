------------------------------ MODULE Retrier ------------------------------
(***************************************************************************)
(* Retrier.Do of service/retry.go for one key: a function is called until  *)
(* it succeeds or the attempts are used up.  The number of attempts is     *)
(* read, the function called, and the number written back: calls of Do     *)
(* that overlap work on copies and overwrite each other's numbers.  The    *)
(* function shares nothing with the Retrier, so its return is one step     *)
(* with the lock section that follows.  How long Delay is shows nowhere.   *)
(***************************************************************************)
EXTENDS Naturals

CONSTANTS
  Caller, \* the goroutines that call Do, again and again
  Max     \* Policy.Max

VARIABLES
  held,   \* Attempts[key]; 0 when there is no entry
  call,   \* call[c]: where caller c is, and the attempt it has read
  failed, \* how often the function failed since it last succeeded
  overlap \* whether two calls of Do were ever under way at once

vars == <<held, call, failed, overlap>>

Active == {"checking", "calling", "sleeping"}
Underway == {c \in Caller : call[c].pc \in Active}

Goto(c, pc) == call' = [call EXCEPT ![c].pc = pc]

\* Failures are counted as far as they are compared.
CountFailure == failed' = IF failed > Max THEN failed ELSE failed + 1

----------------------------------------------------------------------------
Do(c) ==
  /\ c \notin Underway
  /\ overlap' = (overlap \/ Underway # {})
  /\ Goto(c, "checking")
  /\ UNCHANGED <<held, failed>>

\* The context is open, and the attempts are read.
Read(c) ==
  /\ call[c].pc = "checking"
  /\ call' = [call EXCEPT ![c] = [pc |-> "calling", attempt |-> held]]
  /\ UNCHANGED <<held, failed, overlap>>

CallSucceeds(c) ==
  /\ call[c].pc = "calling"
  /\ held' = 0
  /\ failed' = 0
  /\ Goto(c, "returned")
  /\ UNCHANGED overlap

\* A mutant of CallFails: the attempts are written back as they were.
CallFailsUncounted(c) ==
  /\ call[c].pc = "calling"
  /\ CountFailure
  /\ IF call[c].attempt >= Max
       THEN Goto(c, "exhausted") /\ UNCHANGED held
       ELSE Goto(c, "sleeping") /\ held' = call[c].attempt
  /\ UNCHANGED overlap

\* A mutant of CallFails: one attempt less.
CallFailsEarly(c) ==
  /\ call[c].pc = "calling"
  /\ CountFailure
  /\ IF call[c].attempt + 1 >= Max
       THEN Goto(c, "exhausted") /\ UNCHANGED held
       ELSE Goto(c, "sleeping") /\ held' = call[c].attempt + 1
  /\ UNCHANGED overlap

\* The attempts are used up and the error is returned, or they are counted and
\* a timer set.
CallFails(c) ==
  /\ call[c].pc = "calling"
  /\ CountFailure
  /\ IF call[c].attempt >= Max
       THEN Goto(c, "exhausted") /\ UNCHANGED held
       ELSE Goto(c, "sleeping") /\ held' = call[c].attempt + 1
  /\ UNCHANGED overlap

TimerFires(c) ==
  /\ call[c].pc = "sleeping"
  /\ Goto(c, "checking")
  /\ UNCHANGED <<held, failed, overlap>>

\* The context has ended, which Do looks at before a call and while it waits.
Cancelled(c) ==
  /\ call[c].pc \in {"checking", "sleeping"}
  /\ Goto(c, "returned")
  /\ UNCHANGED <<held, failed, overlap>>

----------------------------------------------------------------------------
Init ==
  /\ held = 0
  /\ call = [c \in Caller |-> [pc |-> "returned", attempt |-> 0]]
  /\ failed = 0
  /\ overlap = FALSE

Step(c) ==
  Read(c) \/ CallSucceeds(c) \/ CallFails(c) \/ TimerFires(c) \/ Cancelled(c)

Next == \E c \in Caller : Do(c) \/ Step(c)

\* Functions return and timers fire.
Fairness == \A c \in Caller : WF_vars(Step(c))

----------------------------------------------------------------------------
(* Properties *)

\* As long as calls do not overlap, Do gives up only after the function has
\* failed more often than Max since it last succeeded, in earlier calls too.
GivesUpAfterMax ==
  [][\A c \in Caller :
       call[c].pc = "calling" /\ call'[c].pc = "exhausted" /\ ~overlap
         => failed' > Max]_vars

\* What sets the attempts of a caller back: the success of another.
OtherSucceeds(c) == \E d \in Caller \ {c} : CallSucceeds(d)

\* Do returns although the function fails for ever and overlapping calls, given up
\* and made again, keep writing smaller attempts over larger ones.  Only others
\* that succeed again and again can keep it going: each deletes the attempts.
DoReturns ==
  \A c \in Caller :
    \/ call[c].pc \in Active ~> call[c].pc \notin Active
    \/ []<><<OtherSucceeds(c)>>_vars
============================================================================
