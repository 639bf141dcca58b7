--------------------------- MODULE Notifications ---------------------------
(***************************************************************************)
(* The notification queue of service/notification.go: messages are queued, *)
(* claimed by senders in the order of their NextAttempt, and completed     *)
(* with the outcome; a failure is retried after a delay that doubles.      *)
(* Each operation is one lock section; between Claim and Complete the      *)
(* sender works on its own, and may never come back with an outcome.       *)
(*                                                                         *)
(* Times are kept as what Claim compares: how many seconds a failed        *)
(* message still has to wait, and for those that wait no longer the order  *)
(* of their NextAttempt.  Messages that become due in the same second line *)
(* up in any order.                                                        *)
(*                                                                         *)
(* Complete itself takes any id and asks neither for the status nor for    *)
(* who claimed the message.  Nothing under src/ calls it, so the protocol  *)
(* is the one its name and Claim suggest: a sender completes what it has   *)
(* claimed, once, while it has it.  One that came back after it gave up,   *)
(* or with an id it never claimed, could mark what nobody has sent.        *)
(***************************************************************************)
EXTENDS Naturals, Sequences, SequencesExt

CONSTANTS
  Message,   \* the ids of messages
  Sender,    \* the goroutines that claim and send
  MaxCount,  \* bound: attempts are counted up to here
  MaxLost,   \* bound: how often a sender gives up on a message
  NoMessage  \* a sender without a message

VARIABLES
  item,    \* item[m]: status, attempts, and the seconds it has to wait
  line,    \* the messages that are Ready, by NextAttempt
  hand,    \* hand[s]: the message sender s has claimed
  lost     \* how often a sender gave up

vars == <<item, line, hand, lost>>

Status == {"none", "queued", "sending", "sent", "failed"}

\* One second, and twice as long after each further attempt.
Backoff(attempt) == IF attempt < 1 THEN 1 ELSE 2^(attempt - 1)

CountUpTo(n) == IF n < MaxCount THEN n ELSE MaxCount

----------------------------------------------------------------------------
\* Queue: a message with a new id, ready at once.
Queue(m) ==
  /\ item[m].status = "none"
  /\ item' = [item EXCEPT ![m].status = "queued"]
  /\ line' = Append(line, m)
  /\ UNCHANGED <<hand, lost>>

\* A mutant of Claim: the status is left alone, so the message stays ready.
ClaimUnmarked(s) ==
  /\ hand[s] = NoMessage
  /\ line # <<>>
  /\ LET m == Head(line)
     IN  /\ item' = [item EXCEPT ![m].attempts = CountUpTo(@ + 1)]
         /\ hand' = [hand EXCEPT ![s] = m]
  /\ UNCHANGED <<line, lost>>

\* A mutant of Claim: the latest NextAttempt first.
ClaimLatest(s) ==
  /\ hand[s] = NoMessage
  /\ line # <<>>
  /\ LET m == Last(line)
     IN  /\ item' = [item EXCEPT ![m].status = "sending",
                                 ![m].attempts = CountUpTo(@ + 1)]
         /\ hand' = [hand EXCEPT ![s] = m]
  /\ line' = Front(line)
  /\ UNCHANGED lost

\* Claim: the first message that is Ready.
Claim(s) ==
  /\ hand[s] = NoMessage
  /\ line # <<>>
  /\ LET m == Head(line)
     IN  /\ item' = [item EXCEPT ![m].status = "sending",
                                 ![m].attempts = CountUpTo(@ + 1)]
         /\ hand' = [hand EXCEPT ![s] = m]
  /\ line' = Tail(line)
  /\ UNCHANGED lost

\* Complete, after the message was sent.
CompleteSent(s) ==
  /\ hand[s] # NoMessage
  /\ item' = [item EXCEPT ![hand[s]].status = "sent"]
  /\ hand' = [hand EXCEPT ![s] = NoMessage]
  /\ UNCHANGED <<line, lost>>

\* Complete, after sending has failed.
CompleteFailed(s) ==
  /\ hand[s] # NoMessage
  /\ item' = [item EXCEPT ![hand[s]].status = "failed",
                          ![hand[s]].wait = Backoff(item[hand[s]].attempts)]
  /\ hand' = [hand EXCEPT ![s] = NoMessage]
  /\ UNCHANGED <<line, lost>>

\* The context has ended and Complete changes nothing, or it is never called.
GiveUp(s) ==
  /\ lost < MaxLost
  /\ hand[s] # NoMessage
  /\ hand' = [hand EXCEPT ![s] = NoMessage]
  /\ lost' = lost + 1
  /\ UNCHANGED <<item, line>>

\* A second passes; failed messages become Ready when NextAttempt comes.
Tick ==
  LET due == {m \in Message : item[m].status = "failed" /\ item[m].wait = 1}
  IN  /\ \E order \in SetToSeqs(due) : line' = line \o order
      /\ item' = [m \in Message |->
           [item[m] EXCEPT !.wait = IF @ = 0 THEN 0 ELSE @ - 1]]
      /\ UNCHANGED <<hand, lost>>

----------------------------------------------------------------------------
Init ==
  /\ item = [m \in Message |-> [status |-> "none", attempts |-> 0, wait |-> 0]]
  /\ line = <<>>
  /\ hand = [s \in Sender |-> NoMessage]
  /\ lost = 0

Complete(s) == CompleteSent(s) \/ CompleteFailed(s)

Next ==
  \/ \E m \in Message : Queue(m)
  \/ \E s \in Sender : Claim(s) \/ Complete(s) \/ GiveUp(s)
  \/ Tick

\* Senders keep claiming and come back; time passes.  Sending may fail for ever.
Fairness == /\ \A s \in Sender : WF_vars(Claim(s)) /\ WF_vars(Complete(s))
            /\ WF_vars(Tick)

----------------------------------------------------------------------------
(* Properties *)

\* Two senders never send the same message at the same time, and what a sender
\* has in hand nobody else can claim, retries included.
OneSenderEach ==
  /\ \A s, t \in Sender : hand[s] = hand[t] /\ hand[s] # NoMessage => s = t
  /\ \A s \in Sender : hand[s] # NoMessage => item[hand[s]].status = "sending"

\* Nobody starves: a message that waits, new or to be retried, is claimed in the
\* end, although others fail and come back for ever.
WaitingIsClaimed ==
  \A m \in Message :
    item[m].status \in {"queued", "failed"} ~> item[m].status = "sending"
============================================================================
