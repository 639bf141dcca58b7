------------------------------ MODULE Services ------------------------------
(***************************************************************************)
(* The services that keep what they know in memory, and the two that are   *)
(* built on the lots of the lifecycle.  They have no state in common (the  *)
(* clock apart) and never call one another, so that every interleaving of  *)
(* them looks to each of them like one in which it is alone: a behaviour   *)
(* of this module follows one service, its focus, and leaves the others    *)
(* where they are.  What has no tenant in its operations has none here.    *)
(***************************************************************************)
EXTENDS Integers, Sequences

CONSTANTS
  Tenant, Principal,
  Local, \* the people of one tenant
  \* Materials
  Kind, Id, Grams, Grade, Day, MaxAdds,
  \* Notifications
  Message, Sender, MaxCount, MaxLost, NoMessage,
  \* Batch, on Lifecycle
  Lot, Code, Hazard, Result, Weights, Key, NoLot, NoKey, Batches, WorkerCounts,
  \* Retrier
  Caller, Max,
  \* Transport, Manifests and Incidents
  Vehicle, Trip, Offer, Stop, Preset, MaxStops, MaxNow, Never,
  Manifest, Item, BadItem, Room, MaxItems, Blank,
  Incident, MaxActions,
  \* Compliance and Safety
  Certificate, Evidence, Requirement, Empty,
  LotId, Finding, Reading, MaxFindings, MaxNotes,
  \* Trace and Paging
  Node, MaxEdges, Row, Reader, Asked, MaxLimit, DefaultLimit

\* People have a tenant and a role.  Trips, findings and held lots are kept by
\* tenant, so that the people of one tenant are all who can meet there.
ASSUME PrincipalAssumption ==
  /\ \A p \in Principal : p.tenant \in Tenant /\ p.role \in STRING
  /\ Local \subseteq Principal

\* Numbers are what the code has as int.
ASSUME IntAssumption ==
  Grams \cup Hazard \cup Asked \cup WorkerCounts \cup {Max, MaxLimit} \subseteq Int

\* What stands for nothing is not something.
ASSUME NothingAssumption ==
  /\ NoMessage \notin Message /\ NoLot \notin Lot /\ NoKey \notin Key
  /\ Never \notin Int /\ Blank \notin Item \cup BadItem /\ Empty \notin Evidence

\* Normalize replaces a limit by one that it would accept.
ASSUME LimitAssumption == DefaultLimit \in 1..MaxLimit

\* An array has so many elements.
ASSUME RoomAssumption == Room \in Nat

VARIABLES
  focus, now,
  lots, adds, answer,
  item, line, hand, lost,
  db, phase, who, ended, job, slots, created, failures, retry,
  held, call, failed, overlap,
  vehicles, trips,
  array, filled, manifests,
  incidents, actions,
  certs, reviews,
  findings, items, notes, holds,
  nodes, edges,
  rows, walk

M == INSTANCE Materials
N == INSTANCE Notifications
B == INSTANCE Batch
R == INSTANCE Retrier
T == INSTANCE Transport WITH Principal <- Local
F == INSTANCE Manifests
I == INSTANCE Incidents
C == INSTANCE Compliance
S == INSTANCE Safety WITH Principal <- Local
G == INSTANCE Trace
P == INSTANCE Paging

\* Batches are of codes and severities that lots can have, as is the severity
\* of a retry; a row is never taken for none.
ASSUME BatchAssumption ==
  /\ Batches \subseteq Seq([code : Code, hazard : Hazard])
  /\ B!RetryHazard \in Hazard
  /\ NoLot \notin B!LotRow

Service == {"materials", "notifications", "batch", "retrier", "transport", "manifests",
            "incidents", "compliance", "safety", "trace", "paging"}

\* The services that are not in focus stand still.
Others(name) ==
  /\ UNCHANGED focus
  /\ IF name = "materials" THEN TRUE ELSE UNCHANGED <<lots, adds, answer>>
  /\ IF name = "notifications" THEN TRUE ELSE UNCHANGED <<item, line, hand, lost>>
  /\ IF name = "batch" THEN TRUE
     ELSE UNCHANGED <<db, phase, who, ended, job, slots, created, failures, retry>>
  /\ IF name = "retrier" THEN TRUE ELSE UNCHANGED <<held, call, failed, overlap>>
  /\ IF name \in {"transport", "incidents"} THEN TRUE ELSE UNCHANGED now
  /\ IF name = "transport" THEN TRUE ELSE UNCHANGED <<vehicles, trips>>
  /\ IF name = "manifests" THEN TRUE ELSE UNCHANGED <<array, filled, manifests>>
  /\ IF name = "incidents" THEN TRUE ELSE UNCHANGED <<incidents, actions>>
  /\ IF name = "compliance" THEN TRUE ELSE UNCHANGED <<certs, reviews>>
  /\ IF name = "safety" THEN TRUE ELSE UNCHANGED <<findings, items, notes, holds>>
  /\ IF name = "trace" THEN TRUE ELSE UNCHANGED <<nodes, edges>>
  /\ IF name = "paging" THEN TRUE ELSE UNCHANGED <<rows, walk>>

Init ==
  /\ focus \in Service
  /\ M!Init /\ N!Init /\ B!BatchInit /\ R!Init /\ T!Init /\ F!Init
  /\ I!Init /\ C!Init /\ S!Init /\ G!Init /\ P!Init

Next ==
  \/ focus = "materials" /\ M!Next /\ Others("materials")
  \/ focus = "notifications" /\ N!Next /\ Others("notifications")
  \/ focus = "batch" /\ B!BatchNext /\ Others("batch")
  \/ focus = "retrier" /\ R!Next /\ Others("retrier")
  \/ focus = "transport" /\ T!Next /\ Others("transport")
  \/ focus = "manifests" /\ F!Next /\ Others("manifests")
  \/ focus = "incidents" /\ I!Next /\ Others("incidents")
  \/ focus = "compliance" /\ C!Next /\ Others("compliance")
  \/ focus = "safety" /\ S!Next /\ Others("safety")
  \/ focus = "trace" /\ G!Next /\ Others("trace")
  \/ focus = "paging" /\ P!Next /\ Others("paging")

vars == <<focus, now, lots, adds, answer, item, line, hand, lost, db, phase, who, ended,
          job, slots, created, failures, retry, held, call, failed, overlap,
          vehicles, trips, array, filled, manifests, incidents, actions, certs, reviews,
          findings, items, notes, holds, nodes, edges, rows, walk>>

\* What has to go on in a service that is not in focus has nothing to do.
Spec == /\ Init /\ [][Next]_vars
        /\ N!Fairness /\ B!BatchFairness /\ R!Fairness

----------------------------------------------------------------------------
(* Properties: those of the services. *)

\* Materials: the stock amounts to one account per tenant and kind.
ImplementsLedger == M!ImplementsLedger

\* Notifications: nobody sends what another is sending, and nobody starves.
OneSenderEach == N!OneSenderEach
WaitingIsClaimed == N!WaitingIsClaimed

\* Batch: every item is answered for, and Import returns.
EveryItemAnswered == B!EveryItemAnswered
ImportReturns == B!ImportReturns

\* Retrier: attempts are used up before Do gives up, and Do returns unless others
\* succeed again and again.
GivesUpAfterMax == R!GivesUpAfterMax
DoReturns == R!DoReturns

\* Transport: the times of a trip are in order once it is under way.
JourneyInOrder == T!JourneyInOrder

\* Manifests: what is sealed keeps its items, but for those that are replaced
\* from below.
ReplacedFromBelow == F!ReplacedFromBelow

\* Incidents: an incident is closed once.
ClosedOnce == I!ClosedOnce

\* Compliance: decisions are final, on evidence and on the record.
DecidedOnRecord == C!DecidedOnRecord

\* Safety: danger stays open until it is resolved; notes belong to a stay.
DangerStaysOpen == S!DangerStaysOpen
NotesOfThisStay == S!NotesOfThisStay

\* Trace: Reachable finds exactly what a path leads to.
ReachableMeansPath == G!ReachableMeansPath

\* Paging: a walk over all pages misses nothing.
WalkMissesNothing == P!WalkMissesNothing
=============================================================================
