----------------------------- MODULE Lifecycle -----------------------------
(***************************************************************************)
(* What the lot service (internal/service/lifecycle.go) promises: each     *)
(* successful operation is one atomic change of the database.  An          *)
(* operation that is refused changes nothing, so it is a stuttering step   *)
(* here; module LifecycleTx has the refusals, the statements, the          *)
(* rollbacks and the crashes, and implements this specification.           *)
(***************************************************************************)
EXTENDS Store

VARIABLE db

vars == <<db>>

\* writeAudit: the event of a lot, with the tenant of whoever acted.
WriteAudit(d, p, id, action, result) ==
  InsertAudit(d, id, p.tenant, action, result)

----------------------------------------------------------------------------
(* The body of each transaction: the guards on its data, and its writes in *)
(* the order of the code.                                                  *)

IntakeTx(d, p, id, code, hazard) ==
  WriteAudit(
    InsertLot(d, id, [tenant |-> p.tenant, code |-> code, hazard |-> hazard,
                      state |-> "received", version |-> 1]),
    p, id, "intake", "success")

\* A mutant of InspectTx: the inspection writes no audit event.
InspectTxUnaudited(d, p, id, result) ==
  InsertInspection(UpdateLotState(d, id, InspectionTarget(result)),
                   id, p.tenant, result)

InspectTx(d, p, id, result) ==
  WriteAudit(
    InsertInspection(UpdateLotState(d, id, InspectionTarget(result)),
                     id, p.tenant, result),
    p, id, "inspection", result)

ReserveTx(d, p, id) ==
  WriteAudit(
    UpdateLotState(InsertReservation(d, id, p.tenant), id, "reserved"),
    p, id, "reserve", "station")

DismantlingTx(d, p, id) ==
  WriteAudit(UpdateLotState(d, id, "dismantling"),
             p, id, "dismantling", "started")

RecoverTx(d, p, id, grams, key) ==
  LET recovered == UpdateLotState(InsertRecovery(d, id, p.tenant, grams),
                                  id, "recovered")
      keyed == IF key = NoKey THEN recovered
                              ELSE SaveIdempotency(recovered, p.tenant, key, id)
  IN  WriteAudit(InsertOutbox(keyed, id, p.tenant), p, id, "recover", "confirmed")

CertifyTx(d, p, id) ==
  WriteAudit(
    UpdateLotState(
      InsertCertificate(d, id, p.tenant, Serial(d.lots[id].code)),
      id, "certified"),
    p, id, "certificate", "issued")

----------------------------------------------------------------------------
(* The operations *)

Intake(p, id, code, hazard) ==
  /\ Can(p, "intake")
  /\ LotUnique(db, id, p.tenant, code)
  /\ db' = IntakeTx(db, p, id, code, hazard)

Inspect(p, id, result) ==
  /\ Can(p, "inspect")
  /\ LotFound(db, id, p.tenant)
  /\ CanInspect(db.lots[id])
  /\ db' = InspectTx(db, p, id, result)

Reserve(p, id) ==
  /\ Can(p, "reserve")
  /\ LotFound(db, id, p.tenant)
  /\ CanReserve(db.lots[id])
  /\ ~ActiveReservation(db, id, p.tenant)
  /\ db' = ReserveTx(db, p, id)

BeginDismantling(p, id) ==
  /\ Can(p, "reserve")
  /\ LotFound(db, id, p.tenant)
  /\ db.lots[id].state = "reserved"
  /\ ActiveReservation(db, id, p.tenant)
  /\ db' = DismantlingTx(db, p, id)

\* A recovery that is really performed.  A call whose key is already stored
\* replays the stored response and changes nothing.
Recover(p, id, grams, key) ==
  /\ Can(p, "recover")
  /\ key # NoKey => KeyUnique(db, p.tenant, key)
  /\ LotFound(db, id, p.tenant)
  /\ CanRecover(db.lots[id])
  /\ WeightsValid(grams)
  /\ db' = RecoverTx(db, p, id, grams, key)

Certify(p, id) ==
  /\ Can(p, "certify")
  /\ LotFound(db, id, p.tenant)
  /\ CanCertify(db.lots[id])
  /\ ~FindCertificate(db, id, p.tenant)
  /\ SerialUnique(db, p.tenant, Serial(db.lots[id].code))
  /\ db' = CertifyTx(db, p, id)

----------------------------------------------------------------------------
Init == db = EmptyDatabase

Next ==
  \E p \in Principal, id \in Lot :
    \/ \E code \in Code, hazard \in Hazard : Intake(p, id, code, hazard)
    \/ \E result \in Result : Inspect(p, id, result)
    \/ Reserve(p, id)
    \/ BeginDismantling(p, id)
    \/ \E grams \in Weights, key \in KeyOrNone :
         Recover(p, id, grams, key)
    \/ Certify(p, id)

Spec == Init /\ [][Next]_vars

\* Clients that do not give up: whoever may take a lot further keeps asking.
\* Used by the liveness question only; nothing in the program forces it.
Progress(id) ==
  \E p \in Principal :
    \/ \E result \in Result : Inspect(p, id, result)
    \/ Reserve(p, id)
    \/ BeginDismantling(p, id)
    \/ \E grams \in Weights, key \in KeyOrNone :
         Recover(p, id, grams, key)
    \/ Certify(p, id)

FairSpec == Spec /\ \A id \in Lot : WF_vars(Progress(id))

----------------------------------------------------------------------------
(* Properties *)

\* The tables hold rows of the right shape.
TypeOK == db \in Database

Present(id) == db.lots[id] # NoLot
StateOf(id) == db.lots[id].state

AtLeastReserved == {"reserved", "dismantling", "recovered", "certified"}
AtLeastRecovered == {"recovered", "certified"}

\* The operations in the order a lot goes through them.
Path == <<"intake", "inspection", "reserve", "dismantling", "recover",
          "certificate">>

\* How many operations a lot in a state has been through.
Stage(state) ==
  CASE state = "received"    -> 1
    [] state = "inspected"   -> 2
    [] state = "quarantined" -> 2
    [] state = "reserved"    -> 3
    [] state = "dismantling" -> 4
    [] state = "recovered"   -> 5
    [] OTHER                 -> 6

\* The audit log can be replayed: it has one event per change of a lot (as many
\* as the version counts), the events are the operations in workflow order, and
\* they lead to the state the lot is in.
AuditReplays ==
  \A id \in Lot :
    IF Present(id)
      THEN /\ Len(db.audit[id]) = db.lots[id].version
           /\ Len(db.audit[id]) = Stage(StateOf(id))
           /\ \A i \in 1..Len(db.audit[id]) : db.audit[id][i].action = Path[i]
      ELSE db.audit[id] = <<>>

\* A reservation exists exactly for the lots that were taken off the shelf, and
\* never two of them: releasing, double booking and dismantling without a
\* reservation are all excluded.
OneReservation ==
  \A id \in Lot :
    Len(db.reservations[id]) =
      IF Present(id) /\ StateOf(id) \in AtLeastReserved THEN 1 ELSE 0

\* Recovery, its outbox event and the change of state come together and once:
\* a lot has exactly one balance and one event as soon as it is recovered.
RecoveredOnce ==
  \A id \in Lot :
    LET n == IF Present(id) /\ StateOf(id) \in AtLeastRecovered THEN 1 ELSE 0
    IN  Len(db.recoveries[id]) = n /\ Len(db.outbox[id]) = n

\* Material is recovered only from lots that an inspection released and whose
\* hazard score is below the limit: a held or rejected lot, or a dangerous one,
\* never gets past the shelf.
OnlySafeLotsReserved ==
  \A id \in Lot :
    Present(id) /\ StateOf(id) \in AtLeastReserved =>
      /\ db.lots[id].hazard < HazardLimit
      /\ \A i \in 1..Len(db.inspections[id]) :
           db.inspections[id][i].result \notin {"hold", "reject"}
      /\ Len(db.inspections[id]) = 1

\* A stored key answers for a recovery its own tenant really made.
KeysAnswerForOwnRecovery ==
  \A t \in Tenant, k \in Key :
    LET id == db.idempotency[t][k]
    IN  id # NoLot => /\ Present(id)
                      /\ db.lots[id].tenant = t
                      /\ StateOf(id) \in AtLeastRecovered

\* A lot is certified at most once, certified exactly when its certificate
\* exists, and no two certificates of any tenants share a serial.
CertificatesUnique ==
  /\ \A id \in Lot :
       Len(db.certificates[id]) =
         IF Present(id) /\ StateOf(id) = "certified" THEN 1 ELSE 0
  /\ \A a, b \in Lot :
       a # b => \A i \in 1..Len(db.certificates[a]) :
                  \A j \in 1..Len(db.certificates[b]) :
                    db.certificates[a][i].serial # db.certificates[b][j].serial

Belong(rows, id) ==
  \A i \in 1..Len(rows) : Present(id) /\ rows[i].tenant = db.lots[id].tenant

\* Every row about a lot was written by the tenant the lot belongs to.
TenantIsolation ==
  \A id \in Lot :
    /\ Belong(db.inspections[id], id)
    /\ Belong(db.reservations[id], id)
    /\ Belong(db.recoveries[id], id)
    /\ Belong(db.certificates[id], id)
    /\ Belong(db.audit[id], id)
    /\ Belong(db.outbox[id], id)

\* The serial of a recovered lot can only have been taken by another tenant's
\* certificate: inside one tenant no lot blocks the certification of another.
SerialFreeWithinTenant ==
  \A a, b \in Lot :
    Present(a) /\ StateOf(a) = "recovered" =>
      \A i \in 1..Len(db.certificates[b]) :
        db.certificates[b][i].serial = Serial(db.lots[a].code) =>
          db.certificates[b][i].tenant # db.lots[a].tenant

\* The child rows of a lot are those its state calls for, none is there twice, and
\* none of the tenant's own stands in the way of the next.
RecordsMatchState ==
  OneReservation /\ RecoveredOnce /\ CertificatesUnique /\ SerialFreeWithinTenant

LotsFollowNextState ==
  \A id \in Lot :
    Present(id) => \/ db'.lots[id] = db.lots[id]
                   \/ /\ db'.lots[id].state \in NextState(StateOf(id))
                      /\ db'.lots[id].version = db.lots[id].version + 1

\* The services never consult battery.NextState: yet every change of a lot's
\* state is one that table allows, and increases the version by exactly one.
StepsFollowNextState == [][LotsFollowNextState]_vars

----------------------------------------------------------------------------
(* The inductive invariant *)

HasRows(rows, n, tenant) ==
  Len(rows) = n /\ \A i \in 1..n : rows[i].tenant = tenant

\* Everything about one lot follows from the state it is in: its version, its
\* audit trail, and how many rows it has in each table.
LotExplained(id) ==
  LET lot == db.lots[id]
      n(b) == IF b THEN 1 ELSE 0
  IN  /\ lot.version = Stage(lot.state)
      /\ HasRows(db.audit[id], Stage(lot.state), lot.tenant)
      /\ \A i \in 1..Stage(lot.state) : db.audit[id][i].action = Path[i]
      /\ HasRows(db.inspections[id], n(lot.state # "received"), lot.tenant)
      /\ lot.state # "received" =>
           ((db.inspections[id][1].result \in {"hold", "reject"})
              <=> (lot.state = "quarantined"))
      /\ HasRows(db.reservations[id], n(lot.state \in AtLeastReserved), lot.tenant)
      /\ lot.state \in AtLeastReserved => lot.hazard < HazardLimit
      /\ HasRows(db.recoveries[id], n(lot.state \in AtLeastRecovered), lot.tenant)
      /\ HasRows(db.outbox[id], n(lot.state \in AtLeastRecovered), lot.tenant)
      /\ HasRows(db.certificates[id], n(lot.state = "certified"), lot.tenant)
      /\ lot.state = "certified" =>
           db.certificates[id][1].serial = Serial(lot.code)

\* An id nobody has used yet has no rows anywhere.
Unused(id) ==
  /\ db.audit[id] = <<>> /\ db.inspections[id] = <<>>
  /\ db.reservations[id] = <<>> /\ db.recoveries[id] = <<>>
  /\ db.certificates[id] = <<>> /\ db.outbox[id] = <<>>

LotOK(id) == IF Present(id) THEN LotExplained(id) ELSE Unused(id)

\* Codes are unique inside a tenant, and among certified lots everywhere.
CodesUnique ==
  \A a, b \in Lot :
    Present(a) /\ Present(b) /\ a # b /\ db.lots[a].code = db.lots[b].code =>
      /\ db.lots[a].tenant # db.lots[b].tenant
      /\ ~(StateOf(a) = "certified" /\ StateOf(b) = "certified")

IInv == /\ TypeOK
        /\ \A id \in Lot : LotOK(id)
        /\ KeysAnswerForOwnRecovery
        /\ CodesUnique

\* README, Workflow: a lot moves on to certified.  Claimed of a lot that has
\* been recovered, when its tenant's supervisor keeps asking.
RecoveredLotIsCertified ==
  \A id \in Lot :
    (Present(id) /\ StateOf(id) = "recovered")
      ~> (Present(id) /\ StateOf(id) = "certified")
============================================================================
