------------------------- MODULE LifecycleTxProofs -------------------------
(***************************************************************************)
(* Proofs about LifecycleTx, for any sets of requests and any inputs.      *)
(* The argument: a running transaction has run a prefix of the statements  *)
(* of its operation, its image is what those statements make of the        *)
(* committed database, and the checks they made hold of the committed      *)
(* database still, because the one connection keeps every other            *)
(* transaction from committing.  So what Commit installs is exactly what   *)
(* the atomic operation of Lifecycle leaves.                               *)
(***************************************************************************)
EXTENDS LifecycleTx, TLAPS

L == INSTANCE LifecycleProofs

----------------------------------------------------------------------------
(* The inductive invariant *)

\* What GetLot and the service have found in d for the call.
ReadIn(c, d) == LotFound(d, c.lot, c.p.tenant) /\ Verdict(c, d.lots[c.lot]) = "ok"

\* The database after the statements every operation has.
Entered(c, d) ==
  InsertLot(d, c.lot, [tenant |-> c.p.tenant, code |-> c.code,
                       hazard |-> c.hazard, state |-> "received", version |-> 1])
Moved(c, d) == UpdateLotState(d, c.lot, Target(c))
Audited(c, d) ==
  InsertAudit(d, c.lot, c.p.tenant, AuditOf(c).action, AuditOf(c).result)

\* q: the request; d: the committed database; e: the image of its transaction.
IntakeAt(q, d, e) ==
  LET c == q.call IN
  \/ q.todo = <<"InsertLot", "InsertAudit">> /\ e = d
  \/ /\ LotUnique(d, c.lot, c.p.tenant, c.code)
     /\ \/ q.todo = <<"InsertAudit">> /\ e = Entered(c, d)
        \/ q.todo = <<>> /\ e = Audited(c, Entered(c, d))

Inspected(c, d) == InsertInspection(Moved(c, d), c.lot, c.p.tenant, c.result)

InspectAt(q, d, e) ==
  LET c == q.call IN
  \/ /\ q.todo = <<"GetLot", "UpdateLotState", "InsertInspection", "InsertAudit">>
     /\ e = d
  \/ /\ ReadIn(c, d)
     /\ \/ /\ q.todo = <<"UpdateLotState", "InsertInspection", "InsertAudit">>
           /\ e = d
        \/ q.todo = <<"InsertInspection", "InsertAudit">> /\ e = Moved(c, d)
        \/ q.todo = <<"InsertAudit">> /\ e = Inspected(c, d)
        \/ q.todo = <<>> /\ e = Audited(c, Inspected(c, d))

Reserved(c, d) == InsertReservation(d, c.lot, c.p.tenant)

\* The lookup of a reservation leaves nothing behind: it may have failed.
ReserveAt(q, d, e) ==
  LET c == q.call IN
  \/ /\ q.todo = <<"GetLot", "ActiveReservation", "InsertReservation",
                   "UpdateLotState", "InsertAudit">>
     /\ e = d
  \/ /\ ReadIn(c, d)
     /\ \/ /\ q.todo \in {<<"ActiveReservation", "InsertReservation",
                            "UpdateLotState", "InsertAudit">>,
                          <<"InsertReservation", "UpdateLotState",
                            "InsertAudit">>}
           /\ e = d
        \/ q.todo = <<"UpdateLotState", "InsertAudit">> /\ e = Reserved(c, d)
        \/ q.todo = <<"InsertAudit">> /\ e = Moved(c, Reserved(c, d))
        \/ q.todo = <<>> /\ e = Audited(c, Moved(c, Reserved(c, d)))

DismantleAt(q, d, e) ==
  LET c == q.call IN
  \/ /\ q.todo = <<"GetLot", "ActiveReservation", "UpdateLotState",
                   "InsertAudit">>
     /\ e = d
  \/ /\ ReadIn(c, d)
     /\ \/ /\ q.todo = <<"ActiveReservation", "UpdateLotState", "InsertAudit">>
           /\ e = d
        \/ /\ ActiveReservation(d, c.lot, c.p.tenant)
           /\ \/ q.todo = <<"UpdateLotState", "InsertAudit">> /\ e = d
              \/ q.todo = <<"InsertAudit">> /\ e = Moved(c, d)
              \/ q.todo = <<>> /\ e = Audited(c, Moved(c, d))

Recovered(c, d) ==
  Moved(c, InsertRecovery(d, c.lot, c.p.tenant, c.grams))
Announced(c, d) == InsertOutbox(d, c.lot, c.p.tenant)

\* Without a key.
RecoverAt(q, d, e) ==
  LET c == q.call IN
  \/ /\ q.todo = <<"GetLot", "InsertRecovery", "UpdateLotState", "InsertOutbox",
                   "InsertAudit">>
     /\ e = d
  \/ /\ ReadIn(c, d)
     /\ \/ /\ q.todo = <<"InsertRecovery", "UpdateLotState", "InsertOutbox",
                         "InsertAudit">>
           /\ e = d
        \/ /\ q.out = c.lot
           /\ \/ /\ q.todo = <<"UpdateLotState", "InsertOutbox", "InsertAudit">>
                 /\ e = InsertRecovery(d, c.lot, c.p.tenant, c.grams)
              \/ /\ q.todo = <<"InsertOutbox", "InsertAudit">>
                 /\ e = Recovered(c, d)
              \/ /\ q.todo = <<"InsertAudit">>
                 /\ e = Announced(c, Recovered(c, d))
              \/ /\ q.todo = <<>>
                 /\ e = Audited(c, Announced(c, Recovered(c, d)))

Keyed(c, d) == SaveIdempotency(Recovered(c, d), c.p.tenant, c.key, c.lot)

\* The key was found and nothing is written: the stored response is the answer.
Replays(q, d, e) ==
  /\ q.todo = <<>> /\ e = d
  /\ q.out # NoLot /\ q.out = GetIdempotency(d, q.call.p.tenant, q.call.key)

\* With a key, before the statement that stores it: the key is free, unless its
\* lookup failed.
LookedUpAt(q, d, e) ==
  LET c == q.call IN
  /\ q.degraded \/ KeyUnique(d, c.p.tenant, c.key)
  /\ \/ /\ q.todo = <<"GetLot", "InsertRecovery", "UpdateLotState",
                      "SaveIdempotency", "InsertOutbox", "InsertAudit">>
        /\ e = d
     \/ /\ ReadIn(c, d)
        /\ \/ /\ q.todo = <<"InsertRecovery", "UpdateLotState",
                            "SaveIdempotency", "InsertOutbox", "InsertAudit">>
              /\ e = d
           \/ /\ q.todo = <<"UpdateLotState", "SaveIdempotency", "InsertOutbox",
                            "InsertAudit">>
              /\ q.out = c.lot
              /\ e = InsertRecovery(d, c.lot, c.p.tenant, c.grams)
           \/ /\ q.todo = <<"SaveIdempotency", "InsertOutbox", "InsertAudit">>
              /\ q.out = c.lot
              /\ e = Recovered(c, d)

\* With a key, after the statement that stores it: it was free.
SavedAt(q, d, e) ==
  LET c == q.call IN
  /\ ReadIn(c, d) /\ KeyUnique(d, c.p.tenant, c.key) /\ q.out = c.lot
  /\ \/ q.todo = <<"InsertOutbox", "InsertAudit">> /\ e = Keyed(c, d)
     \/ q.todo = <<"InsertAudit">> /\ e = Announced(c, Keyed(c, d))
     \/ q.todo = <<>> /\ e = Audited(c, Announced(c, Keyed(c, d)))

KeyedRecoverAt(q, d, e) ==
  \/ /\ q.todo = <<"GetIdempotency", "GetLot", "InsertRecovery",
                   "UpdateLotState", "SaveIdempotency", "InsertOutbox",
                   "InsertAudit">>
     /\ e = d
  \/ Replays(q, d, e) \/ LookedUpAt(q, d, e) \/ SavedAt(q, d, e)

Certificate(c, d) ==
  InsertCertificate(d, c.lot, c.p.tenant, Serial(d.lots[c.lot].code))

CertifyAt(q, d, e) ==
  LET c == q.call IN
  \/ /\ q.todo = <<"GetLot", "FindCertificate", "InsertCertificate",
                   "UpdateLotState", "InsertAudit">>
     /\ e = d
  \/ /\ ReadIn(c, d)
     /\ \/ /\ q.todo \in {<<"FindCertificate", "InsertCertificate",
                            "UpdateLotState", "InsertAudit">>,
                          <<"InsertCertificate", "UpdateLotState",
                            "InsertAudit">>}
           /\ q.seen = d.lots[c.lot] /\ e = d
        \/ /\ SerialUnique(d, c.p.tenant, Serial(d.lots[c.lot].code))
           /\ \/ /\ q.todo = <<"UpdateLotState", "InsertAudit">>
                 /\ e = Certificate(c, d)
              \/ /\ q.todo = <<"InsertAudit">>
                 /\ e = Moved(c, Certificate(c, d))
              \/ /\ q.todo = <<>>
                 /\ e = Audited(c, Moved(c, Certificate(c, d)))

\* Where the transaction of q is.
TransactionAt(q, d, e) ==
  CASE q.call.op = "intake"    -> IntakeAt(q, d, e)
    [] q.call.op = "inspect"   -> InspectAt(q, d, e)
    [] q.call.op = "reserve"   -> ReserveAt(q, d, e)
    [] q.call.op = "dismantle" -> DismantleAt(q, d, e)
    [] q.call.op = "recover"   -> IF q.call.key = NoKey
                                    THEN RecoverAt(q, d, e)
                                    ELSE KeyedRecoverAt(q, d, e)
    [] q.call.op = "certify"   -> CertifyAt(q, d, e)

Permitted(q) == Can(q.call.p, Permission(q.call.op))

\* What the answer "ok" promises of the database.
Durable(q, d) ==
  LET c == q.call
      id == IF c.op = "recover" THEN q.out ELSE c.lot
  IN  /\ id # NoLot
      /\ LotFound(d, id, c.p.tenant)
      /\ \E i \in 1..Len(d.audit[id]) : d.audit[id][i].action = AuditOf(c).action
      /\ c.op = "recover" =>
           /\ Len(d.recoveries[id]) > 0
           /\ c.key # NoKey => d.idempotency[c.p.tenant][c.key] = id

RequestOK(r) ==
  LET q == req[r] IN
  /\ q.pc = "waiting" => Permitted(q) /\ q.todo = Program(q.call)
  /\ q.pc = "running" => Permitted(q) /\ TransactionAt(q, db, image[r])
  /\ q.pc = "answering" /\ q.reply = "ok" => Durable(q, db)

TxInv == TypeOK /\ L!IInv /\ \A r \in Req : RequestOK(r)

----------------------------------------------------------------------------
(* The two instances of Lifecycle agree: both are built from the operators *)
(* of Store, which are the ones the statements of this module apply.       *)

\* What a statement writes is the same in the instance of the proofs.
LEMMA SameStatements ==
  \A d, id, x, y, z :
    /\ L!InsertLot(d, id, x) = InsertLot(d, id, x)
    /\ L!UpdateLotState(d, id, x) = UpdateLotState(d, id, x)
    /\ L!InsertInspection(d, id, x, y) = InsertInspection(d, id, x, y)
    /\ L!InsertReservation(d, id, x) = InsertReservation(d, id, x)
    /\ L!InsertRecovery(d, id, x, y) = InsertRecovery(d, id, x, y)
    /\ L!InsertCertificate(d, id, x, y) = InsertCertificate(d, id, x, y)
    /\ L!InsertAudit(d, id, x, y, z) = InsertAudit(d, id, x, y, z)
    /\ L!InsertOutbox(d, id, x) = InsertOutbox(d, id, x)
    /\ L!SaveIdempotency(d, x, y, id) = SaveIdempotency(d, x, y, id)
    /\ L!Serial(x) = Serial(x)
    /\ L!InspectionTarget(x) = InspectionTarget(x)
BY DEF L!UpdateLotState, UpdateLotState, L!InsertLot, InsertLot,
       L!InsertInspection, InsertInspection, L!InsertReservation,
       InsertReservation, L!InsertRecovery, InsertRecovery,
       L!InsertCertificate, InsertCertificate, L!InsertAudit, InsertAudit,
       L!InsertOutbox, InsertOutbox, L!SaveIdempotency, SaveIdempotency,
       L!Serial, Serial, L!InspectionTarget, InspectionTarget

\* What a statement writes is the same in the atomic specification.
LEMMA SameStatementsAbstract ==
  \A d, id, x, y, z :
    /\ Abstract!InsertLot(d, id, x) = InsertLot(d, id, x)
    /\ Abstract!UpdateLotState(d, id, x) = UpdateLotState(d, id, x)
    /\ Abstract!InsertInspection(d, id, x, y) = InsertInspection(d, id, x, y)
    /\ Abstract!InsertReservation(d, id, x) = InsertReservation(d, id, x)
    /\ Abstract!InsertRecovery(d, id, x, y) = InsertRecovery(d, id, x, y)
    /\ Abstract!InsertCertificate(d, id, x, y) = InsertCertificate(d, id, x, y)
    /\ Abstract!InsertAudit(d, id, x, y, z) = InsertAudit(d, id, x, y, z)
    /\ Abstract!InsertOutbox(d, id, x) = InsertOutbox(d, id, x)
    /\ Abstract!SaveIdempotency(d, x, y, id) = SaveIdempotency(d, x, y, id)
    /\ Abstract!Serial(x) = Serial(x)
    /\ Abstract!InspectionTarget(x) = InspectionTarget(x)
BY DEF Abstract!UpdateLotState, UpdateLotState, Abstract!InsertLot, InsertLot,
       Abstract!InsertInspection, InsertInspection,
       Abstract!InsertReservation, InsertReservation,
       Abstract!InsertRecovery, InsertRecovery, Abstract!InsertCertificate,
       InsertCertificate, Abstract!InsertAudit, InsertAudit,
       Abstract!InsertOutbox, InsertOutbox, Abstract!SaveIdempotency,
       SaveIdempotency, Abstract!Serial, Serial,
       Abstract!InspectionTarget, InspectionTarget

\* What a query finds is the same in the instance of the proofs.
LEMMA SameQueries ==
  \A d, id, x, y :
    /\ L!LotFound(d, id, x) <=> LotFound(d, id, x)
    /\ L!ActiveReservation(d, id, x) <=> ActiveReservation(d, id, x)
    /\ L!FindCertificate(d, id, x) <=> FindCertificate(d, id, x)
    /\ L!LotUnique(d, id, x, y) <=> LotUnique(d, id, x, y)
    /\ L!SerialUnique(d, x, y) <=> SerialUnique(d, x, y)
    /\ L!KeyUnique(d, x, y) <=> KeyUnique(d, x, y)
BY DEF L!LotFound, LotFound, L!ActiveReservation, ActiveReservation,
       L!FindCertificate, FindCertificate, L!LotUnique, LotUnique,
       L!SerialUnique, SerialUnique, L!KeyUnique, KeyUnique

\* What a query finds is the same in the atomic specification.
LEMMA SameQueriesAbstract ==
  \A d, id, x, y :
    /\ Abstract!LotFound(d, id, x) <=> LotFound(d, id, x)
    /\ Abstract!ActiveReservation(d, id, x) <=> ActiveReservation(d, id, x)
    /\ Abstract!FindCertificate(d, id, x) <=> FindCertificate(d, id, x)
    /\ Abstract!LotUnique(d, id, x, y) <=> LotUnique(d, id, x, y)
    /\ Abstract!SerialUnique(d, x, y) <=> SerialUnique(d, x, y)
    /\ Abstract!KeyUnique(d, x, y) <=> KeyUnique(d, x, y)
BY DEF Abstract!LotFound, LotFound, Abstract!ActiveReservation,
       ActiveReservation, Abstract!FindCertificate, FindCertificate,
       Abstract!LotUnique, LotUnique, Abstract!SerialUnique, SerialUnique,
       Abstract!KeyUnique, KeyUnique

\* Permissions and the rules of the lots are the same in the proofs.
LEMMA SameRules ==
  \A p, x :
    /\ L!Can(p, x) <=> Can(p, x)
    /\ L!CanInspect(x) <=> CanInspect(x)
    /\ L!CanReserve(x) <=> CanReserve(x)
    /\ L!CanRecover(x) <=> CanRecover(x)
    /\ L!CanCertify(x) <=> CanCertify(x)
    /\ L!WeightsValid(x) <=> WeightsValid(x)
BY DEF L!Can, Can, L!CanInspect, CanInspect, L!CanReserve, CanReserve,
       L!HazardLimit, HazardLimit, L!CanRecover, CanRecover, L!CanCertify,
       CanCertify, L!WeightsValid, WeightsValid

\* Permissions and the rules of the lots are the same in the atomic one.
LEMMA SameRulesAbstract ==
  \A p, x :
    /\ Abstract!Can(p, x) <=> Can(p, x)
    /\ Abstract!CanInspect(x) <=> CanInspect(x)
    /\ Abstract!CanReserve(x) <=> CanReserve(x)
    /\ Abstract!CanRecover(x) <=> CanRecover(x)
    /\ Abstract!CanCertify(x) <=> CanCertify(x)
    /\ Abstract!WeightsValid(x) <=> WeightsValid(x)
BY DEF Abstract!Can, Can, Abstract!CanInspect, CanInspect,
       Abstract!CanReserve, CanReserve, Abstract!HazardLimit, HazardLimit,
       Abstract!CanRecover, CanRecover, Abstract!CanCertify, CanCertify,
       Abstract!WeightsValid, WeightsValid

\* The sets of values of both instances are those of this module.
LEMMA SameShapes ==
  /\ L!Database = Database /\ L!LotRow = LotRow /\ L!KeyOrNone = KeyOrNone
  /\ Abstract!KeyOrNone = KeyOrNone /\ L!EmptyDatabase = EmptyDatabase
  /\ Abstract!EmptyDatabase = EmptyDatabase
  /\ L!State = State /\ L!AuditAction = AuditAction
  /\ L!AuditResult = AuditResult
<1>1. L!State = State
  BY DEF L!State, State
<1>2. L!LotRow = LotRow
  BY <1>1 DEF L!LotRow, LotRow
<1>3. L!AuditAction = AuditAction /\ L!AuditResult = AuditResult
  BY DEF L!AuditAction, AuditAction, L!AuditResult, AuditResult
<1>4. \A c : L!Serial(c) = Serial(c)
  BY SameStatements
<1>5. {L!Serial(c) : c \in Code} = {Serial(c) : c \in Code}
  BY <1>4
<1>6. L!Database = Database
  BY <1>2, <1>3, <1>5 DEF L!Database, Database
<1>7. L!KeyOrNone = KeyOrNone /\ Abstract!KeyOrNone = KeyOrNone
  BY DEF L!KeyOrNone, Abstract!KeyOrNone, KeyOrNone
<1>8. L!EmptyDatabase = EmptyDatabase /\ Abstract!EmptyDatabase = EmptyDatabase
  BY DEF L!EmptyDatabase, Abstract!EmptyDatabase, EmptyDatabase
<1>9. QED
  BY <1>1, <1>2, <1>3, <1>6, <1>7, <1>8

\* Each operation of either instance, in the terms of this module.
LEMMA IntakeIs ==
  \A p, id, code, hazard :
    LET op == /\ Can(p, "intake") /\ LotUnique(db, id, p.tenant, code)
              /\ db' = InsertAudit(
                   InsertLot(db, id,
                     [tenant |-> p.tenant, code |-> code, hazard |-> hazard,
                      state |-> "received", version |-> 1]),
                   id, p.tenant, "intake", "success")
    IN  (L!Intake(p, id, code, hazard) <=> op)
        /\ (Abstract!Intake(p, id, code, hazard) <=> op)
BY SameStatements, SameStatementsAbstract, SameQueries, SameQueriesAbstract,
   SameRules, SameRulesAbstract
   DEF L!Intake, L!IntakeTx, L!WriteAudit, Abstract!Intake,
       Abstract!IntakeTx, Abstract!WriteAudit

\* RecordInspection, in the terms of this module.
LEMMA InspectIs ==
  \A p, id, result :
    LET op == /\ Can(p, "inspect") /\ LotFound(db, id, p.tenant)
              /\ CanInspect(db.lots[id])
              /\ db' = InsertAudit(
                   InsertInspection(
                     UpdateLotState(db, id, InspectionTarget(result)),
                     id, p.tenant, result),
                   id, p.tenant, "inspection", result)
    IN  (L!Inspect(p, id, result) <=> op)
        /\ (Abstract!Inspect(p, id, result) <=> op)
BY SameStatements, SameStatementsAbstract, SameQueries, SameQueriesAbstract,
   SameRules, SameRulesAbstract
   DEF L!Inspect, L!InspectTx, L!WriteAudit, Abstract!Inspect,
       Abstract!InspectTx, Abstract!WriteAudit

\* Reserve, in the terms of this module.
LEMMA ReserveIs ==
  \A p, id :
    LET op == /\ Can(p, "reserve") /\ LotFound(db, id, p.tenant)
              /\ CanReserve(db.lots[id])
              /\ ~ActiveReservation(db, id, p.tenant)
              /\ db' = InsertAudit(
                   UpdateLotState(InsertReservation(db, id, p.tenant),
                                  id, "reserved"),
                   id, p.tenant, "reserve", "station")
    IN  (L!Reserve(p, id) <=> op) /\ (Abstract!Reserve(p, id) <=> op)
BY SameStatements, SameStatementsAbstract, SameQueries, SameQueriesAbstract,
   SameRules, SameRulesAbstract
   DEF L!Reserve, L!ReserveTx, L!WriteAudit, Abstract!Reserve,
       Abstract!ReserveTx, Abstract!WriteAudit

\* StartDismantling, in the terms of this module.
LEMMA DismantlingIs ==
  \A p, id :
    LET op == /\ Can(p, "reserve") /\ LotFound(db, id, p.tenant)
              /\ db.lots[id].state = "reserved"
              /\ ActiveReservation(db, id, p.tenant)
              /\ db' = InsertAudit(UpdateLotState(db, id, "dismantling"),
                                   id, p.tenant, "dismantling", "started")
    IN  (L!BeginDismantling(p, id) <=> op)
        /\ (Abstract!BeginDismantling(p, id) <=> op)
BY SameStatements, SameStatementsAbstract, SameQueries, SameQueriesAbstract,
   SameRules, SameRulesAbstract
   DEF L!BeginDismantling, L!DismantlingTx, L!WriteAudit,
       Abstract!BeginDismantling, Abstract!DismantlingTx, Abstract!WriteAudit

\* RecordRecovery, with or without a key, in the terms of this module.
LEMMA RecoverIs ==
  \A p, id, grams, key :
    LET recovered == UpdateLotState(InsertRecovery(db, id, p.tenant, grams),
                                    id, "recovered")
        keyed == IF key = NoKey THEN recovered
                 ELSE SaveIdempotency(recovered, p.tenant, key, id)
        op == /\ Can(p, "recover")
              /\ key # NoKey => KeyUnique(db, p.tenant, key)
              /\ LotFound(db, id, p.tenant) /\ CanRecover(db.lots[id])
              /\ WeightsValid(grams)
              /\ db' = InsertAudit(InsertOutbox(keyed, id, p.tenant),
                                   id, p.tenant, "recover", "confirmed")
    IN  (L!Recover(p, id, grams, key) <=> op)
        /\ (Abstract!Recover(p, id, grams, key) <=> op)
BY SameStatements, SameStatementsAbstract, SameQueries, SameQueriesAbstract,
   SameRules, SameRulesAbstract
   DEF L!Recover, L!RecoverTx, L!WriteAudit, Abstract!Recover,
       Abstract!RecoverTx, Abstract!WriteAudit

\* IssueCertificate, in the terms of this module.
LEMMA CertifyIs ==
  \A p, id :
    LET serial == Serial(db.lots[id].code)
        op == /\ Can(p, "certify") /\ LotFound(db, id, p.tenant)
              /\ CanCertify(db.lots[id])
              /\ ~FindCertificate(db, id, p.tenant)
              /\ SerialUnique(db, p.tenant, serial)
              /\ db' = InsertAudit(
                   UpdateLotState(
                     InsertCertificate(db, id, p.tenant, serial),
                     id, "certified"),
                   id, p.tenant, "certificate", "issued")
    IN  (L!Certify(p, id) <=> op) /\ (Abstract!Certify(p, id) <=> op)
BY SameStatements, SameStatementsAbstract, SameQueries, SameQueriesAbstract,
   SameRules, SameRulesAbstract
   DEF L!Certify, L!CertifyTx, L!WriteAudit, Abstract!Certify,
       Abstract!CertifyTx, Abstract!WriteAudit

\* The steps the proofs about Lifecycle speak of are those LifecycleTx is to
\* implement.
LEMMA SameNext == (L!Init <=> Abstract!Init) /\ (L!Next <=> Abstract!Next)
<1>1. L!Init <=> Abstract!Init
  BY SameShapes DEF L!Init, Abstract!Init
<1>2. ASSUME NEW p \in Principal, NEW id \in Lot
      PROVE  /\ \A code, hazard : L!Intake(p, id, code, hazard)
                                   <=> Abstract!Intake(p, id, code, hazard)
             /\ \A result : L!Inspect(p, id, result)
                             <=> Abstract!Inspect(p, id, result)
             /\ L!Reserve(p, id) <=> Abstract!Reserve(p, id)
             /\ L!BeginDismantling(p, id) <=> Abstract!BeginDismantling(p, id)
             /\ \A grams, key : L!Recover(p, id, grams, key)
                                 <=> Abstract!Recover(p, id, grams, key)
             /\ L!Certify(p, id) <=> Abstract!Certify(p, id)
  <2>1. \A code, hazard : L!Intake(p, id, code, hazard)
                           <=> Abstract!Intake(p, id, code, hazard)
    BY IntakeIs
  <2>2. \A result : L!Inspect(p, id, result)
                     <=> Abstract!Inspect(p, id, result)
    BY InspectIs
  <2>3. L!Reserve(p, id) <=> Abstract!Reserve(p, id)
    BY ReserveIs
  <2>4. L!BeginDismantling(p, id) <=> Abstract!BeginDismantling(p, id)
    BY DismantlingIs
  <2>5. \A grams, key : L!Recover(p, id, grams, key)
                         <=> Abstract!Recover(p, id, grams, key)
    BY RecoverIs
  <2>6. L!Certify(p, id) <=> Abstract!Certify(p, id)
    BY CertifyIs
  <2>7. QED
    BY <2>1, <2>2, <2>3, <2>4, <2>5, <2>6
<1>3. QED
  BY <1>1, <1>2, SameShapes DEF L!Next, Abstract!Next

----------------------------------------------------------------------------
(* One statement *)

\* The statement stmt is run for q on image e, and its transaction goes on
\* with image e2 as q2.  A lookup whose error is swallowed leaves q2 degraded.
Executes(stmt, q, e, q2, e2) ==
  LET c == q.call
      t == c.p.tenant
  IN
  \/ /\ stmt = "GetLot" /\ ReadIn(c, e)
     /\ e2 = e /\ q2.seen = e.lots[c.lot] /\ q2.out = q.out
  \/ /\ stmt = "InsertRecovery"
     /\ e2 = InsertRecovery(e, c.lot, t, c.grams)
     /\ q2.seen = q.seen /\ q2.out = c.lot
  \/ /\ q2.seen = q.seen /\ q2.out = q.out
     /\ \/ /\ stmt = "GetIdempotency" /\ e2 = e
           /\ q2.degraded \/ KeyUnique(e, t, c.key)
        \/ /\ stmt = "ActiveReservation" /\ e2 = e
           /\ c.op = "dismantle" => ActiveReservation(e, c.lot, t)
        \/ stmt = "FindCertificate" /\ e2 = e
        \/ /\ stmt = "UpdateLotState" /\ LotFound(e, c.lot, t)
           /\ e2 = Moved(c, e)
        \/ /\ stmt = "InsertLot" /\ LotUnique(e, c.lot, t, c.code)
           /\ e2 = Entered(c, e)
        \/ /\ stmt = "InsertInspection"
           /\ e2 = InsertInspection(e, c.lot, t, c.result)
        \/ stmt = "InsertReservation" /\ e2 = Reserved(c, e)
        \/ /\ stmt = "InsertCertificate"
           /\ SerialUnique(e, t, Serial(q.seen.code))
           /\ e2 = InsertCertificate(e, c.lot, t, Serial(q.seen.code))
        \/ /\ stmt = "SaveIdempotency" /\ KeyUnique(e, t, c.key)
           /\ e2 = SaveIdempotency(e, t, c.key, c.lot)
        \/ stmt = "InsertOutbox" /\ e2 = Announced(c, e)
        \/ stmt = "InsertAudit" /\ e2 = Audited(c, e)

\* A step of a transaction that goes on: its first statement runs, or it finds
\* the key and has nothing left to run.
GoesOn(q, e, q2, e2) ==
  /\ q.todo # <<>> /\ q2.call = q.call
  /\ q.degraded => q2.degraded
  /\ \/ /\ Head(q.todo) = "GetIdempotency" /\ Replays(q2, e, e2)
     \/ q2.todo = Tail(q.todo) /\ Executes(Head(q.todo), q, e, q2, e2)

\* Every step of an intake leads to its next stage; so for the other operations.
LEMMA IntakeGoesOn ==
  ASSUME NEW q, NEW d, NEW e, NEW q2, NEW e2, IntakeAt(q, d, e),
         GoesOn(q, e, q2, e2)
  PROVE  IntakeAt(q2, d, e2)
<1>1. CASE q.todo = <<"InsertLot", "InsertAudit">> /\ e = d
  <2>1. Head(q.todo) = "InsertLot" /\ Tail(q.todo) = <<"InsertAudit">>
    BY <1>1
  <2>2. /\ q2.call = q.call /\ q2.todo = <<"InsertAudit">>
        /\ Executes("InsertLot", q, e, q2, e2)
    BY <2>1 DEF GoesOn
  <2>3. QED
    BY <1>1, <2>2 DEF Executes, IntakeAt
<1>2. CASE /\ LotUnique(d, q.call.lot, q.call.p.tenant, q.call.code)
           /\ q.todo = <<"InsertAudit">> /\ e = Entered(q.call, d)
  <2>1. Head(q.todo) = "InsertAudit" /\ Tail(q.todo) = <<>>
    BY <1>2
  <2>2. /\ q2.call = q.call /\ q2.todo = <<>>
        /\ Executes("InsertAudit", q, e, q2, e2)
    BY <2>1 DEF GoesOn
  <2>3. QED
    BY <1>2, <2>2 DEF Executes, IntakeAt
<1>3. q.todo # <<>>
  BY DEF GoesOn
<1>4. QED
  BY <1>1, <1>2, <1>3 DEF IntakeAt

\* A statement of an inspection takes it to its next stage.
LEMMA InspectGoesOn ==
  ASSUME NEW q, NEW d, NEW e, NEW q2, NEW e2, InspectAt(q, d, e),
         GoesOn(q, e, q2, e2)
  PROVE  InspectAt(q2, d, e2)
<1> DEFINE c == q.call
           t0 == <<"GetLot", "UpdateLotState", "InsertInspection",
                   "InsertAudit">>
           t1 == <<"UpdateLotState", "InsertInspection", "InsertAudit">>
           t2 == <<"InsertInspection", "InsertAudit">>
           t3 == <<"InsertAudit">>
<1>1. CASE e = d /\ q.todo = t0
  <2>1. Head(q.todo) = "GetLot" /\ Tail(q.todo) = t1
    BY <1>1
  <2>2. /\ q2.call = q.call /\ q2.todo = t1
        /\ Executes("GetLot", q, e, q2, e2)
    BY <2>1 DEF GoesOn
  <2>3. QED
    BY <1>1, <2>2 DEF Executes, InspectAt
<1>2. CASE ReadIn(c, d) /\ e = d /\ q.todo = t1
  <2>1. Head(q.todo) = "UpdateLotState" /\ Tail(q.todo) = t2
    BY <1>2
  <2>2. /\ q2.call = q.call /\ q2.todo = t2
        /\ Executes("UpdateLotState", q, e, q2, e2)
    BY <2>1 DEF GoesOn
  <2>3. QED
    BY <1>2, <2>2 DEF Executes, InspectAt
<1>3. CASE ReadIn(c, d) /\ e = Moved(c, d) /\ q.todo = t2
  <2>1. Head(q.todo) = "InsertInspection" /\ Tail(q.todo) = t3
    BY <1>3
  <2>2. /\ q2.call = q.call /\ q2.todo = t3
        /\ Executes("InsertInspection", q, e, q2, e2)
    BY <2>1 DEF GoesOn
  <2>3. QED
    BY <1>3, <2>2 DEF Executes, InspectAt, Inspected
<1>4. CASE ReadIn(c, d) /\ e = Inspected(c, d) /\ q.todo = t3
  <2>1. Head(q.todo) = "InsertAudit" /\ Tail(q.todo) = <<>>
    BY <1>4
  <2>2. /\ q2.call = q.call /\ q2.todo = <<>>
        /\ Executes("InsertAudit", q, e, q2, e2)
    BY <2>1 DEF GoesOn
  <2>3. QED
    BY <1>4, <2>2 DEF Executes, InspectAt
<1>5. q.todo # <<>>
  BY DEF GoesOn
<1>6. QED
  BY <1>1, <1>2, <1>3, <1>4, <1>5 DEF InspectAt

\* A statement of a reservation takes it to its next stage.
LEMMA ReserveGoesOn ==
  ASSUME NEW q, NEW d, NEW e, NEW q2, NEW e2, ReserveAt(q, d, e),
         GoesOn(q, e, q2, e2)
  PROVE  ReserveAt(q2, d, e2)
<1> DEFINE c == q.call
           t0 == <<"GetLot", "ActiveReservation", "InsertReservation",
                   "UpdateLotState", "InsertAudit">>
           t1 == <<"ActiveReservation", "InsertReservation", "UpdateLotState",
                   "InsertAudit">>
           t2 == <<"InsertReservation", "UpdateLotState", "InsertAudit">>
           t3 == <<"UpdateLotState", "InsertAudit">>
           t4 == <<"InsertAudit">>
<1>1. CASE e = d /\ q.todo = t0
  <2>1. Head(q.todo) = "GetLot" /\ Tail(q.todo) = t1
    BY <1>1
  <2>2. /\ q2.call = q.call /\ q2.todo = t1
        /\ Executes("GetLot", q, e, q2, e2)
    BY <2>1 DEF GoesOn
  <2>3. QED
    BY <1>1, <2>2 DEF Executes, ReserveAt
<1>2. CASE ReadIn(c, d) /\ e = d /\ q.todo = t1
  <2>1. Head(q.todo) = "ActiveReservation" /\ Tail(q.todo) = t2
    BY <1>2
  <2>2. /\ q2.call = q.call /\ q2.todo = t2
        /\ Executes("ActiveReservation", q, e, q2, e2)
    BY <2>1 DEF GoesOn
  <2>3. QED
    BY <1>2, <2>2 DEF Executes, ReserveAt
<1>3. CASE ReadIn(c, d) /\ e = d /\ q.todo = t2
  <2>1. Head(q.todo) = "InsertReservation" /\ Tail(q.todo) = t3
    BY <1>3
  <2>2. /\ q2.call = q.call /\ q2.todo = t3
        /\ Executes("InsertReservation", q, e, q2, e2)
    BY <2>1 DEF GoesOn
  <2>3. QED
    BY <1>3, <2>2 DEF Executes, ReserveAt
<1>4. CASE ReadIn(c, d) /\ e = Reserved(c, d) /\ q.todo = t3
  <2>1. Head(q.todo) = "UpdateLotState" /\ Tail(q.todo) = t4
    BY <1>4
  <2>2. /\ q2.call = q.call /\ q2.todo = t4
        /\ Executes("UpdateLotState", q, e, q2, e2)
    BY <2>1 DEF GoesOn
  <2>3. QED
    BY <1>4, <2>2 DEF Executes, ReserveAt
<1>5. CASE ReadIn(c, d) /\ e = Moved(c, Reserved(c, d)) /\ q.todo = t4
  <2>1. Head(q.todo) = "InsertAudit" /\ Tail(q.todo) = <<>>
    BY <1>5
  <2>2. /\ q2.call = q.call /\ q2.todo = <<>>
        /\ Executes("InsertAudit", q, e, q2, e2)
    BY <2>1 DEF GoesOn
  <2>3. QED
    BY <1>5, <2>2 DEF Executes, ReserveAt
<1>6. q.todo # <<>>
  BY DEF GoesOn
<1>7. QED
  BY <1>1, <1>2, <1>3, <1>4, <1>5, <1>6 DEF ReserveAt

\* A statement of a dismantling takes it to its next stage.
LEMMA DismantleGoesOn ==
  ASSUME NEW q, NEW d, NEW e, NEW q2, NEW e2, DismantleAt(q, d, e),
         GoesOn(q, e, q2, e2),
         q.call.op = "dismantle"
  PROVE  DismantleAt(q2, d, e2)
<1> DEFINE c == q.call
           t0 == <<"GetLot", "ActiveReservation", "UpdateLotState",
                   "InsertAudit">>
           t1 == <<"ActiveReservation", "UpdateLotState", "InsertAudit">>
           t2 == <<"UpdateLotState", "InsertAudit">>
           t3 == <<"InsertAudit">>
<1>1. CASE e = d /\ q.todo = t0
  <2>1. Head(q.todo) = "GetLot" /\ Tail(q.todo) = t1
    BY <1>1
  <2>2. /\ q2.call = q.call /\ q2.todo = t1
        /\ Executes("GetLot", q, e, q2, e2)
    BY <2>1 DEF GoesOn
  <2>3. QED
    BY <1>1, <2>2 DEF Executes, DismantleAt
<1>2. CASE ReadIn(c, d) /\ e = d /\ q.todo = t1
  <2>1. Head(q.todo) = "ActiveReservation" /\ Tail(q.todo) = t2
    BY <1>2
  <2>2. /\ q2.call = q.call /\ q2.todo = t2
        /\ Executes("ActiveReservation", q, e, q2, e2)
    BY <2>1 DEF GoesOn
  <2>3. QED
    BY <1>2, <2>2 DEF Executes, DismantleAt
<1>3. CASE /\ ReadIn(c, d)
           /\ ActiveReservation(d, c.lot, c.p.tenant)
           /\ e = d
           /\ q.todo = t2
  <2>1. Head(q.todo) = "UpdateLotState" /\ Tail(q.todo) = t3
    BY <1>3
  <2>2. /\ q2.call = q.call /\ q2.todo = t3
        /\ Executes("UpdateLotState", q, e, q2, e2)
    BY <2>1 DEF GoesOn
  <2>3. QED
    BY <1>3, <2>2 DEF Executes, DismantleAt
<1>4. CASE /\ ReadIn(c, d)
           /\ ActiveReservation(d, c.lot, c.p.tenant)
           /\ e = Moved(c, d)
           /\ q.todo = t3
  <2>1. Head(q.todo) = "InsertAudit" /\ Tail(q.todo) = <<>>
    BY <1>4
  <2>2. /\ q2.call = q.call /\ q2.todo = <<>>
        /\ Executes("InsertAudit", q, e, q2, e2)
    BY <2>1 DEF GoesOn
  <2>3. QED
    BY <1>4, <2>2 DEF Executes, DismantleAt
<1>5. q.todo # <<>>
  BY DEF GoesOn
<1>6. QED
  BY <1>1, <1>2, <1>3, <1>4, <1>5 DEF DismantleAt

\* A statement of a recovery without a key takes it to its next stage.
LEMMA RecoverGoesOn ==
  ASSUME NEW q, NEW d, NEW e, NEW q2, NEW e2, RecoverAt(q, d, e),
         GoesOn(q, e, q2, e2)
  PROVE  RecoverAt(q2, d, e2)
<1> DEFINE c == q.call
           t0 == <<"GetLot", "InsertRecovery", "UpdateLotState",
                   "InsertOutbox", "InsertAudit">>
           t1 == <<"InsertRecovery", "UpdateLotState", "InsertOutbox",
                   "InsertAudit">>
           t2 == <<"UpdateLotState", "InsertOutbox", "InsertAudit">>
           t3 == <<"InsertOutbox", "InsertAudit">>
           t4 == <<"InsertAudit">>
<1>1. CASE e = d /\ q.todo = t0
  <2>1. Head(q.todo) = "GetLot" /\ Tail(q.todo) = t1
    BY <1>1
  <2>2. /\ q2.call = q.call /\ q2.todo = t1
        /\ Executes("GetLot", q, e, q2, e2)
    BY <2>1 DEF GoesOn
  <2>3. QED
    BY <1>1, <2>2 DEF Executes, RecoverAt
<1>2. CASE ReadIn(c, d) /\ e = d /\ q.todo = t1
  <2>1. Head(q.todo) = "InsertRecovery" /\ Tail(q.todo) = t2
    BY <1>2
  <2>2. /\ q2.call = q.call /\ q2.todo = t2
        /\ Executes("InsertRecovery", q, e, q2, e2)
    BY <2>1 DEF GoesOn
  <2>3. QED
    BY <1>2, <2>2 DEF Executes, RecoverAt
<1>3. CASE /\ ReadIn(c, d)
           /\ q.out = c.lot
           /\ e = InsertRecovery(d, c.lot, c.p.tenant, c.grams)
           /\ q.todo = t2
  <2>1. Head(q.todo) = "UpdateLotState" /\ Tail(q.todo) = t3
    BY <1>3
  <2>2. /\ q2.call = q.call /\ q2.todo = t3
        /\ Executes("UpdateLotState", q, e, q2, e2)
    BY <2>1 DEF GoesOn
  <2>3. QED
    BY <1>3, <2>2 DEF Executes, RecoverAt, Recovered
<1>4. CASE ReadIn(c, d) /\ q.out = c.lot /\ e = Recovered(c, d) /\ q.todo = t3
  <2>1. Head(q.todo) = "InsertOutbox" /\ Tail(q.todo) = t4
    BY <1>4
  <2>2. /\ q2.call = q.call /\ q2.todo = t4
        /\ Executes("InsertOutbox", q, e, q2, e2)
    BY <2>1 DEF GoesOn
  <2>3. QED
    BY <1>4, <2>2 DEF Executes, RecoverAt
<1>5. CASE /\ ReadIn(c, d)
           /\ q.out = c.lot
           /\ e = Announced(c, Recovered(c, d))
           /\ q.todo = t4
  <2>1. Head(q.todo) = "InsertAudit" /\ Tail(q.todo) = <<>>
    BY <1>5
  <2>2. /\ q2.call = q.call /\ q2.todo = <<>>
        /\ Executes("InsertAudit", q, e, q2, e2)
    BY <2>1 DEF GoesOn
  <2>3. QED
    BY <1>5, <2>2 DEF Executes, RecoverAt
<1>6. q.todo # <<>>
  BY DEF GoesOn
<1>7. QED
  BY <1>1, <1>2, <1>3, <1>4, <1>5, <1>6 DEF RecoverAt

\* What a recovery writes before it stores its key leaves the keys alone.
LEMMA RecoveredKeys ==
  ASSUME NEW d \in Database, NEW c
  PROVE  Recovered(c, d).idempotency = d.idempotency
<1> DEFINE d1 == InsertRecovery(d, c.lot, c.p.tenant, c.grams)
<1>1. /\ d1 = [d EXCEPT !.recoveries = d1.recoveries]
      /\ d1.idempotency = d.idempotency
  BY DEF InsertRecovery, Database
<1>2. DOMAIN d1 = DOMAIN d
  BY <1>1
<1> HIDE DEF d1
<1>3. Moved(c, d1).idempotency = d1.idempotency
  BY <1>1, <1>2 DEF Moved, UpdateLotState, Database
<1>4. QED
  BY <1>1, <1>3 DEF Recovered, d1

\* A statement of a recovery with a key takes it to its next stage.
LEMMA KeyedRecoverGoesOn ==
  ASSUME NEW q, NEW d \in Database, NEW e, NEW q2, NEW e2, KeyedRecoverAt(q, d, e),
         GoesOn(q, e, q2, e2)
  PROVE  KeyedRecoverAt(q2, d, e2)
<1> DEFINE c == q.call
           t0 == <<"GetIdempotency", "GetLot", "InsertRecovery",
                   "UpdateLotState", "SaveIdempotency", "InsertOutbox",
                   "InsertAudit">>
           t1 == <<"GetLot", "InsertRecovery", "UpdateLotState",
                   "SaveIdempotency", "InsertOutbox", "InsertAudit">>
           t2 == <<"InsertRecovery", "UpdateLotState", "SaveIdempotency",
                   "InsertOutbox", "InsertAudit">>
           t3 == <<"UpdateLotState", "SaveIdempotency", "InsertOutbox",
                   "InsertAudit">>
           t4 == <<"SaveIdempotency", "InsertOutbox", "InsertAudit">>
           t5 == <<"InsertOutbox", "InsertAudit">>
           t6 == <<"InsertAudit">>
<1>1. CASE e = d /\ q.todo = t0
  <2>1. Head(q.todo) = "GetIdempotency" /\ Tail(q.todo) = t1
    BY <1>1
  <2>2. \/ Replays(q2, d, e2)
        \/ /\ q2.todo = t1 /\ e2 = d
           /\ q2.degraded \/ KeyUnique(d, c.p.tenant, c.key)
    BY <1>1, <2>1 DEF GoesOn, Executes
  <2>3. q2.call = q.call
    BY DEF GoesOn
  <2>4. QED
    BY <2>2, <2>3 DEF KeyedRecoverAt, LookedUpAt
<1>2. CASE /\ q.degraded \/ KeyUnique(d, c.p.tenant, c.key)
           /\ e = d
           /\ q.todo = t1
  <2>1. Head(q.todo) = "GetLot" /\ Tail(q.todo) = t2
    BY <1>2
  <2>2. /\ q2.call = q.call /\ q2.todo = t2
        /\ q.degraded => q2.degraded
        /\ Executes("GetLot", q, e, q2, e2)
    BY <2>1 DEF GoesOn
  <2>3. QED
    BY <1>2, <2>2 DEF Executes, KeyedRecoverAt, LookedUpAt
<1>3. CASE /\ q.degraded \/ KeyUnique(d, c.p.tenant, c.key)
           /\ ReadIn(c, d)
           /\ e = d
           /\ q.todo = t2
  <2>1. Head(q.todo) = "InsertRecovery" /\ Tail(q.todo) = t3
    BY <1>3
  <2>2. /\ q2.call = q.call /\ q2.todo = t3
        /\ q.degraded => q2.degraded
        /\ Executes("InsertRecovery", q, e, q2, e2)
    BY <2>1 DEF GoesOn
  <2>3. QED
    BY <1>3, <2>2 DEF Executes, KeyedRecoverAt, LookedUpAt
<1>4. CASE /\ q.degraded \/ KeyUnique(d, c.p.tenant, c.key)
           /\ ReadIn(c, d)
           /\ q.out = c.lot
           /\ e = InsertRecovery(d, c.lot, c.p.tenant, c.grams)
           /\ q.todo = t3
  <2>1. Head(q.todo) = "UpdateLotState" /\ Tail(q.todo) = t4
    BY <1>4
  <2>2. /\ q2.call = q.call /\ q2.todo = t4
        /\ q.degraded => q2.degraded
        /\ Executes("UpdateLotState", q, e, q2, e2)
    BY <2>1 DEF GoesOn
  <2>3. QED
    BY <1>4, <2>2 DEF Executes, KeyedRecoverAt, LookedUpAt, Recovered
<1>5. CASE /\ q.degraded \/ KeyUnique(d, c.p.tenant, c.key)
           /\ ReadIn(c, d)
           /\ q.out = c.lot
           /\ e = Recovered(c, d)
           /\ q.todo = t4
  <2>1. Head(q.todo) = "SaveIdempotency" /\ Tail(q.todo) = t5
    BY <1>5
  <2>2. /\ q2.call = q.call /\ q2.todo = t5
        /\ q.degraded => q2.degraded
        /\ Executes("SaveIdempotency", q, e, q2, e2)
    BY <2>1 DEF GoesOn
  <2>3. QED
    BY <1>5, <2>2, RecoveredKeys DEF Executes, KeyedRecoverAt, SavedAt, Keyed, KeyUnique
<1>6. CASE /\ ReadIn(c, d)
           /\ KeyUnique(d, c.p.tenant, c.key)
           /\ q.out = c.lot
           /\ e = Keyed(c, d)
           /\ q.todo = t5
  <2>1. Head(q.todo) = "InsertOutbox" /\ Tail(q.todo) = t6
    BY <1>6
  <2>2. /\ q2.call = q.call /\ q2.todo = t6
        /\ q.degraded => q2.degraded
        /\ Executes("InsertOutbox", q, e, q2, e2)
    BY <2>1 DEF GoesOn
  <2>3. QED
    BY <1>6, <2>2 DEF Executes, KeyedRecoverAt, SavedAt
<1>7. CASE /\ ReadIn(c, d)
           /\ KeyUnique(d, c.p.tenant, c.key)
           /\ q.out = c.lot
           /\ e = Announced(c, Keyed(c, d))
           /\ q.todo = t6
  <2>1. Head(q.todo) = "InsertAudit" /\ Tail(q.todo) = <<>>
    BY <1>7
  <2>2. /\ q2.call = q.call /\ q2.todo = <<>>
        /\ q.degraded => q2.degraded
        /\ Executes("InsertAudit", q, e, q2, e2)
    BY <2>1 DEF GoesOn
  <2>3. QED
    BY <1>7, <2>2 DEF Executes, KeyedRecoverAt, SavedAt
<1>8. q.todo # <<>>
  BY DEF GoesOn
<1>9. QED
  BY <1>1, <1>2, <1>3, <1>4, <1>5, <1>6, <1>7, <1>8 DEF KeyedRecoverAt, Replays, LookedUpAt, SavedAt

\* A statement of a certification takes it to its next stage.
LEMMA CertifyGoesOn ==
  ASSUME NEW q, NEW d, NEW e, NEW q2, NEW e2, CertifyAt(q, d, e),
         GoesOn(q, e, q2, e2)
  PROVE  CertifyAt(q2, d, e2)
<1> DEFINE c == q.call
           t0 == <<"GetLot", "FindCertificate", "InsertCertificate",
                   "UpdateLotState", "InsertAudit">>
           t1 == <<"FindCertificate", "InsertCertificate", "UpdateLotState",
                   "InsertAudit">>
           t2 == <<"InsertCertificate", "UpdateLotState", "InsertAudit">>
           t3 == <<"UpdateLotState", "InsertAudit">>
           t4 == <<"InsertAudit">>
<1>1. CASE e = d /\ q.todo = t0
  <2>1. Head(q.todo) = "GetLot" /\ Tail(q.todo) = t1
    BY <1>1
  <2>2. /\ q2.call = q.call /\ q2.todo = t1
        /\ Executes("GetLot", q, e, q2, e2)
    BY <2>1 DEF GoesOn
  <2>3. QED
    BY <1>1, <2>2 DEF Executes, CertifyAt
<1>2. CASE ReadIn(c, d) /\ q.seen = d.lots[c.lot] /\ e = d /\ q.todo = t1
  <2>1. Head(q.todo) = "FindCertificate" /\ Tail(q.todo) = t2
    BY <1>2
  <2>2. /\ q2.call = q.call /\ q2.todo = t2
        /\ Executes("FindCertificate", q, e, q2, e2)
    BY <2>1 DEF GoesOn
  <2>3. QED
    BY <1>2, <2>2 DEF Executes, CertifyAt
<1>3. CASE ReadIn(c, d) /\ q.seen = d.lots[c.lot] /\ e = d /\ q.todo = t2
  <2>1. Head(q.todo) = "InsertCertificate" /\ Tail(q.todo) = t3
    BY <1>3
  <2>2. /\ q2.call = q.call /\ q2.todo = t3
        /\ Executes("InsertCertificate", q, e, q2, e2)
    BY <2>1 DEF GoesOn
  <2>3. QED
    BY <1>3, <2>2 DEF Executes, CertifyAt, Certificate
<1>4. CASE /\ ReadIn(c, d)
           /\ SerialUnique(d, c.p.tenant, Serial(d.lots[c.lot].code))
           /\ e = Certificate(c, d)
           /\ q.todo = t3
  <2>1. Head(q.todo) = "UpdateLotState" /\ Tail(q.todo) = t4
    BY <1>4
  <2>2. /\ q2.call = q.call /\ q2.todo = t4
        /\ Executes("UpdateLotState", q, e, q2, e2)
    BY <2>1 DEF GoesOn
  <2>3. QED
    BY <1>4, <2>2 DEF Executes, CertifyAt
<1>5. CASE /\ ReadIn(c, d)
           /\ SerialUnique(d, c.p.tenant, Serial(d.lots[c.lot].code))
           /\ e = Moved(c, Certificate(c, d))
           /\ q.todo = t4
  <2>1. Head(q.todo) = "InsertAudit" /\ Tail(q.todo) = <<>>
    BY <1>5
  <2>2. /\ q2.call = q.call /\ q2.todo = <<>>
        /\ Executes("InsertAudit", q, e, q2, e2)
    BY <2>1 DEF GoesOn
  <2>3. QED
    BY <1>5, <2>2 DEF Executes, CertifyAt
<1>6. q.todo # <<>>
  BY DEF GoesOn
<1>7. QED
  BY <1>1, <1>2, <1>3, <1>4, <1>5, <1>6 DEF CertifyAt

\* A step of any transaction leads to its next stage.
LEMMA TransactionGoesOn ==
  ASSUME NEW q, q.call \in Call, NEW d \in Database, NEW e, NEW q2, NEW e2,
         TransactionAt(q, d, e), GoesOn(q, e, q2, e2)
  PROVE  TransactionAt(q2, d, e2)
<1>1. q2.call = q.call
  BY DEF GoesOn
<1>2. q.call.op \in {"intake", "inspect", "reserve", "dismantle", "recover",
                     "certify"}
  BY DEF Call
<1>3. CASE q.call.op = "intake"
  BY <1>1, <1>3, IntakeGoesOn DEF TransactionAt
<1>4. CASE q.call.op = "inspect"
  BY <1>1, <1>4, InspectGoesOn DEF TransactionAt
<1>5. CASE q.call.op = "reserve"
  BY <1>1, <1>5, ReserveGoesOn DEF TransactionAt
<1>6. CASE q.call.op = "dismantle"
  BY <1>1, <1>6, DismantleGoesOn DEF TransactionAt
<1>7. CASE q.call.op = "recover" /\ q.call.key = NoKey
  BY <1>1, <1>7, RecoverGoesOn DEF TransactionAt
<1>8. CASE q.call.op = "recover" /\ q.call.key # NoKey
  BY <1>1, <1>8, KeyedRecoverGoesOn DEF TransactionAt
<1>9. CASE q.call.op = "certify"
  BY <1>1, <1>9, CertifyGoesOn DEF TransactionAt
<1>10. QED
  BY <1>2, <1>3, <1>4, <1>5, <1>6, <1>7, <1>8, <1>9

\* Which operations run a statement, and what a certificate is issued from.
LEMMA StatementOf ==
  ASSUME NEW q, q.call \in Call, NEW d, NEW e, TransactionAt(q, d, e),
         q.todo # <<>>
  PROVE  LET stmt == Head(q.todo)
             c == q.call
         IN  /\ stmt = "InsertLot" => c.op = "intake"
             /\ stmt = "GetLot" => c.op # "intake"
             /\ stmt = "ActiveReservation" => c.op \in {"reserve", "dismantle"}
             /\ stmt = "GetIdempotency" => c.op = "recover" /\ c.key # NoKey
             /\ stmt = "InsertInspection" => c.op = "inspect"
             /\ stmt = "InsertRecovery" => c.op = "recover"
             /\ stmt = "SaveIdempotency" => c.op = "recover" /\ c.key # NoKey
             /\ stmt = "UpdateLotState" => c.op # "intake"
             /\ stmt = "InsertCertificate" =>
                  c.op = "certify" /\ ReadIn(c, d) /\ q.seen = d.lots[c.lot]
<1> DEFINE stmt == Head(q.todo)
           c == q.call
<1>1. c.op \in {"intake", "inspect", "reserve", "dismantle", "recover",
                "certify"}
  BY DEF Call
<1>2. CASE c.op = "intake"
  <2>1. stmt \in {"InsertLot", "InsertAudit"}
    BY <1>2 DEF TransactionAt, IntakeAt
  <2>2. QED
    BY <1>2, <2>1
<1>3. CASE c.op = "inspect"
  <2>1. stmt \in {"GetLot", "UpdateLotState", "InsertInspection", "InsertAudit"}
    BY <1>3 DEF TransactionAt, InspectAt
  <2>2. QED
    BY <1>3, <2>1
<1>4. CASE c.op = "reserve"
  <2>1. stmt \in {"GetLot", "ActiveReservation", "InsertReservation",
                  "UpdateLotState", "InsertAudit"}
    BY <1>4 DEF TransactionAt, ReserveAt
  <2>2. QED
    BY <1>4, <2>1
<1>5. CASE c.op = "dismantle"
  <2>1. stmt \in {"GetLot", "ActiveReservation", "UpdateLotState", "InsertAudit"}
    BY <1>5 DEF TransactionAt, DismantleAt
  <2>2. QED
    BY <1>5, <2>1
<1>6. CASE c.op = "recover" /\ c.key = NoKey
  <2>1. stmt \in {"GetLot", "InsertRecovery", "UpdateLotState", "InsertOutbox",
                  "InsertAudit"}
    BY <1>6 DEF TransactionAt, RecoverAt
  <2>2. QED
    BY <1>6, <2>1
<1>7. CASE c.op = "recover" /\ c.key # NoKey
  <2>1. stmt \in {"GetIdempotency", "GetLot", "InsertRecovery",
                  "UpdateLotState", "SaveIdempotency", "InsertOutbox",
                  "InsertAudit"}
    BY <1>7 DEF TransactionAt, KeyedRecoverAt, Replays, LookedUpAt, SavedAt
  <2>2. QED
    BY <1>7, <2>1
<1>8. CASE c.op = "certify"
  <2>1. stmt \in {"GetLot", "FindCertificate", "InsertCertificate",
                  "UpdateLotState", "InsertAudit"}
    BY <1>8 DEF TransactionAt, CertifyAt
  <2>2. stmt = "InsertCertificate" => ReadIn(c, d) /\ q.seen = d.lots[c.lot]
    BY <1>8 DEF TransactionAt, CertifyAt
  <2>3. QED
    BY <1>8, <2>1, <2>2
<1>9. QED
  BY <1>1, <1>2, <1>3, <1>4, <1>5, <1>6, <1>7, <1>8

\* The shape of a call.
LEMMA CallTypes ==
  ASSUME NEW c \in Call
  PROVE  /\ c.p \in Principal /\ c.p.tenant \in Tenant /\ c.lot \in Lot
         /\ c.op = "intake" => c.code \in Code /\ c.hazard \in Hazard
         /\ c.op = "inspect" => c.result \in Result
         /\ c.op = "recover" => c.grams \in Weights /\ c.key \in KeyOrNone
         /\ c.op # "intake" => Target(c) \in State
         /\ AuditOf(c).action \in AuditAction
         /\ AuditOf(c).result \in AuditResult
<1>1. c.op \in {"intake", "inspect", "reserve", "dismantle", "recover",
                "certify"}
  BY DEF Call
<1>2. c.p \in Principal /\ c.lot \in Lot
  BY DEF Call
<1>3. c.p.tenant \in Tenant
  BY <1>2, PrincipalAssumption DEF PrincipalAssumption
<1>4. c.op = "intake" => c.code \in Code /\ c.hazard \in Hazard
  BY DEF Call
<1>5. c.op = "inspect" => c.result \in Result
  BY DEF Call
<1>6. c.op = "recover" => c.grams \in Weights /\ c.key \in KeyOrNone
  BY DEF Call
<1>7. c.op # "intake" => Target(c) \in State
  BY <1>1 DEF Target, State, InspectionTarget
<1>8. AuditOf(c).action \in AuditAction /\ AuditOf(c).result \in AuditResult
  BY <1>1, <1>5 DEF AuditOf, AuditAction, AuditResult
<1>9. QED
  BY <1>2, <1>3, <1>4, <1>5, <1>6, <1>7, <1>8

\* Every statement leaves a well-formed database.
LEMMA StatementsTyped ==
  ASSUME NEW d \in Database, NEW id \in Lot, NEW t \in Tenant
  PROVE  /\ \A row \in LotRow : InsertLot(d, id, row) \in Database
         /\ \A s \in State :
              d.lots[id] # NoLot => UpdateLotState(d, id, s) \in Database
         /\ \A result \in Result : InsertInspection(d, id, t, result) \in Database
         /\ InsertReservation(d, id, t) \in Database
         /\ \A grams \in Weights : InsertRecovery(d, id, t, grams) \in Database
         /\ \A code \in Code :
              InsertCertificate(d, id, t, Serial(code)) \in Database
         /\ \A action \in AuditAction, result \in AuditResult :
              InsertAudit(d, id, t, action, result) \in Database
         /\ \A key \in Key : SaveIdempotency(d, t, key, id) \in Database
         /\ InsertOutbox(d, id, t) \in Database
<1> USE PrincipalAssumption, HazardAssumption, WeightsAssumption,
        NoKeyAssumption, NoLotAssumption
<1>1. /\ d \in L!Database /\ L!Database = Database /\ L!LotRow = LotRow
      /\ L!State = State /\ L!AuditAction = AuditAction
      /\ L!AuditResult = AuditResult
  BY SameShapes
<1>2. ASSUME NEW row \in LotRow PROVE InsertLot(d, id, row) \in Database
  <2>1. L!InsertLot(d, id, row) \in L!Database
    BY <1>1, L!InsertLotEffect
  <2>2. QED
    BY <1>1, <2>1, SameStatements
<1>3. ASSUME NEW s \in State, d.lots[id] # NoLot
      PROVE  UpdateLotState(d, id, s) \in Database
  <2>1. L!UpdateLotState(d, id, s) \in L!Database
    BY <1>1, <1>3, L!UpdateLotStateEffect
  <2>2. QED
    BY <1>1, <2>1, SameStatements
<1>4. ASSUME NEW result \in Result
      PROVE  InsertInspection(d, id, t, result) \in Database
  <2>1. L!InsertInspection(d, id, t, result) \in L!Database
    BY <1>1, L!InsertInspectionEffect
  <2>2. QED
    BY <1>1, <2>1, SameStatements
<1>5. InsertReservation(d, id, t) \in Database
  <2>1. L!InsertReservation(d, id, t) \in L!Database
    BY <1>1, L!InsertReservationEffect
  <2>2. QED
    BY <1>1, <2>1, SameStatements
<1>6. ASSUME NEW grams \in Weights
      PROVE  InsertRecovery(d, id, t, grams) \in Database
  <2>1. L!InsertRecovery(d, id, t, grams) \in L!Database
    BY <1>1, L!InsertRecoveryEffect
  <2>2. QED
    BY <1>1, <2>1, SameStatements
<1>7. ASSUME NEW code \in Code
      PROVE  InsertCertificate(d, id, t, Serial(code)) \in Database
  <2> DEFINE serial == L!Serial(code)
  <2>1. serial \in {L!Serial(x) : x \in Code}
    OBVIOUS
  <2>2. serial = Serial(code)
    BY SameStatements
  <2> HIDE DEF serial
  <2>3. L!InsertCertificate(d, id, t, serial) \in L!Database
    BY <1>1, <2>1, L!InsertCertificateEffect
  <2>4. QED
    BY <1>1, <2>2, <2>3, SameStatements
<1>8. ASSUME NEW action \in AuditAction, NEW result \in AuditResult
      PROVE  InsertAudit(d, id, t, action, result) \in Database
  <2>1. L!InsertAudit(d, id, t, action, result) \in L!Database
    BY <1>1, L!InsertAuditEffect
  <2>2. QED
    BY <1>1, <2>1, SameStatements
<1>9. ASSUME NEW key \in Key
      PROVE  SaveIdempotency(d, t, key, id) \in Database
  <2>1. L!SaveIdempotency(d, t, key, id) \in L!Database
    BY <1>1, L!SaveIdempotencyEffect
  <2>2. QED
    BY <1>1, <2>1, SameStatements
<1>10. InsertOutbox(d, id, t) \in Database
  <2>1. L!InsertOutbox(d, id, t) \in L!Database
    BY <1>1, L!InsertOutboxEffect
  <2>2. QED
    BY <1>1, <2>1, SameStatements
<1>11. QED
  BY <1>2, <1>3, <1>4, <1>5, <1>6, <1>7, <1>8, <1>9, <1>10

\* The image of a transaction is a well-formed database after every statement.
LEMMA ImageTyped ==
  ASSUME NEW q, q.call \in Call, NEW d \in Database, NEW e \in Database,
         NEW q2, NEW e2, TransactionAt(q, d, e), GoesOn(q, e, q2, e2)
  PROVE  e2 \in Database
<1> DEFINE c == q.call
           stmt == Head(q.todo)
           t == c.p.tenant
<1>1. q.todo # <<>>
  BY DEF GoesOn
<1>2. t \in Tenant /\ c.lot \in Lot
  BY CallTypes
<1>3. CASE Replays(q2, e, e2)
  BY <1>3 DEF Replays
<1>4. CASE Executes(stmt, q, e, q2, e2)
  <2>1. CASE e2 = e
    BY <2>1
  <2>2. CASE stmt = "InsertRecovery" /\ e2 = InsertRecovery(e, c.lot, t, c.grams)
    <3>1. c.grams \in Weights
      BY <1>1, <2>2, StatementOf, CallTypes
    <3>2. QED
      BY <1>2, <2>2, <3>1, StatementsTyped
  <2>3. CASE stmt = "UpdateLotState" /\ LotFound(e, c.lot, t) /\ e2 = Moved(c, e)
    <3>1. Target(c) \in State
      BY <1>1, <2>3, StatementOf, CallTypes
    <3>2. QED
      BY <1>2, <2>3, <3>1, StatementsTyped DEF Moved, LotFound
  <2>4. CASE stmt = "InsertLot" /\ e2 = Entered(c, e)
    <3> DEFINE row == [tenant |-> t, code |-> c.code, hazard |-> c.hazard,
                       state |-> "received", version |-> 1]
    <3>1. c.code \in Code /\ c.hazard \in Hazard
      BY <1>1, <2>4, StatementOf, CallTypes
    <3>2. row \in LotRow
      BY <1>2, <3>1 DEF LotRow, State
    <3>3. e2 = InsertLot(e, c.lot, row)
      BY <2>4 DEF Entered
    <3> HIDE DEF row
    <3>4. QED
      BY <1>2, <3>2, <3>3, StatementsTyped
  <2>5. CASE stmt = "InsertInspection"
             /\ e2 = InsertInspection(e, c.lot, t, c.result)
    <3>1. c.result \in Result
      BY <1>1, <2>5, StatementOf, CallTypes
    <3>2. QED
      BY <1>2, <2>5, <3>1, StatementsTyped
  <2>6. CASE e2 = Reserved(c, e)
    BY <1>2, <2>6, StatementsTyped DEF Reserved
  <2>7. CASE stmt = "InsertCertificate"
             /\ e2 = InsertCertificate(e, c.lot, t, Serial(q.seen.code))
    <3>1. ReadIn(c, d) /\ q.seen = d.lots[c.lot]
      BY <1>1, <2>7, StatementOf
    <3>2. q.seen \in LotRow
      BY <1>2, <3>1 DEF ReadIn, LotFound, Database
    <3>3. q.seen.code \in Code
      BY <3>2 DEF LotRow
    <3>4. QED
      BY <1>2, <2>7, <3>3, StatementsTyped
  <2>8. CASE stmt = "SaveIdempotency"
             /\ e2 = SaveIdempotency(e, t, c.key, c.lot)
    <3>1. c.key \in Key
      BY <1>1, <2>8, StatementOf, CallTypes DEF KeyOrNone
    <3>2. QED
      BY <1>2, <2>8, <3>1, StatementsTyped
  <2>9. CASE e2 = Announced(c, e)
    BY <1>2, <2>9, StatementsTyped DEF Announced
  <2>10. CASE e2 = Audited(c, e)
    BY <1>2, <2>10, StatementsTyped, CallTypes DEF Audited
  <2>11. QED
    BY <1>4, <2>1, <2>2, <2>3, <2>4, <2>5, <2>6, <2>7, <2>8, <2>9, <2>10
       DEF Executes
<1>5. QED
  BY <1>3, <1>4 DEF GoesOn

----------------------------------------------------------------------------
(* What the actions do to the request they are about *)

\* The others' requests and transactions are as they were.
OthersWait(r) ==
  \A s \in Req : s # r => req'[s] = req[s] /\ image'[s] = image[s]

\* Nothing but the request r and its transaction changes.
Only(r) == /\ UNCHANGED <<db, conn>>
           /\ req' \in [Req -> Active \cup {Idle}] /\ image' = [s \in Req |-> image'[s]]
           /\ OthersWait(r)

\* The transaction of r runs one statement and goes on.
Continues(r) ==
  /\ Only(r)
  /\ req[r].pc = "running" /\ req'[r].pc = "running"
  /\ GoesOn(req[r], image[r], req'[r], image'[r])

\* It is rolled back, and the request gets an error.
EndsWith(r, kind) ==
  /\ Rollback(r, kind) /\ kind \in Reply \ {"ok"}
  /\ req[r].pc = "running"

\* A request that is doing something.
LEMMA Busy ==
  ASSUME TypeOK, NEW r \in Req, req[r].pc # "idle"
  PROVE  req[r] \in Active
BY DEF TypeOK, Idle

\* What is left of a sequence is a sequence over the same set.
LEMMA TailTyped ==
  ASSUME NEW S, NEW s \in Seq(S), s # <<>>
  PROVE  Tail(s) \in Seq(S)
OBVIOUS

\* A statement of a running transaction: it is the first one left to run.
LEMMA AtStatement ==
  ASSUME TypeOK, NEW r \in Req, NEW stmt, At(r, stmt)
  PROVE  /\ req[r] \in Active /\ req[r].pc = "running"
         /\ req[r].todo # <<>> /\ Head(req[r].todo) = stmt
         /\ Tail(req[r].todo) \in Seq(StatementName)
<1>1. req[r] \in Active /\ req[r].pc = "running" /\ req[r].todo # <<>>
  BY Busy DEF At
<1>2. req[r].todo \in Seq(StatementName)
  BY <1>1 DEF Active
<1>3. Tail(req[r].todo) \in Seq(StatementName)
  BY <1>1, <1>2, TailTyped
<1>4. QED
  BY <1>1, <1>3 DEF At

\* Advance: the statement is done and its result is in the image.
LEMMA AdvanceDoes ==
  ASSUME TypeOK, NEW r \in Req, NEW stmt, At(r, stmt), NEW e, Advance(r, e)
  PROVE  /\ Only(r) /\ req'[r].pc = "running" /\ image'[r] = e
         /\ req'[r].call = req[r].call /\ req'[r].todo = Tail(req[r].todo)
         /\ req'[r].seen = req[r].seen /\ req'[r].out = req[r].out
         /\ req'[r].degraded = req[r].degraded
<1> DEFINE q == req[r]
           todo == Tail(q.todo)
<1>1. /\ q \in Active /\ q.pc = "running" /\ todo \in Seq(StatementName)
      /\ req \in [Req -> Active \cup {Idle}] /\ image \in [Req -> Database \cup {NoImage}]
  BY AtStatement DEF TypeOK
<1>2. req' = [req EXCEPT ![r].todo = todo]
  BY DEF Advance
<1> HIDE DEF todo
<1>3. /\ req' \in [Req -> Active \cup {Idle}]
      /\ req'[r].pc = "running" /\ req'[r].call = q.call
      /\ req'[r].todo = todo /\ req'[r].seen = q.seen /\ req'[r].out = q.out
      /\ req'[r].degraded = q.degraded
      /\ \A s \in Req : s # r => req'[s] = req[s]
  BY <1>1, <1>2 DEF Active
<1>4. /\ image'[r] = e /\ image' = [s \in Req |-> image'[s]]
      /\ \A s \in Req : s # r => image'[s] = image[s]
  BY <1>1 DEF Advance
<1>5. QED
  BY <1>3, <1>4 DEF Only, OthersWait, Advance, todo

\* The open transaction has an image, and is in one of its stages.
LEMMA OpenTransaction ==
  ASSUME TxInv, NEW r \in Req, req[r].pc = "running"
  PROVE  /\ req[r] \in Active /\ req[r].call \in Call /\ db \in Database
         /\ image[r] \in Database /\ conn = r
         /\ Permitted(req[r]) /\ TransactionAt(req[r], db, image[r])
<1>1. req[r] \in Active
  BY Busy DEF TxInv
<1>2. conn = r /\ image[r] \in Database /\ db \in Database
  BY DEF TxInv, TypeOK
<1>3. Permitted(req[r]) /\ TransactionAt(req[r], db, image[r])
  BY DEF TxInv, RequestOK
<1>4. QED
  BY <1>1, <1>2, <1>3 DEF Active

\* Loading the lot goes on, or rolls back what is not found or not allowed.
LEMMA GetLotDoes ==
  ASSUME TxInv, NEW r \in Req, GetLot(r)
  PROVE  Continues(r) \/ \E kind : EndsWith(r, kind)
<1> DEFINE q == req[r]
           c == q.call
           lot == image[r].lots[c.lot]
           todo == Tail(q.todo)
<1>1. At(r, "GetLot") /\ TypeOK
  BY DEF GetLot, TxInv
<1>2. /\ q \in Active /\ q.pc = "running" /\ q.todo # <<>>
      /\ Head(q.todo) = "GetLot" /\ todo \in Seq(StatementName)
  BY <1>1, AtStatement
<1>3. c \in Call /\ image[r] \in Database /\ TransactionAt(q, db, image[r])
  BY <1>2, OpenTransaction
<1>4. CASE Rollback(r, "notfound")
  BY <1>2, <1>4 DEF EndsWith, Reply
<1>5. CASE Rollback(r, Verdict(c, lot)) /\ Verdict(c, lot) # "ok"
  <2>1. c.op # "intake"
    BY <1>2, <1>3, StatementOf
  <2>2. c.op \in {"inspect", "reserve", "dismantle", "recover", "certify"}
    BY <1>3, <2>1 DEF Call
  <2>3. Verdict(c, lot) \in {"conflict", "invalid"}
    BY <1>5, <2>2 DEF Verdict
  <2> HIDE DEF lot
  <2>4. QED
    BY <1>2, <1>5, <2>3 DEF EndsWith, Reply
<1>6. CASE /\ LotFound(image[r], c.lot, c.p.tenant) /\ Verdict(c, lot) = "ok"
           /\ req' = [req EXCEPT ![r].todo = Tail(@), ![r].seen = lot]
           /\ UNCHANGED <<db, conn, image>>
  <2>1. /\ req' = [req EXCEPT ![r].todo = todo, ![r].seen = lot]
        /\ req \in [Req -> Active \cup {Idle}]
        /\ image \in [Req -> Database \cup {NoImage}]
    BY <1>1, <1>6 DEF TypeOK
  <2>2. lot \in LotRow
    <3>1. image[r].lots \in [Lot -> LotRow \cup {NoLot}] /\ c.lot \in Lot
      BY <1>3, CallTypes DEF Database
    <3>2. QED
      BY <1>6, <3>1 DEF LotFound
  <2> HIDE DEF lot, todo
  <2>3. /\ req' \in [Req -> Active \cup {Idle}]
        /\ req'[r].pc = "running" /\ req'[r].call = q.call
        /\ req'[r].todo = todo /\ req'[r].seen = lot /\ req'[r].out = q.out
        /\ req'[r].degraded = q.degraded
        /\ \A s \in Req : s # r => req'[s] = req[s]
    BY <1>2, <2>1, <2>2 DEF Active
  <2>4. ReadIn(c, image[r])
    BY <1>6 DEF ReadIn, lot
  <2>5. QED
    BY <1>2, <1>6, <2>1, <2>3, <2>4
       DEF Continues, Only, OthersWait, GoesOn, Executes, lot, todo
<1>7. QED
  BY <1>4, <1>5, <1>6 DEF GetLot

\* A statement that advances with image e goes on, when it does what Executes
\* says of it.
LEMMA AdvanceContinues ==
  ASSUME TypeOK, NEW r \in Req, NEW stmt, At(r, stmt), NEW e, Advance(r, e),
         /\ req'[r].seen = req[r].seen /\ req'[r].out = req[r].out =>
              Executes(stmt, req[r], image[r], req'[r], e)
  PROVE  Continues(r)
<1>1. /\ Only(r) /\ req'[r].pc = "running" /\ image'[r] = e
      /\ req'[r].call = req[r].call /\ req'[r].todo = Tail(req[r].todo)
      /\ req'[r].seen = req[r].seen /\ req'[r].out = req[r].out
      /\ req'[r].degraded = req[r].degraded
  BY AdvanceDoes
<1>2. /\ req[r].pc = "running" /\ req[r].todo # <<>>
      /\ Head(req[r].todo) = stmt
  BY AtStatement
<1>3. Executes(stmt, req[r], image[r], req'[r], image'[r])
  BY <1>1
<1>4. GoesOn(req[r], image[r], req'[r], image'[r])
  BY <1>1, <1>2, <1>3 DEF GoesOn
<1>5. QED
  BY <1>1, <1>2, <1>4 DEF Continues

\* A rollback with an error ends the transaction.
LEMMA RollbackEnds ==
  ASSUME NEW r \in Req, NEW stmt, At(r, stmt), NEW kind \in Reply \ {"ok"},
         Rollback(r, kind)
  PROVE  EndsWith(r, kind)
BY DEF EndsWith, At

\* The query for a reservation goes on, or rolls back.
LEMMA QueryReservationDoes ==
  ASSUME TxInv, NEW r \in Req, QueryReservation(r)
  PROVE  Continues(r) \/ \E kind : EndsWith(r, kind)
<1> DEFINE c == req[r].call
<1>1. At(r, "ActiveReservation") /\ TypeOK
  BY DEF QueryReservation, TxInv
<1>2. CASE (c.op = "dismantle" => ActiveReservation(image[r], c.lot, c.p.tenant))
           /\ Advance(r, image[r])
  BY <1>1, <1>2, AdvanceContinues DEF Executes
<1>3. CASE Rollback(r, "conflict")
  BY <1>1, <1>3, RollbackEnds DEF Reply
<1>4. QED
  BY <1>2, <1>3 DEF QueryReservation

\* The query for a certificate goes on, or rolls back.
LEMMA QueryCertificateDoes ==
  ASSUME TxInv, NEW r \in Req, QueryCertificate(r)
  PROVE  Continues(r) \/ \E kind : EndsWith(r, kind)
<1> DEFINE c == req[r].call
<1>1. At(r, "FindCertificate") /\ TypeOK
  BY DEF QueryCertificate, TxInv
<1>2. CASE ~FindCertificate(image[r], c.lot, c.p.tenant)
           /\ Advance(r, image[r])
  BY <1>1, <1>2, AdvanceContinues DEF Executes
<1>3. CASE Rollback(r, "conflict")
  BY <1>1, <1>3, RollbackEnds DEF Reply
<1>4. QED
  BY <1>2, <1>3 DEF QueryCertificate

\* The update of the lot goes on, or rolls back.
LEMMA ExecUpdateLotStateDoes ==
  ASSUME TxInv, NEW r \in Req, ExecUpdateLotState(r)
  PROVE  Continues(r) \/ \E kind : EndsWith(r, kind)
<1> DEFINE c == req[r].call
<1>1. At(r, "UpdateLotState") /\ TypeOK
  BY DEF ExecUpdateLotState, TxInv
<1>2. CASE LotFound(image[r], c.lot, c.p.tenant)
           /\ Advance(r, UpdateLotState(image[r], c.lot, Target(c)))
  BY <1>1, <1>2, AdvanceContinues DEF Executes, Moved
<1>3. CASE Rollback(r, "conflict")
  BY <1>1, <1>3, RollbackEnds DEF Reply
<1>4. QED
  BY <1>2, <1>3 DEF ExecUpdateLotState

\* The insert of the lot goes on, or rolls back.
LEMMA ExecInsertLotDoes ==
  ASSUME TxInv, NEW r \in Req, ExecInsertLot(r)
  PROVE  Continues(r) \/ \E kind : EndsWith(r, kind)
<1> DEFINE c == req[r].call
<1>1. At(r, "InsertLot") /\ TypeOK
  BY DEF ExecInsertLot, TxInv
<1>2. CASE LotUnique(image[r], c.lot, c.p.tenant, c.code)
           /\ Advance(r, Entered(c, image[r]))
  BY <1>1, <1>2, AdvanceContinues DEF Executes
<1>3. CASE Rollback(r, "internal")
  BY <1>1, <1>3, RollbackEnds DEF Reply
<1>4. QED
  BY <1>2, <1>3 DEF ExecInsertLot, Entered

\* The insert of the inspection goes on.
LEMMA ExecInsertInspectionDoes ==
  ASSUME TxInv, NEW r \in Req, ExecInsertInspection(r)
  PROVE  Continues(r) \/ \E kind : EndsWith(r, kind)
<1> DEFINE c == req[r].call
<1>1. At(r, "InsertInspection") /\ TypeOK
  BY DEF ExecInsertInspection, TxInv
<1>2. Advance(r, InsertInspection(image[r], c.lot, c.p.tenant, c.result))
  BY DEF ExecInsertInspection
<1>3. QED
  BY <1>1, <1>2, AdvanceContinues DEF Executes

\* The insert of the reservation goes on, or rolls back.
LEMMA ExecInsertReservationDoes ==
  ASSUME TxInv, NEW r \in Req, ExecInsertReservation(r)
  PROVE  Continues(r) \/ \E kind : EndsWith(r, kind)
<1> DEFINE c == req[r].call
<1>1. At(r, "InsertReservation") /\ TypeOK
  BY DEF ExecInsertReservation, TxInv
<1>2. Advance(r, InsertReservation(image[r], c.lot, c.p.tenant))
  BY DEF ExecInsertReservation
<1>3. QED
  BY <1>1, <1>2, AdvanceContinues DEF Executes, Reserved

\* The insert of the certificate goes on, or rolls back.
LEMMA ExecInsertCertificateDoes ==
  ASSUME TxInv, NEW r \in Req, ExecInsertCertificate(r)
  PROVE  Continues(r) \/ \E kind : EndsWith(r, kind)
<1> DEFINE c == req[r].call
<1>1. At(r, "InsertCertificate") /\ TypeOK
  BY DEF ExecInsertCertificate, TxInv
<1>2. CASE SerialUnique(image[r], c.p.tenant, Serial(req[r].seen.code))
           /\ Advance(r, InsertCertificate(image[r], c.lot, c.p.tenant,
                              Serial(req[r].seen.code)))
  BY <1>1, <1>2, AdvanceContinues DEF Executes
<1>3. CASE Rollback(r, "internal")
  BY <1>1, <1>3, RollbackEnds DEF Reply
<1>4. QED
  BY <1>2, <1>3 DEF ExecInsertCertificate

\* The insert of the key goes on, or rolls back.
LEMMA ExecSaveIdempotencyDoes ==
  ASSUME TxInv, NEW r \in Req, ExecSaveIdempotency(r)
  PROVE  Continues(r) \/ \E kind : EndsWith(r, kind)
<1> DEFINE c == req[r].call
<1>1. At(r, "SaveIdempotency") /\ TypeOK
  BY DEF ExecSaveIdempotency, TxInv
<1>2. CASE KeyUnique(image[r], c.p.tenant, c.key)
           /\ Advance(r, SaveIdempotency(image[r], c.p.tenant, c.key, c.lot))
  BY <1>1, <1>2, AdvanceContinues DEF Executes
<1>3. CASE Rollback(r, "internal")
  BY <1>1, <1>3, RollbackEnds DEF Reply
<1>4. QED
  BY <1>2, <1>3 DEF ExecSaveIdempotency

\* The insert of the outbox row goes on.
LEMMA ExecInsertOutboxDoes ==
  ASSUME TxInv, NEW r \in Req, ExecInsertOutbox(r)
  PROVE  Continues(r) \/ \E kind : EndsWith(r, kind)
<1> DEFINE c == req[r].call
<1>1. At(r, "InsertOutbox") /\ TypeOK
  BY DEF ExecInsertOutbox, TxInv
<1>2. Advance(r, InsertOutbox(image[r], c.lot, c.p.tenant))
  BY DEF ExecInsertOutbox
<1>3. QED
  BY <1>1, <1>2, AdvanceContinues DEF Executes, Announced

\* The insert of the audit row goes on.
LEMMA ExecInsertAuditDoes ==
  ASSUME TxInv, NEW r \in Req, ExecInsertAudit(r)
  PROVE  Continues(r) \/ \E kind : EndsWith(r, kind)
<1> DEFINE c == req[r].call
<1>1. At(r, "InsertAudit") /\ TypeOK
  BY DEF ExecInsertAudit, TxInv
<1>2. Advance(r, Audited(c, image[r]))
  BY DEF ExecInsertAudit, Audited
<1>3. QED
  BY <1>1, <1>2, AdvanceContinues DEF Executes

\* The insert of the recovery goes on; its lot is the answer.
LEMMA ExecInsertRecoveryDoes ==
  ASSUME TxInv, NEW r \in Req, ExecInsertRecovery(r)
  PROVE  Continues(r)
<1> DEFINE q == req[r]
           c == q.call
           todo == Tail(q.todo)
           e == InsertRecovery(image[r], c.lot, c.p.tenant, c.grams)
<1>1. At(r, "InsertRecovery") /\ TypeOK
  BY DEF ExecInsertRecovery, TxInv
<1>2. /\ q \in Active /\ q.pc = "running" /\ q.todo # <<>>
      /\ Head(q.todo) = "InsertRecovery" /\ todo \in Seq(StatementName)
  BY <1>1, AtStatement
<1>3. c.lot \in Lot
  BY <1>2, OpenTransaction, CallTypes
<1>4. /\ req' = [req EXCEPT ![r].todo = todo, ![r].out = c.lot]
      /\ req \in [Req -> Active \cup {Idle}]
  BY <1>1 DEF ExecInsertRecovery, TypeOK
<1>5. /\ image'[r] = e /\ image' = [s \in Req |-> image'[s]]
      /\ \A s \in Req : s # r => image'[s] = image[s]
  BY <1>1 DEF ExecInsertRecovery, TypeOK
<1>6. UNCHANGED <<db, conn>>
  BY DEF ExecInsertRecovery
<1> HIDE DEF todo, e
<1>7. /\ req' \in [Req -> Active \cup {Idle}]
      /\ req'[r].pc = "running" /\ req'[r].call = q.call
      /\ req'[r].todo = todo /\ req'[r].seen = q.seen /\ req'[r].out = c.lot
      /\ req'[r].degraded = q.degraded
      /\ \A s \in Req : s # r => req'[s] = req[s]
  BY <1>2, <1>3, <1>4 DEF Active
<1>8. Executes("InsertRecovery", q, image[r], req'[r], image'[r])
  BY <1>5, <1>7 DEF Executes, e
<1>9. GoesOn(q, image[r], req'[r], image'[r])
  BY <1>2, <1>7, <1>8 DEF GoesOn, todo
<1>10. QED
  BY <1>2, <1>5, <1>6, <1>7, <1>9 DEF Continues, Only, OthersWait

\* The query for the key goes on, or leaves nothing more to do.
LEMMA QueryIdempotencyDoes ==
  ASSUME TxInv, NEW r \in Req, QueryIdempotency(r)
  PROVE  Continues(r)
<1> DEFINE q == req[r]
           c == q.call
           stored == GetIdempotency(image[r], c.p.tenant, c.key)
<1>1. At(r, "GetIdempotency") /\ TypeOK
  BY DEF QueryIdempotency, TxInv
<1>2. /\ q \in Active /\ q.pc = "running" /\ q.todo # <<>>
      /\ Head(q.todo) = "GetIdempotency"
  BY <1>1, AtStatement
<1>3. CASE stored = NoLot /\ Advance(r, image[r])
  BY <1>1, <1>3, AdvanceContinues DEF Executes, KeyUnique, GetIdempotency
<1>4. CASE /\ stored # NoLot /\ UNCHANGED <<db, conn, image>>
           /\ req' = [req EXCEPT ![r].todo = <<>>, ![r].out = stored]
  <2>1. q.call \in Call /\ image[r] \in Database /\ TransactionAt(q, db, image[r])
    BY <1>2, OpenTransaction
  <2>2. c.p.tenant \in Tenant /\ c.op = "recover" /\ c.key # NoKey
    BY <1>2, <2>1, StatementOf, CallTypes
  <2>3. c.key \in Key
    BY <2>1, <2>2, CallTypes DEF KeyOrNone
  <2>4. stored \in Lot
    BY <1>4, <2>1, <2>2, <2>3 DEF GetIdempotency, Database
  <2>5. /\ req' = [req EXCEPT ![r].todo = <<>>, ![r].out = stored]
        /\ req \in [Req -> Active \cup {Idle}] /\ <<>> \in Seq(StatementName)
        /\ image' = image /\ image = [s \in Req |-> image[s]]
    BY <1>1, <1>4 DEF TypeOK
  <2> HIDE DEF stored
  <2>6. /\ req' \in [Req -> Active \cup {Idle}]
        /\ req'[r].pc = "running" /\ req'[r].call = q.call
        /\ req'[r].todo = <<>> /\ req'[r].out = stored
        /\ req'[r].degraded = q.degraded
        /\ \A s \in Req : s # r => req'[s] = req[s]
    BY <1>2, <2>4, <2>5 DEF Active
  <2>7. Replays(req'[r], image[r], image'[r])
    BY <1>4, <2>5, <2>6 DEF Replays, stored
  <2>8. GoesOn(q, image[r], req'[r], image'[r])
    BY <1>2, <2>6, <2>7 DEF GoesOn
  <2>9. QED
    BY <1>2, <1>4, <2>5, <2>6, <2>8 DEF Continues, Only, OthersWait
<1>5. QED
  BY <1>3, <1>4 DEF QueryIdempotency

\* A statement that fails ends the transaction, or is a lookup whose error is
\* taken for "no such row".
LEMMA StatementFailsDoes ==
  ASSUME TxInv, NEW r \in Req, StatementFails(r)
  PROVE  Continues(r) \/ \E kind : EndsWith(r, kind)
<1> DEFINE q == req[r]
           stmt == Head(q.todo)
           todo == Tail(q.todo)
<1>1. At(r, stmt) /\ TypeOK /\ q.pc = "running"
  BY DEF StatementFails, At, TxInv
<1>2. q \in Active /\ q.todo # <<>> /\ todo \in Seq(StatementName)
  BY <1>1, AtStatement
<1>3. CASE /\ \/ stmt \in {"GetIdempotency", "FindCertificate"}
              \/ stmt = "ActiveReservation" /\ q.call.op = "reserve"
           /\ req' = [req EXCEPT ![r].todo = Tail(@), ![r].degraded = TRUE]
           /\ UNCHANGED <<db, conn, image>>
  <2>1. /\ req' = [req EXCEPT ![r].todo = todo, ![r].degraded = TRUE]
        /\ req \in [Req -> Active \cup {Idle}]
        /\ image' = image /\ image = [s \in Req |-> image[s]]
    BY <1>1, <1>3 DEF TypeOK
  <2> HIDE DEF todo
  <2>2. /\ req' \in [Req -> Active \cup {Idle}]
        /\ req'[r].pc = "running" /\ req'[r].call = q.call
        /\ req'[r].todo = todo /\ req'[r].out = q.out /\ req'[r].seen = q.seen
        /\ req'[r].degraded
        /\ \A s \in Req : s # r => req'[s] = req[s]
    <3>1. req' \in [Req -> Active \cup {Idle}]
      BY <1>2, <2>1 DEF Active
    <3>2. QED
      BY <1>1, <1>2, <2>1, <3>1 DEF Active
  <2>3. Executes(stmt, q, image[r], req'[r], image'[r])
    BY <1>3, <2>1, <2>2 DEF Executes
  <2>4. GoesOn(q, image[r], req'[r], image'[r])
    BY <1>2, <2>2, <2>3 DEF GoesOn, todo
  <2>5. QED
    BY <1>1, <1>3, <2>1, <2>2, <2>4 DEF Continues, Only, OthersWait
<1>4. CASE Rollback(r, "conflict") \/ Rollback(r, "internal")
  BY <1>1, <1>4, RollbackEnds DEF Reply
<1>5. QED
  BY <1>3, <1>4 DEF StatementFails

\* Every statement, whether it succeeds or not.
LEMMA StatementDoes ==
  ASSUME TxInv, NEW r \in Req, Statement(r) \/ StatementFails(r)
  PROVE  Continues(r) \/ \E kind : EndsWith(r, kind)
BY GetLotDoes, QueryReservationDoes, QueryCertificateDoes,
   QueryIdempotencyDoes, ExecUpdateLotStateDoes, ExecInsertLotDoes,
   ExecInsertInspectionDoes, ExecInsertReservationDoes, ExecInsertRecoveryDoes,
   ExecInsertCertificateDoes, ExecSaveIdempotencyDoes, ExecInsertOutboxDoes,
   ExecInsertAuditDoes, StatementFailsDoes DEF Statement
----------------------------------------------------------------------------
(* What Commit installs is what the operation of Lifecycle leaves          *)

\* The action of an operation of Lifecycle that the call asks for.
Operation(c) ==
  CASE c.op = "intake"    -> L!Intake(c.p, c.lot, c.code, c.hazard)
    [] c.op = "inspect"   -> L!Inspect(c.p, c.lot, c.result)
    [] c.op = "reserve"   -> L!Reserve(c.p, c.lot)
    [] c.op = "dismantle" -> L!BeginDismantling(c.p, c.lot)
    [] c.op = "recover"   -> L!Recover(c.p, c.lot, c.grams, c.key)
    [] c.op = "certify"   -> L!Certify(c.p, c.lot)

\* A finished transaction of q, committed, is that operation, except that a
\* replayed recovery writes nothing.
LEMMA IntakeCommits ==
  ASSUME NEW q, q.call.op = "intake", Permitted(q), q.todo = <<>>, NEW e,
         IntakeAt(q, db, e), db' = e
  PROVE  Operation(q.call)
<1> DEFINE c == q.call
<1>1. /\ LotUnique(db, c.lot, c.p.tenant, c.code)
      /\ e = Audited(c, Entered(c, db))
  BY DEF IntakeAt
<1>2. Can(c.p, "intake")
  BY DEF Permitted, Permission
<1>3. L!Intake(c.p, c.lot, c.code, c.hazard)
  BY <1>1, <1>2, IntakeIs DEF Audited, Entered, AuditOf
<1>4. QED
  BY <1>3 DEF Operation

\* The commit of an inspection is RecordInspection.
LEMMA InspectCommits ==
  ASSUME NEW q, q.call.op = "inspect", Permitted(q), q.todo = <<>>, NEW e,
         InspectAt(q, db, e), db' = e
  PROVE  Operation(q.call)
<1> DEFINE c == q.call
<1>1. ReadIn(c, db) /\ e = Audited(c, Inspected(c, db))
  BY DEF InspectAt
<1>2. Can(c.p, "inspect")
  BY DEF Permitted, Permission
<1>3. LotFound(db, c.lot, c.p.tenant) /\ CanInspect(db.lots[c.lot])
  BY <1>1 DEF ReadIn, Verdict
<1>4. L!Inspect(c.p, c.lot, c.result)
  BY <1>1, <1>2, <1>3, InspectIs DEF Audited, Inspected, Moved, Target, AuditOf
<1>5. QED
  BY <1>4 DEF Operation

\* The lookup of the reservation may have failed: that there is none is known
\* from the state of the lot.
LEMMA ReserveCommits ==
  ASSUME NEW q, q.call.op = "reserve", q.call \in Call, Permitted(q),
         q.todo = <<>>, NEW e, ReserveAt(q, db, e), db' = e, L!IInv
  PROVE  Operation(q.call)
<1> DEFINE c == q.call
<1>1. ReadIn(c, db) /\ e = Audited(c, Moved(c, Reserved(c, db)))
  BY DEF ReserveAt
<1>2. Can(c.p, "reserve")
  BY DEF Permitted, Permission
<1>3. LotFound(db, c.lot, c.p.tenant) /\ CanReserve(db.lots[c.lot])
  BY <1>1 DEF ReadIn, Verdict
<1>4. ~ActiveReservation(db, c.lot, c.p.tenant)
  <2>1. /\ c.lot \in Lot /\ db.lots[c.lot] # NoLot
        /\ db.lots[c.lot].state = "inspected"
    BY <1>3, CallTypes DEF LotFound, CanReserve
  <2>2. ~L!ActiveReservation(db, c.lot, c.p.tenant)
    BY <2>1, L!NoReservationYet, PrincipalAssumption, HazardAssumption,
       WeightsAssumption, NoKeyAssumption, NoLotAssumption, SameShapes
  <2>3. QED
    BY <2>2, SameQueries
<1>5. L!Reserve(c.p, c.lot)
  BY <1>1, <1>2, <1>3, <1>4, ReserveIs DEF Audited, Reserved, Moved, Target, AuditOf
<1>6. QED
  BY <1>5 DEF Operation

\* The commit of a dismantling is StartDismantling.
LEMMA DismantleCommits ==
  ASSUME NEW q, q.call.op = "dismantle", Permitted(q), q.todo = <<>>, NEW e,
         DismantleAt(q, db, e), db' = e
  PROVE  Operation(q.call)
<1> DEFINE c == q.call
<1>1. /\ ReadIn(c, db) /\ ActiveReservation(db, c.lot, c.p.tenant)
      /\ e = Audited(c, Moved(c, db))
  BY DEF DismantleAt
<1>2. Can(c.p, "reserve")
  BY DEF Permitted, Permission
<1>3. LotFound(db, c.lot, c.p.tenant) /\ db.lots[c.lot].state = "reserved"
  BY <1>1 DEF ReadIn, Verdict
<1>4. L!BeginDismantling(c.p, c.lot)
  BY <1>1, <1>2, <1>3, DismantlingIs DEF Audited, Moved, Target, AuditOf
<1>5. QED
  BY <1>4 DEF Operation

\* The commit of a recovery without a key is RecordRecovery.
LEMMA RecoverCommits ==
  ASSUME NEW q, q.call.op = "recover", q.call.key = NoKey, Permitted(q),
         q.todo = <<>>, NEW e, RecoverAt(q, db, e), db' = e
  PROVE  Operation(q.call) /\ q.out = q.call.lot
<1> DEFINE c == q.call
<1>1. /\ ReadIn(c, db) /\ e = Audited(c, Announced(c, Recovered(c, db)))
      /\ q.out = c.lot
  BY DEF RecoverAt
<1>2. Can(c.p, "recover")
  BY DEF Permitted, Permission
<1>3. /\ LotFound(db, c.lot, c.p.tenant) /\ CanRecover(db.lots[c.lot])
      /\ WeightsValid(c.grams)
  BY <1>1 DEF ReadIn, Verdict
<1>4. L!Recover(c.p, c.lot, c.grams, c.key)
  BY <1>1, <1>2, <1>3, RecoverIs
     DEF Audited, Announced, Recovered, Moved, Target, AuditOf
<1>5. QED
  BY <1>1, <1>4 DEF Operation

\* The commit of a recovery with a key is RecordRecovery, or a replay.
LEMMA KeyedRecoverCommits ==
  ASSUME NEW q, q.call.op = "recover", q.call.key # NoKey, Permitted(q),
         q.todo = <<>>, NEW e, KeyedRecoverAt(q, db, e), db' = e
  PROVE  \/ Operation(q.call) /\ q.out = q.call.lot
         \/ Replays(q, db, e)
<1> DEFINE c == q.call
<1>1. CASE Replays(q, db, e)
  BY <1>1
<1>2. CASE /\ ReadIn(c, db) /\ KeyUnique(db, c.p.tenant, c.key)
           /\ e = Audited(c, Announced(c, Keyed(c, db))) /\ q.out = c.lot
  <2>1. Can(c.p, "recover")
    BY DEF Permitted, Permission
  <2>2. /\ LotFound(db, c.lot, c.p.tenant) /\ CanRecover(db.lots[c.lot])
        /\ WeightsValid(c.grams)
    BY <1>2 DEF ReadIn, Verdict
  <2>3. L!Recover(c.p, c.lot, c.grams, c.key)
    BY <1>2, <2>1, <2>2, RecoverIs
       DEF Audited, Announced, Keyed, Recovered, Moved, Target, AuditOf
  <2>4. QED
    BY <1>2, <2>3 DEF Operation
<1>3. QED
  BY <1>1, <1>2 DEF KeyedRecoverAt, LookedUpAt, SavedAt

\* So may that of the certificate.
LEMMA CertifyCommits ==
  ASSUME NEW q, q.call.op = "certify", q.call \in Call, Permitted(q),
         q.todo = <<>>, NEW e, CertifyAt(q, db, e), db' = e, L!IInv
  PROVE  Operation(q.call)
<1> DEFINE c == q.call
<1>1. /\ ReadIn(c, db) /\ e = Audited(c, Moved(c, Certificate(c, db)))
      /\ SerialUnique(db, c.p.tenant, Serial(db.lots[c.lot].code))
  BY DEF CertifyAt
<1>2. Can(c.p, "certify")
  BY DEF Permitted, Permission
<1>3. LotFound(db, c.lot, c.p.tenant) /\ CanCertify(db.lots[c.lot])
  BY <1>1 DEF ReadIn, Verdict
<1>4. ~FindCertificate(db, c.lot, c.p.tenant)
  <2>1. /\ c.lot \in Lot /\ db.lots[c.lot] # NoLot
        /\ db.lots[c.lot].state = "recovered"
    BY <1>3, CallTypes DEF LotFound, CanCertify
  <2>2. ~L!FindCertificate(db, c.lot, c.p.tenant)
    BY <2>1, L!NoCertificateYet, PrincipalAssumption, HazardAssumption,
       WeightsAssumption, NoKeyAssumption, NoLotAssumption, SameShapes
  <2>3. QED
    BY <2>2, SameQueries
<1>5. L!Certify(c.p, c.lot)
  BY <1>1, <1>2, <1>3, <1>4, CertifyIs
     DEF Audited, Certificate, Moved, Target, AuditOf
<1>6. QED
  BY <1>5 DEF Operation

\* A commit is one operation of Lifecycle, or the replay of a recovery.
LEMMA TransactionCommits ==
  ASSUME NEW q, q.call \in Call, Permitted(q), q.todo = <<>>, NEW e,
         TransactionAt(q, db, e), db' = e, L!IInv
  PROVE  \/ /\ Operation(q.call)
            /\ q.call.op = "recover" => q.out = q.call.lot
         \/ /\ q.call.op = "recover" /\ q.call.key # NoKey
            /\ Replays(q, db, e)
<1>1. q.call.op \in {"intake", "inspect", "reserve", "dismantle", "recover",
                     "certify"}
  BY DEF Call
<1>2. CASE q.call.op = "intake"
  BY <1>2, IntakeCommits DEF TransactionAt
<1>3. CASE q.call.op = "inspect"
  BY <1>3, InspectCommits DEF TransactionAt
<1>4. CASE q.call.op = "reserve"
  BY <1>4, ReserveCommits DEF TransactionAt
<1>5. CASE q.call.op = "dismantle"
  BY <1>5, DismantleCommits DEF TransactionAt
<1>6. CASE q.call.op = "recover" /\ q.call.key = NoKey
  BY <1>6, RecoverCommits DEF TransactionAt
<1>7. CASE q.call.op = "recover" /\ q.call.key # NoKey
  BY <1>7, KeyedRecoverCommits DEF TransactionAt
<1>8. CASE q.call.op = "certify"
  BY <1>8, CertifyCommits DEF TransactionAt
<1>9. QED
  BY <1>1, <1>2, <1>3, <1>4, <1>5, <1>6, <1>7, <1>8

\* An operation is a step of Lifecycle; it loses nothing that is on record, and
\* puts its own effect on record.
LEMMA OperationRecords ==
  ASSUME NEW c \in Call, Operation(c), L!IInv
  PROVE  /\ L!Next /\ L!Kept(db, db')
         /\ L!OnRecord(db', c.p.tenant, c.lot, AuditOf(c).action)
         /\ c.op = "recover" =>
              /\ Len(db'.recoveries[c.lot]) > 0
              /\ c.key # NoKey => db'.idempotency[c.p.tenant][c.key] = c.lot
<1> USE PrincipalAssumption, HazardAssumption, WeightsAssumption,
        NoKeyAssumption, NoLotAssumption, SameShapes
<1>1. c.op \in {"intake", "inspect", "reserve", "dismantle", "recover",
                "certify"}
  BY DEF Call
<1>2. c.p \in Principal /\ c.lot \in Lot
  BY CallTypes
<1>3. CASE c.op = "intake"
  <2>1. L!Intake(c.p, c.lot, c.code, c.hazard) /\ AuditOf(c).action = "intake"
    BY <1>3 DEF Operation, AuditOf
  <2>2. c.code \in Code /\ c.hazard \in Hazard
    BY <1>3, CallTypes
  <2>3. L!Next
    BY <1>2, <2>1, <2>2 DEF L!Next
  <2>4. L!Kept(db, db') /\ L!OnRecord(db', c.p.tenant, c.lot, "intake")
    BY <1>2, <2>1, <2>2, L!IntakeRecords
  <2>5. QED
    BY <1>3, <2>1, <2>3, <2>4
<1>4. CASE c.op = "inspect"
  <2>1. L!Inspect(c.p, c.lot, c.result) /\ AuditOf(c).action = "inspection"
    BY <1>4 DEF Operation, AuditOf
  <2>2. c.result \in Result
    BY <1>4, CallTypes
  <2>3. L!Next
    BY <1>2, <2>1, <2>2 DEF L!Next
  <2>4. L!Kept(db, db') /\ L!OnRecord(db', c.p.tenant, c.lot, "inspection")
    BY <1>2, <2>1, <2>2, L!InspectRecords
  <2>5. QED
    BY <1>4, <2>1, <2>3, <2>4
<1>5. CASE c.op = "reserve"
  <2>1. L!Reserve(c.p, c.lot) /\ AuditOf(c).action = "reserve"
    BY <1>5 DEF Operation, AuditOf
  <2>2. L!Next
    BY <1>2, <2>1 DEF L!Next
  <2>3. L!Kept(db, db') /\ L!OnRecord(db', c.p.tenant, c.lot, "reserve")
    BY <1>2, <2>1, L!ReserveRecords
  <2>4. QED
    BY <1>5, <2>1, <2>2, <2>3
<1>6. CASE c.op = "dismantle"
  <2>1. L!BeginDismantling(c.p, c.lot) /\ AuditOf(c).action = "dismantling"
    BY <1>6 DEF Operation, AuditOf
  <2>2. L!Next
    BY <1>2, <2>1 DEF L!Next
  <2>3. L!Kept(db, db') /\ L!OnRecord(db', c.p.tenant, c.lot, "dismantling")
    BY <1>2, <2>1, L!DismantlingRecords
  <2>4. QED
    BY <1>6, <2>1, <2>2, <2>3
<1>7. CASE c.op = "recover"
  <2>1. L!Recover(c.p, c.lot, c.grams, c.key) /\ AuditOf(c).action = "recover"
    BY <1>7 DEF Operation, AuditOf
  <2>2. c.grams \in Weights /\ c.key \in L!KeyOrNone
    BY <1>7, CallTypes, SameShapes
  <2>3. L!Next
    BY <1>2, <2>1, <2>2 DEF L!Next
  <2>4. /\ L!Kept(db, db') /\ L!OnRecord(db', c.p.tenant, c.lot, "recover")
        /\ Len(db'.recoveries[c.lot]) > 0
        /\ c.key # NoKey => db'.idempotency[c.p.tenant][c.key] = c.lot
    BY <1>2, <2>1, <2>2, L!RecoverRecords
  <2>5. QED
    BY <2>1, <2>3, <2>4
<1>8. CASE c.op = "certify"
  <2>1. L!Certify(c.p, c.lot) /\ AuditOf(c).action = "certificate"
    BY <1>8 DEF Operation, AuditOf
  <2>2. L!Next
    BY <1>2, <2>1 DEF L!Next
  <2>3. L!Kept(db, db') /\ L!OnRecord(db', c.p.tenant, c.lot, "certificate")
    BY <1>2, <2>1, L!CertifyRecords
  <2>4. QED
    BY <1>8, <2>1, <2>2, <2>3
<1>9. QED
  BY <1>1, <1>3, <1>4, <1>5, <1>6, <1>7, <1>8

----------------------------------------------------------------------------
(* The invariant is kept *)

\* What an answer promises stays true as long as nothing on record is lost.
LEMMA DurableKept ==
  ASSUME NEW q, q.call \in Call, q.out \in Lot \cup {NoLot},
         NEW d \in Database, NEW e \in Database, L!Kept(d, e), Durable(q, d)
  PROVE  Durable(q, e)
<1> DEFINE c == q.call
           id == IF c.op = "recover" THEN q.out ELSE c.lot
<1>1. /\ id # NoLot /\ LotFound(d, id, c.p.tenant)
      /\ \E i \in 1..Len(d.audit[id]) : d.audit[id][i].action = AuditOf(c).action
      /\ c.op = "recover" =>
           /\ Len(d.recoveries[id]) > 0
           /\ c.key # NoKey => d.idempotency[c.p.tenant][c.key] = id
  BY DEF Durable
<1>2. id \in Lot /\ c.p.tenant \in Tenant
  BY <1>1, CallTypes
<1>3. c.op = "recover" /\ c.key # NoKey => c.key \in Key
  BY CallTypes DEF KeyOrNone
<1> HIDE DEF id
<1>4. Len(d.recoveries[id]) \in Nat /\ Len(e.recoveries[id]) \in Nat
  <2> DEFINE R == [tenant : Tenant, grams : Weights]
  <2>1. d.recoveries \in [Lot -> Seq(R)] /\ e.recoveries \in [Lot -> Seq(R)]
    BY DEF Database
  <2> HIDE DEF R
  <2>2. QED
    BY <1>2, <2>1
<1>5. LotFound(e, id, c.p.tenant)
  BY <1>1, <1>2 DEF L!Kept, LotFound
<1>6. \E i \in 1..Len(e.audit[id]) : e.audit[id][i].action = AuditOf(c).action
  BY <1>1, <1>2 DEF L!Kept
<1>7. c.op = "recover" => Len(e.recoveries[id]) > 0
  BY <1>1, <1>2, <1>4 DEF L!Kept
<1>8. c.op = "recover" /\ c.key # NoKey => e.idempotency[c.p.tenant][c.key] = id
  BY <1>1, <1>2, <1>3 DEF L!Kept
<1>9. QED
  BY <1>1, <1>5, <1>6, <1>7, <1>8 DEF Durable, id

\* A step of Lifecycle, or none, keeps the invariant of Lifecycle.
LEMMA LifecycleKept ==
  ASSUME L!IInv, L!Next \/ db' = db
  PROVE  L!IInv' /\ db' \in Database
<1>1. [L!Next]_(L!vars)
  BY DEF L!vars
<1>2. L!IInv'
  BY <1>1, L!NextKeepsIInv, PrincipalAssumption, HazardAssumption,
     WeightsAssumption, NoKeyAssumption, NoLotAssumption, SameShapes
<1>3. QED
  BY <1>2, SameShapes DEF L!IInv, L!TypeOK

\* A commit is a step of Lifecycle or leaves the database alone; nothing on
\* record is lost, and what its request is told is true.
LEMMA CommitDoes ==
  ASSUME TxInv, NEW r \in Req, Commit(r) \/ CommitUnsure(r)
  PROVE  /\ L!Next \/ db' = db
         /\ L!Kept(db, db')
         /\ Durable(req[r], db')
<1> DEFINE q == req[r]
           c == q.call
<1>1. /\ q.pc = "running" /\ q.todo = <<>> /\ db' = image[r]
  BY DEF Commit, CommitUnsure
<1>2. /\ c \in Call /\ Permitted(q) /\ TransactionAt(q, db, image[r]) /\ L!IInv
      /\ db \in Database
  BY <1>1, OpenTransaction DEF TxInv
<1>3. CASE Operation(c) /\ (c.op = "recover" => q.out = c.lot)
  <2>1. /\ L!Next /\ L!Kept(db, db')
        /\ L!OnRecord(db', c.p.tenant, c.lot, AuditOf(c).action)
        /\ c.op = "recover" =>
             /\ Len(db'.recoveries[c.lot]) > 0
             /\ c.key # NoKey => db'.idempotency[c.p.tenant][c.key] = c.lot
    BY <1>2, <1>3, OperationRecords
  <2>2. /\ LotFound(db', c.lot, c.p.tenant)
        /\ \E i \in 1..Len(db'.audit[c.lot]) :
             db'.audit[c.lot][i].action = AuditOf(c).action
    BY <2>1, SameQueries DEF L!OnRecord
  <2>3. c.lot # NoLot
    BY <1>2, CallTypes, NoLotAssumption DEF NoLotAssumption
  <2>4. Durable(q, db')
    BY <1>3, <2>1, <2>2, <2>3 DEF Durable
  <2>5. QED
    BY <2>1, <2>4
<1>4. CASE c.op = "recover" /\ c.key # NoKey /\ Replays(q, db, image[r])
  <2>1. db' = db
    BY <1>1, <1>4 DEF Replays
  <2>2. L!Kept(db, db')
    <3>1. \A id \in Lot : Len(db.recoveries[id]) <= Len(db.recoveries[id])
      <4> DEFINE R == [tenant : Tenant, grams : Weights]
      <4>1. db.recoveries \in [Lot -> Seq(R)]
        BY <1>2 DEF Database
      <4> HIDE DEF R
      <4>2. QED
        BY <4>1
    <3>2. QED
      BY <2>1, <3>1 DEF L!Kept
  <2>3. c.p.tenant \in Tenant /\ c.key \in Key
    BY <1>2, <1>4, CallTypes DEF KeyOrNone
  <2>4. q.out # NoLot /\ q.out = db.idempotency[c.p.tenant][c.key]
    BY <1>4 DEF Replays, GetIdempotency
  <2>5. /\ L!OnRecord(db, c.p.tenant, q.out, "recover")
        /\ Len(db.recoveries[q.out]) > 0
    BY <1>2, <2>3, <2>4, L!StoredKeyOnRecord, PrincipalAssumption,
       HazardAssumption, WeightsAssumption, NoKeyAssumption, NoLotAssumption,
       SameShapes
  <2>6. /\ LotFound(db, q.out, c.p.tenant)
        /\ \E i \in 1..Len(db.audit[q.out]) :
             db.audit[q.out][i].action = "recover"
    BY <2>5, SameQueries DEF L!OnRecord
  <2>7. Durable(q, db')
    BY <1>4, <2>1, <2>4, <2>5, <2>6 DEF Durable, AuditOf
  <2>8. QED
    BY <2>1, <2>2, <2>7
<1>5. QED
  BY <1>1, <1>2, <1>3, <1>4, TransactionCommits

\* A request that is not touched, while the database is not either.
LEMMA Untouched ==
  ASSUME NEW s \in Req, RequestOK(s), req'[s] = req[s], image'[s] = image[s],
         db' = db
  PROVE  RequestOK(s)'
BY DEF RequestOK

\* Shapes, when only the request r and its transaction change.
LEMMA TypesKept ==
  ASSUME TypeOK, NEW r \in Req, db' \in Database,
         req' \in [Req -> Active \cup {Idle}],
         image' \in [Req -> Database \cup {NoImage}], OthersWait(r),
         \/ conn' = conn
         \/ conn' = r /\ conn = NoReq
         \/ conn' = NoReq /\ conn = r,
         conn' = r <=> req'[r].pc = "running",
         conn' = r <=> image'[r] # NoImage
  PROVE  TypeOK'
<1>1. conn' \in Req \cup {NoReq}
  BY DEF TypeOK
<1>2. ASSUME NEW s \in Req, s # r
      PROVE  /\ conn' = s <=> req'[s].pc = "running"
             /\ conn' = s <=> image'[s] # NoImage
  BY <1>2, NoReqAssumption DEF TypeOK, OthersWait, NoReqAssumption
<1>3. QED
  BY <1>1, <1>2 DEF TypeOK

\* A request that arrives is answered at once or waits as it should.
LEMMA SubmitKeeps ==
  ASSUME TxInv, NEW r \in Req, NEW c \in Call, Submit(r, c)
  PROVE  TypeOK' /\ \A s \in Req : RequestOK(s)'
<1> DEFINE early == IF ~Can(c.p, Permission(c.op)) THEN "forbidden"
                    ELSE IF c.op = "intake" /\ ~c.wellFormed THEN "invalid"
                    ELSE "none"
           q2 == [pc |-> IF early = "none" THEN "waiting" ELSE "answering",
                  call |-> c, todo |-> Program(c), seen |-> NoLot,
                  out |-> NoLot, degraded |-> FALSE, reply |-> early]
<1>1. /\ req[r] = Idle /\ req' = [req EXCEPT ![r] = q2]
      /\ UNCHANGED <<db, conn, image>> /\ TypeOK
  BY DEF Submit, TxInv
<1>2. early \in {"forbidden", "invalid", "none"}
  OBVIOUS
<1>3. Program(c) \in Seq(StatementName)
  <2>1. c.op \in {"intake", "inspect", "reserve", "dismantle", "recover",
                  "certify"}
    BY DEF Call
  <2>2. CASE c.op = "intake"
    BY <2>2 DEF Program, StatementName
  <2>3. CASE c.op = "inspect"
    BY <2>3 DEF Program, StatementName
  <2>4. CASE c.op = "reserve"
    BY <2>4 DEF Program, StatementName
  <2>5. CASE c.op = "dismantle"
    BY <2>5 DEF Program, StatementName
  <2>6. CASE c.op = "recover"
    <3>1. CASE c.key = NoKey
      BY <2>6, <3>1 DEF Program, StatementName
    <3>2. CASE c.key # NoKey
      BY <2>6, <3>2 DEF Program, StatementName
    <3>3. QED
      BY <3>1, <3>2
  <2>7. CASE c.op = "certify"
    BY <2>7 DEF Program, StatementName
  <2>8. QED
    BY <2>1, <2>2, <2>3, <2>4, <2>5, <2>6, <2>7
<1>4. q2 \in Active
  BY <1>2, <1>3 DEF Active, Reply
<1>5. /\ q2.pc \in {"waiting", "answering"} /\ q2.call = c
      /\ q2.todo = Program(c) /\ q2.reply = early
      /\ q2.pc = "waiting" => early = "none"
  BY <1>2
<1>6. early = "none" => Can(c.p, Permission(c.op))
  OBVIOUS
<1> HIDE DEF early, q2
<1>7. /\ req' \in [Req -> Active \cup {Idle}] /\ req'[r] = q2
      /\ \A s \in Req : s # r => req'[s] = req[s]
  BY <1>1, <1>4 DEF TypeOK
<1>8. req[r].pc = "idle"
  BY <1>1 DEF Idle
<1>9. TypeOK'
  BY <1>1, <1>5, <1>7, <1>8, TypesKept DEF TypeOK, OthersWait
<1>10. RequestOK(r)'
  BY <1>2, <1>5, <1>6, <1>7 DEF RequestOK, Permitted
<1>11. \A s \in Req : s # r => RequestOK(s)'
  BY <1>1, <1>7, Untouched DEF TxInv
<1>12. QED
  BY <1>9, <1>10, <1>11

\* A transaction begins with the first stage of its operation.
LEMMA BeginKeeps ==
  ASSUME TxInv, NEW r \in Req, Begin(r)
  PROVE  TypeOK' /\ \A s \in Req : RequestOK(s)'
<1> DEFINE q == req[r]
<1>1. /\ q.pc = "waiting" /\ conn = NoReq /\ conn' = r /\ db' = db
      /\ image' = [image EXCEPT ![r] = db]
      /\ req' = [req EXCEPT ![r].pc = "running"] /\ TypeOK
  BY DEF Begin, TxInv
<1>2. q \in Active /\ Permitted(q) /\ q.todo = Program(q.call)
  BY <1>1, Busy DEF TxInv, RequestOK
<1>3. /\ req' \in [Req -> Active \cup {Idle}] /\ req'[r].pc = "running"
      /\ req'[r].call = q.call /\ req'[r].todo = q.todo
      /\ \A s \in Req : s # r => req'[s] = req[s]
  BY <1>1, <1>2 DEF TypeOK, Active
<1>4. /\ image' \in [Req -> Database \cup {NoImage}] /\ image'[r] = db
      /\ db \in Database
      /\ \A s \in Req : s # r => image'[s] = image[s]
  BY <1>1 DEF TypeOK
<1>5. db # NoImage
  BY <1>4, NoImageAssumption DEF NoImageAssumption
<1>6. TypeOK'
  BY <1>1, <1>3, <1>4, <1>5, TypesKept DEF OthersWait
<1>7. TransactionAt(req'[r], db, db)
  <2>1. q.call.op \in {"intake", "inspect", "reserve", "dismantle", "recover",
                       "certify"}
    BY <1>2 DEF Active, Call
  <2>2. req'[r].todo = Program(req'[r].call) /\ req'[r].call = q.call
    BY <1>2, <1>3
  <2>3. CASE q.call.op = "intake"
    BY <2>2, <2>3 DEF Program, TransactionAt, IntakeAt
  <2>4. CASE q.call.op = "inspect"
    BY <2>2, <2>4 DEF Program, TransactionAt, InspectAt
  <2>5. CASE q.call.op = "reserve"
    BY <2>2, <2>5 DEF Program, TransactionAt, ReserveAt
  <2>6. CASE q.call.op = "dismantle"
    BY <2>2, <2>6 DEF Program, TransactionAt, DismantleAt
  <2>7. CASE q.call.op = "recover"
    BY <2>2, <2>7 DEF Program, TransactionAt, RecoverAt, KeyedRecoverAt
  <2>8. CASE q.call.op = "certify"
    BY <2>2, <2>8 DEF Program, TransactionAt, CertifyAt
  <2>9. QED
    BY <2>1, <2>3, <2>4, <2>5, <2>6, <2>7, <2>8
<1>8. RequestOK(r)'
  BY <1>1, <1>2, <1>3, <1>4, <1>7 DEF RequestOK, Permitted
<1>9. \A s \in Req : s # r => RequestOK(s)'
  BY <1>1, <1>3, <1>4, Untouched DEF TxInv
<1>10. QED
  BY <1>6, <1>8, <1>9

\* A statement that goes on leads to the next stage.
LEMMA ContinuesKeeps ==
  ASSUME TxInv, NEW r \in Req, Continues(r)
  PROVE  TypeOK' /\ \A s \in Req : RequestOK(s)'
<1>1. /\ UNCHANGED <<db, conn>> /\ req' \in [Req -> Active \cup {Idle}]
      /\ image' = [s \in Req |-> image'[s]] /\ OthersWait(r)
      /\ req[r].pc = "running" /\ req'[r].pc = "running"
      /\ GoesOn(req[r], image[r], req'[r], image'[r])
  BY DEF Continues, Only
<1>2. /\ req[r].call \in Call /\ db \in Database /\ image[r] \in Database
      /\ conn = r /\ Permitted(req[r]) /\ TransactionAt(req[r], db, image[r])
  BY <1>1, OpenTransaction
<1>3. image'[r] \in Database
  BY <1>1, <1>2, ImageTyped
<1>4. TransactionAt(req'[r], db, image'[r])
  BY <1>1, <1>2, TransactionGoesOn
<1>5. image' \in [Req -> Database \cup {NoImage}]
  <2>1. \A s \in Req : image'[s] \in Database \cup {NoImage}
    BY <1>1, <1>3 DEF OthersWait, TxInv, TypeOK
  <2>2. QED
    BY <1>1, <2>1
<1>6. TypeOK'
  <2>1. image'[r] # NoImage
    BY <1>3, NoImageAssumption DEF NoImageAssumption
  <2>2. TypeOK /\ conn' = conn /\ conn = r /\ db' \in Database
    BY <1>1, <1>2 DEF TxInv
  <2>3. QED
    BY <1>1, <1>5, <2>1, <2>2, TypesKept
<1>7. RequestOK(r)'
  <2>1. req'[r].call = req[r].call
    BY <1>1 DEF GoesOn
  <2>2. QED
    BY <1>1, <1>2, <1>4, <2>1 DEF RequestOK, Permitted
<1>8. \A s \in Req : s # r => RequestOK(s)'
  BY <1>1, Untouched DEF OthersWait, TxInv
<1>9. QED
  BY <1>6, <1>7, <1>8

\* So does one that ends in a rollback.
LEMMA EndKeeps ==
  ASSUME TxInv, NEW r \in Req, NEW kind, EndsWith(r, kind)
  PROVE  TypeOK' /\ \A s \in Req : RequestOK(s)'
<1> DEFINE q == req[r]
           todo == <<>>
<1>1. /\ conn' = NoReq /\ image' = [image EXCEPT ![r] = NoImage] /\ db' = db
      /\ req' = [req EXCEPT ![r].pc = "answering", ![r].reply = kind,
                            ![r].todo = todo, ![r].seen = NoLot]
      /\ kind \in Reply /\ kind # "ok" /\ q.pc = "running" /\ TypeOK
      /\ todo \in Seq(StatementName)
  BY DEF EndsWith, Rollback, TxInv
<1>2. q \in Active /\ conn = r
  BY <1>1, OpenTransaction
<1> HIDE DEF todo
<1>3. /\ req' \in [Req -> Active \cup {Idle}] /\ req'[r].pc = "answering"
      /\ req'[r].reply = kind
      /\ \A s \in Req : s # r => req'[s] = req[s]
  BY <1>1, <1>2 DEF TypeOK, Active
<1>4. /\ image' \in [Req -> Database \cup {NoImage}] /\ image'[r] = NoImage
      /\ db \in Database
      /\ \A s \in Req : s # r => image'[s] = image[s]
  BY <1>1 DEF TypeOK
<1>5. TypeOK'
  BY <1>1, <1>2, <1>3, <1>4, TypesKept, NoReqAssumption
     DEF OthersWait, NoReqAssumption
<1>6. RequestOK(r)'
  BY <1>1, <1>3 DEF RequestOK
<1>7. \A s \in Req : s # r => RequestOK(s)'
  BY <1>1, <1>3, <1>4, Untouched DEF TxInv
<1>8. QED
  BY <1>5, <1>6, <1>7

\* A commit: the others are not running, and what they were promised stays.
LEMMA CommitKeeps ==
  ASSUME TxInv, NEW r \in Req, Commit(r) \/ CommitUnsure(r)
  PROVE  TypeOK' /\ \A s \in Req : RequestOK(s)'
<1> DEFINE q == req[r]
<1>1. /\ conn' = NoReq /\ image' = [image EXCEPT ![r] = NoImage]
      /\ db' = image[r] /\ q.pc = "running" /\ TypeOK
      /\ \E reply \in {"ok", "internal"} :
           req' = [req EXCEPT ![r].pc = "answering", ![r].reply = reply,
                              ![r].seen = NoLot]
  BY DEF Commit, CommitUnsure, TxInv
<1>2. q \in Active /\ conn = r /\ db \in Database /\ db' \in Database
  BY <1>1, OpenTransaction
<1>3. L!Kept(db, db') /\ Durable(q, db')
  BY CommitDoes
<1>4. /\ req' \in [Req -> Active \cup {Idle}] /\ req'[r].pc = "answering"
      /\ req'[r].call = q.call /\ req'[r].out = q.out
      /\ \A s \in Req : s # r => req'[s] = req[s]
  <2>1. PICK reply \in {"ok", "internal"} :
          req' = [req EXCEPT ![r].pc = "answering", ![r].reply = reply,
                             ![r].seen = NoLot]
    BY <1>1
  <2>2. reply \in Reply
    BY DEF Reply
  <2>3. QED
    BY <1>1, <1>2, <2>1, <2>2 DEF TypeOK, Active
<1>5. /\ image' \in [Req -> Database \cup {NoImage}] /\ image'[r] = NoImage
      /\ \A s \in Req : s # r => image'[s] = image[s]
  BY <1>1 DEF TypeOK
<1>6. TypeOK'
  BY <1>1, <1>2, <1>4, <1>5, TypesKept, NoReqAssumption
     DEF OthersWait, NoReqAssumption
<1>7. RequestOK(r)'
  BY <1>3, <1>4 DEF RequestOK, Durable
<1>8. ASSUME NEW s \in Req, s # r
      PROVE  RequestOK(s)'
  <2>1. RequestOK(s) /\ req'[s] = req[s] /\ req[s].pc # "running"
    BY <1>1, <1>2, <1>4, <1>8 DEF TxInv, TypeOK
  <2>2. CASE req[s].pc = "answering" /\ req[s].reply = "ok"
    <3>1. /\ req[s] \in Active
      BY <1>1, <2>2, Busy
    <3>2. req[s].call \in Call /\ req[s].out \in Lot \cup {NoLot}
      BY <3>1 DEF Active
    <3>3. Durable(req[s], db)
      BY <2>1, <2>2 DEF RequestOK
    <3>4. Durable(req[s], db')
      BY <1>2, <1>3, <3>2, <3>3, DurableKept
    <3>5. QED
      BY <2>1, <2>2, <3>4 DEF RequestOK
  <2>3. CASE ~(req[s].pc = "answering" /\ req[s].reply = "ok")
    BY <2>1, <2>3 DEF RequestOK
  <2>4. QED
    BY <2>2, <2>3
<1>9. QED
  BY <1>6, <1>7, <1>8

\* A request is forgotten, or answered before it got the connection.
LEMMA BeginFailsKeeps ==
  ASSUME TxInv, NEW r \in Req, BeginFails(r)
  PROVE  TypeOK' /\ \A s \in Req : RequestOK(s)'
<1>1. /\ UNCHANGED <<db, conn, image>> /\ TypeOK /\ req[r].pc = "waiting"
      /\ req' = [req EXCEPT ![r].pc = "answering", ![r].reply = "internal"]
  BY DEF BeginFails, TxInv
<1>2. req[r] \in Active
  BY <1>1, Busy
<1>3. /\ req' \in [Req -> Active \cup {Idle}] /\ req'[r].pc = "answering"
      /\ req'[r].reply = "internal"
      /\ \A s \in Req : s # r => req'[s] = req[s]
  BY <1>1, <1>2 DEF TypeOK, Active, Reply
<1>4. TypeOK'
  BY <1>1, <1>3, TypesKept DEF OthersWait, TypeOK
<1>5. RequestOK(r)'
  BY <1>3 DEF RequestOK
<1>6. \A s \in Req : s # r => RequestOK(s)'
  BY <1>1, <1>3, Untouched DEF TxInv
<1>7. QED
  BY <1>4, <1>5, <1>6

\* A request that has its answer is out of the picture.
LEMMA AnswerKeeps ==
  ASSUME TxInv, NEW r \in Req, Answer(r)
  PROVE  TypeOK' /\ \A s \in Req : RequestOK(s)'
<1>1. /\ UNCHANGED <<db, conn, image>> /\ TypeOK /\ req[r].pc = "answering"
      /\ req' = [req EXCEPT ![r] = Idle]
  BY DEF Answer, TxInv
<1>2. /\ req' \in [Req -> Active \cup {Idle}] /\ req'[r].pc = "idle"
      /\ \A s \in Req : s # r => req'[s] = req[s]
  BY <1>1 DEF TypeOK, Idle
<1>3. TypeOK'
  BY <1>1, <1>2, TypesKept DEF OthersWait, TypeOK
<1>4. RequestOK(r)'
  BY <1>2 DEF RequestOK
<1>5. \A s \in Req : s # r => RequestOK(s)'
  BY <1>1, <1>2, Untouched DEF TxInv
<1>6. QED
  BY <1>3, <1>4, <1>5

\* A crash leaves no transaction and no request.
LEMMA CrashKeeps ==
  ASSUME TxInv, Crash
  PROVE  TypeOK' /\ \A s \in Req : RequestOK(s)'
<1>1. /\ conn' = NoReq /\ image' = [r \in Req |-> NoImage]
      /\ req' = [r \in Req |-> Idle] /\ db' = db /\ db \in Database
  BY DEF Crash, TxInv, TypeOK
<1>2. \A s \in Req : req'[s].pc = "idle" /\ image'[s] = NoImage
  BY <1>1 DEF Idle
<1>3. TypeOK'
  BY <1>1, <1>2, NoReqAssumption DEF TypeOK, NoReqAssumption
<1>4. QED
  BY <1>2, <1>3 DEF RequestOK

\* In every step the database takes a step of Lifecycle or stays as it is.
LEMMA DatabaseStep ==
  ASSUME TxInv, [Next]_vars
  PROVE  L!Next \/ db' = db
<1>1. ASSUME NEW r \in Req, Statement(r) \/ StatementFails(r)
      PROVE  db' = db
  BY <1>1, StatementDoes DEF Continues, Only, EndsWith, Rollback
<1>2. ASSUME NEW r \in Req, Commit(r) \/ CommitUnsure(r)
      PROVE  L!Next \/ db' = db
  BY <1>2, CommitDoes
<1>3. QED
  BY <1>1, <1>2
     DEF Next, vars, Submit, Begin, BeginFails, CommitFails, Rollback, Answer,
         Crash

\* The invariant holds before the first request.
LEMMA InitTxInv == Init => TxInv
<1> SUFFICES ASSUME Init PROVE TxInv
  OBVIOUS
<1>1. /\ db = EmptyDatabase /\ conn = NoReq
      /\ \A r \in Req : req[r] = Idle /\ image[r] = NoImage
      /\ image \in [Req -> Database \cup {NoImage}]
      /\ req \in [Req -> Active \cup {Idle}]
  BY DEF Init
<1>2. L!Init
  BY <1>1, SameShapes DEF L!Init
<1>3. L!IInv
  BY <1>2, L!InitIInv, PrincipalAssumption, HazardAssumption,
     WeightsAssumption, NoKeyAssumption, NoLotAssumption, SameShapes
<1>4. db \in Database
  BY <1>3, SameShapes DEF L!IInv, L!TypeOK
<1>5. TypeOK
  BY <1>1, <1>4, NoReqAssumption DEF TypeOK, Idle, NoReqAssumption
<1>6. \A r \in Req : RequestOK(r)
  BY <1>1 DEF RequestOK, Idle
<1>7. QED
  BY <1>3, <1>5, <1>6 DEF TxInv

\* Every step keeps the invariant.
LEMMA NextKeepsTxInv ==
  ASSUME TxInv, [Next]_vars
  PROVE  TxInv'
<1>1. L!IInv'
  BY DatabaseStep, LifecycleKept DEF TxInv
<1>2. TypeOK' /\ \A s \in Req : RequestOK(s)'
  <2>1. CASE UNCHANGED vars
    BY <2>1 DEF vars, TxInv, TypeOK, RequestOK
  <2>2. ASSUME NEW r \in Req, NEW c \in Call, Submit(r, c)
        PROVE  TypeOK' /\ \A s \in Req : RequestOK(s)'
    BY <2>2, SubmitKeeps
  <2>3. ASSUME NEW r \in Req, Begin(r) \/ BeginFails(r) \/ Answer(r)
        PROVE  TypeOK' /\ \A s \in Req : RequestOK(s)'
    BY <2>3, BeginKeeps, BeginFailsKeeps, AnswerKeeps
  <2>4. ASSUME NEW r \in Req, Statement(r) \/ StatementFails(r)
        PROVE  TypeOK' /\ \A s \in Req : RequestOK(s)'
    BY <2>4, StatementDoes, ContinuesKeeps, EndKeeps
  <2>5. ASSUME NEW r \in Req, CommitFails(r)
        PROVE  TypeOK' /\ \A s \in Req : RequestOK(s)'
    <3>1. EndsWith(r, "internal")
      BY <2>5 DEF CommitFails, EndsWith, Reply
    <3>2. QED
      BY <3>1, EndKeeps
  <2>6. ASSUME NEW r \in Req, Commit(r) \/ CommitUnsure(r)
        PROVE  TypeOK' /\ \A s \in Req : RequestOK(s)'
    BY <2>6, CommitKeeps
  <2>7. CASE Crash
    BY <2>7, CrashKeeps
  <2>8. QED
    BY <2>1, <2>2, <2>3, <2>4, <2>5, <2>6, <2>7 DEF Next
<1>3. QED
  BY <1>1, <1>2 DEF TxInv

----------------------------------------------------------------------------
(* The theorems *)

\* The invariant above: wherever a transaction stands, its image is the
\* database with exactly the statements it has executed (withTx, the operations
\* of the lifecycle service).
THEOREM TxInvariance == Spec => []TxInv
<1>1. TxInv /\ [Next]_vars => TxInv'
  BY NextKeepsTxInv
<1>2. QED
  BY <1>1, InitTxInv, PTL DEF Spec

\* The connection is held by exactly the request whose transaction is open.
THEOREM TxTypeCorrect == Spec => []TypeOK
<1>1. TxInv => TypeOK
  BY DEF TxInv
<1>2. QED
  BY <1>1, TxInvariance, PTL

\* A success is only ever reported for what is in the database, and stays there
\* whatever fails or crashes afterwards.
THEOREM SuccessDurable == Spec => []SuccessIsDurable
<1>1. TxInv => SuccessIsDurable
  BY DEF TxInv, RequestOK, Durable, SuccessIsDurable
<1>2. QED
  BY <1>1, TxInvariance, PTL

\* Every transaction is one step of Lifecycle, or none: the service implements
\* the specification in which each operation is atomic.
THEOREM Implements == Spec => Atomic
<1>1. Init => Abstract!Init
  BY SameShapes DEF Init, Abstract!Init
<1>2. TxInv /\ [Next]_vars => [Abstract!Next]_(Abstract!vars)
  BY DatabaseStep, SameNext DEF Abstract!vars
<1>3. QED
  BY <1>1, <1>2, TxInvariance, PTL DEF Spec, Atomic, Abstract!Spec

\* An operation that ends in a conflict, or finds no lot, has not found its key
\* stored: a recovery that is repeated after a lost answer gets its answer.
LEMMA RefusedHasFreeKey ==
  ASSUME TxInv, NEW r \in Req, Statement(r) \/ StatementFails(r),
         req[r].pc = "running", req'[r].pc = "answering",
         req'[r].reply \in {"conflict", "notfound", "invalid"},
         req[r].call.op = "recover", req[r].call.key # NoKey, ~req[r].degraded
  PROVE  db.idempotency[req[r].call.p.tenant][req[r].call.key] = NoLot
<1> DEFINE q == req[r]
           c == q.call
<1>1. KeyedRecoverAt(q, db, image[r])
  BY OpenTransaction DEF TransactionAt
<1>2. q.todo # <<>> /\ q \in Active
  BY OpenTransaction DEF Statement, StatementFails, GetLot, QueryReservation,
     QueryCertificate, QueryIdempotency, ExecUpdateLotState, ExecInsertLot,
     ExecInsertInspection, ExecInsertReservation, ExecInsertRecovery,
     ExecInsertCertificate, ExecSaveIdempotency, ExecInsertOutbox,
     ExecInsertAudit, At
<1>3. CASE LookedUpAt(q, db, image[r]) \/ SavedAt(q, db, image[r])
  BY <1>3 DEF LookedUpAt, SavedAt, KeyUnique
<1>4. CASE Head(q.todo) = "GetIdempotency"
  <2>1. QueryIdempotency(r) \/ StatementFails(r)
    BY <1>4 DEF Statement, GetLot, QueryReservation, QueryCertificate,
       ExecUpdateLotState, ExecInsertLot, ExecInsertInspection,
       ExecInsertReservation, ExecInsertRecovery, ExecInsertCertificate,
       ExecSaveIdempotency, ExecInsertOutbox, ExecInsertAudit, At
  <2>2. CASE QueryIdempotency(r)
    <3>1. req'[r].pc = "running"
      BY <2>2, QueryIdempotencyDoes DEF Continues
    <3>2. QED
      BY <3>1
  <2>3. CASE StatementFails(r)
    <3>1. req' = [req EXCEPT ![r].todo = Tail(@), ![r].degraded = TRUE]
      BY <1>4, <2>3 DEF StatementFails
    <3>2. req'[r].pc = "running"
      BY <1>2, <3>1 DEF TxInv, TypeOK, Active
    <3>3. QED
      BY <3>2
  <2>4. QED
    BY <2>1, <2>2, <2>3
<1>5. QED
  BY <1>1, <1>2, <1>3, <1>4 DEF KeyedRecoverAt, Replays

\* A recovery under a key whose first attempt was committed is answered, not
\* refused as a conflict (RecordRecovery with an idempotency key).
THEOREM RetryAnswered == Spec => RetryIsAnswered
<1> DEFINE Refused(r) ==
             /\ req[r].pc = "running" /\ req'[r].pc = "answering"
             /\ req'[r].reply \in {"conflict", "notfound", "invalid"}
             /\ req[r].call.op = "recover" /\ req[r].call.key # NoKey
             /\ ~req[r].degraded
           Free(r) ==
             db.idempotency[req[r].call.p.tenant][req[r].call.key] = NoLot
<1>1. ASSUME TxInv, Next, NEW r \in Req, Refused(r)
      PROVE  Free(r)
  <2>1. TypeOK /\ req[r] \in Active
    BY <1>1, Busy DEF TxInv
  <2>2. ~Crash
    BY <1>1 DEF Crash, Idle
  <2>3. PICK s \in Req :
          \/ \E c \in Call : Submit(s, c)
          \/ Begin(s) \/ BeginFails(s)
          \/ Statement(s) \/ StatementFails(s)
          \/ Commit(s) \/ CommitFails(s) \/ CommitUnsure(s)
          \/ Answer(s)
    BY <1>1, <2>2 DEF Next
  <2>4. CASE Statement(s) \/ StatementFails(s)
    <3>1. \A t \in Req : t # s => req'[t] = req[t]
      <4>1. CASE Continues(s)
        BY <4>1 DEF Continues, Only, OthersWait
      <4>2. CASE \E kind : EndsWith(s, kind)
        BY <2>1, <4>2 DEF EndsWith, Rollback, TypeOK
      <4>3. QED
        BY <1>1, <2>4, <4>1, <4>2, StatementDoes
    <3>2. s = r
      BY <1>1, <3>1
    <3>3. QED
      BY <1>1, <2>4, <3>2, RefusedHasFreeKey
  <2>5. CASE Commit(s) \/ CommitFails(s) \/ CommitUnsure(s)
    <3>1. req'[s].reply \in {"ok", "internal"} /\ (s # r => req'[r] = req[r])
      <4>1. req[s] \in Active
        BY <2>1, <2>5, Busy DEF Commit, CommitFails, CommitUnsure
      <4>2. QED
        BY <2>1, <2>5, <4>1 DEF Commit, CommitFails, CommitUnsure, Rollback, TypeOK,
                                     Active
    <3>2. QED
      BY <1>1, <3>1
  <2>6. CASE \/ \E c \in Call : Submit(s, c)
             \/ Begin(s) \/ BeginFails(s) \/ Answer(s)
    <3>1. req[s].pc # "running" /\ (s # r => req'[r] = req[r])
      BY <2>1, <2>6 DEF Submit, Begin, BeginFails, Answer, TypeOK, Idle
    <3>2. QED
      BY <1>1, <3>1
  <2>7. QED
    BY <2>3, <2>4, <2>5, <2>6
<1>2. TxInv /\ [Next]_vars => [\A r \in Req : Refused(r) => Free(r)]_vars
  BY <1>1
<1>3. QED
  BY <1>2, TxInvariance, PTL DEF Spec, RetryIsAnswered
============================================================================
