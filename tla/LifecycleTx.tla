---------------------------- MODULE LifecycleTx ----------------------------
(***************************************************************************)
(* The lot service as it runs: requests that compete for the one database  *)
(* connection, each transaction a sequence of statements on a private      *)
(* image of the database, refused or failed and rolled back, or committed; *)
(* answers that may be lost, clients that ask again, and a server that     *)
(* crashes.  Source: service/lifecycle.go on storage/sqlite/store.go       *)
(* (WithTx, SetMaxOpenConns(1)).                                           *)
(***************************************************************************)
EXTENDS Store

CONSTANTS
  Req,       \* the requests that are in flight at the same time
  NoReq,     \* nobody holds the connection
  NoImage    \* no open transaction

ASSUME NoReqAssumption == NoReq \notin Req
ASSUME NoImageAssumption == NoImage \notin Database

VARIABLES
  db,        \* the committed database
  conn,      \* the request that holds the connection, or NoReq
  image,     \* image[r]: the database as the open transaction of r sees it
  req        \* req[r]: what the server is doing for r

vars == <<db, conn, image, req>>

\* The calls a client can make.  wellFormed says that the chemistry normalises
\* to a supported one and the code is not empty.
Call ==
  [op : {"intake"}, p : Principal, lot : Lot, code : Code, hazard : Hazard,
   wellFormed : BOOLEAN]
  \cup [op : {"inspect"}, p : Principal, lot : Lot, result : Result]
  \cup [op : {"reserve", "dismantle", "certify"}, p : Principal, lot : Lot]
  \cup [op : {"recover"}, p : Principal, lot : Lot, grams : Weights,
        key : KeyOrNone]

\* The permission each operation asks for.
Permission(op) ==
  CASE op = "dismantle" -> "reserve" [] OTHER -> op

\* The statements, named after the methods of the store.
StatementName ==
  {"GetLot", "ActiveReservation", "FindCertificate", "GetIdempotency",
   "UpdateLotState", "InsertLot", "InsertInspection", "InsertReservation",
   "InsertRecovery", "InsertCertificate", "SaveIdempotency", "InsertOutbox",
   "InsertAudit"}

\* The statements of each transaction, in order.
Program(c) ==
  CASE c.op = "intake"    -> <<"InsertLot", "InsertAudit">>
    [] c.op = "inspect"   -> <<"GetLot", "UpdateLotState", "InsertInspection",
                               "InsertAudit">>
    [] c.op = "reserve"   -> <<"GetLot", "ActiveReservation",
                               "InsertReservation", "UpdateLotState",
                               "InsertAudit">>
    [] c.op = "dismantle" -> <<"GetLot", "ActiveReservation", "UpdateLotState",
                               "InsertAudit">>
    [] c.op = "recover"   ->
         IF c.key = NoKey
           THEN <<"GetLot", "InsertRecovery", "UpdateLotState", "InsertOutbox",
                  "InsertAudit">>
           ELSE <<"GetIdempotency", "GetLot", "InsertRecovery",
                  "UpdateLotState", "SaveIdempotency", "InsertOutbox",
                  "InsertAudit">>
    [] c.op = "certify"   -> <<"GetLot", "FindCertificate", "InsertCertificate",
                               "UpdateLotState", "InsertAudit">>

\* The state an operation leads to, and its audit event.
Target(c) ==
  CASE c.op = "inspect"   -> InspectionTarget(c.result)
    [] c.op = "reserve"   -> "reserved"
    [] c.op = "dismantle" -> "dismantling"
    [] c.op = "recover"   -> "recovered"
    [] c.op = "certify"   -> "certified"

AuditOf(c) ==
  CASE c.op = "inspect"   -> [action |-> "inspection", result |-> c.result]
    [] c.op = "dismantle" -> [action |-> "dismantling", result |-> "started"]
    [] c.op = "certify"   -> [action |-> "certificate", result |-> "issued"]
    [] c.op = "reserve"   -> [action |-> c.op, result |-> "station"]
    [] c.op = "recover"   -> [action |-> c.op, result |-> "confirmed"]
    [] c.op = "intake"    -> [action |-> c.op, result |-> "success"]

\* What the service says of a lot it has just read: "ok" to go on, or the kind
\* of the error it returns.
Verdict(c, lot) ==
  CASE c.op = "inspect"   -> IF CanInspect(lot) THEN "ok" ELSE "conflict"
    [] c.op = "reserve"   -> IF CanReserve(lot) THEN "ok" ELSE "conflict"
    [] c.op = "dismantle" -> IF lot.state = "reserved" THEN "ok" ELSE "conflict"
    [] c.op = "recover"   -> IF ~CanRecover(lot) THEN "conflict"
                             ELSE IF ~WeightsValid(c.grams) THEN "invalid"
                             ELSE "ok"
    [] c.op = "certify"   -> IF CanCertify(lot) THEN "ok" ELSE "conflict"

Reply == {"none", "ok", "forbidden", "invalid", "notfound", "conflict",
          "internal"}

\* A request nobody has made yet.
Idle == [pc |-> "idle"]

\* pc        waiting for the connection, running statements, or answering
\* todo      the statements left to run; none left: about to commit
\* seen      the lot row GetLot returned
\* out       the lot whose recovery is the answer to a recover
\* degraded  an error of a query was taken for "no such row"
Active == [pc : {"waiting", "running", "answering"}, call : Call,
           todo : Seq(StatementName), seen : LotRow \cup {NoLot},
           out : Lot \cup {NoLot}, degraded : BOOLEAN, reply : Reply]

----------------------------------------------------------------------------
(* Parts of steps *)

At(r, stmt) == req[r].pc = "running" /\ req[r].todo # <<>>
               /\ Head(req[r].todo) = stmt

\* The statement succeeds and leaves database d to the transaction.
Advance(r, d) ==
  /\ image' = [image EXCEPT ![r] = d]
  /\ req' = [req EXCEPT ![r].todo = Tail(@)]
  /\ UNCHANGED <<db, conn>>

\* A mutant of Rollback: the connection is not given back.
RollbackLeaksConnection(r, kind) ==
  /\ conn' = conn
  /\ image' = [image EXCEPT ![r] = NoImage]
  /\ req' = [req EXCEPT ![r].pc = "answering", ![r].reply = kind,
                       ![r].todo = <<>>, ![r].seen = NoLot]
  /\ UNCHANGED db

\* A mutant of Rollback: what the transaction wrote stays.
RollbackKeepsWrites(r, kind) ==
  /\ db' = image[r]
  /\ conn' = NoReq
  /\ image' = [image EXCEPT ![r] = NoImage]
  /\ req' = [req EXCEPT ![r].pc = "answering", ![r].reply = kind,
                       ![r].todo = <<>>, ![r].seen = NoLot]

\* WithTx: the function or the commit returned an error.
Rollback(r, kind) ==
  /\ conn' = NoReq
  /\ image' = [image EXCEPT ![r] = NoImage]
  /\ req' = [req EXCEPT ![r].pc = "answering", ![r].reply = kind,
                       ![r].todo = <<>>, ![r].seen = NoLot]
  /\ UNCHANGED db

----------------------------------------------------------------------------
(* A request arrives, waits for the connection, and begins *)

\* The checks that need no database come first and answer at once.
Submit(r, c) ==
  /\ req[r] = Idle
  /\ LET early == IF ~Can(c.p, Permission(c.op)) THEN "forbidden"
                  ELSE IF c.op = "intake" /\ ~c.wellFormed THEN "invalid"
                  ELSE "none"
     IN  req' = [req EXCEPT ![r] =
                   [pc |-> IF early = "none" THEN "waiting" ELSE "answering",
                    call |-> c, todo |-> Program(c), seen |-> NoLot,
                    out |-> NoLot, degraded |-> FALSE, reply |-> early]]
  /\ UNCHANGED <<db, conn, image>>

\* BeginTx takes the only connection.
Begin(r) ==
  /\ req[r].pc = "waiting"
  /\ conn = NoReq
  /\ conn' = r
  /\ image' = [image EXCEPT ![r] = db]
  /\ req' = [req EXCEPT ![r].pc = "running"]
  /\ UNCHANGED db

\* The context of the request ends while it waits, or BEGIN fails.
BeginFails(r) ==
  /\ req[r].pc = "waiting"
  /\ req' = [req EXCEPT ![r].pc = "answering", ![r].reply = "internal"]
  /\ UNCHANGED <<db, conn, image>>

----------------------------------------------------------------------------
(* The statements, one action each *)

GetLot(r) ==
  LET c == req[r].call
      lot == image[r].lots[c.lot]
  IN  /\ At(r, "GetLot")
      /\ IF ~LotFound(image[r], c.lot, c.p.tenant) THEN Rollback(r, "notfound")
         ELSE IF Verdict(c, lot) # "ok" THEN Rollback(r, Verdict(c, lot))
         ELSE /\ req' = [req EXCEPT ![r].todo = Tail(@), ![r].seen = lot]
              /\ UNCHANGED <<db, conn, image>>

\* Reserve wants none, BeginDismantling wants one.
QueryReservation(r) ==
  LET c == req[r].call
      found == ActiveReservation(image[r], c.lot, c.p.tenant)
  IN  /\ At(r, "ActiveReservation")
      /\ IF found = (c.op = "dismantle") THEN Advance(r, image[r])
                                         ELSE Rollback(r, "conflict")

QueryCertificate(r) ==
  LET c == req[r].call
  IN  /\ At(r, "FindCertificate")
      /\ IF FindCertificate(image[r], c.lot, c.p.tenant)
           THEN Rollback(r, "conflict")
           ELSE Advance(r, image[r])

\* A mutant of QueryIdempotency: the key is never found.
QueryIdempotencyNeverFound(r) ==
  /\ At(r, "GetIdempotency")
  /\ Advance(r, image[r])

\* A stored response ends the transaction: it commits without a write.
QueryIdempotency(r) ==
  LET c == req[r].call
      stored == GetIdempotency(image[r], c.p.tenant, c.key)
  IN  /\ At(r, "GetIdempotency")
      /\ IF stored = NoLot
           THEN Advance(r, image[r])
           ELSE /\ req' = [req EXCEPT ![r].todo = <<>>, ![r].out = stored]
                /\ UNCHANGED <<db, conn, image>>

\* WHERE id=? AND tenant_id=? AND version=?: no row, no update.
ExecUpdateLotState(r) ==
  LET c == req[r].call
      d == image[r]
  IN  /\ At(r, "UpdateLotState")
      /\ IF /\ LotFound(d, c.lot, c.p.tenant)
            /\ d.lots[c.lot].version = req[r].seen.version
           THEN Advance(r, UpdateLotState(d, c.lot, Target(c)))
           ELSE Rollback(r, "conflict")

\* A duplicate code is a constraint error, which no kind describes.
ExecInsertLot(r) ==
  LET c == req[r].call
  IN  /\ At(r, "InsertLot")
      /\ IF LotUnique(image[r], c.lot, c.p.tenant, c.code)
           THEN Advance(r, InsertLot(image[r], c.lot,
                  [tenant |-> c.p.tenant, code |-> c.code,
                   hazard |-> c.hazard, state |-> "received", version |-> 1]))
           ELSE Rollback(r, "internal")

ExecInsertInspection(r) ==
  LET c == req[r].call
  IN  /\ At(r, "InsertInspection")
      /\ Advance(r, InsertInspection(image[r], c.lot, c.p.tenant, c.result))

ExecInsertReservation(r) ==
  LET c == req[r].call
  IN  /\ At(r, "InsertReservation")
      /\ Advance(r, InsertReservation(image[r], c.lot, c.p.tenant))

ExecInsertRecovery(r) ==
  LET c == req[r].call
  IN  /\ At(r, "InsertRecovery")
      /\ image' = [image EXCEPT
           ![r] = InsertRecovery(@, c.lot, c.p.tenant, c.grams)]
      /\ req' = [req EXCEPT ![r].todo = Tail(@), ![r].out = c.lot]
      /\ UNCHANGED <<db, conn>>

ExecInsertCertificate(r) ==
  LET c == req[r].call
      serial == Serial(req[r].seen.code)
  IN  /\ At(r, "InsertCertificate")
      /\ IF SerialUnique(image[r], c.p.tenant, serial)
           THEN Advance(r, InsertCertificate(image[r], c.lot, c.p.tenant, serial))
           ELSE Rollback(r, "internal")

ExecSaveIdempotency(r) ==
  LET c == req[r].call
  IN  /\ At(r, "SaveIdempotency")
      /\ IF KeyUnique(image[r], c.p.tenant, c.key)
           THEN Advance(r, SaveIdempotency(image[r], c.p.tenant, c.key, c.lot))
           ELSE Rollback(r, "internal")

ExecInsertOutbox(r) ==
  LET c == req[r].call
  IN  /\ At(r, "InsertOutbox")
      /\ Advance(r, InsertOutbox(image[r], c.lot, c.p.tenant))

ExecInsertAudit(r) ==
  LET c == req[r].call
  IN  /\ At(r, "InsertAudit")
      /\ Advance(r, InsertAudit(image[r], c.lot, c.p.tenant,
                                AuditOf(c).action, AuditOf(c).result))

Statement(r) ==
  \/ GetLot(r) \/ QueryReservation(r) \/ QueryCertificate(r)
  \/ QueryIdempotency(r) \/ ExecUpdateLotState(r) \/ ExecInsertLot(r)
  \/ ExecInsertInspection(r) \/ ExecInsertReservation(r)
  \/ ExecInsertRecovery(r) \/ ExecInsertCertificate(r)
  \/ ExecSaveIdempotency(r) \/ ExecInsertOutbox(r) \/ ExecInsertAudit(r)

\* Any statement can fail: the context ended, or the driver reports an error.
\* Three queries take every error for "no row" and go on; BeginDismantling
\* turns one into a conflict; all others return it.
StatementFails(r) ==
  /\ req[r].pc = "running" /\ req[r].todo # <<>>
  /\ LET stmt == Head(req[r].todo)
         op == req[r].call.op
     IN  IF \/ stmt \in {"GetIdempotency", "FindCertificate"}
            \/ stmt = "ActiveReservation" /\ op = "reserve"
           THEN /\ req' = [req EXCEPT ![r].todo = Tail(@),
                                      ![r].degraded = TRUE]
                /\ UNCHANGED <<db, conn, image>>
           ELSE Rollback(r, IF stmt = "ActiveReservation" THEN "conflict"
                                                          ELSE "internal")

----------------------------------------------------------------------------
(* The end of a transaction *)

Commit(r) ==
  /\ req[r].pc = "running" /\ req[r].todo = <<>>
  /\ db' = image[r]
  /\ conn' = NoReq
  /\ image' = [image EXCEPT ![r] = NoImage]
  /\ req' = [req EXCEPT ![r].pc = "answering", ![r].reply = "ok",
                       ![r].seen = NoLot]

\* A mutant of CommitFails: WithTx does not return the error of Commit.
CommitErrorIgnored(r) ==
  /\ req[r].pc = "running" /\ req[r].todo = <<>>
  /\ Rollback(r, "ok")

\* The commit fails, and nothing of it is applied.
CommitFails(r) ==
  /\ req[r].pc = "running" /\ req[r].todo = <<>>
  /\ Rollback(r, "internal")

\* The commit is applied and reports an error all the same: WithTx cannot tell
\* it from the other.
CommitUnsure(r) ==
  /\ req[r].pc = "running" /\ req[r].todo = <<>>
  /\ db' = image[r]
  /\ conn' = NoReq
  /\ image' = [image EXCEPT ![r] = NoImage]
  /\ req' = [req EXCEPT ![r].pc = "answering", ![r].reply = "internal",
                       ![r].seen = NoLot]

\* The response is written; whether the client gets it or asks again, the
\* server has forgotten the request.
Answer(r) ==
  /\ req[r].pc = "answering"
  /\ req' = [req EXCEPT ![r] = Idle]
  /\ UNCHANGED <<db, conn, image>>

\* The process dies: open transactions and requests are gone, SQLite's journal
\* leaves what was committed.
Crash ==
  /\ conn' = NoReq
  /\ image' = [r \in Req |-> NoImage]
  /\ req' = [r \in Req |-> Idle]
  /\ UNCHANGED db

----------------------------------------------------------------------------
Init ==
  /\ db = EmptyDatabase
  /\ conn = NoReq
  /\ image = [r \in Req |-> NoImage]
  /\ req = [r \in Req |-> Idle]

Next ==
  \/ \E r \in Req :
       \/ \E c \in Call : Submit(r, c)
       \/ Begin(r) \/ BeginFails(r)
       \/ Statement(r) \/ StatementFails(r)
       \/ Commit(r) \/ CommitFails(r) \/ CommitUnsure(r)
       \/ Answer(r)
  \/ Crash

\* A goroutine that can run does run, so every statement ends in one of its two
\* ways; the pool hands the free connection to the waiting requests in an order
\* that leaves none out for ever.
Fairness ==
  \A r \in Req : /\ WF_vars(Statement(r) \/ StatementFails(r))
                 /\ WF_vars(Commit(r) \/ CommitFails(r) \/ CommitUnsure(r))
                 /\ WF_vars(Answer(r))
                 /\ SF_vars(Begin(r))

Spec == Init /\ [][Next]_vars

FairSpec == Spec /\ Fairness

----------------------------------------------------------------------------
(* Properties *)

\* Shapes, and who holds the connection: exactly the request whose transaction
\* is open.
TypeOK ==
  /\ db \in Database
  /\ conn \in Req \cup {NoReq}
  /\ image \in [Req -> Database \cup {NoImage}]
  /\ req \in [Req -> Active \cup {Idle}]
  /\ \A r \in Req : /\ conn = r <=> req[r].pc = "running"
                    /\ conn = r <=> image[r] # NoImage

\* A success is only ever reported for what is in the database, whatever failed
\* or crashed before: the operation's effect on its lot, and for a recovery the
\* balance that is returned, stored under the caller's own key.
SuccessIsDurable ==
  \A r \in Req :
    req[r].pc = "answering" /\ req[r].reply = "ok" =>
      LET c == req[r].call
          id == IF c.op = "recover" THEN req[r].out ELSE c.lot
      IN  /\ id # NoLot
          /\ LotFound(db, id, c.p.tenant)
          /\ \E i \in 1..Len(db.audit[id]) :
               db.audit[id][i].action = AuditOf(c).action
          /\ c.op = "recover" =>
               /\ Len(db.recoveries[id]) > 0
               /\ c.key # NoKey => db.idempotency[c.p.tenant][c.key] = id

\* A client that repeats a recovery whose first answer it never saw gets that
\* answer: a key that is stored never leads to a conflict, unless the lookup of
\* the key itself failed.
RetryIsAnswered ==
  [][\A r \in Req :
       /\ req[r].pc = "running" /\ req'[r].pc = "answering"
       /\ req'[r].reply \in {"conflict", "notfound", "invalid"}
       /\ req[r].call.op = "recover" /\ req[r].call.key # NoKey
       /\ ~req[r].degraded
       => db.idempotency[req[r].call.p.tenant][req[r].call.key] = NoLot]_vars

\* Every request ends: the connection is given back on every path, so nobody
\* waits for it for ever.
EveryRequestEnds ==
  \A r \in Req : (req[r] # Idle) ~> (req[r] = Idle)

\* Each transaction is one atomic step of the lifecycle, or none at all.
Abstract == INSTANCE Lifecycle WITH db <- db
Atomic == Abstract!Spec
============================================================================
