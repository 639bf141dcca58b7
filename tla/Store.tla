------------------------------- MODULE Store -------------------------------
(***************************************************************************)
(* The database of internal/storage/sqlite: the tables the lot lifecycle   *)
(* reads and writes (migrations/001_initial.sql) and, for each statement,  *)
(* when it succeeds and the database it leaves.  A database is a record    *)
(* with one field per table; every statement is an operator on such a      *)
(* record, so that the atomic specification (Lifecycle) applies it to the  *)
(* committed database and the transactional one (LifecycleTx) to the       *)
(* private image of an open transaction.                                   *)
(*                                                                         *)
(* Rows of the child tables are kept per lot, in insertion order.  Row ids *)
(* are random tokens that nothing compares and are left out, times too.    *)
(***************************************************************************)
EXTENDS Battery, Sequences

CONSTANTS
  Lot,       \* the ids lots can get
  Tenant,    \* the tenants
  Principal, \* the people: a tenant and a role each
  Code,      \* the lot codes tenants use
  Hazard,    \* the hazard scores of lots
  Result,    \* what inspectors report: any string, not only the known ones
  Weights,   \* the (lithium, nickel, cobalt) triples of recovery requests
  Key,       \* the idempotency keys of clients
  NoLot,     \* no row
  NoKey      \* the empty idempotency key

\* operators.role is free text.
ASSUME PrincipalAssumption ==
  \A p \in Principal : p.tenant \in Tenant /\ p.role \in STRING
ASSUME HazardAssumption == Hazard \subseteq Int
ASSUME WeightsAssumption == Weights \subseteq Int \X Int \X Int
ASSUME NoKeyAssumption == NoKey \notin Key

\* The Idempotency-Key header of a request, which may be missing.
KeyOrNone == Key \cup {NoKey}

LotRow == [tenant : Tenant, code : Code, hazard : Hazard,
           state : State, version : Nat]

ASSUME NoLotAssumption == NoLot \notin LotRow /\ NoLot \notin Lot

\* fmt.Sprintf("DC-%s", lot.Code): injective in the code, blind to the tenant.
Serial(code) == <<"DC", code>>

AuditAction == {"intake", "inspection", "reserve", "dismantling", "recover",
                "certificate"}

\* A reservation's result is the name of its station; names are not told apart.
AuditResult ==
  Result \cup {"success", "station", "started", "confirmed", "issued"}

Database ==
  [lots         : [Lot -> LotRow \cup {NoLot}],
   inspections  : [Lot -> Seq([tenant : Tenant, result : Result])],
   reservations : [Lot -> Seq([tenant : Tenant])],
   recoveries   : [Lot -> Seq([tenant : Tenant, grams : Weights])],
   certificates : [Lot -> Seq([tenant : Tenant, serial : {Serial(c) : c \in Code}])],
   audit        : [Lot -> Seq([tenant : Tenant, action : AuditAction,
                               result : AuditResult])],
   idempotency  : [Tenant -> [Key -> Lot \cup {NoLot}]],
   outbox       : [Lot -> Seq([tenant : Tenant])]]

EmptyDatabase ==
  [lots         |-> [l \in Lot |-> NoLot],
   inspections  |-> [l \in Lot |-> <<>>],
   reservations |-> [l \in Lot |-> <<>>],
   recoveries   |-> [l \in Lot |-> <<>>],
   certificates |-> [l \in Lot |-> <<>>],
   audit        |-> [l \in Lot |-> <<>>],
   idempotency  |-> [t \in Tenant |-> [k \in Key |-> NoLot]],
   outbox       |-> [l \in Lot |-> <<>>]]

----------------------------------------------------------------------------
(* Queries *)

\* GetLot finds a row: WHERE id=? AND tenant_id=?.
LotFound(d, id, tenant) ==
  d.lots[id] # NoLot /\ d.lots[id].tenant = tenant

\* ActiveReservation finds a row.  No statement of the program ever sets
\* released_at, so every reservation of the lot is an active one.
ActiveReservation(d, id, tenant) ==
  \E i \in 1..Len(d.reservations[id]) : d.reservations[id][i].tenant = tenant

FindCertificate(d, id, tenant) ==
  \E i \in 1..Len(d.certificates[id]) : d.certificates[id][i].tenant = tenant

\* The stored response is the recovery; the lot it is of identifies it.
GetIdempotency(d, tenant, key) == d.idempotency[tenant][key]

----------------------------------------------------------------------------
(* Constraints that make an insert fail *)

\* A mutant of LotUnique: UNIQUE(tenant_id, code) is missing.
LotUniqueById(d, id, tenant, code) == d.lots[id] = NoLot

\* lots: PRIMARY KEY id (a fresh random token) and UNIQUE(tenant_id, code).
LotUnique(d, id, tenant, code) ==
  /\ d.lots[id] = NoLot
  /\ \A o \in Lot :
       d.lots[o] # NoLot => ~(d.lots[o].tenant = tenant /\ d.lots[o].code = code)

\* certificates.serial UNIQUE: over the certificates of every tenant.
SerialUnique(d, tenant, serial) ==
  \A o \in Lot : \A i \in 1..Len(d.certificates[o]) :
    d.certificates[o][i].serial # serial

\* idempotency_keys: PRIMARY KEY(tenant_id, key, operation).
KeyUnique(d, tenant, key) == d.idempotency[tenant][key] = NoLot

----------------------------------------------------------------------------
(* Updates *)

InsertLot(d, id, lot) == [d EXCEPT !.lots[id] = lot]

\* The row that matched WHERE id=? AND tenant_id=? AND version=?.
UpdateLotState(d, id, state) ==
  [d EXCEPT !.lots[id].state = state, !.lots[id].version = @ + 1]

InsertInspection(d, id, tenant, result) ==
  [d EXCEPT !.inspections[id] =
     Append(@, [tenant |-> tenant, result |-> result])]

\* A mutant of InsertReservation: the row is not written.
SkipReservation(d, id, tenant) == d

InsertReservation(d, id, tenant) ==
  [d EXCEPT !.reservations[id] = Append(@, [tenant |-> tenant])]

InsertRecovery(d, id, tenant, grams) ==
  [d EXCEPT !.recoveries[id] =
     Append(@, [tenant |-> tenant, grams |-> grams])]

InsertCertificate(d, id, tenant, serial) ==
  [d EXCEPT !.certificates[id] =
     Append(@, [tenant |-> tenant, serial |-> serial])]

InsertAudit(d, id, tenant, action, result) ==
  [d EXCEPT !.audit[id] =
     Append(@, [tenant |-> tenant, action |-> action, result |-> result])]

\* A mutant of SaveIdempotency: every tenant shares one key space.
SaveIdempotencyAllTenants(d, tenant, key, id) ==
  [d EXCEPT !.idempotency = [t \in Tenant |-> [@[t] EXCEPT ![key] = id]]]

\* Only Recover saves keys: the operation column is always "recover".
SaveIdempotency(d, tenant, key, id) ==
  [d EXCEPT !.idempotency[tenant][key] = id]

\* The event is written pending; module Outbox takes it from there.
InsertOutbox(d, id, tenant) ==
  [d EXCEPT !.outbox[id] = Append(@, [tenant |-> tenant])]
============================================================================
