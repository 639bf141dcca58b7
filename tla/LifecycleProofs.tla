-------------------------- MODULE LifecycleProofs --------------------------
(***************************************************************************)
(* Proofs about Lifecycle, for any sets of lots, tenants, codes, keys and  *)
(* inputs.  The argument: IInv, which explains every row about a lot by    *)
(* the state the lot is in, is preserved by every transaction, and implies *)
(* the safety properties.  It begins with what every statement of Store    *)
(* leaves: a well-formed database, the change it is for in one lot's rows, *)
(* and all else as it was.                                                 *)
(***************************************************************************)
EXTENDS Lifecycle, TLAPS

----------------------------------------------------------------------------
(* What each statement changes *)

\* The shape of each table, one fact each.
LEMMA TableTypes ==
  ASSUME NEW d \in Database
  PROVE  /\ d.lots \in [Lot -> LotRow \cup {NoLot}]
         /\ d.inspections \in [Lot -> Seq([tenant : Tenant, result : Result])]
         /\ d.reservations \in [Lot -> Seq([tenant : Tenant])]
         /\ d.recoveries \in [Lot -> Seq([tenant : Tenant, grams : Weights])]
         /\ d.certificates \in [Lot -> Seq([tenant : Tenant,
                                            serial : {Serial(c) : c \in Code}])]
         /\ d.audit \in [Lot -> Seq([tenant : Tenant, action : AuditAction,
                                     result : AuditResult])]
         /\ d.idempotency \in [Tenant -> [Key -> Lot \cup {NoLot}]]
         /\ d.outbox \in [Lot -> Seq([tenant : Tenant])]
BY DEF Database

\* Appending a row of the right shape to one lot's rows keeps a child table
\* well formed.
LEMMA AppendRow ==
  ASSUME NEW S, NEW table \in [Lot -> Seq(S)], NEW id \in Lot, NEW row \in S
  PROVE  /\ [table EXCEPT ![id] = Append(@, row)] \in [Lot -> Seq(S)]
         /\ [table EXCEPT ![id] = Append(@, row)][id] = Append(table[id], row)
         /\ \A o \in Lot : o # id =>
              [table EXCEPT ![id] = Append(@, row)][o] = table[o]
<1>1. Append(table[id], row) \in Seq(S)
  OBVIOUS
<1>2. QED
  BY <1>1

\* InsertLot: a new row in the lots table.
LEMMA InsertLotEffect ==
  ASSUME NEW d \in Database, NEW id \in Lot, NEW lot \in LotRow
  PROVE  LET e == InsertLot(d, id, lot) IN
         /\ e \in Database
         /\ e.lots[id] = lot
         /\ \A o \in Lot : o # id => e.lots[o] = d.lots[o]
         /\ e.audit = d.audit /\ e.inspections = d.inspections
         /\ e.reservations = d.reservations /\ e.recoveries = d.recoveries
         /\ e.certificates = d.certificates /\ e.idempotency = d.idempotency
         /\ e.outbox = d.outbox
<1> DEFINE e == InsertLot(d, id, lot)
           table == [d.lots EXCEPT ![id] = lot]
<1>1. table \in [Lot -> LotRow \cup {NoLot}]
  BY TableTypes
<1>2. e = [d EXCEPT !.lots = table]
  BY DEF InsertLot, Database
<1>3. table[id] = lot /\ \A o \in Lot : o # id => table[o] = d.lots[o]
  BY TableTypes
<1> HIDE DEF table
<1>4. e \in Database
  BY <1>1, <1>2 DEF Database
<1>5. QED
  BY <1>2, <1>3, <1>4 DEF Database

\* UpdateLotState: an existing lot moves to a state, its version grows by one,
\* the rest of its row stays.
LEMMA UpdateLotStateEffect ==
  ASSUME NEW d \in Database, NEW id \in Lot, NEW s \in State,
         d.lots[id] # NoLot
  PROVE  LET e == UpdateLotState(d, id, s) IN
         /\ e \in Database
         /\ e.lots[id] # NoLot
         /\ e.lots[id].tenant = d.lots[id].tenant
         /\ e.lots[id].code = d.lots[id].code
         /\ e.lots[id].hazard = d.lots[id].hazard
         /\ e.lots[id].state = s
         /\ e.lots[id].version = d.lots[id].version + 1
         /\ \A o \in Lot : o # id => e.lots[o] = d.lots[o]
         /\ e.audit = d.audit /\ e.inspections = d.inspections
         /\ e.reservations = d.reservations /\ e.recoveries = d.recoveries
         /\ e.certificates = d.certificates /\ e.idempotency = d.idempotency
         /\ e.outbox = d.outbox
<1> DEFINE e == UpdateLotState(d, id, s)
           row == [d.lots[id] EXCEPT !.state = s,
                                     !.version = d.lots[id].version + 1]
           table == [d.lots EXCEPT ![id] = row]
<1>1. d.lots[id] \in LotRow
  BY TableTypes
<1>2. d.lots[id].version + 1 \in Nat
  BY <1>1 DEF LotRow
<1>3. row \in LotRow
  BY <1>1, <1>2 DEF LotRow
<1>4. /\ row.tenant = d.lots[id].tenant /\ row.code = d.lots[id].code
      /\ row.hazard = d.lots[id].hazard /\ row.state = s
      /\ row.version = d.lots[id].version + 1
  BY <1>1 DEF LotRow
<1>5. row # NoLot
  BY <1>3, NoLotAssumption DEF NoLotAssumption
<1>6. e = [d EXCEPT !.lots = table]
  BY <1>1 DEF UpdateLotState, Database, LotRow
<1> HIDE DEF row
<1>7. table \in [Lot -> LotRow \cup {NoLot}]
  BY <1>3, TableTypes
<1>8. table[id] = row /\ \A o \in Lot : o # id => table[o] = d.lots[o]
  BY TableTypes
<1> HIDE DEF table
<1>9. e \in Database
  BY <1>6, <1>7 DEF Database
<1>10. e.lots = table /\ e.audit = d.audit /\ e.inspections = d.inspections /\ e.reservations = d.reservations
       /\ e.recoveries = d.recoveries
       /\ e.certificates = d.certificates
       /\ e.idempotency = d.idempotency
       /\ e.outbox = d.outbox
  BY <1>6 DEF Database
<1>11. QED
  BY <1>4, <1>5, <1>8, <1>9, <1>10

\* SaveIdempotency: one key of one tenant now names the lot.
LEMMA SaveIdempotencyEffect ==
  ASSUME NEW d \in Database, NEW tenant \in Tenant, NEW key \in Key,
         NEW id \in Lot
  PROVE  LET e == SaveIdempotency(d, tenant, key, id) IN
         /\ e \in Database
         /\ \A t \in Tenant, k \in Key :
              e.idempotency[t][k] = IF t = tenant /\ k = key
                                      THEN id ELSE d.idempotency[t][k]
         /\ e.lots = d.lots /\ e.audit = d.audit
         /\ e.inspections = d.inspections /\ e.reservations = d.reservations
         /\ e.recoveries = d.recoveries /\ e.certificates = d.certificates
         /\ e.outbox = d.outbox
<1> DEFINE e == SaveIdempotency(d, tenant, key, id)
           keys == [d.idempotency[tenant] EXCEPT ![key] = id]
           table == [d.idempotency EXCEPT ![tenant] = keys]
<1>1. d.idempotency \in [Tenant -> [Key -> Lot \cup {NoLot}]]
  BY TableTypes
<1>2. keys \in [Key -> Lot \cup {NoLot}]
  BY <1>1
<1>3. \A k \in Key : keys[k] = IF k = key THEN id ELSE d.idempotency[tenant][k]
  BY <1>1
<1>4. e = [d EXCEPT !.idempotency = table]
  BY DEF SaveIdempotency, Database
<1> HIDE DEF keys
<1>5. table \in [Tenant -> [Key -> Lot \cup {NoLot}]]
  BY <1>1, <1>2
<1>6. \A t \in Tenant : table[t] = IF t = tenant THEN keys ELSE d.idempotency[t]
  BY <1>1
<1> HIDE DEF table
<1>7. e \in Database
  BY <1>4, <1>5 DEF Database
<1>8. e.idempotency = table /\ e.lots = d.lots /\ e.audit = d.audit
       /\ e.inspections = d.inspections
       /\ e.reservations = d.reservations
       /\ e.recoveries = d.recoveries
       /\ e.certificates = d.certificates
       /\ e.outbox = d.outbox
  BY <1>4 DEF Database
<1>9. \A t \in Tenant, k \in Key :
        e.idempotency[t][k] = IF t = tenant /\ k = key
                                THEN id ELSE d.idempotency[t][k]
  BY <1>3, <1>6, <1>8
<1>10. QED
  BY <1>7, <1>8, <1>9

\* InsertInspection: one more inspection of the lot.
LEMMA InsertInspectionEffect ==
  ASSUME NEW d \in Database, NEW id \in Lot, NEW tenant \in Tenant,
         NEW result \in Result
  PROVE  LET e == InsertInspection(d, id, tenant, result) IN
         /\ e \in Database
         /\ e.inspections[id] = Append(d.inspections[id],
              [tenant |-> tenant, result |-> result])
         /\ \A o \in Lot : o # id => e.inspections[o] = d.inspections[o]
         /\ e.lots = d.lots /\ e.audit = d.audit
         /\ e.reservations = d.reservations /\ e.recoveries = d.recoveries
         /\ e.certificates = d.certificates /\ e.idempotency = d.idempotency
         /\ e.outbox = d.outbox
<1> DEFINE e == InsertInspection(d, id, tenant, result)
           S == [tenant : Tenant, result : Result]
           row == [tenant |-> tenant, result |-> result]
           table == [d.inspections EXCEPT ![id] = Append(@, row)]
<1>1. row \in S
  OBVIOUS
<1>2. d.inspections \in [Lot -> Seq(S)]
  BY TableTypes
<1>3. e = [d EXCEPT !.inspections = table]
  BY DEF InsertInspection, Database
<1> HIDE DEF S, row
<1>4. /\ table \in [Lot -> Seq(S)]
      /\ table[id] = Append(d.inspections[id], row)
      /\ \A o \in Lot : o # id => table[o] = d.inspections[o]
  BY <1>1, <1>2, AppendRow
<1> HIDE DEF table
<1>5. e \in Database
  BY <1>3, <1>4 DEF Database, S
<1>6. QED
  BY <1>3, <1>4, <1>5 DEF Database, row

\* InsertReservation: one more reservation of the lot.
LEMMA InsertReservationEffect ==
  ASSUME NEW d \in Database, NEW id \in Lot, NEW tenant \in Tenant
  PROVE  LET e == InsertReservation(d, id, tenant) IN
         /\ e \in Database
         /\ e.reservations[id] = Append(d.reservations[id],
              [tenant |-> tenant])
         /\ \A o \in Lot : o # id => e.reservations[o] = d.reservations[o]
         /\ e.lots = d.lots /\ e.audit = d.audit
         /\ e.inspections = d.inspections /\ e.recoveries = d.recoveries
         /\ e.certificates = d.certificates /\ e.idempotency = d.idempotency
         /\ e.outbox = d.outbox
<1> DEFINE e == InsertReservation(d, id, tenant)
           S == [tenant : Tenant]
           row == [tenant |-> tenant]
           table == [d.reservations EXCEPT ![id] = Append(@, row)]
<1>1. row \in S
  OBVIOUS
<1>2. d.reservations \in [Lot -> Seq(S)]
  BY TableTypes
<1>3. e = [d EXCEPT !.reservations = table]
  BY DEF InsertReservation, Database
<1> HIDE DEF S, row
<1>4. /\ table \in [Lot -> Seq(S)]
      /\ table[id] = Append(d.reservations[id], row)
      /\ \A o \in Lot : o # id => table[o] = d.reservations[o]
  BY <1>1, <1>2, AppendRow
<1> HIDE DEF table
<1>5. e \in Database
  BY <1>3, <1>4 DEF Database, S
<1>6. QED
  BY <1>3, <1>4, <1>5 DEF Database, row

\* InsertRecovery: one more material balance of the lot.
LEMMA InsertRecoveryEffect ==
  ASSUME NEW d \in Database, NEW id \in Lot, NEW tenant \in Tenant,
         NEW grams \in Weights
  PROVE  LET e == InsertRecovery(d, id, tenant, grams) IN
         /\ e \in Database
         /\ e.recoveries[id] = Append(d.recoveries[id],
              [tenant |-> tenant, grams |-> grams])
         /\ \A o \in Lot : o # id => e.recoveries[o] = d.recoveries[o]
         /\ e.lots = d.lots /\ e.audit = d.audit
         /\ e.inspections = d.inspections /\ e.reservations = d.reservations
         /\ e.certificates = d.certificates /\ e.idempotency = d.idempotency
         /\ e.outbox = d.outbox
<1> DEFINE e == InsertRecovery(d, id, tenant, grams)
           S == [tenant : Tenant, grams : Weights]
           row == [tenant |-> tenant, grams |-> grams]
           table == [d.recoveries EXCEPT ![id] = Append(@, row)]
<1>1. row \in S
  OBVIOUS
<1>2. d.recoveries \in [Lot -> Seq(S)]
  BY TableTypes
<1>3. e = [d EXCEPT !.recoveries = table]
  BY DEF InsertRecovery, Database
<1> HIDE DEF S, row
<1>4. /\ table \in [Lot -> Seq(S)]
      /\ table[id] = Append(d.recoveries[id], row)
      /\ \A o \in Lot : o # id => table[o] = d.recoveries[o]
  BY <1>1, <1>2, AppendRow
<1> HIDE DEF table
<1>5. e \in Database
  BY <1>3, <1>4 DEF Database, S
<1>6. QED
  BY <1>3, <1>4, <1>5 DEF Database, row

\* InsertCertificate: one more certificate of the lot.
LEMMA InsertCertificateEffect ==
  ASSUME NEW d \in Database, NEW id \in Lot, NEW tenant \in Tenant,
         NEW serial \in {Serial(c) : c \in Code}
  PROVE  LET e == InsertCertificate(d, id, tenant, serial) IN
         /\ e \in Database
         /\ e.certificates[id] = Append(d.certificates[id],
              [tenant |-> tenant, serial |-> serial])
         /\ \A o \in Lot : o # id => e.certificates[o] = d.certificates[o]
         /\ e.lots = d.lots /\ e.audit = d.audit
         /\ e.inspections = d.inspections /\ e.reservations = d.reservations
         /\ e.recoveries = d.recoveries /\ e.idempotency = d.idempotency
         /\ e.outbox = d.outbox
<1> DEFINE e == InsertCertificate(d, id, tenant, serial)
           S == [tenant : Tenant, serial : {Serial(c) : c \in Code}]
           row == [tenant |-> tenant, serial |-> serial]
           table == [d.certificates EXCEPT ![id] = Append(@, row)]
<1>1. row \in S
  OBVIOUS
<1>2. d.certificates \in [Lot -> Seq(S)]
  BY TableTypes
<1>3. e = [d EXCEPT !.certificates = table]
  BY DEF InsertCertificate, Database
<1> HIDE DEF S, row
<1>4. /\ table \in [Lot -> Seq(S)]
      /\ table[id] = Append(d.certificates[id], row)
      /\ \A o \in Lot : o # id => table[o] = d.certificates[o]
  BY <1>1, <1>2, AppendRow
<1> HIDE DEF table
<1>5. e \in Database
  BY <1>3, <1>4 DEF Database, S
<1>6. QED
  BY <1>3, <1>4, <1>5 DEF Database, row

\* InsertAudit: one more event of the lot.
LEMMA InsertAuditEffect ==
  ASSUME NEW d \in Database, NEW id \in Lot, NEW tenant \in Tenant,
         NEW action \in AuditAction, NEW result \in AuditResult
  PROVE  LET e == InsertAudit(d, id, tenant, action, result) IN
         /\ e \in Database
         /\ e.audit[id] = Append(d.audit[id],
              [tenant |-> tenant, action |-> action, result |-> result])
         /\ \A o \in Lot : o # id => e.audit[o] = d.audit[o]
         /\ e.lots = d.lots /\ e.inspections = d.inspections
         /\ e.reservations = d.reservations /\ e.recoveries = d.recoveries
         /\ e.certificates = d.certificates /\ e.idempotency = d.idempotency
         /\ e.outbox = d.outbox
<1> DEFINE e == InsertAudit(d, id, tenant, action, result)
           S == [tenant : Tenant, action : AuditAction, result : AuditResult]
           row == [tenant |-> tenant, action |-> action, result |-> result]
           table == [d.audit EXCEPT ![id] = Append(@, row)]
<1>1. row \in S
  OBVIOUS
<1>2. d.audit \in [Lot -> Seq(S)]
  BY TableTypes
<1>3. e = [d EXCEPT !.audit = table]
  BY DEF InsertAudit, Database
<1> HIDE DEF S, row
<1>4. /\ table \in [Lot -> Seq(S)]
      /\ table[id] = Append(d.audit[id], row)
      /\ \A o \in Lot : o # id => table[o] = d.audit[o]
  BY <1>1, <1>2, AppendRow
<1> HIDE DEF table
<1>5. e \in Database
  BY <1>3, <1>4 DEF Database, S
<1>6. QED
  BY <1>3, <1>4, <1>5 DEF Database, row

\* InsertOutbox: one more event to publish about the lot.
LEMMA InsertOutboxEffect ==
  ASSUME NEW d \in Database, NEW id \in Lot, NEW tenant \in Tenant
  PROVE  LET e == InsertOutbox(d, id, tenant) IN
         /\ e \in Database
         /\ e.outbox[id] = Append(d.outbox[id],
              [tenant |-> tenant])
         /\ \A o \in Lot : o # id => e.outbox[o] = d.outbox[o]
         /\ e.lots = d.lots /\ e.audit = d.audit
         /\ e.inspections = d.inspections /\ e.reservations = d.reservations
         /\ e.recoveries = d.recoveries /\ e.certificates = d.certificates
         /\ e.idempotency = d.idempotency
<1> DEFINE e == InsertOutbox(d, id, tenant)
           S == [tenant : Tenant]
           row == [tenant |-> tenant]
           table == [d.outbox EXCEPT ![id] = Append(@, row)]
<1>1. row \in S
  OBVIOUS
<1>2. d.outbox \in [Lot -> Seq(S)]
  BY TableTypes
<1>3. e = [d EXCEPT !.outbox = table]
  BY DEF InsertOutbox, Database
<1> HIDE DEF S, row
<1>4. /\ table \in [Lot -> Seq(S)]
      /\ table[id] = Append(d.outbox[id], row)
      /\ \A o \in Lot : o # id => table[o] = d.outbox[o]
  BY <1>1, <1>2, AppendRow
<1> HIDE DEF table
<1>5. e \in Database
  BY <1>3, <1>4 DEF Database, S
<1>6. QED
  BY <1>3, <1>4, <1>5 DEF Database, row

----------------------------------------------------------------------------
\* People have a tenant.
LEMMA PrincipalTenant ==
  ASSUME NEW p \in Principal
  PROVE  p.tenant \in Tenant
BY PrincipalAssumption DEF PrincipalAssumption

----------------------------------------------------------------------------
(* What each transaction changes, from the effects of its statements *)

\* From d to e the lot moves to a state.
Moved(d, e, id, state) ==
  /\ e.lots[id] # NoLot
  /\ e.lots[id].tenant = d.lots[id].tenant
  /\ e.lots[id].code = d.lots[id].code
  /\ e.lots[id].hazard = d.lots[id].hazard
  /\ e.lots[id].state = state
  /\ e.lots[id].version = d.lots[id].version + 1

\* The rows about a lot are the same in d and e.
SameRows(d, e, id) ==
  /\ e.lots[id] = d.lots[id]
  /\ e.audit[id] = d.audit[id]
  /\ e.inspections[id] = d.inspections[id]
  /\ e.reservations[id] = d.reservations[id]
  /\ e.recoveries[id] = d.recoveries[id]
  /\ e.certificates[id] = d.certificates[id]
  /\ e.outbox[id] = d.outbox[id]

\* From d to e nothing but the key of the tenant is stored, for the lot.
KeyStored(d, e, tenant, key, id) ==
  \A t \in Tenant, k \in Key :
    e.idempotency[t][k] = IF t = tenant /\ k = key
                            THEN id ELSE d.idempotency[t][k]

OthersSame(d, e, id) == \A o \in Lot : o # id => SameRows(d, e, o)

\* The effect of IntakeTx on the tables.
LEMMA IntakeEffect ==
  ASSUME NEW d \in Database, NEW p \in Principal, NEW id \in Lot,
         NEW code \in Code, NEW hazard \in Hazard
  PROVE  LET e == IntakeTx(d, p, id, code, hazard) IN
         /\ e \in Database
         /\ e.lots[id] = [tenant |-> p.tenant, code |-> code, hazard |-> hazard,
                           state |-> "received", version |-> 1]
         /\ e.lots[id] # NoLot
         /\ OthersSame(d, e, id)
         /\ e.audit[id] = Append(d.audit[id],
              [tenant |-> p.tenant, action |-> "intake", result |-> "success"])
         /\ e.inspections[id] = d.inspections[id]
         /\ e.reservations[id] = d.reservations[id]
         /\ e.recoveries[id] = d.recoveries[id]
         /\ e.certificates[id] = d.certificates[id]
         /\ e.outbox[id] = d.outbox[id]
         /\ e.idempotency = d.idempotency
<1> DEFINE e == IntakeTx(d, p, id, code, hazard)
           lot == [tenant |-> p.tenant, code |-> code, hazard |-> hazard,
                   state |-> "received", version |-> 1]
           d1 == InsertLot(d, id, lot)
<1>1. p.tenant \in Tenant
  BY PrincipalTenant
<1>2. "intake" \in AuditAction /\ "success" \in AuditResult
  BY DEF AuditAction, AuditResult, State
<1>3. e = InsertAudit(d1, id, p.tenant, "intake", "success")
  BY DEF IntakeTx, WriteAudit
<1> HIDE DEF e
<1>4. lot \in LotRow /\ lot # NoLot
  BY <1>1, NoLotAssumption DEF NoLotAssumption, LotRow, State
<1> HIDE DEF lot
<1>5. /\ d1 \in Database
      /\ d1.lots[id] = lot
      /\ \A o \in Lot : o # id => d1.lots[o] = d.lots[o]
      /\ d1.audit = d.audit /\ d1.inspections = d.inspections
      /\ d1.reservations = d.reservations /\ d1.recoveries = d.recoveries
      /\ d1.certificates = d.certificates /\ d1.outbox = d.outbox
      /\ d1.idempotency = d.idempotency
  BY <1>1, <1>2, <1>4, InsertLotEffect
<1> HIDE DEF d1
<1>6. /\ e \in Database
      /\ e.audit[id] = Append(d1.audit[id],
           [tenant |-> p.tenant, action |-> "intake", result |-> "success"])
      /\ \A o \in Lot : o # id => e.audit[o] = d1.audit[o]
      /\ e.lots = d1.lots /\ e.inspections = d1.inspections
      /\ e.reservations = d1.reservations /\ e.recoveries = d1.recoveries
      /\ e.certificates = d1.certificates /\ e.outbox = d1.outbox
      /\ e.idempotency = d1.idempotency
  <2>1. d1 \in Database
    BY <1>5
  <2>2. QED
    BY <1>1, <1>2, <1>3, <2>1, InsertAuditEffect
<1>7. QED
  BY <1>4, <1>5, <1>6 DEF OthersSame, SameRows, e, lot

\* The effect of InspectTx on the tables.
LEMMA InspectEffect ==
  ASSUME NEW d \in Database, NEW p \in Principal, NEW id \in Lot,
         NEW result \in Result, d.lots[id] # NoLot
  PROVE  LET e == InspectTx(d, p, id, result) IN
         /\ e \in Database
         /\ Moved(d, e, id, InspectionTarget(result))
         /\ OthersSame(d, e, id)
         /\ e.audit[id] = Append(d.audit[id],
              [tenant |-> p.tenant, action |-> "inspection", result |-> result])
         /\ e.inspections[id] = Append(d.inspections[id],
              [tenant |-> p.tenant, result |-> result])
         /\ e.reservations[id] = d.reservations[id]
         /\ e.recoveries[id] = d.recoveries[id]
         /\ e.certificates[id] = d.certificates[id]
         /\ e.outbox[id] = d.outbox[id]
         /\ e.idempotency = d.idempotency
<1> DEFINE e == InspectTx(d, p, id, result)
           d1 == UpdateLotState(d, id, InspectionTarget(result))
           d2 == InsertInspection(d1, id, p.tenant, result)
<1>1. p.tenant \in Tenant
  BY PrincipalTenant
<1>2. "inspection" \in AuditAction /\ result \in AuditResult /\ InspectionTarget(result) \in State
  BY DEF AuditAction, AuditResult, State, InspectionTarget
<1>3. e = InsertAudit(d2, id, p.tenant, "inspection", result)
  BY DEF InspectTx, WriteAudit
<1> HIDE DEF e
<1>4. /\ d1 \in Database
      /\ Moved(d, d1, id, InspectionTarget(result))
      /\ \A o \in Lot : o # id => d1.lots[o] = d.lots[o]
      /\ d1.audit = d.audit /\ d1.inspections = d.inspections
      /\ d1.reservations = d.reservations /\ d1.recoveries = d.recoveries
      /\ d1.certificates = d.certificates /\ d1.outbox = d.outbox
      /\ d1.idempotency = d.idempotency
  BY <1>1, <1>2, UpdateLotStateEffect DEF Moved
<1> HIDE DEF d1
<1>5. /\ d2 \in Database
      /\ d2.inspections[id] = Append(d1.inspections[id],
           [tenant |-> p.tenant, result |-> result])
      /\ \A o \in Lot : o # id => d2.inspections[o] = d1.inspections[o]
      /\ d2.lots = d1.lots /\ d2.audit = d1.audit
      /\ d2.reservations = d1.reservations /\ d2.recoveries = d1.recoveries
      /\ d2.certificates = d1.certificates /\ d2.outbox = d1.outbox
      /\ d2.idempotency = d1.idempotency
  <2>1. d1 \in Database
    BY <1>4
  <2>2. QED
    BY <1>1, <2>1, InsertInspectionEffect
<1> HIDE DEF d2
<1>6. /\ e \in Database
      /\ e.audit[id] = Append(d2.audit[id],
           [tenant |-> p.tenant, action |-> "inspection", result |-> result])
      /\ \A o \in Lot : o # id => e.audit[o] = d2.audit[o]
      /\ e.lots = d2.lots /\ e.inspections = d2.inspections
      /\ e.reservations = d2.reservations /\ e.recoveries = d2.recoveries
      /\ e.certificates = d2.certificates /\ e.outbox = d2.outbox
      /\ e.idempotency = d2.idempotency
  <2>1. d2 \in Database
    BY <1>5
  <2>2. QED
    BY <1>1, <1>2, <1>3, <2>1, InsertAuditEffect
<1>7. QED
  BY <1>4, <1>5, <1>6 DEF OthersSame, SameRows, Moved, e

\* The effect of ReserveTx on the tables.
LEMMA ReserveEffect ==
  ASSUME NEW d \in Database, NEW p \in Principal, NEW id \in Lot, d.lots[id] # NoLot
  PROVE  LET e == ReserveTx(d, p, id) IN
         /\ e \in Database
         /\ Moved(d, e, id, "reserved")
         /\ OthersSame(d, e, id)
         /\ e.audit[id] = Append(d.audit[id],
              [tenant |-> p.tenant, action |-> "reserve", result |-> "station"])
         /\ e.inspections[id] = d.inspections[id]
         /\ e.reservations[id] = Append(d.reservations[id],
              [tenant |-> p.tenant])
         /\ e.recoveries[id] = d.recoveries[id]
         /\ e.certificates[id] = d.certificates[id]
         /\ e.outbox[id] = d.outbox[id]
         /\ e.idempotency = d.idempotency
<1> DEFINE e == ReserveTx(d, p, id)
           d1 == InsertReservation(d, id, p.tenant)
           d2 == UpdateLotState(d1, id, "reserved")
<1>1. p.tenant \in Tenant
  BY PrincipalTenant
<1>2. "reserve" \in AuditAction /\ "station" \in AuditResult /\ "reserved" \in State
  BY DEF AuditAction, AuditResult, State
<1>3. e = InsertAudit(d2, id, p.tenant, "reserve", "station")
  BY DEF ReserveTx, WriteAudit
<1> HIDE DEF e
<1>4. /\ d1 \in Database
      /\ d1.reservations[id] = Append(d.reservations[id],
           [tenant |-> p.tenant])
      /\ \A o \in Lot : o # id => d1.reservations[o] = d.reservations[o]
      /\ d1.lots = d.lots /\ d1.audit = d.audit
      /\ d1.inspections = d.inspections /\ d1.recoveries = d.recoveries
      /\ d1.certificates = d.certificates /\ d1.outbox = d.outbox
      /\ d1.idempotency = d.idempotency
  BY <1>1, <1>2, InsertReservationEffect
<1> HIDE DEF d1
<1>5. /\ d2 \in Database
      /\ Moved(d1, d2, id, "reserved")
      /\ \A o \in Lot : o # id => d2.lots[o] = d1.lots[o]
      /\ d2.audit = d1.audit /\ d2.inspections = d1.inspections
      /\ d2.reservations = d1.reservations /\ d2.recoveries = d1.recoveries
      /\ d2.certificates = d1.certificates /\ d2.outbox = d1.outbox
      /\ d2.idempotency = d1.idempotency
  <2>1. d1.lots[id] # NoLot
    BY <1>4
  <2>2. QED
    BY <2>1, <1>1, <1>2, <1>4, UpdateLotStateEffect DEF Moved
<1> HIDE DEF d2
<1>6. /\ e \in Database
      /\ e.audit[id] = Append(d2.audit[id],
           [tenant |-> p.tenant, action |-> "reserve", result |-> "station"])
      /\ \A o \in Lot : o # id => e.audit[o] = d2.audit[o]
      /\ e.lots = d2.lots /\ e.inspections = d2.inspections
      /\ e.reservations = d2.reservations /\ e.recoveries = d2.recoveries
      /\ e.certificates = d2.certificates /\ e.outbox = d2.outbox
      /\ e.idempotency = d2.idempotency
  <2>1. d2 \in Database
    BY <1>5
  <2>2. QED
    BY <1>1, <1>2, <1>3, <2>1, InsertAuditEffect
<1>7. QED
  BY <1>4, <1>5, <1>6 DEF OthersSame, SameRows, Moved, e

\* The effect of DismantlingTx on the tables.
LEMMA DismantlingEffect ==
  ASSUME NEW d \in Database, NEW p \in Principal, NEW id \in Lot, d.lots[id] # NoLot
  PROVE  LET e == DismantlingTx(d, p, id) IN
         /\ e \in Database
         /\ Moved(d, e, id, "dismantling")
         /\ OthersSame(d, e, id)
         /\ e.audit[id] = Append(d.audit[id],
              [tenant |-> p.tenant, action |-> "dismantling", result |-> "started"])
         /\ e.inspections[id] = d.inspections[id]
         /\ e.reservations[id] = d.reservations[id]
         /\ e.recoveries[id] = d.recoveries[id]
         /\ e.certificates[id] = d.certificates[id]
         /\ e.outbox[id] = d.outbox[id]
         /\ e.idempotency = d.idempotency
<1> DEFINE e == DismantlingTx(d, p, id)
           d1 == UpdateLotState(d, id, "dismantling")
<1>1. p.tenant \in Tenant
  BY PrincipalTenant
<1>2. "dismantling" \in AuditAction /\ "started" \in AuditResult /\ "dismantling" \in State
  BY DEF AuditAction, AuditResult, State
<1>3. e = InsertAudit(d1, id, p.tenant, "dismantling", "started")
  BY DEF DismantlingTx, WriteAudit
<1> HIDE DEF e
<1>4. /\ d1 \in Database
      /\ Moved(d, d1, id, "dismantling")
      /\ \A o \in Lot : o # id => d1.lots[o] = d.lots[o]
      /\ d1.audit = d.audit /\ d1.inspections = d.inspections
      /\ d1.reservations = d.reservations /\ d1.recoveries = d.recoveries
      /\ d1.certificates = d.certificates /\ d1.outbox = d.outbox
      /\ d1.idempotency = d.idempotency
  BY <1>1, <1>2, UpdateLotStateEffect DEF Moved
<1> HIDE DEF d1
<1>5. /\ e \in Database
      /\ e.audit[id] = Append(d1.audit[id],
           [tenant |-> p.tenant, action |-> "dismantling", result |-> "started"])
      /\ \A o \in Lot : o # id => e.audit[o] = d1.audit[o]
      /\ e.lots = d1.lots /\ e.inspections = d1.inspections
      /\ e.reservations = d1.reservations /\ e.recoveries = d1.recoveries
      /\ e.certificates = d1.certificates /\ e.outbox = d1.outbox
      /\ e.idempotency = d1.idempotency
  <2>1. d1 \in Database
    BY <1>4
  <2>2. QED
    BY <1>1, <1>2, <1>3, <2>1, InsertAuditEffect
<1>6. QED
  BY <1>4, <1>5 DEF OthersSame, SameRows, Moved, e

\* The effect of RecoverTx on the tables.
LEMMA RecoverEffect ==
  ASSUME NEW d \in Database, NEW p \in Principal, NEW id \in Lot,
         NEW grams \in Weights, NEW key \in KeyOrNone, d.lots[id] # NoLot
  PROVE  LET e == RecoverTx(d, p, id, grams, key) IN
         /\ e \in Database
         /\ Moved(d, e, id, "recovered")
         /\ OthersSame(d, e, id)
         /\ e.audit[id] = Append(d.audit[id],
              [tenant |-> p.tenant, action |-> "recover", result |-> "confirmed"])
         /\ e.inspections[id] = d.inspections[id]
         /\ e.reservations[id] = d.reservations[id]
         /\ e.recoveries[id] = Append(d.recoveries[id],
              [tenant |-> p.tenant, grams |-> grams])
         /\ e.certificates[id] = d.certificates[id]
         /\ e.outbox[id] = Append(d.outbox[id],
              [tenant |-> p.tenant])
         /\ KeyStored(d, e, p.tenant, key, id)
<1> DEFINE e == RecoverTx(d, p, id, grams, key)
           d1 == InsertRecovery(d, id, p.tenant, grams)
           d2 == UpdateLotState(d1, id, "recovered")
           d3 == IF key = NoKey THEN d2
                                ELSE SaveIdempotency(d2, p.tenant, key, id)
           d4 == InsertOutbox(d3, id, p.tenant)
<1>1. p.tenant \in Tenant
  BY PrincipalTenant
<1>2. "recover" \in AuditAction /\ "confirmed" \in AuditResult /\ "recovered" \in State
  BY DEF AuditAction, AuditResult, State
<1>3. e = InsertAudit(d4, id, p.tenant, "recover", "confirmed")
  BY DEF RecoverTx, WriteAudit
<1> HIDE DEF e
<1>4. /\ d1 \in Database
      /\ d1.recoveries[id] = Append(d.recoveries[id],
           [tenant |-> p.tenant, grams |-> grams])
      /\ \A o \in Lot : o # id => d1.recoveries[o] = d.recoveries[o]
      /\ d1.lots = d.lots /\ d1.audit = d.audit
      /\ d1.inspections = d.inspections /\ d1.reservations = d.reservations
      /\ d1.certificates = d.certificates /\ d1.outbox = d.outbox
      /\ d1.idempotency = d.idempotency
  BY <1>1, <1>2, InsertRecoveryEffect
<1> HIDE DEF d1
<1>5. /\ d2 \in Database
      /\ Moved(d1, d2, id, "recovered")
      /\ \A o \in Lot : o # id => d2.lots[o] = d1.lots[o]
      /\ d2.audit = d1.audit /\ d2.inspections = d1.inspections
      /\ d2.reservations = d1.reservations /\ d2.recoveries = d1.recoveries
      /\ d2.certificates = d1.certificates /\ d2.outbox = d1.outbox
      /\ d2.idempotency = d1.idempotency
  <2>1. d1.lots[id] # NoLot
    BY <1>4
  <2>2. QED
    BY <2>1, <1>1, <1>2, <1>4, UpdateLotStateEffect DEF Moved
<1> HIDE DEF d2
<1>6. /\ d3 \in Database
      /\ KeyStored(d2, d3, p.tenant, key, id)
      /\ d3.lots = d2.lots /\ d3.audit = d2.audit
      /\ d3.inspections = d2.inspections /\ d3.reservations = d2.reservations
      /\ d3.recoveries = d2.recoveries /\ d3.certificates = d2.certificates
      /\ d3.outbox = d2.outbox
  BY <1>1, <1>2, <1>5, SaveIdempotencyEffect, NoKeyAssumption DEF NoKeyAssumption, KeyOrNone, KeyStored
<1> HIDE DEF d3
<1>7. /\ d4 \in Database
      /\ d4.outbox[id] = Append(d3.outbox[id],
           [tenant |-> p.tenant])
      /\ \A o \in Lot : o # id => d4.outbox[o] = d3.outbox[o]
      /\ d4.lots = d3.lots /\ d4.audit = d3.audit
      /\ d4.inspections = d3.inspections /\ d4.reservations = d3.reservations
      /\ d4.recoveries = d3.recoveries /\ d4.certificates = d3.certificates
      /\ d4.idempotency = d3.idempotency
  <2>1. d3 \in Database
    BY <1>6
  <2>2. QED
    BY <1>1, <2>1, InsertOutboxEffect
<1> HIDE DEF d4
<1>8. /\ e \in Database
      /\ e.audit[id] = Append(d4.audit[id],
           [tenant |-> p.tenant, action |-> "recover", result |-> "confirmed"])
      /\ \A o \in Lot : o # id => e.audit[o] = d4.audit[o]
      /\ e.lots = d4.lots /\ e.inspections = d4.inspections
      /\ e.reservations = d4.reservations /\ e.recoveries = d4.recoveries
      /\ e.certificates = d4.certificates /\ e.outbox = d4.outbox
      /\ e.idempotency = d4.idempotency
  <2>1. d4 \in Database
    BY <1>7
  <2>2. QED
    BY <1>1, <1>2, <1>3, <2>1, InsertAuditEffect
<1>9. QED
  BY <1>4, <1>5, <1>6, <1>7, <1>8 DEF OthersSame, SameRows, Moved, e, KeyStored

\* The effect of CertifyTx on the tables.
LEMMA CertifyEffect ==
  ASSUME NEW d \in Database, NEW p \in Principal, NEW id \in Lot, d.lots[id] # NoLot
  PROVE  LET e == CertifyTx(d, p, id) IN
         /\ e \in Database
         /\ Moved(d, e, id, "certified")
         /\ OthersSame(d, e, id)
         /\ e.audit[id] = Append(d.audit[id],
              [tenant |-> p.tenant, action |-> "certificate", result |-> "issued"])
         /\ e.inspections[id] = d.inspections[id]
         /\ e.reservations[id] = d.reservations[id]
         /\ e.recoveries[id] = d.recoveries[id]
         /\ e.certificates[id] = Append(d.certificates[id],
              [tenant |-> p.tenant, serial |-> Serial(d.lots[id].code)])
         /\ e.outbox[id] = d.outbox[id]
         /\ e.idempotency = d.idempotency
<1> DEFINE e == CertifyTx(d, p, id)
           d1 == InsertCertificate(d, id, p.tenant, Serial(d.lots[id].code))
           d2 == UpdateLotState(d1, id, "certified")
<1>1. p.tenant \in Tenant
  BY PrincipalTenant
<1>2. "certificate" \in AuditAction /\ "issued" \in AuditResult /\ "certified" \in State
  BY DEF AuditAction, AuditResult, State
<1>3. e = InsertAudit(d2, id, p.tenant, "certificate", "issued")
  BY DEF CertifyTx, WriteAudit
<1> HIDE DEF e
<1>4. Serial(d.lots[id].code) \in {Serial(c) : c \in Code}
  <2>1. d.lots[id] \in LotRow
    BY TableTypes
  <2>2. QED
    BY <2>1 DEF LotRow
<1>5. /\ d1 \in Database
      /\ d1.certificates[id] = Append(d.certificates[id],
           [tenant |-> p.tenant, serial |-> Serial(d.lots[id].code)])
      /\ \A o \in Lot : o # id => d1.certificates[o] = d.certificates[o]
      /\ d1.lots = d.lots /\ d1.audit = d.audit
      /\ d1.inspections = d.inspections /\ d1.reservations = d.reservations
      /\ d1.recoveries = d.recoveries /\ d1.outbox = d.outbox
      /\ d1.idempotency = d.idempotency
  BY <1>1, <1>2, <1>4, InsertCertificateEffect
<1> HIDE DEF d1
<1>6. /\ d2 \in Database
      /\ Moved(d1, d2, id, "certified")
      /\ \A o \in Lot : o # id => d2.lots[o] = d1.lots[o]
      /\ d2.audit = d1.audit /\ d2.inspections = d1.inspections
      /\ d2.reservations = d1.reservations /\ d2.recoveries = d1.recoveries
      /\ d2.certificates = d1.certificates /\ d2.outbox = d1.outbox
      /\ d2.idempotency = d1.idempotency
  <2>1. d1.lots[id] # NoLot
    BY <1>5
  <2>2. QED
    BY <2>1, <1>1, <1>2, <1>4, <1>5, UpdateLotStateEffect DEF Moved
<1> HIDE DEF d2
<1>7. /\ e \in Database
      /\ e.audit[id] = Append(d2.audit[id],
           [tenant |-> p.tenant, action |-> "certificate", result |-> "issued"])
      /\ \A o \in Lot : o # id => e.audit[o] = d2.audit[o]
      /\ e.lots = d2.lots /\ e.inspections = d2.inspections
      /\ e.reservations = d2.reservations /\ e.recoveries = d2.recoveries
      /\ e.certificates = d2.certificates /\ e.outbox = d2.outbox
      /\ e.idempotency = d2.idempotency
  <2>1. d2 \in Database
    BY <1>6
  <2>2. QED
    BY <1>1, <1>2, <1>3, <2>1, InsertAuditEffect
<1>8. QED
  BY <1>4, <1>5, <1>6, <1>7 DEF OthersSame, SameRows, Moved, e

----------------------------------------------------------------------------
(* The inductive invariant *)

\* A lot whose rows do not change stays explained.
LEMMA SameLotOK ==
  ASSUME NEW id \in Lot, LotOK(id), SameRows(db, db', id)
  PROVE  LotOK(id)'
BY DEF LotOK, SameRows, LotExplained, Unused, Present, HasRows

\* One more row of the same tenant.
LEMMA AppendHasRows ==
  ASSUME NEW S, NEW rows \in Seq(S), NEW row \in S, NEW n \in Nat, NEW t,
         HasRows(rows, n, t), row.tenant = t
  PROVE  HasRows(Append(rows, row), n + 1, t)
<1>1. Len(Append(rows, row)) = n + 1
  BY DEF HasRows
<1>2. \A i \in 1..n : Append(rows, row)[i] = rows[i]
  BY DEF HasRows
<1>3. Append(rows, row)[n + 1] = row
  BY DEF HasRows
<1>4. QED
  BY <1>1, <1>2, <1>3 DEF HasRows

\* One more event of the workflow.
LEMMA AppendAction ==
  ASSUME NEW S, NEW rows \in Seq(S), NEW row \in S, NEW n \in Nat,
         NEW m \in Nat, m = n + 1, Len(rows) = n, \A i \in 1..n : rows[i].action = Path[i],
         row.action = Path[m]
  PROVE  \A i \in 1..m : Append(rows, row)[i].action = Path[i]
<1>1. \A i \in 1..n : Append(rows, row)[i] = rows[i]
  OBVIOUS
<1>2. Append(rows, row)[m] = row
  OBVIOUS
<1>3. QED
  BY <1>1, <1>2

\* Stored keys keep answering when no key is stored and recovered lots stay so.
LEMMA KeysKept ==
  ASSUME IInv, NEW id \in Lot, OthersSame(db, db', id),
         db'.idempotency = db.idempotency,
         db.lots[id] # NoLot /\ db.lots[id].state \in AtLeastRecovered =>
           /\ db'.lots[id] # NoLot
           /\ db'.lots[id].tenant = db.lots[id].tenant
           /\ db'.lots[id].state \in AtLeastRecovered
  PROVE  KeysAnswerForOwnRecovery'
<1> SUFFICES ASSUME NEW t \in Tenant, NEW k \in Key,
                    db.idempotency[t][k] # NoLot
             PROVE  LET o == db.idempotency[t][k] IN
                    /\ db'.lots[o] # NoLot
                    /\ db'.lots[o].tenant = t
                    /\ db'.lots[o].state \in AtLeastRecovered
  BY DEF KeysAnswerForOwnRecovery, Present, StateOf
<1> DEFINE o == db.idempotency[t][k]
<1>1. o \in Lot
  BY TableTypes DEF IInv, TypeOK
<1>2. /\ db.lots[o] # NoLot
      /\ db.lots[o].tenant = t
      /\ db.lots[o].state \in AtLeastRecovered
  BY DEF IInv, KeysAnswerForOwnRecovery, Present, StateOf
<1> HIDE DEF o
<1>3. CASE o = id
  BY <1>2, <1>3 DEF o
<1>4. CASE o # id
  BY <1>1, <1>2, <1>4 DEF OthersSame, SameRows, o
<1>5. QED
  BY <1>3, <1>4

\* Codes stay unique when a lot keeps its tenant and code and is not certified
\* while another lot with its code is.
LEMMA CodesKept ==
  ASSUME IInv, NEW id \in Lot, OthersSame(db, db', id),
         db.lots[id] # NoLot,
         db'.lots[id].tenant = db.lots[id].tenant,
         db'.lots[id].code = db.lots[id].code,
         db'.lots[id].state = "certified" =>
           \A o \in Lot : o # id /\ db.lots[o] # NoLot
                            /\ db.lots[o].code = db.lots[id].code =>
                            db.lots[o].state # "certified"
  PROVE  CodesUnique'
<1>1. CodesUnique
  BY DEF IInv
<1>2. \A o \in Lot : o # id => db'.lots[o] = db.lots[o]
  BY DEF OthersSame, SameRows
<1>3. QED
  BY <1>1, <1>2 DEF CodesUnique, Present, StateOf

\* The empty database satisfies the invariant.
LEMMA InitIInv == Init => IInv
<1> SUFFICES ASSUME Init PROVE IInv
  OBVIOUS
<1>1. TypeOK
  BY DEF Init, TypeOK, EmptyDatabase, Database
<1>2. \A id \in Lot : ~Present(id) /\ Unused(id)
  BY DEF Init, EmptyDatabase, Present, Unused
<1>3. \A t \in Tenant, k \in Key : db.idempotency[t][k] = NoLot
  BY DEF Init, EmptyDatabase
<1>4. QED
  BY <1>1, <1>2, <1>3
     DEF IInv, LotOK, KeysAnswerForOwnRecovery, CodesUnique

\* A new lot starts explained.
LEMMA IntakeKeepsIInv ==
  ASSUME IInv, NEW p \in Principal, NEW id \in Lot,
         NEW code \in Code, NEW hazard \in Hazard,
         Intake(p, id, code, hazard)
  PROVE  IInv'
<1>1. db \in Database /\ \A o \in Lot : LotOK(o)
  BY DEF IInv, TypeOK
<1>2. db.lots[id] = NoLot
  BY DEF Intake, LotUnique
<1> DEFINE e == IntakeTx(db, p, id, code, hazard)
<1>E. /\ e \in Database
      /\ e.lots[id] = [tenant |-> p.tenant, code |-> code, hazard |-> hazard,
                          state |-> "received", version |-> 1]
      /\ e.lots[id] # NoLot
      /\ OthersSame(db, e, id)
      /\ e.audit[id] = Append(db.audit[id],
           [tenant |-> p.tenant, action |-> "intake", result |-> "success"])
      /\ e.inspections[id] = db.inspections[id]
      /\ e.reservations[id] = db.reservations[id]
      /\ e.recoveries[id] = db.recoveries[id]
      /\ e.certificates[id] = db.certificates[id]
      /\ e.outbox[id] = db.outbox[id]
      /\ e.idempotency = db.idempotency
  <2>1. db \in Database
    BY <1>1
  <2>2. QED
    BY <2>1, IntakeEffect, ZenonT(60)
<1>3. db' = e
  BY DEF Intake
<1> HIDE DEF e
<1>4. /\ db' \in Database
      /\ db'.lots[id] = [tenant |-> p.tenant, code |-> code, hazard |-> hazard,
                          state |-> "received", version |-> 1]
      /\ db'.lots[id] # NoLot
      /\ OthersSame(db, db', id)
      /\ db'.audit[id] = Append(db.audit[id],
           [tenant |-> p.tenant, action |-> "intake", result |-> "success"])
      /\ db'.inspections[id] = db.inspections[id]
      /\ db'.reservations[id] = db.reservations[id]
      /\ db'.recoveries[id] = db.recoveries[id]
      /\ db'.certificates[id] = db.certificates[id]
      /\ db'.outbox[id] = db.outbox[id]
      /\ db'.idempotency = db.idempotency
  BY <1>E, <1>3
<1>5. LotOK(id)'
  <2>1. Unused(id)
    BY <1>1, <1>2 DEF LotOK, Present
  <2>2. /\ HasRows(db.audit[id], 0, p.tenant)
        /\ HasRows(db.inspections[id], 0, p.tenant)
        /\ HasRows(db.reservations[id], 0, p.tenant)
        /\ HasRows(db.recoveries[id], 0, p.tenant)
        /\ HasRows(db.outbox[id], 0, p.tenant)
        /\ HasRows(db.certificates[id], 0, p.tenant)
    BY <1>2, <2>1 DEF Unused, HasRows
  <2>3. /\ HasRows(db'.audit[id], 1, p.tenant)
        /\ HasRows(db'.inspections[id], 0, p.tenant)
        /\ HasRows(db'.reservations[id], 0, p.tenant)
        /\ HasRows(db'.recoveries[id], 0, p.tenant)
        /\ HasRows(db'.outbox[id], 0, p.tenant)
        /\ HasRows(db'.certificates[id], 0, p.tenant)
    <3>1. HasRows(db'.audit[id], 1, p.tenant)
      <4> DEFINE S == [tenant : Tenant, action : AuditAction, result : AuditResult]
                 row == [tenant |-> p.tenant, action |-> "intake", result |-> "success"]
      <4>1. row \in S /\ row.tenant = p.tenant
        BY PrincipalTenant DEF AuditAction, AuditResult
      <4>2. db.audit[id] \in Seq(S) /\ HasRows(db.audit[id], 0, p.tenant)
        BY <1>1, <2>2, TableTypes
      <4>3. db'.audit[id] = Append(db.audit[id], row)
        BY <1>4
      <4> HIDE DEF S, row
      <4>4. HasRows(Append(db.audit[id], row), 0 + 1, p.tenant)
        BY <4>1, <4>2, AppendHasRows
      <4>5. QED
        BY <4>3, <4>4
    <3>2. QED
      BY <1>4, <2>2, <3>1
  <2>4. \A i \in 1..1 : db'.audit[id][i].action = Path[i]
    <3> DEFINE S == [tenant : Tenant, action : AuditAction, result : AuditResult]
               row == [tenant |-> p.tenant, action |-> "intake", result |-> "success"]
    <3>1. row \in S
      BY PrincipalTenant DEF AuditAction, AuditResult
    <3>2. db.audit[id] \in Seq(S)
      BY <1>1, TableTypes
    <3>3. Len(db.audit[id]) = 0 /\ \A i \in 1..0 : db.audit[id][i].action = Path[i]
      BY <2>2 DEF HasRows
    <3>4. db'.audit[id] = Append(db.audit[id], row) /\ row.action = Path[1]
      BY <1>4 DEF Path
    <3> HIDE DEF S, row
    <3>5. \A i \in 1..1 : Append(db.audit[id], row)[i].action = Path[i]
      BY <3>1, <3>2, <3>3, <3>4, AppendAction, SMTT(60)
    <3>6. QED
      BY <3>4, <3>5
  <2>5. /\ db'.lots[id].version = 1 /\ db'.lots[id].state = "received"
        /\ db'.lots[id].tenant = p.tenant
    BY <1>2, <1>4, <2>2
  <2>6. LotExplained(id)'
    BY <1>2, <1>4, <2>1, <2>2, <2>3, <2>4, <2>5 DEF LotExplained, Stage, AtLeastReserved, AtLeastRecovered
  <2>7. QED
    BY <1>4, <2>6 DEF LotOK, Present
<1>6. \A o \in Lot : LotOK(o)'
  BY <1>1, <1>4, <1>5, SameLotOK DEF OthersSame
<1>7. KeysAnswerForOwnRecovery'
  BY <1>2, <1>4, KeysKept DEF AtLeastRecovered
<1>8. CodesUnique'
  BY <1>2, <1>4
     DEF IInv, CodesUnique, Present, StateOf, OthersSame, SameRows, Intake,
         LotUnique
<1>9. QED
  BY <1>4, <1>6, <1>7, <1>8 DEF IInv, TypeOK

\* An inspection moves a received lot to inspected or to quarantine.
LEMMA InspectKeepsIInv ==
  ASSUME IInv, NEW p \in Principal, NEW id \in Lot,
         NEW result \in Result,
         Inspect(p, id, result)
  PROVE  IInv'
<1>1. db \in Database /\ \A o \in Lot : LotOK(o)
  BY DEF IInv, TypeOK
<1>2. db.lots[id] # NoLot /\ db.lots[id].tenant = p.tenant
      /\ db.lots[id].state = "received"
  BY DEF Inspect, LotFound, CanInspect
<1> DEFINE e == InspectTx(db, p, id, result)
<1>E. /\ e \in Database
      /\ Moved(db, e, id, InspectionTarget(result))
      /\ OthersSame(db, e, id)
      /\ e.audit[id] = Append(db.audit[id],
           [tenant |-> p.tenant, action |-> "inspection", result |-> result])
      /\ e.inspections[id] = Append(db.inspections[id],
           [tenant |-> p.tenant, result |-> result])
      /\ e.reservations[id] = db.reservations[id]
      /\ e.recoveries[id] = db.recoveries[id]
      /\ e.certificates[id] = db.certificates[id]
      /\ e.outbox[id] = db.outbox[id]
      /\ e.idempotency = db.idempotency
  <2>1. db \in Database /\ db.lots[id] # NoLot
    BY <1>1, <1>2
  <2>2. QED
    BY <2>1, InspectEffect, ZenonT(60)
<1>3. db' = e
  BY DEF Inspect
<1> HIDE DEF e
<1>4. /\ db' \in Database
      /\ Moved(db, db', id, InspectionTarget(result))
      /\ OthersSame(db, db', id)
      /\ db'.audit[id] = Append(db.audit[id],
           [tenant |-> p.tenant, action |-> "inspection", result |-> result])
      /\ db'.inspections[id] = Append(db.inspections[id],
           [tenant |-> p.tenant, result |-> result])
      /\ db'.reservations[id] = db.reservations[id]
      /\ db'.recoveries[id] = db.recoveries[id]
      /\ db'.certificates[id] = db.certificates[id]
      /\ db'.outbox[id] = db.outbox[id]
      /\ db'.idempotency = db.idempotency
  BY <1>E, <1>3
<1>5. LotOK(id)'
  <2>1. LotExplained(id)
    BY <1>1, <1>2 DEF LotOK, Present
  <2>2. /\ HasRows(db.audit[id], 1, p.tenant)
        /\ HasRows(db.inspections[id], 0, p.tenant)
        /\ HasRows(db.reservations[id], 0, p.tenant)
        /\ HasRows(db.recoveries[id], 0, p.tenant)
        /\ HasRows(db.outbox[id], 0, p.tenant)
        /\ HasRows(db.certificates[id], 0, p.tenant)
        /\ db.lots[id].version = 1
        /\ \A i \in 1..1 : db.audit[id][i].action = Path[i]
    BY <1>2, <2>1 DEF LotExplained, Stage, AtLeastReserved, AtLeastRecovered
  <2>3. /\ HasRows(db'.audit[id], 2, p.tenant)
        /\ HasRows(db'.inspections[id], 1, p.tenant)
        /\ HasRows(db'.reservations[id], 0, p.tenant)
        /\ HasRows(db'.recoveries[id], 0, p.tenant)
        /\ HasRows(db'.outbox[id], 0, p.tenant)
        /\ HasRows(db'.certificates[id], 0, p.tenant)
    <3>1. HasRows(db'.audit[id], 2, p.tenant)
      <4> DEFINE S == [tenant : Tenant, action : AuditAction, result : AuditResult]
                 row == [tenant |-> p.tenant, action |-> "inspection", result |-> result]
      <4>1. row \in S /\ row.tenant = p.tenant
        BY PrincipalTenant DEF AuditAction, AuditResult
      <4>2. db.audit[id] \in Seq(S) /\ HasRows(db.audit[id], 1, p.tenant)
        BY <1>1, <2>2, TableTypes
      <4>3. db'.audit[id] = Append(db.audit[id], row)
        BY <1>4
      <4> HIDE DEF S, row
      <4>4. HasRows(Append(db.audit[id], row), 1 + 1, p.tenant)
        BY <4>1, <4>2, AppendHasRows
      <4>5. QED
        BY <4>3, <4>4
    <3>2. HasRows(db'.inspections[id], 1, p.tenant)
      <4> DEFINE S == [tenant : Tenant, result : Result]
                 row == [tenant |-> p.tenant, result |-> result]
      <4>1. row \in S /\ row.tenant = p.tenant
        BY PrincipalTenant
      <4>2. db.inspections[id] \in Seq(S) /\ HasRows(db.inspections[id], 0, p.tenant)
        BY <1>1, <2>2, TableTypes
      <4>3. db'.inspections[id] = Append(db.inspections[id], row)
        BY <1>4
      <4> HIDE DEF S, row
      <4>4. HasRows(Append(db.inspections[id], row), 0 + 1, p.tenant)
        BY <4>1, <4>2, AppendHasRows
      <4>5. QED
        BY <4>3, <4>4
    <3>3. QED
      BY <1>4, <2>2, <3>1, <3>2
  <2>4. \A i \in 1..2 : db'.audit[id][i].action = Path[i]
    <3> DEFINE S == [tenant : Tenant, action : AuditAction, result : AuditResult]
               row == [tenant |-> p.tenant, action |-> "inspection", result |-> result]
    <3>1. row \in S
      BY PrincipalTenant DEF AuditAction, AuditResult
    <3>2. db.audit[id] \in Seq(S)
      BY <1>1, TableTypes
    <3>3. Len(db.audit[id]) = 1 /\ \A i \in 1..1 : db.audit[id][i].action = Path[i]
      BY <2>2 DEF HasRows
    <3>4. db'.audit[id] = Append(db.audit[id], row) /\ row.action = Path[2]
      BY <1>4 DEF Path
    <3> HIDE DEF S, row
    <3>5. \A i \in 1..2 : Append(db.audit[id], row)[i].action = Path[i]
      BY <3>1, <3>2, <3>3, <3>4, AppendAction, SMTT(60)
    <3>6. QED
      BY <3>4, <3>5
  <2>5. db'.inspections[id][1].result = result
    BY <1>1, <1>4, <2>2, TableTypes DEF HasRows
  <2>6. /\ db'.lots[id].version = 2 /\ db'.lots[id].state = InspectionTarget(result)
        /\ db'.lots[id].tenant = p.tenant
        /\ db'.lots[id].code = db.lots[id].code
        /\ db'.lots[id].hazard = db.lots[id].hazard
    BY <1>2, <1>4, <2>2 DEF Moved
  <2>7. LotExplained(id)'
    BY <1>2, <1>4, <2>1, <2>2, <2>3, <2>4, <2>5, <2>6 DEF LotExplained, Stage, AtLeastReserved, AtLeastRecovered, Moved, InspectionTarget
  <2>8. QED
    BY <1>4, <2>7 DEF LotOK, Present, Moved
<1>6. \A o \in Lot : LotOK(o)'
  BY <1>1, <1>4, <1>5, SameLotOK DEF OthersSame
<1>7. KeysAnswerForOwnRecovery'
  BY <1>2, <1>4, KeysKept DEF AtLeastRecovered, Moved
<1>8. CodesUnique'
  BY <1>2, <1>4, CodesKept DEF Moved, InspectionTarget
<1>9. QED
  BY <1>4, <1>6, <1>7, <1>8 DEF IInv, TypeOK

\* A reservation takes an inspected lot off the shelf.
LEMMA ReserveKeepsIInv ==
  ASSUME IInv, NEW p \in Principal, NEW id \in Lot,
         Reserve(p, id)
  PROVE  IInv'
<1>1. db \in Database /\ \A o \in Lot : LotOK(o)
  BY DEF IInv, TypeOK
<1>2. db.lots[id] # NoLot /\ db.lots[id].tenant = p.tenant
      /\ db.lots[id].state = "inspected" /\ db.lots[id].hazard < HazardLimit
  BY DEF Reserve, LotFound, CanReserve
<1> DEFINE e == ReserveTx(db, p, id)
<1>E. /\ e \in Database
      /\ Moved(db, e, id, "reserved")
      /\ OthersSame(db, e, id)
      /\ e.audit[id] = Append(db.audit[id],
           [tenant |-> p.tenant, action |-> "reserve", result |-> "station"])
      /\ e.inspections[id] = db.inspections[id]
      /\ e.reservations[id] = Append(db.reservations[id],
           [tenant |-> p.tenant])
      /\ e.recoveries[id] = db.recoveries[id]
      /\ e.certificates[id] = db.certificates[id]
      /\ e.outbox[id] = db.outbox[id]
      /\ e.idempotency = db.idempotency
  <2>1. db \in Database /\ db.lots[id] # NoLot
    BY <1>1, <1>2
  <2>2. QED
    BY <2>1, ReserveEffect, ZenonT(60)
<1>3. db' = e
  BY DEF Reserve
<1> HIDE DEF e
<1>4. /\ db' \in Database
      /\ Moved(db, db', id, "reserved")
      /\ OthersSame(db, db', id)
      /\ db'.audit[id] = Append(db.audit[id],
           [tenant |-> p.tenant, action |-> "reserve", result |-> "station"])
      /\ db'.inspections[id] = db.inspections[id]
      /\ db'.reservations[id] = Append(db.reservations[id],
           [tenant |-> p.tenant])
      /\ db'.recoveries[id] = db.recoveries[id]
      /\ db'.certificates[id] = db.certificates[id]
      /\ db'.outbox[id] = db.outbox[id]
      /\ db'.idempotency = db.idempotency
  BY <1>E, <1>3
<1>5. LotOK(id)'
  <2>1. LotExplained(id)
    BY <1>1, <1>2 DEF LotOK, Present
  <2>2. /\ HasRows(db.audit[id], 2, p.tenant)
        /\ HasRows(db.inspections[id], 1, p.tenant)
        /\ HasRows(db.reservations[id], 0, p.tenant)
        /\ HasRows(db.recoveries[id], 0, p.tenant)
        /\ HasRows(db.outbox[id], 0, p.tenant)
        /\ HasRows(db.certificates[id], 0, p.tenant)
        /\ db.lots[id].version = 2
        /\ \A i \in 1..2 : db.audit[id][i].action = Path[i]
    BY <1>2, <2>1 DEF LotExplained, Stage, AtLeastReserved, AtLeastRecovered
  <2>3. /\ HasRows(db'.audit[id], 3, p.tenant)
        /\ HasRows(db'.inspections[id], 1, p.tenant)
        /\ HasRows(db'.reservations[id], 1, p.tenant)
        /\ HasRows(db'.recoveries[id], 0, p.tenant)
        /\ HasRows(db'.outbox[id], 0, p.tenant)
        /\ HasRows(db'.certificates[id], 0, p.tenant)
    <3>1. HasRows(db'.audit[id], 3, p.tenant)
      <4> DEFINE S == [tenant : Tenant, action : AuditAction, result : AuditResult]
                 row == [tenant |-> p.tenant, action |-> "reserve", result |-> "station"]
      <4>1. row \in S /\ row.tenant = p.tenant
        BY PrincipalTenant DEF AuditAction, AuditResult
      <4>2. db.audit[id] \in Seq(S) /\ HasRows(db.audit[id], 2, p.tenant)
        BY <1>1, <2>2, TableTypes
      <4>3. db'.audit[id] = Append(db.audit[id], row)
        BY <1>4
      <4> HIDE DEF S, row
      <4>4. HasRows(Append(db.audit[id], row), 2 + 1, p.tenant)
        BY <4>1, <4>2, AppendHasRows
      <4>5. QED
        BY <4>3, <4>4
    <3>2. HasRows(db'.reservations[id], 1, p.tenant)
      <4> DEFINE S == [tenant : Tenant]
                 row == [tenant |-> p.tenant]
      <4>1. row \in S /\ row.tenant = p.tenant
        BY PrincipalTenant
      <4>2. db.reservations[id] \in Seq(S) /\ HasRows(db.reservations[id], 0, p.tenant)
        BY <1>1, <2>2, TableTypes
      <4>3. db'.reservations[id] = Append(db.reservations[id], row)
        BY <1>4
      <4> HIDE DEF S, row
      <4>4. HasRows(Append(db.reservations[id], row), 0 + 1, p.tenant)
        BY <4>1, <4>2, AppendHasRows
      <4>5. QED
        BY <4>3, <4>4
    <3>3. QED
      BY <1>4, <2>2, <3>1, <3>2
  <2>4. \A i \in 1..3 : db'.audit[id][i].action = Path[i]
    <3> DEFINE S == [tenant : Tenant, action : AuditAction, result : AuditResult]
               row == [tenant |-> p.tenant, action |-> "reserve", result |-> "station"]
    <3>1. row \in S
      BY PrincipalTenant DEF AuditAction, AuditResult
    <3>2. db.audit[id] \in Seq(S)
      BY <1>1, TableTypes
    <3>3. Len(db.audit[id]) = 2 /\ \A i \in 1..2 : db.audit[id][i].action = Path[i]
      BY <2>2 DEF HasRows
    <3>4. db'.audit[id] = Append(db.audit[id], row) /\ row.action = Path[3]
      BY <1>4 DEF Path
    <3> HIDE DEF S, row
    <3>5. \A i \in 1..3 : Append(db.audit[id], row)[i].action = Path[i]
      BY <3>1, <3>2, <3>3, <3>4, AppendAction, SMTT(60)
    <3>6. QED
      BY <3>4, <3>5
  <2>5. /\ db'.lots[id].version = 3 /\ db'.lots[id].state = "reserved"
        /\ db'.lots[id].tenant = p.tenant
        /\ db'.lots[id].code = db.lots[id].code
        /\ db'.lots[id].hazard = db.lots[id].hazard
    BY <1>2, <1>4, <2>2 DEF Moved
  <2>6. LotExplained(id)'
    BY <1>2, <1>4, <2>1, <2>2, <2>3, <2>4, <2>5 DEF LotExplained, Stage, AtLeastReserved, AtLeastRecovered, Moved
  <2>7. QED
    BY <1>4, <2>6 DEF LotOK, Present, Moved
<1>6. \A o \in Lot : LotOK(o)'
  BY <1>1, <1>4, <1>5, SameLotOK DEF OthersSame
<1>7. KeysAnswerForOwnRecovery'
  BY <1>2, <1>4, KeysKept DEF AtLeastRecovered, Moved
<1>8. CodesUnique'
  BY <1>2, <1>4, CodesKept DEF Moved
<1>9. QED
  BY <1>4, <1>6, <1>7, <1>8 DEF IInv, TypeOK

\* Dismantling starts for a reserved lot.
LEMMA BeginDismantlingKeepsIInv ==
  ASSUME IInv, NEW p \in Principal, NEW id \in Lot,
         BeginDismantling(p, id)
  PROVE  IInv'
<1>1. db \in Database /\ \A o \in Lot : LotOK(o)
  BY DEF IInv, TypeOK
<1>2. db.lots[id] # NoLot /\ db.lots[id].tenant = p.tenant
      /\ db.lots[id].state = "reserved"
  BY DEF BeginDismantling, LotFound
<1> DEFINE e == DismantlingTx(db, p, id)
<1>E. /\ e \in Database
      /\ Moved(db, e, id, "dismantling")
      /\ OthersSame(db, e, id)
      /\ e.audit[id] = Append(db.audit[id],
           [tenant |-> p.tenant, action |-> "dismantling", result |-> "started"])
      /\ e.inspections[id] = db.inspections[id]
      /\ e.reservations[id] = db.reservations[id]
      /\ e.recoveries[id] = db.recoveries[id]
      /\ e.certificates[id] = db.certificates[id]
      /\ e.outbox[id] = db.outbox[id]
      /\ e.idempotency = db.idempotency
  <2>1. db \in Database /\ db.lots[id] # NoLot
    BY <1>1, <1>2
  <2>2. QED
    BY <2>1, DismantlingEffect, ZenonT(60)
<1>3. db' = e
  BY DEF BeginDismantling
<1> HIDE DEF e
<1>4. /\ db' \in Database
      /\ Moved(db, db', id, "dismantling")
      /\ OthersSame(db, db', id)
      /\ db'.audit[id] = Append(db.audit[id],
           [tenant |-> p.tenant, action |-> "dismantling", result |-> "started"])
      /\ db'.inspections[id] = db.inspections[id]
      /\ db'.reservations[id] = db.reservations[id]
      /\ db'.recoveries[id] = db.recoveries[id]
      /\ db'.certificates[id] = db.certificates[id]
      /\ db'.outbox[id] = db.outbox[id]
      /\ db'.idempotency = db.idempotency
  BY <1>E, <1>3
<1>5. LotOK(id)'
  <2>1. LotExplained(id)
    BY <1>1, <1>2 DEF LotOK, Present
  <2>2. /\ HasRows(db.audit[id], 3, p.tenant)
        /\ HasRows(db.inspections[id], 1, p.tenant)
        /\ HasRows(db.reservations[id], 1, p.tenant)
        /\ HasRows(db.recoveries[id], 0, p.tenant)
        /\ HasRows(db.outbox[id], 0, p.tenant)
        /\ HasRows(db.certificates[id], 0, p.tenant)
        /\ db.lots[id].version = 3
        /\ \A i \in 1..3 : db.audit[id][i].action = Path[i]
    BY <1>2, <2>1 DEF LotExplained, Stage, AtLeastReserved, AtLeastRecovered
  <2>3. /\ HasRows(db'.audit[id], 4, p.tenant)
        /\ HasRows(db'.inspections[id], 1, p.tenant)
        /\ HasRows(db'.reservations[id], 1, p.tenant)
        /\ HasRows(db'.recoveries[id], 0, p.tenant)
        /\ HasRows(db'.outbox[id], 0, p.tenant)
        /\ HasRows(db'.certificates[id], 0, p.tenant)
    <3>1. HasRows(db'.audit[id], 4, p.tenant)
      <4> DEFINE S == [tenant : Tenant, action : AuditAction, result : AuditResult]
                 row == [tenant |-> p.tenant, action |-> "dismantling", result |-> "started"]
      <4>1. row \in S /\ row.tenant = p.tenant
        BY PrincipalTenant DEF AuditAction, AuditResult
      <4>2. db.audit[id] \in Seq(S) /\ HasRows(db.audit[id], 3, p.tenant)
        BY <1>1, <2>2, TableTypes
      <4>3. db'.audit[id] = Append(db.audit[id], row)
        BY <1>4
      <4> HIDE DEF S, row
      <4>4. HasRows(Append(db.audit[id], row), 3 + 1, p.tenant)
        BY <4>1, <4>2, AppendHasRows
      <4>5. QED
        BY <4>3, <4>4
    <3>2. QED
      BY <1>4, <2>2, <3>1
  <2>4. \A i \in 1..4 : db'.audit[id][i].action = Path[i]
    <3> DEFINE S == [tenant : Tenant, action : AuditAction, result : AuditResult]
               row == [tenant |-> p.tenant, action |-> "dismantling", result |-> "started"]
    <3>1. row \in S
      BY PrincipalTenant DEF AuditAction, AuditResult
    <3>2. db.audit[id] \in Seq(S)
      BY <1>1, TableTypes
    <3>3. Len(db.audit[id]) = 3 /\ \A i \in 1..3 : db.audit[id][i].action = Path[i]
      BY <2>2 DEF HasRows
    <3>4. db'.audit[id] = Append(db.audit[id], row) /\ row.action = Path[4]
      BY <1>4 DEF Path
    <3> HIDE DEF S, row
    <3>5. \A i \in 1..4 : Append(db.audit[id], row)[i].action = Path[i]
      BY <3>1, <3>2, <3>3, <3>4, AppendAction, SMTT(60)
    <3>6. QED
      BY <3>4, <3>5
  <2>5. /\ db'.lots[id].version = 4 /\ db'.lots[id].state = "dismantling"
        /\ db'.lots[id].tenant = p.tenant
        /\ db'.lots[id].code = db.lots[id].code
        /\ db'.lots[id].hazard = db.lots[id].hazard
    BY <1>2, <1>4, <2>2 DEF Moved
  <2>6. LotExplained(id)'
    BY <1>2, <1>4, <2>1, <2>2, <2>3, <2>4, <2>5 DEF LotExplained, Stage, AtLeastReserved, AtLeastRecovered, Moved
  <2>7. QED
    BY <1>4, <2>6 DEF LotOK, Present, Moved
<1>6. \A o \in Lot : LotOK(o)'
  BY <1>1, <1>4, <1>5, SameLotOK DEF OthersSame
<1>7. KeysAnswerForOwnRecovery'
  BY <1>2, <1>4, KeysKept DEF AtLeastRecovered, Moved
<1>8. CodesUnique'
  BY <1>2, <1>4, CodesKept DEF Moved
<1>9. QED
  BY <1>4, <1>6, <1>7, <1>8 DEF IInv, TypeOK

\* A recovery writes its balance, event and key together.
LEMMA RecoverKeepsIInv ==
  ASSUME IInv, NEW p \in Principal, NEW id \in Lot,
         NEW grams \in Weights, NEW key \in KeyOrNone,
         Recover(p, id, grams, key)
  PROVE  IInv'
<1>1. db \in Database /\ \A o \in Lot : LotOK(o)
  BY DEF IInv, TypeOK
<1>2. db.lots[id] # NoLot /\ db.lots[id].tenant = p.tenant
      /\ db.lots[id].state = "dismantling"
  BY DEF Recover, LotFound, CanRecover
<1> DEFINE e == RecoverTx(db, p, id, grams, key)
<1>E. /\ e \in Database
      /\ Moved(db, e, id, "recovered")
      /\ OthersSame(db, e, id)
      /\ e.audit[id] = Append(db.audit[id],
           [tenant |-> p.tenant, action |-> "recover", result |-> "confirmed"])
      /\ e.inspections[id] = db.inspections[id]
      /\ e.reservations[id] = db.reservations[id]
      /\ e.recoveries[id] = Append(db.recoveries[id],
           [tenant |-> p.tenant, grams |-> grams])
      /\ e.certificates[id] = db.certificates[id]
      /\ e.outbox[id] = Append(db.outbox[id],
           [tenant |-> p.tenant])
      /\ KeyStored(db, e, p.tenant, key, id)
  <2>1. db \in Database /\ db.lots[id] # NoLot
    BY <1>1, <1>2
  <2>2. QED
    BY <2>1, RecoverEffect, ZenonT(60)
<1>3. db' = e
  BY DEF Recover
<1> HIDE DEF e
<1>4. /\ db' \in Database
      /\ Moved(db, db', id, "recovered")
      /\ OthersSame(db, db', id)
      /\ db'.audit[id] = Append(db.audit[id],
           [tenant |-> p.tenant, action |-> "recover", result |-> "confirmed"])
      /\ db'.inspections[id] = db.inspections[id]
      /\ db'.reservations[id] = db.reservations[id]
      /\ db'.recoveries[id] = Append(db.recoveries[id],
           [tenant |-> p.tenant, grams |-> grams])
      /\ db'.certificates[id] = db.certificates[id]
      /\ db'.outbox[id] = Append(db.outbox[id],
           [tenant |-> p.tenant])
  BY <1>E, <1>3
<1>I. KeyStored(db, db', p.tenant, key, id)
  BY <1>E, <1>3
<1>5. LotOK(id)'
  <2>1. LotExplained(id)
    BY <1>1, <1>2 DEF LotOK, Present
  <2>2. /\ HasRows(db.audit[id], 4, p.tenant)
        /\ HasRows(db.inspections[id], 1, p.tenant)
        /\ HasRows(db.reservations[id], 1, p.tenant)
        /\ HasRows(db.recoveries[id], 0, p.tenant)
        /\ HasRows(db.outbox[id], 0, p.tenant)
        /\ HasRows(db.certificates[id], 0, p.tenant)
        /\ db.lots[id].version = 4
        /\ \A i \in 1..4 : db.audit[id][i].action = Path[i]
    BY <1>2, <2>1 DEF LotExplained, Stage, AtLeastReserved, AtLeastRecovered
  <2>3. /\ HasRows(db'.audit[id], 5, p.tenant)
        /\ HasRows(db'.inspections[id], 1, p.tenant)
        /\ HasRows(db'.reservations[id], 1, p.tenant)
        /\ HasRows(db'.recoveries[id], 1, p.tenant)
        /\ HasRows(db'.outbox[id], 1, p.tenant)
        /\ HasRows(db'.certificates[id], 0, p.tenant)
    <3>1. HasRows(db'.audit[id], 5, p.tenant)
      <4> DEFINE S == [tenant : Tenant, action : AuditAction, result : AuditResult]
                 row == [tenant |-> p.tenant, action |-> "recover", result |-> "confirmed"]
      <4>1. row \in S /\ row.tenant = p.tenant
        BY PrincipalTenant DEF AuditAction, AuditResult
      <4>2. db.audit[id] \in Seq(S) /\ HasRows(db.audit[id], 4, p.tenant)
        BY <1>1, <2>2, TableTypes
      <4>3. db'.audit[id] = Append(db.audit[id], row)
        BY <1>4
      <4> HIDE DEF S, row
      <4>4. HasRows(Append(db.audit[id], row), 4 + 1, p.tenant)
        BY <4>1, <4>2, AppendHasRows
      <4>5. QED
        BY <4>3, <4>4
    <3>2. HasRows(db'.recoveries[id], 1, p.tenant)
      <4> DEFINE S == [tenant : Tenant, grams : Weights]
                 row == [tenant |-> p.tenant, grams |-> grams]
      <4>1. row \in S /\ row.tenant = p.tenant
        BY PrincipalTenant
      <4>2. db.recoveries[id] \in Seq(S) /\ HasRows(db.recoveries[id], 0, p.tenant)
        BY <1>1, <2>2, TableTypes
      <4>3. db'.recoveries[id] = Append(db.recoveries[id], row)
        BY <1>4
      <4> HIDE DEF S, row
      <4>4. HasRows(Append(db.recoveries[id], row), 0 + 1, p.tenant)
        BY <4>1, <4>2, AppendHasRows
      <4>5. QED
        BY <4>3, <4>4
    <3>3. HasRows(db'.outbox[id], 1, p.tenant)
      <4> DEFINE S == [tenant : Tenant]
                 row == [tenant |-> p.tenant]
      <4>1. row \in S /\ row.tenant = p.tenant
        BY PrincipalTenant
      <4>2. db.outbox[id] \in Seq(S) /\ HasRows(db.outbox[id], 0, p.tenant)
        BY <1>1, <2>2, TableTypes
      <4>3. db'.outbox[id] = Append(db.outbox[id], row)
        BY <1>4
      <4> HIDE DEF S, row
      <4>4. HasRows(Append(db.outbox[id], row), 0 + 1, p.tenant)
        BY <4>1, <4>2, AppendHasRows
      <4>5. QED
        BY <4>3, <4>4
    <3>4. QED
      BY <1>4, <2>2, <3>1, <3>2, <3>3
  <2>4. \A i \in 1..5 : db'.audit[id][i].action = Path[i]
    <3> DEFINE S == [tenant : Tenant, action : AuditAction, result : AuditResult]
               row == [tenant |-> p.tenant, action |-> "recover", result |-> "confirmed"]
    <3>1. row \in S
      BY PrincipalTenant DEF AuditAction, AuditResult
    <3>2. db.audit[id] \in Seq(S)
      BY <1>1, TableTypes
    <3>3. Len(db.audit[id]) = 4 /\ \A i \in 1..4 : db.audit[id][i].action = Path[i]
      BY <2>2 DEF HasRows
    <3>4. db'.audit[id] = Append(db.audit[id], row) /\ row.action = Path[5]
      BY <1>4 DEF Path
    <3> HIDE DEF S, row
    <3>5. \A i \in 1..5 : Append(db.audit[id], row)[i].action = Path[i]
      BY <3>1, <3>2, <3>3, <3>4, AppendAction, SMTT(60)
    <3>6. QED
      BY <3>4, <3>5
  <2>5. /\ db'.lots[id].version = 5 /\ db'.lots[id].state = "recovered"
        /\ db'.lots[id].tenant = p.tenant
        /\ db'.lots[id].code = db.lots[id].code
        /\ db'.lots[id].hazard = db.lots[id].hazard
    BY <1>2, <1>4, <2>2 DEF Moved
  <2>6. LotExplained(id)'
    BY <1>2, <1>4, <2>1, <2>2, <2>3, <2>4, <2>5 DEF LotExplained, Stage, AtLeastReserved, AtLeastRecovered, Moved
  <2>7. QED
    BY <1>4, <2>6 DEF LotOK, Present, Moved
<1>6. \A o \in Lot : LotOK(o)'
  BY <1>1, <1>4, <1>5, SameLotOK DEF OthersSame
<1>7. KeysAnswerForOwnRecovery'
  <2> SUFFICES ASSUME NEW t \in Tenant, NEW k \in Key,
                      db'.idempotency[t][k] # NoLot
               PROVE  LET o == db'.idempotency[t][k] IN
                      /\ db'.lots[o] # NoLot
                      /\ db'.lots[o].tenant = t
                      /\ db'.lots[o].state \in AtLeastRecovered
    BY DEF KeysAnswerForOwnRecovery, Present, StateOf
  <2>1. CASE t = p.tenant /\ k = key
    <3>1. db'.idempotency[t][k] = id
      BY <1>I, <2>1 DEF KeyStored
    <3>2. QED
      BY <1>2, <1>4, <2>1, <3>1 DEF Moved, AtLeastRecovered
  <2>2. CASE ~(t = p.tenant /\ k = key)
    <3> DEFINE o == db.idempotency[t][k]
    <3>1. db'.idempotency[t][k] = o
      BY <1>I, <2>2 DEF KeyStored
    <3>2. o \in Lot
      BY <1>1, <3>1, TableTypes
    <3>3. /\ db.lots[o] # NoLot
          /\ db.lots[o].tenant = t
          /\ db.lots[o].state \in AtLeastRecovered
      BY <3>1 DEF IInv, KeysAnswerForOwnRecovery, Present, StateOf
    <3> HIDE DEF o
    <3>4. o # id
      BY <1>2, <3>3 DEF AtLeastRecovered
    <3>5. QED
      BY <1>4, <3>1, <3>2, <3>3, <3>4 DEF OthersSame, SameRows
  <2>3. QED
    BY <2>1, <2>2
<1>8. CodesUnique'
  BY <1>2, <1>4, CodesKept DEF Moved
<1>9. QED
  BY <1>4, <1>6, <1>7, <1>8 DEF IInv, TypeOK

\* A certificate takes a serial that no certificate has.
LEMMA CertifyKeepsIInv ==
  ASSUME IInv, NEW p \in Principal, NEW id \in Lot,
         Certify(p, id)
  PROVE  IInv'
<1>1. db \in Database /\ \A o \in Lot : LotOK(o)
  BY DEF IInv, TypeOK
<1>2. db.lots[id] # NoLot /\ db.lots[id].tenant = p.tenant
      /\ db.lots[id].state = "recovered"
  BY DEF Certify, LotFound, CanCertify
<1> DEFINE e == CertifyTx(db, p, id)
<1>E. /\ e \in Database
      /\ Moved(db, e, id, "certified")
      /\ OthersSame(db, e, id)
      /\ e.audit[id] = Append(db.audit[id],
           [tenant |-> p.tenant, action |-> "certificate", result |-> "issued"])
      /\ e.inspections[id] = db.inspections[id]
      /\ e.reservations[id] = db.reservations[id]
      /\ e.recoveries[id] = db.recoveries[id]
      /\ e.certificates[id] = Append(db.certificates[id],
           [tenant |-> p.tenant, serial |-> Serial(db.lots[id].code)])
      /\ e.outbox[id] = db.outbox[id]
      /\ e.idempotency = db.idempotency
  <2>1. db \in Database /\ db.lots[id] # NoLot
    BY <1>1, <1>2
  <2>2. QED
    BY <2>1, CertifyEffect, ZenonT(60)
<1>3. db' = e
  BY DEF Certify
<1> HIDE DEF e
<1>4. /\ db' \in Database
      /\ Moved(db, db', id, "certified")
      /\ OthersSame(db, db', id)
      /\ db'.audit[id] = Append(db.audit[id],
           [tenant |-> p.tenant, action |-> "certificate", result |-> "issued"])
      /\ db'.inspections[id] = db.inspections[id]
      /\ db'.reservations[id] = db.reservations[id]
      /\ db'.recoveries[id] = db.recoveries[id]
      /\ db'.certificates[id] = Append(db.certificates[id],
           [tenant |-> p.tenant, serial |-> Serial(db.lots[id].code)])
      /\ db'.outbox[id] = db.outbox[id]
      /\ db'.idempotency = db.idempotency
  BY <1>E, <1>3
<1>5. LotOK(id)'
  <2>1. LotExplained(id)
    BY <1>1, <1>2 DEF LotOK, Present
  <2>2. /\ HasRows(db.audit[id], 5, p.tenant)
        /\ HasRows(db.inspections[id], 1, p.tenant)
        /\ HasRows(db.reservations[id], 1, p.tenant)
        /\ HasRows(db.recoveries[id], 1, p.tenant)
        /\ HasRows(db.outbox[id], 1, p.tenant)
        /\ HasRows(db.certificates[id], 0, p.tenant)
        /\ db.lots[id].version = 5
        /\ \A i \in 1..5 : db.audit[id][i].action = Path[i]
    BY <1>2, <2>1 DEF LotExplained, Stage, AtLeastReserved, AtLeastRecovered
  <2>3. /\ HasRows(db'.audit[id], 6, p.tenant)
        /\ HasRows(db'.inspections[id], 1, p.tenant)
        /\ HasRows(db'.reservations[id], 1, p.tenant)
        /\ HasRows(db'.recoveries[id], 1, p.tenant)
        /\ HasRows(db'.outbox[id], 1, p.tenant)
        /\ HasRows(db'.certificates[id], 1, p.tenant)
    <3>1. HasRows(db'.audit[id], 6, p.tenant)
      <4> DEFINE S == [tenant : Tenant, action : AuditAction, result : AuditResult]
                 row == [tenant |-> p.tenant, action |-> "certificate", result |-> "issued"]
      <4>1. row \in S /\ row.tenant = p.tenant
        BY PrincipalTenant DEF AuditAction, AuditResult
      <4>2. db.audit[id] \in Seq(S) /\ HasRows(db.audit[id], 5, p.tenant)
        BY <1>1, <2>2, TableTypes
      <4>3. db'.audit[id] = Append(db.audit[id], row)
        BY <1>4
      <4> HIDE DEF S, row
      <4>4. HasRows(Append(db.audit[id], row), 5 + 1, p.tenant)
        BY <4>1, <4>2, AppendHasRows
      <4>5. QED
        BY <4>3, <4>4
    <3>2. HasRows(db'.certificates[id], 1, p.tenant)
      <4> DEFINE S == [tenant : Tenant, serial : {Serial(c) : c \in Code}]
                 row == [tenant |-> p.tenant, serial |-> Serial(db.lots[id].code)]
      <4>0. db.lots[id].code \in Code
        BY <1>1, <1>2, TableTypes DEF LotRow
      <4>1. row \in S /\ row.tenant = p.tenant
        BY <4>0, PrincipalTenant
      <4>2. db.certificates[id] \in Seq(S) /\ HasRows(db.certificates[id], 0, p.tenant)
        BY <1>1, <2>2, TableTypes
      <4>3. db'.certificates[id] = Append(db.certificates[id], row)
        BY <1>4
      <4> HIDE DEF S, row
      <4>4. HasRows(Append(db.certificates[id], row), 0 + 1, p.tenant)
        BY <4>1, <4>2, AppendHasRows
      <4>5. QED
        BY <4>3, <4>4
    <3>3. QED
      BY <1>4, <2>2, <3>1, <3>2
  <2>4. \A i \in 1..6 : db'.audit[id][i].action = Path[i]
    <3> DEFINE S == [tenant : Tenant, action : AuditAction, result : AuditResult]
               row == [tenant |-> p.tenant, action |-> "certificate", result |-> "issued"]
    <3>1. row \in S
      BY PrincipalTenant DEF AuditAction, AuditResult
    <3>2. db.audit[id] \in Seq(S)
      BY <1>1, TableTypes
    <3>3. Len(db.audit[id]) = 5 /\ \A i \in 1..5 : db.audit[id][i].action = Path[i]
      BY <2>2 DEF HasRows
    <3>4. db'.audit[id] = Append(db.audit[id], row) /\ row.action = Path[6]
      BY <1>4 DEF Path
    <3> HIDE DEF S, row
    <3>5. \A i \in 1..6 : Append(db.audit[id], row)[i].action = Path[i]
      <4>1. TAKE i \in 1..6
      <4>2. CASE i \in 1..5
        <5>1. Append(db.audit[id], row)[i] = db.audit[id][i]
          BY <3>1, <3>2, <3>3, <4>2
        <5>2. QED
          BY <3>3, <4>2, <5>1
      <4>3. CASE i = 6
        <5>1. Append(db.audit[id], row)[6] = row
          BY <3>1, <3>2, <3>3
        <5>2. QED
          BY <3>4, <4>3, <5>1
      <4>4. i \in 1..5 \/ i = 6
        BY <4>1
      <4>5. QED
        BY <4>2, <4>3, <4>4
    <3>6. QED
      BY <3>4, <3>5
  <2>5. db'.certificates[id][1].serial = Serial(db.lots[id].code)
    BY <1>1, <1>4, <2>2, TableTypes DEF HasRows
  <2>6. /\ db'.lots[id].version = 6 /\ db'.lots[id].state = "certified"
        /\ db'.lots[id].tenant = p.tenant
        /\ db'.lots[id].code = db.lots[id].code
        /\ db'.lots[id].hazard = db.lots[id].hazard
    BY <1>2, <1>4, <2>2 DEF Moved
  <2>7. LotExplained(id)'
    BY <1>2, <1>4, <2>1, <2>2, <2>3, <2>4, <2>5, <2>6 DEF LotExplained, Stage, AtLeastReserved, AtLeastRecovered, Moved
  <2>8. QED
    BY <1>4, <2>7 DEF LotOK, Present, Moved
<1>6. \A o \in Lot : LotOK(o)'
  BY <1>1, <1>4, <1>5, SameLotOK DEF OthersSame
<1>7. KeysAnswerForOwnRecovery'
  BY <1>2, <1>4, KeysKept DEF AtLeastRecovered, Moved
<1>8. CodesUnique'
  <2>1. ASSUME NEW o \in Lot, o # id, db.lots[o] # NoLot,
               db.lots[o].code = db.lots[id].code
        PROVE  db.lots[o].state # "certified"
    <3>1. SUFFICES ASSUME db.lots[o].state = "certified" PROVE FALSE
      OBVIOUS
    <3>2. LotExplained(o)
      BY <1>1, <2>1 DEF LotOK, Present
    <3>3. Len(db.certificates[o]) = 1
          /\ db.certificates[o][1].serial = Serial(db.lots[id].code)
      BY <2>1, <3>1, <3>2 DEF LotExplained, HasRows
    <3>4. QED
      BY <3>3 DEF Certify, SerialUnique
  <2>2. QED
    BY <1>2, <1>4, <2>1, CodesKept DEF Moved
<1>9. QED
  BY <1>4, <1>6, <1>7, <1>8 DEF IInv, TypeOK

\* The invariant is inductive: every operation keeps it, and so does a step
\* that leaves the database alone (a refused request).
LEMMA NextKeepsIInv ==
  ASSUME IInv, [Next]_vars
  PROVE  IInv'
<1>1. CASE UNCHANGED vars
  BY <1>1 DEF vars, IInv, TypeOK, LotOK, LotExplained, Unused, Present,
       StateOf, KeysAnswerForOwnRecovery, CodesUnique
<1>2. CASE Next
  <2>1. PICK p \in Principal, id \in Lot :
          \/ \E code \in Code, hazard \in Hazard : Intake(p, id, code, hazard)
          \/ \E result \in Result : Inspect(p, id, result)
          \/ Reserve(p, id)
          \/ BeginDismantling(p, id)
          \/ \E grams \in Weights, key \in KeyOrNone :
               Recover(p, id, grams, key)
          \/ Certify(p, id)
    BY <1>2 DEF Next
  <2>2. CASE \E code \in Code, hazard \in Hazard : Intake(p, id, code, hazard)
    BY <2>2, IntakeKeepsIInv
  <2>3. CASE \E result \in Result : Inspect(p, id, result)
    BY <2>3, InspectKeepsIInv
  <2>4. CASE Reserve(p, id)
    BY <2>4, ReserveKeepsIInv
  <2>5. CASE BeginDismantling(p, id)
    BY <2>5, BeginDismantlingKeepsIInv
  <2>6. CASE \E grams \in Weights, key \in KeyOrNone : Recover(p, id, grams, key)
    BY <2>6, RecoverKeepsIInv
  <2>7. CASE Certify(p, id)
    BY <2>7, CertifyKeepsIInv
  <2>8. QED
    BY <2>1, <2>2, <2>3, <2>4, <2>5, <2>6, <2>7
<1>3. QED
  BY <1>1, <1>2

----------------------------------------------------------------------------
(* The invariant implies the properties *)

\* Audit trails that explain their lots can be replayed.
LEMMA ImpliesAuditReplays == IInv => AuditReplays
<1>1. SUFFICES ASSUME IInv, NEW id \in Lot
               PROVE  IF Present(id)
                        THEN /\ Len(db.audit[id]) = db.lots[id].version
                             /\ Len(db.audit[id]) = Stage(StateOf(id))
                             /\ \A i \in 1..Len(db.audit[id]) :
                                  db.audit[id][i].action = Path[i]
                        ELSE db.audit[id] = <<>>
  BY DEF AuditReplays
<1>2. LotOK(id)
  BY <1>1 DEF IInv
<1>3. CASE Present(id)
  BY <1>2, <1>3 DEF LotOK, LotExplained, HasRows, StateOf
<1>4. CASE ~Present(id)
  BY <1>2, <1>4 DEF LotOK, Unused
<1>5. QED
  BY <1>3, <1>4

\* The number of reservations follows from the state.
LEMMA ImpliesOneReservation == IInv => OneReservation
<1>1. SUFFICES ASSUME IInv, NEW id \in Lot
               PROVE  Len(db.reservations[id]) =
                        IF Present(id) /\ StateOf(id) \in AtLeastReserved
                          THEN 1 ELSE 0
  BY DEF OneReservation
<1>2. LotOK(id)
  BY <1>1 DEF IInv
<1>3. CASE Present(id)
  BY <1>2, <1>3 DEF LotOK, LotExplained, HasRows, StateOf
<1>4. CASE ~Present(id)
  BY <1>2, <1>4 DEF LotOK, Unused
<1>5. QED
  BY <1>3, <1>4

\* So do the numbers of balances and of outbox events.
LEMMA ImpliesRecoveredOnce == IInv => RecoveredOnce
<1>1. SUFFICES ASSUME IInv, NEW id \in Lot
               PROVE  LET n == IF Present(id) /\ StateOf(id) \in AtLeastRecovered
                                 THEN 1 ELSE 0
                      IN  Len(db.recoveries[id]) = n /\ Len(db.outbox[id]) = n
  BY DEF RecoveredOnce
<1>2. LotOK(id)
  BY <1>1 DEF IInv
<1>3. CASE Present(id)
  BY <1>2, <1>3 DEF LotOK, LotExplained, HasRows, StateOf
<1>4. CASE ~Present(id)
  BY <1>2, <1>4 DEF LotOK, Unused
<1>5. QED
  BY <1>3, <1>4

\* A reserved lot has its one inspection, which did not hold it back.
LEMMA ImpliesOnlySafeLotsReserved == IInv => OnlySafeLotsReserved
<1>1. SUFFICES ASSUME IInv, NEW id \in Lot, Present(id),
                      StateOf(id) \in AtLeastReserved
               PROVE  /\ db.lots[id].hazard < HazardLimit
                      /\ \A i \in 1..Len(db.inspections[id]) :
                           db.inspections[id][i].result \notin {"hold", "reject"}
                      /\ Len(db.inspections[id]) = 1
  BY DEF OnlySafeLotsReserved
<1>2. LotExplained(id)
  BY <1>1 DEF IInv, LotOK
<1>3. db.lots[id].state # "received" /\ db.lots[id].state # "quarantined"
  BY <1>1 DEF AtLeastReserved, StateOf
<1>4. /\ Len(db.inspections[id]) = 1
      /\ db.inspections[id][1].result \notin {"hold", "reject"}
  BY <1>2, <1>3 DEF LotExplained, HasRows
<1>5. db.lots[id].hazard < HazardLimit
  BY <1>1, <1>2 DEF LotExplained, StateOf
<1>6. QED
  BY <1>4, <1>5

\* Every row of a lot has the tenant of the lot.
LEMMA ImpliesTenantIsolation == IInv => TenantIsolation
<1>1. SUFFICES ASSUME IInv, NEW id \in Lot
               PROVE  /\ Belong(db.inspections[id], id)
                      /\ Belong(db.reservations[id], id)
                      /\ Belong(db.recoveries[id], id)
                      /\ Belong(db.certificates[id], id)
                      /\ Belong(db.audit[id], id)
                      /\ Belong(db.outbox[id], id)
  BY DEF TenantIsolation
<1>2. LotOK(id)
  BY <1>1 DEF IInv
<1>3. CASE Present(id)
  <2>1. LotExplained(id)
    BY <1>2, <1>3 DEF LotOK
  <2>2. ASSUME NEW rows, NEW n, HasRows(rows, n, db.lots[id].tenant)
        PROVE  Belong(rows, id)
    BY <1>3, <2>2 DEF HasRows, Belong
  <2>3. QED
    BY <2>1, <2>2 DEF LotExplained
<1>4. CASE ~Present(id)
  BY <1>2, <1>4 DEF LotOK, Unused, Belong
<1>5. QED
  BY <1>3, <1>4

\* A certificate belongs to a certified lot and carries the serial of its code.
LEMMA CertificateExplained ==
  ASSUME IInv, NEW id \in Lot, NEW i \in 1..Len(db.certificates[id])
  PROVE  /\ Present(id) /\ StateOf(id) = "certified"
         /\ i = 1 /\ Len(db.certificates[id]) = 1
         /\ db.certificates[id][i].serial = Serial(db.lots[id].code)
         /\ db.certificates[id][i].tenant = db.lots[id].tenant
<1>1. LotOK(id)
  BY DEF IInv
<1>2. Present(id)
  BY <1>1 DEF LotOK, Unused
<1>3. LotExplained(id)
  BY <1>1, <1>2 DEF LotOK
<1>4. StateOf(id) = "certified"
  BY <1>3 DEF LotExplained, HasRows, StateOf
<1>5. Len(db.certificates[id]) = 1 /\ i = 1
  BY <1>3, <1>4 DEF LotExplained, HasRows, StateOf
<1>6. QED
  BY <1>2, <1>3, <1>4, <1>5 DEF LotExplained, HasRows, StateOf

\* Serials are equal exactly when codes are.
LEMMA SerialInjective == \A a, b : Serial(a) = Serial(b) => a = b
BY DEF Serial

\* Certified lots have different codes, hence different serials.
LEMMA ImpliesCertificatesUnique == IInv => CertificatesUnique
<1>1. SUFFICES ASSUME IInv PROVE CertificatesUnique
  OBVIOUS
<1>2. ASSUME NEW id \in Lot
      PROVE  Len(db.certificates[id]) =
               IF Present(id) /\ StateOf(id) = "certified" THEN 1 ELSE 0
  <2>1. LotOK(id)
    BY <1>1 DEF IInv
  <2>2. CASE Present(id)
    BY <2>1, <2>2 DEF LotOK, LotExplained, HasRows, StateOf
  <2>3. CASE ~Present(id)
    BY <2>1, <2>3 DEF LotOK, Unused
  <2>4. QED
    BY <2>2, <2>3
<1>3. ASSUME NEW a \in Lot, NEW b \in Lot, a # b,
             NEW i \in 1..Len(db.certificates[a]),
             NEW j \in 1..Len(db.certificates[b])
      PROVE  db.certificates[a][i].serial # db.certificates[b][j].serial
  <2>1. /\ Present(a) /\ StateOf(a) = "certified"
        /\ Present(b) /\ StateOf(b) = "certified"
        /\ db.certificates[a][i].serial = Serial(db.lots[a].code)
        /\ db.certificates[b][j].serial = Serial(db.lots[b].code)
    BY <1>1, <1>3, CertificateExplained
  <2>2. db.lots[a].code # db.lots[b].code
    BY <1>1, <1>3, <2>1 DEF IInv, CodesUnique
  <2>3. QED
    BY <2>1, <2>2, SerialInjective
<1>4. QED
  BY <1>2, <1>3 DEF CertificatesUnique

\* Within a tenant only the lot's own certificate could carry its serial.
LEMMA ImpliesSerialFreeWithinTenant == IInv => SerialFreeWithinTenant
<1>1. SUFFICES ASSUME IInv, NEW a \in Lot, NEW b \in Lot,
                      Present(a), StateOf(a) = "recovered",
                      NEW i \in 1..Len(db.certificates[b]),
                      db.certificates[b][i].serial = Serial(db.lots[a].code)
               PROVE  db.certificates[b][i].tenant # db.lots[a].tenant
  BY DEF SerialFreeWithinTenant
<1>2. /\ Present(b) /\ StateOf(b) = "certified"
      /\ db.certificates[b][i].serial = Serial(db.lots[b].code)
      /\ db.certificates[b][i].tenant = db.lots[b].tenant
  BY <1>1, CertificateExplained
<1>3. a # b /\ db.lots[a].code = db.lots[b].code
  BY <1>1, <1>2, SerialInjective
<1>4. QED
  BY <1>1, <1>2, <1>3 DEF IInv, CodesUnique

----------------------------------------------------------------------------
(* The theorems *)

\* The inductive invariant holds of every database the service can reach.
THEOREM Invariance == Spec => []IInv
<1>1. Init => IInv
  BY InitIInv
<1>2. IInv /\ [Next]_vars => IInv'
  BY NextKeepsIInv
<1>3. QED
  BY <1>1, <1>2, PTL DEF Spec

\* Every table holds rows of the right shape, whatever the tenants, lots,
\* people, codes and keys are.
THEOREM TypeCorrect == Spec => []TypeOK
<1>1. IInv => TypeOK
  BY DEF IInv
<1>2. QED
  BY <1>1, Invariance, PTL

\* The audit events of a lot can be replayed to the state it is in.
THEOREM AuditTrail == Spec => []AuditReplays
BY ImpliesAuditReplays, Invariance, PTL

\* No double booking, and no dismantling without a reservation.
THEOREM ReservedOnce == Spec => []OneReservation
BY ImpliesOneReservation, Invariance, PTL

\* Recover writes one balance and one outbox event for a lot, never two.
THEOREM RecoveryOnce == Spec => []RecoveredOnce
BY ImpliesRecoveredOnce, Invariance, PTL

\* A held, rejected or dangerous lot never gets past the shelf.
THEOREM Safety == Spec => []OnlySafeLotsReserved
BY ImpliesOnlySafeLotsReserved, Invariance, PTL

\* Serials are unique, and a lot has a certificate exactly when certified.
THEOREM Certificates == Spec => []CertificatesUnique
BY ImpliesCertificatesUnique, Invariance, PTL

\* Reservations, balances, outbox events and certificates are there exactly when
\* the state of the lot calls for them, and none of them twice.
THEOREM Records == Spec => []RecordsMatchState
<1>1. IInv => RecordsMatchState
  BY ImpliesOneReservation, ImpliesRecoveredOnce, ImpliesCertificatesUnique,
     ImpliesSerialFreeWithinTenant DEF RecordsMatchState
<1>2. QED
  BY <1>1, Invariance, PTL

\* No tenant writes a row about another tenant's lot.
THEOREM Isolation == Spec => []TenantIsolation
BY ImpliesTenantIsolation, Invariance, PTL

\* A stored Idempotency-Key answers for a recovery of its own tenant.
THEOREM KeysAnswer == Spec => []KeysAnswerForOwnRecovery
<1>1. IInv => KeysAnswerForOwnRecovery
  BY DEF IInv
<1>2. QED
  BY <1>1, Invariance, PTL

\* Only another tenant's certificate can block the one of a recovered lot.
THEOREM SerialFree == Spec => []SerialFreeWithinTenant
BY ImpliesSerialFreeWithinTenant, Invariance, PTL

----------------------------------------------------------------------------
(* The steps of a lot *)

\* Moving one lot along the table and leaving the others alone is allowed.
LEMMA MoveFollows ==
  ASSUME NEW id \in Lot, NEW s, s \in NextState(db.lots[id].state),
         Moved(db, db', id, s), OthersSame(db, db', id)
  PROVE  LotsFollowNextState
<1>1. ASSUME NEW o \in Lot, o # id
      PROVE  db'.lots[o] = db.lots[o]
  BY <1>1 DEF OthersSame, SameRows
<1>2. QED
  BY <1>1 DEF LotsFollowNextState, Moved, StateOf

\* What battery.NextState allows from each state an operation starts in.
LEMMA NextStateTable ==
  /\ NextState("received") = {"inspected", "quarantined"}
  /\ "reserved" \in NextState("inspected")
  /\ "dismantling" \in NextState("reserved")
  /\ "recovered" \in NextState("dismantling")
  /\ "certified" \in NextState("recovered")
BY DEF NextState

\* Each operation moves the lot it is about as battery.NextState allows.
LEMMA NextFollows ==
  ASSUME IInv, Next
  PROVE  LotsFollowNextState
<1>1. PICK p \in Principal, id \in Lot :
        \/ \E code \in Code, hazard \in Hazard : Intake(p, id, code, hazard)
        \/ \E result \in Result : Inspect(p, id, result)
        \/ Reserve(p, id)
        \/ BeginDismantling(p, id)
        \/ \E grams \in Weights, key \in KeyOrNone :
             Recover(p, id, grams, key)
        \/ Certify(p, id)
  BY DEF Next
<1>2. db \in Database
  BY DEF IInv, TypeOK
<1>3. CASE \E code \in Code, hazard \in Hazard : Intake(p, id, code, hazard)
  <2>1. PICK code \in Code, hazard \in Hazard : Intake(p, id, code, hazard)
    BY <1>3
  <2>2. ~Present(id) /\ db' = IntakeTx(db, p, id, code, hazard)
    BY <2>1 DEF Intake, LotUnique, Present
  <2>3. OthersSame(db, db', id)
    BY <1>2, <2>2, IntakeEffect
  <2>4. QED
    BY <2>2, <2>3 DEF OthersSame, SameRows, LotsFollowNextState
<1>4. CASE \E result \in Result : Inspect(p, id, result)
  <2>1. PICK result \in Result : Inspect(p, id, result)
    BY <1>4
  <2>2. /\ db.lots[id] # NoLot /\ db.lots[id].state = "received"
        /\ db' = InspectTx(db, p, id, result)
    BY <2>1 DEF Inspect, LotFound, CanInspect
  <2>3. Moved(db, db', id, InspectionTarget(result)) /\ OthersSame(db, db', id)
    BY <1>2, <2>2, InspectEffect
  <2>4. InspectionTarget(result) \in NextState("received")
    BY NextStateTable DEF InspectionTarget
  <2>5. QED
    BY <2>2, <2>3, <2>4, MoveFollows
<1>5. CASE Reserve(p, id)
  <2>1. /\ db.lots[id] # NoLot /\ db.lots[id].state = "inspected"
        /\ db' = ReserveTx(db, p, id)
    BY <1>5 DEF Reserve, LotFound, CanReserve
  <2>2. Moved(db, db', id, "reserved") /\ OthersSame(db, db', id)
    BY <1>2, <2>1, ReserveEffect
  <2>3. QED
    BY <2>1, <2>2, NextStateTable, MoveFollows
<1>6. CASE BeginDismantling(p, id)
  <2>1. /\ db.lots[id] # NoLot /\ db.lots[id].state = "reserved"
        /\ db' = DismantlingTx(db, p, id)
    BY <1>6 DEF BeginDismantling, LotFound
  <2>2. Moved(db, db', id, "dismantling") /\ OthersSame(db, db', id)
    BY <1>2, <2>1, DismantlingEffect
  <2>3. QED
    BY <2>1, <2>2, NextStateTable, MoveFollows
<1>7. CASE \E grams \in Weights, key \in KeyOrNone : Recover(p, id, grams, key)
  <2>1. PICK grams \in Weights, key \in KeyOrNone : Recover(p, id, grams, key)
    BY <1>7
  <2>2. /\ db.lots[id] # NoLot /\ db.lots[id].state = "dismantling"
        /\ db' = RecoverTx(db, p, id, grams, key)
    BY <2>1 DEF Recover, LotFound, CanRecover
  <2>3. Moved(db, db', id, "recovered") /\ OthersSame(db, db', id)
    BY <1>2, <2>2, RecoverEffect
  <2>4. QED
    BY <2>2, <2>3, NextStateTable, MoveFollows
<1>8. CASE Certify(p, id)
  <2>1. /\ db.lots[id] # NoLot /\ db.lots[id].state = "recovered"
        /\ db' = CertifyTx(db, p, id)
    BY <1>8 DEF Certify, LotFound, CanCertify
  <2>2. Moved(db, db', id, "certified") /\ OthersSame(db, db', id)
    BY <1>2, <2>1, CertifyEffect
  <2>3. QED
    BY <2>1, <2>2, NextStateTable, MoveFollows
<1>9. QED
  BY <1>1, <1>3, <1>4, <1>5, <1>6, <1>7, <1>8

\* Every change of a lot follows the transition table of battery.NextState,
\* which the service never consults, and counts the version up by one.
THEOREM StepsFollow == Spec => StepsFollowNextState
<1>1. IInv /\ [Next]_vars => [LotsFollowNextState]_vars
  BY NextFollows
<1>2. QED
  BY <1>1, Invariance, PTL DEF Spec, StepsFollowNextState

----------------------------------------------------------------------------
(* What is on record stays there *)

\* From d to e no lot, audit event, balance or key is lost or rewritten.
Kept(d, e) ==
  /\ \A id \in Lot : d.lots[id] # NoLot =>
       e.lots[id] # NoLot /\ e.lots[id].tenant = d.lots[id].tenant
  /\ \A id \in Lot : \A i \in 1..Len(d.audit[id]) :
       i \in 1..Len(e.audit[id]) /\ e.audit[id][i] = d.audit[id][i]
  /\ \A id \in Lot : Len(d.recoveries[id]) <= Len(e.recoveries[id])
  /\ \A t \in Tenant, k \in Key :
       d.idempotency[t][k] # NoLot => e.idempotency[t][k] = d.idempotency[t][k]

\* The lot is the tenant's, and its audit log says what was done.
OnRecord(d, tenant, id, action) ==
  /\ LotFound(d, id, tenant)
  /\ \E i \in 1..Len(d.audit[id]) : d.audit[id][i].action = action

\* Once on record, on record for ever.
LEMMA OnRecordKept ==
  ASSUME NEW d, NEW e, Kept(d, e), NEW tenant, NEW id \in Lot, NEW action,
         OnRecord(d, tenant, id, action)
  PROVE  OnRecord(e, tenant, id, action)
BY DEF Kept, OnRecord, LotFound

\* An operation that appends an audit event and forgets nothing is on record.
LEMMA AppendingKeeps ==
  ASSUME NEW d \in Database, NEW e \in Database, NEW id \in Lot, NEW tenant,
         NEW row \in [tenant : Tenant, action : AuditAction, result : AuditResult],
         OthersSame(d, e, id), e.audit[id] = Append(d.audit[id], row),
         LotFound(e, id, tenant),
         d.lots[id] # NoLot => d.lots[id].tenant = tenant,
         \/ e.recoveries[id] = d.recoveries[id]
         \/ Len(e.recoveries[id]) = Len(d.recoveries[id]) + 1,
         \A t \in Tenant, k \in Key :
           d.idempotency[t][k] # NoLot => e.idempotency[t][k] = d.idempotency[t][k]
  PROVE  Kept(d, e) /\ OnRecord(e, tenant, id, row.action)
<1> DEFINE S == [tenant : Tenant, action : AuditAction, result : AuditResult]
           R == [tenant : Tenant, grams : Weights]
<1>0. d.audit \in [Lot -> Seq(S)] /\ d.recoveries \in [Lot -> Seq(R)] /\ row \in S
  BY TableTypes
<1> HIDE DEF S, R
<1>1. /\ \A o \in Lot : Len(d.audit[o]) \in Nat /\ Len(d.recoveries[o]) \in Nat
      /\ d.audit[id] \in Seq(S)
  BY <1>0
<1> DEFINE n == Len(d.audit[id])
<1>2. /\ n \in Nat /\ Len(e.audit[id]) = n + 1 /\ e.audit[id][n + 1] = row
      /\ \A i \in 1..n : e.audit[id][i] = d.audit[id][i]
  BY <1>0, <1>1
<1>3. \A o \in Lot : o # id => /\ e.lots[o] = d.lots[o] /\ e.audit[o] = d.audit[o]
                              /\ e.recoveries[o] = d.recoveries[o]
  BY DEF OthersSame, SameRows
<1>4. Kept(d, e)
  <2>1. \A o \in Lot : d.lots[o] # NoLot =>
          e.lots[o] # NoLot /\ e.lots[o].tenant = d.lots[o].tenant
    BY <1>3 DEF LotFound
  <2>2. \A o \in Lot : \A i \in 1..Len(d.audit[o]) :
          i \in 1..Len(e.audit[o]) /\ e.audit[o][i] = d.audit[o][i]
    BY <1>1, <1>2, <1>3
  <2>3. \A o \in Lot : Len(d.recoveries[o]) <= Len(e.recoveries[o])
    BY <1>1, <1>3
  <2>4. QED
    BY <2>1, <2>2, <2>3 DEF Kept
<1>5. OnRecord(e, tenant, id, row.action)
  BY <1>2 DEF OnRecord
<1>6. QED
  BY <1>4, <1>5

\* A lot taken in is on record.
LEMMA IntakeRecords ==
  ASSUME IInv, NEW p \in Principal, NEW id \in Lot, NEW code \in Code,
         NEW hazard \in Hazard, Intake(p, id, code, hazard)
  PROVE  Kept(db, db') /\ OnRecord(db', p.tenant, id, "intake")
<1> DEFINE row == [tenant |-> p.tenant, action |-> "intake", result |-> "success"]
<1>1. db \in Database /\ db.lots[id] = NoLot /\ db' = IntakeTx(db, p, id, code, hazard)
  BY DEF IInv, TypeOK, Intake, LotUnique
<1>2. row \in [tenant : Tenant, action : AuditAction, result : AuditResult]
  BY PrincipalTenant DEF AuditAction, AuditResult
<1>3. /\ db' \in Database /\ OthersSame(db, db', id)
      /\ db'.audit[id] = Append(db.audit[id], row)
      /\ db'.lots[id].tenant = p.tenant /\ db'.lots[id] # NoLot
      /\ db'.recoveries[id] = db.recoveries[id] /\ db'.idempotency = db.idempotency
  <2> DEFINE lot == [tenant |-> p.tenant, code |-> code, hazard |-> hazard,
                     state |-> "received", version |-> 1]
  <2>1. lot.tenant = p.tenant
    OBVIOUS
  <2>2. /\ db' \in Database /\ OthersSame(db, db', id)
        /\ db'.lots[id] = lot /\ db'.lots[id] # NoLot
        /\ db'.audit[id] = Append(db.audit[id], row)
        /\ db'.recoveries[id] = db.recoveries[id]
        /\ db'.idempotency = db.idempotency
    BY <1>1, IntakeEffect
  <2> HIDE DEF lot
  <2>3. QED
    BY <2>1, <2>2
<1>4. row.action = "intake"
  OBVIOUS
<1> HIDE DEF row
<1>5. QED
  BY <1>1, <1>2, <1>3, <1>4, AppendingKeeps DEF LotFound

\* So is an inspection,
LEMMA InspectRecords ==
  ASSUME IInv, NEW p \in Principal, NEW id \in Lot, NEW result \in Result,
         Inspect(p, id, result)
  PROVE  Kept(db, db') /\ OnRecord(db', p.tenant, id, "inspection")
<1> DEFINE row == [tenant |-> p.tenant, action |-> "inspection", result |-> result]
<1>1. /\ db \in Database /\ db.lots[id] # NoLot /\ db.lots[id].tenant = p.tenant
      /\ db' = InspectTx(db, p, id, result)
  BY DEF IInv, TypeOK, Inspect, LotFound
<1>2. row \in [tenant : Tenant, action : AuditAction, result : AuditResult]
  BY PrincipalTenant DEF AuditAction, AuditResult
<1>3. /\ db' \in Database /\ OthersSame(db, db', id)
      /\ db'.audit[id] = Append(db.audit[id], row)
      /\ db'.lots[id].tenant = p.tenant /\ db'.lots[id] # NoLot
      /\ db'.recoveries[id] = db.recoveries[id] /\ db'.idempotency = db.idempotency
  BY <1>1, InspectEffect DEF Moved
<1>4. row.action = "inspection"
  OBVIOUS
<1> HIDE DEF row
<1>5. QED
  BY <1>1, <1>2, <1>3, <1>4, AppendingKeeps DEF LotFound

\* a reservation,
LEMMA ReserveRecords ==
  ASSUME IInv, NEW p \in Principal, NEW id \in Lot, Reserve(p, id)
  PROVE  Kept(db, db') /\ OnRecord(db', p.tenant, id, "reserve")
<1> DEFINE row == [tenant |-> p.tenant, action |-> "reserve", result |-> "station"]
<1>1. /\ db \in Database /\ db.lots[id] # NoLot /\ db.lots[id].tenant = p.tenant
      /\ db' = ReserveTx(db, p, id)
  BY DEF IInv, TypeOK, Reserve, LotFound
<1>2. row \in [tenant : Tenant, action : AuditAction, result : AuditResult]
  BY PrincipalTenant DEF AuditAction, AuditResult
<1>3. /\ db' \in Database /\ OthersSame(db, db', id)
      /\ db'.audit[id] = Append(db.audit[id], row)
      /\ db'.lots[id].tenant = p.tenant /\ db'.lots[id] # NoLot
      /\ db'.recoveries[id] = db.recoveries[id] /\ db'.idempotency = db.idempotency
  BY <1>1, ReserveEffect DEF Moved
<1>4. row.action = "reserve"
  OBVIOUS
<1> HIDE DEF row
<1>5. QED
  BY <1>1, <1>2, <1>3, <1>4, AppendingKeeps DEF LotFound

\* the beginning of dismantling,
LEMMA DismantlingRecords ==
  ASSUME IInv, NEW p \in Principal, NEW id \in Lot, BeginDismantling(p, id)
  PROVE  Kept(db, db') /\ OnRecord(db', p.tenant, id, "dismantling")
<1> DEFINE row == [tenant |-> p.tenant, action |-> "dismantling",
                   result |-> "started"]
<1>1. /\ db \in Database /\ db.lots[id] # NoLot /\ db.lots[id].tenant = p.tenant
      /\ db' = DismantlingTx(db, p, id)
  BY DEF IInv, TypeOK, BeginDismantling, LotFound
<1>2. row \in [tenant : Tenant, action : AuditAction, result : AuditResult]
  BY PrincipalTenant DEF AuditAction, AuditResult
<1>3. /\ db' \in Database /\ OthersSame(db, db', id)
      /\ db'.audit[id] = Append(db.audit[id], row)
      /\ db'.lots[id].tenant = p.tenant /\ db'.lots[id] # NoLot
      /\ db'.recoveries[id] = db.recoveries[id] /\ db'.idempotency = db.idempotency
  BY <1>1, DismantlingEffect DEF Moved
<1>4. row.action = "dismantling"
  OBVIOUS
<1> HIDE DEF row
<1>5. QED
  BY <1>1, <1>2, <1>3, <1>4, AppendingKeeps DEF LotFound

\* a recovery, with its balance and under its key,
LEMMA RecoverRecords ==
  ASSUME IInv, NEW p \in Principal, NEW id \in Lot, NEW grams \in Weights,
         NEW key \in KeyOrNone, Recover(p, id, grams, key)
  PROVE  /\ Kept(db, db') /\ OnRecord(db', p.tenant, id, "recover")
         /\ Len(db'.recoveries[id]) > 0
         /\ key # NoKey => db'.idempotency[p.tenant][key] = id
<1> DEFINE row == [tenant |-> p.tenant, action |-> "recover", result |-> "confirmed"]
<1>1. /\ db \in Database /\ db.lots[id] # NoLot /\ db.lots[id].tenant = p.tenant
      /\ db' = RecoverTx(db, p, id, grams, key)
      /\ key # NoKey => db.idempotency[p.tenant][key] = NoLot
  BY DEF IInv, TypeOK, Recover, LotFound, KeyUnique
<1>2. row \in [tenant : Tenant, action : AuditAction, result : AuditResult]
  BY PrincipalTenant DEF AuditAction, AuditResult
<1>3. /\ db' \in Database /\ OthersSame(db, db', id)
      /\ db'.audit[id] = Append(db.audit[id], row)
      /\ db'.lots[id].tenant = p.tenant /\ db'.lots[id] # NoLot
      /\ db'.recoveries[id] = Append(db.recoveries[id],
           [tenant |-> p.tenant, grams |-> grams])
      /\ KeyStored(db, db', p.tenant, key, id)
  <2>1. Moved(db, db', id, "recovered")
    BY <1>1, RecoverEffect
  <2>2. db'.lots[id].tenant = p.tenant /\ db'.lots[id] # NoLot
    BY <1>1, <2>1 DEF Moved
  <2>3. QED
    BY <1>1, <2>2, RecoverEffect
<1>4. row.action = "recover"
  OBVIOUS
<1>5. Len(db'.recoveries[id]) = Len(db.recoveries[id]) + 1 /\ Len(db'.recoveries[id]) > 0
  BY <1>1, <1>3, TableTypes, PrincipalTenant
<1>6. \A t \in Tenant, k \in Key : db.idempotency[t][k] # NoLot =>
        db'.idempotency[t][k] = db.idempotency[t][k]
  BY <1>1, <1>3, NoKeyAssumption DEF KeyStored
<1>7. key # NoKey => db'.idempotency[p.tenant][key] = id
  BY <1>3, PrincipalTenant DEF KeyStored, KeyOrNone
<1> HIDE DEF row
<1>8. QED
  BY <1>1, <1>2, <1>3, <1>4, <1>5, <1>6, <1>7, AppendingKeeps DEF LotFound

\* and a certificate.
LEMMA CertifyRecords ==
  ASSUME IInv, NEW p \in Principal, NEW id \in Lot, Certify(p, id)
  PROVE  Kept(db, db') /\ OnRecord(db', p.tenant, id, "certificate")
<1> DEFINE row == [tenant |-> p.tenant, action |-> "certificate", result |-> "issued"]
<1>1. /\ db \in Database /\ db.lots[id] # NoLot /\ db.lots[id].tenant = p.tenant
      /\ db' = CertifyTx(db, p, id)
  BY DEF IInv, TypeOK, Certify, LotFound
<1>2. row \in [tenant : Tenant, action : AuditAction, result : AuditResult]
  BY PrincipalTenant DEF AuditAction, AuditResult
<1>3. /\ db' \in Database /\ OthersSame(db, db', id)
      /\ db'.audit[id] = Append(db.audit[id], row)
      /\ db'.lots[id].tenant = p.tenant /\ db'.lots[id] # NoLot
      /\ db'.recoveries[id] = db.recoveries[id] /\ db'.idempotency = db.idempotency
  BY <1>1, CertifyEffect DEF Moved
<1>4. row.action = "certificate"
  OBVIOUS
<1> HIDE DEF row
<1>5. QED
  BY <1>1, <1>2, <1>3, <1>4, AppendingKeeps DEF LotFound

\* A lot on the shelf has no reservation, whoever asks for one,
LEMMA NoReservationYet ==
  ASSUME IInv, NEW id \in Lot, db.lots[id] # NoLot,
         db.lots[id].state = "inspected", NEW tenant
  PROVE  ~ActiveReservation(db, id, tenant)
<1>1. LotExplained(id)
  BY DEF IInv, LotOK, Present
<1>2. Len(db.reservations[id]) = 0
  BY <1>1 DEF LotExplained, HasRows, AtLeastReserved
<1>3. QED
  BY <1>2 DEF ActiveReservation

\* and one that is only recovered has no certificate.
LEMMA NoCertificateYet ==
  ASSUME IInv, NEW id \in Lot, db.lots[id] # NoLot,
         db.lots[id].state = "recovered", NEW tenant
  PROVE  ~FindCertificate(db, id, tenant)
<1>1. LotExplained(id)
  BY DEF IInv, LotOK, Present
<1>2. Len(db.certificates[id]) = 0
  BY <1>1 DEF LotExplained, HasRows
<1>3. QED
  BY <1>2 DEF FindCertificate

\* What a stored key names is the tenant's own lot, with its recovery on record.
LEMMA StoredKeyOnRecord ==
  ASSUME IInv, NEW t \in Tenant, NEW k \in Key, db.idempotency[t][k] # NoLot
  PROVE  LET id == db.idempotency[t][k]
         IN  /\ id \in Lot /\ OnRecord(db, t, id, "recover")
             /\ Len(db.recoveries[id]) > 0
<1> DEFINE id == db.idempotency[t][k]
<1>1. id \in Lot
  BY TableTypes DEF IInv, TypeOK
<1>2. /\ db.lots[id] # NoLot /\ db.lots[id].tenant = t
      /\ db.lots[id].state \in AtLeastRecovered
  BY DEF IInv, KeysAnswerForOwnRecovery, Present, StateOf
<1> HIDE DEF id
<1>3. LotExplained(id)
  BY <1>1, <1>2 DEF IInv, LotOK, Present
<1>4. Len(db.recoveries[id]) = 1
  BY <1>2, <1>3 DEF LotExplained, HasRows
<1>5. Stage(db.lots[id].state) \in {5, 6}
  BY <1>2 DEF Stage, AtLeastRecovered
<1>6. Len(db.audit[id]) >= 5 /\ db.audit[id][5].action = Path[5]
  BY <1>3, <1>5 DEF LotExplained, HasRows
<1>7. 5 \in 1..Len(db.audit[id]) /\ db.audit[id][5].action = "recover"
  <2>1. Len(db.audit[id]) \in {5, 6}
    BY <1>3, <1>5 DEF LotExplained, HasRows
  <2>2. QED
    BY <1>6, <2>1 DEF Path
<1>8. QED
  BY <1>1, <1>2, <1>4, <1>7 DEF OnRecord, LotFound, id

\* Nothing on record is ever lost or rewritten: lots keep their tenants, audit
\* events and balances stay, and a stored key answers the same for ever.
THEOREM RecordsKept == Spec => [][Kept(db, db')]_vars
<1>1. ASSUME IInv, Next PROVE Kept(db, db')
  BY <1>1, IntakeRecords, InspectRecords, ReserveRecords, DismantlingRecords,
     RecoverRecords, CertifyRecords DEF Next
<1>2. IInv /\ [Next]_vars => [Kept(db, db')]_vars
  BY <1>1
<1>3. QED
  BY <1>2, Invariance, PTL DEF Spec
============================================================================
