--------------------------- MODULE Reconciliation ---------------------------
(***************************************************************************)
(* Reconciliation reports: the rules of internal/domain/reconciliation and *)
(* the service that keeps reports in a cache and in a store                *)
(* (service/reconciliation.go).  Reports are values: an operation loads a  *)
(* copy, changes the copy, and saves it, first to the store and then, in a *)
(* lock section of its own, to the cache.  Operations interleave at each   *)
(* of these steps, the store may fail, and the process may restart.        *)
(***************************************************************************)
EXTENDS Battery, FiniteSets

CONSTANTS
  Report,       \* the report ids
  Tenant,       \* the tenants
  Principal,    \* the people: a tenant and a role each
  Measurement,  \* the valid measurements people report: lot, material,
                \* expected and actual weight, unit, and age in hours
  Tolerance,    \* Tolerance[material]: the policy, in percent
  MaxAge,       \* how old a measurement may be, in hours
  Op,           \* the operations in flight at the same time
  MaxBirths,    \* bound: how many reports are created
  NoReport      \* no report

ASSUME PrincipalAssumption ==
  \A p \in Principal : p.tenant \in Tenant /\ p.role \in STRING
ASSUME MeasurementAssumption ==
  \A m \in Measurement : /\ m.expected \in Nat /\ m.actual \in Nat
                         /\ m.unit \in {"g", "kg"}
                         /\ m.material \in DOMAIN Tolerance
                         /\ m.age \in Nat
ASSUME ToleranceAssumption == \A x \in DOMAIN Tolerance : Tolerance[x] \in 0..100
ASSUME MaxAgeAssumption == MaxAge \in Nat
ASSUME MaxBirthsAssumption == MaxBirths \in Nat

----------------------------------------------------------------------------
(* Reports: model.go and rules.go *)

ReportState == {"draft", "submitted", "investigating", "approved", "rejected"}

\* birth stands for CreatedAt.  checked has the measurements the report was
\* last evaluated with: its Discrepancies.
ReportRow == [tenant : Tenant, birth : 1..MaxBirths, state : ReportState,
              measurements : SUBSET Measurement, checked : SUBSET Measurement,
              version : 1..4]

ASSUME NoReportAssumption == NoReport \notin ReportRow

NewReport(tenant, birth) ==
  [tenant |-> tenant, birth |-> birth, state |-> "draft",
   measurements |-> {}, checked |-> {}, version |-> 1]

CanAppend(r) == r.state \in {"draft", "investigating"}
CanSubmit(r) == r.state = "draft" /\ r.measurements # {}

\* A mutant of CanApprove: a rejection can be reviewed again.
CanApproveRejected(r) == r.state \in {"submitted", "investigating", "rejected"}

CanApprove(r) == r.state \in {"submitted", "investigating"}

NormalizeWeight(value, unit) == IF unit = "kg" THEN value * 1000 ELSE value

\* ratio <= tol, with the ratio of |expected - actual| to expected, and zero
\* when nothing was expected.
WithinTolerance(m) ==
  LET e == NormalizeWeight(m.expected, m.unit)
      a == NormalizeWeight(m.actual, m.unit)
      delta == IF e > a THEN e - a ELSE a - e
  IN  e > 0 => delta * 100 <= Tolerance[m.material] * e

\* Policy.Validate, of measurements that are not in the future.
FreshEnough(r) == \A m \in r.measurements : m.age <= MaxAge

NeedsInvestigation(r) == \E m \in r.checked : ~WithinTolerance(m)

SameKey(m, n) == m.lot = n.lot /\ m.material = n.material

\* What an operation makes of its copy; NoReport is an error.
Append(r, m) ==
  IF CanAppend(r) /\ \A n \in r.measurements : ~SameKey(m, n)
    THEN [r EXCEPT !.measurements = @ \cup {m}]
    ELSE NoReport

\* EvaluateWithPolicy, then Submit.
Submit(r) ==
  IF FreshEnough(r) /\ CanSubmit(r)
    THEN [r EXCEPT !.checked = r.measurements, !.state = "submitted",
                   !.version = @ + 1]
    ELSE NoReport

StartInvestigation(r) == [r EXCEPT !.state = "investigating", !.version = @ + 1]

\* A mutant of Approve: an investigation clears the discrepancies.
ApproveInvestigated(r) ==
  IF CanApprove(r) /\ (NeedsInvestigation(r) => r.state = "investigating")
    THEN [r EXCEPT !.state = "approved", !.version = @ + 1]
    ELSE NoReport

Approve(r) ==
  IF CanApprove(r) /\ ~NeedsInvestigation(r)
    THEN [r EXCEPT !.state = "approved", !.version = @ + 1]
    ELSE NoReport

Reject(r) ==
  IF CanApprove(r) THEN [r EXCEPT !.state = "rejected", !.version = @ + 1]
                   ELSE NoReport

\* Review: a submitted report with discrepancies is put under investigation
\* first; then a refusal ends there, and an approval is tried on the result.
Review(r, approve) ==
  LET investigate == NeedsInvestigation(r) /\ r.state = "submitted"
      s == IF investigate THEN StartInvestigation(r) ELSE r
  IN  IF approve THEN Approve(s)
      ELSE IF investigate THEN s
      ELSE Reject(s)

----------------------------------------------------------------------------
(* The service *)

VARIABLES
  cache,   \* cache[id]: the report the service remembers
  store,   \* store[id]: the report the store has
  op,      \* op[o]: what the service is doing for o
  births,  \* how many reports were created
  callers  \* who has called the service since it started

vars == <<cache, store, op, births, callers>>

Call ==
  [kind : {"create", "submit", "approve", "refuse"}, p : Principal, id : Report]
  \cup [kind : {"append"}, p : Principal, id : Report, m : Measurement]

Permission(kind) ==
  IF kind \in {"approve", "refuse"} THEN "certify" ELSE "recover"

Apply(c, r) ==
  CASE c.kind = "append"  -> Append(r, c.m)
    [] c.kind = "submit"  -> Submit(r)
    [] c.kind = "approve" -> Review(r, TRUE)
    [] c.kind = "refuse"  -> Review(r, FALSE)

\* copy is the report as loaded (pc "fill") or as changed (pc "store", "cache").
Idle == [pc |-> "idle"]
Active == [pc : {"load", "miss", "fill", "store", "cache"}, call : Call,
           copy : ReportRow \cup {NoReport}]

At(o, pc) == op[o].pc = pc

Goto(o, pc, copy) == op' = [op EXCEPT ![o].pc = pc, ![o].copy = copy]

\* The operation returns, with an error or with a report.
Return(o) == op' = [op EXCEPT ![o] = Idle]

\* The loaded copy is changed and goes to the store, or the rules refuse it.
Change(o, r) ==
  LET new == Apply(op[o].call, r)
  IN  IF new = NoReport THEN Return(o) ELSE Goto(o, "store", new)

\* A permitted call.  CreateReport makes its report without looking for one.
Begin(o, c) ==
  /\ op[o] = Idle
  /\ Can(c.p, Permission(c.kind))
  /\ IF c.kind = "create"
       THEN /\ births < MaxBirths
            /\ births' = births + 1
            /\ op' = [op EXCEPT ![o] =
                        [pc |-> "store", call |-> c,
                         copy |-> NewReport(c.p.tenant, births + 1)]]
       ELSE /\ op' = [op EXCEPT ![o] =
                        [pc |-> "load", call |-> c, copy |-> NoReport]]
            /\ UNCHANGED births
  /\ callers' = callers \cup {o}
  /\ UNCHANGED <<cache, store>>

\* load: a report in the cache, of the caller's own tenant.
LoadCached(o) ==
  LET c == op[o].call
      r == cache[c.id]
  IN  /\ At(o, "load")
      /\ IF r = NoReport THEN Goto(o, "miss", NoReport)
         ELSE IF r.tenant # c.p.tenant THEN Return(o)
         ELSE Change(o, r)
      /\ UNCHANGED <<cache, store, births, callers>>

\* load: the store looks for the id within the tenant.  Or it fails.
LoadStored(o) ==
  LET c == op[o].call
      r == store[c.id]
  IN  /\ At(o, "miss")
      /\ \/ Return(o)
         \/ /\ r # NoReport /\ r.tenant = c.p.tenant
            /\ Goto(o, "fill", r)
      /\ UNCHANGED <<cache, store, births, callers>>

\* load: what the store had goes into the cache, whatever is there by now.
FillCache(o) ==
  /\ At(o, "fill")
  /\ cache' = [cache EXCEPT ![op[o].call.id] = op[o].copy]
  /\ Change(o, op[o].copy)
  /\ UNCHANGED <<store, births, callers>>

\* A mutant of SaveStore: an error of the store is ignored.
SaveStoreIgnored(o) ==
  /\ At(o, "store")
  /\ store' \in {store, [store EXCEPT ![op[o].call.id] = op[o].copy]}
  /\ Goto(o, "cache", op[o].copy)
  /\ UNCHANGED <<cache, births, callers>>

\* save: the store keeps the last report it is given.
SaveStore(o) ==
  /\ At(o, "store")
  /\ store' = [store EXCEPT ![op[o].call.id] = op[o].copy]
  /\ Goto(o, "cache", op[o].copy)
  /\ UNCHANGED <<cache, births, callers>>

\* save: the context has ended or the store fails; the cache is left alone.  An
\* error is taken to mean that nothing was stored.  Of a report that was stored
\* all the same the cache would know nothing, and the next operation on the copy
\* there would overwrite it.
SaveFails(o) ==
  /\ At(o, "store")
  /\ Return(o)
  /\ UNCHANGED <<cache, store, births, callers>>

\* save: the cache, and the operation has succeeded.
SaveCache(o) ==
  /\ At(o, "cache")
  /\ cache' = [cache EXCEPT ![op[o].call.id] = op[o].copy]
  /\ Return(o)
  /\ UNCHANGED <<store, births, callers>>

\* The process restarts with an empty cache.
Restart ==
  /\ cache' = [id \in Report |-> NoReport]
  /\ op' = [o \in Op |-> Idle]
  /\ callers' = {}
  /\ UNCHANGED <<store, births>>

----------------------------------------------------------------------------
Init ==
  /\ cache = [id \in Report |-> NoReport]
  /\ store = [id \in Report |-> NoReport]
  /\ op = [o \in Op |-> Idle]
  /\ births = 0
  /\ callers = {}

Next ==
  \/ \E o \in Op :
       \/ \E c \in Call : Begin(o, c)
       \/ LoadCached(o) \/ LoadStored(o) \/ FillCache(o)
       \/ SaveStore(o) \/ SaveFails(o) \/ SaveCache(o)
  \/ Restart

Spec == Init /\ [][Next]_vars

----------------------------------------------------------------------------
(* Properties *)

\* Shapes.
TypeOK ==
  /\ cache \in [Report -> ReportRow \cup {NoReport}]
  /\ store \in [Report -> ReportRow \cup {NoReport}]
  /\ \A o \in Op : op[o] = Idle \/ op[o] \in Active
  /\ births \in 0..MaxBirths
  /\ callers \subseteq Op /\ \A o \in Op : op[o] # Idle => o \in callers

\* Every copy of a report anywhere: remembered, stored, or being worked on.
Copies ==
  ({cache[id] : id \in Report} \cup {store[id] : id \in Report}
     \cup {op[o].copy : o \in {x \in Op : op[x] # Idle}}) \ {NoReport}

\* "dirty report approved" (service/reconciliation_test.go) never happens, in
\* whatever order operations overwrite each other's copies: in an approved
\* report every measurement has been checked and is within tolerance.
ApprovedIsClean ==
  \A r \in Copies : r.state = "approved" =>
    /\ r.measurements # {}
    /\ \A m \in r.measurements : WithinTolerance(m)

Rank(r) ==
  CASE r.state = "draft" -> 1 [] r.state = "submitted" -> 2
    [] r.state = "investigating" -> 3 [] OTHER -> 4

OneCaller == Cardinality(callers) <= 1

\* As long as one caller at a time uses the service a stored report never goes
\* back, crashes and failures of the store included: its state only advances, a
\* decision is final, and measurements are added only while it takes them.
StoredAdvances ==
  [][OneCaller => \A id \in Report :
       LET r == store[id]
           s == store'[id]
       IN  r # NoReport /\ s.birth = r.birth /\ s # r =>
             \/ Rank(r) < Rank(s) /\ r.measurements = s.measurements
             \/ /\ r.state = s.state /\ r.state \in {"draft", "investigating"}
                /\ r.measurements \subseteq s.measurements]_vars

\* As long as one caller at a time uses the service the cache never disagrees
\* with the store, except while that caller is between its two saves.
CacheMatchesStore ==
  OneCaller => \A id \in Report :
    \/ cache[id] \in {NoReport, store[id]}
    \/ \E o \in Op : At(o, "cache") /\ op[o].call.id = id
=============================================================================
