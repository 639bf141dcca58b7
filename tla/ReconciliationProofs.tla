------------------------ MODULE ReconciliationProofs ------------------------
(***************************************************************************)
(* That an approved report is clean, for any number of reports, people,    *)
(* measurements and operations that overwrite each other's copies.  It is  *)
(* a matter of single reports: every operation makes of a sound report a   *)
(* sound one, so that it does not matter which copy of it is saved last.   *)
(* And that one caller at a time finds the cache true to the store, and    *)
(* never moves a stored report back.                                       *)
(***************************************************************************)
EXTENDS Reconciliation, FiniteSetTheorems, TLAPS

\* A report, with versions that are not counted.
Shape == [tenant : Tenant, birth : Nat, state : ReportState,
          measurements : SUBSET Measurement, checked : SUBSET Measurement,
          version : Nat]

Clean(r) == /\ r.measurements # {}
            /\ \A m \in r.measurements : WithinTolerance(m)

\* What its state says about a report: a submission has checked what it has, an
\* investigation goes on about a discrepancy and has no way to lose it, though
\* measurements may still be added, and an approved report is clean.
Sound(r) ==
  /\ r.state = "submitted" => r.measurements # {} /\ r.checked = r.measurements
  /\ r.state = "investigating" => NeedsInvestigation(r)
  /\ r.state = "approved" => Clean(r)

SoundReport == {r \in Shape : Sound(r)}

\* What an operation has in hand; it has loaded a report before it changes it,
\* and only what is not created is loaded.
Step == [pc : {"load", "miss", "fill", "store", "cache"}, call : Call,
         copy : SoundReport \cup {NoReport}]
InOrder(x) ==
  /\ x.pc \in {"load", "miss", "fill"} => x.call.kind # "create"
  /\ x.pc = "fill" => x.copy # NoReport

SInv ==
  /\ cache \in [Report -> SoundReport \cup {NoReport}]
  /\ store \in [Report -> SoundReport \cup {NoReport}]
  /\ op \in [Op -> {Idle} \cup {x \in Step : InOrder(x)}]
  /\ births \in Nat

----------------------------------------------------------------------------
(* Single reports *)

\* Append leaves a report in its state, and its discrepancies with it.
LEMMA AppendSound ==
  ASSUME NEW r \in SoundReport, NEW m \in Measurement
  PROVE  Append(r, m) \in SoundReport \cup {NoReport}
PROOF
<1>1. CASE CanAppend(r) /\ \A n \in r.measurements : ~SameKey(m, n)
  <2> DEFINE s == [r EXCEPT !.measurements = r.measurements \cup {m}]
  <2>1. s \in Shape /\ s.state = r.state /\ s.checked = r.checked
    BY DEF SoundReport, Shape
  <2>2. Sound(s)
    BY <1>1, <2>1 DEF CanAppend, SoundReport, Sound, NeedsInvestigation
  <2>3. s \in SoundReport
    BY <2>1, <2>2 DEF SoundReport
  <2>4. Append(r, m) = s
    BY <1>1 DEF Append
  <2>5. QED BY <2>3, <2>4
<1>2. QED BY <1>1 DEF Append

\* Submit evaluates what it submits.
LEMMA SubmitSound ==
  ASSUME NEW r \in SoundReport
  PROVE  Submit(r) \in SoundReport \cup {NoReport}
PROOF
<1>1. CASE FreshEnough(r) /\ CanSubmit(r)
  <2> DEFINE k == r.version + 1
             s == [r EXCEPT !.checked = r.measurements, !.state = "submitted",
                            !.version = k]
  <2>0. k \in Nat
    BY DEF SoundReport, Shape
  <2> HIDE DEF k
  <2>1. /\ s \in Shape /\ s.state = "submitted"
        /\ s.checked = r.measurements /\ s.measurements = r.measurements
    BY <2>0 DEF SoundReport, Shape, ReportState
  <2>2. Sound(s)
    BY <1>1, <2>1 DEF CanSubmit, Sound
  <2>3. s \in SoundReport
    BY <2>1, <2>2 DEF SoundReport
  <2>4. Submit(r) = s
    BY <1>1 DEF Submit, k
  <2>5. QED BY <2>3, <2>4
<1>2. QED BY <1>1 DEF Submit

\* An investigation is started for a reason.
LEMMA InvestigationSound ==
  ASSUME NEW r \in SoundReport, NeedsInvestigation(r)
  PROVE  StartInvestigation(r) \in SoundReport
PROOF
<1> DEFINE k == r.version + 1
           s == [r EXCEPT !.state = "investigating", !.version = k]
<1>0. k \in Nat
  BY DEF SoundReport, Shape
<1> HIDE DEF k
<1>1. s \in Shape /\ s.state = "investigating" /\ s.checked = r.checked
  BY <1>0 DEF SoundReport, Shape, ReportState
<1>2. Sound(s)
  BY <1>1 DEF Sound, NeedsInvestigation
<1>3. s \in SoundReport
  BY <1>1, <1>2 DEF SoundReport
<1>4. StartInvestigation(r) = s
  BY DEF StartInvestigation, k
<1>5. QED BY <1>3, <1>4

\* What is approved had been submitted, and all of it checked and found clean:
\* what is under investigation always needs it.
LEMMA ApproveSound ==
  ASSUME NEW r \in SoundReport
  PROVE  Approve(r) \in SoundReport \cup {NoReport}
PROOF
<1>1. CASE CanApprove(r) /\ ~NeedsInvestigation(r)
  <2> DEFINE k == r.version + 1
             s == [r EXCEPT !.state = "approved", !.version = k]
  <2>0. k \in Nat
    BY DEF SoundReport, Shape
  <2> HIDE DEF k
  <2>1. s \in Shape /\ s.state = "approved" /\ s.measurements = r.measurements
    BY <2>0 DEF SoundReport, Shape, ReportState
  <2>2. r.state = "submitted"
    BY <1>1 DEF CanApprove, SoundReport, Sound
  <2>3. Clean(r)
    BY <1>1, <2>2 DEF SoundReport, Sound, NeedsInvestigation, Clean
  <2>4. Sound(s)
    BY <2>1, <2>3 DEF Sound, Clean
  <2>5. s \in SoundReport
    BY <2>1, <2>4 DEF SoundReport
  <2>6. Approve(r) = s
    BY <1>1 DEF Approve, k
  <2>7. QED BY <2>5, <2>6
<1>2. QED BY <1>1 DEF Approve

\* A rejection says nothing of a report.
LEMMA RejectSound ==
  ASSUME NEW r \in SoundReport
  PROVE  Reject(r) \in SoundReport \cup {NoReport}
PROOF
<1> DEFINE k == r.version + 1
           s == [r EXCEPT !.state = "rejected", !.version = k]
<1>0. k \in Nat
  BY DEF SoundReport, Shape
<1> HIDE DEF k
<1>1. s \in Shape /\ s.state = "rejected"
  BY <1>0 DEF SoundReport, Shape, ReportState
<1>2. Sound(s)
  BY <1>1 DEF Sound
<1>3. s \in SoundReport
  BY <1>1, <1>2 DEF SoundReport
<1>4. Reject(r) \in {s, NoReport}
  BY DEF Reject, k
<1>5. QED BY <1>3, <1>4

\* Review is made of these.
LEMMA ReviewSound ==
  ASSUME NEW r \in SoundReport, NEW approve \in BOOLEAN
  PROVE  Review(r, approve) \in SoundReport \cup {NoReport}
PROOF
<1> DEFINE investigate == NeedsInvestigation(r) /\ r.state = "submitted"
           s == IF investigate THEN StartInvestigation(r) ELSE r
<1>1. s \in SoundReport
  BY InvestigationSound
<1>2. Approve(s) \in SoundReport \cup {NoReport} /\ Reject(s) \in SoundReport \cup {NoReport}
  BY <1>1, ApproveSound, RejectSound
<1>3. Review(r, approve) \in {Approve(s), s, Reject(s)}
  BY DEF Review
<1>4. QED BY <1>1, <1>2, <1>3

\* So every call makes a sound report of a sound one, or refuses.
LEMMA ApplySound ==
  ASSUME NEW c \in Call, c.kind # "create", NEW r \in SoundReport
  PROVE  Apply(c, r) \in SoundReport \cup {NoReport}
PROOF
<1>1. c.kind \in {"append", "submit", "approve", "refuse"}
  BY DEF Call
<1>2. c.kind = "append" => c.m \in Measurement
  BY DEF Call
<1>3. CASE c.kind = "append"
  BY <1>2, <1>3, AppendSound DEF Apply
<1>4. CASE c.kind = "submit"
  BY <1>4, SubmitSound DEF Apply
<1>5. CASE c.kind = "approve"
  BY <1>5, ReviewSound DEF Apply
<1>6. CASE c.kind = "refuse"
  BY <1>6, ReviewSound DEF Apply
<1>7. QED BY <1>1, <1>3, <1>4, <1>5, <1>6

----------------------------------------------------------------------------
(* The service *)

\* Initially there are no reports.
LEMMA SInvInit == Init => SInv
  BY DEF Init, SInv

\* What is in hand may be replaced by a step that is in order, or let go.
LEMMA ReturnKeeps ==
  ASSUME SInv, NEW o \in Op, Return(o)
  PROVE  op' \in [Op -> {Idle} \cup {x \in Step : InOrder(x)}]
  BY DEF SInv, Return

\* An operation that goes on is in order where it goes.
LEMMA GotoKeeps ==
  ASSUME SInv, NEW o \in Op, op[o] # Idle,
         NEW pc \in {"load", "miss", "fill", "store", "cache"},
         NEW copy \in SoundReport \cup {NoReport}, Goto(o, pc, copy),
         pc \in {"load", "miss", "fill"} => op[o].call.kind # "create",
         pc = "fill" => copy # NoReport
  PROVE  op' \in [Op -> {Idle} \cup {x \in Step : InOrder(x)}]
PROOF
<1>1. op[o] \in Step
  BY DEF SInv
<1> DEFINE y == [op[o] EXCEPT !.pc = pc, !.copy = copy]
<1>2. y \in Step /\ y.pc = pc /\ y.copy = copy /\ y.call = op[o].call
  BY <1>1 DEF Step
<1>3. InOrder(y)
  BY <1>2 DEF InOrder
<1>4. op' = [op EXCEPT ![o] = y]
  BY DEF Goto
<1> HIDE DEF y
<1>5. QED BY <1>2, <1>3, <1>4 DEF SInv

\* A loaded report that is sound is changed into one that is.
LEMMA ChangeKeeps ==
  ASSUME SInv, NEW o \in Op, op[o] # Idle, op[o].call.kind # "create",
         NEW r \in SoundReport, Change(o, r)
  PROVE  op' \in [Op -> {Idle} \cup {x \in Step : InOrder(x)}]
PROOF
<1>1. op[o].call \in Call
  BY DEF SInv, Step
<1>2. Apply(op[o].call, r) \in SoundReport \cup {NoReport}
  BY <1>1, ApplySound
<1>3. Return(o) \/ Goto(o, "store", Apply(op[o].call, r))
  BY DEF Change
<1>4. QED BY <1>2, <1>3, ReturnKeeps, GotoKeeps

\* Every step leaves sound reports everywhere.
LEMMA SInvStep == SInv /\ [Next]_vars => SInv'
PROOF
<1>1. SUFFICES ASSUME SInv, [Next]_vars PROVE SInv'
  OBVIOUS
<1> DEFINE OpOK == op' \in [Op -> {Idle} \cup {x \in Step : InOrder(x)}]
<1>2. \A o \in Op : op[o].pc \in {"load", "miss", "fill", "store", "cache"} /\ op[o] # Idle
        => op[o] \in Step /\ InOrder(op[o])
  BY <1>1 DEF SInv
<1>3. \A o \in Op, pc \in {"load", "miss", "fill", "store", "cache"} : At(o, pc) => op[o] # Idle
  BY DEF At, Idle
<1>4. ASSUME NEW o \in Op, NEW c \in Call, Begin(o, c) PROVE SInv'
  <2> DEFINE new == [pc |-> "store", call |-> c, copy |-> NewReport(c.p.tenant, births + 1)]
             old == [pc |-> "load", call |-> c, copy |-> NoReport]
  <2>1. c.p.tenant \in Tenant
    BY PrincipalAssumption DEF Call
  <2>2. NewReport(c.p.tenant, births + 1) \in SoundReport
    BY <1>1, <2>1 DEF SInv, NewReport, SoundReport, Shape, Sound, ReportState
  <2>3. new \in Step /\ InOrder(new)
    BY <2>2 DEF Step, InOrder
  <2>4. c.kind # "create" => old \in Step /\ InOrder(old)
    BY DEF Step, InOrder
  <2>5. \/ op' = [op EXCEPT ![o] = new] /\ births' = births + 1
        \/ c.kind # "create" /\ op' = [op EXCEPT ![o] = old] /\ births' = births
    BY <1>4 DEF Begin
  <2> HIDE DEF new, old
  <2>6. QED BY <1>1, <1>4, <2>3, <2>4, <2>5 DEF SInv, Begin
<1>5. ASSUME NEW o \in Op, LoadCached(o) PROVE SInv'
  <2>1. op[o] # Idle /\ op[o].call \in Call /\ op[o].call.kind # "create"
    BY <1>2, <1>3, <1>5 DEF LoadCached, At, Step, InOrder
  <2>2. op[o].call.id \in Report
    BY <2>1 DEF Call
  <2>3. cache[op[o].call.id] \in SoundReport \cup {NoReport}
    BY <1>1, <2>2 DEF SInv
  <2>4. ASSUME Goto(o, "miss", NoReport) PROVE OpOK
    BY <1>1, <1>5, <2>1, <2>4, GotoKeeps
  <2>5. ASSUME Return(o) PROVE OpOK
    BY <1>1, <1>5, <2>5, ReturnKeeps
  <2>6. ASSUME cache[op[o].call.id] # NoReport /\ Change(o, cache[op[o].call.id]) PROVE OpOK
    BY <1>1, <1>5, <2>1, <2>3, <2>6, ChangeKeeps
  <2>7. OpOK
    BY <1>1, <1>5, <2>4, <2>5, <2>6 DEF LoadCached
  <2>8. QED BY <1>1, <1>5, <2>7 DEF SInv, LoadCached
<1>6. ASSUME NEW o \in Op, LoadStored(o) PROVE SInv'
  <2>1. op[o] # Idle /\ op[o].call \in Call /\ op[o].call.kind # "create"
    BY <1>2, <1>3, <1>6 DEF LoadStored, At, Step, InOrder
  <2>2. op[o].call.id \in Report
    BY <2>1 DEF Call
  <2>3. store[op[o].call.id] \in SoundReport \cup {NoReport}
    BY <1>1, <2>2 DEF SInv
  <2>4. ASSUME Return(o) PROVE OpOK
    BY <1>1, <1>6, <2>4, ReturnKeeps
  <2>5. ASSUME store[op[o].call.id] # NoReport /\ Goto(o, "fill", store[op[o].call.id]) PROVE OpOK
    BY <1>1, <1>6, <2>1, <2>3, <2>5, GotoKeeps
  <2>6. OpOK
    BY <1>6, <2>4, <2>5 DEF LoadStored
  <2>7. QED BY <1>1, <1>6, <2>6 DEF SInv, LoadStored
<1>7. ASSUME NEW o \in Op, FillCache(o) PROVE SInv'
  <2>1. op[o] # Idle /\ op[o].call \in Call /\ op[o].call.kind # "create"
    BY <1>2, <1>3, <1>7 DEF FillCache, At, Step, InOrder
  <2>2. op[o].copy \in SoundReport
    BY <1>2, <1>3, <1>7 DEF FillCache, At, Step, InOrder
  <2>3. OpOK
    BY <1>1, <1>7, <2>1, <2>2, ChangeKeeps DEF FillCache
  <2>4. QED BY <1>1, <1>7, <2>2, <2>3 DEF SInv, FillCache
<1>8. ASSUME NEW o \in Op, SaveStore(o) PROVE SInv'
  <2>1. op[o] # Idle /\ op[o].copy \in SoundReport \cup {NoReport}
    BY <1>2, <1>3, <1>8 DEF SaveStore, At, Step
  <2>2. OpOK
    BY <1>1, <1>8, <2>1, GotoKeeps DEF SaveStore
  <2>3. QED BY <1>1, <1>8, <2>1, <2>2 DEF SInv, SaveStore
<1>9. ASSUME NEW o \in Op, SaveFails(o) PROVE SInv'
  <2>1. OpOK
    BY <1>1, <1>9, ReturnKeeps DEF SaveFails
  <2>2. QED BY <1>1, <1>9, <2>1 DEF SInv, SaveFails
<1>10. ASSUME NEW o \in Op, SaveCache(o) PROVE SInv'
  <2>1. op[o].copy \in SoundReport \cup {NoReport}
    BY <1>2, <1>3, <1>10 DEF SaveCache, At, Step
  <2>2. OpOK
    BY <1>1, <1>10, ReturnKeeps DEF SaveCache
  <2>3. QED BY <1>1, <1>10, <2>1, <2>2 DEF SInv, SaveCache
<1>11. CASE Restart
  BY <1>1, <1>11 DEF SInv, Restart
<1>12. CASE UNCHANGED vars
  BY <1>1, <1>12 DEF SInv, vars
<1>13. QED
  BY <1>1, <1>4, <1>5, <1>6, <1>7, <1>8, <1>9, <1>10, <1>11, <1>12 DEF Next

\* "dirty report approved" never happens, however many callers overwrite each
\* other's copies of a report, and whatever fails: in an approved report there
\* are measurements, and each is within tolerance.
THEOREM NoDirtyReport == Spec => []ApprovedIsClean
PROOF
<1>1. SInv => ApprovedIsClean
  <2>1. SUFFICES ASSUME SInv, NEW r \in Copies, r.state = "approved"
                 PROVE  Clean(r)
    BY DEF ApprovedIsClean, Clean
  <2>2. r \in SoundReport
    BY <2>1 DEF Copies, SInv, Step
  <2>3. QED BY <2>1, <2>2 DEF SoundReport, Sound
<1>2. QED BY SInvInit, SInvStep, <1>1, PTL DEF Spec

----------------------------------------------------------------------------
(* One caller at a time *)

\* What StoredAdvances asks of a changed report that is still the same one.
Advances(r, s) ==
  /\ s.birth = r.birth
  /\ \/ Rank(r) < Rank(s) /\ r.measurements = s.measurements
     \/ /\ r.state = s.state /\ r.state \in {"draft", "investigating"}
        /\ r.measurements \subseteq s.measurements

\* Created already.
Born(r, n) == r # NoReport => r.birth <= n

Births ==
  /\ \A id \in Report : Born(cache[id], births) /\ Born(store[id], births)
  /\ \A o \in Op : op[o] # Idle => Born(op[o].copy, births)

\* What an operation has in hand is what the store keeps, or advances it.
InHand(x, reports) ==
  LET s == reports[x.call.id]
  IN  /\ x.pc \in {"fill", "cache"} => x.copy = s
      /\ x.pc = "store" /\ s # NoReport /\ s.birth = x.copy.birth => Advances(s, x.copy)

Matches ==
  \A id \in Report : \/ cache[id] \in {NoReport, store[id]}
                     \/ \E o \in Op : At(o, "cache") /\ op[o].call.id = id

Solo == \A a, b \in callers : a = b

SoloInv ==
  /\ SInv /\ Births
  /\ IsFiniteSet(callers) /\ \A o \in Op : op[o] # Idle => o \in callers
  /\ Solo => Matches /\ \A o \in Op : op[o] # Idle => InHand(op[o], store)

\* Append adds to a report that takes measurements.
LEMMA AppendAdvances ==
  ASSUME NEW r \in SoundReport, NEW m \in Measurement, Append(r, m) # NoReport
  PROVE  Advances(r, Append(r, m))
PROOF
<1>1. CanAppend(r) /\ Append(r, m) = [r EXCEPT !.measurements = r.measurements \cup {m}]
  BY DEF Append
<1>2. QED BY <1>1 DEF SoundReport, Shape, CanAppend, Advances

\* A state that comes later, and nothing else that matters.
LEMMA MovedAdvances ==
  ASSUME NEW r \in SoundReport, NEW s \in SoundReport, s.birth = r.birth,
         s.measurements = r.measurements,
         \/ r.state = "draft" /\ s.state = "submitted"
         \/ r.state = "submitted" /\ s.state = "investigating"
         \/ /\ r.state \in {"submitted", "investigating"}
            /\ s.state \in {"approved", "rejected"}
  PROVE  Advances(r, s)
BY DEF Rank, Advances

\* Review takes a report one or two states on.
LEMMA ReviewAdvances ==
  ASSUME NEW r \in SoundReport, NEW approve \in BOOLEAN, Review(r, approve) # NoReport
  PROVE  Advances(r, Review(r, approve))
PROOF
<1> DEFINE new == Review(r, approve)
           investigate == NeedsInvestigation(r) /\ r.state = "submitted"
           s == IF investigate THEN StartInvestigation(r) ELSE r
<1>1. /\ s \in SoundReport /\ s.birth = r.birth /\ s.measurements = r.measurements
      /\ \/ s.state = r.state
         \/ r.state = "submitted" /\ s.state = "investigating"
  BY InvestigationSound DEF StartInvestigation, SoundReport, Shape
<1>2. new \in SoundReport
  BY ReviewSound
<1>3. \/ ~approve /\ investigate /\ new = s
      \/ new # NoReport /\ new \in {Approve(s), Reject(s)}
  BY DEF Review
<1>4. CASE ~approve /\ investigate /\ new = s
  BY <1>1, <1>4, MovedAdvances DEF StartInvestigation, SoundReport, Shape
<1>5. CASE new # NoReport /\ new \in {Approve(s), Reject(s)}
  <2> HIDE DEF s, new
  <2> DEFINE k == s.version + 1
  <2>1. /\ s.state \in {"submitted", "investigating"}
        /\ \/ new = [s EXCEPT !.state = "approved", !.version = k]
           \/ new = [s EXCEPT !.state = "rejected", !.version = k]
    BY <1>5 DEF Approve, Reject, CanApprove
  <2> HIDE DEF k
  <2>2. /\ new.birth = s.birth /\ new.measurements = s.measurements
        /\ new.state \in {"approved", "rejected"}
    BY <1>1, <2>1 DEF SoundReport, Shape
  <2>3. new \in SoundReport /\ r.state \in {"submitted", "investigating"}
    BY <1>1, <1>2, <2>1
  <2>4. Advances(r, new)
    BY <1>1, <2>2, <2>3, MovedAdvances
  <2>5. QED BY <2>4 DEF new
<1>6. QED BY <1>3, <1>4, <1>5

\* So whatever a call makes of a report advances it.
LEMMA ApplyAdvances ==
  ASSUME NEW c \in Call, c.kind # "create", NEW r \in SoundReport,
         Apply(c, r) # NoReport
  PROVE  Advances(r, Apply(c, r))
PROOF
<1>1. /\ c.kind \in {"append", "submit", "approve", "refuse"}
      /\ c.kind = "append" => c.m \in Measurement
  BY DEF Call
<1>2. CASE c.kind = "append"
  BY <1>1, <1>2, AppendAdvances DEF Apply
<1>3. CASE c.kind = "submit"
  <2> DEFINE new == Submit(r)
             k == r.version + 1
  <2>1. /\ Apply(c, r) = new /\ r.state = "draft"
        /\ new = [r EXCEPT !.checked = r.measurements, !.state = "submitted",
                           !.version = k]
    BY <1>3 DEF Apply, Submit, CanSubmit
  <2>2. new \in SoundReport
    BY <2>1, SubmitSound
  <2> HIDE DEF new, k
  <2>3. /\ new.birth = r.birth /\ new.measurements = r.measurements
        /\ new.state = "submitted"
    BY <2>1 DEF SoundReport, Shape
  <2>4. Advances(r, new)
    BY <2>1, <2>2, <2>3, MovedAdvances
  <2>5. QED BY <2>1, <2>4
<1>4. CASE c.kind = "approve"
  BY <1>4, ReviewAdvances DEF Apply
<1>5. CASE c.kind = "refuse"
  BY <1>5, ReviewAdvances DEF Apply
<1>6. QED BY <1>1, <1>2, <1>3, <1>4, <1>5

\* While nobody else has called, nobody else has anything in hand.
LEMMA OnlyOne ==
  ASSUME SoloInv, NEW o \in Op, o \in callers', callers \subseteq callers', Solo'
  PROVE  /\ Matches /\ \A q \in Op : op[q] # Idle => InHand(op[q], store)
         /\ \A q \in Op \ {o} : op[q] = Idle
BY DEF SoloInv, Solo

\* What it takes of one operation's step, if what others have in hand stays.
LEMMA ActsAlone ==
  ASSUME SoloInv, SInv', NEW o \in Op, NEW x, op' = [op EXCEPT ![o] = x],
         callers' = callers \cup {o}, births' \in {births, births + 1},
         x = Idle \/ Born(x.copy, births'),
         \A id \in Report : Born(cache'[id], births') /\ Born(store'[id], births'),
         Solo' => Matches' /\ (x = Idle \/ InHand(x, store'))
  PROVE  SoloInv'
PROOF
<1>1. op'[o] = x /\ \A q \in Op \ {o} : op'[q] = op[q]
  BY DEF SoloInv, SInv
<1>2. Births'
  <2>1. births \in Nat /\ births <= births'
    BY DEF SoloInv, SInv
  <2>2. \A q \in Op \ {o} : op[q] # Idle => Born(op[q].copy, births')
    <3>1. ASSUME NEW q \in Op \ {o}, op[q] # Idle, op[q].copy # NoReport
          PROVE  op[q].copy.birth \in Nat /\ op[q].copy.birth <= births
      BY <3>1 DEF SoloInv, SInv, Step, SoundReport, Shape, Births, Born
    <3>2. QED BY <2>1, <3>1 DEF Born
  <2>3. QED BY <1>1, <2>2 DEF Births
<1>3. IsFiniteSet(callers') /\ \A q \in Op : op'[q] # Idle => q \in callers'
  BY <1>1, FS_AddElement DEF SoloInv
<1>4. ASSUME Solo' PROVE \A q \in Op : op'[q] # Idle => InHand(op'[q], store')
  BY <1>1, <1>4, OnlyOne
<1>5. QED BY <1>2, <1>3, <1>4 DEF SoloInv

\* Initially there is nothing to disagree about.
LEMMA SoloInvInit == Init => SoloInv
PROOF
<1> SUFFICES ASSUME Init PROVE SoloInv
  OBVIOUS
<1>1. Births
  BY DEF Init, Births, Born
<1>2. Matches /\ \A o \in Op : op[o] = Idle
  BY DEF Init, Matches
<1>3. QED BY <1>1, <1>2, SInvInit, FS_EmptySet DEF Init, SoloInv

\* The shape of an operation that is not idle.
LEMMA ActiveShape ==
  ASSUME SInv, NEW o \in Op, NEW pc \in {"load", "miss", "fill", "store", "cache"},
         At(o, pc)
  PROVE  /\ op[o] # Idle /\ op[o] \in Step /\ op[o].pc = pc
         /\ op[o] = [pc |-> pc, call |-> op[o].call, copy |-> op[o].copy]
         /\ op[o].call \in Call /\ op[o].call.id \in Report
         /\ op[o].copy \in SoundReport \cup {NoReport}
         /\ pc \in {"load", "miss", "fill"} => op[o].call.kind # "create"
         /\ pc = "fill" => op[o].copy # NoReport
PROOF
<1>1. op[o] # Idle /\ op[o].pc = pc
  BY DEF At, Idle
<1>2. op[o] \in Step /\ InOrder(op[o])
  BY <1>1 DEF SInv
<1>3. op[o].call \in Call /\ op[o].call.id \in Report
  BY <1>2 DEF Step, Call
<1>4. QED BY <1>1, <1>2, <1>3 DEF Step, InOrder

\* A report that is loaded true to the store is changed in hand.
LEMMA ChangeInHand ==
  ASSUME SoloInv, NEW o \in Op, NEW pc \in {"load", "fill"}, At(o, pc),
         NEW r \in SoundReport, r # NoReport, Born(r, births), Change(o, r)
  PROVE  \E x : /\ op' = [op EXCEPT ![o] = x]
                /\ x = Idle \/ Born(x.copy, births)
                /\ r = store[op[o].call.id] => x = Idle \/ InHand(x, store)
PROOF
<1> DEFINE call == op[o].call
           new == Apply(call, r)
<1>1. /\ op[o] # Idle /\ op[o].call \in Call /\ op[o].call.kind # "create"
      /\ op[o] = [pc |-> pc, call |-> op[o].call, copy |-> op[o].copy]
  BY ActiveShape DEF SoloInv
<1>2. CASE new = NoReport
  BY <1>2 DEF Change, Return
<1>3. CASE new # NoReport
  <2>1. Advances(r, new)
    BY <1>1, <1>3, ApplyAdvances
  <2>2. Goto(o, "store", new)
    BY <1>3 DEF Change
  <2> HIDE DEF new, call
  <2> DEFINE x == [op[o] EXCEPT !.pc = "store", !.copy = new]
  <2>3. op' = [op EXCEPT ![o] = x]
    BY <2>2 DEF Goto
  <2>4. x.pc = "store" /\ x.call = call /\ x.copy = new
    BY <1>1 DEF call
  <2> HIDE DEF x
  <2>5. Born(new, births)
    BY <1>3, <2>1 DEF Born, Advances
  <2>6. r = store[call.id] => InHand(x, store)
    BY <2>1, <2>4 DEF InHand
  <2>7. QED BY <2>3, <2>4, <2>5, <2>6 DEF call
<1>4. QED BY <1>2, <1>3

\* Every step of a single caller keeps cache and store in agreement, and has
\* only advanced reports for the store.
LEMMA SoloInvStep == SoloInv /\ [Next]_vars => SoloInv'
PROOF
<1> SUFFICES ASSUME SoloInv, [Next]_vars PROVE SoloInv'
  OBVIOUS
<1>1. SInv /\ SInv'
  BY SInvStep DEF SoloInv
<1>2. \A id \in Report : Born(cache[id], births) /\ Born(store[id], births)
  BY DEF SoloInv, Births
<1>3. \A o \in Op, pc \in {"load", "miss", "fill", "store", "cache"} :
        At(o, pc) => o \in callers /\ Born(op[o].copy, births)
  BY ActiveShape, <1>1 DEF SoloInv, Births
<1>4. ASSUME NEW o \in Op, NEW c \in Call, Begin(o, c) PROVE SoloInv'
  <2> DEFINE new == [pc |-> "store", call |-> c, copy |-> NewReport(c.p.tenant, births + 1)]
             old == [pc |-> "load", call |-> c, copy |-> NoReport]
  <2>1. /\ op[o] = Idle /\ callers' = callers \cup {o} /\ UNCHANGED <<cache, store>>
        /\ \/ op' = [op EXCEPT ![o] = new] /\ births' = births + 1
           \/ op' = [op EXCEPT ![o] = old] /\ births' = births
    BY <1>4 DEF Begin
  <2>2. \A id \in Report : Born(cache'[id], births') /\ Born(store'[id], births')
    <3>1. births \in Nat /\ \A id \in Report :
            /\ cache[id] # NoReport => cache[id].birth \in Nat
            /\ store[id] # NoReport => store[id].birth \in Nat
      BY <1>1 DEF SInv, SoundReport, Shape
    <3>2. QED BY <1>2, <2>1, <3>1 DEF Born
  <2>3. ASSUME Solo' PROVE Matches'
    <3>1. Matches /\ \A q \in Op : ~At(q, "cache")
      BY <2>1, <2>3, OnlyOne DEF At, Idle
    <3>2. QED BY <2>1, <3>1 DEF Matches
  <2>4. new.copy.birth = births + 1 /\ new.pc = "store" /\ new.call = c
    BY DEF NewReport
  <2>5. old.copy = NoReport /\ old.pc = "load"
    OBVIOUS
  <2> HIDE DEF new, old
  <2>6. CASE op' = [op EXCEPT ![o] = new] /\ births' = births + 1
    <3>1. Born(new.copy, births')
      BY <1>1, <2>4, <2>6 DEF Born, SInv
    <3>2. InHand(new, store')
      <4>1. c.id \in Report /\ births \in Nat
        BY <1>1 DEF Call, SInv
      <4>2. store'[c.id] # NoReport =>
              store'[c.id].birth \in Nat /\ store'[c.id].birth <= births
        BY <1>1, <1>2, <2>1, <4>1 DEF Born, SInv, SoundReport, Shape
      <4>3. QED BY <2>4, <4>1, <4>2 DEF InHand
    <3>3. QED BY <1>1, <2>1, <2>2, <2>3, <2>6, <3>1, <3>2, ActsAlone
  <2>7. CASE op' = [op EXCEPT ![o] = old] /\ births' = births
    <3>1. Born(old.copy, births') /\ InHand(old, store')
      BY <2>5 DEF Born, InHand
    <3>2. QED BY <1>1, <2>1, <2>2, <2>3, <2>7, <3>1, ActsAlone
  <2>8. QED BY <2>1, <2>6, <2>7
<1>5. ASSUME NEW o \in Op, LoadCached(o) PROVE SoloInv'
  <2> DEFINE r == cache[op[o].call.id]
  <2>1. /\ At(o, "load") /\ UNCHANGED <<cache, store, births, callers>>
        /\ callers' = callers \cup {o}
        /\ \/ Goto(o, "miss", NoReport)
           \/ Return(o)
           \/ r # NoReport /\ Change(o, r)
    BY <1>3, <1>5 DEF LoadCached
  <2>2. \A id \in Report : Born(cache'[id], births') /\ Born(store'[id], births')
    BY <1>2, <2>1
  <2>3. /\ op[o].call.id \in Report
        /\ op[o] = [pc |-> "load", call |-> op[o].call, copy |-> op[o].copy]
    BY <1>1, <2>1, ActiveShape
  <2>4. ASSUME Solo' PROVE Matches' /\ r \in {NoReport, store[op[o].call.id]}
    <3>1. Matches /\ \A q \in Op : ~At(q, "cache")
      BY <2>1, <2>4, OnlyOne DEF At, Idle
    <3>2. QED BY <2>1, <2>3, <3>1 DEF Matches
  <2>5. \E x : /\ op' = [op EXCEPT ![o] = x]
               /\ x = Idle \/ Born(x.copy, births)
               /\ r \in {NoReport, store[op[o].call.id]} => x = Idle \/ InHand(x, store)
    <3>1. CASE Goto(o, "miss", NoReport)
      <4> DEFINE x == [op[o] EXCEPT !.pc = "miss", !.copy = NoReport]
      <4>1. op' = [op EXCEPT ![o] = x] /\ x.copy = NoReport /\ x.pc = "miss"
        BY <2>3, <3>1 DEF Goto
      <4> HIDE DEF x
      <4>2. QED BY <4>1 DEF Born, InHand
    <3>2. CASE Return(o)
      BY <3>2 DEF Return
    <3>3. CASE r # NoReport /\ Change(o, r)
      <4>1. r \in SoundReport /\ Born(r, births)
        BY <1>1, <1>2, <2>3, <3>3 DEF SInv
      <4> HIDE DEF r
      <4>2. QED BY <2>1, <3>3, <4>1, ChangeInHand
    <3>4. QED BY <2>1, <3>1, <3>2, <3>3
  <2> HIDE DEF r
  <2>6. QED BY <1>1, <2>1, <2>2, <2>4, <2>5, ActsAlone
<1>6. ASSUME NEW o \in Op, LoadStored(o) PROVE SoloInv'
  <2> DEFINE r == store[op[o].call.id]
             x == [op[o] EXCEPT !.pc = "fill", !.copy = r]
  <2>1. /\ At(o, "miss") /\ UNCHANGED <<cache, store, births, callers>>
        /\ callers' = callers \cup {o}
        /\ op' = [op EXCEPT ![o] = Idle] \/ op' = [op EXCEPT ![o] = x]
    BY <1>3, <1>6 DEF LoadStored, Return, Goto
  <2>2. \A id \in Report : Born(cache'[id], births') /\ Born(store'[id], births')
    BY <1>2, <2>1
  <2>3. /\ op[o].call.id \in Report
        /\ op[o] = [pc |-> "miss", call |-> op[o].call, copy |-> op[o].copy]
    BY <1>1, <2>1, ActiveShape
  <2>4. x.pc = "fill" /\ x.call = op[o].call /\ x.copy = r
    BY <2>3
  <2>5. Born(r, births)
    BY <1>2, <2>3
  <2>6. InHand(x, store')
    BY <2>1, <2>4 DEF InHand
  <2>7. ASSUME Solo' PROVE Matches'
    <3>1. Matches /\ \A q \in Op : ~At(q, "cache")
      BY <2>1, <2>7, OnlyOne DEF At, Idle
    <3>2. QED BY <2>1, <3>1 DEF Matches
  <2> HIDE DEF x, r
  <2>8. QED BY <1>1, <2>1, <2>2, <2>4, <2>5, <2>6, <2>7, ActsAlone
<1>7. ASSUME NEW o \in Op, FillCache(o) PROVE SoloInv'
  <2> DEFINE id == op[o].call.id
             r == op[o].copy
  <2>1. /\ At(o, "fill") /\ UNCHANGED <<store, births, callers>>
        /\ callers' = callers \cup {o}
        /\ cache' = [cache EXCEPT ![id] = r] /\ Change(o, r)
    BY <1>3, <1>7 DEF FillCache
  <2>2. id \in Report /\ op[o].pc = "fill" /\ r \in SoundReport /\ r # NoReport
    BY <1>1, <2>1, ActiveShape
  <2>3. Born(r, births)
    BY <1>3, <2>1
  <2>4. \A i \in Report : cache'[i] = IF i = id THEN r ELSE cache[i]
    BY <1>1, <2>1 DEF SInv
  <2>5. \A i \in Report : Born(cache'[i], births') /\ Born(store'[i], births')
    BY <1>2, <2>1, <2>3, <2>4
  <2>6. ASSUME Solo' PROVE Matches' /\ r = store[id]
    <3>1. Matches /\ (\A q \in Op : ~At(q, "cache")) /\ InHand(op[o], store)
      BY <2>1, <2>6, OnlyOne, ActiveShape, <1>1 DEF At, Idle
    <3>2. r = store[id]
      BY <2>2, <3>1 DEF InHand
    <3>3. QED BY <2>1, <2>4, <3>1, <3>2 DEF Matches
  <2>7. \E x : /\ op' = [op EXCEPT ![o] = x]
               /\ x = Idle \/ Born(x.copy, births)
               /\ r = store[id] => x = Idle \/ InHand(x, store)
    BY <2>1, <2>2, <2>3, ChangeInHand
  <2> HIDE DEF id, r
  <2>8. QED BY <1>1, <2>1, <2>5, <2>6, <2>7, ActsAlone
<1>8. ASSUME NEW o \in Op, SaveStore(o) PROVE SoloInv'
  <2> DEFINE id == op[o].call.id
             r == op[o].copy
             x == [op[o] EXCEPT !.pc = "cache", !.copy = r]
  <2>1. /\ At(o, "store") /\ UNCHANGED <<cache, births, callers>>
        /\ callers' = callers \cup {o}
        /\ store' = [store EXCEPT ![id] = r] /\ op' = [op EXCEPT ![o] = x]
    BY <1>3, <1>8 DEF SaveStore, Goto
  <2>2. /\ id \in Report /\ op[o].pc = "store"
        /\ op[o] = [pc |-> "store", call |-> op[o].call, copy |-> r]
    BY <1>1, <2>1, ActiveShape
  <2>3. x.pc = "cache" /\ x.call = op[o].call /\ x.copy = r
    BY <2>2
  <2>4. \A i \in Report : store'[i] = IF i = id THEN r ELSE store[i]
    BY <1>1, <2>1 DEF SInv
  <2>5. Born(r, births)
    BY <1>3, <2>1
  <2>6. \A i \in Report : Born(cache'[i], births') /\ Born(store'[i], births')
    BY <1>2, <2>1, <2>4, <2>5
  <2>7. InHand(x, store')
    BY <2>2, <2>3, <2>4 DEF InHand
  <2>8. op'[o].pc = "cache" /\ op'[o].call.id = id
    BY <1>1, <2>1, <2>3 DEF SInv
  <2>9. ASSUME Solo' PROVE Matches'
    <3>1. Matches /\ \A q \in Op : ~At(q, "cache")
      BY <2>1, <2>9, OnlyOne DEF At, Idle
    <3>2. QED BY <2>1, <2>4, <2>8, <3>1 DEF Matches, At
  <2> HIDE DEF id, r, x
  <2>10. QED BY <1>1, <2>1, <2>3, <2>5, <2>6, <2>7, <2>9, ActsAlone
<1>9. ASSUME NEW o \in Op, SaveFails(o) PROVE SoloInv'
  <2>1. /\ At(o, "store") /\ UNCHANGED <<cache, store, births, callers>>
        /\ callers' = callers \cup {o} /\ op' = [op EXCEPT ![o] = Idle]
    BY <1>3, <1>9 DEF SaveFails, Return
  <2>2. ASSUME Solo' PROVE Matches'
    <3>1. Matches /\ \A q \in Op : ~At(q, "cache")
      BY <2>1, <2>2, OnlyOne DEF At, Idle
    <3>2. QED BY <2>1, <3>1 DEF Matches
  <2>3. QED BY <1>1, <1>2, <2>1, <2>2, ActsAlone
<1>10. ASSUME NEW o \in Op, SaveCache(o) PROVE SoloInv'
  <2> DEFINE id == op[o].call.id
             r == op[o].copy
  <2>1. /\ At(o, "cache") /\ UNCHANGED <<store, births, callers>>
        /\ callers' = callers \cup {o}
        /\ cache' = [cache EXCEPT ![id] = r] /\ op' = [op EXCEPT ![o] = Idle]
    BY <1>3, <1>10 DEF SaveCache, Return
  <2>2. id \in Report /\ op[o].pc = "cache" /\ op[o] # Idle
    BY <1>1, <2>1, ActiveShape
  <2>3. \A i \in Report : cache'[i] = IF i = id THEN r ELSE cache[i]
    BY <1>1, <2>1 DEF SInv
  <2>4. \A i \in Report : Born(cache'[i], births') /\ Born(store'[i], births')
    BY <1>2, <1>3, <2>1, <2>3
  <2>5. ASSUME Solo' PROVE Matches'
    <3>1. /\ Matches /\ InHand(op[o], store)
          /\ \A q \in Op : At(q, "cache") => q = o
      BY <2>1, <2>2, <2>5, OnlyOne DEF At, Idle
    <3>2. r = store[id]
      BY <2>2, <3>1 DEF InHand
    <3>3. QED BY <2>1, <2>3, <3>1, <3>2 DEF Matches
  <2> HIDE DEF id, r
  <2>6. QED BY <1>1, <2>1, <2>4, <2>5, ActsAlone
<1>11. CASE Restart
  <2>1. /\ \A id \in Report : cache'[id] = NoReport
        /\ \A o \in Op : op'[o] = Idle
        /\ callers' = {} /\ UNCHANGED <<store, births>>
    BY <1>11 DEF Restart
  <2>2. Births' /\ Matches'
    BY <1>2, <2>1 DEF Births, Born, Matches
  <2>3. QED BY <1>1, <2>1, <2>2, FS_EmptySet DEF SoloInv
<1>12. CASE UNCHANGED vars
  BY <1>1, <1>12 DEF vars, SoloInv, Births, Solo, Matches, At
<1>13. QED
  BY <1>4, <1>5, <1>6, <1>7, <1>8, <1>9, <1>10, <1>11, <1>12 DEF Next

\* A set of callers that counts at most one has at most one.
LEMMA OneIsSolo == IsFiniteSet(callers) /\ OneCaller => Solo
PROOF
<1> SUFFICES ASSUME IsFiniteSet(callers), OneCaller PROVE Solo
  OBVIOUS
<1>1. Cardinality(callers) \in {0, 1}
  BY FS_CardinalityType DEF OneCaller
<1>2. callers = {} \/ \E o : callers = {o}
  BY <1>1, FS_EmptySet, FS_Singleton
<1>3. QED BY <1>2 DEF Solo

\* One caller at a time finds in the cache what the store has, but for the
\* moment between its own two saves, whatever fails and restarts.
THEOREM CacheIsTrue == Spec => []CacheMatchesStore
PROOF
<1>1. SoloInv => CacheMatchesStore
  BY OneIsSolo DEF SoloInv, Matches, CacheMatchesStore
<1>2. QED BY <1>1, SoloInvInit, SoloInvStep, PTL DEF Spec

\* One caller at a time never moves a stored report back: its state advances, or
\* it takes measurements while it may.
THEOREM NeverBack == Spec => StoredAdvances
PROOF
<1> DEFINE Forward ==
      OneCaller => \A id \in Report :
        LET r == store[id]
            s == store'[id]
        IN  r # NoReport /\ s.birth = r.birth /\ s # r =>
              \/ Rank(r) < Rank(s) /\ r.measurements = s.measurements
              \/ /\ r.state = s.state /\ r.state \in {"draft", "investigating"}
                 /\ r.measurements \subseteq s.measurements
<1>1. ASSUME SoloInv, [Next]_vars PROVE [Forward]_vars
  <2>1. SUFFICES ASSUME OneCaller, NEW i \in Report, store[i] # NoReport,
                        store'[i].birth = store[i].birth, store'[i] # store[i]
                 PROVE  Advances(store[i], store'[i])
    BY DEF Advances
  <2>2. store' # store
    BY <2>1
  <2>3. PICK o \in Op : SaveStore(o)
    BY <1>1, <2>2 DEF Next, vars, Begin, LoadCached, LoadStored, FillCache,
                      SaveFails, SaveCache, Restart
  <2>4. /\ At(o, "store") /\ store' = [store EXCEPT ![op[o].call.id] = op[o].copy]
        /\ op[o] # Idle /\ op[o].pc = "store"
    BY <2>3, ActiveShape, <1>1 DEF SaveStore, SoloInv
  <2>5. i = op[o].call.id /\ store'[i] = op[o].copy
    BY <1>1, <2>1, <2>4 DEF SoloInv, SInv
  <2>6. InHand(op[o], store)
    BY <1>1, <2>1, <2>4, OneIsSolo DEF SoloInv
  <2>7. QED BY <2>1, <2>4, <2>5, <2>6 DEF InHand
<1>2. QED BY <1>1, SoloInvInit, SoloInvStep, PTL DEF Spec, StoredAdvances
=============================================================================
