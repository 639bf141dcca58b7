--------------------------- MODULE ServicesProofs ---------------------------
(***************************************************************************)
(* The invariants of the services of Services, for any number of people,   *)
(* lots, messages and so on.  Each service is followed on its own: what    *)
(* the others do is a stutter of it.  For each there is an invariant that  *)
(* strengthens the property, a lemma for each action that could disturb    *)
(* it, and the theorem about the whole.                                    *)
(***************************************************************************)
EXTENDS Services, FiniteSetTheorems, TLAPS

----------------------------------------------------------------------------
(* One service at a time *)

\* A step of either service that reads the clock leaves it or is a tick.
LEMMA ClockMoves ==
  T!Next \/ I!Next => now' = now \/ (now < MaxNow /\ now' = now + 1)
PROOF
<1>1. \A p, v : T!AddVehicle(p, v) => now' = now
  BY DEF T!AddVehicle
<1>2. \A p, id, v, d, a, s : T!Plan(p, id, v, d, a, s) => now' = now
  BY DEF T!Plan
<1>3. \A p, id, stop : T!AddStop(p, id, stop) => now' = now
  BY DEF T!AddStop
<1>4. \A p, id, target : T!Move(p, id, target) => now' = now
  BY DEF T!Move
<1>5. T!Next => now' = now \/ (now < MaxNow /\ now' = now + 1)
  BY <1>1, <1>2, <1>3, <1>4 DEF T!Next, T!Tick
<1>6. \A p, id, closed : I!Open(p, id, closed) => now' = now
  BY DEF I!Open
<1>7. \A p, id, target : I!Move(p, id, target) => now' = now
  BY DEF I!Move
<1>8. \A p, id : I!AddAction(p, id) => now' = now
  BY DEF I!AddAction
<1>9. I!Next => now' = now \/ (now < MaxNow /\ now' = now + 1)
  BY <1>6, <1>7, <1>8 DEF I!Next, I!Tick
<1>10. QED BY <1>5, <1>9

\* Each service takes steps of its own or none.  Of the two that read the
\* clock each sees the other's ticks as its own.
LEMMA EachAlone ==
  ASSUME [Next]_vars
  PROVE  /\ [N!Next]_(N!vars) /\ [B!BatchNext]_(B!batchVars)
         /\ [R!Next]_(R!vars) /\ [T!Next]_(T!vars) /\ [F!Next]_(F!vars)
         /\ [I!Next]_(I!vars) /\ [C!Next]_(C!vars) /\ [S!Next]_(S!vars)
         /\ [P!Next]_(P!vars) /\ [G!Next]_(G!vars) /\ [M!Next]_(M!vars)
PROOF
<1> USE DEF N!vars, B!batchVars, B!result, R!vars, T!vars, F!vars, I!vars,
            C!vars, S!vars, P!vars, G!vars, M!vars
<1>1. CASE UNCHANGED vars
  BY <1>1 DEF vars
<1>2. CASE M!Next /\ Others("materials")
  BY <1>2 DEF Others
<1>3. CASE N!Next /\ Others("notifications")
  BY <1>3 DEF Others
<1>4. CASE B!BatchNext /\ Others("batch")
  BY <1>4 DEF Others
<1>5. CASE R!Next /\ Others("retrier")
  BY <1>5 DEF Others
<1>6. CASE T!Next /\ Others("transport")
  <2>1. now' = now \/ (now < MaxNow /\ now' = now + 1)
    BY <1>6, ClockMoves
  <2>2. I!Tick \/ UNCHANGED I!vars
    BY <1>6, <2>1 DEF Others, I!Tick
  <2>3. QED BY <1>6, <2>2 DEF Others, I!Next
<1>7. CASE F!Next /\ Others("manifests")
  BY <1>7 DEF Others
<1>8. CASE I!Next /\ Others("incidents")
  <2>1. now' = now \/ (now < MaxNow /\ now' = now + 1)
    BY <1>8, ClockMoves
  <2>2. T!Tick \/ UNCHANGED T!vars
    BY <1>8, <2>1 DEF Others, T!Tick
  <2>3. QED BY <1>8, <2>2 DEF Others, T!Next
<1>9. CASE C!Next /\ Others("compliance")
  BY <1>9 DEF Others
<1>10. CASE S!Next /\ Others("safety")
  BY <1>10 DEF Others
<1>11. CASE G!Next /\ Others("trace")
  BY <1>11 DEF Others
<1>12. CASE P!Next /\ Others("paging")
  BY <1>12 DEF Others
<1>13. QED
  BY <1>1, <1>2, <1>3, <1>4, <1>5, <1>6, <1>7, <1>8, <1>9, <1>10, <1>11,
     <1>12 DEF Next

----------------------------------------------------------------------------
(* Manifests *)

IsManifest(m) ==
  m = [status |-> m.status, tenant |-> m.tenant, shared |-> m.shared, own |-> m.own]

Element == Item \cup BadItem \cup {Blank}

FInv == /\ manifests = [id \in Manifest |-> manifests[id]]
        /\ \A id \in Manifest :
             IsManifest(manifests[id]) /\ manifests[id].shared \in 0..Room
        /\ filled \in 0..Room
        /\ array \in [1..Room -> Element]

\* Sealed manifests keep their slices.
SlicesKept ==
  \A id \in Manifest : F!Sealed(id) => /\ manifests'[id].shared = manifests[id].shared
                                       /\ manifests'[id].own = manifests[id].own

\* The array changes where a slice that somebody may append to ends.
ArrayGrows == \A i \in 1..Room : array'[i] # array[i] => i - 1 \in F!Growing

\* Every step of the manifests does so.
LEMMA ManifestStep ==
  ASSUME FInv, [F!Next]_(F!vars)
  PROVE  FInv' /\ SlicesKept /\ ArrayGrows
PROOF
<1> USE DEF F!Sealed
<1>1. CASE UNCHANGED F!vars
  BY <1>1 DEF FInv, F!vars, SlicesKept, ArrayGrows
<1>2. ASSUME NEW p, NEW id \in Manifest, NEW its, NEW b, F!Create(p, id, its, b)
      PROVE  FInv' /\ SlicesKept /\ ArrayGrows
  <2> DEFINE new == [status |-> "prepared", tenant |-> p.tenant,
                     shared |-> IF b THEN filled ELSE 0,
                     own |-> IF b THEN <<>> ELSE its]
  <2>1. /\ manifests[id].status = "none" /\ manifests' = [manifests EXCEPT ![id] = new]
        /\ array' = array /\ filled' = filled
    BY <1>2 DEF F!Create, F!NoManifest
  <2>2. IsManifest(new) /\ new.shared \in 0..Room
    BY RoomAssumption DEF IsManifest, FInv
  <2> HIDE DEF new
  <2>3. QED BY <2>1, <2>2 DEF FInv, SlicesKept, ArrayGrows
<1>3. ASSUME NEW p, NEW id \in Manifest, NEW i \in F!ItemOrBad, F!AddItem(p, id, i)
      PROVE  FInv' /\ SlicesKept /\ ArrayGrows
  <2> DEFINE m == manifests[id]
             more == Append(F!Items(m), i)
             one == m.shared + 1
  <2>1. m.status = "prepared" /\ filled' = filled
    BY <1>3 DEF F!AddItem
  <2>2. CASE m.shared > 0 /\ m.shared < Room
    <3>1. /\ array' = [array EXCEPT ![one] = i]
          /\ manifests' = [manifests EXCEPT ![id].shared = @ + 1]
      BY <1>3, <2>2 DEF F!AddItem, F!AppendItem
    <3>2. one \in 1..Room /\ i \in Element /\ one - 1 = m.shared
      BY <2>2, RoomAssumption DEF FInv, F!ItemOrBad, Element
    <3>3. m.shared \in F!Growing
      BY <2>1, <2>2 DEF F!Growing
    <3>4. ArrayGrows
      BY <3>1, <3>2, <3>3 DEF FInv, ArrayGrows
    <3>5. array' \in [1..Room -> Element]
      BY <3>1, <3>2 DEF FInv
    <3>6. FInv'
      BY <2>1, <3>1, <3>2, <3>5 DEF FInv, IsManifest
    <3>7. SlicesKept
      BY <2>1, <3>1 DEF FInv, SlicesKept, IsManifest
    <3>8. QED BY <3>4, <3>6, <3>7
  <2>3. CASE ~(m.shared > 0 /\ m.shared < Room)
    <3>1. /\ manifests' = [manifests EXCEPT ![id].shared = 0, ![id].own = more]
          /\ array' = array
      BY <1>3, <2>3 DEF F!AddItem, F!AppendItem
    <3> HIDE DEF more
    <3>2. FInv'
      <4> DEFINE fresh == [m EXCEPT !.shared = 0]
                 new == [fresh EXCEPT !.own = more]
      <4>1. IsManifest(m)
        BY <2>1 DEF FInv
      <4>2. manifests' = [manifests EXCEPT ![id] = new]
        BY <3>1
      <4> HIDE DEF m
      <4>3. IsManifest(fresh) /\ fresh.shared = 0
        BY <4>1 DEF IsManifest
      <4> HIDE DEF fresh
      <4>4. IsManifest(new) /\ new.shared = 0
        BY <4>3 DEF IsManifest
      <4> HIDE DEF new
      <4>5. QED BY <2>1, <3>1, <4>2, <4>4, RoomAssumption DEF FInv
    <3>3. SlicesKept /\ ArrayGrows
      BY <2>1, <3>1 DEF FInv, SlicesKept, ArrayGrows, IsManifest
    <3>4. QED BY <3>2, <3>3
  <2>4. QED BY <2>2, <2>3
<1>4. ASSUME NEW p, NEW id \in Manifest, NEW target, F!Move(p, id, target)
      PROVE  FInv' /\ SlicesKept /\ ArrayGrows
  BY <1>4 DEF F!Move, FInv, IsManifest, SlicesKept, ArrayGrows
<1>5. ASSUME NEW i \in Item, F!CallerAppends(i)
      PROVE  FInv' /\ SlicesKept /\ ArrayGrows
  <2>1. /\ filled + 1 \in 1..Room /\ i \in Element /\ filled' = filled + 1
        /\ array' = [array EXCEPT ![filled + 1] = i] /\ manifests' = manifests
    BY <1>5, RoomAssumption DEF F!CallerAppends, FInv, Element
  <2>2. filled \in F!Growing /\ (filled + 1) - 1 = filled
    BY DEF F!Growing, FInv
  <2>3. ArrayGrows
    BY <2>1, <2>2 DEF FInv, ArrayGrows
  <2>4. QED BY <2>1, <2>3 DEF FInv, SlicesKept
<1>6. QED
  BY <1>1, <1>2, <1>3, <1>4, <1>5 DEF F!Next, F!ItemOrBad

\* The first elements of the array.
LEMMA SharedItems ==
  ASSUME NEW a \in [1..Room -> Element], NEW k \in 0..Room
  PROVE  /\ Len(SubSeq(a, 1, k)) = k /\ DOMAIN SubSeq(a, 1, k) = 1..k
         /\ \A i \in 1..k : SubSeq(a, 1, k)[i] = a[i]
PROOF
<1>1. a \in Seq(Element) /\ Len(a) = Room
  BY RoomAssumption
<1>2. 1 \in 1..(Len(a) + 1) /\ k \in (1 - 1)..Len(a)
  BY <1>1, RoomAssumption
<1>3. /\ Len(SubSeq(a, 1, k)) = k - 1 + 1
      /\ \A i \in 1..(k - 1 + 1) : SubSeq(a, 1, k)[i] = a[1 + i - 1]
      /\ SubSeq(a, 1, k) \in Seq(Element)
  BY <1>1, <1>2
<1>4. \A i \in 1..k : 1 + i - 1 = i
  OBVIOUS
<1>5. QED BY <1>3, <1>4

\* What is sealed, dispatched, received or cancelled neither gains nor loses an
\* item, and those it shares are replaced only where another slice of the same
\* array ends right before them.
THEOREM SealedReplacedFromBelow == Spec => ReplacedFromBelow
PROOF
<1> DEFINE Replaced(id) ==
             /\ Len(F!Contents(id)') = Len(F!Contents(id))
             /\ \A i \in DOMAIN F!Contents(id) :
                  F!Contents(id)'[i] # F!Contents(id)[i] =>
                    manifests[id].shared > 0 /\ i - 1 \in F!Growing
<1>1. Init => FInv
  BY RoomAssumption DEF Init, F!Init, FInv, F!NoManifest, IsManifest, Element
<1>2. FInv /\ [Next]_vars => FInv'
  BY EachAlone, ManifestStep
<1>3. ASSUME FInv, [Next]_vars, NEW id \in Manifest, F!Sealed(id)
      PROVE  Replaced(id)
  <2> DEFINE k == manifests[id].shared
  <2>1. /\ FInv' /\ ArrayGrows /\ k \in 0..Room
        /\ manifests'[id].shared = k /\ manifests'[id].own = manifests[id].own
    BY <1>3, EachAlone, ManifestStep DEF SlicesKept, FInv
  <2>2. CASE k > 0
    <3>1. F!Contents(id) = SubSeq(array, 1, k) /\ F!Contents(id)' = SubSeq(array', 1, k)
      BY <2>1, <2>2 DEF F!Contents, F!Items
    <3>2. array \in [1..Room -> Element] /\ array' \in [1..Room -> Element]
      BY <1>3, <2>1 DEF FInv
    <3>3. /\ Len(SubSeq(array, 1, k)) = k /\ DOMAIN SubSeq(array, 1, k) = 1..k
          /\ \A i \in 1..k : SubSeq(array, 1, k)[i] = array[i]
      BY <2>1, <3>2, SharedItems
    <3>4. /\ Len(SubSeq(array', 1, k)) = k
          /\ \A i \in 1..k : SubSeq(array', 1, k)[i] = array'[i]
      BY <2>1, <3>2, SharedItems
    <3>5. \A i \in 1..k : array'[i] # array[i] => i - 1 \in F!Growing
      BY <2>1, RoomAssumption DEF ArrayGrows
    <3>6. QED BY <2>2, <3>1, <3>3, <3>4, <3>5
  <2>3. CASE ~(k > 0)
    <3>1. F!Contents(id)' = F!Contents(id)
      BY <2>1, <2>3 DEF F!Contents, F!Items
    <3>2. QED BY <3>1
  <2>4. QED BY <2>2, <2>3
<1>4. FInv /\ [Next]_vars =>
        [\A id \in Manifest : F!Sealed(id) => Replaced(id)]_(F!vars)
  BY <1>3
<1>5. QED
  BY <1>1, <1>2, <1>4, PTL DEF Spec, ReplacedFromBelow, F!ReplacedFromBelow

----------------------------------------------------------------------------
(* Incidents *)

IsIncident(x) == x = [status |-> x.status, tenant |-> x.tenant, closed |-> x.closed]

IncInv == /\ incidents = [id \in Incident |-> incidents[id]]
          /\ \A id \in Incident : IsIncident(incidents[id])

Closes(id) ==
  /\ incidents[id].status # "resolved" /\ incidents'[id].status = "resolved"
       => incidents'[id].closed = now
  /\ incidents[id].status = "resolved" => incidents'[id] = incidents[id]

\* A step closes an incident at the time it resolves it, and changes none that
\* is resolved.
LEMMA IncidentStep ==
  ASSUME IncInv, [I!Next]_(I!vars)
  PROVE  IncInv' /\ \A id \in Incident : Closes(id)
PROOF
<1>1. CASE UNCHANGED incidents
  BY <1>1 DEF IncInv, Closes
<1>2. ASSUME NEW p, NEW id \in Incident, NEW closed, I!Open(p, id, closed)
      PROVE  IncInv' /\ \A i \in Incident : Closes(i)
  <2> DEFINE new == [status |-> "open", tenant |-> p.tenant, closed |-> closed]
  <2>1. /\ incidents[id].status = "none" /\ incidents' = [incidents EXCEPT ![id] = new]
        /\ IsIncident(new) /\ new.status = "open"
    BY <1>2 DEF I!Open, I!NoIncident, IsIncident
  <2> HIDE DEF new
  <2>2. QED BY <2>1 DEF IncInv, Closes
<1>3. ASSUME NEW p, NEW id \in Incident, NEW target, I!Move(p, id, target)
      PROVE  IncInv' /\ \A i \in Incident : Closes(i)
  <2> DEFINE x == incidents[id]
             when == IF target = "resolved" THEN now ELSE x.closed
  <2>1. x.status # "resolved" /\ IsIncident(x)
    BY <1>3 DEF I!Move, I!Transition, IncInv
  <2>2. incidents' = [incidents EXCEPT ![id].status = target, ![id].closed = when]
    BY <1>3 DEF I!Move
  <2>3. target = "resolved" => when = now
    OBVIOUS
  <2> HIDE DEF when
  <2>4. /\ IsIncident(incidents'[id])
        /\ incidents'[id].status = target /\ incidents'[id].closed = when
    BY <2>1, <2>2 DEF IncInv, IsIncident
  <2>5. QED BY <2>1, <2>2, <2>3, <2>4 DEF IncInv, Closes
<1>4. ASSUME NEW p, NEW id \in Incident, I!AddAction(p, id)
      PROVE  IncInv' /\ \A i \in Incident : Closes(i)
  <2> DEFINE next == IF incidents[id].status = "open" THEN "investigating"
                     ELSE incidents[id].status
  <2>1. incidents' = [incidents EXCEPT ![id].status = next]
    BY <1>4 DEF I!AddAction
  <2>2. \/ next = incidents[id].status
        \/ incidents[id].status = "open" /\ next = "investigating"
    OBVIOUS
  <2> HIDE DEF next
  <2>3. QED BY <2>1, <2>2 DEF IncInv, IsIncident, Closes
<1>5. I!Tick => UNCHANGED incidents
  BY DEF I!Tick
<1>6. QED BY <1>1, <1>2, <1>3, <1>4, <1>5 DEF I!Next, I!vars

\* Whatever closing time it was opened with, an incident gets the one at which it
\* is resolved, and neither Move nor AddAction changes it afterwards.
THEOREM IncidentsCloseOnce == Spec => ClosedOnce
PROOF
<1>1. Init => IncInv
  BY DEF Init, I!Init, IncInv, I!NoIncident, IsIncident
<1>2. IncInv /\ [Next]_vars => IncInv'
  BY EachAlone, IncidentStep
<1>3. IncInv /\ [Next]_vars =>
        [\A id \in Incident :
           /\ incidents[id].status # "resolved" /\ incidents'[id].status = "resolved"
                => incidents'[id].closed = now
           /\ incidents[id].status = "resolved" => incidents'[id] = incidents[id]]_(I!vars)
  BY EachAlone, IncidentStep DEF Closes
<1>4. QED BY <1>1, <1>2, <1>3, PTL DEF Spec, ClosedOnce, I!ClosedOnce

----------------------------------------------------------------------------
(* Compliance *)

IsCert(x) == x = [status |-> x.status, tenant |-> x.tenant, evidence |-> x.evidence]

\* A certificate and its reviews: the evidence is what people named, there is
\* some when it has been submitted, and the reviews are its decision.
CertOK(x, list) ==
  /\ IsCert(x) /\ x.evidence \subseteq Evidence
  /\ x.status \in {"submitted", "approved", "rejected"} => x.evidence # {}
  /\ list = IF x.status \in {"approved", "rejected"} THEN <<x.status>> ELSE <<>>

CInv ==
  /\ certs = [id \in Certificate |-> certs[id]]
  /\ reviews = [id \in Certificate |-> reviews[id]]
  /\ \A id \in Certificate : CertOK(certs[id], reviews[id])

\* A certificate that is replaced with its reviews.
LEMMA CertReplaced ==
  ASSUME CInv, NEW id \in Certificate, NEW x, NEW list, CertOK(x, list),
         certs' = [certs EXCEPT ![id] = x], reviews' = [reviews EXCEPT ![id] = list]
  PROVE  CInv'
BY DEF CInv

\* A certificate with another status.
LEMMA CertMoved ==
  ASSUME NEW x, IsCert(x), NEW status, NEW y, y = [x EXCEPT !.status = status]
  PROVE  y = [status |-> status, tenant |-> x.tenant, evidence |-> x.evidence]
BY DEF IsCert

\* Only a submitted certificate without a review is reviewed, and once.
LEMMA ComplianceStep == CInv /\ [C!Next]_(C!vars) => CInv'
PROOF
<1> SUFFICES ASSUME CInv, [C!Next]_(C!vars) PROVE CInv'
  OBVIOUS
<1>1. CASE UNCHANGED C!vars
  BY <1>1 DEF C!vars, CInv
<1>2. ASSUME NEW p, NEW id \in Certificate,
             NEW given \in SUBSET (Evidence \cup {Empty}), C!Draft(p, id, given)
      PROVE  CInv'
  <2> DEFINE ev == C!MergeEvidence(given)
             new == [status |-> "draft", tenant |-> p.tenant, evidence |-> ev]
  <2>1. ev \subseteq Evidence
    BY DEF C!MergeEvidence
  <2>2. /\ certs[id].status = "none" /\ reviews' = reviews
        /\ certs' = [certs EXCEPT ![id] = new]
    BY <1>2 DEF C!Draft, C!NoCert
  <2>3. reviews[id] = <<>> /\ reviews' = [reviews EXCEPT ![id] = <<>>]
    BY <2>2 DEF CInv, CertOK
  <2> HIDE DEF ev
  <2>4. CertOK(new, <<>>)
    BY <2>1 DEF CertOK, IsCert
  <2> HIDE DEF new
  <2>5. QED BY <2>2, <2>3, <2>4, CertReplaced
<1>3. ASSUME NEW p, NEW id \in Certificate, NEW provided, C!Submit(p, id, provided)
      PROVE  CInv'
  <2> DEFINE x == certs[id]
             new == [status |-> "submitted", tenant |-> x.tenant, evidence |-> x.evidence]
  <2>1. /\ x.status = "draft" /\ x.evidence # {} /\ CertOK(x, reviews[id])
        /\ certs' = [certs EXCEPT ![id].status = "submitted"] /\ reviews' = reviews
    BY <1>3 DEF C!Submit, CInv
  <2>2. certs' = [certs EXCEPT ![id] = new] /\ CertOK(new, <<>>)
    BY <2>1, CertMoved DEF CertOK, IsCert
  <2>3. reviews' = [reviews EXCEPT ![id] = <<>>]
    BY <2>1 DEF CInv, CertOK
  <2> HIDE DEF new
  <2>4. QED BY <2>2, <2>3, CertReplaced
<1>4. ASSUME NEW p, NEW id \in Certificate, NEW d \in {"approved", "rejected"},
             C!Review(p, id, d)
      PROVE  CInv'
  <2> DEFINE x == certs[id]
             new == [status |-> d, tenant |-> x.tenant, evidence |-> x.evidence]
  <2>1. /\ x.status = "submitted" /\ CertOK(x, reviews[id])
        /\ certs' = [certs EXCEPT ![id].status = d]
        /\ reviews' = [reviews EXCEPT ![id] = Append(@, d)]
    BY <1>4 DEF C!Review, C!Transition, CInv
  <2>2. certs' = [certs EXCEPT ![id] = new] /\ CertOK(new, <<d>>)
    BY <2>1, CertMoved DEF CertOK, IsCert
  <2>3. reviews[id] = <<>>
    BY <2>1 DEF CertOK
  <2>4. reviews' = [reviews EXCEPT ![id] = <<d>>]
    BY <2>1, <2>3
  <2> HIDE DEF new
  <2>5. QED BY <2>2, <2>4, CertReplaced
<1>5. QED BY <1>1, <1>2, <1>3, <1>4 DEF C!Next

\* A certificate is decided by one review, that is its only one and says what the
\* certificate says, and never without evidence.
THEOREM DecisionsOnRecord == Spec => []DecidedOnRecord
PROOF
<1>1. Init => CInv
  BY DEF Init, C!Init, CInv, CertOK, IsCert, C!NoCert
<1>2. CInv /\ [Next]_vars => CInv'
  BY EachAlone, ComplianceStep
<1>3. CInv => DecidedOnRecord
  BY DEF CInv, CertOK, DecidedOnRecord, C!DecidedOnRecord
<1>4. QED BY <1>1, <1>2, <1>3, PTL DEF Spec

----------------------------------------------------------------------------
(* Safety and quarantine *)

Found == [id : Finding, reading : Reading, level : {"danger", "watch", "clear"},
          resolved : BOOLEAN]

\* What is dangerous by its reading is called so until it is resolved.
Marked(x) == S!Assess(x.reading) = "danger" => x.level = "danger" \/ x.resolved

SInv ==
  /\ findings \in [Tenant -> [LotId -> Seq(Found)]]
  /\ \A t \in Tenant, l \in LotId : \A i \in DOMAIN findings[t][l] :
       Marked(findings[t][l][i])

\* A list that is put in the place of another.
LEMMA FindingsReplaced ==
  ASSUME SInv, NEW t \in Tenant, NEW l \in LotId, NEW list \in Seq(Found),
         \A i \in DOMAIN list : Marked(list[i]),
         findings' = [findings EXCEPT ![t][l] = list]
  PROVE  SInv'
BY DEF SInv, Marked

\* A finding gets another level and is resolved.
LEMMA FindingResolved ==
  ASSUME NEW f \in Found, NEW level,
         NEW y, y = [f EXCEPT !.level = level, !.resolved = TRUE]
  PROVE  y = [id |-> f.id, reading |-> f.reading, level |-> level, resolved |-> TRUE]
BY DEF Found

\* Record measures, and Resolve marks as resolved what it calls less dangerous.
LEMMA SafetyStep == SInv /\ [S!Next]_(S!vars) => SInv'
PROOF
<1> SUFFICES ASSUME SInv, [S!Next]_(S!vars) PROVE SInv'
  OBVIOUS
<1>1. CASE UNCHANGED findings
  BY <1>1 DEF SInv, Marked
<1>2. ASSUME NEW p \in Local, NEW l \in LotId, NEW id \in Finding, NEW r \in Reading,
             NEW b \in BOOLEAN, S!Record(p, l, id, r, b)
      PROVE  SInv'
  <2> DEFINE old == findings[p.tenant][l]
             x == [id |-> id, reading |-> r, level |-> S!Assess(r), resolved |-> b]
  <2>1. p.tenant \in Tenant /\ old \in Seq(Found)
    BY PrincipalAssumption DEF SInv
  <2>2. x \in Found /\ Marked(x)
    BY DEF Found, Marked, S!Assess
  <2>3. findings' = [findings EXCEPT ![p.tenant][l] = Append(old, x)]
    BY <1>2 DEF S!Record
  <2>4. \A i \in DOMAIN old : Marked(old[i])
    BY <2>1 DEF SInv
  <2> HIDE DEF x, old
  <2>5. Append(old, x) \in Seq(Found) /\ \A i \in DOMAIN Append(old, x) : Marked(Append(old, x)[i])
    BY <2>1, <2>2, <2>4
  <2>6. QED BY <2>1, <2>3, <2>5, FindingsReplaced
<1>3. ASSUME NEW p \in Local, NEW l \in LotId, NEW id \in Finding, S!Resolve(p, l, id)
      PROVE  SInv'
  <2> DEFINE t == p.tenant
             old == findings[t][l]
  <2>1. t \in Tenant /\ old \in Seq(Found) /\ \A j \in DOMAIN old : Marked(old[j])
    BY PrincipalAssumption DEF SInv
  <2>2. PICK i \in DOMAIN old :
          findings' = [findings EXCEPT
            ![t][l][i].level = IF @ = "danger" THEN "watch" ELSE @,
            ![t][l][i].resolved = TRUE]
    BY <1>3 DEF S!Resolve
  <2> DEFINE lower == IF old[i].level = "danger" THEN "watch" ELSE old[i].level
             x == [id |-> old[i].id, reading |-> old[i].reading, level |-> lower,
                   resolved |-> TRUE]
             new == [old EXCEPT ![i] = x]
  <2>3. findings' = [findings EXCEPT ![t][l][i].level = lower, ![t][l][i].resolved = TRUE]
    BY <2>2
  <2> HIDE DEF lower
  <2>4. findings[t][l][i] \in Found
    BY <2>1, <2>2
  <2>5. [findings[t][l][i] EXCEPT !.level = lower, !.resolved = TRUE] = x
    BY <2>4, FindingResolved
  <2>6. lower \in {"danger", "watch", "clear"}
    BY <2>4 DEF Found, lower
  <2>7. x \in Found /\ Marked(x)
    BY <2>4, <2>6 DEF Found, Marked
  <2> HIDE DEF x
  <2>8. findings' = [findings EXCEPT ![t][l] = new]
    <3>1. findings \in [Tenant -> [LotId -> Seq(Found)]] /\ i \in DOMAIN findings[t][l]
      BY <2>2 DEF SInv
    <3>2. t \in Tenant
      BY <2>1
    <3> HIDE DEF t
    <3>3. [findings EXCEPT ![t][l][i].level = lower, ![t][l][i].resolved = TRUE]
            = [findings EXCEPT ![t][l] = new]
      BY <2>5, <3>1, <3>2
    <3> HIDE DEF new
    <3>4. QED BY <2>3, <3>3
  <2> HIDE DEF old
  <2>9. new \in Seq(Found) /\ \A j \in DOMAIN new : Marked(new[j])
    BY <2>1, <2>2, <2>7
  <2> HIDE DEF new
  <2>10. QED BY <2>1, <2>8, <2>9, FindingsReplaced DEF old
<1>4. ASSUME NEW p, NEW l, NEW day, S!Hold(p, l, day)
      PROVE  UNCHANGED findings
  BY <1>4 DEF S!Hold, S!safety
<1>5. ASSUME NEW p, NEW l, S!Release(p, l)
      PROVE  UNCHANGED findings
  BY <1>5 DEF S!Release, S!safety
<1>6. ASSUME NEW before, S!Expire(before)
      PROVE  UNCHANGED findings
  BY <1>6 DEF S!Expire, S!safety
<1>7. QED
  BY <1>1, <1>2, <1>3, <1>4, <1>5, <1>6 DEF S!Next, S!vars

\* A checklist passes only if everything dangerous on it is marked resolved: no
\* order of Record and Resolve lowers the level of what is still open.
THEOREM DangerIsKept == Spec => []DangerStaysOpen
PROOF
<1>1. Init => SInv
  BY DEF Init, S!Init, SInv
<1>2. SInv /\ [Next]_vars => SInv'
  BY EachAlone, SafetyStep
<1>3. SInv => DangerStaysOpen
  BY DEF SInv, Marked, DangerStaysOpen, S!DangerStaysOpen, S!Passes
<1>4. QED BY <1>1, <1>2, <1>3, PTL DEF Spec

\* Wherever Hold, Release and Expire meet, the notes of a lot are those taken
\* since it came in.
THEOREM NotesAreOfThisStay == Spec => []NotesOfThisStay
PROOF
<1> USE DEF NotesOfThisStay, S!NotesOfThisStay
<1>1. Init => NotesOfThisStay
  BY DEF Init, S!Init
<1>2. ASSUME NotesOfThisStay, [S!Next]_(S!vars) PROVE NotesOfThisStay'
  <2>1. \A p, l, id, r, b : S!Record(p, l, id, r, b) => UNCHANGED <<notes, holds>>
    BY DEF S!Record, S!quarantine
  <2>2. \A p, l, id : S!Resolve(p, l, id) => UNCHANGED <<notes, holds>>
    BY DEF S!Resolve, S!quarantine
  <2>3. \A p, l, day : S!Hold(p, l, day) => notes' = holds'
    BY <1>2 DEF S!Hold
  <2>4. \A p, l : S!Release(p, l) => notes' = holds'
    BY <1>2 DEF S!Release
  <2>5. \A before : S!Expire(before) => notes' = holds'
    BY <1>2 DEF S!Expire
  <2>6. QED BY <1>2, <2>1, <2>2, <2>3, <2>4, <2>5 DEF S!Next, S!vars
<1>3. NotesOfThisStay /\ [Next]_vars => NotesOfThisStay'
  BY EachAlone, <1>2
<1>4. QED BY <1>1, <1>3, PTL DEF Spec

----------------------------------------------------------------------------
(* Transport *)

IsTrip(x) == x = [status |-> x.status, departed |-> x.departed,
                  arrived |-> x.arrived, stops |-> x.stops]

\* The times of a trip that is under way.
InOrder(x, time) ==
  /\ x.status \in T!Away => x.departed \in 0..time
  /\ x.status \in {"arrived", "closed"} => x.arrived \in x.departed..time

TInv ==
  /\ now \in Nat
  /\ trips = [t \in Tenant |-> [id \in Trip |-> trips[t][id]]]
  /\ \A t \in Tenant, id \in Trip : IsTrip(trips[t][id]) /\ InOrder(trips[t][id], now)

\* A trip that is in order may take the place of another.
LEMMA TripReplaced ==
  ASSUME TInv, NEW t \in Tenant, NEW id \in Trip, NEW x, IsTrip(x), InOrder(x, now),
         trips' = [trips EXCEPT ![t][id] = x], now' = now
  PROVE  TInv'
BY DEF TInv

\* Move stamps the time of a departure before that of an arrival.
LEMMA TransportStep == TInv /\ [T!Next]_(T!vars) => TInv'
PROOF
<1> SUFFICES ASSUME TInv, [T!Next]_(T!vars) PROVE TInv'
  OBVIOUS
<1>1. ASSUME UNCHANGED <<now, trips>> PROVE TInv'
  BY <1>1 DEF TInv
<1>2. ASSUME NEW p, NEW v, T!AddVehicle(p, v) PROVE UNCHANGED <<now, trips>>
  BY <1>2 DEF T!AddVehicle
<1>3. ASSUME NEW p \in Local, NEW id \in Trip, NEW v, NEW d, NEW a, NEW s,
             T!Plan(p, id, v, d, a, s)
      PROVE  TInv'
  <2> DEFINE new == [status |-> "planned", departed |-> d, arrived |-> a, stops |-> s]
  <2>1. IsTrip(new) /\ InOrder(new, now)
    BY DEF IsTrip, InOrder, T!Away
  <2>2. /\ p.tenant \in Tenant /\ now' = now
        /\ trips' = [trips EXCEPT ![p.tenant][id] = new]
    BY <1>3, PrincipalAssumption DEF T!Plan
  <2> HIDE DEF new
  <2>3. QED BY <2>1, <2>2, TripReplaced
<1>4. ASSUME NEW p \in Local, NEW id \in Trip, NEW stop, T!AddStop(p, id, stop)
      PROVE  TInv'
  <2> DEFINE t == p.tenant
             x == trips[t][id]
             more == Append(x.stops, stop)
             new == [x EXCEPT !.stops = more]
  <2>1. /\ t \in Tenant /\ now' = now /\ x.status = "planned"
        /\ trips' = [trips EXCEPT ![t][id].stops = more]
    BY <1>4, PrincipalAssumption DEF T!AddStop
  <2> HIDE DEF more
  <2>2. IsTrip(x)
    BY <2>1 DEF TInv
  <2>3. IsTrip(new) /\ InOrder(new, now)
    BY <2>1, <2>2 DEF IsTrip, InOrder, T!Away
  <2>4. trips' = [trips EXCEPT ![t][id] = new]
    BY <2>1
  <2> HIDE DEF new
  <2>5. QED BY <2>1, <2>3, <2>4, TripReplaced
<1>5. ASSUME NEW p \in Local, NEW id \in Trip,
             NEW target \in {"loading", "in_transit", "arrived", "closed"},
             T!Move(p, id, target)
      PROVE  TInv'
  <2> DEFINE t == p.tenant
             x == trips[t][id]
             d == IF target = "in_transit" THEN now ELSE x.departed
             a == IF target = "arrived" THEN now ELSE x.arrived
             new == [status |-> target, departed |-> d, arrived |-> a, stops |-> x.stops]
  <2>1. /\ t \in Tenant /\ now' = now /\ T!Transition(x.status, target)
        /\ trips' = [trips EXCEPT ![t][id].status = target, ![t][id].departed = d,
                                  ![t][id].arrived = a]
    BY <1>5, PrincipalAssumption DEF T!Move
  <2>2. IsTrip(x) /\ InOrder(x, now) /\ now \in Nat
    BY <2>1 DEF TInv
  <2>3. IsTrip(new)
    BY DEF IsTrip
  <2>4. InOrder(new, now)
    BY <2>1, <2>2 DEF InOrder, T!Away, T!Transition
  <2> HIDE DEF d, a
  <2>5. [trips[t][id] EXCEPT !.status = target, !.departed = d, !.arrived = a] = new
    <3> SUFFICES ASSUME NEW y, y = [x EXCEPT !.status = target, !.departed = d,
                                             !.arrived = a]
                 PROVE  y = new
      OBVIOUS
    <3> HIDE DEF x
    <3> QED BY <2>2 DEF IsTrip
  <2> HIDE DEF new
  <2>6. trips = [u \in Tenant |-> [i \in Trip |-> trips[u][i]]]
    BY DEF TInv
  <2>7. trips' = [trips EXCEPT ![t][id] = new]
    BY <2>1, <2>5, <2>6
  <2>8. QED BY <2>1, <2>3, <2>4, <2>7, TripReplaced
<1>6. CASE T!Tick
  <2>1. now' = now + 1 /\ trips' = trips
    BY <1>6 DEF T!Tick
  <2>2. QED BY <2>1 DEF TInv, InOrder
<1>7. QED BY <1>1, <1>2, <1>3, <1>4, <1>5, <1>6 DEF T!Next, T!vars

\* Whatever times a trip was planned with, it left before it arrived, and neither
\* lies in the future: Move sets both, in the order of the transitions.
THEOREM JourneysInOrder == Spec => []JourneyInOrder
PROOF
<1>1. Init => TInv
  BY DEF Init, T!Init, TInv, T!NoTrip, IsTrip, InOrder, T!Away
<1>2. TInv /\ [Next]_vars => TInv'
  BY EachAlone, TransportStep
<1>3. TInv => JourneyInOrder
  BY DEF TInv, InOrder, JourneyInOrder, T!JourneyInOrder
<1>4. QED BY <1>1, <1>2, <1>3, PTL DEF Spec

----------------------------------------------------------------------------
(* Retrier *)

IsCall(x) == x = [pc |-> x.pc, attempt |-> x.attempt] /\ x.attempt \in Nat

\* Without an overlap there is one call at a time, which has the attempts at
\* hand; they are never more than the failures there were.
RInv ==
  /\ call = [c \in Caller |-> call[c]] /\ \A c \in Caller : IsCall(call[c])
  /\ held \in Nat /\ failed \in Nat /\ overlap \in BOOLEAN
  /\ ~overlap => /\ \A c, d \in R!Underway : c = d
                 /\ \A c \in Caller : call[c].pc = "calling" => call[c].attempt = held
                 /\ held <= failed

\* Another attempt or place of one call leaves the calls of the others.
LEMMA CallGoes ==
  ASSUME RInv, NEW c \in Caller, NEW pc, R!Goto(c, pc)
  PROVE  /\ call' = [d \in Caller |-> call'[d]]
         /\ IsCall(call'[c]) /\ call'[c].pc = pc /\ call'[c].attempt = call[c].attempt
         /\ \A d \in Caller \ {c} : call'[d] = call[d]
BY DEF RInv, R!Goto, IsCall

\* A caller that was under way, and goes on or stops, is still the only one.
LEMMA StillAlone ==
  ASSUME \A c, d \in R!Underway : c = d, NEW c \in R!Underway,
         \A d \in Caller \ {c} : call'[d] = call[d]
  PROVE  \A a, b \in R!Underway' : a = b
BY DEF R!Underway

\* Each step keeps the count, and nobody gives up early.
LEMMA RetrierStep ==
  ASSUME RInv, [R!Next]_(R!vars)
  PROVE  /\ RInv'
         /\ \A c \in Caller :
              call[c].pc = "calling" /\ call'[c].pc = "exhausted" /\ ~overlap
                => failed' > Max
PROOF
<1> DEFINE Patient(c) ==
             call[c].pc = "calling" /\ call'[c].pc = "exhausted" /\ ~overlap
               => failed' > Max
<1>0. Max \in Int
  BY IntAssumption
<1>1. CASE UNCHANGED R!vars
  BY <1>1 DEF RInv, R!vars, R!Underway
<1>2. ASSUME NEW c \in Caller, R!Do(c)
      PROVE  RInv' /\ \A d \in Caller : Patient(d)
  <2>1. /\ c \notin R!Underway /\ R!Goto(c, "checking") /\ UNCHANGED <<held, failed>>
        /\ overlap' = (overlap \/ R!Underway # {})
    BY <1>2 DEF R!Do
  <2>2. overlap' \in BOOLEAN
    BY <2>1
  <2>3. ~overlap' => ~overlap /\ R!Underway = {}
    BY <2>1
  <2>4. /\ call' = [d \in Caller |-> call'[d]]
        /\ IsCall(call'[c]) /\ call'[c].pc = "checking"
        /\ \A d \in Caller \ {c} : call'[d] = call[d]
    BY <2>1, CallGoes
  <2>5. R!Underway = {} => \A a, b \in R!Underway' : a = b
    BY <2>4 DEF R!Underway
  <2>6. \A d \in Caller : IsCall(call'[d])
    BY <2>4 DEF RInv
  <2>7. \A d \in Caller : call'[d].pc = "calling" => call[d].pc = "calling" /\ call'[d] = call[d]
    BY <2>4
  <2>8. RInv'
    BY <2>1, <2>2, <2>3, <2>4, <2>5, <2>6, <2>7 DEF RInv
  <2>9. \A d \in Caller : ~(call[d].pc = "calling" /\ call'[d].pc = "exhausted")
    BY <2>4
  <2>10. QED BY <2>8, <2>9
<1>3. ASSUME NEW c \in Caller, R!Read(c)
      PROVE  RInv' /\ \A d \in Caller : Patient(d)
  <2> DEFINE new == [pc |-> "calling", attempt |-> held]
  <2>1. /\ call[c].pc = "checking" /\ call' = [call EXCEPT ![c] = new]
        /\ UNCHANGED <<held, failed, overlap>>
    BY <1>3 DEF R!Read
  <2>2. IsCall(new) /\ new.pc = "calling" /\ new.attempt = held
    BY DEF IsCall, RInv
  <2> HIDE DEF new
  <2>3. /\ call' = [d \in Caller |-> call'[d]] /\ call'[c] = new
        /\ \A d \in Caller \ {c} : call'[d] = call[d]
    BY <2>1 DEF RInv
  <2>4. c \in R!Underway
    BY <2>1 DEF R!Underway, R!Active
  <2>5. ~overlap => \A a, b \in R!Underway' : a = b
    BY <2>3, <2>4, StillAlone DEF RInv
  <2>6. \A d \in Caller : IsCall(call'[d])
    BY <2>2, <2>3 DEF RInv
  <2>7. ~overlap => \A d \in Caller : call'[d].pc = "calling" => call'[d].attempt = held
    BY <2>2, <2>3 DEF RInv
  <2>8. RInv'
    BY <2>1, <2>3, <2>5, <2>6, <2>7 DEF RInv
  <2>9. \A d \in Caller : ~(call[d].pc = "calling" /\ call'[d].pc = "exhausted")
    BY <2>2, <2>3
  <2>10. QED BY <2>8, <2>9
<1>4. ASSUME NEW c \in Caller, NEW pc, R!Goto(c, pc), pc # "calling", c \in R!Underway,
             held' \in Nat, failed' \in Nat, overlap' = overlap,
             ~overlap => held' <= failed',
             call[c].pc = "calling" \/ held' = held,
             call[c].pc = "calling" /\ pc = "exhausted" /\ ~overlap => failed' > Max
      PROVE  RInv' /\ \A d \in Caller : Patient(d)
  <2>1. /\ call' = [d \in Caller |-> call'[d]]
        /\ IsCall(call'[c]) /\ call'[c].pc = pc
        /\ \A d \in Caller \ {c} : call'[d] = call[d]
    BY <1>4, CallGoes
  <2>2. ~overlap => \A a, b \in R!Underway' : a = b
    BY <1>4, <2>1, StillAlone DEF RInv
  <2>3. \A d \in Caller : IsCall(call'[d])
    BY <2>1 DEF RInv
  <2>4. ~overlap => \A d \in Caller : call'[d].pc # "calling"
    <3>1. SUFFICES ASSUME ~overlap, NEW d \in Caller, call'[d].pc = "calling" PROVE FALSE
      OBVIOUS
    <3>2. d # c /\ call[d].pc = "calling"
      BY <1>4, <2>1, <3>1
    <3>3. d \in R!Underway
      BY <3>2 DEF R!Underway, R!Active
    <3>4. QED BY <1>4, <3>1, <3>2, <3>3 DEF RInv
  <2>5. RInv'
    BY <1>4, <2>1, <2>2, <2>3, <2>4 DEF RInv
  <2>6. \A d \in Caller : Patient(d)
    BY <1>4, <2>1
  <2>7. QED BY <2>5, <2>6
<1>5. ASSUME NEW c \in Caller, R!CallSucceeds(c)
      PROVE  RInv' /\ \A d \in Caller : Patient(d)
  <2>1. /\ call[c].pc = "calling" /\ held' = 0 /\ failed' = 0 /\ overlap' = overlap
        /\ R!Goto(c, "returned")
    BY <1>5 DEF R!CallSucceeds
  <2>2. c \in R!Underway
    BY <2>1 DEF R!Underway, R!Active
  <2>3. QED BY <1>4, <2>1, <2>2
<1>6. ASSUME NEW c \in Caller, R!CallFails(c)
      PROVE  RInv' /\ \A d \in Caller : Patient(d)
  <2> DEFINE n == call[c].attempt
  <2>1. /\ call[c].pc = "calling" /\ overlap' = overlap
        /\ failed' = IF failed > Max THEN failed ELSE failed + 1
        /\ \/ n >= Max /\ R!Goto(c, "exhausted") /\ held' = held
           \/ ~(n >= Max) /\ R!Goto(c, "sleeping") /\ held' = n + 1
    BY <1>6 DEF R!CallFails, R!CountFailure
  <2>2. /\ n \in Nat /\ held \in Nat /\ failed \in Nat
        /\ ~overlap => n = held /\ held <= failed
    BY <2>1 DEF RInv, IsCall
  <2>3. c \in R!Underway
    BY <2>1 DEF R!Underway, R!Active
  <2> HIDE DEF n
  <2>4. CASE n >= Max /\ R!Goto(c, "exhausted") /\ held' = held
    <3>1. /\ failed' \in Nat /\ held' \in Nat
          /\ ~overlap => held' <= failed' /\ failed' > Max
      BY <1>0, <2>1, <2>2, <2>4
    <3>2. QED BY <1>4, <2>1, <2>3, <2>4, <3>1
  <2>5. CASE ~(n >= Max) /\ R!Goto(c, "sleeping") /\ held' = n + 1
    <3>1. failed' \in Nat /\ held' \in Nat /\ (~overlap => held' <= failed')
      BY <1>0, <2>1, <2>2, <2>5
    <3>2. QED BY <1>4, <2>1, <2>3, <2>5, <3>1
  <2>6. QED BY <2>1, <2>4, <2>5
<1>7. ASSUME NEW c \in Caller, R!TimerFires(c) \/ R!Cancelled(c)
      PROVE  RInv' /\ \A d \in Caller : Patient(d)
  <2>1. /\ call[c].pc \in {"checking", "sleeping"} /\ UNCHANGED <<held, failed, overlap>>
        /\ R!Goto(c, "checking") \/ R!Goto(c, "returned")
    BY <1>7 DEF R!TimerFires, R!Cancelled
  <2>2. c \in R!Underway
    BY <2>1 DEF R!Underway, R!Active
  <2>3. held' \in Nat /\ failed' \in Nat /\ (~overlap => held' <= failed')
    BY <2>1 DEF RInv
  <2>4. QED BY <1>4, <2>1, <2>2, <2>3
<1>8. QED
  BY <1>1, <1>2, <1>3, <1>5, <1>6, <1>7 DEF R!Next, R!Step

\* As long as calls do not overlap Do gives up only after more failures in a row
\* than Max, those of earlier calls of Do included.
THEOREM NoEarlyExhaustion == Spec => GivesUpAfterMax
PROOF
<1>1. ASSUME Init PROVE RInv
  <2>1. /\ held = 0 /\ failed = 0 /\ overlap \in BOOLEAN
        /\ call = [c \in Caller |-> [pc |-> "returned", attempt |-> 0]]
    BY <1>1 DEF Init, R!Init
  <2>2. /\ call = [c \in Caller |-> call[c]]
        /\ \A c \in Caller : IsCall(call[c]) /\ call[c].pc = "returned"
    BY <2>1 DEF IsCall
  <2>3. R!Underway = {}
    BY <2>2 DEF R!Underway, R!Active
  <2>4. QED BY <2>1, <2>2, <2>3 DEF RInv
<1>2. RInv /\ [Next]_vars => RInv'
  BY EachAlone, RetrierStep
<1>3. RInv /\ [Next]_vars =>
        [\A c \in Caller :
           call[c].pc = "calling" /\ call'[c].pc = "exhausted" /\ ~overlap
             => failed' > Max]_(R!vars)
  BY EachAlone, RetrierStep
<1>4. QED BY <1>1, <1>2, <1>3, PTL DEF Spec, GivesUpAfterMax, R!GivesUpAfterMax

----------------------------------------------------------------------------
(* Paging *)

Walk == {w \in [reading : BOOLEAN, limit : Nat, offset : Nat, seen : SUBSET Row,
                due : SUBSET Row] : w.limit > 0}

\* What a client should see it has seen, or it comes after the pages it read;
\* a client that has stopped has seen it all.
Ahead(w, list) ==
  /\ \A x \in w.due : x \in w.seen \/ \E i \in DOMAIN list : list[i] = x /\ i > w.offset
  /\ ~w.reading => w.due \subseteq w.seen

PInv ==
  /\ rows \in Seq(Row) /\ walk \in [Reader -> Walk]
  /\ \A r \in Reader : Ahead(walk[r], rows)

\* A lot that comes in pushes others on, but none back.
LEMMA InsertPushesOn ==
  ASSUME NEW list \in Seq(Row), NEW x \in Row, NEW i \in 1 .. Len(list) + 1,
         NEW more, more = P!InsertAt(list, i, x)
  PROVE  /\ more \in Seq(Row)
         /\ \A j \in DOMAIN list : \E k \in DOMAIN more : k >= j /\ more[k] = list[j]
PROOF
<1> DEFINE before == SubSeq(list, 1, i - 1)
           after == SubSeq(list, i, Len(list))
<1>1. /\ before \in Seq(Row) /\ Len(before) = i - 1
      /\ \A j \in 1 .. i - 1 : before[j] = list[j]
  OBVIOUS
<1>2. /\ after \in Seq(Row) /\ Len(after) = Len(list) - i + 1
      /\ \A j \in 1 .. Len(list) - i + 1 : after[j] = list[i + j - 1]
  OBVIOUS
<1>3. more = (before \o <<x>>) \o after
  BY DEF P!InsertAt
<1> HIDE DEF before, after
<1>4. /\ more \in Seq(Row) /\ Len(more) = Len(list) + 1
      /\ \A j \in 1 .. i - 1 : more[j] = before[j]
      /\ \A j \in 1 .. Len(list) - i + 1 : more[i + j] = after[j]
  BY <1>1, <1>2, <1>3
<1>5. ASSUME NEW j \in DOMAIN list
      PROVE  \E k \in DOMAIN more : k >= j /\ more[k] = list[j]
  <2>1. CASE j < i
    <3>1. j \in 1 .. i - 1 /\ j \in DOMAIN more /\ more[j] = list[j]
      BY <1>1, <1>4, <2>1
    <3>2. QED BY <3>1
  <2>2. CASE ~(j < i)
    <3> DEFINE k == j + 1
               m == j - i + 1
    <3>1. /\ Len(list) \in Nat /\ i \in Nat /\ j \in Nat /\ j <= Len(list)
          /\ DOMAIN more = 1 .. Len(list) + 1
      BY <1>4
    <3>2. /\ m \in 1 .. Len(list) - i + 1 /\ k = i + m /\ i + m - 1 = j
          /\ k \in DOMAIN more /\ k >= j
      BY <2>2, <3>1
    <3> HIDE DEF k, m
    <3>3. more[k] = after[m] /\ after[m] = list[j]
      BY <1>2, <1>4, <3>2
    <3>4. QED BY <3>2, <3>3
  <2>3. QED BY <2>1, <2>2
<1>6. QED BY <1>4, <1>5

\* The rows of a page.
LEMMA PageHas ==
  ASSUME NEW list \in Seq(Row), list = rows, NEW limit \in Nat, limit > 0,
         NEW offset \in Nat, NEW page, page = P!Page(limit, offset)
  PROVE  /\ page \in Seq(Row)
         /\ page = <<>> => \A i \in DOMAIN list : ~(i > offset)
         /\ \A i \in DOMAIN list : i > offset /\ ~(i > offset + limit)
                                     => list[i] \in P!ToSet(page)
PROOF
<1> DEFINE last == P!LastRow(limit, offset)
<1>1. /\ last \in Nat /\ last <= Len(list)
      /\ last = offset + limit \/ last = Len(list)
  BY DEF P!LastRow
<1>2. page = SubSeq(list, offset + 1, last)
  BY DEF P!Page
<1> HIDE DEF last
<1>3. page \in Seq(Row)
  BY <1>1, <1>2
<1>4. CASE last < offset + 1
  <2>1. \A i \in DOMAIN list : ~(i > offset)
    BY <1>1, <1>4
  <2>2. QED BY <1>3, <2>1
<1>5. CASE ~(last < offset + 1)
  <2>1. /\ Len(page) = last - offset /\ last - offset > 0 /\ page # <<>>
        /\ \A j \in 1 .. last - offset : page[j] = list[offset + j]
    BY <1>1, <1>2, <1>5
  <2>2. ASSUME NEW i \in DOMAIN list, i > offset, ~(i > offset + limit)
        PROVE  list[i] \in P!ToSet(page)
    <3> DEFINE j == i - offset
    <3>1. j \in 1 .. last - offset /\ offset + j = i /\ j \in DOMAIN page
      BY <1>1, <1>3, <2>1, <2>2
    <3> HIDE DEF j
    <3>2. page[j] = list[i]
      BY <2>1, <3>1
    <3>3. QED BY <3>1, <3>2 DEF P!ToSet
  <2>3. QED BY <1>3, <2>1, <2>2
<1>6. QED BY <1>1, <1>4, <1>5

\* Lots that come in stay ahead, and a page brings all of those it passes.
LEMMA PagingStep == PInv /\ [P!Next]_(P!vars) => PInv'
PROOF
<1> SUFFICES ASSUME PInv, [P!Next]_(P!vars) PROVE PInv'
  OBVIOUS
<1>1. CASE UNCHANGED P!vars
  BY <1>1 DEF P!vars, PInv, Ahead
<1>2. ASSUME NEW x \in Row, NEW i \in 1 .. Len(rows) + 1, P!InsertLot(x, i)
      PROVE  PInv'
  <2>1. rows' = P!InsertAt(rows, i, x) /\ walk' = walk /\ rows \in Seq(Row)
    BY <1>2 DEF P!InsertLot, PInv
  <2>2. /\ rows' \in Seq(Row)
        /\ \A j \in DOMAIN rows : \E k \in DOMAIN rows' : k >= j /\ rows'[k] = rows[j]
    BY <2>1, InsertPushesOn
  <2>3. ASSUME NEW r \in Reader PROVE Ahead(walk'[r], rows')
    <3>1. Ahead(walk[r], rows) /\ walk'[r] = walk[r] /\ walk[r].offset \in Nat
      BY <2>1 DEF PInv, Walk
    <3>2. ASSUME NEW y \in walk[r].due, y \notin walk[r].seen
          PROVE  \E k \in DOMAIN rows' : rows'[k] = y /\ k > walk[r].offset
      <4>1. PICK j \in DOMAIN rows : rows[j] = y /\ j > walk[r].offset
        BY <3>1, <3>2 DEF Ahead
      <4>2. PICK k \in DOMAIN rows' : k >= j /\ rows'[k] = rows[j]
        BY <2>2
      <4>3. j \in Nat /\ k \in Nat
        BY <2>1, <2>2
      <4>4. QED BY <3>1, <4>1, <4>2, <4>3
    <3>3. QED BY <3>1, <3>2 DEF Ahead
  <2>4. QED BY <2>1, <2>2, <2>3 DEF PInv
<1>3. ASSUME NEW r \in Reader, NEW w \in Walk, Ahead(w, rows),
             walk' = [walk EXCEPT ![r] = w], rows' = rows
      PROVE  PInv'
  BY <1>3 DEF PInv
<1>4. ASSUME NEW r \in Reader, NEW asked \in Asked, P!Begin(r, asked)
      PROVE  PInv'
  <2> DEFINE limit == P!Limit(asked)
             w == [reading |-> TRUE, limit |-> limit, offset |-> 0, seen |-> {},
                   due |-> P!ToSet(rows)]
  <2>1. limit \in Nat /\ limit > 0
    BY IntAssumption, LimitAssumption DEF P!Limit
  <2>2. /\ walk' = [walk EXCEPT ![r] = w] /\ rows' = rows
    <3> DEFINE new == [P!Idle EXCEPT !.reading = TRUE, !.limit = limit,
                                     !.due = P!ToSet(rows)]
    <3>1. walk' = [walk EXCEPT ![r] = new] /\ rows' = rows
      BY <1>4 DEF P!Begin
    <3> HIDE DEF limit
    <3>2. new = w
      <4> SUFFICES ASSUME NEW y, y = new PROVE y = w
        OBVIOUS
      <4> QED BY DEF P!Idle
    <3>3. QED BY <3>1, <3>2
  <2> HIDE DEF limit
  <2>3. w \in Walk
    BY <2>1 DEF Walk, PInv, P!ToSet
  <2>4. Ahead(w, rows)
    BY DEF Ahead, PInv, P!ToSet
  <2> HIDE DEF w
  <2>5. QED BY <1>3, <2>2, <2>3, <2>4
<1>5. ASSUME NEW r \in Reader, P!ListLots(r)
      PROVE  PInv'
  <2> DEFINE old == walk[r]
             page == P!Page(old.limit, old.offset)
             more == page # <<>>
             next == old.offset + old.limit
             seen == old.seen \cup P!ToSet(page)
             w == [reading |-> more, limit |-> old.limit, offset |-> next,
                   seen |-> seen, due |-> old.due]
  <2>1. /\ walk' = [walk EXCEPT ![r].reading = more, ![r].offset = next, ![r].seen = seen]
        /\ rows' = rows /\ old \in Walk /\ Ahead(old, rows) /\ rows \in Seq(Row)
    BY <1>5 DEF P!ListLots, PInv
  <2>2. /\ page \in Seq(Row)
        /\ page = <<>> => \A i \in DOMAIN rows : ~(i > old.offset)
        /\ \A i \in DOMAIN rows : i > old.offset /\ ~(i > next)
                                    => rows[i] \in P!ToSet(page)
    BY <2>1, PageHas DEF Walk
  <2> HIDE DEF page
  <2>3. seen \in SUBSET Row /\ next \in Nat /\ more \in BOOLEAN
    BY <2>1, <2>2 DEF Walk, P!ToSet
  <2>4. walk' = [walk EXCEPT ![r] = w]
    <3> HIDE DEF more, next, seen
    <3>1. [walk[r] EXCEPT !.reading = more, !.offset = next, !.seen = seen] = w
      <4> SUFFICES ASSUME NEW y, y = [old EXCEPT !.reading = more, !.offset = next,
                                                 !.seen = seen]
                   PROVE  y = w
        OBVIOUS
      <4> HIDE DEF old
      <4> QED BY <2>1 DEF Walk
    <3> HIDE DEF w
    <3>2. QED BY <2>1, <3>1 DEF PInv
  <2>5. w \in Walk
    <3> HIDE DEF more, next, seen, old
    <3> QED BY <2>1, <2>3 DEF Walk
  <2>6. Ahead(w, rows)
    <3>1. ASSUME NEW x \in w.due PROVE x \in w.seen \/ \E i \in DOMAIN rows : rows[i] = x /\ i > w.offset
      BY <2>1, <2>2 DEF Ahead
    <3>2. ~w.reading => w.due \subseteq w.seen
      BY <2>1, <2>2 DEF Ahead
    <3>3. QED BY <3>1, <3>2 DEF Ahead
  <2> HIDE DEF w
  <2>7. QED BY <1>3, <2>1, <2>4, <2>5, <2>6
<1>6. QED BY <1>1, <1>2, <1>4, <1>5 DEF P!Next

\* A walk that has come to an empty page has shown every lot there was when it
\* began: no page skips a row, and new lots only push rows to later pages.
THEOREM WalksMissNothing == Spec => []WalkMissesNothing
PROOF
<1>1. ASSUME Init PROVE PInv
  <2>1. rows = <<>> /\ walk = [r \in Reader |-> P!Idle]
    BY <1>1 DEF Init, P!Init
  <2>2. P!Idle \in Walk /\ P!Idle.due = {}
    BY DEF P!Idle, Walk
  <2>3. QED BY <2>1, <2>2 DEF PInv, Ahead
<1>2. PInv /\ [Next]_vars => PInv'
  BY EachAlone, PagingStep
<1>3. PInv => WalkMissesNothing
  BY DEF PInv, Ahead, WalkMissesNothing, P!WalkMissesNothing
<1>4. QED BY <1>1, <1>2, <1>3, PTL DEF Spec

----------------------------------------------------------------------------
(* Batch intake *)

\* The rows of lots, of which no two have a code of one tenant.
LotsOK(d) ==
  /\ "lots" \in DOMAIN d /\ d.lots = [o \in Lot |-> d.lots[o]]
  /\ \A a, b \in Lot :
       (/\ d.lots[a] # NoLot /\ d.lots[b] # NoLot
        /\ d.lots[a].tenant = d.lots[b].tenant /\ d.lots[a].code = d.lots[b].code)
       => a = b

\* The lot has come of the item.
TakenIn(d, lot, w, entry) ==
  /\ lot \in Lot /\ B!LotFound(d, lot, w.tenant)
  /\ d.lots[lot].code = entry.code /\ d.lots[lot].hazard = entry.hazard

IsJob(x) ==
  /\ x = [item |-> x.item, pc |-> x.pc, lot |-> x.lot]
  /\ x.item.code \in Code /\ x.item.hazard \in Hazard

\* A goroutine has the lot it got, if any, and what it recorded is on record.
JobOK(x, d, w, f, c) ==
  /\ IsJob(x)
  /\ x.pc = "answered" => x.lot = NoLot \/ TakenIn(d, x.lot, w, x.item)
  /\ x.pc \in {"recorded", "done"} =>
       x.item.code \in f \/ (x.lot \in c /\ TakenIn(d, x.lot, w, x.item))

BInv ==
  /\ LotsOK(db)
  /\ failures \subseteq Code /\ retry \subseteq Code
  /\ created \subseteq Lot /\ \A o \in created : B!LotFound(db, o, who.tenant)
  /\ job = [i \in DOMAIN job |-> job[i]]
  /\ \A i \in DOMAIN job : JobOK(job[i], db, who, failures, created)
  /\ phase = "idle" => job = <<>> /\ created = {}
  /\ phase # "idle" => who \in Principal
  /\ phase \notin {"idle", "importing"} => \A i \in DOMAIN job : job[i].pc = "done"

\* Intake adds one row and changes none.
LEMMA IntakeAdds ==
  ASSUME LotsOK(db), NEW p \in Principal, NEW id \in Lot, NEW code \in Code,
         NEW hazard \in Hazard, B!Intake(p, id, code, hazard)
  PROVE  /\ LotsOK(db')
         /\ \A o \in Lot : db.lots[o] # NoLot => db'.lots[o] = db.lots[o]
         /\ TakenIn(db', id, p, [code |-> code, hazard |-> hazard])
PROOF
<1> DEFINE row == [tenant |-> p.tenant, code |-> code, hazard |-> hazard,
                   state |-> "received", version |-> 1]
<1>1. row \in B!LotRow
  BY PrincipalAssumption DEF B!LotRow, B!State
<1>2. /\ row # NoLot
      /\ row.tenant = p.tenant /\ row.code = code /\ row.hazard = hazard
  BY <1>1, BatchAssumption
<1>3. /\ db.lots[id] = NoLot
      /\ \A o \in Lot : db.lots[o] # NoLot =>
           ~(db.lots[o].tenant = p.tenant /\ db.lots[o].code = code)
      /\ db' = B!IntakeTx(db, p, id, code, hazard)
  BY DEF B!Intake, B!LotUnique
<1> DEFINE d == B!InsertLot(db, id, row)
           events == Append(d.audit[id], [tenant |-> p.tenant, action |-> "intake",
                                          result |-> "success"])
<1>4. db' = [d EXCEPT !.audit[id] = events]
  BY <1>3 DEF B!IntakeTx, B!WriteAudit, B!InsertAudit
<1>5. d = [db EXCEPT !.lots[id] = row]
  BY DEF B!InsertLot
<1> HIDE DEF events, d, row
<1>6. "lots" \in DOMAIN d /\ d.lots = [db.lots EXCEPT ![id] = row]
  BY <1>5 DEF LotsOK
<1>7. "lots" \in DOMAIN db' /\ db'.lots = [db.lots EXCEPT ![id] = row]
  BY <1>4, <1>6
<1>8. /\ db'.lots = [o \in Lot |-> db'.lots[o]] /\ db'.lots[id] = row
      /\ \A o \in Lot \ {id} : db'.lots[o] = db.lots[o]
  BY <1>7 DEF LotsOK
<1>9. LotsOK(db')
  BY <1>2, <1>3, <1>7, <1>8 DEF LotsOK
<1>10. TakenIn(db', id, p, [code |-> code, hazard |-> hazard])
  BY <1>2, <1>8 DEF TakenIn, B!LotFound
<1>11. QED BY <1>3, <1>8, <1>9, <1>10

\* What was taken in or recorded stays so while rows, failures and created lots
\* are only added.
LEMMA RecordsStay ==
  ASSUME BInv, \A o \in Lot : db.lots[o] # NoLot => db'.lots[o] = db.lots[o],
         who' = who, failures \subseteq failures', created \subseteq created'
  PROVE  /\ \A i \in DOMAIN job : JobOK(job[i], db', who', failures', created')
         /\ \A o \in created : B!LotFound(db', o, who'.tenant)
PROOF
<1>1. \A lot, entry : TakenIn(db, lot, who, entry) => TakenIn(db', lot, who', entry)
  BY DEF TakenIn, B!LotFound
<1>2. \A i \in DOMAIN job : JobOK(job[i], db', who', failures', created')
  BY <1>1 DEF BInv, JobOK
<1>3. \A o \in created : B!LotFound(db', o, who'.tenant)
  BY DEF BInv, B!LotFound
<1>4. QED BY <1>2, <1>3

\* A goroutine goes on; the others stay where they are.
LEMMA JobGoes ==
  ASSUME BInv, NEW i \in DOMAIN job, NEW pc, NEW lot, B!Go(i, pc, lot)
  PROVE  /\ DOMAIN job' = DOMAIN job /\ job' = [j \in DOMAIN job' |-> job'[j]]
         /\ IsJob(job'[i]) /\ job'[i].item = job[i].item
         /\ job'[i].pc = pc /\ job'[i].lot = lot
         /\ \A j \in DOMAIN job \ {i} : job'[j] = job[j]
PROOF
<1>1. /\ job = [j \in DOMAIN job |-> job[j]] /\ IsJob(job[i])
      /\ job' = [job EXCEPT ![i].pc = pc, ![i].lot = lot]
  BY DEF BInv, JobOK, B!Go
<1>2. QED BY <1>1 DEF IsJob

\* A goroutine goes on, while rows, failures and created lots may be added.
LEMMA WorkerKeeps ==
  ASSUME BInv, NEW i, B!At(i, job[i].pc), job[i].pc # "done",
         NEW pc, NEW lot, B!Go(i, pc, lot),
         LotsOK(db'), \A o \in Lot : db.lots[o] # NoLot => db'.lots[o] = db.lots[o],
         UNCHANGED <<phase, who, retry>>,
         failures \subseteq failures', failures' \subseteq Code,
         created \subseteq created', created' \subseteq Lot,
         \A o \in created' \ created : B!LotFound(db', o, who.tenant),
         pc = "answered" => lot = NoLot \/ TakenIn(db', lot, who, job[i].item),
         pc \in {"recorded", "done"} =>
           \/ job[i].item.code \in failures'
           \/ lot \in created' /\ TakenIn(db', lot, who, job[i].item)
  PROVE  BInv'
PROOF
<1>1. i \in DOMAIN job
  BY DEF B!At
<1>2. /\ DOMAIN job' = DOMAIN job /\ job' = [j \in DOMAIN job' |-> job'[j]]
      /\ IsJob(job'[i]) /\ job'[i].item = job[i].item
      /\ job'[i].pc = pc /\ job'[i].lot = lot
      /\ \A j \in DOMAIN job \ {i} : job'[j] = job[j]
  BY <1>1, JobGoes
<1>3. /\ \A j \in DOMAIN job : JobOK(job[j], db', who', failures', created')
      /\ \A o \in created : B!LotFound(db', o, who'.tenant)
  BY RecordsStay
<1>4. JobOK(job'[i], db', who', failures', created')
  BY <1>2 DEF JobOK
<1>5. \A j \in DOMAIN job' : JobOK(job'[j], db', who', failures', created')
  BY <1>2, <1>3, <1>4
<1>6. phase = "importing"
  <2>1. DOMAIN <<>> = {}
    OBVIOUS
  <2>2. QED BY <1>1, <2>1 DEF BInv
<1>7. QED BY <1>2, <1>3, <1>5, <1>6 DEF BInv

\* Nobody goes on, and at most rows are added.
LEMMA OthersKeep ==
  ASSUME BInv, LotsOK(db'),
         \A o \in Lot : db.lots[o] # NoLot => db'.lots[o] = db.lots[o],
         UNCHANGED <<who, job, created, failures>>, retry' \subseteq Code,
         \/ phase' = phase
         \/ phase' \in {"returned", "retrying", "over"} /\ phase # "idle"
              /\ \A i \in DOMAIN job : job[i].pc = "done"
  PROVE  BInv'
PROOF
<1>1. /\ \A i \in DOMAIN job : JobOK(job[i], db', who', failures', created')
      /\ \A o \in created : B!LotFound(db', o, who'.tenant)
  BY RecordsStay
<1>2. QED BY <1>1 DEF BInv

\* Each step keeps what is on record true.
LEMMA BatchStep == BInv /\ [B!BatchNext]_(B!batchVars) => BInv'
PROOF
<1> SUFFICES ASSUME BInv, [B!BatchNext]_(B!batchVars) PROVE BInv'
  OBVIOUS
<1>0. /\ LotsOK(db) /\ failures \subseteq Code /\ retry \subseteq Code
      /\ created \subseteq Lot
  BY DEF BInv
<1>1. CASE UNCHANGED B!batchVars
  BY <1>1 DEF B!batchVars, B!result, BInv
<1>2. ASSUME NEW p \in Principal, NEW batch \in Batches, NEW n, B!Import(p, batch, n)
      PROVE  BInv'
  <2> DEFINE start(i) == [item |-> batch[i], pc |-> "waiting", lot |-> NoLot]
  <2>1. /\ phase = "idle" /\ phase' = "importing" /\ who' = p
        /\ job' = [i \in DOMAIN batch |-> start(i)]
        /\ UNCHANGED <<db, created, failures, retry>>
    BY <1>2 DEF B!Import, B!result
  <2>2. \A i \in DOMAIN batch : batch[i].code \in Code /\ batch[i].hazard \in Hazard
    <3> DEFINE Entry == [code : Code, hazard : Hazard]
    <3>1. \A e \in Entry : e.code \in Code /\ e.hazard \in Hazard
      OBVIOUS
    <3>2. batch \in Seq(Entry)
      BY BatchAssumption
    <3> HIDE DEF Entry
    <3>3. DOMAIN batch = 1..Len(batch) /\ \A i \in 1..Len(batch) : batch[i] \in Entry
      BY <3>2
    <3>4. QED BY <3>1, <3>3
  <2>3. \A i \in DOMAIN batch : JobOK(start(i), db, p, failures, created)
    BY <2>2 DEF JobOK, IsJob
  <2> HIDE DEF start
  <2>4. created = {} /\ LotsOK(db)
    BY <2>1 DEF BInv
  <2>5. QED BY <1>0, <2>1, <2>3, <2>4 DEF BInv
<1>3. ASSUME NEW i, B!Acquire(i) PROVE BInv'
  <2>1. /\ B!At(i, "waiting") /\ job[i].pc = "waiting" /\ B!Go(i, "intake", NoLot)
        /\ UNCHANGED <<db, phase, who, created, failures, retry>>
    BY <1>3 DEF B!Acquire, B!At, B!result
  <2>2. QED BY <1>0, <2>1, WorkerKeeps
<1>4. ASSUME NEW i, B!Skip(i) PROVE BInv'
  <2>1. /\ B!At(i, "waiting") /\ job[i].pc = "waiting" /\ B!Go(i, "done", NoLot)
        /\ failures' = failures \cup {job[i].item.code}
        /\ UNCHANGED <<db, phase, who, created, retry>>
    BY <1>4 DEF B!Skip, B!At
  <2>2. job[i].item.code \in Code
    BY <2>1 DEF BInv, JobOK, IsJob, B!At
  <2>3. QED BY <1>0, <2>1, <2>2, WorkerKeeps
<1>5. ASSUME NEW i, B!IntakeSucceeds(i) PROVE BInv'
  <2>1. PICK id \in Lot : /\ B!Intake(who, id, job[i].item.code, job[i].item.hazard)
                          /\ B!Go(i, "answered", id)
    BY <1>5 DEF B!IntakeSucceeds
  <2>2. /\ B!At(i, "intake") /\ job[i].pc = "intake" /\ i \in DOMAIN job
        /\ UNCHANGED <<phase, who, created, failures, retry>>
    BY <1>5 DEF B!IntakeSucceeds, B!At, B!result
  <2>3. who \in Principal
    <3>1. DOMAIN <<>> = {}
      OBVIOUS
    <3>2. QED BY <2>2, <3>1 DEF BInv
  <2> DEFINE code == job[i].item.code
             hazard == job[i].item.hazard
  <2>4. code \in Code /\ hazard \in Hazard
    BY <2>2 DEF BInv, JobOK, IsJob
  <2>5. /\ LotsOK(db')
        /\ \A o \in Lot : db.lots[o] # NoLot => db'.lots[o] = db.lots[o]
        /\ TakenIn(db', id, who, [code |-> code, hazard |-> hazard])
    BY <1>0, <2>1, <2>3, <2>4, IntakeAdds
  <2>6. TakenIn(db', id, who, job[i].item)
    BY <2>5 DEF TakenIn
  <2>7. QED BY <1>0, <2>1, <2>2, <2>5, <2>6, WorkerKeeps
<1>6. ASSUME NEW i, B!IntakeFails(i) PROVE BInv'
  <2>1. /\ B!At(i, "intake") /\ job[i].pc = "intake" /\ B!Go(i, "answered", NoLot)
        /\ UNCHANGED <<db, phase, who, created, failures, retry>>
    BY <1>6 DEF B!IntakeFails, B!At, B!result
  <2>2. QED BY <1>0, <2>1, WorkerKeeps
<1>7. ASSUME NEW i, B!Record(i) PROVE BInv'
  <2> DEFINE lot == job[i].lot
  <2>1. /\ B!At(i, "answered") /\ job[i].pc = "answered" /\ i \in DOMAIN job
        /\ B!Go(i, "recorded", lot) /\ UNCHANGED <<db, phase, who, retry>>
    BY <1>7 DEF B!Record, B!At
  <2>2. /\ job[i].item.code \in Code
        /\ lot = NoLot \/ TakenIn(db, lot, who, job[i].item)
    BY <2>1 DEF BInv, JobOK, IsJob
  <2>3. CASE lot = NoLot
    <3>1. failures' = failures \cup {job[i].item.code} /\ created' = created
      BY <1>7, <2>3 DEF B!Record
    <3>2. QED BY <1>0, <2>1, <2>2, <2>3, <3>1, WorkerKeeps
  <2>4. CASE lot # NoLot
    <3>1. created' = created \cup {lot} /\ failures' = failures
      BY <1>7, <2>4 DEF B!Record
    <3>2. lot \in Lot /\ B!LotFound(db, lot, who.tenant)
      BY <2>2, <2>4 DEF TakenIn
    <3>3. QED BY <1>0, <2>1, <2>2, <2>4, <3>1, <3>2, WorkerKeeps
  <2>5. QED BY <2>3, <2>4
<1>8. ASSUME NEW i, B!Release(i) PROVE BInv'
  <2> DEFINE lot == job[i].lot
  <2>1. /\ B!At(i, "recorded") /\ job[i].pc = "recorded" /\ i \in DOMAIN job
        /\ B!Go(i, "done", lot)
        /\ UNCHANGED <<db, phase, who, created, failures, retry>>
    BY <1>8 DEF B!Release, B!At, B!result
  <2>2. \/ job[i].item.code \in failures
        \/ lot \in created /\ TakenIn(db, lot, who, job[i].item)
    BY <2>1 DEF BInv, JobOK
  <2>3. QED BY <1>0, <2>1, <2>2, WorkerKeeps
<1>9. ASSUME B!Return \/ B!RetryFailed \/ B!RetryReturns \/ B!EndContext PROVE BInv'
  <2>1. /\ UNCHANGED <<db, who, job, created, failures>>
        /\ retry' \in {retry, failures}
    BY <1>9 DEF B!Return, B!RetryFailed, B!RetryReturns, B!EndContext, B!result
  <2>2. \/ phase' = phase
        \/ phase' \in {"returned", "retrying", "over"} /\ phase # "idle"
             /\ \A i \in DOMAIN job : job[i].pc = "done"
    BY <1>9 DEF B!Return, B!RetryFailed, B!RetryReturns, B!EndContext, BInv
  <2>3. QED BY <1>0, <2>1, <2>2, OthersKeep
<1>10. ASSUME NEW code \in retry, B!RetryOne(code) PROVE BInv'
  <2>1. /\ phase = "retrying" /\ retry' = retry \ {code} /\ phase' = phase
        /\ UNCHANGED <<who, job, created, failures>>
        /\ \/ \E id \in Lot : B!Intake(who, id, code, B!RetryHazard)
           \/ UNCHANGED db
    BY <1>10 DEF B!RetryOne, B!result
  <2>2. who \in Principal /\ code \in Code
    BY <1>0, <2>1 DEF BInv
  <2>3. /\ LotsOK(db')
        /\ \A o \in Lot : db.lots[o] # NoLot => db'.lots[o] = db.lots[o]
    BY <1>0, <2>1, <2>2, IntakeAdds, BatchAssumption
  <2>4. QED BY <1>0, <2>1, <2>3, OthersKeep
<1>11. ASSUME NEW p \in Principal, NEW code \in Code, B!OtherIntake(p, code) PROVE BInv'
  <2>1. /\ UNCHANGED <<phase, who, job, created, failures, retry>>
        /\ \E id \in Lot : B!Intake(p, id, code, B!RetryHazard)
    BY <1>11 DEF B!OtherIntake, B!result
  <2>2. /\ LotsOK(db')
        /\ \A o \in Lot : db.lots[o] # NoLot => db'.lots[o] = db.lots[o]
    BY <1>0, <2>1, IntakeAdds, BatchAssumption
  <2>3. QED BY <1>0, <2>1, <2>2, OthersKeep
<1>12. QED
  BY <1>1, <1>2, <1>3, <1>4, <1>5, <1>6, <1>7, <1>8, <1>9, <1>10, <1>11
     DEF B!BatchNext, B!Worker

\* With any number of items and workers, whatever others take in meanwhile and
\* whenever the context ends: when Import has returned every item has failed on
\* record or is a created lot, and none is created twice.
THEOREM EveryItemOnRecord == Spec => []EveryItemAnswered
PROOF
<1>1. ASSUME Init PROVE BInv
  <2>1. /\ phase = "idle" /\ job = <<>> /\ created = {} /\ failures = {} /\ retry = {}
        /\ db = B!EmptyDatabase
    BY <1>1 DEF Init, B!BatchInit, B!Init
  <2>2. LotsOK(db)
    <3>1. "lots" \in DOMAIN db /\ db.lots = [o \in Lot |-> NoLot]
      BY <2>1 DEF B!EmptyDatabase
    <3>2. \A o \in Lot : db.lots[o] = NoLot
      BY <3>1
    <3>3. db.lots = [o \in Lot |-> db.lots[o]]
      BY <3>1
    <3>4. ASSUME NEW a \in Lot, NEW b \in Lot, db.lots[a] # NoLot
          PROVE  a = b
      BY <3>2, <3>4
    <3>5. "lots" \in DOMAIN db
      BY <3>1
    <3>6. QED BY <3>3, <3>4, <3>5, Zenon DEF LotsOK
  <2>3. DOMAIN job = {} /\ job = [i \in DOMAIN job |-> job[i]]
    BY <2>1
  <2>4. QED BY <2>1, <2>2, <2>3 DEF BInv
<1>2. BInv /\ [Next]_vars => BInv'
  BY EachAlone, BatchStep
<1>3. ASSUME BInv PROVE EveryItemAnswered
  <2> SUFFICES ASSUME phase \notin {"idle", "importing"}
               PROVE  /\ \A i \in DOMAIN job :
                           \/ job[i].item.code \in failures
                           \/ \E o \in created :
                                /\ B!LotFound(db, o, who.tenant)
                                /\ db.lots[o].code = job[i].item.code
                                /\ db.lots[o].hazard = job[i].item.hazard
                      /\ \A a, b \in created : db.lots[a].code = db.lots[b].code => a = b
    BY DEF EveryItemAnswered, B!EveryItemAnswered
  <2>1. \A i \in DOMAIN job : JobOK(job[i], db, who, failures, created) /\ job[i].pc = "done"
    BY <1>3 DEF BInv
  <2>2. \A i \in DOMAIN job :
          \/ job[i].item.code \in failures
          \/ \E o \in created :
               /\ B!LotFound(db, o, who.tenant)
               /\ db.lots[o].code = job[i].item.code
               /\ db.lots[o].hazard = job[i].item.hazard
    BY <2>1 DEF JobOK, TakenIn
  <2>3. \A a, b \in created : db.lots[a].code = db.lots[b].code => a = b
    BY <1>3 DEF BInv, LotsOK, B!LotFound
  <2>4. QED BY <2>2, <2>3
<1>4. QED BY <1>1, <1>2, <1>3, PTL DEF Spec

----------------------------------------------------------------------------
(* Notifications *)

\* A record of three fields; their counts do not matter.
IsItem(x) ==
  /\ x = [status |-> x.status, attempts |-> x.attempts, wait |-> x.wait]
  /\ x.status \in N!Status

\* Ready for Claim.
Ready(x) == x.status = "queued" \/ (x.status = "failed" /\ x.wait = 0)

Known == {m \in Message : item[m].status # "none"}

MailShapes ==
  /\ item = [m \in Message |-> item[m]] /\ \A m \in Message : IsItem(item[m])
  /\ IsFiniteSet(Known)
  /\ line \in Seq(Message)
  /\ hand \in [Sender -> Message \cup {NoMessage}]

InLine == \A i \in DOMAIN line : Ready(item[line[i]])

OnceInLine == \A i, j \in DOMAIN line : line[i] = line[j] => i = j

NInv == MailShapes /\ InLine /\ OnceInLine /\ OneSenderEach

\* Initially nobody waits and nobody sends.
LEMMA NInvInit == N!Init => NInv
PROOF
<1> SUFFICES ASSUME N!Init PROVE NInv
  OBVIOUS
<1>1. Known = {} /\ line = <<>> /\ DOMAIN line = {}
  BY DEF N!Init, Known
<1>2. MailShapes
  BY <1>1, FS_EmptySet DEF N!Init, MailShapes, IsItem, N!Status
<1>3. InLine /\ OnceInLine
  BY <1>1 DEF InLine, OnceInLine
<1>4. OneSenderEach
  BY DEF N!Init, OneSenderEach, N!OneSenderEach
<1>5. QED BY <1>2, <1>3, <1>4 DEF NInv

\* In line are messages that are Ready.
LEMMA ReadyInLine ==
  NInv => \A i \in DOMAIN line : line[i] \in Message /\ Ready(item[line[i]])
PROOF
<1> SUFFICES ASSUME NInv, NEW i \in DOMAIN line
             PROVE  line[i] \in Message /\ Ready(item[line[i]])
  OBVIOUS
<1>1. line \in Seq(Message)
  BY DEF NInv, MailShapes
<1>2. InLine
  BY DEF NInv
<1>3. QED BY <1>1, <1>2 DEF InLine

\* A new message comes last and is nobody's yet.
LEMMA QueueKeeps ==
  ASSUME NInv, NEW m \in Message, N!Queue(m)
  PROVE  NInv'
PROOF
<1> USE DEF NInv, MailShapes
<1>1. /\ item[m].status = "none" /\ line' = Append(line, m) /\ UNCHANGED hand
      /\ item' = [item EXCEPT ![m].status = "queued"]
  BY DEF N!Queue
<1>2. /\ item' = [n \in Message |-> item'[n]]
      /\ IsItem(item'[m]) /\ item'[m].status = "queued"
      /\ \A n \in Message \ {m} : item'[n] = item[n]
  BY <1>1 DEF IsItem, N!Status
<1>3. IsFiniteSet(Known')
  <2>1. Known' = Known \cup {m}
    BY <1>2 DEF Known
  <2>2. QED BY <2>1, FS_AddElement
<1>4. /\ DOMAIN line' = DOMAIN line \cup {Len(line) + 1} /\ line' \in Seq(Message)
      /\ line'[Len(line) + 1] = m
      /\ \A i \in DOMAIN line : line[i] \in Message /\ line'[i] = line[i]
  BY <1>1
<1>5. \A i \in DOMAIN line : line[i] # m
  BY <1>1 DEF InLine, Ready
<1>6. MailShapes'
  BY <1>1, <1>2, <1>3, <1>4
<1>7. InLine' /\ OnceInLine'
  <2>1. \A i \in DOMAIN line : Ready(item'[line[i]])
    BY <1>2, <1>4, <1>5 DEF InLine
  <2>2. Ready(item'[m])
    BY <1>2 DEF Ready
  <2> HIDE DEF NInv, MailShapes
  <2>3. InLine'
    BY <1>4, <2>1, <2>2 DEF InLine
  <2>4. OnceInLine'
    BY <1>4, <1>5 DEF NInv, OnceInLine
  <2>5. QED BY <2>3, <2>4
<1>8. OneSenderEach'
  BY <1>1, <1>2 DEF OneSenderEach, N!OneSenderEach
<1>9. QED BY <1>6, <1>7, <1>8

\* Who is claimed leaves the line for one hand.
LEMMA ClaimKeeps ==
  ASSUME NInv, NEW s \in Sender, N!Claim(s)
  PROVE  NInv'
PROOF
<1> USE DEF NInv, MailShapes
<1> DEFINE m == Head(line)
<1>1. /\ hand[s] = NoMessage /\ line # <<>> /\ line' = Tail(line)
      /\ hand' = [hand EXCEPT ![s] = m]
      /\ item' = [item EXCEPT ![m].status = "sending",
                              ![m].attempts = N!CountUpTo(@ + 1)]
  BY DEF N!Claim
<1>2. /\ m = line[1] /\ 1 \in DOMAIN line /\ m \in Message
      /\ line' \in Seq(Message)
      /\ \A i \in DOMAIN line' : /\ i + 1 \in DOMAIN line /\ i + 1 # 1
                                 /\ line'[i] = line[i + 1] /\ line'[i] \in Message
                                 /\ i \in Nat
  BY <1>1
<1> HIDE DEF m
<1>3. Ready(item[m]) /\ \A i \in DOMAIN line' : line'[i] # m
  BY <1>2 DEF InLine, OnceInLine
<1>4. /\ item' = [n \in Message |-> item'[n]]
      /\ IsItem(item'[m]) /\ item'[m].status = "sending"
      /\ \A n \in Message \ {m} : item'[n] = item[n]
  <2> DEFINE more == N!CountUpTo(item[m].attempts + 1)
  <2>1. item' = [item EXCEPT ![m].status = "sending", ![m].attempts = more]
    BY <1>1
  <2> HIDE DEF more
  <2>2. item = [n \in Message |-> item[n]] /\ IsItem(item[m])
    BY <1>2
  <2> HIDE DEF NInv, MailShapes
  <2>3. item'[m] = [status |-> "sending", attempts |-> more, wait |-> item[m].wait]
    BY <1>2, <2>1, <2>2 DEF IsItem
  <2>4. QED BY <1>2, <2>1, <2>2, <2>3 DEF IsItem, N!Status
<1>5. IsFiniteSet(Known')
  <2>1. Known' = Known
    BY <1>2, <1>3, <1>4 DEF Known, Ready
  <2>2. QED BY <2>1
<1>6. MailShapes'
  BY <1>1, <1>2, <1>4, <1>5
<1>7. InLine'
  <2>1. \A i \in DOMAIN line' : Ready(item[line'[i]])
    BY <1>2 DEF InLine
  <2> HIDE DEF NInv, MailShapes
  <2>2. QED BY <1>2, <1>3, <1>4, <2>1 DEF InLine
<1>8. OnceInLine'
  <2>1. SUFFICES ASSUME NEW i \in DOMAIN line', NEW j \in DOMAIN line',
                        line'[i] = line'[j]
                 PROVE  i = j
    BY DEF OnceInLine
  <2>2. i + 1 = j + 1
    BY <1>2, <2>1 DEF OnceInLine
  <2>3. QED BY <1>2, <2>2
<1>9. OneSenderEach'
  <2>1. \A t \in Sender : hand[t] # m \/ hand[t] = NoMessage
    BY <1>3 DEF OneSenderEach, N!OneSenderEach, Ready
  <2>2. \A t \in Sender : hand'[t] = IF t = s THEN m ELSE hand[t]
    BY <1>1
  <2>3. \A t \in Sender : hand'[t] # NoMessage => item'[hand'[t]].status = "sending"
    <3>1. \A t \in Sender : hand[t] \in Message \cup {NoMessage}
      OBVIOUS
    <3>2. \A t \in Sender : hand[t] # NoMessage => item[hand[t]].status = "sending"
      BY DEF OneSenderEach, N!OneSenderEach
    <3> HIDE DEF NInv, MailShapes
    <3>3. QED BY <1>4, <2>1, <2>2, <3>1, <3>2
  <2>4. \A t, u \in Sender : hand'[t] = hand'[u] /\ hand'[t] # NoMessage => t = u
    BY <2>1, <2>2 DEF OneSenderEach, N!OneSenderEach
  <2>5. QED BY <2>3, <2>4 DEF OneSenderEach, N!OneSenderEach
<1>10. QED BY <1>6, <1>7, <1>8, <1>9

\* What leaves a hand is in no other and not in line: whatever its outcome, the
\* line goes on without it.
LEMMA LetGoKeeps ==
  ASSUME NInv, NEW s \in Sender, hand[s] # NoMessage, NEW new, IsItem(new),
         new.status # "none", item' = [m \in Message |-> item'[m]],
         item'[hand[s]] = new,
         \A m \in Message \ {hand[s]} : item'[m] = item[m],
         hand' = [hand EXCEPT ![s] = NoMessage], UNCHANGED line
  PROVE  NInv'
PROOF
<1> USE DEF NInv, MailShapes
<1>1. hand[s] \in Message /\ item[hand[s]].status = "sending"
  BY DEF OneSenderEach, N!OneSenderEach
<1>2. \A i \in DOMAIN line : line[i] \in Message /\ line[i] # hand[s]
  BY <1>1, ReadyInLine DEF Ready
<1>3. Known' = Known
  BY <1>1, <1>2 DEF Known
<1>4. MailShapes'
  BY <1>1, <1>2, <1>3
<1>5. InLine' /\ OnceInLine'
  BY <1>2 DEF InLine, OnceInLine
<1>6. OneSenderEach'
  BY <1>1, <1>2 DEF OneSenderEach, N!OneSenderEach
<1>7. QED BY <1>4, <1>5, <1>6

\* Both outcomes, and none.
LEMMA OutcomeKeeps ==
  ASSUME NInv, NEW s \in Sender, N!Complete(s) \/ N!GiveUp(s)
  PROVE  NInv'
PROOF
<1> DEFINE old == item[hand[s]]
<1>1. /\ hand[s] # NoMessage /\ hand[s] \in Message /\ IsItem(old)
      /\ old.status = "sending" /\ UNCHANGED line
      /\ hand' = [hand EXCEPT ![s] = NoMessage]
      /\ item = [m \in Message |-> item[m]]
  BY DEF NInv, MailShapes, OneSenderEach, N!OneSenderEach, N!Complete, N!CompleteSent, N!CompleteFailed, N!GiveUp
<1>2. CASE N!CompleteSent(s)
  <2> DEFINE new == [status |-> "sent", attempts |-> old.attempts, wait |-> old.wait]
  <2>1. IsItem(new) /\ new.status # "none"
    BY DEF IsItem, N!Status
  <2>2. /\ item' = [m \in Message |-> item'[m]] /\ item'[hand[s]] = new
        /\ \A m \in Message \ {hand[s]} : item'[m] = item[m]
    BY <1>1, <1>2 DEF N!CompleteSent, IsItem
  <2> HIDE DEF new, old
  <2>3. QED BY <1>1, <2>1, <2>2, LetGoKeeps
<1>3. CASE N!CompleteFailed(s)
  <2> DEFINE later == N!Backoff(item[hand[s]].attempts)
             new == [status |-> "failed", attempts |-> old.attempts, wait |-> later]
  <2>1. item' = [item EXCEPT ![hand[s]].status = "failed", ![hand[s]].wait = later]
    BY <1>3 DEF N!CompleteFailed
  <2> HIDE DEF later
  <2>2. IsItem(new) /\ new.status # "none"
    BY DEF IsItem, N!Status
  <2>3. /\ item' = [m \in Message |-> item'[m]] /\ item'[hand[s]] = new
        /\ \A m \in Message \ {hand[s]} : item'[m] = item[m]
    BY <1>1, <2>1 DEF IsItem
  <2> HIDE DEF new, old
  <2>4. QED BY <1>1, <2>2, <2>3, LetGoKeeps
<1>4. CASE N!GiveUp(s)
  <2>1. /\ item' = item /\ old.status # "none"
        /\ item' = [m \in Message |-> item'[m]] /\ item'[hand[s]] = old
    BY <1>1, <1>4 DEF N!GiveUp
  <2> HIDE DEF old
  <2>2. QED BY <1>1, <2>1, LetGoKeeps
<1>5. QED BY <1>2, <1>3, <1>4 DEF N!Complete

\* Those whose time has come were not in line, and line up once each.
LEMMA TickKeeps ==
  ASSUME NInv, N!Tick
  PROVE  NInv'
PROOF
<1> DEFINE due == {m \in Message : item[m].status = "failed" /\ item[m].wait = 1}
           n == Cardinality(due)
<1>1. PICK order \in N!SetToSeqs(due) : line' = line \o order
  BY DEF N!Tick
<1>2. /\ UNCHANGED hand
      /\ item' = [m \in Message |->
           [item[m] EXCEPT !.wait = IF @ = 0 THEN 0 ELSE @ - 1]]
  BY DEF N!Tick
<1>3. n \in Nat
  BY FS_Subset, FS_CardinalityType DEF NInv, MailShapes, Known
<1>4. /\ order \in Seq(Message) /\ DOMAIN order = 1 .. n /\ Len(order) = n
      /\ \A i \in 1 .. n : order[i] \in due
      /\ \A i, j \in 1 .. n : order[i] = order[j] => i = j
  <2>1. order \in [1 .. n -> due] /\ \A i, j \in 1 .. n : i # j => order[i] # order[j]
    BY DEF N!SetToSeqs, N!Cardinality, Cardinality
  <2> HIDE DEF n
  <2>2. order \in [1 .. n -> Message]
    BY <2>1
  <2>3. QED BY <1>3, <2>1, <2>2
<1> HIDE DEF n
<1>5. /\ item' = [m \in Message |-> item'[m]]
      /\ \A m \in Message : /\ IsItem(item'[m])
                            /\ item'[m].status = item[m].status
                            /\ Ready(item[m]) => Ready(item'[m])
                            /\ m \in due => Ready(item'[m])
  BY <1>2 DEF NInv, MailShapes, IsItem, Ready
<1>6. \A m \in due : m \in Message /\ ~Ready(item[m])
  BY DEF Ready
<1> HIDE DEF due
<1>7. /\ line' \in Seq(Message)
      /\ \A k \in DOMAIN line' :
           \/ k \in DOMAIN line /\ line'[k] = line[k] /\ line[k] \in Message
           \/ /\ k \notin DOMAIN line /\ k - Len(line) \in 1 .. n
              /\ line'[k] = order[k - Len(line)] /\ k \in Nat
  BY <1>1, <1>3, <1>4 DEF NInv, MailShapes
<1>8. MailShapes'
  <2>1. Known' = Known
    BY <1>5 DEF Known
  <2>2. QED BY <1>2, <1>5, <1>7, <2>1 DEF NInv, MailShapes
<1>9. InLine'
  BY <1>4, <1>5, <1>6, <1>7 DEF NInv, InLine
<1>10. OnceInLine'
  <2>1. SUFFICES ASSUME NEW i \in DOMAIN line', NEW j \in DOMAIN line',
                        line'[i] = line'[j]
                 PROVE  i = j
    BY DEF OnceInLine
  <2>2. Len(line) \in Nat
    BY DEF NInv, MailShapes
  <2>3. \A k \in DOMAIN line : Ready(item[line[k]])
    BY DEF NInv, InLine
  <2>4. CASE i \in DOMAIN line /\ j \in DOMAIN line
    BY <1>7, <2>1, <2>4 DEF NInv, OnceInLine
  <2>5. CASE i \notin DOMAIN line /\ j \notin DOMAIN line
    <3>1. i - Len(line) = j - Len(line) /\ i \in Nat /\ j \in Nat
      BY <1>4, <1>7, <2>1, <2>5
    <3>2. QED BY <2>2, <3>1
  <2>6. CASE (i \in DOMAIN line) # (j \in DOMAIN line)
    BY <1>4, <1>6, <1>7, <2>1, <2>3, <2>6
  <2>7. QED BY <2>4, <2>5, <2>6
<1>11. OneSenderEach'
  BY <1>2, <1>5 DEF NInv, MailShapes, OneSenderEach, N!OneSenderEach
<1>12. QED BY <1>8, <1>9, <1>10, <1>11 DEF NInv

\* Every step keeps the line and the hands apart.
LEMMA NInvStep == NInv /\ [N!Next]_(N!vars) => NInv'
PROOF
<1> SUFFICES ASSUME NInv, [N!Next]_(N!vars) PROVE NInv'
  OBVIOUS
<1>1. ASSUME NEW m \in Message, N!Queue(m) PROVE NInv'
  BY <1>1, QueueKeeps
<1>2. ASSUME NEW s \in Sender, N!Claim(s) \/ N!Complete(s) \/ N!GiveUp(s) PROVE NInv'
  BY <1>2, ClaimKeeps, OutcomeKeeps
<1>3. CASE N!Tick
  BY <1>3, TickKeeps
<1>4. CASE UNCHANGED N!vars
  BY <1>4 DEF N!vars, NInv, MailShapes, Known, InLine, OnceInLine, OneSenderEach, N!OneSenderEach
<1>5. QED BY <1>1, <1>2, <1>3, <1>4 DEF N!Next

\* However often messages fail and are tried again, and senders give up, no two
\* senders have the same message, and none has one that can be claimed.
THEOREM NoDoubleSend == Spec => []OneSenderEach
PROOF
<1>1. Init => NInv
  BY NInvInit DEF Init
<1>2. NInv /\ [Next]_vars => NInv'
  BY EachAlone, NInvStep
<1>3. NInv => OneSenderEach
  BY DEF NInv
<1>4. QED BY <1>1, <1>2, <1>3, PTL DEF Spec

----------------------------------------------------------------------------
(* Folds: what a loop over a list computes *)

Least(U, W) == U \in W /\ \A V \in W : V \subseteq U => V = U

\* Induction: of the subsets of a finite set with some property there is a least.
LEMMA LeastSubset ==
  ASSUME NEW A, IsFiniteSet(A), NEW W, W \subseteq SUBSET A, W # {}
  PROVE  \E U : Least(U, W)
PROOF
<1>1. W \subseteq FiniteSubsetsOf(A)
  BY FS_Subset DEF FiniteSubsetsOf
<1>2. PICK U \in W : \A V \in W : ~(<<V, U>> \in StrictSubsetOrdering(A))
  BY <1>1, FS_StrictSubsetOrderingWellFounded, WFMin
<1>3. QED BY <1>2 DEF StrictSubsetOrdering, Least

\* Sets of the numbers of a list are finite.
LEMMA FinitelyMany ==
  ASSUME NEW n \in Nat, NEW U \in SUBSET (1..n)
  PROVE  IsFiniteSet(U)
PROOF
<1>1. IsFiniteSet(1..n)
  BY FS_Interval
<1>2. QED BY <1>1, FS_Subset

\* The number of a list, of those in U, that a loop comes to last.
Last(U) == CHOOSE i \in U : \A j \in U : i >= j

\* There is a last of any finite set of numbers.
LEMMA LastIsThere ==
  ASSUME NEW n \in Nat, NEW U \in SUBSET (1..n), U # {}
  PROVE  Last(U) \in U
PROOF
<1> DEFINE W == {V \in SUBSET U : \E i \in U : V = {j \in U : j > i}}
<1>2. PICK V : Least(V, W)
  <2>1. PICK i \in U : TRUE
    OBVIOUS
  <2>2. {j \in U : j > i} \in W /\ W \subseteq SUBSET U
    OBVIOUS
  <2> HIDE DEF W
  <2>3. IsFiniteSet(U)
    BY FinitelyMany
  <2>4. QED BY <2>2, <2>3, LeastSubset
<1>3. PICK i \in U : V = {j \in U : j > i}
  BY <1>2 DEF Least
<1>4. \A j \in U : i >= j
  <2>1. SUFFICES ASSUME NEW j \in U, ~(i >= j) PROVE FALSE
    OBVIOUS
  <2>2. i \in Int /\ j \in Int /\ j > i
    BY <1>3, <2>1
  <2>3. {k \in U : k > j} \subseteq V
    <3>1. \A k \in U : k \in Int /\ (k > j => k > i)
      BY <2>2
    <3>2. QED BY <1>3, <3>1
  <2>4. {k \in U : k > j} \in W
    OBVIOUS
  <2>5. j \in V /\ j \notin {k \in U : k > j}
    BY <1>3, <2>2
  <2>6. QED BY <1>2, <2>3, <2>4, <2>5 DEF Least
<1>5. QED BY <1>3, <1>4 DEF Last

\* Of the numbers with some property there is a least.
LEMMA LeastNumber ==
  ASSUME NEW n \in Nat, NEW W \in SUBSET (0..n), W # {}
  PROVE  \E k \in W : \A j \in W : k <= j
PROOF
<1> DEFINE V == {X \in SUBSET W : \E k \in W : X = {j \in W : j < k}}
<1>1. PICK X : Least(X, V)
  <2>1. PICK k \in W : TRUE
    OBVIOUS
  <2>2. {j \in W : j < k} \in V /\ V \subseteq SUBSET W
    OBVIOUS
  <2>3. IsFiniteSet(0..n)
    BY FS_Interval
  <2>4. IsFiniteSet(W)
    BY <2>3, FS_Subset
  <2> HIDE DEF V
  <2>5. QED BY <2>2, <2>4, LeastSubset
<1>2. PICK k \in W : X = {j \in W : j < k}
  BY <1>1 DEF Least
<1>3. ASSUME NEW j \in W, ~(k <= j) PROVE FALSE
  <2>1. k \in Int /\ j \in Int /\ j < k
    BY <1>3
  <2>2. {i \in W : i < j} \subseteq X
    <3>1. \A i \in W : i \in Int /\ (i < j => i < k)
      BY <2>1
    <3>2. QED BY <1>2, <3>1
  <2>3. {i \in W : i < j} \in V
    OBVIOUS
  <2>4. j \in X /\ j \notin {i \in W : i < j}
    BY <1>2, <2>1
  <2>5. QED BY <1>1, <2>2, <2>3, <2>4 DEF Least
<1>4. QED BY <1>3

\* The function FoldLeft computes its result with: what it has after the numbers
\* of each subset.  The step for each number is given as a function.
FoldsBy(g, step, base, A) ==
  g = [U \in SUBSET A |->
         IF U = {} THEN base ELSE step[Last(U)][g[U \ {Last(U)}]]]

\* The equation of such a function.
LEMMA FoldsLast ==
  ASSUME NEW g, NEW step, NEW base, NEW A, FoldsBy(g, step, base, A),
         NEW U \in SUBSET A, U # {}
  PROVE  g[U] = step[Last(U)][g[U \ {Last(U)}]]
BY DEF FoldsBy

\* Before any number there is the base.
LEMMA FoldsNothing ==
  ASSUME NEW g, NEW step, NEW base, NEW A, FoldsBy(g, step, base, A)
  PROVE  g[{}] = base
BY DEF FoldsBy

\* Those for a set and for a subset agree on the latter.
LEMMA FoldsAgree ==
  ASSUME NEW n \in Nat, NEW step, NEW base,
         NEW g, NEW A \in SUBSET (1..n), FoldsBy(g, step, base, A),
         NEW h, NEW U \in SUBSET A, FoldsBy(h, step, base, U)
  PROVE  g[U] = h[U]
PROOF
<1> DEFINE W == {V \in SUBSET U : g[V] # h[V]}
<1>1. SUFFICES ASSUME W # {} PROVE FALSE
  OBVIOUS
<1>2. PICK V : Least(V, W)
  <2>1. W \subseteq SUBSET U /\ IsFiniteSet(U)
    BY FinitelyMany
  <2> HIDE DEF W
  <2>2. QED BY <1>1, <2>1, LeastSubset
<1>3. V \in SUBSET U /\ g[V] # h[V] /\ V # {}
  BY <1>2, FoldsNothing DEF Least
<1> DEFINE i == Last(V)
<1>4. i \in V
  BY <1>3, LastIsThere
<1>5. g[V] = step[i][g[V \ {i}]] /\ h[V] = step[i][h[V \ {i}]]
  <2>1. V \in SUBSET A /\ V \in SUBSET U /\ V # {}
    BY <1>3
  <2>2. g[V] = step[Last(V)][g[V \ {Last(V)}]]
    BY <2>1 DEF FoldsBy
  <2>3. h[V] = step[Last(V)][h[V \ {Last(V)}]]
    BY <2>1 DEF FoldsBy
  <2>4. QED BY <2>2, <2>3
<1> HIDE DEF i
<1>6. V \ {i} \notin W
  BY <1>2, <1>4 DEF Least
<1>7. QED BY <1>3, <1>5, <1>6

\* There is such a function for every list.
LEMMA FoldsExist ==
  ASSUME NEW n \in Nat, NEW A \in SUBSET (1..n), NEW step, NEW base
  PROVE  \E g : FoldsBy(g, step, base, A)
PROOF
<1> DEFINE W == {U \in SUBSET A : ~\E g : FoldsBy(g, step, base, U)}
<1>1. SUFFICES ASSUME W # {} PROVE FALSE
  OBVIOUS
<1>2. PICK U : Least(U, W)
  <2>1. W \subseteq SUBSET A /\ IsFiniteSet(A)
    BY FinitelyMany
  <2> HIDE DEF W
  <2>2. QED BY <1>1, <2>1, LeastSubset
<1> DEFINE fn(V) == CHOOSE g : FoldsBy(g, step, base, V)
           rest(V) == V \ {Last(V)}
<1>3. \A V \in SUBSET U : V # U => FoldsBy(fn(V), step, base, V)
  BY <1>2 DEF Least
<1>4. U \in SUBSET (1..n) /\ ~\E g : FoldsBy(g, step, base, U)
  BY <1>2 DEF Least
<1> HIDE DEF W, fn
<1> DEFINE g == [V \in SUBSET U |->
                   IF V = {} THEN base ELSE step[Last(V)][fn(rest(V))[rest(V)]]]
<1>5. \A V \in SUBSET U : V # {} => rest(V) \in SUBSET V /\ rest(V) # V
  BY <1>4, LastIsThere
<1>6. ASSUME NEW V \in SUBSET U, V # U PROVE g[V] = fn(V)[V]
  <2>1. FoldsBy(fn(V), step, base, V)
    BY <1>3, <1>6
  <2>2. CASE V = {}
    BY <2>1, <2>2, FoldsNothing
  <2>3. CASE V # {}
    <3> DEFINE Z == rest(V)
    <3>1. Z \in SUBSET V /\ Z # U /\ Z \in SUBSET U
      BY <1>5, <1>6, <2>3
    <3>2. fn(V)[V] = step[Last(V)][fn(V)[Z]]
      BY <2>1, <2>3, FoldsLast
    <3>3. FoldsBy(fn(Z), step, base, Z)
      BY <1>3, <3>1
    <3> HIDE DEF Z
    <3>4. fn(V)[Z] = fn(Z)[Z]
      <4>1. V \in SUBSET (1..n) /\ Z \in SUBSET V
        BY <1>4, <1>6, <3>1
      <4>2. QED BY <2>1, <3>3, <4>1, FoldsAgree
    <3>5. QED BY <2>3, <3>2, <3>4 DEF Z
  <2>4. QED BY <2>2, <2>3
<1>7. \A V \in SUBSET U : V # {} => g[V] = step[Last(V)][g[rest(V)]]
  <2>1. SUFFICES ASSUME NEW V \in SUBSET U, V # {}
                 PROVE  g[V] = step[Last(V)][g[rest(V)]]
    OBVIOUS
  <2>2. rest(V) \in SUBSET U /\ rest(V) # U
    BY <1>5, <2>1
  <2>3. g[rest(V)] = fn(rest(V))[rest(V)]
    BY <1>6, <2>2
  <2>4. QED BY <2>1, <2>3
<1>8. g = [V \in SUBSET U |-> g[V]] /\ g[{}] = base
  OBVIOUS
<1> HIDE DEF g
<1>9. FoldsBy(g, step, base, U)
  BY <1>7, <1>8 DEF FoldsBy
<1>10. QED BY <1>4, <1>9

\* What steps keep within a set stays there.
LEMMA FoldsWithin ==
  ASSUME NEW n \in Nat, NEW X, NEW base \in X, NEW step \in [1..n -> [X -> X]],
         NEW g, FoldsBy(g, step, base, 1..n), NEW U \in SUBSET (1..n)
  PROVE  g[U] \in X
PROOF
<1> DEFINE W == {V \in SUBSET (1..n) : g[V] \notin X}
<1>1. SUFFICES ASSUME W # {} PROVE FALSE
  OBVIOUS
<1>2. PICK V : Least(V, W)
  <2> DEFINE A == 1..n
  <2>1. W \subseteq SUBSET A /\ IsFiniteSet(A)
    BY FinitelyMany
  <2> HIDE DEF W, A
  <2>2. QED BY <1>1, <2>1, LeastSubset
<1>3. V \in SUBSET (1..n) /\ g[V] \notin X /\ V # {}
  <2>1. g[{}] = base
    BY FoldsNothing
  <2>2. QED BY <1>2, <2>1 DEF Least
<1> DEFINE i == Last(V)
<1>4. i \in V
  BY <1>3, LastIsThere
<1>5. g[V] = step[i][g[V \ {i}]]
  <2> DEFINE A == 1..n
  <2>1. FoldsBy(g, step, base, A) /\ V \in SUBSET A /\ V # {}
    BY <1>3
  <2> HIDE DEF A
  <2>2. g[V] = step[Last(V)][g[V \ {Last(V)}]]
    BY <2>1, FoldsLast
  <2>3. QED BY <2>2
<1> HIDE DEF i
<1>6. V \ {i} \in SUBSET (1..n) /\ V \ {i} \notin W
  BY <1>2, <1>3, <1>4 DEF Least
<1>7. QED BY <1>3, <1>4, <1>5, <1>6

----------------------------------------------------------------------------
(* Trace: what a sweep over the edges finds *)

\* What is seen after the edges with the numbers of each subset.
Sweeps(g, out, list, n) ==
  g = [U \in SUBSET (1..n) |->
         IF U = {} THEN out
         ELSE LET i == Last(U)
              IN  IF list[i][1] \in g[U \ {i}]
                    THEN g[U \ {i}] \cup {list[i][2]} ELSE g[U \ {i}]]

\* The equation of such a function.
LEMMA SweepsLast ==
  ASSUME NEW g, NEW out, NEW list, NEW n, Sweeps(g, out, list, n),
         NEW U \in SUBSET (1..n), U # {}
  PROVE  g[U] = LET i == Last(U)
                IN  IF list[i][1] \in g[U \ {i}]
                      THEN g[U \ {i}] \cup {list[i][2]} ELSE g[U \ {i}]
BY DEF Sweeps

\* Before any edge there is what was seen before.
LEMMA SweepsNothing ==
  ASSUME NEW g, NEW out, NEW list, NEW n, Sweeps(g, out, list, n)
  PROVE  g[{}] = out
BY DEF Sweeps

\* Sweep computes what such functions say.
LEMMA SweepIs ==
  ASSUME NEW n \in Nat, NEW list, DOMAIN list = 1..n, NEW out
  PROVE  \E g : Sweeps(g, out, list, n) /\ G!Sweep(out, list) = g[1..n]
PROOF
<1> DEFINE all == out \cup {list[i][2] : i \in 1..n}
           X == SUBSET all
           step == [i \in 1..n |-> [seen \in X |->
                      IF list[i][1] \in seen THEN seen \cup {list[i][2]} ELSE seen]]
<1>1. step \in [1..n -> [X -> X]] /\ out \in X
  OBVIOUS
<1>2. \A i \in 1..n, seen \in X :
        step[i][seen] = IF list[i][1] \in seen THEN seen \cup {list[i][2]} ELSE seen
  OBVIOUS
<1> HIDE DEF X, step
<1>3. PICK f : FoldsBy(f, step, out, 1..n)
  BY FoldsExist
<1>4. \A U \in SUBSET (1..n) : f[U] \in X
  BY <1>1, <1>3, FoldsWithin
<1>5. ASSUME NEW U \in SUBSET (1..n), U # {}
      PROVE  f[U] = LET i == Last(U)
                    IN  IF list[i][1] \in f[U \ {i}]
                          THEN f[U \ {i}] \cup {list[i][2]} ELSE f[U \ {i}]
  <2>1. Last(U) \in 1..n
    BY <1>5, LastIsThere
  <2>2. f[U] = step[Last(U)][f[U \ {Last(U)}]]
    BY <1>3, <1>5, FoldsLast
  <2>3. QED BY <1>2, <1>4, <2>1, <2>2
<1>6. f = [U \in SUBSET (1..n) |-> f[U]] /\ f[{}] = out
  BY <1>3 DEF FoldsBy
<1>7. Sweeps(f, out, list, n)
  BY <1>5, <1>6 DEF Sweeps
<1> DEFINE g == CHOOSE g : Sweeps(g, out, list, n)
<1>8. Sweeps(g, out, list, n)
  BY <1>7
<1>9. G!Sweep(out, list) = g[1..n]
  BY DEF G!Sweep, G!FoldLeft, G!MapThenFoldSet, G!Max, Sweeps, Last
<1>10. QED BY <1>8, <1>9

\* What contains the end of an edge when it contains its start.
Closed(c, list) == \A i \in DOMAIN list : list[i][1] \in c => list[i][2] \in c

\* A sweep keeps what was seen, adds the ends of all edges that lead out of it,
\* and stays within what is closed.
LEMMA SweepFinds ==
  ASSUME NEW n \in Nat, NEW list, DOMAIN list = 1..n, NEW out
  PROVE  /\ out \subseteq G!Sweep(out, list)
         /\ \A i \in 1..n : list[i][1] \in out => list[i][2] \in G!Sweep(out, list)
         /\ \A c : out \subseteq c /\ Closed(c, list) => G!Sweep(out, list) \subseteq c
PROOF
<1>1. PICK g : Sweeps(g, out, list, n) /\ G!Sweep(out, list) = g[1..n]
  BY SweepIs
<1> DEFINE Good(U) ==
             /\ out \subseteq g[U]
             /\ \A i \in U : list[i][1] \in out => list[i][2] \in g[U]
             /\ \A c : out \subseteq c /\ Closed(c, list) => g[U] \subseteq c
           W == {U \in SUBSET (1..n) : ~Good(U)}
<1>2. SUFFICES ASSUME W # {} PROVE FALSE
  BY <1>1
<1>3. PICK U : Least(U, W)
  <2>1. W \subseteq SUBSET (1..n) /\ IsFiniteSet(1..n)
    BY FinitelyMany
  <2> HIDE DEF W
  <2>2. QED BY <1>2, <2>1, LeastSubset
<1>4. U \in SUBSET (1..n) /\ ~Good(U)
  BY <1>3 DEF Least
<1>5. U # {}
  BY <1>1, <1>4, SweepsNothing
<1> DEFINE i == Last(U)
<1>6. i \in U
  BY <1>4, <1>5, LastIsThere
<1>7. g[U] = IF list[i][1] \in g[U \ {i}] THEN g[U \ {i}] \cup {list[i][2]} ELSE g[U \ {i}]
  BY <1>1, <1>4, <1>5, SweepsLast
<1> HIDE DEF i
<1>8. Good(U \ {i})
  BY <1>3, <1>4, <1>6 DEF Least
<1>9. out \subseteq g[U]
  BY <1>7, <1>8
<1>10. ASSUME NEW j \in U, list[j][1] \in out PROVE list[j][2] \in g[U]
  BY <1>7, <1>8, <1>10
<1>11. ASSUME NEW c, out \subseteq c, Closed(c, list) PROVE g[U] \subseteq c
  <2>1. g[U \ {i}] \subseteq c
    BY <1>8, <1>11
  <2>2. list[i][1] \in c => list[i][2] \in c
    BY <1>4, <1>6, <1>11 DEF Closed
  <2>3. QED BY <1>7, <2>1, <2>2
<1>12. QED BY <1>4, <1>9, <1>10, <1>11

----------------------------------------------------------------------------
(* Trace: what the sweeps reach *)

\* The function Reached is defined with, up to n.
After(h, list, start, n) ==
  h = [k \in 0..n |-> IF k = 0 THEN {start} ELSE G!Sweep(h[k - 1], list)]

\* There is one, for whatever n.
LEMMA AfterExists ==
  ASSUME NEW list, NEW start, NEW n \in Nat
  PROVE  \E h : After(h, list, start, n)
PROOF
<1> DEFINE W == {k \in 0..n : ~\E h : After(h, list, start, k)}
<1>1. SUFFICES ASSUME W # {} PROVE FALSE
  OBVIOUS
<1>2. PICK k \in W : \A j \in W : k <= j
  <2>1. W \in SUBSET (0..n)
    OBVIOUS
  <2> HIDE DEF W
  <2>2. QED BY <1>1, <2>1, LeastNumber
<1>3. k \in 0..n /\ ~\E h : After(h, list, start, k)
  BY <1>2
<1>4. k # 0
  <2>1. After([j \in 0..0 |-> {start}], list, start, 0)
    BY DEF After
  <2>2. QED BY <1>3, <2>1
<1>5. k - 1 \in 0..n /\ k - 1 \notin W
  BY <1>2, <1>3, <1>4
<1>6. PICK h : After(h, list, start, k - 1)
  BY <1>5
<1> DEFINE more == [j \in 0..k |-> IF j = 0 THEN {start} ELSE G!Sweep(h[j - 1], list)]
<1>7. \A j \in 0..(k - 1) : more[j] = h[j]
  <2>1. \A j \in 0..(k - 1) : h[j] = IF j = 0 THEN {start} ELSE G!Sweep(h[j - 1], list)
    BY <1>6 DEF After
  <2>2. \A j \in 0..(k - 1) : j \in 0..k
    BY <1>3
  <2>3. QED BY <2>1, <2>2
<1>8. \A j \in 0..k : more[j] = IF j = 0 THEN {start} ELSE G!Sweep(more[j - 1], list)
  <2>1. \A j \in 0..k : j # 0 => j - 1 \in 0..(k - 1)
    BY <1>3
  <2>2. QED BY <1>7, <2>1
<1>9. more = [j \in 0..k |-> more[j]]
  OBVIOUS
<1> HIDE DEF more
<1>10. After(more, list, start, k)
  BY <1>8, <1>9 DEF After
<1>11. QED BY <1>3, <1>10

\* Reached is such a function.
LEMMA ReachedIs ==
  ASSUME NEW list, Len(list) \in Nat, NEW start
  PROVE  After(G!Reached(list, start), list, start, Len(list))
PROOF
<1> DEFINE h == CHOOSE h : After(h, list, start, Len(list))
<1>1. After(h, list, start, Len(list))
  BY AfterExists
<1>2. G!Reached(list, start) = h
  BY DEF G!Reached, After
<1>3. QED BY <1>1, <1>2

\* After any number of sweeps what is seen holds the start and is within every
\* closed set that does; and either it is closed itself, or every sweep has
\* added something.
LEMMA AfterFinds ==
  ASSUME NEW n \in Nat, NEW list, DOMAIN list = 1..n, NEW start, NEW h,
         After(h, list, start, n), NEW k \in 0..n
  PROVE  /\ start \in h[k]
         /\ \A c : start \in c /\ Closed(c, list) => h[k] \subseteq c
         /\ Closed(h[k], list) \/ (IsFiniteSet(h[k]) => Cardinality(h[k]) > k)
PROOF
<1> DEFINE Good(j) ==
             /\ start \in h[j]
             /\ \A c : start \in c /\ Closed(c, list) => h[j] \subseteq c
             /\ Closed(h[j], list) \/ (IsFiniteSet(h[j]) => Cardinality(h[j]) > j)
           W == {j \in 0..n : ~Good(j)}
<1>1. SUFFICES ASSUME W # {} PROVE FALSE
  OBVIOUS
<1>2. PICK j \in W : \A i \in W : j <= i
  <2>1. W \in SUBSET (0..n)
    OBVIOUS
  <2> HIDE DEF W
  <2>2. QED BY <1>1, <2>1, LeastNumber
<1>3. j \in 0..n /\ ~Good(j)
  BY <1>2
<1>4. j # 0
  <2>1. SUFFICES ASSUME j = 0 PROVE Good(j)
    BY <1>3
  <2>2. h[0] = {start}
    BY DEF After
  <2>3. Cardinality({start}) = 1
    BY FS_Singleton
  <2>4. QED BY <2>1, <2>2, <2>3
<1>5. j - 1 \in 0..n /\ j - 1 \notin W
  BY <1>2, <1>3, <1>4
<1>6. Good(j - 1)
  BY <1>5
<1> DEFINE out == h[j - 1]
<1>7. h[j] = G!Sweep(out, list)
  BY <1>3, <1>4 DEF After
<1>8. /\ out \subseteq h[j]
      /\ \A i \in 1..n : list[i][1] \in out => list[i][2] \in h[j]
      /\ \A c : out \subseteq c /\ Closed(c, list) => h[j] \subseteq c
  BY <1>7, SweepFinds
<1> HIDE DEF W
<1>9. start \in h[j]
  BY <1>6, <1>8
<1>10. ASSUME NEW c, start \in c, Closed(c, list) PROVE h[j] \subseteq c
  BY <1>6, <1>8, <1>10
<1>11. ASSUME ~Closed(h[j], list), IsFiniteSet(h[j]) PROVE Cardinality(h[j]) > j
  <2>1. out # h[j]
    BY <1>8, <1>11 DEF Closed
  <2>2. ~Closed(out, list)
    <3>1. SUFFICES ASSUME Closed(out, list) PROVE FALSE
      OBVIOUS
    <3>2. h[j] \subseteq out
      BY <1>8, <3>1
    <3>3. QED BY <1>8, <2>1, <3>2
  <2>3. /\ IsFiniteSet(out) /\ Cardinality(out) \in Nat /\ Cardinality(h[j]) \in Nat
        /\ Cardinality(out) <= Cardinality(h[j])
        /\ Cardinality(out) # Cardinality(h[j])
    BY <1>8, <1>11, <2>1, FS_Subset, FS_CardinalityType
  <2>4. Cardinality(out) > j - 1
    BY <1>6, <2>2, <2>3
  <2>5. QED BY <1>3, <2>3, <2>4
<1>12. QED BY <1>3, <1>9, <1>10, <1>11

\* What is reached is closed: either it was before, or as many sweeps as there
\* are edges have each added the end of one.
LEMMA ReachableCloses ==
  ASSUME NEW n \in Nat, NEW list, DOMAIN list = 1..n, NEW start, NEW h,
         After(h, list, start, n)
  PROVE  Closed(h[n], list)
PROOF
<1>1. SUFFICES ASSUME ~Closed(h[n], list) PROVE FALSE
  OBVIOUS
<1> DEFINE ends == {list[i][2] : i \in 1..n}
           all == ends \cup {start}
<1>2. Closed(all, list) /\ start \in all
  BY DEF Closed
<1>3. IsFiniteSet(ends) /\ Cardinality(ends) \in Nat /\ Cardinality(ends) <= n
  <2> DEFINE f == [i \in 1..n |-> list[i][2]]
  <2>1. f \in Surjection(1..n, ends)
    BY DEF Surjection
  <2> HIDE DEF f, ends
  <2>2. IsFiniteSet(1..n) /\ Cardinality(1..n) = n
    BY FS_Interval
  <2>3. IsFiniteSet(ends) /\ Cardinality(ends) <= n
    BY <2>1, <2>2, FS_Surjection
  <2>4. QED BY <2>3, FS_CardinalityType
<1> HIDE DEF ends
<1>4. IsFiniteSet(all) /\ Cardinality(all) \in Nat /\ Cardinality(all) <= n + 1
  <2>1. /\ IsFiniteSet(ends \cup {start})
        /\ Cardinality(ends \cup {start}) =
             IF start \in ends THEN Cardinality(ends) ELSE Cardinality(ends) + 1
    BY <1>3, FS_AddElement
  <2>2. QED BY <1>3, <2>1
<1> HIDE DEF all
<1>5. h[n] \subseteq all
  BY <1>2, AfterFinds
<1>6. /\ IsFiniteSet(h[n]) /\ Cardinality(h[n]) <= Cardinality(all)
      /\ Cardinality(h[n]) = Cardinality(all) => h[n] = all
      /\ Cardinality(h[n]) \in Nat
  BY <1>4, <1>5, FS_Subset, FS_CardinalityType
<1>7. Cardinality(h[n]) > n
  BY <1>1, <1>6, AfterFinds
<1>8. QED BY <1>1, <1>2, <1>4, <1>6, <1>7

----------------------------------------------------------------------------
(* Trace: paths *)

\* A path of n edges.
Leads(path, n, list, from, to) ==
  /\ path \in [0..n -> Node]
  /\ path[0] = from /\ path[n] = to
  /\ \A i \in 1..n : \E e \in DOMAIN list : list[e] = <<path[i - 1], path[i]>>

\* A path does not leave a closed set.
LEMMA PathStays ==
  ASSUME NEW n \in Nat, NEW list, NEW from, NEW to, NEW path,
         Leads(path, n, list, from, to), NEW c, from \in c, Closed(c, list)
  PROVE  to \in c
PROOF
<1> DEFINE W == {i \in 0..n : path[i] \notin c}
<1>1. SUFFICES ASSUME W # {} PROVE FALSE
  BY DEF Leads
<1>2. PICK i \in W : \A j \in W : i <= j
  <2>1. W \in SUBSET (0..n)
    OBVIOUS
  <2> HIDE DEF W
  <2>2. QED BY <1>1, <2>1, LeastNumber
<1>3. i \in 0..n /\ path[i] \notin c /\ i # 0
  BY <1>2 DEF Leads
<1>4. i - 1 \in 0..n /\ i \in 1..n /\ ~(i <= i - 1)
  BY <1>3
<1>5. path[i - 1] \in c
  BY <1>2, <1>4
<1>6. PICK e \in DOMAIN list : list[e] = <<path[i - 1], path[i]>>
  BY <1>4 DEF Leads
<1>7. QED BY <1>3, <1>5, <1>6 DEF Closed

\* One edge more.
LEMMA PathLonger ==
  ASSUME NEW n \in Nat, NEW list, NEW from, NEW to, NEW path,
         Leads(path, n, list, from, to),
         NEW e \in DOMAIN list, NEW next \in Node, list[e] = <<to, next>>
  PROVE  \E longer : Leads(longer, n + 1, list, from, next)
PROOF
<1> DEFINE longer == [i \in 0..(n + 1) |-> IF i = n + 1 THEN next ELSE path[i]]
<1>1. \A i \in 0..n : i \in 0..(n + 1) /\ i # n + 1
  OBVIOUS
<1>2. \A i \in 0..n : longer[i] = path[i]
  BY <1>1
<1>3. n + 1 \in 0..(n + 1) /\ longer[n + 1] = next
  OBVIOUS
<1>4. \A i \in 0..(n + 1) : i # n + 1 => i \in 0..n
  OBVIOUS
<1>5. longer \in [0..(n + 1) -> Node]
  BY <1>4 DEF Leads
<1> HIDE DEF longer
<1>6. ASSUME NEW i \in 1..(n + 1)
      PROVE  \E k \in DOMAIN list : list[k] = <<longer[i - 1], longer[i]>>
  <2>1. CASE i = n + 1
    <3>1. longer[i - 1] = to /\ longer[i] = next
      BY <1>2, <1>3, <2>1 DEF Leads
    <3>2. QED BY <3>1
  <2>2. CASE i # n + 1
    <3>1. i \in 1..n /\ i \in 0..n /\ i - 1 \in 0..n
      BY <1>6, <2>2
    <3>2. longer[i - 1] = path[i - 1] /\ longer[i] = path[i]
      BY <1>2, <3>1
    <3>3. QED BY <3>1, <3>2 DEF Leads
  <2>3. QED BY <2>1, <2>2
<1>7. longer[0] = from
  BY <1>2 DEF Leads
<1>8. QED BY <1>3, <1>5, <1>6, <1>7 DEF Leads

\* Without the part between two visits of a node.
LEMMA PathShorter ==
  ASSUME NEW n \in Nat, NEW list, NEW from, NEW to, NEW path,
         Leads(path, n, list, from, to),
         NEW x \in 1..n, NEW y \in 1..n, x < y, path[x] = path[y]
  PROVE  \E shorter : Leads(shorter, n - (y - x), list, from, to)
PROOF
<1> DEFINE d == y - x
           k == n - d
<1>1. d \in Nat /\ d > 0 /\ k \in Nat /\ x <= k /\ k + d = n /\ x + d = y
  OBVIOUS
<1> HIDE DEF d, k
<1> DEFINE shorter == [i \in 0..k |-> IF i <= x THEN path[i] ELSE path[i + d]]
<1>2. \A i \in 0..k : i \in 0..n /\ i + d \in 0..n
  BY <1>1
<1>3. shorter \in [0..k -> Node]
  BY <1>2 DEF Leads
<1>4. \A i \in 0..k : i <= x => shorter[i] = path[i]
  OBVIOUS
<1>5. \A i \in 0..k : i >= x => shorter[i] = path[i + d]
  <2>1. SUFFICES ASSUME NEW i \in 0..k, i >= x PROVE shorter[i] = path[i + d]
    OBVIOUS
  <2>2. CASE i = x
    BY <1>1, <2>1, <2>2
  <2>3. CASE i # x
    BY <2>1, <2>3
  <2>4. QED BY <2>2, <2>3
<1> HIDE DEF shorter
<1>6. ASSUME NEW i \in 1..k
      PROVE  \E e \in DOMAIN list : list[e] = <<shorter[i - 1], shorter[i]>>
  <2>1. i \in 0..k /\ i - 1 \in 0..k
    BY <1>1, <1>6
  <2>2. CASE i <= x
    <3>1. shorter[i - 1] = path[i - 1] /\ shorter[i] = path[i] /\ i \in 1..n
      BY <1>1, <1>4, <1>6, <2>1, <2>2
    <3>2. QED BY <3>1 DEF Leads
  <2>3. CASE i > x
    <3>1. i - 1 >= x /\ i >= x /\ i + d \in 1..n /\ (i - 1) + d = (i + d) - 1
      BY <1>1, <1>6, <2>3
    <3>2. shorter[i - 1] = path[(i + d) - 1] /\ shorter[i] = path[i + d]
      BY <1>5, <2>1, <3>1
    <3>3. QED BY <3>1, <3>2 DEF Leads
  <2>4. QED BY <1>6, <2>2, <2>3
<1>7. shorter[0] = from
  BY <1>1, <1>4 DEF Leads
<1>8. shorter[k] = to
  <2>1. k \in 0..k /\ k >= x
    BY <1>1
  <2>2. shorter[k] = path[k + d]
    BY <1>5, <2>1
  <2>3. QED BY <1>1, <2>2 DEF Leads
<1>9. Leads(shorter, k, list, from, to)
  BY <1>3, <1>6, <1>7, <1>8 DEF Leads
<1>10. QED BY <1>9 DEF k, d

\* What a path leads to, a path with no more edges than the list leads to: two
\* that follow the same edge visit the same node.
LEMMA PathShort ==
  ASSUME NEW l \in Nat, NEW list, DOMAIN list = 1..l, NEW from, NEW to,
         NEW n \in Nat, NEW path, Leads(path, n, list, from, to)
  PROVE  \E k \in 0..l : \E q : Leads(q, k, list, from, to)
PROOF
<1> DEFINE W == {k \in 0..n : \E q : Leads(q, k, list, from, to)}
<1>1. n \in W
  OBVIOUS
<1>2. PICK k \in W : \A j \in W : k <= j
  <2>1. W \in SUBSET (0..n) /\ W # {}
    BY <1>1
  <2> HIDE DEF W
  <2>2. QED BY <2>1, LeastNumber
<1>3. k \in 0..n /\ \E q : Leads(q, k, list, from, to)
  BY <1>2
<1>4. PICK q : Leads(q, k, list, from, to)
  BY <1>3
<1>5. ASSUME NEW x \in 1..k, NEW y \in 1..k, x < y, q[x] = q[y] PROVE FALSE
  <2>1. PICK r : Leads(r, k - (y - x), list, from, to)
    BY <1>3, <1>4, <1>5, PathShorter
  <2>2. k - (y - x) \in 0..n /\ k - (y - x) < k
    BY <1>3, <1>5
  <2>3. k - (y - x) \in W
    BY <2>1, <2>2
  <2>4. QED BY <1>2, <1>3, <2>2, <2>3
<1>6. k <= l
  <2>1. SUFFICES ASSUME k > l PROVE FALSE
    BY <1>3
  <2> DEFINE f == [i \in 1..k |-> CHOOSE e \in 1..l : list[e] = <<q[i - 1], q[i]>>]
  <2>2. \A i \in 1..k : f[i] \in 1..l /\ list[f[i]] = <<q[i - 1], q[i]>>
    BY <1>4 DEF Leads
  <2>3. f \in [1..k -> 1..l]
    BY <2>2
  <2> HIDE DEF f
  <2>4. /\ IsFiniteSet(1..k) /\ IsFiniteSet(1..l)
        /\ Cardinality(1..l) = l /\ Cardinality(1..k) = k
    BY <1>3, FS_Interval
  <2>5. PICK x \in 1..k, y \in 1..k : x # y /\ f[x] = f[y]
    BY <1>3, <2>1, <2>3, <2>4, FS_PigeonHole
  <2>6. q[x] = q[y]
    BY <2>2, <2>5
  <2>7. x < y \/ y < x
    BY <2>5
  <2>8. QED BY <1>5, <2>6, <2>7
<1>7. QED BY <1>3, <1>4, <1>6

\* A path of Trace is one of these, with no more edges than the list.
LEMMA PathIs ==
  ASSUME NEW list, NEW from, NEW to
  PROVE  G!Path(list, from, to) <=>
           \E n \in 0..Len(list) : \E path : Leads(path, n, list, from, to)
PROOF
<1>1. \A x : x \in G!ToSet(list) <=> \E e \in DOMAIN list : list[e] = x
  BY DEF G!ToSet
<1>2. ASSUME NEW n \in 0..Len(list), NEW path \in [0..n -> Node]
      PROVE  (/\ path[0] = from /\ path[n] = to
              /\ \A i \in 1..n : <<path[i - 1], path[i]>> \in G!ToSet(list))
             <=> Leads(path, n, list, from, to)
  BY <1>1, <1>2 DEF Leads
<1>3. \A n, path : Leads(path, n, list, from, to) => path \in [0..n -> Node]
  BY DEF Leads
<1>4. QED BY <1>2, <1>3 DEF G!Path

----------------------------------------------------------------------------
(* Trace: the theorem *)

\* Edges lead from nodes to nodes.
GInv == nodes \subseteq Node /\ edges \in Seq(nodes \X nodes)

\* Nodes and edges are only added, and edges between nodes.
LEMMA TraceStep == GInv /\ [G!Next]_(G!vars) => GInv'
PROOF
<1> SUFFICES ASSUME GInv, [G!Next]_(G!vars) PROVE GInv'
  OBVIOUS
<1>1. CASE UNCHANGED G!vars
  BY <1>1 DEF GInv, G!vars
<1>2. ASSUME NEW n \in Node, G!AddNode(n) PROVE GInv'
  <2>1. Seq(nodes \X nodes) \subseteq Seq(nodes' \X nodes')
    <3>1. nodes \X nodes \subseteq nodes' \X nodes'
      BY <1>2 DEF G!AddNode
    <3> DEFINE u == nodes \X nodes
               v == nodes' \X nodes'
    <3>2. u \subseteq v
      BY <3>1
    <3> HIDE DEF u, v
    <3>3. Seq(u) \subseteq Seq(v)
      BY <3>2
    <3>4. QED BY <3>3 DEF u, v
  <2>2. QED BY <1>2, <2>1 DEF GInv, G!AddNode
<1>3. ASSUME NEW from \in Node, NEW to \in Node, G!AddEdge(from, to) PROVE GInv'
  <2>1. <<from, to>> \in nodes \X nodes
    BY <1>3 DEF G!AddEdge
  <2>2. Append(edges, <<from, to>>) \in Seq(nodes \X nodes)
    <3> DEFINE u == nodes \X nodes
               e == <<from, to>>
    <3>1. edges \in Seq(u) /\ e \in u
      BY <2>1 DEF GInv
    <3> HIDE DEF u, e
    <3>2. Append(edges, e) \in Seq(u)
      BY <3>1
    <3>3. QED BY <3>2 DEF u, e
  <2>3. QED BY <1>3, <2>2 DEF GInv, G!AddEdge
<1>4. QED BY <1>1, <1>2, <1>3 DEF G!Next

\* The loop ends, and finds the nodes paths lead to.
LEMMA ReachableFindsPaths ==
  ASSUME GInv, NEW start \in nodes
  PROVE  /\ G!Settled(edges, start) # {}
         /\ G!Reachable(edges, start) = {m \in nodes : G!Path(edges, start, m)}
PROOF
<1> DEFINE n == Len(edges)
           h == G!Reached(edges, start)
           ends == G!Settled(edges, start)
           last == CHOOSE k \in ends : \A m \in ends : k <= m
<1>1. n \in Nat /\ DOMAIN edges = 1..n
  BY DEF GInv
<1>2. \A i \in 1..n : \E x, y \in nodes : edges[i] = <<x, y>>
  <2>1. \A i \in 1..n : edges[i] \in nodes \X nodes
    <3> DEFINE u == nodes \X nodes
    <3>1. edges \in Seq(u)
      BY DEF GInv
    <3> HIDE DEF u
    <3>2. \A i \in 1..n : edges[i] \in u
      BY <3>1
    <3>3. QED BY <3>2 DEF u
  <2>2. QED BY <2>1
<1>3. G!Reachable(edges, start) = h[last]
  BY DEF G!Reachable
<1>4. After(h, edges, start, n)
  BY <1>1, ReachedIs
<1>5. ends = {k \in 0..n : G!Sweep(h[k], edges) = h[k]}
  BY DEF G!Settled
<1> HIDE DEF n, h, ends
<1>6. ends # {}
  <2>1. n \in 0..n
    BY <1>1
  <2>2. Closed(h[n], edges)
    BY <1>1, <1>4, ReachableCloses
  <2>3. h[n] \subseteq G!Sweep(h[n], edges) /\ G!Sweep(h[n], edges) \subseteq h[n]
    BY <1>1, <2>2, SweepFinds
  <2>4. QED BY <1>5, <2>1, <2>3
<1>7. last \in 0..n /\ G!Sweep(h[last], edges) = h[last]
  <2>1. \E k \in ends : \A m \in ends : k <= m
    BY <1>1, <1>5, <1>6, LeastNumber
  <2>2. last \in ends
    BY <2>1
  <2>3. QED BY <1>5, <2>2
<1> HIDE DEF last
<1>8. /\ start \in h[last] /\ Closed(h[last], edges)
      /\ \A c : start \in c /\ Closed(c, edges) => h[last] \subseteq c
  <2>1. \A i \in 1..n : edges[i][1] \in h[last] => edges[i][2] \in h[last]
    BY <1>1, <1>7, SweepFinds
  <2>2. Closed(h[last], edges)
    BY <1>1, <2>1 DEF Closed
  <2>3. QED BY <1>1, <1>4, <1>7, <2>2, AfterFinds
<1>9. ASSUME NEW m, m \in h[last] PROVE m \in nodes /\ G!Path(edges, start, m)
  <2> DEFINE c == {x \in nodes : \E k \in Nat : \E path : Leads(path, k, edges, start, x)}
  <2>1. start \in c
    <3>1. Leads([i \in 0..0 |-> start], 0, edges, start, start)
      BY DEF Leads, GInv
    <3>2. QED BY <3>1
  <2>2. ASSUME NEW i \in 1..n, edges[i][1] \in c PROVE edges[i][2] \in c
    <3>1. PICK x \in nodes, y \in nodes : edges[i] = <<x, y>>
      BY <1>2, <2>2
    <3>2. PICK k \in Nat : \E path : Leads(path, k, edges, start, x)
      BY <2>2, <3>1
    <3> PICK path : Leads(path, k, edges, start, x)
      BY <3>2
    <3>3. PICK longer : Leads(longer, k + 1, edges, start, y)
      BY <1>1, <2>2, <3>1, PathLonger DEF GInv
    <3>4. k + 1 \in Nat
      OBVIOUS
    <3>5. QED BY <3>1, <3>3, <3>4
  <2>3. Closed(c, edges)
    BY <1>1, <2>2 DEF Closed
  <2>4. m \in c
    BY <1>8, <1>9, <2>1, <2>3
  <2>5. \E k \in Nat : \E path : Leads(path, k, edges, start, m)
    BY <2>4
  <2>6. \E j \in 0..n : \E q : Leads(q, j, edges, start, m)
    BY <1>1, <2>5, PathShort
  <2>7. QED BY <2>4, <2>6, PathIs DEF n
<1>10. ASSUME NEW m \in nodes, G!Path(edges, start, m) PROVE m \in h[last]
  <2>1. PICK k \in 0..n : \E path : Leads(path, k, edges, start, m)
    BY <1>10, PathIs DEF n
  <2>2. PICK path : Leads(path, k, edges, start, m)
    BY <2>1
  <2>3. k \in Nat
    BY <1>1
  <2>4. QED BY <1>8, <2>2, <2>3, PathStays
<1>11. QED BY <1>3, <1>6, <1>9, <1>10 DEF ends

\* However the edges of a chain are ordered, and with cycles, the loop of Reachable
\* ends, and has found all nodes that a path leads to and no others.
THEOREM SweepsFindPaths == Spec => []ReachableMeansPath
PROOF
<1>1. Init => GInv
  BY DEF Init, G!Init, GInv
<1>2. GInv /\ [Next]_vars => GInv'
  BY EachAlone, TraceStep
<1>3. GInv => ReachableMeansPath
  BY ReachableFindsPaths DEF ReachableMeansPath, G!ReachableMeansPath
<1>4. QED BY <1>1, <1>2, <1>3, PTL DEF Spec

----------------------------------------------------------------------------
(* Materials: what a list of lots holds *)

MaterialLot == [id : Id, kind : Kind, grams : Int, grade : Grade, day : Day]

\* What a lot adds to the balance of a kind.
Share(l, kind) == IF M!Eligible(l, kind) THEN l.grams ELSE 0

\* It is never negative.
LEMMA ShareIsNat ==
  ASSUME NEW l \in MaterialLot, NEW kind
  PROVE  Share(l, kind) \in Nat
BY DEF Share, M!Eligible, M!IsUsable, MaterialLot

\* The numbers up to one: that one is last, and the others precede it.
LEMMA LastOfFirst ==
  ASSUME NEW n \in Nat, NEW i \in 1..n
  PROVE  /\ 1..i \in SUBSET (1..n) /\ 1..i # {}
         /\ Last(1..i) = i /\ (1..i) \ {i} = 1..(i - 1)
PROOF
<1>1. 1..i \in SUBSET (1..n) /\ 1..i # {} /\ (1..i) \ {i} = 1..(i - 1)
  OBVIOUS
<1>2. i \in 1..i /\ \A j \in 1..i : i >= j
  OBVIOUS
<1>3. \A k \in 1..i : (\A j \in 1..i : k >= j) => k = i
  BY <1>2
<1>4. Last(1..i) = i
  BY <1>2, <1>3 DEF Last
<1>5. QED BY <1>1, <1>4

\* The balance of a kind after each of the lots.
Totals(b, list, kind) ==
  /\ b[0] = 0
  /\ \A i \in 1..Len(list) :
       b[i] = IF M!Eligible(list[i], kind) THEN b[i - 1] + list[i].grams ELSE b[i - 1]

\* All of them are numbers.
LEMMA TotalsInt ==
  ASSUME NEW list \in Seq(MaterialLot), NEW kind, NEW b, Totals(b, list, kind),
         NEW i \in 0..Len(list)
  PROVE  b[i] \in Int
PROOF
<1> DEFINE n == Len(list)
           W == {j \in 0..n : b[j] \notin Int}
<1>1. n \in Nat
  OBVIOUS
<1>2. SUFFICES ASSUME W # {} PROVE FALSE
  OBVIOUS
<1>3. PICK j \in W : \A k \in W : j <= k
  <2>1. W \in SUBSET (0..n)
    OBVIOUS
  <2> HIDE DEF W, n
  <2>2. QED BY <1>1, <1>2, <2>1, LeastNumber
<1>4. j \in 0..n /\ b[j] \notin Int /\ j # 0
  BY <1>3 DEF Totals
<1>5. j \in 1..n /\ j - 1 \in 0..n /\ ~(j <= j - 1)
  BY <1>1, <1>4
<1>6. b[j - 1] \in Int
  BY <1>3, <1>5
<1>7. list[j].grams \in Int
  <2>1. list[j] \in MaterialLot
    BY <1>5
  <2>2. QED BY <2>1 DEF MaterialLot
<1>8. QED BY <1>4, <1>5, <1>6, <1>7 DEF Totals

\* Every lot adds its share.
LEMMA TotalsAdd ==
  ASSUME NEW list \in Seq(MaterialLot), NEW kind, NEW b, Totals(b, list, kind),
         NEW i \in 1..Len(list)
  PROVE  b[i] = b[i - 1] + Share(list[i], kind) /\ b[i - 1] \in Int /\ b[i] \in Int
PROOF
<1>1. i \in 0..Len(list) /\ i - 1 \in 0..Len(list)
  OBVIOUS
<1>2. b[i - 1] \in Int /\ b[i] \in Int
  BY <1>1, TotalsInt
<1>3. QED BY <1>2 DEF Totals, Share

\* The function FoldLeft computes GramsOf with.
Sums(g, list, kind) ==
  g = [U \in SUBSET (1..Len(list)) |->
         IF U = {} THEN 0
         ELSE LET i == Last(U)
              IN  IF M!Eligible(list[i], kind) THEN g[U \ {i}] + list[i].grams
                  ELSE g[U \ {i}]]

\* There is one.
LEMMA SumsExist ==
  ASSUME NEW list \in Seq(MaterialLot), NEW kind
  PROVE  \E g : Sums(g, list, kind)
PROOF
<1> DEFINE n == Len(list)
           step == [i \in 1..n |-> [total \in Int |-> total + Share(list[i], kind)]]
<1>1. n \in Nat /\ \A i \in 1..n : list[i] \in MaterialLot
  OBVIOUS
<1>2. \A i \in 1..n : Share(list[i], kind) \in Int
  BY <1>1, ShareIsNat
<1>3. step \in [1..n -> [Int -> Int]] /\ 0 \in Int
  BY <1>2
<1>4. \A i \in 1..n, total \in Int :
        step[i][total] = IF M!Eligible(list[i], kind) THEN total + list[i].grams ELSE total
  BY DEF Share
<1> HIDE DEF step, n
<1>5. PICK f : FoldsBy(f, step, 0, 1..n)
  BY <1>1, FoldsExist
<1>6. ASSUME NEW U \in SUBSET (1..n) PROVE f[U] \in Int
  <2> DEFINE X == Int
             base == 0
  <2>1. base \in X /\ step \in [1..n -> [X -> X]] /\ FoldsBy(f, step, base, 1..n)
    BY <1>3, <1>5
  <2> HIDE DEF X, base
  <2>2. f[U] \in X
    BY <1>1, <2>1, FoldsWithin
  <2>3. QED BY <2>2 DEF X
<1>7. ASSUME NEW U \in SUBSET (1..n), U # {}
      PROVE  f[U] = LET i == Last(U)
                    IN  IF M!Eligible(list[i], kind) THEN f[U \ {i}] + list[i].grams
                        ELSE f[U \ {i}]
  <2>1. Last(U) \in 1..n
    BY <1>1, <1>7, LastIsThere
  <2>2. f[U] = step[Last(U)][f[U \ {Last(U)}]]
    BY <1>5, <1>7 DEF FoldsBy
  <2>3. QED BY <1>4, <1>6, <2>1, <2>2
<1>8. f = [U \in SUBSET (1..n) |-> f[U]] /\ f[{}] = 0
  BY <1>5 DEF FoldsBy
<1>9. Sums(f, list, kind)
  BY <1>7, <1>8 DEF Sums, n
<1>10. QED BY <1>9

\* GramsOf is the last of the balances.
LEMMA GramsAreTotals ==
  ASSUME NEW list \in Seq(MaterialLot), NEW kind
  PROVE  \E b : Totals(b, list, kind) /\ M!GramsOf(list, kind) = b[Len(list)]
PROOF
<1> DEFINE n == Len(list)
           g == CHOOSE g : Sums(g, list, kind)
           b == [i \in 0..n |-> g[1..i]]
<1>1. n \in Nat /\ DOMAIN list = 1..n
  OBVIOUS
<1>2. Sums(g, list, kind)
  BY SumsExist
<1>3. M!GramsOf(list, kind) = g[1..n]
  BY <1>1 DEF M!GramsOf, M!FoldLeft, M!MapThenFoldSet, M!Max, Sums, Last
<1> HIDE DEF g
<1>4. g[{}] = 0
  BY <1>2 DEF Sums
<1>5. ASSUME NEW i \in 1..n
      PROVE  b[i] = IF M!Eligible(list[i], kind) THEN b[i - 1] + list[i].grams
                    ELSE b[i - 1]
  <2>1. /\ 1..i \in SUBSET (1..n) /\ 1..i # {}
        /\ Last(1..i) = i /\ (1..i) \ {i} = 1..(i - 1)
    BY <1>1, LastOfFirst
  <2>2. g[1..i] = IF M!Eligible(list[i], kind) THEN g[1..(i - 1)] + list[i].grams
                  ELSE g[1..(i - 1)]
    BY <1>2, <2>1 DEF Sums
  <2>3. i \in 0..n /\ i - 1 \in 0..n
    BY <1>1
  <2>4. QED BY <2>2, <2>3
<1>6. b[0] = 0 /\ b[n] = g[1..n]
  <2>1. 0 \in 0..n /\ n \in 0..n /\ 1..0 = {}
    BY <1>1
  <2>2. QED BY <1>4, <2>1
<1> HIDE DEF b
<1>7. Totals(b, list, kind)
  BY <1>5, <1>6 DEF Totals
<1>8. QED BY <1>3, <1>6, <1>7

\* A lot that is added to a list adds its share.
LEMMA AppendAdds ==
  ASSUME NEW list \in Seq(MaterialLot), NEW l \in MaterialLot, NEW kind
  PROVE  /\ M!GramsOf(Append(list, l), kind) = M!GramsOf(list, kind) + Share(l, kind)
         /\ M!GramsOf(list, kind) \in Int
PROOF
<1> DEFINE n == Len(list)
           more == Append(list, l)
<1>1. /\ n \in Nat /\ more \in Seq(MaterialLot) /\ Len(more) = n + 1
      /\ more[n + 1] = l /\ \A i \in 1..n : more[i] = list[i]
  OBVIOUS
<1>2. PICK b : Totals(b, list, kind) /\ M!GramsOf(list, kind) = b[n]
  BY GramsAreTotals
<1> HIDE DEF more
<1>3. PICK c : Totals(c, more, kind) /\ M!GramsOf(more, kind) = c[n + 1]
  BY <1>1, GramsAreTotals
<1> DEFINE W == {i \in 0..n : b[i] # c[i]}
<1>4. W = {}
  <2>1. SUFFICES ASSUME W # {} PROVE FALSE
    OBVIOUS
  <2>2. PICK i \in W : \A j \in W : i <= j
    <3>1. W \in SUBSET (0..n)
      OBVIOUS
    <3> HIDE DEF W
    <3>2. QED BY <1>1, <2>1, <3>1, LeastNumber
  <2>3. i \in 0..n /\ b[i] # c[i] /\ i # 0
    BY <1>2, <1>3, <2>2 DEF Totals
  <2>4. i \in 1..n /\ i \in 1..(n + 1) /\ i - 1 \in 0..n /\ ~(i <= i - 1)
    BY <1>1, <2>3
  <2>5. b[i - 1] = c[i - 1]
    BY <2>2, <2>4
  <2>6. QED BY <1>1, <1>2, <1>3, <2>3, <2>4, <2>5 DEF Totals
<1>5. b[n] = c[n] /\ b[n] \in Int
  <2>1. n \in 0..n
    BY <1>1
  <2>2. QED BY <1>2, <1>4, <2>1, TotalsInt
<1>6. c[n + 1] = c[n] + Share(l, kind)
  <2>1. n + 1 \in 1..Len(more) /\ (n + 1) - 1 = n
    BY <1>1
  <2>2. QED BY <1>1, <1>3, <2>1, TotalsAdd
<1>7. QED BY <1>2, <1>3, <1>5, <1>6 DEF more

\* The empty list holds nothing.
LEMMA NothingHeld ==
  ASSUME NEW kind
  PROVE  M!GramsOf(<<>>, kind) = 0
PROOF
<1>1. <<>> \in Seq(MaterialLot) /\ Len(<<>>) = 0
  OBVIOUS
<1>2. QED BY <1>1, GramsAreTotals DEF Totals

----------------------------------------------------------------------------
(* Materials: what is kept, and what is taken *)

\* The loop of Prune.
Kept(list, before) ==
  M!FoldLeft(LAMBDA keep, l : IF l.day < before THEN keep ELSE Append(keep, l),
             <<>>, list)

\* The function FoldLeft computes it with.
Keeps(g, list, before) ==
  g = [U \in SUBSET (1..Len(list)) |->
         IF U = {} THEN <<>>
         ELSE LET i == Last(U)
              IN  IF list[i].day < before THEN g[U \ {i}]
                  ELSE Append(g[U \ {i}], list[i])]

\* There is one.
LEMMA KeepsExist ==
  ASSUME NEW list \in Seq(MaterialLot), NEW before
  PROVE  \E g : Keeps(g, list, before)
PROOF
<1> DEFINE n == Len(list)
           X == Seq(MaterialLot)
           step == [i \in 1..n |-> [keep \in X |->
                      IF list[i].day < before THEN keep ELSE Append(keep, list[i])]]
<1>1. n \in Nat /\ <<>> \in X /\ \A i \in 1..n : list[i] \in MaterialLot
  OBVIOUS
<1>2. \A i \in 1..n, keep \in X : Append(keep, list[i]) \in X
  BY <1>1
<1> HIDE DEF X
<1>3. step \in [1..n -> [X -> X]]
  BY <1>2
<1>4. \A i \in 1..n, keep \in X :
        step[i][keep] = IF list[i].day < before THEN keep ELSE Append(keep, list[i])
  OBVIOUS
<1> HIDE DEF step, n
<1>5. PICK f : FoldsBy(f, step, <<>>, 1..n)
  BY <1>1, FoldsExist
<1>6. \A U \in SUBSET (1..n) : f[U] \in X
  <2> DEFINE base == <<>>
  <2>1. base \in X /\ FoldsBy(f, step, base, 1..n)
    BY <1>1, <1>5
  <2> HIDE DEF base
  <2>2. QED BY <1>1, <1>3, <2>1, FoldsWithin
<1>7. ASSUME NEW U \in SUBSET (1..n), U # {}
      PROVE  f[U] = LET i == Last(U)
                    IN  IF list[i].day < before THEN f[U \ {i}]
                        ELSE Append(f[U \ {i}], list[i])
  <2>1. Last(U) \in 1..n
    BY <1>1, <1>7, LastIsThere
  <2>2. f[U] = step[Last(U)][f[U \ {Last(U)}]]
    BY <1>5, <1>7 DEF FoldsBy
  <2>3. QED BY <1>4, <1>6, <2>1, <2>2
<1>8. f = [U \in SUBSET (1..n) |-> f[U]] /\ f[{}] = <<>>
  BY <1>5 DEF FoldsBy
<1>9. Keeps(f, list, before)
  BY <1>7, <1>8 DEF Keeps, n
<1>10. QED BY <1>9

\* What is kept are lots, and no more of any kind than there was.
LEMMA KeptIsLess ==
  ASSUME NEW list \in Seq(MaterialLot), NEW before
  PROVE  /\ Kept(list, before) \in Seq(MaterialLot)
         /\ \A kind : M!GramsOf(Kept(list, before), kind) <= M!GramsOf(list, kind)
PROOF
<1> DEFINE n == Len(list)
           g == CHOOSE g : Keeps(g, list, before)
           k == [i \in 0..n |-> g[1..i]]
<1>1. n \in Nat /\ DOMAIN list = 1..n /\ \A i \in 1..n : list[i] \in MaterialLot
  OBVIOUS
<1>2. Keeps(g, list, before)
  BY KeepsExist
<1>3. Kept(list, before) = g[1..n]
  BY <1>1 DEF Kept, M!FoldLeft, M!MapThenFoldSet, M!Max, Keeps, Last
<1> HIDE DEF g
<1>4. g[{}] = <<>>
  BY <1>2 DEF Keeps
<1>5. ASSUME NEW i \in 1..n
      PROVE  k[i] = IF list[i].day < before THEN k[i - 1] ELSE Append(k[i - 1], list[i])
  <2>1. /\ 1..i \in SUBSET (1..n) /\ 1..i # {}
        /\ Last(1..i) = i /\ (1..i) \ {i} = 1..(i - 1)
    BY <1>1, LastOfFirst
  <2>2. g[1..i] = IF list[i].day < before THEN g[1..(i - 1)]
                  ELSE Append(g[1..(i - 1)], list[i])
    BY <1>2, <2>1 DEF Keeps
  <2>3. i \in 0..n /\ i - 1 \in 0..n
    BY <1>1
  <2>4. QED BY <2>2, <2>3
<1>6. k[0] = <<>> /\ k[n] = g[1..n]
  <2>1. 0 \in 0..n /\ n \in 0..n /\ 1..0 = {}
    BY <1>1
  <2>2. QED BY <1>4, <2>1
<1> HIDE DEF k
<1>7. ASSUME NEW i \in 0..n PROVE k[i] \in Seq(MaterialLot)
  <2> DEFINE W == {j \in 0..n : k[j] \notin Seq(MaterialLot)}
  <2>1. SUFFICES ASSUME W # {} PROVE FALSE
    OBVIOUS
  <2>2. PICK j \in W : \A h \in W : j <= h
    <3>1. W \in SUBSET (0..n)
      OBVIOUS
    <3> HIDE DEF W, n
    <3>2. QED BY <1>1, <2>1, <3>1, LeastNumber
  <2>3. j \in 0..n /\ k[j] \notin Seq(MaterialLot) /\ j # 0
    <3>1. <<>> \in Seq(MaterialLot)
      OBVIOUS
    <3>2. QED BY <1>6, <2>2, <3>1
  <2>4. j \in 1..n /\ j - 1 \in 0..n /\ ~(j <= j - 1)
    BY <1>1, <2>3
  <2>5. k[j - 1] \in Seq(MaterialLot) /\ list[j] \in MaterialLot
    BY <1>1, <2>2, <2>4
  <2>6. Append(k[j - 1], list[j]) \in Seq(MaterialLot)
    BY <2>5
  <2>7. QED BY <1>5, <2>3, <2>4, <2>5, <2>6
<1>8. ASSUME NEW kind PROVE M!GramsOf(k[n], kind) <= M!GramsOf(list, kind)
  <2>1. PICK b : Totals(b, list, kind) /\ M!GramsOf(list, kind) = b[n]
    BY GramsAreTotals
  <2> DEFINE amount(i) == M!GramsOf(k[i], kind)
             W == {i \in 0..n : ~(amount(i) <= b[i])}
  <2>2. SUFFICES ASSUME W # {} PROVE FALSE
    BY <1>1, <2>1
  <2>3. PICK j \in W : \A h \in W : j <= h
    <3>1. W \in SUBSET (0..n)
      OBVIOUS
    <3> HIDE DEF W, n
    <3>2. QED BY <1>1, <2>2, <3>1, LeastNumber
  <2>4. j \in 0..n /\ ~(amount(j) <= b[j])
    BY <2>3
  <2>5. j # 0
    <3>1. amount(0) = 0 /\ b[0] = 0
      BY <1>6, <2>1, NothingHeld DEF Totals
    <3>2. QED BY <2>4, <3>1
  <2>6. j \in 1..n /\ j - 1 \in 0..n /\ ~(j <= j - 1)
    BY <1>1, <2>4, <2>5
  <2>7. amount(j - 1) <= b[j - 1]
    BY <2>3, <2>6
  <2>8. b[j] = b[j - 1] + Share(list[j], kind) /\ b[j - 1] \in Int /\ b[j] \in Int
    BY <2>1, <2>6, TotalsAdd
  <2>9. Share(list[j], kind) \in Nat
    BY <1>1, <2>6, ShareIsNat
  <2>10. /\ M!GramsOf(Append(k[j - 1], list[j]), kind) = amount(j - 1) + Share(list[j], kind)
         /\ amount(j - 1) \in Int
    BY <1>1, <1>7, <2>6, AppendAdds
  <2>11. amount(j) = amount(j - 1) \/ amount(j) = amount(j - 1) + Share(list[j], kind)
    BY <1>5, <2>6, <2>10
  <2> HIDE DEF amount
  <2>12. QED BY <2>4, <2>7, <2>8, <2>9, <2>10, <2>11
<1>9. n \in 0..n
  BY <1>1
<1>10. QED BY <1>3, <1>6, <1>7, <1>8, <1>9

\* What remains to be found after each lot is what the balance does not cover.
LEMMA RemainingIs ==
  ASSUME NEW list \in Seq(MaterialLot), NEW kind, NEW grams \in Int, grams > 0,
         NEW b, Totals(b, list, kind), NEW i \in 0..Len(list)
  PROVE  M!Remaining(list, kind, grams)[i] = IF b[i] >= grams THEN 0 ELSE grams - b[i]
PROOF
<1> DEFINE n == Len(list)
           less(j, rest) == IF ~M!Eligible(list[j], kind) THEN rest
                            ELSE IF list[j].grams > rest THEN 0 ELSE rest - list[j].grams
           rests(f) == f = [j \in 0..n |-> IF j = 0 THEN grams ELSE less(j, f[j - 1])]
           short == [j \in 0..n |-> IF b[j] >= grams THEN 0 ELSE grams - b[j]]
           left == CHOOSE f : rests(f)
<1>1. n \in Nat /\ \A j \in 1..n : list[j] \in MaterialLot
  OBVIOUS
<1>2. ASSUME NEW j \in 1..n PROVE short[j] = less(j, short[j - 1])
  <2>1. j \in 0..n /\ j - 1 \in 0..n
    BY <1>1
  <2>2. /\ b[j] = IF M!Eligible(list[j], kind) THEN b[j - 1] + list[j].grams ELSE b[j - 1]
        /\ b[j - 1] \in Int /\ b[j] \in Int
    BY TotalsAdd DEF Totals
  <2>3. M!Eligible(list[j], kind) => list[j].grams > 0 /\ list[j].grams \in Int
    BY <1>1 DEF M!Eligible, M!IsUsable, MaterialLot
  <2>4. /\ short[j] = IF b[j] >= grams THEN 0 ELSE grams - b[j]
        /\ short[j - 1] = IF b[j - 1] >= grams THEN 0 ELSE grams - b[j - 1]
    BY <2>1
  <2> HIDE DEF short
  <2>5. CASE M!Eligible(list[j], kind)
    BY <2>2, <2>3, <2>4, <2>5
  <2>6. CASE ~M!Eligible(list[j], kind)
    BY <2>2, <2>4, <2>6
  <2>7. QED BY <2>5, <2>6
<1>3. short[0] = grams
  BY <1>1 DEF Totals
<1>4. short = [j \in 0..n |-> short[j]]
  OBVIOUS
<1> HIDE DEF short, less
<1>5. rests(short)
  <2>1. \A j \in 0..n : j # 0 => j \in 1..n
    BY <1>1
  <2>2. QED BY <1>2, <1>3, <1>4, <2>1
<1>6. rests(left)
  BY <1>5
<1>7. M!Remaining(list, kind, grams) = left
  BY DEF M!Remaining, less
<1> HIDE DEF left
<1> DEFINE W == {j \in 0..n : left[j] # short[j]}
<1>8. W = {}
  <2>1. SUFFICES ASSUME W # {} PROVE FALSE
    OBVIOUS
  <2>2. PICK j \in W : \A h \in W : j <= h
    <3>1. W \in SUBSET (0..n)
      OBVIOUS
    <3> HIDE DEF W, n
    <3>2. QED BY <1>1, <2>1, <3>1, LeastNumber
  <2>3. j \in 0..n /\ left[j] # short[j]
    BY <2>2
  <2>4. j # 0
    BY <1>3, <1>6, <2>3
  <2>5. j \in 1..n /\ j - 1 \in 0..n /\ ~(j <= j - 1)
    BY <1>1, <2>3, <2>4
  <2>6. left[j - 1] = short[j - 1]
    BY <2>2, <2>5
  <2>7. left[j] = less(j, left[j - 1])
    BY <1>6, <2>3, <2>4
  <2>8. QED BY <1>2, <2>3, <2>5, <2>6, <2>7
<1>9. left[i] = short[i]
  BY <1>8
<1>10. QED BY <1>7, <1>9 DEF short

\* Reserve finds enough exactly when the balance covers what is asked for.
LEMMA SufficientIs ==
  ASSUME NEW list \in Seq(MaterialLot), NEW kind, NEW grams \in Int, grams > 0
  PROVE  M!Sufficient(list, kind, grams) <=> M!GramsOf(list, kind) >= grams
PROOF
<1>1. PICK b : Totals(b, list, kind) /\ M!GramsOf(list, kind) = b[Len(list)]
  BY GramsAreTotals
<1>2. Len(list) \in 0..Len(list)
  OBVIOUS
<1>3. b[Len(list)] \in Int
  BY <1>1, <1>2, TotalsInt
<1>4. M!Remaining(list, kind, grams)[Len(list)] =
        IF b[Len(list)] >= grams THEN 0 ELSE grams - b[Len(list)]
  BY <1>1, <1>2, RemainingIs
<1>5. QED BY <1>1, <1>3, <1>4 DEF M!Sufficient

\* What each lot gives: nothing, or of a lot that is drawn on no more than it has.
LEMMA CutIs ==
  ASSUME NEW list \in Seq(MaterialLot), NEW kind, NEW grams \in Int, grams > 0,
         NEW i \in 1..Len(list), NEW left, left = M!Remaining(list, kind, grams)
  PROVE  /\ left[i - 1] \in Nat /\ left[i] \in Nat /\ left[i - 1] - left[i] \in Nat
         /\ M!Eligible(list[i], kind) => left[i - 1] - left[i] <= list[i].grams
         /\ ~M!Eligible(list[i], kind) => left[i - 1] = left[i]
PROOF
<1>1. PICK b : Totals(b, list, kind)
  BY GramsAreTotals
<1>2. i \in 0..Len(list) /\ i - 1 \in 0..Len(list)
  OBVIOUS
<1>3. /\ left[i] = IF b[i] >= grams THEN 0 ELSE grams - b[i]
      /\ left[i - 1] = IF b[i - 1] >= grams THEN 0 ELSE grams - b[i - 1]
  BY <1>1, <1>2, RemainingIs
<1>4. /\ b[i] = b[i - 1] + Share(list[i], kind) /\ b[i - 1] \in Int /\ b[i] \in Int
  BY <1>1, TotalsAdd
<1>5. Share(list[i], kind) \in Nat
  <2>1. list[i] \in MaterialLot
    OBVIOUS
  <2>2. QED BY <2>1, ShareIsNat
<1>6. /\ M!Eligible(list[i], kind) => Share(list[i], kind) = list[i].grams
      /\ ~M!Eligible(list[i], kind) => Share(list[i], kind) = 0
  BY DEF Share
<1>7. QED BY <1>3, <1>4, <1>5, <1>6

\* What is taken is what was asked for, of the kind asked for.
LEMMA TakeTakes ==
  ASSUME NEW list \in Seq(MaterialLot), NEW kind, NEW grams \in Int, grams > 0,
         M!Sufficient(list, kind, grams)
  PROVE  /\ M!Take(list, kind, grams) \in Seq(MaterialLot)
         /\ \A other : M!GramsOf(M!Take(list, kind, grams), other) =
              IF other = kind THEN M!GramsOf(list, other) - grams
              ELSE M!GramsOf(list, other)
PROOF
<1> DEFINE n == Len(list)
           left == M!Remaining(list, kind, grams)
           rest == M!Take(list, kind, grams)
           cut(i) == left[i - 1] - left[i]
<1>1. n \in Nat /\ DOMAIN list = 1..n /\ \A i \in 1..n : list[i] \in MaterialLot
  OBVIOUS
<1>2. \A i \in 1..n :
        /\ left[i - 1] \in Nat /\ left[i] \in Nat /\ cut(i) \in Nat
        /\ M!Eligible(list[i], kind) => cut(i) <= list[i].grams
        /\ ~M!Eligible(list[i], kind) => left[i - 1] = left[i]
  BY CutIs
<1>3. rest = [i \in 1..n |-> [list[i] EXCEPT !.grams = @ - cut(i)]]
  BY <1>1 DEF M!Take
<1>4. left[n] = 0
  BY DEF M!Sufficient
<1>5. left[0] = grams
  <2>1. PICK b : Totals(b, list, kind)
    BY GramsAreTotals
  <2>2. 0 \in 0..Len(list)
    OBVIOUS
  <2>3. left[0] = IF b[0] >= grams THEN 0 ELSE grams - b[0]
    BY <2>1, <2>2, RemainingIs
  <2>4. QED BY <2>1, <2>3 DEF Totals
<1> HIDE DEF left, rest, cut
<1>6. ASSUME NEW i \in 1..n
      PROVE  /\ rest[i] \in MaterialLot /\ rest[i].kind = list[i].kind
             /\ rest[i].grade = list[i].grade /\ rest[i].grams = list[i].grams - cut(i)
  <2>1. rest[i] = [list[i] EXCEPT !.grams = @ - cut(i)]
    BY <1>3
  <2>2. list[i] \in MaterialLot /\ cut(i) \in Nat
    BY <1>1, <1>2
  <2>3. QED BY <2>1, <2>2 DEF MaterialLot
<1>7. rest \in Seq(MaterialLot) /\ Len(rest) = n
  BY <1>1, <1>3, <1>6
<1>8. ASSUME NEW i \in 1..n, NEW other
      PROVE  Share(rest[i], other) =
               IF other = kind THEN Share(list[i], other) - cut(i) ELSE Share(list[i], other)
  <2>1. list[i].grams \in Int /\ cut(i) \in Nat
    BY <1>1, <1>2 DEF MaterialLot
  <2>2. ~M!Eligible(list[i], kind) => cut(i) = 0
    BY <1>2 DEF cut
  <2>3. M!Eligible(list[i], kind) => cut(i) <= list[i].grams
    BY <1>2
  <2>4. QED BY <1>6, <2>1, <2>2, <2>3 DEF Share, M!Eligible, M!IsUsable
<1>9. ASSUME NEW other
      PROVE  M!GramsOf(rest, other) =
               IF other = kind THEN M!GramsOf(list, other) - grams
               ELSE M!GramsOf(list, other)
  <2>1. PICK b : Totals(b, list, other) /\ M!GramsOf(list, other) = b[n]
    BY GramsAreTotals
  <2>2. PICK c : Totals(c, rest, other) /\ M!GramsOf(rest, other) = c[n]
    BY <1>7, GramsAreTotals
  <2> DEFINE found(i) == IF other = kind THEN grams - left[i] ELSE 0
             W == {i \in 0..n : c[i] # b[i] - found(i)}
  <2>3. W = {}
    <3>1. SUFFICES ASSUME W # {} PROVE FALSE
      OBVIOUS
    <3>2. PICK i \in W : \A j \in W : i <= j
      <4>1. W \in SUBSET (0..n)
        OBVIOUS
      <4> HIDE DEF W, n
      <4>2. QED BY <1>1, <3>1, <4>1, LeastNumber
    <3>3. i \in 0..n /\ c[i] # b[i] - found(i)
      BY <3>2
    <3>4. i # 0
      BY <1>5, <2>1, <2>2, <3>3 DEF Totals
    <3>5. i \in 1..n /\ i - 1 \in 0..n /\ ~(i <= i - 1)
      BY <1>1, <3>3, <3>4
    <3>6. c[i - 1] = b[i - 1] - found(i - 1)
      BY <3>2, <3>5
    <3>7. b[i] = b[i - 1] + Share(list[i], other) /\ b[i - 1] \in Int /\ b[i] \in Int
      BY <2>1, <3>5, TotalsAdd
    <3>8. c[i] = c[i - 1] + Share(rest[i], other) /\ c[i - 1] \in Int /\ c[i] \in Int
      BY <1>7, <2>2, <3>5, TotalsAdd
    <3>9. Share(list[i], other) \in Nat
      BY <1>1, <3>5, ShareIsNat
    <3>10. left[i - 1] \in Nat /\ left[i] \in Nat
      BY <1>2, <3>5
    <3>11. Share(rest[i], other) =
             IF other = kind THEN Share(list[i], other) - (left[i - 1] - left[i])
             ELSE Share(list[i], other)
      BY <1>8, <3>5 DEF cut
    <3> HIDE DEF W
    <3>12. CASE other = kind
      <4>1. c[i] # b[i] - (grams - left[i])
        BY <3>3, <3>12
      <4>2. c[i - 1] = b[i - 1] - (grams - left[i - 1])
        BY <3>6, <3>12
      <4>3. c[i] = c[i - 1] + (Share(list[i], other) - (left[i - 1] - left[i]))
        BY <3>8, <3>11, <3>12
      <4> HIDE DEF found
      <4>4. QED BY <3>7, <3>9, <3>10, <4>1, <4>2, <4>3
    <3>13. CASE other # kind
      BY <3>3, <3>6, <3>7, <3>8, <3>9, <3>11, <3>13
    <3>14. QED BY <3>12, <3>13
  <2>4. n \in 0..n
    BY <1>1
  <2>5. c[n] = b[n] - found(n) /\ b[n] \in Int
    BY <2>1, <2>3, <2>4, TotalsInt
  <2>6. QED BY <1>4, <2>1, <2>2, <2>5
<1>10. QED BY <1>7, <1>9 DEF rest

----------------------------------------------------------------------------
(* Materials: the theorem *)

\* Every tenant has a list of lots.
MInv == /\ lots = [t \in Tenant |-> lots[t]]
        /\ \A t \in Tenant : lots[t] \in Seq(MaterialLot)

\* The account that the lots amount to.
Account == [t \in Tenant |-> [k \in Kind |-> M!Balance(t, k)]]

\* Its entries.
LEMMA AccountHas ==
  ASSUME NEW t \in Tenant, NEW k \in Kind
  PROVE  Account[t][k] = M!GramsOf(lots[t], k) /\ Account'[t][k] = M!GramsOf(lots'[t], k)
BY DEF Account, M!Balance

\* Two accounts with the same entries are the same.
LEMMA SameAccount ==
  ASSUME NEW other, other = [t \in Tenant |-> [k \in Kind |-> other[t][k]]],
         \A t \in Tenant, k \in Kind : Account'[t][k] = other[t][k]
  PROVE  Account' = other
PROOF
<1>1. Account' = [t \in Tenant |-> [k \in Kind |-> Account'[t][k]]]
  BY DEF Account
<1>2. QED BY <1>1

\* Accounts are a function of tenants and kinds.
LEMMA AccountIs == Account = [t \in Tenant |-> [k \in Kind |-> Account[t][k]]]
BY DEF Account

\* Add deposits what is usable, and nothing of what is not.
LEMMA AddDeposits ==
  ASSUME MInv, NEW p \in Principal,
         NEW l \in [id : Id, kind : Kind, grams : Grams, grade : Grade, day : Day],
         M!Add(p, l)
  PROVE  MInv' /\ M!Stock!Next
PROOF
<1>1. l \in MaterialLot /\ l.kind \in Kind /\ p.tenant \in Tenant
  BY IntAssumption, PrincipalAssumption DEF MaterialLot
<1> DEFINE t == p.tenant
           k == l.kind
<1>2. lots' = [lots EXCEPT ![t] = Append(lots[t], l)] /\ answer' = <<>>
  BY DEF M!Add
<1>3. lots'[t] = Append(lots[t], l) /\ \A u \in Tenant : u # t => lots'[u] = lots[u]
  BY <1>1, <1>2 DEF MInv
<1>4. Append(lots[t], l) \in Seq(MaterialLot)
  BY <1>1 DEF MInv
<1>5. MInv'
  BY <1>1, <1>2, <1>3, <1>4 DEF MInv
<1>6. \A j \in Kind : Account'[t][j] = Account[t][j] + Share(l, j) /\ Account[t][j] \in Int
  <2>1. lots[t] \in Seq(MaterialLot)
    BY <1>1 DEF MInv
  <2>2. \A j : /\ M!GramsOf(Append(lots[t], l), j) = M!GramsOf(lots[t], j) + Share(l, j)
               /\ M!GramsOf(lots[t], j) \in Int
    BY <1>1, <2>1, AppendAdds
  <2>3. QED BY <1>1, <1>3, <2>2, AccountHas
<1>7. \A u \in Tenant, j \in Kind : u # t => Account'[u][j] = Account[u][j]
  BY <1>3, AccountHas
<1>8. \A j \in Kind : j # k => Account'[t][j] = Account[t][j]
  BY <1>6 DEF Share, M!Eligible
<1> HIDE DEF t, k
<1>9. CASE M!IsUsable(l)
  <2>1. Account'[t][k] > Account[t][k]
    <3>1. Share(l, k) > 0 /\ Share(l, k) \in Int
      BY <1>1, <1>9 DEF Share, M!Eligible, M!IsUsable, k, MaterialLot
    <3>2. QED BY <1>1, <1>6, <3>1 DEF k
  <2> DEFINE more == [Account EXCEPT ![t][k] = Account'[t][k]]
  <2>2. Account' = more
    <3>1. /\ more = [u \in Tenant |-> [j \in Kind |-> more[u][j]]]
          /\ more[t][k] = Account'[t][k]
          /\ \A u \in Tenant, j \in Kind :
               u # t \/ j # k => more[u][j] = Account[u][j]
      BY <1>1, AccountIs DEF t, k
    <3> HIDE DEF more
    <3>2. \A u \in Tenant, j \in Kind : Account'[u][j] = more[u][j]
      BY <1>7, <1>8, <3>1
    <3>3. QED BY <3>1, <3>2, SameAccount
  <2>3. M!Stock!Deposit(t, k)
    BY <1>2, <2>1, <2>2 DEF M!Stock!Deposit, M!Stock!Silent, Account
  <2>4. QED BY <1>1, <1>5, <2>3 DEF M!Stock!Next, t, k
<1>10. CASE ~M!IsUsable(l)
  <2>1. \A u \in Tenant, j \in Kind : Account'[u][j] <= Account[u][j]
    <3>1. \A j \in Kind : Share(l, j) = 0
      BY <1>10 DEF Share, M!Eligible
    <3>2. \A j \in Kind : Account'[t][j] <= Account[t][j]
      BY <1>6, <3>1
    <3>3. \A u \in Tenant, j \in Kind : Account[u][j] \in Int
      <4>1. \A u \in Tenant, j \in Kind : M!GramsOf(lots[u], j) \in Int
        BY <1>1, AppendAdds DEF MInv
      <4>2. QED BY <4>1, AccountHas
    <3>4. QED BY <1>7, <3>2, <3>3
  <2>2. M!Stock!Withdraw
    BY <1>2, <2>1 DEF M!Stock!Withdraw, M!Stock!Silent, Account
  <2>3. QED BY <1>5, <2>2 DEF M!Stock!Next
<1>11. QED BY <1>9, <1>10

\* Reserve is granted what the account covers.
LEMMA ReserveIsLedgers ==
  ASSUME MInv, NEW p \in Principal, NEW kind \in Kind, NEW grams \in Grams,
         M!Reserve(p, kind, grams)
  PROVE  MInv' /\ M!Stock!Next
PROOF
<1> DEFINE t == p.tenant
<1>1. t \in Tenant /\ grams \in Int /\ grams > 0 /\ lots[t] \in Seq(MaterialLot)
  BY IntAssumption, PrincipalAssumption DEF M!Reserve, MInv
<1> HIDE DEF t
<1>2. M!Sufficient(lots[t], kind, grams) <=> Account[t][kind] >= grams
  BY <1>1, SufficientIs, AccountHas
<1>3. CASE M!Sufficient(lots[t], kind, grams)
  <2>1. /\ lots' = [lots EXCEPT ![t] = M!Take(lots[t], kind, grams)]
        /\ answer' = <<t, kind, grams, "granted">>
    BY <1>3 DEF M!Reserve, t
  <2>2. /\ M!Take(lots[t], kind, grams) \in Seq(MaterialLot)
        /\ \A j : M!GramsOf(M!Take(lots[t], kind, grams), j) =
             IF j = kind THEN M!GramsOf(lots[t], j) - grams ELSE M!GramsOf(lots[t], j)
    BY <1>1, <1>3, TakeTakes
  <2>3. /\ lots'[t] = M!Take(lots[t], kind, grams)
        /\ \A u \in Tenant : u # t => lots'[u] = lots[u]
    BY <1>1, <2>1 DEF MInv
  <2>4. MInv'
    BY <1>1, <2>1, <2>2, <2>3 DEF MInv
  <2> DEFINE less == [Account EXCEPT ![t][kind] = Account[t][kind] - grams]
  <2>5. Account' = less
    <3>1. /\ less = [u \in Tenant |-> [j \in Kind |-> less[u][j]]]
          /\ less[t][kind] = Account[t][kind] - grams
          /\ \A u \in Tenant, j \in Kind :
               u # t \/ j # kind => less[u][j] = Account[u][j]
      BY <1>1, AccountIs
    <3> HIDE DEF less
    <3>2. Account'[t][kind] = Account[t][kind] - grams
      BY <1>1, <2>2, <2>3, AccountHas
    <3>3. \A u \in Tenant, j \in Kind :
            u # t \/ j # kind => Account'[u][j] = Account[u][j]
      BY <1>1, <2>2, <2>3, AccountHas
    <3>4. \A u \in Tenant, j \in Kind : Account'[u][j] = less[u][j]
      BY <3>1, <3>2, <3>3
    <3>5. QED BY <3>1, <3>4, SameAccount
  <2>6. M!Stock!Reserve(t, kind, grams)
    BY <1>2, <1>3, <2>1, <2>5 DEF M!Stock!Reserve, Account
  <2>7. QED BY <1>1, <2>4, <2>6 DEF M!Stock!Next
<1>4. CASE ~M!Sufficient(lots[t], kind, grams)
  <2>1. lots' = lots /\ answer' = <<t, kind, grams, "refused">>
    BY <1>4 DEF M!Reserve, t
  <2>2. Account' = Account
    BY <2>1 DEF Account, M!Balance
  <2>3. M!Stock!Reserve(t, kind, grams)
    BY <1>2, <1>4, <2>1, <2>2 DEF M!Stock!Reserve, Account
  <2>4. QED BY <1>1, <2>1, <2>3 DEF M!Stock!Next, MInv
<1>5. QED BY <1>3, <1>4

\* Prune withdraws.
LEMMA PruneWithdraws ==
  ASSUME MInv, NEW before \in Day, M!Prune(before)
  PROVE  MInv' /\ M!Stock!Next
PROOF
<1>1. lots' = [t \in Tenant |-> Kept(lots[t], before)] /\ answer' = <<>>
  BY DEF M!Prune, Kept
<1>2. \A t \in Tenant :
        /\ lots'[t] \in Seq(MaterialLot)
        /\ \A k : M!GramsOf(lots'[t], k) <= M!GramsOf(lots[t], k)
  BY <1>1, KeptIsLess DEF MInv
<1>3. MInv'
  BY <1>1, <1>2 DEF MInv
<1>4. \A t \in Tenant, k \in Kind : Account'[t][k] <= Account[t][k]
  BY <1>2, AccountHas
<1>5. M!Stock!Withdraw
  BY <1>1, <1>4 DEF M!Stock!Withdraw, M!Stock!Silent, Account
<1>6. QED BY <1>3, <1>5 DEF M!Stock!Next

\* Every step of Materials is a step of Ledger, or none.
LEMMA MaterialsStep ==
  MInv /\ [M!Next]_(M!vars) => MInv' /\ [M!Stock!Next]_(M!Stock!vars)
PROOF
<1> SUFFICES ASSUME MInv, [M!Next]_(M!vars)
             PROVE  MInv' /\ [M!Stock!Next]_(M!Stock!vars)
  OBVIOUS
<1>1. CASE UNCHANGED M!vars
  BY <1>1 DEF M!vars, MInv, M!Stock!vars, M!Balance
<1>2. QED BY <1>1, AddDeposits, ReserveIsLedgers, PruneWithdraws DEF M!Next

\* The lots of material, however they are drawn on, split up and thrown away,
\* amount to one account per tenant and kind.
THEOREM MaterialsImplementsLedger == Spec => ImplementsLedger
PROOF
<1>1. Init => MInv /\ M!Stock!Init
  <2> SUFFICES ASSUME Init PROVE MInv /\ M!Stock!Init
    OBVIOUS
  <2>1. lots = [t \in Tenant |-> <<>>] /\ answer = <<>>
    BY DEF Init, M!Init
  <2>2. MInv
    BY <2>1 DEF MInv
  <2>3. \A t \in Tenant, k \in Kind : M!Balance(t, k) = 0
    BY <2>1, NothingHeld DEF M!Balance
  <2>4. QED BY <2>1, <2>2, <2>3 DEF M!Stock!Init, M!Stock!Silent
<1>2. MInv /\ [Next]_vars => MInv' /\ [M!Stock!Next]_(M!Stock!vars)
  BY EachAlone, MaterialsStep
<1>3. QED BY <1>1, <1>2, PTL DEF Spec, ImplementsLedger, M!ImplementsLedger, M!Stock!Spec
=============================================================================
