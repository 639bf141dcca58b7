------------------------------- MODULE Safety -------------------------------
(***************************************************************************)
(* The two registers of dangerous lots: the findings of service/safety.go  *)
(* and the quarantine of service/quarantine.go, on internal/domain/safety. *)
(* Each operation is one lock section, on a key of tenant and lot.         *)
(* Nothing connects the registers with one another or with the lots.       *)
(***************************************************************************)
EXTENDS Battery, Sequences

CONSTANTS
  Tenant, Principal,
  LotId,       \* the lots people write about
  Finding,     \* the ids of findings, which need not be unique
  Reading,     \* what is measured, and its limit: [measured, limit]
  Day,         \* the days lots were received on, and Expire is asked for
  MaxFindings, \* bound: a lot has no more findings
  MaxNotes     \* bound: a lot is held no more often

VARIABLES
  findings, \* findings[t][l]: the list of findings
  items,    \* items[t][l]: the day the held lot was received on, or NotHeld
  notes,    \* notes[t][l]: how many notes the held lot has
  holds     \* holds[t][l]: how often it was held since it last was not

vars == <<findings, items, notes, holds>>
safety == findings
quarantine == <<items, notes, holds>>

NotHeld == -1

\* Assess: above the limit, and above it by more than a fifth.
Assess(r) ==
  IF 10 * r.measured > 12 * r.limit THEN "danger"
  ELSE IF r.measured > r.limit THEN "watch" ELSE "clear"

----------------------------------------------------------------------------
\* Record, of a finding as the caller made it, resolved or not.
Record(p, l, id, r, resolved) ==
  /\ Can(p, "inspect")
  /\ r.limit > 0
  /\ Len(findings[p.tenant][l]) < MaxFindings
  /\ findings' = [findings EXCEPT ![p.tenant][l] =
       Append(@, [id |-> id, reading |-> r, level |-> Assess(r), resolved |-> resolved])]
  /\ UNCHANGED quarantine

\* A mutant of Resolve: the time is set on a copy that is not stored.
ResolveUnstamped(p, l, id) ==
  LET list == findings[p.tenant][l]
      Matches(i) == list[i].id = id
  IN  /\ Can(p, "certify")
      /\ \E i \in DOMAIN list :
           /\ Matches(i) /\ \A j \in 1..i-1 : ~Matches(j)
           /\ findings' = [findings EXCEPT
                ![p.tenant][l][i].level = IF @ = "danger" THEN "watch" ELSE @]
      /\ UNCHANGED quarantine

\* Resolve: the first finding of the id, resolved or not.
Resolve(p, l, id) ==
  LET list == findings[p.tenant][l]
      Matches(i) == list[i].id = id
  IN  /\ Can(p, "certify")
      /\ \E i \in DOMAIN list :
           /\ Matches(i) /\ \A j \in 1..i-1 : ~Matches(j)
           /\ findings' = [findings EXCEPT
                ![p.tenant][l][i].level = IF @ = "danger" THEN "watch" ELSE @,
                ![p.tenant][l][i].resolved = TRUE]
      /\ UNCHANGED quarantine

\* Passes, of the checklist a caller took of a lot and completed.
Passes(checklist) ==
  \A i \in DOMAIN checklist :
    checklist[i].resolved \/ checklist[i].level # "danger"

----------------------------------------------------------------------------
\* Hold, of a lot the caller says is quarantined; held again it is replaced.
Hold(p, l, day) ==
  /\ Can(p, "inspect")
  /\ notes[p.tenant][l] < MaxNotes
  /\ items' = [items EXCEPT ![p.tenant][l] = day]
  /\ notes' = [notes EXCEPT ![p.tenant][l] = @ + 1]
  /\ holds' = [holds EXCEPT ![p.tenant][l] = @ + 1]
  /\ UNCHANGED safety

\* A mutant of Release: the notes are kept.
ReleaseKeepsNotes(p, l) ==
  /\ Can(p, "certify")
  /\ items[p.tenant][l] # NotHeld
  /\ items' = [items EXCEPT ![p.tenant][l] = NotHeld]
  /\ holds' = [holds EXCEPT ![p.tenant][l] = 0]
  /\ UNCHANGED <<notes, safety>>

Release(p, l) ==
  /\ Can(p, "certify")
  /\ items[p.tenant][l] # NotHeld
  /\ items' = [items EXCEPT ![p.tenant][l] = NotHeld]
  /\ notes' = [notes EXCEPT ![p.tenant][l] = 0]
  /\ holds' = [holds EXCEPT ![p.tenant][l] = 0]
  /\ UNCHANGED safety

\* Expire: lots received before the day, of every tenant.
Expire(before) ==
  LET Old(t, l) == items[t][l] # NotHeld /\ items[t][l] < before
      Keep(f, none) == [t \in Tenant |-> [l \in LotId |->
                          IF Old(t, l) THEN none ELSE f[t][l]]]
  IN  /\ items' = Keep(items, NotHeld)
      /\ notes' = Keep(notes, 0)
      /\ holds' = Keep(holds, 0)
      /\ UNCHANGED safety

----------------------------------------------------------------------------
Init ==
  /\ findings = [t \in Tenant |-> [l \in LotId |-> <<>>]]
  /\ items = [t \in Tenant |-> [l \in LotId |-> NotHeld]]
  /\ notes = [t \in Tenant |-> [l \in LotId |-> 0]]
  /\ holds = notes

Next ==
  \/ \E p \in Principal, l \in LotId :
       \/ \E id \in Finding, r \in Reading, b \in BOOLEAN : Record(p, l, id, r, b)
       \/ \E id \in Finding : Resolve(p, l, id)
       \/ \E day \in Day : Hold(p, l, day)
       \/ Release(p, l)
  \/ \E before \in Day : Expire(before)

----------------------------------------------------------------------------
(* Properties *)

\* Levels come from readings and go down only when a finding is resolved: the
\* checklist of a lot passes only if everything dangerous is marked resolved.
DangerStaysOpen ==
  \A t \in Tenant, l \in LotId :
    Passes(findings[t][l]) =>
      \A i \in DOMAIN findings[t][l] :
        Assess(findings[t][l][i].reading) = "danger" => findings[t][l][i].resolved

\* The notes of a lot are those of its present stay: a lot that was released or
\* has expired comes back without the notes of earlier stays.
NotesOfThisStay == notes = holds
============================================================================
