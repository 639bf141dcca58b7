----------------------------- MODULE Materials -----------------------------
(***************************************************************************)
(* Recovered material in stock: service/material.go on                     *)
(* internal/domain/material.  Lots of material are added, reserved in part *)
(* and across several lots, and pruned by age.  Every operation is one     *)
(* lock section.  Assays are kept beside the stock and never used by it.   *)
(***************************************************************************)
EXTENDS Battery, Sequences, SequencesExt

CONSTANTS
  Tenant,    \* the tenants
  Principal, \* the people: a tenant and a role each
  Kind,      \* the kinds of material
  Id,        \* the ids of material lots
  Grams,     \* the weights people add and reserve
  Grade,     \* the grades of material lots
  Day,       \* the days lots were assayed on, and Prune is asked for
  MaxAdds    \* bound: how many lots are added

MaxWeight == 1000000

VARIABLES
  lots,      \* lots[t]: the list of the lots of tenant t
  adds,      \* how many lots were added
  answer     \* what the latest call of Reserve asked and was told, if it was the
             \* latest of all calls

vars == <<lots, adds, answer>>

IsUsable(l) == l.grams > 0 /\ l.grade # "reject"

WeightOK(grams) == grams > 0 /\ grams <= MaxWeight

----------------------------------------------------------------------------

Add(p, l) ==
  /\ adds < MaxAdds
  /\ Can(p, "recover")
  /\ WeightOK(l.grams)
  /\ \A i \in 1..Len(lots[p.tenant]) : lots[p.tenant][i].id # l.id
  /\ lots' = [lots EXCEPT ![p.tenant] = Append(@, l)]
  /\ adds' = adds + 1
  /\ answer' = <<>>

\* The lots the loop of Reserve draws on.
Eligible(l, kind) == l.kind = kind /\ IsUsable(l)

\* A mutant of Remaining: a lot is not split.
RemainingWholeLots(list, kind, grams) ==
  LET left[i \in 0..Len(list)] ==
        IF i = 0 THEN grams
        ELSE IF ~Eligible(list[i], kind) \/ list[i].grams > left[i - 1]
               THEN left[i - 1]
        ELSE left[i - 1] - list[i].grams
  IN  left

\* The loop of Reserve: what remains to be found after the first i lots.
Remaining(list, kind, grams) ==
  LET left[i \in 0..Len(list)] ==
        IF i = 0 THEN grams
        ELSE IF ~Eligible(list[i], kind) THEN left[i - 1]
        ELSE IF list[i].grams > left[i - 1] THEN 0
        ELSE left[i - 1] - list[i].grams
  IN  left

\* Otherwise "insufficient material", and nothing is taken.
Sufficient(list, kind, grams) ==
  Remaining(list, kind, grams)[Len(list)] = 0

\* A mutant of Take: lots that are drawn on are used up.
TakeAll(list, kind, grams) ==
  LET left == Remaining(list, kind, grams)
  IN  [i \in DOMAIN list |-> [list[i] EXCEPT !.grams =
         IF left[i - 1] = left[i] THEN @ ELSE 0]]

\* The lots after their allocations were taken out.
Take(list, kind, grams) ==
  LET left == Remaining(list, kind, grams)
  IN  [i \in DOMAIN list |-> [list[i] EXCEPT !.grams =
         @ - (left[i - 1] - left[i])]]

\* Reserve, by the caller's own tenant.
Reserve(p, kind, grams) ==
  LET list == lots[p.tenant]
  IN  /\ Can(p, "recover")
      /\ grams > 0
      /\ IF Sufficient(list, kind, grams)
           THEN /\ lots' = [lots EXCEPT ![p.tenant] = Take(list, kind, grams)]
                /\ answer' = <<p.tenant, kind, grams, "granted">>
           ELSE /\ lots' = lots
                /\ answer' = <<p.tenant, kind, grams, "refused">>
      /\ adds' = adds

\* Prune: lots assayed before the day are dropped, of every tenant.
Prune(before) ==
  /\ lots' = [t \in Tenant |->
       FoldLeft(LAMBDA keep, l : IF l.day < before THEN keep ELSE Append(keep, l),
                <<>>, lots[t])]
  /\ answer' = <<>>
  /\ adds' = adds

\* What a list holds of a kind that is accepted, and so available to Reserve.
GramsOf(list, kind) ==
  FoldLeft(LAMBDA available, l :
             IF Eligible(l, kind) THEN available + l.grams ELSE available,
           0, list)

Balance(t, kind) == GramsOf(lots[t], kind)

----------------------------------------------------------------------------
Init ==
  /\ lots = [t \in Tenant |-> <<>>]
  /\ adds = 0
  /\ answer = <<>>

Next ==
  \/ \E p \in Principal : \E l \in [id : Id, kind : Kind, grams : Grams,
                                    grade : Grade, day : Day] : Add(p, l)
  \/ \E p \in Principal, kind \in Kind, grams \in Grams : Reserve(p, kind, grams)
  \/ \E before \in Day : Prune(before)

----------------------------------------------------------------------------
(* Properties *)

\* Lots split over lists, loops and rejects amount to one account per tenant and
\* kind: Reserve grants exactly what the balance covers and takes exactly what it
\* grants; other operations bring material in one account at a time, or take it
\* out, which is what discarding old lots does.
Stock == INSTANCE Ledger
  WITH available <- [t \in Tenant |-> [k \in Kind |-> Balance(t, k)]]
ImplementsLedger == Stock!Spec
============================================================================
