------------------------------ MODULE Battery ------------------------------
(***************************************************************************)
(* The domain rules of a battery lot and of the people who handle it:      *)
(* internal/domain/battery and internal/domain/auth.  Pure operators, used *)
(* by the lifecycle modules.                                               *)
(***************************************************************************)
EXTENDS Integers

\* The states of a lot.
State == {"received", "inspected", "reserved", "dismantling", "recovered",
          "certified", "quarantined"}

HazardLimit == 70

----------------------------------------------------------------------------
CanInspect(lot) == lot.state = "received"

CanReserve(lot) == lot.state = "inspected" /\ lot.hazard < HazardLimit

CanRecover(lot) == lot.state = "dismantling"

CanCertify(lot) == lot.state = "recovered"

\* The transition table of NextState: the states that may follow a state.
NextState(current) ==
  CASE current = "received"    -> {"inspected", "quarantined"}
    [] current = "inspected"   -> {"reserved", "quarantined"}
    [] current = "reserved"    -> {"dismantling"}
    [] current = "dismantling" -> {"recovered", "quarantined"}
    [] current = "recovered"   -> {"certified"}
    [] OTHER                   -> {}

\* Principal.Can: supervisors may do everything, operators the four
\* shop-floor actions, any other role nothing.
Can(p, action) ==
  \/ p.role = "supervisor"
  \/ /\ p.role = "operator"
     /\ action \in {"intake", "inspect", "reserve", "recover"}

\* A mutant of InspectionTarget: only a reject quarantines, a hold passes.
InspectionTargetHoldPasses(result) ==
  IF result = "reject" THEN "quarantined" ELSE "inspected"

\* The state an inspection leads to: hold and reject quarantine the lot, every
\* other report, unknown ones included, releases it.
InspectionTarget(result) ==
  IF result \in {"hold", "reject"} THEN "quarantined" ELSE "inspected"

\* Recover accepts non-negative weights that are not all zero.
WeightsValid(w) == /\ \A i \in 1..3 : w[i] >= 0
                   /\ w[1] + w[2] + w[3] # 0
============================================================================
