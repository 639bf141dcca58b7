-------------------------- MODULE MCReconciliation --------------------------
(* Small instances of Reconciliation for TLC. *)
EXTENDS Reconciliation, TLC

\* The tolerances of DefaultPolicy for two of the materials.
MCTolerance == [lithium |-> 5, nickel |-> 8]

Clean == [lot |-> "l1", material |-> "lithium", expected |-> 100,
          actual |-> 95, unit |-> "g", age |-> 1]
\* Of the same lot and material as the clean one, and out of tolerance.
Dirty == [lot |-> "l1", material |-> "lithium", expected |-> 1,
          actual |-> 2, unit |-> "kg", age |-> 72]
\* Of something else that nobody expected, within tolerance but too old.
Stale == [lot |-> "l3", material |-> "nickel", expected |-> 0,
          actual |-> 7, unit |-> "g", age |-> 73]

MCMeasurement == {Clean, Dirty, Stale}

MCPrincipal == [tenant : Tenant, role : {"operator", "supervisor"}]

Symmetry == Permutations(Op) \cup Permutations(Tenant)
=============================================================================
