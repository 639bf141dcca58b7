---------------------------- MODULE MCLifecycle ----------------------------
(* Small instances of Lifecycle for TLC. *)
EXTENDS Lifecycle, TLC

\* The known inspection results, and a string that is none of them.
MCResult == {"pass", "hold", "reject", "unclear"}

\* Everyone: both roles and one no rule mentions, in every tenant.
MCPrincipal == [tenant : Tenant, role : {"operator", "supervisor", "guest"}]

\* A hazard score on each side of the limit.
MCHazard == {HazardLimit - 1, HazardLimit}

\* One acceptable balance and the two kinds of refused ones.
MCWeights == {<<5, 0, 0>>, <<0, 0, 0>>, <<-1, 2, 0>>}

Symmetry == Permutations(Lot) \cup Permutations(Tenant)
============================================================================
