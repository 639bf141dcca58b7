------------------------------- MODULE MCApi -------------------------------
(* Small instances of Api for TLC. *)
EXTENDS Api, TLC

\* Both roles the rules know and one they do not.
MCPrincipal == [tenant : Tenant, role : {"operator", "supervisor", "guest"}]

\* Inspections that release, a score below the limit, a balance that is valid.
MCResult == {"pass"}
MCHazard == {HazardLimit - 1}
MCWeights == {<<5, 0, 0>>}
Symmetry == Permutations(Token) \cup Permutations(Request)
============================================================================
