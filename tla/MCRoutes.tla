------------------------------ MODULE MCRoutes ------------------------------
(* Small instances of Routes for TLC. *)
EXTENDS Routes, TLC

MCVehicle == {[capacity |-> 3, hazardLimit |-> 7]}

\* Stops that fit together and not, two with the same lot, two with the same id,
\* a hazard at the limit and one above it, and two invalid ones.
MCStop == {[id |-> "s1", lot |-> "l1", hazard |-> 7, weight |-> 1],
           [id |-> "s2", lot |-> "l1", hazard |-> 1, weight |-> 1],
           [id |-> "s2", lot |-> "l2", hazard |-> 3, weight |-> 2],
           [id |-> "s3", lot |-> "l3", hazard |-> 0, weight |-> 2],
           [id |-> "s4", lot |-> "l4", hazard |-> 8, weight |-> 1],
           [id |-> "s5", lot |-> "l5", hazard |-> 11, weight |-> 1],
           [id |-> "s6", lot |-> "l6", hazard |-> 1, weight |-> 0]}

MCPrincipal == [tenant : Tenant, role : {"operator", "guest"}]

Symmetry == Permutations(Op) \cup Permutations(Route) \cup Permutations(Tenant)
=============================================================================
