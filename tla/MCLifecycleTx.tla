--------------------------- MODULE MCLifecycleTx ---------------------------
(* A small instance of LifecycleTx for TLC. *)
EXTENDS LifecycleTx, TLC

\* A release and a quarantine.
MCResult == {"pass", "hold"}

\* A role to which every operation is open, and one to which none is.
MCAsked == [tenant : Tenant, role : {"supervisor", "guest"}]

\* A score below the limit and an acceptable balance.
MCLowHazard == {HazardLimit - 1}
MCGoodWeights == {<<5, 0, 0>>}
============================================================================
