------------------------------ MODULE MCOutbox ------------------------------
(* Small instances of Outbox for TLC. *)
EXTENDS Outbox, TLC

Symmetry == Permutations(Event) \cup Permutations(Worker)
=============================================================================
