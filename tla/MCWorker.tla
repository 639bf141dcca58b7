------------------------------ MODULE MCWorker ------------------------------
(* Small instances of Worker for TLC. *)
EXTENDS Worker, TLC

CONSTANTS j1, j2, j3, k1, k2, fresh, again, tried, id

MCKind == {k1, k2}
MCJob == {j1, j2, j3}

\* Jobs of two kinds; the third is malformed, so its kind does not matter.
MCKindOf == (j1 :> k1) @@ (j2 :> k2) @@ (j3 :> k1)

\* All submissions use one id.
MCIdOf == [s \in Submission |-> id]

\* One has been tried before and is due in a second, the others come with zeros.
MCGiven ==
  [s \in Submission |->
     IF s = tried THEN [attempts |-> 1, next |-> 1, set |-> <<s, 0>>]
                  ELSE [attempts |-> 0, next |-> 0, set |-> <<>>]]
=============================================================================
