------------------------------- MODULE Ledger -------------------------------
(***************************************************************************)
(* What a stock of material promises: an account per tenant and kind.  A   *)
(* reservation is granted exactly when the account covers it, and then     *)
(* takes exactly what was asked for.  How the material is spread over lots *)
(* is nobody's concern here; module Materials implements this              *)
(* specification.                                                          *)
(***************************************************************************)
EXTENDS Integers

CONSTANTS Tenant, Kind, Grams

VARIABLES
  available, \* available[t][k]: the grams of kind k that tenant t may reserve
  answer     \* what the latest call of Reserve asked and was told, if it was the
             \* latest of all calls

vars == <<available, answer>>

\* What operations other than Reserve leave of the answer.
Silent == <<>>

Deposit(t, k) ==
  /\ available'[t][k] > available[t][k]
  /\ available' = [available EXCEPT ![t][k] = available'[t][k]]
  /\ answer' = Silent

Reserve(t, k, g) ==
  IF available[t][k] >= g
    THEN /\ available' = [available EXCEPT ![t][k] = @ - g]
         /\ answer' = <<t, k, g, "granted">>
    ELSE UNCHANGED available /\ answer' = <<t, k, g, "refused">>

\* Old material is thrown away; what is not usable comes and goes unseen.
Withdraw ==
  /\ \A t \in Tenant, k \in Kind : available'[t][k] <= available[t][k]
  /\ answer' = Silent

Init ==
  /\ available = [t \in Tenant |-> [k \in Kind |-> 0]]
  /\ answer = Silent

Next ==
  \/ \E t \in Tenant, k \in Kind : Deposit(t, k)
  \/ \E t \in Tenant, k \in Kind, g \in Grams : g > 0 /\ Reserve(t, k, g)
  \/ Withdraw

Spec == Init /\ [][Next]_vars
=============================================================================
