----------------------------- MODULE Compliance -----------------------------
(***************************************************************************)
(* Compliance certificates: service/compliance.go on                       *)
(* internal/domain/compliance.  Each operation is one lock section.  A     *)
(* certificate gets a random id, and its lot and serial are any strings:   *)
(* nothing connects them with the lots of the lifecycle.                   *)
(***************************************************************************)
EXTENDS Battery, Sequences

CONSTANTS
  Tenant, Principal,
  Certificate, \* ids
  Evidence,    \* the pieces of evidence people name
  Requirement, \* the codes of what Submit must be given
  Empty        \* the empty string

VARIABLES
  certs,  \* certs[id]: status "none" without one
  reviews \* reviews[id]: the decisions of its reviews

vars == <<certs, reviews>>

NoCert == [status |-> "none", tenant |-> "none", evidence |-> {}]

Transition(from, to) ==
  <<from, to>> \in {<<"draft", "submitted">>, <<"submitted", "approved">>,
                    <<"submitted", "rejected">>, <<"rejected", "draft">>,
                    <<"approved", "expired">>}

\* A mutant of MergeEvidence: empty strings are kept.
MergeEvidenceVerbatim(given) == given

\* MergeEvidence drops what is empty or there twice; the order is not used.
MergeEvidence(given) == given \ {Empty}

----------------------------------------------------------------------------
Draft(p, id, given) ==
  /\ Can(p, "certify")
  /\ certs[id] = NoCert
  /\ certs' = [certs EXCEPT ![id] =
       [status |-> "draft", tenant |-> p.tenant, evidence |-> MergeEvidence(given)]]
  /\ UNCHANGED reviews

\* Submit: by anybody of the tenant, who provides something for every requirement.
\* What is provided is looked at and not kept.
Submit(p, id, provided) ==
  /\ certs[id].tenant = p.tenant
  /\ certs[id].status = "draft" /\ certs[id].evidence # {}
  /\ Requirement \subseteq provided
  /\ certs' = [certs EXCEPT ![id].status = "submitted"]
  /\ UNCHANGED reviews

\* A mutant of Review: a review may change the decision of an earlier one.
ReviewAgain(p, id, decision) ==
  /\ Can(p, "certify")
  /\ certs[id].tenant = p.tenant
  /\ certs[id].status \in {"submitted", "rejected"}
  /\ Len(reviews[id]) < 2
  /\ certs' = [certs EXCEPT ![id].status = decision]
  /\ reviews' = [reviews EXCEPT ![id] = Append(@, decision)]

\* Review, by whoever drafted it as well.
Review(p, id, decision) ==
  /\ Can(p, "certify")
  /\ certs[id].tenant = p.tenant
  /\ Transition(certs[id].status, decision)
  /\ certs' = [certs EXCEPT ![id].status = decision]
  /\ reviews' = [reviews EXCEPT ![id] = Append(@, decision)]

----------------------------------------------------------------------------
Init ==
  /\ certs = [id \in Certificate |-> NoCert]
  /\ reviews = [id \in Certificate |-> <<>>]

Next ==
  \E p \in Principal, id \in Certificate :
    \/ \E given \in SUBSET (Evidence \cup {Empty}) : Draft(p, id, given)
    \/ \E provided \in SUBSET Requirement : Submit(p, id, provided)
    \/ \E decision \in {"approved", "rejected"} : Review(p, id, decision)

----------------------------------------------------------------------------
(* Properties *)

\* A decision is final and on the record: a certificate is decided exactly when
\* it has one review, which says the same, and only on evidence that exists.
DecidedOnRecord ==
  \A id \in Certificate :
    IF certs[id].status \in {"approved", "rejected"}
      THEN /\ reviews[id] = <<certs[id].status>>
           /\ certs[id].evidence \cap Evidence # {}
      ELSE reviews[id] = <<>>
============================================================================
