----------------------------- MODULE Manifests -----------------------------
(***************************************************************************)
(* Manifests of what is shipped: service/manifest.go on                    *)
(* internal/domain/manifest.  Each operation is one lock section.          *)
(*                                                                         *)
(* Create stores the slice of items it is given without copying it.  A     *)
(* caller that fills in one template for several manifests thus shares its *)
(* array with all of them: an item is appended in place while the array    *)
(* has room, and in an array of the manifest's own from then on.           *)
(***************************************************************************)
EXTENDS Battery, Sequences

CONSTANTS
  Tenant, Principal,
  Manifest, \* ids, which all tenants share
  Item,     \* items with a weight above zero
  BadItem,  \* items without; Create refuses them
  Room,     \* the capacity of the template's array
  MaxItems, \* bound: a manifest has no more items
  Blank     \* an element of the array that was never written

ItemOrBad == Item \cup BadItem

VARIABLES
  array,    \* the template's array
  filled,   \* the length of the template slice
  manifests \* manifests[id]: status "none" without one

vars == <<array, filled, manifests>>

NoManifest == [status |-> "none", tenant |-> "none", shared |-> 0, own |-> <<>>]

\* The items of a manifest: the first of the template's array it shares, or the
\* array of its own.
Items(m) == IF m.shared > 0 THEN SubSeq(array, 1, m.shared) ELSE m.own

Transition(from, to) ==
  <<from, to>> \in {<<"prepared", "sealed">>, <<"prepared", "cancelled">>,
                    <<"sealed", "dispatched">>, <<"sealed", "cancelled">>,
                    <<"dispatched", "received">>}

----------------------------------------------------------------------------
\* The caller makes a manifest, of the template or with items of its own.
Create(p, id, items, template) ==
  /\ Can(p, "recover")
  /\ manifests[id] = NoManifest
  /\ \A i \in DOMAIN items : items[i] \notin BadItem
  /\ template => items = SubSeq(array, 1, filled) /\ filled > 0
  /\ manifests' = [manifests EXCEPT ![id] =
       [status |-> "prepared", tenant |-> p.tenant,
        shared |-> IF template THEN filled ELSE 0,
        own |-> IF template THEN <<>> ELSE items]]
  /\ UNCHANGED <<array, filled>>

\* A mutant of AppendItem: one off, the last item of the slice is overwritten.
AppendItemOverLast(id, item) ==
  LET m == manifests[id]
  IN  IF m.shared > 0 /\ m.shared < Room
        THEN /\ array' = [array EXCEPT ![m.shared] = item]
             /\ manifests' = [manifests EXCEPT ![id].shared = @ + 1]
        ELSE /\ manifests' = [manifests EXCEPT ![id].shared = 0,
                                               ![id].own = Append(Items(m), item)]
             /\ UNCHANGED array

\* append, to the slice of a manifest.
AppendItem(id, item) ==
  LET m == manifests[id]
  IN  IF m.shared > 0 /\ m.shared < Room
        THEN /\ array' = [array EXCEPT ![m.shared + 1] = item]
             /\ manifests' = [manifests EXCEPT ![id].shared = @ + 1]
        ELSE /\ manifests' = [manifests EXCEPT ![id].shared = 0,
                                               ![id].own = Append(Items(m), item)]
             /\ UNCHANGED array

\* A mutant of AddItem: a manifest that is sealed is changed.
AddItemSealed(p, id, item) ==
  /\ manifests[id].tenant = p.tenant
  /\ manifests[id].status \in {"prepared", "sealed"}
  /\ Len(Items(manifests[id])) < MaxItems
  /\ AppendItem(id, item)
  /\ UNCHANGED filled

\* AddItem: by anybody of the tenant, of any weight.
AddItem(p, id, item) ==
  /\ manifests[id].tenant = p.tenant
  /\ manifests[id].status = "prepared"
  /\ Len(Items(manifests[id])) < MaxItems
  /\ AppendItem(id, item)
  /\ UNCHANGED filled

\* Move: by anybody of the tenant; an empty manifest is sealed too.
Move(p, id, target) ==
  /\ manifests[id].tenant = p.tenant
  /\ Transition(manifests[id].status, target)
  /\ manifests' = [manifests EXCEPT ![id].status = target]
  /\ UNCHANGED <<array, filled>>

\* The caller fills in its template, before and after it makes manifests of it.
CallerAppends(item) ==
  /\ filled < Room
  /\ filled' = filled + 1
  /\ array' = [array EXCEPT ![filled + 1] = item]
  /\ UNCHANGED manifests

----------------------------------------------------------------------------
Init ==
  /\ filled = 0
  /\ array = [i \in 1..Room |-> Blank]
  /\ manifests = [id \in Manifest |-> NoManifest]

Next ==
  \/ \E p \in Principal, id \in Manifest :
       \/ \E items \in {<<>>} \cup {<<i>> : i \in ItemOrBad} : Create(p, id, items, FALSE)
       \/ Create(p, id, SubSeq(array, 1, filled), TRUE)
       \/ \E item \in ItemOrBad : AddItem(p, id, item)
       \/ \E target \in {"sealed", "dispatched", "received", "cancelled"} : Move(p, id, target)
  \/ \E item \in Item : CallerAppends(item)

Spec == Init /\ [][Next]_vars

----------------------------------------------------------------------------
(* Properties *)

Contents(id) == Items(manifests[id])

Sealed(id) == manifests[id].status \notin {"none", "prepared"}

\* How long the slices of the template's array are that somebody may append to.
Growing ==
  {filled} \cup {manifests[id].shared :
    id \in {x \in Manifest : manifests[x].status = "prepared" /\ manifests[x].shared > 0}}

\* How far the sharing reaches: a sealed manifest neither gains nor loses an item,
\* whoever appends to the array it shares, and one of its items is replaced only
\* where somebody else's slice of that array, the caller's template or a manifest
\* that is still prepared, ends right before it.
ReplacedFromBelow ==
  [][\A id \in Manifest : Sealed(id) =>
       /\ Len(Contents(id)') = Len(Contents(id))
       /\ \A i \in DOMAIN Contents(id) :
            Contents(id)'[i] # Contents(id)[i] =>
              manifests[id].shared > 0 /\ i - 1 \in Growing]_vars

\* internal/service/operations_boundary_test.go:90, "ManifestAndOperatorInputs-
\* AreCopied": a manifest has the items it was given, so that only AddItem on
\* this manifest changes them, and only by one more.
InputsAreCopied ==
  [][\A id \in Manifest :
       manifests[id].status # "none" =>
         \/ Contents(id)' = Contents(id)
         \/ \E item \in ItemOrBad : Contents(id)' = Append(Contents(id), item)]_vars
============================================================================
