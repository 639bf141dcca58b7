----------------------------- MODULE Transport -----------------------------
(***************************************************************************)
(* Trips of vehicles: service/transport.go on internal/domain/transport.   *)
(* Each operation is one lock section, on a key of tenant and id.  Plan    *)
(* takes the trip as the caller made it, times and stops included, and     *)
(* only sets its tenant and status.  That the slice of stops is shared     *)
(* with the caller is left out; module Manifests has that of the items.    *)
(***************************************************************************)
EXTENDS Battery, Sequences

CONSTANTS
  Tenant, Principal,
  Vehicle, Trip, \* ids
  Offer,         \* the vehicles people add: [id, capacity, approved]
  Stop,          \* the stops people add: [id, sequence]
  Preset,        \* the stops trips are planned with
  MaxStops,      \* bound: a trip has no more stops
  MaxNow,        \* bound: the clock stops here
  Never          \* a time that is not set

VARIABLES
  now,      \* the clock
  vehicles, \* vehicles[t]: the ids of the vehicles of tenant t
  trips     \* trips[t][id]: a trip of tenant t; status "none" without one

vars == <<now, vehicles, trips>>

Time == 0..MaxNow \cup {Never}
NoTrip == [status |-> "none", departed |-> Never, arrived |-> Never, stops |-> <<>>]

Transition(from, to) ==
  <<from, to>> \in {<<"planned", "loading">>, <<"loading", "in_transit">>,
                    <<"in_transit", "arrived">>, <<"arrived", "closed">>}

----------------------------------------------------------------------------
AddVehicle(p, v) ==
  /\ Can(p, "reserve")
  /\ v.capacity > 0 /\ v.approved
  /\ v.id \notin vehicles[p.tenant]
  /\ vehicles' = [vehicles EXCEPT ![p.tenant] = @ \cup {v.id}]
  /\ UNCHANGED <<now, trips>>

Plan(p, id, vehicle, departed, arrived, stops) ==
  /\ Can(p, "reserve")
  /\ vehicle \in vehicles[p.tenant]
  /\ trips[p.tenant][id] = NoTrip
  /\ trips' = [trips EXCEPT ![p.tenant][id] =
       [status |-> "planned", departed |-> departed, arrived |-> arrived,
        stops |-> stops]]
  /\ UNCHANGED <<now, vehicles>>

\* AddStop: by anybody of the tenant, while the trip is planned.
AddStop(p, id, stop) ==
  LET trip == trips[p.tenant][id]
  IN  /\ trip.status = "planned"
      /\ Len(trip.stops) < MaxStops
      /\ stop.sequence >= 1
      /\ \A i \in DOMAIN trip.stops :
           trip.stops[i].id # stop.id /\ trip.stops[i].sequence # stop.sequence
      /\ trips' = [trips EXCEPT ![p.tenant][id].stops = Append(@, stop)]
      /\ UNCHANGED <<now, vehicles>>

\* A mutant of Move: times that are set already are kept.
MoveKeepingTimes(p, id, target) ==
  LET Stamp(old, at) == IF target = at /\ old = Never THEN now ELSE old
  IN  /\ Transition(trips[p.tenant][id].status, target)
      /\ trips' = [trips EXCEPT
           ![p.tenant][id].status = target,
           ![p.tenant][id].departed = Stamp(@, "in_transit"),
           ![p.tenant][id].arrived = Stamp(@, "arrived")]
      /\ UNCHANGED <<now, vehicles>>

\* Move: by anybody of the tenant, whatever stops there are.
Move(p, id, target) ==
  LET Stamp(old, at) == IF target = at THEN now ELSE old
  IN  /\ Transition(trips[p.tenant][id].status, target)
      /\ trips' = [trips EXCEPT
           ![p.tenant][id].status = target,
           ![p.tenant][id].departed = Stamp(@, "in_transit"),
           ![p.tenant][id].arrived = Stamp(@, "arrived")]
      /\ UNCHANGED <<now, vehicles>>

Tick == now < MaxNow /\ now' = now + 1 /\ UNCHANGED <<vehicles, trips>>

----------------------------------------------------------------------------
Init ==
  /\ now = 0
  /\ vehicles = [t \in Tenant |-> {}]
  /\ trips = [t \in Tenant |-> [id \in Trip |-> NoTrip]]

Next ==
  \/ \E p \in Principal, v \in Offer : AddVehicle(p, v)
  \/ \E p \in Principal, id \in Trip :
       \/ \E v \in Vehicle, d \in Time, a \in Time, s \in Preset : Plan(p, id, v, d, a, s)
       \/ \E stop \in Stop : AddStop(p, id, stop)
       \/ \E target \in {"loading", "in_transit", "arrived", "closed"} : Move(p, id, target)
  \/ Tick

----------------------------------------------------------------------------
(* Properties *)

Away == {"in_transit", "arrived", "closed"}

\* Whatever times a trip was planned with, once under way it says when it left,
\* and once there that it arrived no earlier and not in the future.
JourneyInOrder ==
  \A t \in Tenant, id \in Trip :
    LET trip == trips[t][id]
    IN  /\ trip.status \in Away => trip.departed \in 0..now
        /\ trip.status \in {"arrived", "closed"} =>
             trip.arrived \in trip.departed..now
============================================================================
