------------------------------- MODULE Routes -------------------------------
(***************************************************************************)
(* Transport routes: the planner of internal/domain/dispatch, whose every  *)
(* operation is one lock section, and RouteService of                      *)
(* service/reconciliation.go, which saves the route the planner returned   *)
(* to the store afterwards, outside the lock.  Operations therefore reach  *)
(* the store in another order than the planner, or not at all.             *)
(***************************************************************************)
EXTENDS Battery, FiniteSets, FiniteSetsExt

CONSTANTS
  Route,     \* the route ids
  Tenant,    \* the tenants
  Principal, \* the people: a tenant and a role each
  Vehicle,   \* the vehicles of the planner: capacity and hazard limit
  Stop,      \* the stops people add: stop id, lot, hazard and weight
  Op,        \* the operations in flight at the same time
  NoRoute    \* no route

ASSUME PrincipalAssumption ==
  \A p \in Principal : p.tenant \in Tenant /\ p.role \in STRING
\* Vehicle.Validate, checked by NewPlanner.
ASSUME VehicleAssumption ==
  \A v \in Vehicle : v.capacity \in Nat \ {0} /\ v.hazardLimit \in Nat
ASSUME StopAssumption == \A s \in Stop : s.weight \in Int /\ s.hazard \in Int

Status == {"planned", "loading", "en_route", "delivered"}

RouteRow == [tenant : Tenant, vehicle : Vehicle, stops : SUBSET Stop,
             status : Status, totalWeight : Nat, maxHazard : Nat, version : 1..4]

ASSUME NoRouteAssumption == NoRoute \notin RouteRow

----------------------------------------------------------------------------
(* Routes *)

\* Stop.Validate: hazard from zero to ten, and a positive weight.
StopValid(s) == s.hazard \in 0..10 /\ s.weight > 0

NewRoute(tenant, v) ==
  [tenant |-> tenant, vehicle |-> v, stops |-> {}, status |-> "planned",
   totalWeight |-> 0, maxHazard |-> 0, version |-> 1]

CanAdd(r) == r.status \in {"planned", "loading"}

\* A mutant of Fits: the stop is compared alone.
FitsAlone(r, s) ==
  s.weight <= r.vehicle.capacity /\ s.hazard <= r.vehicle.hazardLimit

\* The vehicle carries the stop on top of what it has.
Fits(r, s) == /\ r.totalWeight + s.weight <= r.vehicle.capacity
              /\ s.hazard <= r.vehicle.hazardLimit

Assigned(r, s) == \E old \in r.stops : old.id = s.id \/ old.lot = s.lot

\* Route.AddStop; NoRoute is an error.  The version is left alone.
AddStop(r, s) ==
  IF CanAdd(r) /\ StopValid(s) /\ Fits(r, s) /\ ~Assigned(r, s)
    THEN [r EXCEPT !.stops = @ \cup {s}, !.totalWeight = @ + s.weight,
                   !.maxHazard = IF s.hazard > @ THEN s.hazard ELSE @]
    ELSE NoRoute

\* Planner.Transition: StartLoading, Depart, Deliver.  Nothing else is
\* supported; Route.Cancel is not reachable through the planner.
Transition(r, next) ==
  LET ready == CASE next = "loading"   -> r.status = "planned" /\ r.stops # {}
                 [] next = "en_route"  -> r.status = "loading"
                 [] next = "delivered" -> r.status = "en_route"
                 [] OTHER              -> FALSE
  IN  IF ready THEN [r EXCEPT !.status = next, !.version = @ + 1] ELSE NoRoute

----------------------------------------------------------------------------
(* The planner and the service *)

VARIABLES
  routes,  \* routes[id]: the route the planner has
  store,   \* store[id]: the route the store has
  op       \* op[o]: a route on its way to the store

vars == <<routes, store, op>>

Idle == [pc |-> "idle"]

\* The planner has done its part of an operation; its result r is to be saved.
Planned(o, id, r) ==
  /\ r # NoRoute
  /\ routes' = [routes EXCEPT ![id] = r]
  /\ op' = [op EXCEPT ![o] = [pc |-> "save", id |-> id, copy |-> r]]
  /\ UNCHANGED store

\* A mutant of Plan: a route that exists is planned again.
PlanAgain(o, p, id, v) ==
  /\ op[o] = Idle
  /\ Can(p, "reserve")
  /\ Planned(o, id, NewRoute(p.tenant, v))

\* RouteService.Plan and Planner.Create: an id is used once, whoever asks.
Plan(o, p, id, v) ==
  /\ op[o] = Idle
  /\ Can(p, "reserve")
  /\ routes[id] = NoRoute
  /\ Planned(o, id, NewRoute(p.tenant, v))

\* RouteService.AddStop and Planner.AddStop.  Refusals change nothing.
ServeAddStop(o, p, id, s) ==
  /\ op[o] = Idle
  /\ Can(p, "reserve")
  /\ routes[id] # NoRoute
  /\ Planned(o, id, AddStop(routes[id], s))

\* RouteService.Advance and Planner.Transition.
Advance(o, p, id, next) ==
  /\ op[o] = Idle
  /\ Can(p, "reserve")
  /\ routes[id] # NoRoute
  /\ Planned(o, id, Transition(routes[id], next))

\* SaveRoute: the store keeps the last route it is given.
Save(o) ==
  /\ op[o] # Idle
  /\ store' = [store EXCEPT ![op[o].id] = op[o].copy]
  /\ op' = [op EXCEPT ![o] = Idle]
  /\ UNCHANGED routes

\* SaveRoute fails.  The caller gets an error, the planner keeps the change.
SaveFails(o) ==
  /\ op[o] # Idle
  /\ op' = [op EXCEPT ![o] = Idle]
  /\ UNCHANGED <<routes, store>>

----------------------------------------------------------------------------
Init ==
  /\ routes = [id \in Route |-> NoRoute]
  /\ store = [id \in Route |-> NoRoute]
  /\ op = [o \in Op |-> Idle]

Next ==
  \E o \in Op :
    \/ \E p \in Principal, id \in Route :
         \/ \E v \in Vehicle : Plan(o, p, id, v)
         \/ \E s \in Stop : ServeAddStop(o, p, id, s)
         \/ \E next \in Status : Advance(o, p, id, next)
    \/ Save(o) \/ SaveFails(o)

Spec == Init /\ [][Next]_vars

----------------------------------------------------------------------------
(* Properties *)

\* Shapes.
TypeOK ==
  /\ routes \in [Route -> RouteRow \cup {NoRoute}]
  /\ store \in [Route -> RouteRow \cup {NoRoute}]
  /\ \A o \in Op : op[o] = Idle
                   \/ op[o] \in [pc : {"save"}, id : Route, copy : RouteRow]

Copies == ({routes[id] : id \in Route} \cup {store[id] : id \in Route}
             \cup {op[o].copy : o \in {x \in Op : op[x] # Idle}}) \ {NoRoute}

\* No vehicle is ever overloaded or carries what it must not, by any copy of a
\* route: the totals are those of the stops, and within the vehicle's limits.
LoadWithinLimits ==
  \A r \in Copies :
    /\ r.totalWeight = MapThenSumSet(LAMBDA s : s.weight, r.stops)
    /\ r.totalWeight <= r.vehicle.capacity
    /\ \A s \in r.stops : s.hazard <= r.maxHazard
    /\ r.maxHazard <= r.vehicle.hazardLimit

\* However late and in whatever order results reach the store, it never has
\* something the planner did not do: it has a past of the planner's route.
StoreIsPast ==
  \A id \in Route : store[id] # NoRoute =>
    /\ routes[id] # NoRoute
    /\ store[id].version <= routes[id].version
    /\ store[id].stops \subseteq routes[id].stops
    /\ store[id].tenant = routes[id].tenant

=============================================================================
