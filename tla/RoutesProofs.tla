---------------------------- MODULE RoutesProofs ----------------------------
(***************************************************************************)
(* That the store only ever has a past of what the planner has, for any    *)
(* number of routes, stops and operations whose saves overtake each other. *)
(* The planner's routes only grow, and what is on its way to the store is  *)
(* a past of them as much as what has got there.                           *)
(* And that no copy of a route has its vehicle overloaded.  The sum of the *)
(* weights is followed through the recursive function of MapThenSumSet,    *)
(* by induction in the form that of the subsets that would not do there    *)
(* is a least one (LeastSubset).                                           *)
(***************************************************************************)
EXTENDS Routes, FiniteSetTheorems, TLAPS

\* A route, with versions and totals that are not counted.
Shape == [tenant : Tenant, vehicle : Vehicle, stops : SUBSET Stop,
          status : Status, totalWeight : Int, maxHazard : Int, version : Nat]

\* Route r may have become s.
Past(r, s) == /\ s # NoRoute
              /\ r.version <= s.version
              /\ r.stops \subseteq s.stops
              /\ r.tenant = s.tenant

Saving == [pc : {"save"}, id : Route, copy : Shape]

RInv ==
  /\ routes \in [Route -> Shape \cup {NoRoute}]
  /\ store \in [Route -> Shape \cup {NoRoute}]
  /\ op \in [Op -> {Idle} \cup Saving]
  /\ \A id \in Route : store[id] # NoRoute => Past(store[id], routes[id])
  /\ \A o \in Op : op[o] # Idle => Past(op[o].copy, routes[op[o].id])

----------------------------------------------------------------------------
\* The record of a stop added is a route, which has the old one as its past.
LEMMA AddStopGrows ==
  ASSUME NEW r \in Shape, NEW s \in Stop, AddStop(r, s) # NoRoute
  PROVE  AddStop(r, s) \in Shape /\ Past(r, AddStop(r, s))
PROOF
<1> DEFINE w == r.totalWeight + s.weight
           h == IF s.hazard > r.maxHazard THEN s.hazard ELSE r.maxHazard
           t == [r EXCEPT !.stops = r.stops \cup {s}, !.totalWeight = w,
                          !.maxHazard = h]
<1>1. w \in Int /\ h \in Int
  BY StopAssumption DEF Shape
<1>2. r.stops \cup {s} \in SUBSET Stop
  BY DEF Shape
<1>3. AddStop(r, s) = t
  BY DEF AddStop
<1> HIDE DEF w, h
<1>4. /\ t \in Shape /\ t.version = r.version
      /\ t.stops = r.stops \cup {s} /\ t.tenant = r.tenant
  BY <1>1, <1>2 DEF Shape
<1>5. r.version \in Nat
  BY DEF Shape
<1> HIDE DEF t
<1>6. QED BY <1>3, <1>4, <1>5 DEF Past

\* So does a route that is moved on.
LEMMA TransitionGrows ==
  ASSUME NEW r \in Shape, NEW next \in Status, Transition(r, next) # NoRoute
  PROVE  Transition(r, next) \in Shape /\ Past(r, Transition(r, next))
PROOF
<1> DEFINE k == r.version + 1
           t == [r EXCEPT !.status = next, !.version = k]
<1>1. k \in Nat /\ r.version <= k
  BY DEF Shape
<1>2. Transition(r, next) = t
  BY DEF Transition
<1> HIDE DEF k
<1>3. t \in Shape /\ t.version = k /\ t.stops = r.stops /\ t.tenant = r.tenant
  BY <1>1 DEF Shape
<1> HIDE DEF t
<1>4. QED BY <1>1, <1>2, <1>3 DEF Past

\* The past of a past is a past.
LEMMA PastTransitive ==
  ASSUME NEW q \in Shape, NEW r \in Shape, NEW s \in Shape, Past(q, r), Past(r, s)
  PROVE  Past(q, s)
  BY DEF Past, Shape

\* Initially there are no routes.
LEMMA RInvInit == Init => RInv
  BY DEF Init, RInv

\* When the planner has done something that grows out of the route it had, if
\* any, all that was on its way or in the store is a past of the result.
LEMMA PlannedKeeps ==
  ASSUME RInv, NEW o \in Op, NEW id \in Route, NEW r \in Shape,
         routes[id] # NoRoute => Past(routes[id], r), Planned(o, id, r)
  PROVE  RInv'
PROOF
<1> DEFINE save == [pc |-> "save", id |-> id, copy |-> r]
<1>1. save \in Saving /\ save.copy = r /\ save.id = id
  BY DEF Saving
<1>2. /\ r # NoRoute /\ routes' = [routes EXCEPT ![id] = r]
      /\ op' = [op EXCEPT ![o] = save] /\ store' = store
  BY DEF Planned
<1> HIDE DEF save
<1>3. Past(r, r)
  BY <1>2 DEF Past, Shape
<1>4. \A q \in Shape, i \in Route : Past(q, routes[i]) => Past(q, routes'[i])
  <2>1. SUFFICES ASSUME NEW q \in Shape, Past(q, routes[id]) PROVE Past(q, r)
    BY <1>2 DEF RInv
  <2>2. routes[id] \in Shape /\ Past(routes[id], r)
    BY <2>1 DEF Past, RInv
  <2>3. QED BY <2>1, <2>2, PastTransitive
<1>5. \A i \in Route : store'[i] # NoRoute => Past(store'[i], routes'[i])
  BY <1>2, <1>4 DEF RInv
<1>6. \A x \in Op : op'[x] # Idle => Past(op'[x].copy, routes'[op'[x].id])
  <2>1. SUFFICES ASSUME NEW x \in Op, op'[x] # Idle
                 PROVE  Past(op'[x].copy, routes'[op'[x].id])
    OBVIOUS
  <2>2. CASE x = o
    BY <1>1, <1>2, <1>3, <2>2 DEF RInv
  <2>3. CASE x # o
    <3>1. op'[x] = op[x] /\ op[x] \in Saving
      BY <1>2, <2>1, <2>3 DEF RInv
    <3>2. op[x].copy \in Shape /\ op[x].id \in Route
      BY <3>1 DEF Saving
    <3>3. QED BY <1>4, <2>1, <3>1, <3>2 DEF RInv
  <2>4. QED BY <2>2, <2>3
<1>7. QED BY <1>1, <1>2, <1>5, <1>6 DEF RInv

\* Every step keeps the invariant.
LEMMA RInvStep == RInv /\ [Next]_vars => RInv'
PROOF
<1>1. SUFFICES ASSUME RInv, [Next]_vars PROVE RInv'
  OBVIOUS
<1>2. ASSUME NEW o \in Op, NEW p \in Principal, NEW id \in Route, NEW v \in Vehicle,
             Plan(o, p, id, v)
      PROVE  RInv'
  <2>1. NewRoute(p.tenant, v) \in Shape
    BY PrincipalAssumption DEF NewRoute, Shape, Status
  <2>2. QED BY <1>1, <1>2, <2>1, PlannedKeeps DEF Plan
<1>3. ASSUME NEW o \in Op, NEW p \in Principal, NEW id \in Route, NEW s \in Stop,
             ServeAddStop(o, p, id, s)
      PROVE  RInv'
  <2>1. routes[id] \in Shape /\ AddStop(routes[id], s) # NoRoute
    BY <1>1, <1>3 DEF RInv, ServeAddStop, Planned
  <2>2. QED BY <1>1, <1>3, <2>1, AddStopGrows, PlannedKeeps DEF ServeAddStop
<1>4. ASSUME NEW o \in Op, NEW p \in Principal, NEW id \in Route, NEW next \in Status,
             Advance(o, p, id, next)
      PROVE  RInv'
  <2>1. routes[id] \in Shape /\ Transition(routes[id], next) # NoRoute
    BY <1>1, <1>4 DEF RInv, Advance, Planned
  <2>2. QED BY <1>1, <1>4, <2>1, TransitionGrows, PlannedKeeps DEF Advance
<1>5. ASSUME NEW o \in Op, Save(o) PROVE RInv'
  <2>1. op[o] \in Saving /\ op[o].id \in Route /\ op[o].copy \in Shape
    BY <1>1, <1>5 DEF RInv, Save, Saving
  <2>2. Past(op[o].copy, routes[op[o].id])
    BY <1>1, <1>5 DEF RInv, Save
  <2>3. QED BY <1>1, <1>5, <2>1, <2>2 DEF RInv, Save
<1>6. ASSUME NEW o \in Op, SaveFails(o) PROVE RInv'
  BY <1>1, <1>6 DEF RInv, SaveFails
<1>7. CASE UNCHANGED vars
  BY <1>1, <1>7 DEF RInv, vars
<1>8. QED BY <1>1, <1>2, <1>3, <1>4, <1>5, <1>6, <1>7 DEF Next

\* However late and in whatever order results reach the store, and whichever of
\* them fail to, the store never has what the planner did not do.
THEOREM StoreLagsBehind == Spec => []StoreIsPast
PROOF
<1>1. RInv => StoreIsPast
  BY DEF RInv, StoreIsPast, Past
<1>2. QED BY RInvInit, RInvStep, <1>1, PTL DEF Spec

----------------------------------------------------------------------------
(* What a set of stops weighs *)

\* The function that MapThenSumSet computes a sum with: what each subset weighs.
Weighs(g, S) ==
  g = [T \in SUBSET S |->
         IF T = {} THEN 0
         ELSE LET x == CHOOSE x \in T : TRUE IN x.weight + g[T \ {x}]]

\* Induction: of the subsets with some property there is a least.
LEMMA LeastSubset ==
  ASSUME NEW S, IsFiniteSet(S), NEW W, W \subseteq SUBSET S, W # {}
  PROVE  \E T \in W : \A U \in W : U \subseteq T => U = T
PROOF
<1>1. W \subseteq FiniteSubsetsOf(S)
  BY FS_Subset DEF FiniteSubsetsOf
<1>2. PICK T \in W : \A U \in W : ~(<<U, T>> \in StrictSubsetOrdering(S))
  BY <1>1, FS_StrictSubsetOrderingWellFounded, WFMin
<1>3. QED BY <1>2 DEF StrictSubsetOrdering

\* The stop that is taken out first.
First(T) == CHOOSE x \in T : TRUE

\* The equation of such a function, for a set that is not empty.
LEMMA WeighsFirst ==
  ASSUME NEW g, NEW S, Weighs(g, S), NEW T \in SUBSET S, T # {}
  PROVE  First(T) \in T /\ g[T] = First(T).weight + g[T \ {First(T)}]
BY DEF Weighs, First

\* And for the empty one.
LEMMA WeighsNothing ==
  ASSUME NEW g, NEW S, Weighs(g, S)
  PROVE  g[{}] = 0
BY DEF Weighs

\* Two of them agree on what is a subset for both.
LEMMA WeighsAgree ==
  ASSUME NEW g, NEW S, Weighs(g, S), NEW h, NEW R, Weighs(h, R),
         NEW T, IsFiniteSet(T), T \subseteq S, T \subseteq R
  PROVE  g[T] = h[T]
PROOF
<1> DEFINE W == {U \in SUBSET T : g[U] # h[U]}
<1>1. SUFFICES ASSUME W # {} PROVE FALSE
  OBVIOUS
<1>2. PICK U \in W : \A V \in W : V \subseteq U => V = U
  <2>1. W \subseteq SUBSET T
    OBVIOUS
  <2> HIDE DEF W
  <2>2. QED BY <1>1, <2>1, LeastSubset
<1>3. U \in SUBSET T /\ g[U] # h[U] /\ U # {}
  BY <1>2, WeighsNothing
<1> DEFINE x == First(U)
<1>4. /\ x \in U /\ g[U] = x.weight + g[U \ {x}]
      /\ h[U] = x.weight + h[U \ {x}]
  BY <1>3, WeighsFirst
<1> HIDE DEF x
<1>5. U \ {x} \notin W
  BY <1>2, <1>4
<1>6. QED BY <1>3, <1>4, <1>5

\* Weights are integers.
LEMMA WeighsInt ==
  ASSUME NEW S \in SUBSET Stop, IsFiniteSet(S), NEW g, Weighs(g, S),
         NEW T \in SUBSET S
  PROVE  g[T] \in Int
PROOF
<1> DEFINE W == {U \in SUBSET S : g[U] \notin Int}
<1>1. SUFFICES ASSUME W # {} PROVE FALSE
  OBVIOUS
<1>2. PICK U \in W : \A V \in W : V \subseteq U => V = U
  <2>1. W \subseteq SUBSET S
    OBVIOUS
  <2> HIDE DEF W
  <2>2. QED BY <1>1, <2>1, LeastSubset
<1>3. U \in SUBSET S /\ g[U] \notin Int /\ U # {}
  <2>1. g[{}] \in Int
    BY WeighsNothing
  <2>2. U \in SUBSET S /\ g[U] \notin Int
    BY <1>2
  <2>3. QED BY <2>1, <2>2
<1> DEFINE x == First(U)
<1>4. x \in U /\ g[U] = x.weight + g[U \ {x}]
  BY <1>3, WeighsFirst
<1> HIDE DEF x
<1>5. U \ {x} \notin W
  BY <1>2, <1>4
<1>6. g[U \ {x}] \in Int /\ x.weight \in Int
  BY <1>3, <1>5, StopAssumption
<1>7. QED BY <1>3, <1>4, <1>6

\* Whichever stop is taken out first, the sum is the same.
LEMMA WeighsAny ==
  ASSUME NEW S \in SUBSET Stop, IsFiniteSet(S), NEW g, Weighs(g, S),
         NEW T \in SUBSET S, NEW y \in T
  PROVE  g[T] = y.weight + g[T \ {y}]
PROOF
<1> DEFINE W == {U \in SUBSET S : \E z \in U : g[U] # z.weight + g[U \ {z}]}
<1>1. SUFFICES ASSUME W # {} PROVE FALSE
  OBVIOUS
<1>2. PICK U \in W : \A V \in W : V \subseteq U => V = U
  <2>1. W \subseteq SUBSET S
    OBVIOUS
  <2> HIDE DEF W
  <2>2. QED BY <1>1, <2>1, LeastSubset
<1>3. PICK z \in U : g[U] # z.weight + g[U \ {z}]
  BY <1>2
<1> DEFINE x == First(U)
<1>4. x \in U /\ g[U] = x.weight + g[U \ {x}]
  BY <1>2, <1>3, WeighsFirst
<1> HIDE DEF x
<1>5. x # z
  BY <1>3, <1>4
<1>6. U \ {x} \notin W /\ U \ {z} \notin W
  BY <1>2, <1>3, <1>4
<1>7. /\ g[U \ {x}] = z.weight + g[(U \ {x}) \ {z}]
      /\ g[U \ {z}] = x.weight + g[(U \ {z}) \ {x}]
  <2>1. \A V \in SUBSET S : V \notin W => \A v \in V : g[V] = v.weight + g[V \ {v}]
    OBVIOUS
  <2>2. U \ {x} \in SUBSET S /\ U \ {z} \in SUBSET S /\ z \in U \ {x} /\ x \in U \ {z}
    BY <1>2, <1>4, <1>5
  <2> HIDE DEF W
  <2>3. QED BY <1>6, <2>1, <2>2
<1> DEFINE rest == g[(U \ {x}) \ {z}]
<1>8. g[U \ {x}] = z.weight + rest /\ g[U \ {z}] = x.weight + rest
  <2>1. (U \ {x}) \ {z} = (U \ {z}) \ {x}
    OBVIOUS
  <2>2. QED BY <1>7, <2>1
<1>9. rest \in Int /\ x.weight \in Int /\ z.weight \in Int
  <2>1. U \in SUBSET S /\ (U \ {x}) \ {z} \in SUBSET S
    BY <1>2
  <2>2. rest \in Int
    BY <2>1, WeighsInt
  <2>3. x \in Stop /\ z \in Stop
    BY <1>4, <2>1
  <2>4. QED BY <2>2, <2>3, StopAssumption
<1> HIDE DEF rest
<1>10. QED BY <1>3, <1>4, <1>8, <1>9

\* There is such a function for every finite set.
LEMMA WeighsExists ==
  ASSUME NEW S, IsFiniteSet(S)
  PROVE  \E g : Weighs(g, S)
PROOF
<1> DEFINE W == {T \in SUBSET S : ~\E g : Weighs(g, T)}
<1>1. SUFFICES ASSUME W # {} PROVE FALSE
  OBVIOUS
<1>2. PICK T \in W : \A U \in W : U \subseteq T => U = T
  <2>1. W \subseteq SUBSET S
    OBVIOUS
  <2> HIDE DEF W
  <2>2. QED BY <1>1, <2>1, LeastSubset
<1> DEFINE G(U) == CHOOSE g : Weighs(g, U)
           Rest(U) == U \ {First(U)}
<1>3. \A U \in SUBSET T : U # T => Weighs(G(U), U)
  BY <1>2
<1>4. T \in SUBSET S /\ ~\E g : Weighs(g, T)
  BY <1>2
<1>5. \A U \in SUBSET T : IsFiniteSet(U)
  BY <1>4, FS_Subset
<1> HIDE DEF W, G
<1> DEFINE g == [U \in SUBSET T |->
                   IF U = {} THEN 0 ELSE First(U).weight + G(Rest(U))[Rest(U)]]
<1>6. \A U \in SUBSET T : U # {} => First(U) \in U /\ Rest(U) \in SUBSET U /\ Rest(U) # U
  BY DEF First
<1>7. ASSUME NEW V \in SUBSET T, V # T PROVE g[V] = G(V)[V]
  <2>1. Weighs(G(V), V)
    BY <1>3, <1>7
  <2>2. CASE V = {}
    BY <2>1, <2>2, WeighsNothing
  <2>3. CASE V # {}
    <3> DEFINE R == Rest(V)
    <3>1. R \in SUBSET V /\ R # T /\ R \in SUBSET T /\ IsFiniteSet(R)
      BY <1>5, <1>6, <1>7, <2>3
    <3>2. G(V)[V] = First(V).weight + G(V)[R]
      BY <2>1, <2>3, WeighsFirst
    <3>3. Weighs(G(R), R)
      BY <1>3, <3>1
    <3> HIDE DEF R
    <3>4. G(V)[R] = G(R)[R]
      BY <2>1, <3>1, <3>3, WeighsAgree
    <3>5. QED BY <2>3, <3>2, <3>4 DEF R
  <2>4. QED BY <2>2, <2>3
<1>8. \A U \in SUBSET T : U # {} => g[U] = First(U).weight + g[Rest(U)]
  <2>1. SUFFICES ASSUME NEW U \in SUBSET T, U # {}
                 PROVE  g[U] = First(U).weight + g[Rest(U)]
    OBVIOUS
  <2>2. Rest(U) \in SUBSET T /\ Rest(U) # T
    BY <1>6, <2>1
  <2>3. g[Rest(U)] = G(Rest(U))[Rest(U)]
    BY <1>7, <2>2
  <2>4. QED BY <2>1, <2>3
<1>9. g = [U \in SUBSET T |-> g[U]] /\ g[{}] = 0
  OBVIOUS
<1> HIDE DEF g
<1>10. Weighs(g, T)
  BY <1>8, <1>9 DEF Weighs, First
<1>11. QED BY <1>4, <1>10

\* The sum LoadWithinLimits speaks of.
Weight(S) == MapThenSumSet(LAMBDA s : s.weight, S)

\* So the operator computes what such functions say.
LEMMA WeightIs ==
  ASSUME NEW S, IsFiniteSet(S)
  PROVE  \E g : Weighs(g, S) /\ Weight(S) = g[S]
PROOF
<1>1. PICK g : Weighs(g, S)
  BY WeighsExists
<1>2. QED BY <1>1 DEF Weight, MapThenSumSet, MapThenFoldSet, Weighs

\* A stop more adds its own weight.
LEMMA WeightGrows ==
  ASSUME NEW S \in SUBSET Stop, IsFiniteSet(S), NEW s \in Stop \ S
  PROVE  Weight(S \cup {s}) = Weight(S) + s.weight
PROOF
<1> DEFINE R == S \cup {s}
<1>1. R \in SUBSET Stop /\ IsFiniteSet(R) /\ s \in R /\ R \ {s} = S /\ S \in SUBSET R
  BY FS_AddElement
<1> HIDE DEF R
<1>2. PICK g : Weighs(g, S) /\ Weight(S) = g[S]
  BY WeightIs
<1>3. PICK h : Weighs(h, R) /\ Weight(R) = h[R]
  BY <1>1, WeightIs
<1>4. h[R] = s.weight + h[S]
  BY <1>1, <1>3, WeighsAny
<1>5. h[S] = g[S] /\ h[S] \in Int
  BY <1>1, <1>2, <1>3, WeighsAgree, WeighsInt
<1>6. QED BY <1>2, <1>3, <1>4, <1>5, StopAssumption DEF R

\* Nothing weighs nothing.
LEMMA WeightNothing == Weight({}) = 0
BY WeightIs, WeighsNothing, FS_EmptySet

----------------------------------------------------------------------------
(* Loads *)

\* A route as LoadWithinLimits wants it, with stops that can be added up.
Loaded(r) ==
  /\ IsFiniteSet(r.stops)
  /\ r.totalWeight = Weight(r.stops)
  /\ r.totalWeight <= r.vehicle.capacity
  /\ \A s \in r.stops : s.hazard <= r.maxHazard
  /\ r.maxHazard <= r.vehicle.hazardLimit

LInv ==
  /\ RInv
  /\ \A id \in Route : routes[id] # NoRoute => Loaded(routes[id])
  /\ \A id \in Route : store[id] # NoRoute => Loaded(store[id])
  /\ \A o \in Op : op[o] # Idle => Loaded(op[o].copy)

\* An empty vehicle is within its limits.
LEMMA NewRouteLoaded ==
  ASSUME NEW t, NEW v \in Vehicle
  PROVE  Loaded(NewRoute(t, v))
BY WeightNothing, FS_EmptySet, VehicleAssumption DEF NewRoute, Loaded

\* A stop is added to the total, and only if the vehicle takes that.
LEMMA AddStopLoaded ==
  ASSUME NEW r \in Shape, Loaded(r), NEW s \in Stop, AddStop(r, s) # NoRoute
  PROVE  Loaded(AddStop(r, s))
PROOF
<1> DEFINE w == r.totalWeight + s.weight
           h == IF s.hazard > r.maxHazard THEN s.hazard ELSE r.maxHazard
           t == [r EXCEPT !.stops = r.stops \cup {s}, !.totalWeight = w,
                          !.maxHazard = h]
<1>1. AddStop(r, s) = t /\ Fits(r, s) /\ s \notin r.stops
  BY DEF AddStop, Assigned
<1>2. /\ r.stops \in SUBSET Stop /\ r.vehicle \in Vehicle
      /\ r.totalWeight \in Int /\ r.maxHazard \in Int
  BY DEF Shape
<1>3. /\ w <= r.vehicle.capacity /\ h <= r.vehicle.hazardLimit
      /\ s.hazard <= h /\ r.maxHazard <= h /\ h \in Int
  BY <1>1, <1>2, StopAssumption, VehicleAssumption DEF Fits, Loaded
<1>4. w = Weight(r.stops \cup {s}) /\ IsFiniteSet(r.stops \cup {s})
  BY <1>1, <1>2, WeightGrows, FS_AddElement DEF Loaded
<1>5. \A x \in r.stops : x.hazard <= h
  BY <1>2, <1>3, StopAssumption DEF Loaded
<1> HIDE DEF w, h
<1>6. /\ t.stops = r.stops \cup {s} /\ t.totalWeight = w /\ t.maxHazard = h
      /\ t.vehicle = r.vehicle
  BY DEF Shape
<1> HIDE DEF t
<1>7. QED BY <1>1, <1>3, <1>4, <1>5, <1>6 DEF Loaded

\* A transition leaves the load alone.
LEMMA TransitionLoaded ==
  ASSUME NEW r \in Shape, Loaded(r), NEW next \in Status, Transition(r, next) # NoRoute
  PROVE  Loaded(Transition(r, next))
PROOF
<1> DEFINE k == r.version + 1
           t == [r EXCEPT !.status = next, !.version = k]
<1>1. Transition(r, next) = t
  BY DEF Transition
<1> HIDE DEF k
<1>2. /\ t.stops = r.stops /\ t.totalWeight = r.totalWeight
      /\ t.maxHazard = r.maxHazard /\ t.vehicle = r.vehicle
  BY DEF Shape
<1> HIDE DEF t
<1>3. QED BY <1>1, <1>2 DEF Loaded

\* What the planner makes of a route is loaded as it should be wherever it goes.
LEMMA PlannedLoaded ==
  ASSUME LInv, NEW o \in Op, NEW id \in Route, NEW r, Loaded(r), Planned(o, id, r)
  PROVE  /\ \A i \in Route : routes'[i] # NoRoute => Loaded(routes'[i])
         /\ \A i \in Route : store'[i] # NoRoute => Loaded(store'[i])
         /\ \A q \in Op : op'[q] # Idle => Loaded(op'[q].copy)
PROOF
<1> DEFINE save == [pc |-> "save", id |-> id, copy |-> r]
<1>1. save.copy = r
  OBVIOUS
<1>2. /\ routes' = [routes EXCEPT ![id] = r] /\ store' = store
      /\ op' = [op EXCEPT ![o] = save]
  BY DEF Planned
<1> HIDE DEF save
<1>3. QED BY <1>1, <1>2 DEF LInv, RInv

\* Every step keeps all copies within the limits.
LEMMA LInvStep == LInv /\ [Next]_vars => LInv'
PROOF
<1> SUFFICES ASSUME LInv, [Next]_vars PROVE LInv'
  OBVIOUS
<1>1. RInv /\ RInv'
  BY RInvStep DEF LInv
<1>2. ASSUME NEW o \in Op, NEW p \in Principal, NEW id \in Route, NEW v \in Vehicle,
             Plan(o, p, id, v)
      PROVE  LInv'
  BY <1>1, <1>2, NewRouteLoaded, PlannedLoaded DEF Plan, LInv
<1>3. ASSUME NEW o \in Op, NEW p \in Principal, NEW id \in Route, NEW s \in Stop,
             ServeAddStop(o, p, id, s)
      PROVE  LInv'
  <2>1. routes[id] \in Shape /\ Loaded(routes[id]) /\ AddStop(routes[id], s) # NoRoute
    BY <1>1, <1>3 DEF LInv, RInv, ServeAddStop, Planned
  <2>2. QED BY <1>1, <1>3, <2>1, AddStopLoaded, PlannedLoaded DEF ServeAddStop, LInv
<1>4. ASSUME NEW o \in Op, NEW p \in Principal, NEW id \in Route, NEW next \in Status,
             Advance(o, p, id, next)
      PROVE  LInv'
  <2>1. routes[id] \in Shape /\ Loaded(routes[id]) /\ Transition(routes[id], next) # NoRoute
    BY <1>1, <1>4 DEF LInv, RInv, Advance, Planned
  <2>2. QED BY <1>1, <1>4, <2>1, TransitionLoaded, PlannedLoaded DEF Advance, LInv
<1>5. ASSUME NEW o \in Op, Save(o) PROVE LInv'
  BY <1>1, <1>5 DEF LInv, RInv, Save
<1>6. ASSUME NEW o \in Op, SaveFails(o) PROVE LInv'
  BY <1>1, <1>6 DEF LInv, RInv, SaveFails
<1>7. CASE UNCHANGED vars
  BY <1>1, <1>7 DEF LInv, vars
<1>8. QED BY <1>2, <1>3, <1>4, <1>5, <1>6, <1>7 DEF Next

\* No vehicle is overloaded or carries what it must not, by what the planner has,
\* what the store has, or what is on its way there.
THEOREM NeverOverloaded == Spec => []LoadWithinLimits
PROOF
<1>1. LInv => LoadWithinLimits
  BY DEF LInv, Loaded, Weight, LoadWithinLimits, Copies
<1>2. Init => LInv
  BY RInvInit DEF Init, LInv
<1>3. QED BY <1>1, <1>2, LInvStep, PTL DEF Spec
=============================================================================
