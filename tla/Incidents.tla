----------------------------- MODULE Incidents -----------------------------
(***************************************************************************)
(* Incidents and what was done about them: service/incident.go on          *)
(* internal/domain/incident.  Each operation is one lock section; incidents *)
(* are kept by id alone, so the first tenant to use an id has it.          *)
(***************************************************************************)
EXTENDS Battery

CONSTANTS
  Tenant, Principal,
  Incident,   \* ids
  MaxActions, \* bound: an incident has no more actions
  MaxNow,     \* bound: the clock stops here
  Never       \* a time that is not set

VARIABLES
  now,       \* the clock
  incidents, \* incidents[id]: status "none" without one
  actions    \* actions[id]: how many actions there are

vars == <<now, incidents, actions>>

Time == 0..MaxNow \cup {Never}
NoIncident == [status |-> "none", tenant |-> "none", closed |-> Never]

Transition(from, to) ==
  <<from, to>> \in {<<"open", "investigating">>, <<"open", "contained">>,
                    <<"investigating", "contained">>, <<"investigating", "resolved">>,
                    <<"contained", "resolved">>}

----------------------------------------------------------------------------
\* Open, of an incident as the caller made it, its closing time included.
Open(p, id, closed) ==
  /\ Can(p, "inspect")
  /\ incidents[id] = NoIncident
  /\ incidents' = [incidents EXCEPT ![id] =
       [status |-> "open", tenant |-> p.tenant, closed |-> closed]]
  /\ UNCHANGED <<now, actions>>

\* Move: by anybody of the tenant.
Move(p, id, target) ==
  /\ incidents[id].tenant = p.tenant
  /\ Transition(incidents[id].status, target)
  /\ incidents' = [incidents EXCEPT
       ![id].status = target,
       ![id].closed = IF target = "resolved" THEN now ELSE @]
  /\ UNCHANGED <<now, actions>>

\* A mutant of AddAction: it takes up every incident again.
AddActionReopens(p, id) ==
  /\ incidents[id].tenant = p.tenant
  /\ actions[id] < MaxActions
  /\ actions' = [actions EXCEPT ![id] = @ + 1]
  /\ incidents' = [incidents EXCEPT ![id].status = "investigating"]
  /\ UNCHANGED now

\* AddAction: by anybody of the tenant, to resolved incidents too; the first
\* one takes an open incident up.
AddAction(p, id) ==
  /\ incidents[id].tenant = p.tenant
  /\ actions[id] < MaxActions
  /\ actions' = [actions EXCEPT ![id] = @ + 1]
  /\ incidents' = [incidents EXCEPT ![id].status =
       IF @ = "open" THEN "investigating" ELSE @]
  /\ UNCHANGED now

Tick == now < MaxNow /\ now' = now + 1 /\ UNCHANGED <<incidents, actions>>

----------------------------------------------------------------------------
Init ==
  /\ now = 0
  /\ incidents = [id \in Incident |-> NoIncident]
  /\ actions = [id \in Incident |-> 0]

Next ==
  \/ \E p \in Principal, id \in Incident :
       \/ \E closed \in Time : Open(p, id, closed)
       \/ AddAction(p, id)
       \/ \E target \in {"investigating", "contained", "resolved"} : Move(p, id, target)
  \/ Tick

----------------------------------------------------------------------------
(* Properties *)

\* An incident is closed once: whatever closing time it was opened with, it gets
\* the one at which it is resolved, and later actions neither reopen it nor
\* close it anew.
ClosedOnce ==
  [][\A id \in Incident :
       /\ incidents[id].status # "resolved" /\ incidents'[id].status = "resolved"
            => incidents'[id].closed = now
       /\ incidents[id].status = "resolved" => incidents'[id] = incidents[id]]_vars
============================================================================
