-------------------------------- MODULE Api --------------------------------
(***************************************************************************)
(* The HTTP API (internal/httpapi/server.go) and its sessions              *)
(* (service/auth.go on the operators and sessions tables): people log in   *)
(* and out, and requests that carry a token are first authenticated and    *)
(* then, in a later step, act on lots as the principal that was found.     *)
(* Sessions expire and are revoked in between.  The operation on the lot   *)
(* is one step of Lifecycle, which LifecycleTx justifies.                  *)
(***************************************************************************)
EXTENDS Lifecycle

CONSTANTS
  Token,     \* the session tokens, random and never guessed
  Request,   \* the requests in flight at the same time
  TTL,       \* how long a session lives
  NoSession  \* no row in sessions

ASSUME TTLAssumption == TTL \in Nat

VARIABLES
  operators, \* the rows of the operators table
  session,   \* session[s]: its row, with the time left until expires_at
  rq         \* rq[r]: a request and how far it has come

apiVars == <<db, operators, session, rq>>

SessionRow == [p : Principal, left : 0..TTL, revoked : BOOLEAN]

ASSUME NoSessionAssumption == NoSession \notin SessionRow

\* The last part of the path; POST /v1/lots is "lots".
Route == {"lots", "inspection", "reserve", "dismantling", "recover",
          "certificate"}

\* late records whether the session was over when the request arrived.
Idle == [pc |-> "idle"]
Arrived == [pc : {"auth"}, token : Token, route : Route, lot : Lot,
            late : BOOLEAN]
Acting == [pc : {"act"}, token : Token, route : Route, lot : Lot,
           late : BOOLEAN, p : Principal]

----------------------------------------------------------------------------
(* Operators and sessions *)

\* Register and CreateOperator.  A second row for the same person is refused.
Register(p) ==
  /\ p.role \in {"operator", "supervisor"}
  /\ p \notin operators
  /\ operators' = operators \cup {p}
  /\ UNCHANGED <<db, session, rq>>

\* Login with the right password: FindOperator, and a session with a new token.
\* Wrong names and passwords are refused, and no statement of the program
\* disables an operator.
Login(p, s) ==
  /\ p \in operators
  /\ session[s] = NoSession
  /\ session' = [session EXCEPT ![s] = [p |-> p, left |-> TTL, revoked |-> FALSE]]
  /\ UNCHANGED <<db, operators, rq>>

\* Logout and RevokeSession: WHERE id=? AND revoked_at IS NULL.  Of any other
\* token it changes nothing and answers the same.
Logout(s) ==
  /\ session[s] # NoSession /\ ~session[s].revoked
  /\ session' = [session EXCEPT ![s].revoked = TRUE]
  /\ UNCHANGED <<db, operators, rq>>

\* A mutant of Live: now.After(t) instead of !now.Before(t).
LiveAtExpiry(s) == session[s] # NoSession /\ ~session[s].revoked

\* FindSession finds a session that is neither revoked nor expired.
Live(s) == /\ session[s] # NoSession
           /\ ~session[s].revoked
           /\ session[s].left > 0

\* Time passes.
Tick ==
  /\ session' = [s \in Token |->
       IF session[s] = NoSession \/ session[s].left = 0
         THEN session[s]
         ELSE [session[s] EXCEPT !.left = @ - 1]]
  /\ UNCHANGED <<db, operators, rq>>

----------------------------------------------------------------------------
(* Requests *)

\* The session was there once, and is over.
Over(s) == session[s] # NoSession /\ (session[s].revoked \/ session[s].left = 0)

Arrive(r, s, route, id) ==
  /\ rq[r] = Idle
  /\ rq' = [rq EXCEPT ![r] = [pc |-> "auth", token |-> s, route |-> route,
                              lot |-> id, late |-> Over(s)]]
  /\ UNCHANGED <<db, operators, session>>

\* withPrincipal: the principal of the session, or the request is answered.
Authenticate(r) ==
  LET s == rq[r].token
  IN  /\ rq[r].pc = "auth"
      /\ rq' = [rq EXCEPT ![r] =
           IF Live(s)
             THEN [pc |-> "act", token |-> s, route |-> rq[r].route,
                   lot |-> rq[r].lot, late |-> rq[r].late,
                   p |-> session[s].p]
             ELSE Idle]
      /\ UNCHANGED <<db, operators, session>>

\* intake and the switch of action: what reaches the service.  Any other route
\* is "action not found".
Handle(route, p, id) ==
  \/ /\ route = "lots"
     /\ \E code \in Code, hazard \in Hazard : Intake(p, id, code, hazard)
  \/ route = "inspection" /\ \E result \in Result : Inspect(p, id, result)
  \/ route = "reserve" /\ Reserve(p, id)
  \/ route = "dismantling" /\ BeginDismantling(p, id)
  \/ /\ route = "recover"
     /\ \E grams \in Weights, key \in KeyOrNone : Recover(p, id, grams, key)

\* The handler runs and the operation succeeds.
Serve(r) ==
  /\ rq[r].pc = "act"
  /\ Handle(rq[r].route, rq[r].p, rq[r].lot)
  /\ rq' = [rq EXCEPT ![r] = Idle]
  /\ UNCHANGED <<operators, session>>

\* The handler runs and answers with an error: the body does not decode, the
\* action is unknown, the service refuses, or the database fails.
Refuse(r) ==
  /\ rq[r].pc = "act"
  /\ rq' = [rq EXCEPT ![r] = Idle]
  /\ UNCHANGED <<db, operators, session>>

----------------------------------------------------------------------------
ApiInit ==
  /\ Init
  /\ operators = {}
  /\ session = [s \in Token |-> NoSession]
  /\ rq = [r \in Request |-> Idle]

ApiNext ==
  \/ \E p \in Principal : Register(p)
  \/ \E p \in Principal, s \in Token : Login(p, s)
  \/ \E s \in Token : Logout(s)
  \/ \E r \in Request :
       \/ \E s \in Token, route \in Route, id \in Lot : Arrive(r, s, route, id)
       \/ Authenticate(r) \/ Serve(r) \/ Refuse(r)
  \/ Tick

ApiSpec == ApiInit /\ [][ApiNext]_apiVars

----------------------------------------------------------------------------
(* Properties *)

\* Shapes, and who acts: the person whose session the token is.
ApiTypeOK ==
  /\ operators \subseteq Principal
  /\ session \in [Token -> SessionRow \cup {NoSession}]
  /\ \A r \in Request :
       \/ rq[r] = Idle
       \/ rq[r] \in Arrived
       \/ rq[r] \in Acting /\ session[rq[r].token].p = rq[r].p

\* Logging out, and running out, are final: a request that arrives afterwards
\* never gets to act.
OverIsOver == \A r \in Request : rq[r].pc = "act" => ~rq[r].late

============================================================================
