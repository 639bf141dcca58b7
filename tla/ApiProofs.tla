----------------------------- MODULE ApiProofs -----------------------------
(***************************************************************************)
(* That a session which is over admits nobody any more, for any number of  *)
(* sessions, requests and people.  It is an invariant of what is done with *)
(* sessions alone: what a request does to the lots does not matter.        *)
(***************************************************************************)
EXTENDS Api, TLAPS

\* Sessions and requests are rows of their schema; what is in the field of
\* another program counter is not looked at.
ApiShape ==
  /\ session \in [Token -> SessionRow \cup {NoSession}]
  /\ rq \in [Request -> {Idle} \cup Arrived \cup Acting]

\* A request that arrived late waits with a session that is over.
LateIsOver == \A r \in Request : rq[r].pc = "auth" /\ rq[r].late => Over(rq[r].token)

AInv == ApiShape /\ LateIsOver /\ OverIsOver

----------------------------------------------------------------------------
\* What is no session is no row of the table.
LEMMA NotARow == \A row \in SessionRow : row # NoSession
  BY NoSessionAssumption

\* Initially nobody has asked for anything.
LEMMA AInvInit == ApiInit => AInv
  BY DEF ApiInit, AInv, ApiShape, LateIsOver, OverIsOver, Idle

\* A session that is over stays so, and its row stays a row.
LEMMA SessionsEnd ==
  ASSUME AInv, [ApiNext]_apiVars
  PROVE  /\ session' \in [Token -> SessionRow \cup {NoSession}]
         /\ \A s \in Token : Over(s) => Over(s)'
PROOF
<1>0. USE DEF AInv, ApiShape, Over, SessionRow
<1>1. ASSUME NEW p \in Principal, NEW s \in Token, Login(p, s)
      PROVE  /\ session' \in [Token -> SessionRow \cup {NoSession}]
             /\ \A t \in Token : Over(t) => Over(t)'
  <2>1. [p |-> p, left |-> TTL, revoked |-> FALSE] \in SessionRow
    BY TTLAssumption
  <2>2. QED BY <1>1, <2>1 DEF Login
<1>2. ASSUME NEW s \in Token, Logout(s)
      PROVE  /\ session' \in [Token -> SessionRow \cup {NoSession}]
             /\ \A t \in Token : Over(t) => Over(t)'
  <2>1. [session[s] EXCEPT !.revoked = TRUE] \in SessionRow
    BY <1>2 DEF Logout
  <2>2. [session[s] EXCEPT !.revoked = TRUE].revoked
    BY <1>2 DEF Logout
  <2>3. [session[s] EXCEPT !.revoked = TRUE] # NoSession
    BY <2>1, NotARow
  <2>4. session' = [session EXCEPT ![s] = [session[s] EXCEPT !.revoked = TRUE]]
    BY <1>2 DEF Logout
  <2>5. QED BY <2>1, <2>2, <2>3, <2>4
<1>3. ASSUME Tick
      PROVE  /\ session' \in [Token -> SessionRow \cup {NoSession}]
             /\ \A t \in Token : Over(t) => Over(t)'
  <2>1. ASSUME NEW s \in Token, ~(session[s] = NoSession \/ session[s].left = 0)
        PROVE  /\ [session[s] EXCEPT !.left = @ - 1] \in SessionRow
               /\ [session[s] EXCEPT !.left = @ - 1].revoked = session[s].revoked
    BY <2>1, TTLAssumption
  <2>2. \A s \in Token : [session[s] EXCEPT !.left = @ - 1] \in SessionRow =>
          [session[s] EXCEPT !.left = @ - 1] # NoSession
    BY NotARow
  <2>3. QED BY <1>3, <2>1, <2>2 DEF Tick
<1>4. CASE UNCHANGED session
  BY <1>4
<1>5. QED
  BY <1>1, <1>2, <1>3, <1>4 DEF ApiNext, apiVars, Register, Arrive, Authenticate, Serve, Refuse

\* Every step keeps the invariant: a request takes the lateness it arrived with
\* to the lookup, which finds no session that is over.
LEMMA AInvStep == AInv /\ [ApiNext]_apiVars => AInv'
PROOF
<1>1. SUFFICES ASSUME AInv, [ApiNext]_apiVars PROVE AInv'
  OBVIOUS
<1>2. /\ session' \in [Token -> SessionRow \cup {NoSession}]
      /\ \A s \in Token : Over(s) => Over(s)'
  BY <1>1, SessionsEnd
<1>3. CASE UNCHANGED rq
  BY <1>1, <1>2, <1>3 DEF AInv, ApiShape, LateIsOver, OverIsOver, Idle, Arrived, Acting
<1>4. ASSUME NEW r \in Request, rq' = [rq EXCEPT ![r] = Idle]
      PROVE  AInv'
  BY <1>1, <1>2, <1>4 DEF AInv, ApiShape, LateIsOver, OverIsOver, Idle, Arrived, Acting
<1>5. ASSUME NEW r \in Request, NEW s \in Token, NEW route \in Route, NEW id \in Lot,
             Arrive(r, s, route, id)
      PROVE  AInv'
  <2>1. Over(s) \in BOOLEAN
    BY <1>1 DEF Over, AInv, ApiShape, SessionRow
  <2>2. [pc |-> "auth", token |-> s, route |-> route, lot |-> id, late |-> Over(s)]
          \in Arrived
    BY <2>1 DEF Arrived
  <2>3. QED
    BY <1>1, <1>2, <1>5, <2>2
       DEF Arrive, AInv, ApiShape, LateIsOver, OverIsOver, Idle, Arrived, Acting
<1>6. ASSUME NEW r \in Request, Authenticate(r), Live(rq[r].token)
      PROVE  AInv'
  <2> DEFINE s == rq[r].token
             act == [pc |-> "act", token |-> s, route |-> rq[r].route,
                     lot |-> rq[r].lot, late |-> rq[r].late, p |-> session[s].p]
  <2>1. rq[r] \in Arrived
    BY <1>1, <1>6 DEF Authenticate, AInv, ApiShape, Idle, Acting
  <2>2. ~rq[r].late
    BY <1>1, <1>6, <2>1 DEF Authenticate, AInv, LateIsOver, Over, Live, Arrived
  <2>3. session[s].p \in Principal
    BY <1>1, <1>6, <2>1 DEF AInv, ApiShape, SessionRow, Live, Arrived
  <2>4. act \in Acting /\ ~act.late /\ act.pc = "act"
    BY <2>1, <2>2, <2>3 DEF Arrived, Acting
  <2>5. rq' = [rq EXCEPT ![r] = act]
    BY <1>6 DEF Authenticate
  <2> HIDE DEF act
  <2>6. QED
    BY <1>1, <1>2, <2>4, <2>5 DEF AInv, ApiShape, LateIsOver, OverIsOver, Arrived, Acting, Idle
<1>7. QED
  BY <1>1, <1>3, <1>4, <1>5, <1>6
     DEF ApiNext, apiVars, Register, Login, Logout, Tick, Authenticate, Serve, Refuse

\* Logging out, and running out, are final: a request that arrives when its
\* session is over is never authenticated, whatever others do in between.
THEOREM EndedIsEnded == ApiSpec => []OverIsOver
PROOF
<1>1. AInv => OverIsOver
  BY DEF AInv
<1>2. QED BY AInvInit, AInvStep, <1>1, PTL DEF ApiSpec
=============================================================================
