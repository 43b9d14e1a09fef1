--------------------------- MODULE SessionProofs ---------------------------
(***************************************************************************)
(* Proofs about module Session, for any number of sessions, instances and  *)
(* requests and any lifetimes.                                             *)
(***************************************************************************)
EXTENDS SessionProperties, TLAPS

(* A request in flight has the fields of InFlight. *)
LEMMA RequestType ==
  ASSUME TypeOK, NEW r \in Requests
  PROVE  /\ req[r].step # "idle" <=> req[r] # Idle
         /\ req[r] # Idle => req[r] \in InFlight
BY DEF TypeOK, InFlight, Idle, RequestSteps

(* signAccessToken only moves the latest expiry forward, by at most the    *)
(* longest lifetime.                                                       *)
LEMMA SignBound ==
  ASSUME TypeOK, NEW s \in Sessions, SignAccess(s)
  PROVE  /\ access' \in [Sessions -> Nat]
         /\ \A x \in Sessions : x # s => access'[x] = access[x]
         /\ access'[s] = access[s] \/ access'[s] <= now + MaxTtl
<1>1. PICK ttl \in Ttls :
        access' = [access EXCEPT ![s] = IF @ < now + ttl THEN now + ttl ELSE @]
  BY DEF SignAccess
<1>2. ttl \in Nat /\ ttl <= MaxTtl /\ MaxTtl \in Nat
  BY SessionAssumption
<1>3. now \in Nat /\ access \in [Sessions -> Nat]
  BY DEF TypeOK
<1> QED BY <1>1, <1>2, <1>3

-----------------------------------------------------------------------------
(* Types *)

(* The initial state has the types.                                        *)
LEMMA TypeInit == Init => TypeOK
BY DEF Init, TypeOK, Idle

(* A revocation keeps types: its expiry is never 0, the mark of no event. *)
LEMMA TypeRevoke ==
  ASSUME TypeOK, NEW s \in Sessions, RevokeSession(s),
         UNCHANGED <<now, token, onboarded, access, req>>
  PROVE  TypeOK'
<1>1. now + Horizon \in Nat /\ now + Horizon > 0
  BY SessionAssumption DEF TypeOK
<1>2. expiresAt' \in [Sessions -> Nat] /\ session' \in [Sessions -> {"none", "live", "revoked"}]
  BY <1>1 DEF TypeOK, RevokeSession, AccessHorizon
<1>3. \A x \in Sessions : expiresAt'[x] > 0 <=> session'[x] = "revoked"
  BY <1>1 DEF TypeOK, RevokeSession, AccessHorizon
<1>4. \A t \in RefreshTokens :
        token'[t].session # Nil => session'[token'[t].session] # "none"
  BY SessionAssumption DEF TypeOK, RevokeSession
<1> QED BY <1>2, <1>3, <1>4 DEF TypeOK, RevokeSession, Revocable

(* Every step keeps the types. *)
LEMMA TypeStep == TypeOK /\ [Next]_vars => TypeOK'
<1> SUFFICES ASSUME TypeOK, [Next]_vars PROVE TypeOK'
  OBVIOUS
<1>1. ASSUME NEW s \in Sessions, NEW t \in RefreshTokens, Login(s, t) PROVE TypeOK'
  <2>1. access' \in [Sessions -> Nat]
    BY <1>1, SignBound DEF Login
  <2>2. token' \in [RefreshTokens -> [session : Sessions \cup {Nil}, used : BOOLEAN]]
    BY <1>1 DEF Login, TypeOK
  <2>3. \A x \in RefreshTokens :
          token'[x].session # Nil => session'[token'[x].session] # "none"
    BY <1>1 DEF Login, TypeOK
  <2> QED BY <1>1, <2>1, <2>2, <2>3 DEF Login, TypeOK, events
<1>2. ASSUME NEW t \in RefreshTokens, NEW new \in RefreshTokens, Refresh(t, new)
      PROVE  TypeOK'
  <2>1. token[t].session \in Sessions
    BY <1>2 DEF Refresh, Presentable, TypeOK
  <2>2. access' \in [Sessions -> Nat]
    BY <1>2, <2>1, SignBound DEF Refresh
  <2>3. token' \in [RefreshTokens -> [session : Sessions \cup {Nil}, used : BOOLEAN]]
    <3> DEFINE used == [token EXCEPT ![t].used = TRUE]
    <3>1. used \in [RefreshTokens -> [session : Sessions \cup {Nil}, used : BOOLEAN]]
      BY ZenonT(60) DEF TypeOK
    <3>2. token' = [used EXCEPT ![new].session = token[t].session]
      BY <1>2 DEF Refresh
    <3> QED BY <2>1, <3>1, <3>2
  <2>4. \A x \in RefreshTokens :
          token'[x].session # Nil => session'[token'[x].session] # "none"
    BY <1>2, <2>1 DEF Refresh, Presentable, TypeOK
  <2> QED BY <1>2, <2>2, <2>3, <2>4 DEF Refresh, TypeOK, events
<1>3. ASSUME NEW t \in RefreshTokens, Reuse(t) PROVE TypeOK'
  <2>1. token[t].session \in Sessions
    BY <1>3 DEF Reuse, Presentable, TypeOK
  <2> QED BY <1>3, <2>1, TypeRevoke DEF Reuse
<1>4. ASSUME NEW s \in Sessions, Logout(s) PROVE TypeOK'
  BY <1>4, TypeRevoke DEF Logout
<1>5. ASSUME NEW r \in Requests, RequestStep(r) PROVE TypeOK'
  <2>1. ASSUME NEW i \in Identity, NEW s \in Sessions, NEW op \in {"select", "onboard"},
               Authenticate(r, i, s, op)
        PROVE  TypeOK'
    BY <2>1, SessionAssumption DEF Authenticate, TypeOK, InFlight, RequestSteps, events
  <2>2. ASSUME NEW step \in RequestSteps, req[r].step # "idle", Goto(r, step)
        PROVE  req' \in [Requests -> InFlight \cup {Idle}]
    BY <2>2, RequestType DEF Goto, TypeOK, InFlight
  <2>3. CASE SelectRole(r)
    BY <2>3, <2>2 DEF SelectRole, TypeOK, RequestSteps, events
  <2>4. CASE OnboardRead(r)
    BY <2>4, <2>2 DEF OnboardRead, TypeOK, RequestSteps, events
  <2>5. CASE OnboardWrite(r)
    <3>1. req[r].session \in Sessions
      BY <2>5, RequestType DEF OnboardWrite, InFlight
    <3> QED BY <2>5, <2>2, <3>1, SessionAssumption
            DEF OnboardWrite, TypeOK, RequestSteps, events
  <2>6. CASE Sign(r)
    <3>1. req[r].session \in Sessions
      BY <2>6, RequestType DEF Sign, InFlight
    <3>2. access' \in [Sessions -> Nat]
      BY <2>6, <3>1, SignBound DEF Sign
    <3> QED BY <2>6, <3>2 DEF Sign, TypeOK, events
  <2>7. CASE Abort(r)
    BY <2>7 DEF Abort, TypeOK, events
  <2> QED BY <1>5, <2>1, <2>3, <2>4, <2>5, <2>6, <2>7 DEF RequestStep
<1>6. ASSUME NEW s \in Sessions, Publish(s) PROVE TypeOK'
  BY <1>6, SessionAssumption DEF Publish, TypeOK
<1>7. ASSUME NEW s \in Sessions, Drop(s) PROVE TypeOK'
  BY <1>7 DEF Drop, TypeOK
<1>8. ASSUME NEW i \in Instances, NEW s \in Sessions, Learn(i, s) PROVE TypeOK'
  BY <1>8 DEF Learn, TypeOK
<1>9. ASSUME NEW i \in Instances, Reconnect(i) PROVE TypeOK'
  BY <1>9 DEF Reconnect, FromFirst, TypeOK
<1>10. ASSUME NEW i \in Instances, Restart(i) PROVE TypeOK'
  BY <1>10 DEF Restart, FromFirst, TypeOK
<1>11. CASE Tick
  BY <1>11 DEF Tick, TypeOK, events
<1>12. CASE UNCHANGED vars
  BY <1>12 DEF vars, events, TypeOK
<1> QED BY <1>1, <1>2, <1>3, <1>4, <1>5, <1>6, <1>7, <1>8, <1>9, <1>10, <1>11, <1>12 DEF Next

(* TypeOK holds in every reachable state. *)
THEOREM TypeCorrect == Spec => []TypeOK
BY TypeInit, TypeStep, PTL DEF Spec

-----------------------------------------------------------------------------
(* Rotation and finality *)

(* The refresh token of a session without one is the first it gets, and a  *)
(* rotation uses up the only one there is.                                 *)
LEMMA OneRefreshTokenStep ==
  TypeOK /\ OneRefreshToken /\ [Next]_vars => OneRefreshToken'
<1> SUFFICES ASSUME TypeOK, OneRefreshToken, [Next]_vars PROVE OneRefreshToken'
  OBVIOUS
<1>1. ASSUME NEW s \in Sessions, NEW t \in RefreshTokens, Login(s, t)
      PROVE  OneRefreshToken'
  <2>1. \A u \in RefreshTokens : token[u].session # s
    BY <1>1, SessionAssumption DEF Login, TypeOK
  <2>2. token' = [token EXCEPT ![t].session = s]
    BY <1>1 DEF Login
  <2>3. \A u \in RefreshTokens : u # t => token'[u] = token[u]
    BY <2>2 DEF TypeOK
  <2>4. token'[t].session = s
    BY <2>2 DEF TypeOK
  <2> QED BY <2>1, <2>3, <2>4 DEF OneRefreshToken
<1>2. ASSUME NEW t \in RefreshTokens, NEW new \in RefreshTokens, Refresh(t, new)
      PROVE  OneRefreshToken'
  <2> DEFINE s    == token[t].session
             used == [token EXCEPT ![t].used = TRUE]
  <2>1. token[new].session = Nil /\ s # Nil /\ new # t /\ ~token[t].used
    BY <1>2 DEF Refresh, FreeToken, Presentable, Rotatable
  <2>2. \A u \in RefreshTokens : token[u].session = s /\ ~token[u].used => u = t
    BY <2>1 DEF OneRefreshToken
  <2>3. used \in [RefreshTokens -> [session : Sessions \cup {Nil}, used : BOOLEAN]]
    BY ZenonT(60) DEF TypeOK
  <2>4. used[t].used = TRUE /\ \A u \in RefreshTokens : u # t => used[u] = token[u]
    BY DEF TypeOK
  <2>5. token' = [used EXCEPT ![new].session = s]
    BY <1>2 DEF Refresh
  <2>6. token'[new].session = s /\ \A u \in RefreshTokens : u # new => token'[u] = used[u]
    BY <2>3, <2>5
  <2> HIDE DEF used, s
  <2>7. \A u \in RefreshTokens : u # new /\ ~token'[u].used => u # t /\ token'[u] = token[u]
    BY <2>4, <2>6
  <2>8. \A u \in RefreshTokens : u # new /\ ~token'[u].used => token'[u].session # s
    BY <2>2, <2>7
  <2> QED BY <2>6, <2>7, <2>8 DEF OneRefreshToken
<1>3. CASE UNCHANGED token
  BY <1>3 DEF OneRefreshToken
<1>4. ASSUME NEW r \in Requests, RequestStep(r) PROVE UNCHANGED token
  BY <1>4 DEF RequestStep, Authenticate, SelectRole, OnboardRead, OnboardWrite, Sign, Abort
<1> QED BY <1>1, <1>2, <1>3, <1>4
        DEF Next, Reuse, Logout, Publish, Drop, Learn, Reconnect, Restart, Tick, vars

(* A session has at most one refresh token that can be rotated.            *)
THEOREM RotationIsUnique == Spec => []OneRefreshToken
<1>1. Init => OneRefreshToken
  BY DEF Init, OneRefreshToken
<1> QED BY <1>1, TypeCorrect, OneRefreshTokenStep, PTL DEF Spec

(* No step touches a revoked session, its refresh tokens or its expiry.    *)
LEMMA RevokedUntouched ==
  ASSUME TypeOK, [Next]_vars, NEW s \in Sessions, session[s] = "revoked"
  PROVE  /\ session'[s] = "revoked" /\ expiresAt'[s] = expiresAt[s]
         /\ \A t \in RefreshTokens : token'[t].session = s => token'[t] = token[t]
<1>1. ASSUME NEW x \in Sessions, RevokeSession(x)
      PROVE  session'[s] = "revoked" /\ expiresAt'[s] = expiresAt[s]
  BY <1>1 DEF RevokeSession, Revocable, TypeOK
<1>2. ASSUME NEW x \in Sessions, NEW t \in RefreshTokens, Login(x, t)
      PROVE  /\ session'[s] = "revoked" /\ expiresAt'[s] = expiresAt[s]
             /\ \A u \in RefreshTokens : token'[u].session = s => token'[u] = token[u]
  BY <1>2 DEF Login, events, TypeOK
<1>3. ASSUME NEW t \in RefreshTokens, NEW new \in RefreshTokens, Refresh(t, new)
      PROVE  /\ session'[s] = "revoked" /\ expiresAt'[s] = expiresAt[s]
             /\ \A u \in RefreshTokens : token'[u].session = s => token'[u] = token[u]
  <2> DEFINE used == [token EXCEPT ![t].used = TRUE]
  <2>1. token[t].session # s
    BY <1>3 DEF Refresh, Presentable
  <2>2. used \in [RefreshTokens -> [session : Sessions \cup {Nil}, used : BOOLEAN]]
    BY DEF TypeOK
  <2>3. used[t].session # s /\ \A u \in RefreshTokens : u # t => used[u] = token[u]
    BY <2>1 DEF TypeOK
  <2>4. token' = [used EXCEPT ![new].session = token[t].session]
    BY <1>3 DEF Refresh
  <2>5. token'[new].session # s /\ \A u \in RefreshTokens : u # new => token'[u] = used[u]
    BY <2>1, <2>2, <2>4
  <2>6. UNCHANGED <<session, expiresAt>>
    BY <1>3 DEF Refresh, events
  <2> QED BY <2>3, <2>5, <2>6
<1>4. ASSUME NEW t \in RefreshTokens, Reuse(t)
      PROVE  UNCHANGED token /\ \E x \in Sessions : RevokeSession(x)
  BY <1>4 DEF Reuse, Presentable, TypeOK
<1>5. ASSUME NEW r \in Requests, RequestStep(r) PROVE UNCHANGED <<session, token, expiresAt>>
  BY <1>5 DEF RequestStep, Authenticate, SelectRole, OnboardRead, OnboardWrite, Sign,
              Abort, events
<1> QED BY <1>1, <1>2, <1>3, <1>4, <1>5
        DEF Next, Logout, Publish, Drop, Learn, Reconnect, Restart, Tick, vars, events

(* RevocationIsFinal, for any number of sessions and tokens.               *)
THEOREM RevocationsAreFinal == Spec => RevocationIsFinal
<1> DEFINE Final == \A s \in Sessions : session[s] = "revoked" =>
               /\ session'[s] = "revoked" /\ expiresAt'[s] = expiresAt[s]
               /\ \A t \in RefreshTokens : token'[t].session = s => token'[t] = token[t]
<1>1. TypeOK /\ [Next]_vars => [Final]_vars
  BY RevokedUntouched
<1> QED BY <1>1, TypeCorrect, PTL DEF Spec, RevocationIsFinal

-----------------------------------------------------------------------------
(* The horizon *)

(* The latest expiry an access token of revoked session s can have while   *)
(* its user is not onboarded: selectRole may have committed just before.   *)
Once(s) == expiresAt[s] - Horizon + MaxTtl + Delay

ClockInv ==
  /\ \A s \in Sessions : access[s] <= now + MaxTtl /\ expiresAt[s] <= now + Horizon
  /\ \A r \in Requests : req[r] # Idle => req[r].since <= now /\ now <= req[r].since + Delay

AccessInv(s) ==
  session[s] = "revoked" =>
    /\ access[s] <= expiresAt[s]
    /\ UserOf[s] \notin onboarded => access[s] <= Once(s)

(* What a request in flight can still do to its session after it was       *)
(* revoked.                                                                *)
RequestInv(r) ==
  LET s == req[r].session
  IN req[r] # Idle /\ session[s] = "revoked" =>
       /\ req[r].step \in {"onboardWrite", "sign"} => req[r].since < Once(s)
       /\ req[r].step = "onboard" => req[r].since < Once(s) \/ UserOf[s] \in onboarded
       /\ req[r].step = "sign" =>
            req[r].since <= expiresAt[s] - Horizon \/ UserOf[s] \in onboarded

HorizonInv ==
  /\ ClockInv
  /\ \A s \in Sessions : AccessInv(s)
  /\ \A r \in Requests : RequestInv(r)

(* No token is signed and no request is in flight at first.                *)
LEMMA HorizonInit == Init => HorizonInv
<1> SUFFICES ASSUME Init PROVE HorizonInv
  OBVIOUS
<1>1. ClockInv
  BY SessionAssumption DEF Init, ClockInv
<1> QED BY <1>1 DEF Init, HorizonInv, AccessInv, RequestInv

(* An access token signed for a session that is not revoked afterwards.    *)
LEMMA HorizonSignLive ==
  ASSUME TypeOK, HorizonInv, NEW s \in Sessions, SignAccess(s),
         session'[s] # "revoked", \A x \in Sessions : x # s => session'[x] = session[x],
         UNCHANGED <<now, onboarded, expiresAt, req>>
  PROVE  HorizonInv'
<1>1. ClockInv'
  BY SignBound, SessionAssumption DEF HorizonInv, ClockInv, TypeOK
<1>2. \A x \in Sessions : AccessInv(x)'
  BY SignBound DEF HorizonInv, AccessInv, Once
<1>3. ASSUME NEW r \in Requests PROVE RequestInv(r)'
  <2>1. CASE req[r] = Idle
    BY <2>1 DEF RequestInv
  <2>2. CASE req[r] # Idle
    <3>1. req[r].session \in Sessions
      BY <2>2, RequestType DEF InFlight
    <3> QED BY <3>1 DEF HorizonInv, RequestInv, Once
  <2> QED BY <2>1, <2>2
<1> QED BY <1>1, <1>2, <1>3 DEF HorizonInv

(* A revocation: every token there is expires before its horizon, and what *)
(* a request in flight may sign later was asked for before it.             *)
LEMMA HorizonRevoke ==
  ASSUME TypeOK, HorizonInv, NEW s \in Sessions, RevokeSession(s),
         UNCHANGED <<now, onboarded, access, req>>
  PROVE  HorizonInv'
<1>1. /\ expiresAt'[s] = now + Horizon
      /\ \A x \in Sessions : x # s => expiresAt'[x] = expiresAt[x] /\ session'[x] = session[x]
  BY DEF RevokeSession, AccessHorizon, TypeOK
<1>2. /\ now \in Nat /\ access \in [Sessions -> Nat]
      /\ MaxTtl \in Nat \ {0} /\ Delay \in Nat /\ Horizon \in Nat /\ MaxTtl <= Horizon
  BY SessionAssumption DEF TypeOK
<1>3. ClockInv'
  BY <1>1, <1>2 DEF HorizonInv, ClockInv
<1>4. \A x \in Sessions : AccessInv(x)'
  <2>1. Once(s)' = now + MaxTtl + Delay
    BY <1>1, <1>2 DEF Once
  <2>2. access[s] <= now + MaxTtl
    BY DEF HorizonInv, ClockInv
  <2>3. AccessInv(s)'
    BY <1>1, <1>2, <2>1, <2>2 DEF AccessInv
  <2>4. ASSUME NEW x \in Sessions, x # s PROVE AccessInv(x)'
    BY <1>1, <2>4 DEF HorizonInv, AccessInv, Once
  <2> QED BY <2>3, <2>4
<1>5. ASSUME NEW r \in Requests PROVE RequestInv(r)'
  <2>1. CASE req[r] = Idle
    BY <2>1 DEF RequestInv
  <2>2. CASE req[r] # Idle
    <3>1. req[r].session \in Sessions /\ req[r].since \in Nat
      BY <2>2, RequestType DEF InFlight
    <3>2. req[r].since <= now
      BY <2>2 DEF HorizonInv, ClockInv
    <3>3. CASE req[r].session = s
      BY <1>1, <1>2, <3>1, <3>2, <3>3 DEF RequestInv, Once
    <3>4. CASE req[r].session # s
      BY <1>1, <3>1, <3>4 DEF HorizonInv, RequestInv, Once
    <3> QED BY <3>3, <3>4
  <2> QED BY <2>1, <2>2
<1> QED BY <1>3, <1>4, <1>5 DEF HorizonInv

(* A request authenticates with a token that has not expired, so it came   *)
(* before Once unless its user is onboarded.                               *)
LEMMA HorizonAuthenticate ==
  ASSUME TypeOK, HorizonInv, NEW r \in Requests, NEW i \in Identity, NEW s \in Sessions,
         NEW op \in {"select", "onboard"}, Authenticate(r, i, s, op)
  PROVE  HorizonInv'
<1>1. /\ req'[r] = [step |-> op, session |-> s, at |-> i, since |-> now]
      /\ \A q \in Requests : q # r => req'[q] = req[q]
  BY DEF Authenticate, TypeOK
<1>2. UNCHANGED <<now, session, onboarded, access, expiresAt>>
  BY DEF Authenticate, events
<1>3. now < access[s] /\ now \in Nat /\ Delay \in Nat /\ access[s] \in Nat
  BY SessionAssumption DEF Authenticate, Accepts, TypeOK
<1>4. ClockInv'
  BY <1>1, <1>2, <1>3 DEF HorizonInv, ClockInv
<1>5. \A x \in Sessions : AccessInv(x)'
  BY <1>2 DEF HorizonInv, AccessInv, Once
<1>6. RequestInv(r)'
  <2>1. Once(s) \in Int
    BY SessionAssumption DEF Once, TypeOK
  <2>2. session[s] = "revoked" => now < Once(s) \/ UserOf[s] \in onboarded
    BY <1>3, <2>1 DEF HorizonInv, AccessInv
  <2> QED BY <1>1, <1>2, <2>2 DEF RequestInv, Once
<1>7. ASSUME NEW q \in Requests, q # r PROVE RequestInv(q)'
  BY <1>1, <1>2, <1>7 DEF HorizonInv, RequestInv, Once
<1> QED BY <1>4, <1>5, <1>6, <1>7 DEF HorizonInv

(* The commit of selectRole finds the session live; onboard's finds a user *)
(* who is not onboarded, and leaves an onboarded one.                      *)
LEMMA HorizonCommit ==
  ASSUME TypeOK, HorizonInv, NEW r \in Requests,
         SelectRole(r) \/ OnboardRead(r) \/ OnboardWrite(r)
  PROVE  HorizonInv'
<1>1. req[r] # Idle /\ req[r] \in InFlight
  BY RequestType DEF SelectRole, OnboardRead, OnboardWrite
<1>2. /\ UNCHANGED <<now, session, access, expiresAt>>
      /\ onboarded \subseteq onboarded'
      /\ \A q \in Requests : q # r => req'[q] = req[q]
      /\ req'[r].session = req[r].session /\ req'[r].since = req[r].since
  BY <1>1 DEF SelectRole, OnboardRead, OnboardWrite, Goto, events, TypeOK, InFlight
<1>3. ClockInv'
  BY <1>1, <1>2 DEF HorizonInv, ClockInv
<1>4. \A x \in Sessions : AccessInv(x)'
  BY <1>2 DEF HorizonInv, AccessInv, Once
<1>5. RequestInv(r)'
  <2>1. CASE SelectRole(r)
    BY <2>1, <1>2 DEF SelectRole, RequestInv
  <2>2. CASE OnboardRead(r)
    <3>1. req'[r].step = "onboardWrite" /\ req[r].step = "onboard"
      BY <2>2, <1>1 DEF OnboardRead, Goto, TypeOK, InFlight
    <3>2. UserOf[req[r].session] \notin onboarded
      BY <2>2 DEF OnboardRead
    <3> QED BY <1>1, <1>2, <3>1, <3>2 DEF HorizonInv, RequestInv, Once
  <2>3. CASE OnboardWrite(r)
    <3>1. req'[r].step = "sign" /\ req[r].step = "onboardWrite"
      BY <2>3, <1>1 DEF OnboardWrite, Goto, TypeOK, InFlight
    <3>2. UserOf[req[r].session] \in onboarded'
      BY <2>3 DEF OnboardWrite
    <3> QED BY <1>1, <1>2, <3>1, <3>2 DEF HorizonInv, RequestInv, Once
  <2> QED BY <2>1, <2>2, <2>3
<1>6. ASSUME NEW q \in Requests, q # r PROVE RequestInv(q)'
  BY <1>2, <1>6 DEF HorizonInv, RequestInv, Once
<1> QED BY <1>3, <1>4, <1>5, <1>6 DEF HorizonInv

(* The token a request signs is good for at most MaxTtl from now, and now  *)
(* is at most Delay after the request came.                                *)
LEMMA HorizonSign ==
  ASSUME LongEnough, TypeOK, HorizonInv, NEW r \in Requests, Sign(r)
  PROVE  HorizonInv'
<1>0. PICK s \in Sessions : s = req[r].session
  BY RequestType DEF Sign, InFlight
<1>1. /\ req[r] # Idle /\ req[r].step = "sign" /\ s = req[r].session
      /\ req[r].since \in Nat
  BY <1>0, RequestType DEF Sign, InFlight
<1>2. /\ UNCHANGED <<now, session, onboarded, expiresAt>> /\ SignAccess(s)
      /\ req'[r] = Idle /\ \A q \in Requests : q # r => req'[q] = req[q]
  BY <1>1 DEF Sign, events, TypeOK
<1>3. /\ access'[s] \in Nat /\ \A x \in Sessions : x # s => access'[x] = access[x]
      /\ access'[s] = access[s] \/ access'[s] <= now + MaxTtl
  BY <1>1, <1>2, SignBound
<1>4. /\ now \in Nat /\ expiresAt[s] \in Nat /\ access[s] \in Nat
      /\ MaxTtl \in Nat /\ Delay \in Nat /\ Horizon \in Nat
  BY <1>1, SessionAssumption DEF TypeOK
<1>5. now <= req[r].since + Delay
  BY <1>1 DEF HorizonInv, ClockInv
<1>6. ClockInv'
  <2>1. access[s] <= now + MaxTtl
    BY <1>1 DEF HorizonInv, ClockInv
  <2>2. access'[s] <= now + MaxTtl
    BY <1>3, <2>1
  <2> QED BY <1>2, <1>3, <2>2 DEF HorizonInv, ClockInv
<1>7. AccessInv(s)'
  <2> SUFFICES ASSUME session[s] = "revoked"
               PROVE  /\ access'[s] <= expiresAt[s]
                      /\ UserOf[s] \notin onboarded => access'[s] <= Once(s)
    BY <1>2 DEF AccessInv, Once
  <2>1. /\ req[r].since < Once(s)
        /\ req[r].since <= expiresAt[s] - Horizon \/ UserOf[s] \in onboarded
    BY <1>1 DEF HorizonInv, RequestInv
  <2>2. /\ access[s] <= expiresAt[s]
        /\ UserOf[s] \notin onboarded => access[s] <= Once(s)
    BY <1>1 DEF HorizonInv, AccessInv
  <2>3. now + MaxTtl <= expiresAt[s]
    BY <1>1, <1>4, <1>5, <2>1 DEF Once, LongEnough
  <2>4. UserOf[s] \notin onboarded => now + MaxTtl <= Once(s)
    BY <1>1, <1>4, <1>5, <2>1 DEF Once
  <2>5. Once(s) \in Int
    BY <1>4 DEF Once
  <2> QED BY <1>3, <1>4, <2>2, <2>3, <2>4, <2>5
<1>8. ASSUME NEW x \in Sessions, x # s PROVE AccessInv(x)'
  BY <1>2, <1>3, <1>8 DEF HorizonInv, AccessInv, Once
<1>9. \A q \in Requests : RequestInv(q)'
  BY <1>2 DEF HorizonInv, RequestInv, Once
<1> QED BY <1>6, <1>7, <1>8, <1>9 DEF HorizonInv

(* Requests that end, and steps the horizon does not see.                  *)
LEMMA HorizonFrame ==
  ASSUME HorizonInv, UNCHANGED <<now, session, onboarded, access, expiresAt>>,
         \A r \in Requests : req'[r] \in {req[r], Idle}
  PROVE  HorizonInv'
<1>1. ClockInv'
  BY DEF HorizonInv, ClockInv
<1>2. \A s \in Sessions : AccessInv(s)'
  BY DEF HorizonInv, AccessInv, Once
<1>3. \A r \in Requests : RequestInv(r)'
  BY DEF HorizonInv, RequestInv, Once
<1> QED BY <1>1, <1>2, <1>3 DEF HorizonInv

(* Time does not pass a request's Delay.                                   *)
LEMMA HorizonTick == TypeOK /\ HorizonInv /\ Tick => HorizonInv'
<1> SUFFICES ASSUME TypeOK, HorizonInv, Tick PROVE HorizonInv'
  OBVIOUS
<1>1. /\ now' = now + 1 /\ UNCHANGED <<session, onboarded, access, expiresAt, req>>
      /\ \A r \in Requests : req[r] # Idle => now < req[r].since + Delay
  BY DEF Tick, events
<1>2. \A r \in Requests : req[r] # Idle => req[r].since \in Nat
  BY RequestType DEF InFlight
<1>3. ClockInv'
  BY <1>1, <1>2, SessionAssumption DEF HorizonInv, ClockInv, TypeOK
<1> QED BY <1>1, <1>3 DEF HorizonInv, AccessInv, RequestInv, Once

(* If the cap is long enough, every step keeps HorizonInv.                 *)
LEMMA HorizonStep == LongEnough /\ TypeOK /\ HorizonInv /\ [Next]_vars => HorizonInv'
<1> SUFFICES ASSUME LongEnough, TypeOK, HorizonInv, [Next]_vars PROVE HorizonInv'
  OBVIOUS
<1>1. ASSUME NEW s \in Sessions, NEW t \in RefreshTokens, Login(s, t) PROVE HorizonInv'
  <2>1. session'[s] # "revoked" /\ \A x \in Sessions : x # s => session'[x] = session[x]
    BY <1>1 DEF Login, TypeOK
  <2> QED BY <1>1, <2>1, HorizonSignLive DEF Login, events
<1>2. ASSUME NEW t \in RefreshTokens, NEW new \in RefreshTokens, Refresh(t, new)
      PROVE  HorizonInv'
  <2>1. token[t].session \in Sessions
    BY <1>2 DEF Refresh, Presentable, TypeOK
  <2> QED BY <1>2, <2>1, HorizonSignLive DEF Refresh, Presentable, events
<1>3. ASSUME NEW t \in RefreshTokens, Reuse(t) PROVE HorizonInv'
  <2>1. token[t].session \in Sessions
    BY <1>3 DEF Reuse, Presentable, TypeOK
  <2> QED BY <1>3, <2>1, HorizonRevoke DEF Reuse
<1>4. ASSUME NEW s \in Sessions, Logout(s) PROVE HorizonInv'
  BY <1>4, HorizonRevoke DEF Logout
<1>5. ASSUME NEW r \in Requests, RequestStep(r) PROVE HorizonInv'
  <2>1. CASE Abort(r)
    BY <2>1, HorizonFrame DEF Abort, events, TypeOK
  <2> QED BY <1>5, <2>1, HorizonAuthenticate, HorizonCommit, HorizonSign DEF RequestStep
<1>6. ASSUME NEW i \in Instances, Restart(i) PROVE HorizonInv'
  BY <1>6, HorizonFrame DEF Restart
<1>7. ASSUME UNCHANGED <<now, session, onboarded, access, expiresAt, req>> PROVE HorizonInv'
  BY <1>7, HorizonFrame
<1> QED BY <1>1, <1>2, <1>3, <1>4, <1>5, <1>6, <1>7, HorizonTick
        DEF Next, Publish, Drop, Learn, Reconnect, vars, events

(* If the cap is long enough for the configured lifetimes, no access token *)
(* outlives the expiry in its session's revocation event.                  *)
THEOREM HorizonHolds == ASSUME LongEnough PROVE Spec => []HorizonCoversTokens
<1>1. TypeOK /\ HorizonInv => HorizonCoversTokens
  BY DEF HorizonInv, AccessInv, HorizonCoversTokens
<1>2. TypeOK /\ HorizonInv /\ [Next]_vars => HorizonInv'
  BY HorizonStep
<1> QED BY <1>1, <1>2, HorizonInit, TypeCorrect, PTL DEF Spec

-----------------------------------------------------------------------------
(* The stream *)

(* A revocation is in the outbox, in the stream, or of no importance any   *)
(* more; an instance has it still to read, has it on its denylist, or does *)
(* not need it.                                                            *)
StreamInv ==
  /\ \A s \in Sessions : session[s] # "revoked" => kept[s] = 0
  /\ \A s \in Sessions : session[s] = "revoked" =>
       /\ kept[s] = 0 \/ kept[s] >= expiresAt[s]
       /\ s \in outbox \/ kept[s] > 0 \/ now >= expiresAt[s]
       /\ \A i \in Instances :
            s \in outbox \/ s \in unread[i] \/ denied[i][s] = expiresAt[s]
              \/ now >= expiresAt[s]

(* No session is revoked at first.                                         *)
LEMMA StreamInit == Init => StreamInv
BY DEF Init, StreamInv

(* The new event waits in the outbox.                                      *)
LEMMA StreamRevoke ==
  ASSUME TypeOK, StreamInv, NEW s \in Sessions, RevokeSession(s), UNCHANGED now
  PROVE  StreamInv'
<1>1. /\ kept[s] = 0 /\ s \in outbox' /\ outbox \subseteq outbox'
      /\ \A x \in Sessions : x # s => session'[x] = session[x] /\ expiresAt'[x] = expiresAt[x]
      /\ session'[s] = "revoked" /\ UNCHANGED <<kept, unread, denied>>
  BY DEF RevokeSession, Revocable, StreamInv, TypeOK
<1> QED BY <1>1 DEF StreamInv

(* A published event is kept at least as long as it matters, and is unread *)
(* everywhere.                                                             *)
LEMMA StreamPublish ==
  ASSUME TypeOK, HorizonInv, StreamInv, NEW s \in Sessions, Publish(s)
  PROVE  StreamInv'
<1>1. session[s] = "revoked"
  BY DEF Publish, TypeOK
<1>2. expiresAt[s] <= now + Horizon
  BY DEF HorizonInv, ClockInv
<1>3. now + Retention \in Nat /\ now + Retention >= expiresAt[s] /\ now + Retention > 0
  BY <1>2, SessionAssumption DEF TypeOK
<1>4. kept'[s] = now + Retention /\ \A x \in Sessions : x # s => kept'[x] = kept[x]
  BY DEF Publish, TypeOK
<1>5. /\ \A x \in Sessions : x # s => (x \in outbox' <=> x \in outbox)
      /\ \A i \in Instances : unread'[i] = unread[i] \cup {s}
      /\ UNCHANGED <<now, session, expiresAt, denied>>
  BY DEF Publish
<1> QED BY <1>1, <1>3, <1>4, <1>5 DEF StreamInv

(* An event is dropped when its tokens have expired.                       *)
LEMMA StreamDrop ==
  ASSUME TypeOK, StreamInv, NEW s \in Sessions, Drop(s)
  PROVE  StreamInv'
<1>1. kept[s] > 0 /\ now >= kept[s] /\ now \in Nat /\ kept[s] \in Nat /\ expiresAt[s] \in Nat
  BY DEF Drop, TypeOK
<1>2. session[s] = "revoked" /\ now >= expiresAt[s]
  BY <1>1 DEF StreamInv, TypeOK
<1>3. /\ kept'[s] = 0 /\ \A x \in Sessions : x # s => kept'[x] = kept[x]
      /\ \A i \in Instances : unread'[i] = unread[i] \ {s}
      /\ UNCHANGED <<now, session, expiresAt, outbox, denied>>
  BY DEF Drop, TypeOK
<1> QED BY <1>2, <1>3 DEF StreamInv

(* An event that was read is on the denylist.                              *)
LEMMA StreamLearn ==
  ASSUME TypeOK, StreamInv, NEW i \in Instances, NEW s \in Sessions, Learn(i, s)
  PROVE  StreamInv'
<1>1. /\ denied'[i][s] = expiresAt[s] /\ unread'[i] = unread[i] \ {s}
      /\ \A x \in Sessions : x # s => denied'[i][x] = denied[i][x]
      /\ \A j \in Instances : j # i => denied'[j] = denied[j] /\ unread'[j] = unread[j]
      /\ UNCHANGED <<now, session, expiresAt, outbox, kept>>
  BY DEF Learn, TypeOK
<1> QED BY <1>1 DEF StreamInv

(* An instance that reads from the first event on misses only what the     *)
(* stream has dropped; its denylist may be empty.                          *)
LEMMA StreamReread ==
  ASSUME TypeOK, StreamInv, NEW i \in Instances, Reconnect(i) \/ Restart(i)
  PROVE  StreamInv'
<1>1. /\ unread'[i] = {s \in Sessions : kept[s] > 0}
      /\ \A j \in Instances : j # i => denied'[j] = denied[j] /\ unread'[j] = unread[j]
      /\ UNCHANGED <<now, session, expiresAt, outbox, kept>>
  BY DEF Reconnect, Restart, FromFirst, TypeOK
<1> QED BY <1>1 DEF StreamInv

(* Steps that leave the events alone: time passes, sessions begin.         *)
LEMMA StreamFrame ==
  ASSUME TypeOK, StreamInv, now' \in {now, now + 1},
         \A s \in Sessions : session'[s] # session[s] => session[s] = "none" /\ session'[s] = "live",
         UNCHANGED events
  PROVE  StreamInv'
<1>1. now \in Nat /\ expiresAt \in [Sessions -> Nat]
  BY DEF TypeOK
<1> QED BY <1>1 DEF StreamInv, events

(* Every step keeps StreamInv.                                             *)
LEMMA StreamStep == TypeOK /\ HorizonInv /\ StreamInv /\ [Next]_vars => StreamInv'
<1> SUFFICES ASSUME TypeOK, HorizonInv, StreamInv, [Next]_vars PROVE StreamInv'
  OBVIOUS
<1>1. ASSUME NEW s \in Sessions, NEW t \in RefreshTokens, Login(s, t) PROVE StreamInv'
  <2>1. \A x \in Sessions : session'[x] # session[x] => session[x] = "none" /\ session'[x] = "live"
    BY <1>1 DEF Login, TypeOK
  <2> QED BY <1>1, <2>1, StreamFrame DEF Login
<1>2. ASSUME NEW t \in RefreshTokens, Reuse(t) PROVE StreamInv'
  <2>1. token[t].session \in Sessions
    BY <1>2 DEF Reuse, Presentable, TypeOK
  <2> QED BY <1>2, <2>1, StreamRevoke DEF Reuse
<1>3. ASSUME NEW s \in Sessions, Logout(s) PROVE StreamInv'
  BY <1>3, StreamRevoke DEF Logout
<1>4. ASSUME NEW r \in Requests, RequestStep(r) PROVE UNCHANGED <<now, session, events>>
  BY <1>4 DEF RequestStep, Authenticate, SelectRole, OnboardRead, OnboardWrite, Sign, Abort
<1>5. ASSUME UNCHANGED <<session, events>>, now' \in {now, now + 1} PROVE StreamInv'
  BY <1>5, StreamFrame
<1> QED BY <1>1, <1>2, <1>3, <1>4, <1>5, StreamPublish, StreamDrop, StreamLearn, StreamReread
        DEF Next, Refresh, Tick, vars

(* An instance that has read the stream refuses a revoked session: its     *)
(* entry is still good, or every token of the session has expired.         *)
THEOREM CaughtUpInstancesDeny == ASSUME LongEnough PROVE Spec => []CaughtUpDenies
<1>1. TypeOK /\ HorizonInv /\ StreamInv => CaughtUpDenies
  <2> SUFFICES ASSUME TypeOK, HorizonInv, StreamInv, NEW s \in Sessions, NEW i \in Instances,
                      session[s] = "revoked", s \notin outbox, s \notin unread[i]
               PROVE  ~Accepts(i, s)
    BY DEF CaughtUpDenies
  <2>1. denied[i][s] = expiresAt[s] \/ now >= expiresAt[s]
    BY DEF StreamInv
  <2>2. access[s] <= expiresAt[s]
    BY DEF HorizonInv, AccessInv
  <2>3. now \in Nat /\ access[s] \in Nat /\ expiresAt[s] \in Nat
    BY DEF TypeOK
  <2> QED BY <2>1, <2>2, <2>3 DEF Accepts, IsRevoked
<1>2. TypeOK /\ HorizonInv /\ StreamInv /\ [Next]_vars => HorizonInv' /\ StreamInv'
  BY HorizonStep, StreamStep
<1> QED BY <1>1, <1>2, HorizonInit, StreamInit, TypeCorrect, PTL DEF Spec

=============================================================================
