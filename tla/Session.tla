------------------------------ MODULE Session ------------------------------
(***************************************************************************)
(* identity's sessions: rotating refresh tokens, access tokens that every  *)
(* service verifies by itself, and the stream of revocations that feeds    *)
(* the denylist of every service instance.                                 *)
(*                                                                         *)
(* refresh and logout hold the row lock of the session from their first    *)
(* look at it to the commit: one step each.  selectRole and onboard commit *)
(* first and sign the access token afterwards: between the two steps the   *)
(* session may be revoked.                                                 *)
(*                                                                         *)
(* Services and identity read one clock, now.  Of the access tokens of a   *)
(* session only the latest expiry matters, access[s].                      *)
(***************************************************************************)
EXTENDS Integers, FiniteSets

CONSTANTS
  Users, Sessions,
  UserOf,         \* sessions.user_id
  RefreshTokens,  \* ids that INSERT INTO refresh_tokens may generate
  Instances,      \* instances of all services, each with its own denylist
  Identity,       \* the instances of identity
  Requests,       \* selectRole and onboard requests in flight at one time
  Nil,
  Ttls,           \* values accessTokenTtlSeconds may have
  MaxTtl,         \* the largest of them
  Horizon,        \* MAX_ACCESS_TOKEN_TTL_SECONDS
  Retention,      \* x-max-age of the stream of revocations
  Delay,          \* a request is answered or dead this long after it came
  MaxTime         \* bound: the clock stops here

ASSUME SessionAssumption ==
  /\ UserOf \in [Sessions -> Users]
  /\ Identity \subseteq Instances
  /\ Nil \notin Sessions
  /\ MaxTtl \in Nat \ {0} /\ Ttls \subseteq 1..MaxTtl
  /\ Horizon \in Nat \ {0} /\ MaxTtl <= Horizon
  /\ Retention \in Nat /\ Retention >= Horizon
  /\ Delay \in Nat
  /\ MaxTime \in Nat

VARIABLES
  now,
  session,    \* "none" before the INSERT, "live", "revoked": revoked_at is set
  token,      \* the rows of refresh_tokens; session Nil before the INSERT
  onboarded,  \* users with is_onboarded
  access,     \* latest expiry of the access tokens signed for a session
  expiresAt,  \* in the session's revocation event, 0 while there is none
  outbox,     \* sessions whose revocation event is not marked as published
  kept,       \* until when the stream surely keeps the event, 0: not in it
  unread,     \* events of the stream each instance has still to read
  denied,     \* the denylists: session -> expiry, 0 for no entry
  req         \* selectRole and onboard in flight

events == <<expiresAt, outbox, kept, unread, denied>>
vars   == <<now, session, token, onboarded, access, events, req>>

Idle == [step |-> "idle", session |-> Nil, at |-> Nil, since |-> 0]

Init ==
  /\ now = 0
  /\ session = [s \in Sessions |-> "none"]
  /\ token = [t \in RefreshTokens |-> [session |-> Nil, used |-> FALSE]]
  /\ onboarded = {}
  /\ access = [s \in Sessions |-> 0]
  /\ expiresAt = [s \in Sessions |-> 0]
  /\ outbox = {}
  /\ kept = [s \in Sessions |-> 0]
  /\ unread = [i \in Instances |-> {}]
  /\ denied = [i \in Instances |-> [s \in Sessions |-> 0]]
  /\ req = [r \in Requests |-> Idle]

-----------------------------------------------------------------------------
(* Tokens *)

(* signAccessToken *)
SignAccess(s) ==
  \E ttl \in Ttls :
    access' = [access EXCEPT ![s] = IF @ < now + ttl THEN now + ttl ELSE @]

(* The id newRefreshToken inserts: one that is not in use. *)
FreeToken(t) ==
  /\ token[t].session = Nil
  /\ t = CHOOSE free \in RefreshTokens : token[free].session = Nil

(* revokeSession.  accessHorizon is the cap on the lifetime of a token,    *)
(* whatever the configuration was when it was signed.                      *)
AccessHorizon == now + Horizon

Revocable(s) == session[s] = "live"

\* Mutant: the event is enqueued, revoked_at is not set.
RevokeSessionEventOnly(s) ==
  /\ Revocable(s)
  /\ expiresAt' = [expiresAt EXCEPT ![s] = AccessHorizon]
  /\ outbox' = outbox \cup {s}
  /\ UNCHANGED <<session, kept, unread, denied>>

RevokeSession(s) ==
  /\ Revocable(s)
  /\ session' = [session EXCEPT ![s] = "revoked"]
  /\ expiresAt' = [expiresAt EXCEPT ![s] = AccessHorizon]
  /\ outbox' = outbox \cup {s}
  /\ UNCHANGED <<kept, unread, denied>>

-----------------------------------------------------------------------------
(* AuthService *)

(* login, and register for a new user *)
Login(s, t) ==
  /\ session[s] = "none"
  /\ session' = [session EXCEPT ![s] = "live"]
  /\ FreeToken(t)
  /\ token' = [token EXCEPT ![t].session = s]
  /\ SignAccess(s)
  /\ UNCHANGED <<now, onboarded, events, req>>

(* What refresh demands of the presented token's row and its session.  Its *)
(* expiry, days away, is left out: an expired token is one that nobody     *)
(* presents any more.                                                      *)
\* Mutant: the session is not looked at.
PresentableRevoked(t) == token[t].session # Nil

Presentable(t) == token[t].session # Nil /\ session[token[t].session] = "live"

RotatableUsed(t) == TRUE  \* Mutant: usedAt is not looked at.

Rotatable(t) == ~token[t].used

Refresh(t, new) ==
  LET s == token[t].session
  IN /\ Presentable(t) /\ Rotatable(t)
     /\ FreeToken(new)
     /\ token' = [token EXCEPT ![t].used = TRUE, ![new].session = s]
     /\ SignAccess(s)
     /\ UNCHANGED <<now, session, onboarded, events, req>>

(* A used token is presented again: by a thief, by its owner after a theft,*)
(* or by a client that never saw the answer to its refresh.                *)
Reuse(t) ==
  /\ Presentable(t) /\ ~Rotatable(t)
  /\ RevokeSession(token[t].session)
  /\ UNCHANGED <<now, token, onboarded, access, req>>

(* By the session of the access token, or by any refresh token of it. *)
Logout(s) ==
  /\ RevokeSession(s)
  /\ UNCHANGED <<now, token, onboarded, access, req>>

(* authenticate: the token is valid, its session is not on the denylist.   *)
(* isRevoked treats an entry that has run out as absent; when it and prune *)
(* delete such entries makes no difference.                                *)
IsRevoked(i, s) == denied[i][s] > now

Accepts(i, s) == now < access[s] /\ ~IsRevoked(i, s)

Authenticate(r, i, s, op) ==
  /\ req[r] = Idle
  /\ Accepts(i, s)
  /\ req' = [req EXCEPT ![r] = [step |-> op, session |-> s, at |-> i, since |-> now]]
  /\ UNCHANGED <<now, session, token, onboarded, access, events>>

Goto(r, step) == req' = [req EXCEPT ![r].step = step]

(* UPDATE sessions ... WHERE revoked_at IS NULL *)
SelectRole(r) ==
  /\ req[r].step = "select"
  /\ session[req[r].session] = "live"
  /\ Goto(r, "sign")
  /\ UNCHANGED <<now, session, token, onboarded, access, events>>

OnboardRead(r) ==
  /\ req[r].step = "onboard"
  /\ UserOf[req[r].session] \notin onboarded
  /\ Goto(r, "onboardWrite")
  /\ UNCHANGED <<now, session, token, onboarded, access, events>>

OnboardWrite(r) ==
  /\ req[r].step = "onboardWrite"
  /\ onboarded' = onboarded \cup {UserOf[req[r].session]}
  /\ Goto(r, "sign")
  /\ UNCHANGED <<now, session, token, access, events>>

(* accessFor, after the commit.  onboard reads the session's role again    *)
(* and signs whether or not it is revoked.                                 *)
Sign(r) ==
  /\ req[r].step = "sign"
  /\ SignAccess(req[r].session)
  /\ req' = [req EXCEPT ![r] = Idle]
  /\ UNCHANGED <<now, session, token, onboarded, events>>

(* An error response. *)
Abort(r) ==
  /\ req[r] # Idle
  /\ req' = [req EXCEPT ![r] = Idle]
  /\ UNCHANGED <<now, session, token, onboarded, access, events>>

-----------------------------------------------------------------------------
(* Revocations on their way to the denylists *)

(* The relay publishes the event; it may die before it marks the row. *)
Publish(s) ==
  /\ s \in outbox
  /\ kept' = [kept EXCEPT ![s] = now + Retention]
  /\ unread' = [i \in Instances |-> unread[i] \cup {s}]
  /\ outbox' \in {outbox, outbox \ {s}}
  /\ UNCHANGED <<now, session, token, onboarded, access, expiresAt, denied, req>>

(* The broker drops old segments of the stream. *)
Drop(s) ==
  /\ kept[s] > 0 /\ now >= kept[s]
  /\ kept' = [kept EXCEPT ![s] = 0]
  /\ unread' = [i \in Instances |-> unread[i] \ {s}]
  /\ UNCHANGED <<now, session, token, onboarded, access, expiresAt, outbox,
                 denied, req>>

Learn(i, s) ==
  /\ s \in unread[i]
  /\ denied' = [denied EXCEPT ![i][s] = expiresAt[s]]
  /\ unread' = [unread EXCEPT ![i] = @ \ {s}]
  /\ UNCHANGED <<now, session, token, onboarded, access, expiresAt, outbox,
                 kept, req>>

(* A stream is read from its start on every (re)connect. *)
FromNext == {}  \* Mutant: only events published after the connect.

FromFirst == {s \in Sessions : kept[s] > 0}

Reconnect(i) ==
  /\ unread' = [unread EXCEPT ![i] = FromFirst]
  /\ UNCHANGED <<now, session, token, onboarded, access, expiresAt, outbox,
                 kept, denied, req>>

(* The denylist is memory only, and so are the instance's requests. *)
Restart(i) ==
  /\ denied' = [denied EXCEPT ![i] = [s \in Sessions |-> 0]]
  /\ unread' = [unread EXCEPT ![i] = FromFirst]
  /\ req' = [r \in Requests |-> IF req[r].at = i THEN Idle ELSE req[r]]
  /\ UNCHANGED <<now, session, token, onboarded, access, expiresAt, outbox, kept>>

-----------------------------------------------------------------------------
(* Time *)

Tick ==
  /\ now < MaxTime
  /\ \A r \in Requests : req[r] # Idle => now < req[r].since + Delay
  /\ now' = now + 1
  /\ UNCHANGED <<session, token, onboarded, access, events, req>>

RequestStep(r) ==
  \/ \E i \in Identity, s \in Sessions, op \in {"select", "onboard"} :
       Authenticate(r, i, s, op)
  \/ SelectRole(r)
  \/ OnboardRead(r)
  \/ OnboardWrite(r)
  \/ Sign(r)
  \/ Abort(r)

Next ==
  \/ \E s \in Sessions, t \in RefreshTokens : Login(s, t)
  \/ \E t, new \in RefreshTokens : Refresh(t, new)
  \/ \E t \in RefreshTokens : Reuse(t)
  \/ \E s \in Sessions : Logout(s)
  \/ \E r \in Requests : RequestStep(r)
  \/ \E s \in Sessions : Publish(s)
  \/ \E s \in Sessions : Drop(s)
  \/ \E i \in Instances, s \in Sessions : Learn(i, s)
  \/ \E i \in Instances : Reconnect(i)
  \/ \E i \in Instances : Restart(i)
  \/ Tick

Spec == Init /\ [][Next]_vars

(* The relay polls for as long as identity runs; a connected instance is   *)
(* sent every event of the stream, and acks it.  Nothing else is promised: *)
(* time, restarts and buyers may do as they like.                          *)
Fairness ==
  /\ \A s \in Sessions : WF_vars(Publish(s))
  /\ \A i \in Instances, s \in Sessions : WF_vars(Learn(i, s))

FairSpec == Spec /\ Fairness

=============================================================================
