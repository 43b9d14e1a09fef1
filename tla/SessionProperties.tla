------------------------- MODULE SessionProperties -------------------------
(***************************************************************************)
(* What module Session is checked against.                                 *)
(***************************************************************************)
EXTENDS Session

RequestSteps == {"select", "onboard", "onboardWrite", "sign"}

InFlight == [step : RequestSteps, session : Sessions, at : Instances, since : Nat]

(* Types, and what rows of different tables owe each other: a refresh      *)
(* token belongs to a session that exists, a revocation event to one that  *)
(* is revoked, an entry of a denylist repeats the event's expiry.          *)
TypeOK ==
  /\ now \in Nat
  /\ session \in [Sessions -> {"none", "live", "revoked"}]
  /\ token \in [RefreshTokens -> [session : Sessions \cup {Nil}, used : BOOLEAN]]
  /\ onboarded \in SUBSET Users
  /\ access \in [Sessions -> Nat]
  /\ expiresAt \in [Sessions -> Nat]
  /\ outbox \in SUBSET Sessions
  /\ kept \in [Sessions -> Nat]
  /\ unread \in [Instances -> SUBSET Sessions]
  /\ denied \in [Instances -> [Sessions -> Nat]]
  /\ req \in [Requests -> InFlight \cup {Idle}]
  /\ \A t \in RefreshTokens :
       token[t].session # Nil => session[token[t].session] # "none"
  /\ \A s \in Sessions : expiresAt[s] > 0 <=> session[s] = "revoked"
  /\ \A s \in outbox : session[s] = "revoked"

(* A refresh token rotates: of a session's tokens at most one can still be *)
(* exchanged for a new one.                                                *)
OneRefreshToken ==
  \A t, u \in RefreshTokens :
    /\ token[t].session # Nil /\ token[t].session = token[u].session
    /\ ~token[t].used /\ ~token[u].used
    => t = u

(* The lifetimes for which HorizonCoversTokens is proved: a request that   *)
(* passed authentication before the revocation may extend the session once *)
(* (selectRole), and onboard, once more, what it was extended to.          *)
LongEnough == 2 * (MaxTtl + Delay) <= Horizon + 1

(* An instance that has read the stream accepts no token of a revoked      *)
(* session, for ever: after the entry runs out, after a restart, and after *)
(* the stream dropped the event.                                           *)
CaughtUpDenies ==
  \A s \in Sessions, i \in Instances :
    session[s] = "revoked" /\ s \notin outbox /\ s \notin unread[i] => ~Accepts(i, s)

(* A revoked session is never revived, gets no refresh token any more, and *)
(* its event keeps its expiry: logging out twice and presenting a used     *)
(* token after the logout change nothing.                                  *)
RevocationIsFinal ==
  [][\A s \in Sessions : session[s] = "revoked" =>
       /\ session'[s] = "revoked" /\ expiresAt'[s] = expiresAt[s]
       /\ \A t \in RefreshTokens : token'[t].session = s => token'[t] = token[t]]_vars

(* Whatever restarts and reconnects do, an instance that accepts a revoked *)
(* session stops accepting it.                                             *)
RevocationIsHeard ==
  \A s \in Sessions, i \in Instances : session[s] = "revoked" ~> ~Accepts(i, s)

-----------------------------------------------------------------------------
(* What the documentation says, and the code does not always keep *)

(* auth.service.ts: the expiry in a session's revocation event is "the     *)
(* longest any access token of this session could still be accepted", and  *)
(* so of those that a request signs after the revocation.                  *)
HorizonCoversTokens ==
  \A s \in Sessions : session[s] = "revoked" => access[s] <= expiresAt[s]

=============================================================================
