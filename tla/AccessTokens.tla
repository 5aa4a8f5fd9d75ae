---------------------------- MODULE AccessTokens ----------------------------
(***************************************************************************)
(* Access tokens: TokenManager.Generate and Validate, and the Auth         *)
(* middleware.  A token is never stored: what decides is its expiry and    *)
(* the secret a replica read when it started.  The module composes them    *)
(* with the sessions of Sessions.tla, which the refresh tokens implement:  *)
(* issueTokenPair generates the access token first, and hands it out only  *)
(* once the refresh token is stored.  Ending a session (logout, reuse)     *)
(* does not touch the access tokens it gave out.                           *)
(*                                                                         *)
(* Time is counted in fractions of a second; the expiry is cut to seconds. *)
(* A token is signed by the clock of one replica and validated by that of  *)
(* another.                                                                *)
(***************************************************************************)
EXTENDS Naturals

CONSTANTS
  Tokens, Users, None,  \* of Sessions
  Replicas,
  TTL,         \* JWT_EXPIRES_IN, in ticks
  Second,      \* ticks of a second
  Skew,        \* [Replicas -> ticks its clock is ahead of the slowest]
  MaxSkew,
  MaxTime,     \* bound of the clock
  MaxSecrets   \* bound of the secrets in one behaviour

ASSUME AccessAssumption ==
  /\ TTL \in Nat \ {0} /\ Second \in Nat \ {0}
  /\ MaxTime \in Nat /\ MaxSecrets \in Nat
  /\ MaxSkew \in Nat /\ Skew \in [Replicas -> 0..MaxSkew]
  /\ None \notin Tokens

VARIABLES
  owner, current, exchanging, issued,  \* of Sessions
  now,       \* the clock of the slowest replica
  secret,    \* the secret that is configured
  key,       \* [Replicas -> the secret it read when it started]
  pending,   \* [Replicas -> claims signed for a pair that is not stored yet]
  access,    \* access tokens handed out
  lastLive   \* [sessions -> the last time the session had not ended]

S == INSTANCE Sessions

sessions == <<owner, current, exchanging, issued>>
vars == <<sessions, now, secret, key, pending, access, lastLive>>

\* Validate does not look at the issue date; "at" is when a token was signed.
NoClaims == [session |-> None, key |-> 0, at |-> 0, exp |-> 0]

Init ==
  /\ S!Init
  /\ now = 0 /\ secret = 1
  /\ key = [r \in Replicas |-> 1]
  /\ pending = [r \in Replicas |-> NoClaims]
  /\ access = {}
  /\ lastLive = [s \in Tokens |-> 0]

----------------------------------------------------------------------------
\* time.Now() on a replica.
Clock(r) == now + Skew[r]

\* Mutant: the lifetime is not added.
ExpiresNow(t) == t - (t % Second)

\* jwt.NewNumericDate(time.Now().Add(expiresIn)).
ExpiresAt(t) == (t + TTL) - ((t + TTL) % Second)

\* Mutant: the expiry is not verified.
ValidateSignature(r, t) == t.key = key[r]

\* The signature verifies under the replica's secret, and the token has not
\* expired.  Auth answers 401 otherwise.
Validate(r, t) == t.key = key[r] /\ Clock(r) < t.exp

\* A session that has a refresh token, or an exchange between its two.
Live == {s \in Tokens : current[s] # {} \/ s \in exchanging}

\* The first half of issueTokenPair, for a session to be opened or for the
\* exchange that took the session's token.
Generate(r, s) ==
  /\ pending[r] = NoClaims
  /\ s \notin issued \/ s \in exchanging
  /\ \A q \in Replicas : pending[q].session # s
  /\ pending' = [pending EXCEPT ![r] =
                   [session |-> s, key |-> key[r], at |-> now, exp |-> ExpiresAt(Clock(r))]]
  /\ UNCHANGED <<sessions, now, secret, key, access>>

\* The second half: the refresh token is stored and the pair handed out.  A
\* signup or login opens a session, a refresh renews the one it took.
Issue(r) ==
  /\ pending[r] # NoClaims
  /\ LET s == pending[r].session IN
       \/ \E u \in Users : S!Open(s, u)
       \/ \E t \in Tokens : S!Renew(s, t)
  /\ access' = access \cup {pending[r]}
  /\ pending' = [pending EXCEPT ![r] = NoClaims]
  /\ UNCHANGED <<now, secret, key>>

\* The request on a replica is cut off: its signed token and its exchange are
\* gone.
Lose(r) ==
  /\ pending' = [pending EXCEPT ![r] = NoClaims]
  /\ IF pending[r].session \in exchanging
     THEN S!Abandon(pending[r].session) ELSE UNCHANGED sessions

\* The refresh token could not be stored.
Drop(r) ==
  /\ pending[r] # NoClaims
  /\ Lose(r)
  /\ UNCHANGED <<now, secret, key, access>>

\* Refresh takes the session's token; an exchange ends without a new one; a
\* logout or a reuse ends sessions.
Session ==
  /\ \/ \E s \in Tokens :
          \/ S!Take(s) \/ S!End(s)
          \/ S!Abandon(s) /\ \A r \in Replicas : pending[r].session # s
     \/ \E u \in Users : S!EndAll(u)
  /\ UNCHANGED <<now, secret, key, pending, access>>

----------------------------------------------------------------------------
(* The environment *)

\* JWT_SECRET is changed.
NewSecret ==
  /\ secret < MaxSecrets
  /\ secret' = secret + 1
  /\ UNCHANGED <<sessions, now, key, pending, access>>

\* Only a restart reads it, one replica after the other.
Restart(r) ==
  /\ key' = [key EXCEPT ![r] = secret]
  /\ Lose(r)
  /\ UNCHANGED <<now, secret, access>>

Tick ==
  /\ now < MaxTime
  /\ now' = now + 1
  /\ UNCHANGED <<sessions, secret, key, pending, access>>

Next ==
  /\ \/ \E r \in Replicas :
          \/ \E s \in Tokens : Generate(r, s)
          \/ Issue(r) \/ Drop(r) \/ Restart(r)
     \/ Session \/ NewSecret \/ Tick
  /\ lastLive' = [s \in Tokens |-> IF s \in Live \/ s \in Live' THEN now' ELSE lastLive[s]]

Spec == Init /\ [][Next]_vars

----------------------------------------------------------------------------
(* Properties *)

Claims == [session : Tokens, key : Nat, at : Nat, exp : Nat]

\* The variables have their types.
TypeOK ==
  /\ now \in Nat /\ secret \in Nat
  /\ key \in [Replicas -> Nat]
  /\ pending \in [Replicas -> Claims \cup {NoClaims}]
  /\ access \subseteq Claims
  /\ lastLive \in [Tokens -> Nat]

\* Logout and reuse detection cannot revoke access tokens, but what they leave
\* open is bounded: a token any replica still accepts belongs to a session
\* that is live or ended less than JWT_EXPIRES_IN, and what the clocks differ
\* by, ago; also when the token was signed while the session was being ended,
\* or handed out by another replica.
BoundedExposure ==
  \A t \in access, r \in Replicas :
    Validate(r, t) => now < lastLive[t.session] + TTL + MaxSkew

\* The cut to whole seconds takes less than a second of a token's life, and
\* clocks that differ no more than that: until then the replicas that share its
\* secret accept it.
FullLifetime ==
  \A t \in access, r \in Replicas :
    t.key = key[r] /\ now + Second + MaxSkew <= t.at + TTL => Validate(r, t)
=============================================================================
