------------------------- MODULE AccessTokensProofs -------------------------
(***************************************************************************)
(* Proofs about AccessTokens, for any number of sessions, replicas and     *)
(* secrets, any lifetime, resolution and skew of the clocks.               *)
(***************************************************************************)
EXTENDS AccessTokens, TLAPS

\* What Generate puts into a token.
Signed(t) == t.exp <= t.at + MaxSkew + TTL /\ t.at + TTL < t.exp + Second

Shape == TypeOK /\ current \in [Tokens -> SUBSET Tokens]

\* A token was signed before its session was last seen live, and a session is
\* not seen in the future.
Inv ==
  /\ Shape
  /\ \A t \in access : Signed(t) /\ t.at <= lastLive[t.session]
  /\ \A r \in Replicas : pending[r] # NoClaims => Signed(pending[r]) /\ pending[r].at <= now
  /\ \A s \in Tokens : lastLive[s] <= now

\* Cutting to seconds loses less than a second.
LEMMA Cut ==
  ASSUME NEW t \in Nat
  PROVE  /\ ExpiresAt(t) \in Nat
         /\ ExpiresAt(t) <= t + TTL
         /\ t + TTL < ExpiresAt(t) + Second
<1>1. t + TTL \in Nat
  BY AccessAssumption
<1> DEFINE x == t + TTL
           m == x % Second
<1>2. Second \in Nat \ {0} /\ TTL \in Nat
  BY AccessAssumption
<1>3. m \in 0..(Second - 1) /\ m <= x
  <2> HIDE DEF x
  <2> QED
    BY <1>1, <1>2 DEF x
<1>4. ExpiresAt(t) = x - m
  BY DEF ExpiresAt
<1> HIDE DEF m
<1> QED
  BY <1>1, <1>2, <1>3, <1>4

LEMMA InvInit == Init => Inv
BY AccessAssumption DEF Init, S!Init, Inv, Shape, TypeOK

\* No step moves the clock or the marks of the sessions back.
LEMMA Monotone ==
  ASSUME Inv, Next
  PROVE  /\ now' \in Nat /\ now <= now'
         /\ lastLive' \in [Tokens -> Nat]
         /\ \A s \in Tokens : lastLive[s] <= lastLive'[s] /\ lastLive'[s] <= now'
         /\ \A s \in Tokens : s \in Live' => lastLive'[s] = now'
<1>1. now' \in Nat /\ now <= now'
  BY DEF Inv, Shape, TypeOK, Next, Generate, Issue, Drop, Restart, Session, NewSecret, Tick
<1>2. lastLive' = [s \in Tokens |-> IF s \in Live \/ s \in Live' THEN now' ELSE lastLive[s]]
  BY DEF Next
<1>3. lastLive' \in [Tokens -> Nat]
  BY <1>1, <1>2 DEF Inv, Shape, TypeOK
<1>4. ASSUME NEW s \in Tokens
      PROVE  /\ lastLive[s] <= lastLive'[s] /\ lastLive'[s] <= now'
             /\ s \in Live' => lastLive'[s] = now'
  <2>1. lastLive[s] \in Nat /\ lastLive[s] <= now /\ now \in Nat
    BY DEF Inv, Shape, TypeOK
  <2>2. CASE s \in Live \/ s \in Live'
    <3>1. lastLive'[s] = now'
      BY <1>2, <2>2
    <3> QED
      BY <1>1, <2>1, <3>1
  <2>3. CASE ~(s \in Live \/ s \in Live')
    <3>1. lastLive'[s] = lastLive[s]
      BY <1>2, <2>3
    <3> QED
      BY <1>1, <2>1, <2>3, <3>1
  <2> QED
    BY <2>2, <2>3
<1> QED
  BY <1>1, <1>3, <1>4

\* The steps of a session keep the table of their tokens well formed.
LEMMA CurrentStep ==
  ASSUME Inv, Next
  PROVE  current' \in [Tokens -> SUBSET Tokens]
<1> USE DEF Inv, Shape
<1>1. ASSUME NEW r \in Replicas, Issue(r) PROVE current' \in [Tokens -> SUBSET Tokens]
  <2>1. pending[r].session \in Tokens
    BY <1>1 DEF Issue, TypeOK, Claims
  <2> QED
    BY <1>1, <2>1 DEF Issue, S!Open, S!Renew
<1>2. ASSUME NEW r \in Replicas, Drop(r) \/ Restart(r) PROVE current' = current
  BY <1>2 DEF Drop, Restart, Lose, S!Abandon, sessions
<1>3. ASSUME Session PROVE current' \in [Tokens -> SUBSET Tokens]
  BY <1>3 DEF Session, S!Take, S!Abandon, S!End, S!EndAll
<1> QED
  BY <1>1, <1>2, <1>3 DEF Next, Generate, NewSecret, Tick, sessions

LEMMA InvStep == Inv /\ [Next]_vars => Inv'
<1> SUFFICES ASSUME Inv, [Next]_vars PROVE Inv'
  OBVIOUS
<1>1. CASE UNCHANGED vars
  BY <1>1 DEF vars, sessions, Inv, Shape, TypeOK, Signed
<1>2. CASE Next
  <2> USE DEF Inv, Shape
  <2>1. /\ now' \in Nat /\ now <= now'
        /\ lastLive' \in [Tokens -> Nat]
        /\ \A s \in Tokens : lastLive[s] <= lastLive'[s] /\ lastLive'[s] <= now'
        /\ \A s \in Tokens : s \in Live' => lastLive'[s] = now'
        /\ current' \in [Tokens -> SUBSET Tokens]
    BY <1>2, Monotone, CurrentStep
  <2>2. secret' \in Nat /\ key' \in [Replicas -> Nat]
    BY <1>2 DEF TypeOK, Next, Generate, Issue, Drop, Restart, Session, NewSecret, Tick
  <2>3. ASSUME NEW r \in Replicas, \/ pending'[r] = NoClaims \/ pending'[r] = pending[r]
               , pending'[r] # NoClaims
        PROVE  Signed(pending'[r]) /\ pending'[r].at <= now'
    <3>1. pending[r] \in Claims /\ pending[r].at <= now /\ Signed(pending[r])
      BY <2>3 DEF TypeOK
    <3>2. pending[r].at \in Nat /\ now \in Nat
      BY <3>1 DEF Claims, TypeOK
    <3> QED
      BY <2>1, <2>3, <3>1, <3>2
  <2>4. ASSUME NEW t \in access PROVE t \in Claims /\ Signed(t) /\ t.at <= lastLive'[t.session]
    <3>1. t \in Claims /\ t.at <= lastLive[t.session] /\ t.session \in Tokens /\ t.at \in Nat
      BY DEF TypeOK, Claims
    <3>2. lastLive[t.session] \in Nat /\ lastLive'[t.session] \in Nat
      BY <2>1, <3>1 DEF TypeOK
    <3> QED
      BY <2>1, <3>1, <3>2
  <2>5. CASE /\ access' = access
             /\ pending' \in [Replicas -> Claims \cup {NoClaims}]
             /\ \A r \in Replicas : pending'[r] = NoClaims \/ pending'[r] = pending[r]
    BY <2>1, <2>2, <2>3, <2>4, <2>5 DEF TypeOK, Signed
  <2>6. ASSUME NEW r \in Replicas, NEW s \in Tokens, Generate(r, s) PROVE Inv'
    <3> DEFINE c == [session |-> s, key |-> key[r], at |-> now, exp |-> ExpiresAt(Clock(r))]
    <3> DEFINE u == ExpiresAt(Clock(r))
    <3>clock. /\ Clock(r) \in Nat /\ now <= Clock(r) /\ Clock(r) <= now + MaxSkew
          /\ now \in Nat /\ MaxSkew \in Nat /\ TTL \in Nat /\ Second \in Nat
      BY AccessAssumption DEF Clock, TypeOK
    <3>cut. u \in Nat /\ u <= Clock(r) + TTL /\ Clock(r) + TTL < u + Second
      BY <3>clock, Cut
    <3>life. u <= now + MaxSkew + TTL /\ now + TTL < u + Second
      <4> HIDE DEF u
      <4> QED
        BY <3>clock, <3>cut
    <3> HIDE DEF u
    <3>1. c \in Claims /\ Signed(c) /\ c.at = now
      BY <3>clock, <3>cut, <3>life DEF TypeOK, Claims, Signed, u
    <3>2. pending' = [pending EXCEPT ![r] = c] /\ access' = access /\ now' = now
      BY <2>6 DEF Generate
    <3> HIDE DEF c
    <3>3. pending' \in [Replicas -> Claims \cup {NoClaims}]
      BY <3>1, <3>2 DEF TypeOK
    <3>4. ASSUME NEW q \in Replicas, pending'[q] # NoClaims
          PROVE  Signed(pending'[q]) /\ pending'[q].at <= now'
      <4>1. CASE q = r
        <5>1. pending'[q] = c
          BY <4>1, <3>2 DEF TypeOK
        <5> QED
          BY <5>1, <3>1, <3>2, <2>1 DEF TypeOK
      <4>2. CASE q # r
        <5>1. pending'[q] = pending[q]
          BY <4>2, <3>2 DEF TypeOK
        <5> QED
          BY <5>1, <3>4, <2>3
      <4> QED
        BY <4>1, <4>2
    <3> QED
      BY <2>1, <2>2, <2>4, <3>2, <3>3, <3>4 DEF TypeOK, Signed
  <2>7. ASSUME NEW r \in Replicas, Issue(r) PROVE Inv'
    <3> DEFINE p == pending[r]
    <3>1. p \in Claims /\ Signed(p) /\ p.at <= now /\ p.session \in Tokens /\ p.at \in Nat
      BY <2>7 DEF Issue, TypeOK, Claims
    <3>2. /\ access' = access \cup {p} /\ now' = now
          /\ pending' = [pending EXCEPT ![r] = NoClaims]
      BY <2>7 DEF Issue
    <3>3. p.session \in Live'
      BY <2>7, <3>1 DEF Issue, S!Open, S!Renew, Live
    <3>4. p.at <= lastLive'[p.session]
      BY <3>1, <3>2, <3>3, <2>1 DEF TypeOK
    <3>5. \A t \in access' : t \in Claims /\ Signed(t) /\ t.at <= lastLive'[t.session]
      BY <2>4, <3>1, <3>2, <3>4
    <3>6. pending' \in [Replicas -> Claims \cup {NoClaims}]
      BY <3>2 DEF TypeOK
    <3>7. \A q \in Replicas : pending'[q] = NoClaims \/ pending'[q] = pending[q]
      BY <3>2 DEF TypeOK
    <3> QED
      BY <2>1, <2>2, <2>3, <3>5, <3>6, <3>7 DEF TypeOK, Signed
  <2>8. ASSUME NEW r \in Replicas, Drop(r) \/ Restart(r) PROVE Inv'
    <3>1. access' = access /\ pending' = [pending EXCEPT ![r] = NoClaims]
      BY <2>8 DEF Drop, Restart, Lose
    <3> QED
      BY <2>5, <3>1 DEF TypeOK
  <2>9. CASE Session \/ NewSecret \/ Tick
    <3>1. access' = access /\ pending' = pending
      BY <2>9 DEF Session, NewSecret, Tick
    <3> QED
      BY <2>5, <3>1 DEF TypeOK
  <2> QED
    BY <1>2, <2>6, <2>7, <2>8, <2>9 DEF Next
<1> QED
  BY <1>1, <1>2

\* Types, for every lifetime and every number of replicas.
THEOREM TypeCorrect == Spec => []TypeOK
<1>1. Inv => TypeOK
  BY DEF Inv, Shape
<1> QED
  BY InvInit, InvStep, <1>1, PTL DEF Spec

\* What a logout or a detected reuse leaves open is over after
\* JWT_EXPIRES_IN and what the clocks differ by.
THEOREM ExposureIsBounded == Spec => []BoundedExposure
<1>1. Inv => BoundedExposure
  <2> SUFFICES ASSUME Inv, NEW t \in access, NEW r \in Replicas, Validate(r, t)
               PROVE  now < lastLive[t.session] + TTL + MaxSkew
    BY DEF BoundedExposure
  <2>1. /\ now + Skew[r] < t.exp /\ t.exp <= t.at + MaxSkew + TTL /\ t.at <= lastLive[t.session]
        /\ t \in Claims
    BY DEF Inv, Shape, TypeOK, Validate, Clock, Signed
  <2>2. t.exp \in Nat /\ t.at \in Nat /\ lastLive[t.session] \in Nat /\ now \in Nat
    BY <2>1 DEF Inv, Shape, TypeOK, Claims
  <2> QED
    BY <2>1, <2>2, AccessAssumption
<1> QED
  BY InvInit, InvStep, <1>1, PTL DEF Spec

\* Cutting the expiry to seconds costs a token less than a second, and clocks
\* that differ no more than they do.
THEOREM LifetimeIsKept == Spec => []FullLifetime
<1>1. Inv => FullLifetime
  <2> SUFFICES ASSUME Inv, NEW t \in access, NEW r \in Replicas,
                      t.key = key[r], now + Second + MaxSkew <= t.at + TTL
               PROVE  Validate(r, t)
    BY DEF FullLifetime
  <2>1. t.at + TTL < t.exp + Second /\ t \in Claims
    BY DEF Inv, Shape, TypeOK, Signed
  <2>2. t.exp \in Nat /\ t.at \in Nat /\ now \in Nat
    BY <2>1 DEF Inv, Shape, TypeOK, Claims
  <2> QED
    BY <2>1, <2>2, AccessAssumption DEF Validate, Clock
<1> QED
  BY InvInit, InvStep, <1>1, PTL DEF Spec
=============================================================================
