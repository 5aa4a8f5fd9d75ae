------------------------ MODULE RedisLimiterProofs ------------------------
(***************************************************************************)
(* Proofs about RedisLimiter, for any replicas, clients, limits, clock     *)
(* skew and delay.                                                         *)
(***************************************************************************)
EXTENDS RedisLimiter, FiniteSetTheorems, TLAPS

\* The second a clock reads: division, in the form the proofs below need.
LEMMA SecondOf ==
  ASSUME NEW t \in Nat, NEW S \in Nat \ {0}
  PROVE  /\ t \div S \in Nat /\ t \div S <= t
         /\ (t \div S) * S <= t /\ t < (t \div S) * S + S
<1> DEFINE w == t \div S
<1>1. w \in Nat /\ w * S <= t /\ t < w * S + S
  OBVIOUS
<1>2. w <= w * S
  BY <1>1
<1> QED
  BY <1>1, <1>2

----------------------------------------------------------------------------
(* The inductive invariant *)

\* What a call in flight knows: its counter is named after a second that its
\* replica's clock read when the request arrived, MaxDelay ago at most.
CallInv(q) ==
  /\ q.window * Second <= q.at + MaxSkew
  /\ q.at < q.window * Second + Second
  /\ now <= q.at + MaxDelay

\* A counter was given Window to live by a call that ran when its second had
\* begun on the fastest clock, and no later than MaxDelay after its end.
LifeInv(ip, w) ==
  expires[ip][w] # 0 =>
    /\ expires[ip][w] <= now + Window
    /\ w * Second + Window <= expires[ip][w] + MaxSkew
    /\ expires[ip][w] < w * Second + Second + MaxDelay + Window

\* A counter has had k lives before the present one.  They and the present one
\* fit between the start of its second on the fastest clock and its expiry, and
\* each admitted Burst requests at most; the present one no more than it counted.
LivesInv(ip, w, k) ==
  /\ (k + 1) * Window + w * Second <= expires[ip][w] + MaxSkew
  /\ admitted[ip][w] <= Burst * k + count[ip][w]
  /\ admitted[ip][w] <= Burst * k + Burst

CounterInv(ip, w) ==
  /\ expires[ip][w] = 0 => admitted[ip][w] = 0
  /\ expires[ip][w] # 0 => \E k \in Nat : LivesInv(ip, w, k)

Inv ==
  /\ TypeOK
  /\ \A r \in Requests : \A q \in req[r] : CallInv(q)
  /\ \A ip \in IPs, w \in Windows : LifeInv(ip, w)
  /\ \A ip \in IPs, w \in Windows : CounterInv(ip, w)

LEMMA InvInit == Init => Inv
<1> SUFFICES ASSUME Init PROVE Inv
  OBVIOUS
<1>1. TypeOK
  BY LimiterAssumption DEF Init, TypeOK, Idle
<1>2. \A ip \in IPs, w \in Windows : LifeInv(ip, w) /\ CounterInv(ip, w)
  BY DEF Init, LifeInv, CounterInv
<1> QED
  BY <1>1, <1>2 DEF Init, Inv, Idle

----------------------------------------------------------------------------
(* The script *)

\* What the script changes, and that it keeps the types.
LEMMA ScriptStep ==
  ASSUME TypeOK, NEW q \in Request, Script(q)
  PROVE  /\ count' \in [IPs -> [Windows -> Nat]]
         /\ expires' \in [IPs -> [Windows -> Nat]]
         /\ Incr(q) \in Nat \ {0}
         /\ count'[q.ip][q.window] = Incr(q) /\ expires'[q.ip][q.window] = Expire(q)
         /\ \A ip \in IPs, w \in Windows : ip # q.ip \/ w # q.window =>
              count'[ip][w] = count[ip][w] /\ expires'[ip][w] = expires[ip][w]
<1>1. q.ip \in IPs /\ q.window \in Windows
  BY DEF Request
<1>2. /\ count \in [IPs -> [Windows -> Nat]] /\ expires \in [IPs -> [Windows -> Nat]]
      /\ now \in Nat /\ Window \in Nat
  BY LimiterAssumption DEF TypeOK
<1>3. Incr(q) \in Nat \ {0} /\ Expire(q) \in Nat
  BY <1>1, <1>2 DEF Incr, Expire
<1>4. count' = [count EXCEPT ![q.ip][q.window] = Incr(q)]
  BY DEF Script
<1>5. expires' = [expires EXCEPT ![q.ip][q.window] = Expire(q)]
  BY DEF Script
<1>6. /\ count' \in [IPs -> [Windows -> Nat]] /\ count'[q.ip][q.window] = Incr(q)
      /\ \A ip \in IPs, w \in Windows : ip # q.ip \/ w # q.window =>
           count'[ip][w] = count[ip][w]
  BY <1>1, <1>2, <1>3, <1>4
<1>7. /\ expires' \in [IPs -> [Windows -> Nat]] /\ expires'[q.ip][q.window] = Expire(q)
      /\ \A ip \in IPs, w \in Windows : ip # q.ip \/ w # q.window =>
           expires'[ip][w] = expires[ip][w]
  BY <1>1, <1>2, <1>3, <1>5
<1> QED
  BY <1>3, <1>6, <1>7

\* The heart of the argument: a call that finds no counter begins a life of its
\* own, one Window after the life before it at the earliest; one that finds it
\* there is admitted only if the counter was below the burst.
LEMMA CounterOfCall ==
  ASSUME Inv, NEW q \in Request, CallInv(q), q.at <= now,
         NEW a \in Nat,
         \/ a = admitted[q.ip][q.window]
         \/ Incr(q) <= Burst /\ a = admitted[q.ip][q.window] + 1
  PROVE  /\ Expire(q) # 0
         /\ \E k \in Nat :
              /\ (k + 1) * Window + q.window * Second <= Expire(q) + MaxSkew
              /\ a <= Burst * k + Incr(q)
              /\ a <= Burst * k + Burst
<1> DEFINE e == expires[q.ip][q.window]
           c == count[q.ip][q.window]
           b == admitted[q.ip][q.window]
           d == q.window * Second
<1>1. q.ip \in IPs /\ q.window \in Windows /\ q.window \in Nat /\ q.at \in Nat
  BY LimiterAssumption DEF Request, Windows
<1>2. e \in Nat /\ c \in Nat /\ b \in Nat /\ now \in Nat
  BY <1>1 DEF Inv, TypeOK
<1>3. /\ Second \in Nat /\ Window \in Nat \ {0} /\ MaxSkew \in Nat /\ Burst \in Nat
      /\ d \in Nat
  BY <1>1, LimiterAssumption
<1>4. d <= now + MaxSkew
  <2>1. d <= q.at + MaxSkew
    BY DEF CallInv
  <2> HIDE DEF d
  <2> QED
    BY <1>1, <1>2, <1>3, <2>1
<1>5. e = 0 => b = 0
  BY <1>1 DEF Inv, CounterInv
<1>6. ASSUME e # 0
      PROVE  \E k \in Nat : /\ (k + 1) * Window + d <= e + MaxSkew
                            /\ b <= Burst * k + c /\ b <= Burst * k + Burst
  BY <1>1, <1>6 DEF Inv, CounterInv, LivesInv
<1>7. /\ Incr(q) = IF now < e THEN c + 1 ELSE 1
      /\ Expire(q) = IF Incr(q) = 1 THEN now + Window ELSE e
      /\ \/ a = b
         \/ Incr(q) <= Burst /\ a = b + 1
  BY DEF Incr, Expire, Live
<1>8. ASSUME NEW k \in Nat
      PROVE  /\ Burst * k \in Nat /\ Burst * (k + 1) = Burst * k + Burst
             /\ (k + 1) * Window \in Nat /\ (k + 2) * Window = (k + 1) * Window + Window
  BY <1>3
<1>9. /\ Expire(q) # 0
      /\ \E k \in Nat : /\ (k + 1) * Window + d <= Expire(q) + MaxSkew
                        /\ a <= Burst * k + Incr(q) /\ a <= Burst * k + Burst
  <2> HIDE DEF d, e, c, b
  <2>1. CASE e = 0
    <3>1. Incr(q) = 1 /\ Expire(q) = now + Window
      BY <1>2, <1>7, <2>1
    <3>2. a <= 1 /\ a <= Burst
      BY <1>2, <1>3, <1>5, <1>7, <2>1, <3>1
    <3>3. (0 + 1) * Window = Window /\ Burst * 0 = 0
      BY <1>3
    <3>4. (0 + 1) * Window + d <= Expire(q) + MaxSkew /\ Expire(q) # 0
      BY <1>2, <1>3, <1>4, <3>1, <3>3
    <3>5. a <= Burst * 0 + Incr(q) /\ a <= Burst * 0 + Burst
      BY <1>3, <3>1, <3>2, <3>3
    <3> QED
      BY <3>4, <3>5
  <2>2. CASE e # 0
    <3>1. PICK k \in Nat : /\ (k + 1) * Window + d <= e + MaxSkew
                           /\ b <= Burst * k + c /\ b <= Burst * k + Burst
      BY <1>6, <2>2
    <3> DEFINE u == (k + 1) * Window
               v == Burst * k
    <3>2. u \in Nat /\ v \in Nat /\ (k + 2) * Window = u + Window /\ Burst * (k + 1) = v + Burst
      BY <1>8
    <3>3. u + d <= e + MaxSkew /\ b <= v + c /\ b <= v + Burst
      BY <3>1
    <3>4. CASE now < e /\ Incr(q) # 1
      <4>1. Incr(q) = c + 1 /\ Expire(q) = e
        BY <1>7, <3>4
      <4>2. a <= v + Incr(q) /\ a <= v + Burst /\ u + d <= Expire(q) + MaxSkew
        <5> HIDE DEF u, v
        <5> QED
          BY <1>2, <1>3, <1>7, <3>2, <3>3, <4>1
      <4> QED
        BY <2>2, <4>1, <4>2
    <3>5. CASE now < e /\ Incr(q) = 1
      <4>1. c = 0 /\ Expire(q) = now + Window
        BY <1>2, <1>7, <3>5
      <4>2. a <= v + Incr(q) /\ a <= v + Burst /\ Expire(q) # 0
        <5> HIDE DEF u, v
        <5> QED
          BY <1>2, <1>3, <1>7, <3>2, <3>3, <3>5, <4>1
      <4>3. e <= now + Window
        BY <1>1, <2>2 DEF Inv, LifeInv, e
      <4>4. u + d <= Expire(q) + MaxSkew
        <5> HIDE DEF u, v
        <5> QED
          BY <1>2, <1>3, <3>2, <3>3, <4>1, <4>3
      <4> QED
        BY <4>2, <4>4
    <3>6. CASE ~(now < e)
      <4>1. Incr(q) = 1 /\ Expire(q) = now + Window
        BY <1>7, <3>6
      <4>2. /\ (u + Window) + d <= Expire(q) + MaxSkew /\ Expire(q) # 0
            /\ a <= (v + Burst) + Incr(q) /\ a <= (v + Burst) + Burst
        <5> HIDE DEF u, v
        <5> QED
          BY <1>2, <1>3, <1>7, <3>2, <3>3, <3>6, <4>1
      <4>3. k + 1 \in Nat /\ ((k + 1) + 1) * Window = u + Window /\ Burst * (k + 1) = v + Burst
        BY <1>3, <3>2
      <4> HIDE DEF u, v
      <4>4. /\ ((k + 1) + 1) * Window + d <= Expire(q) + MaxSkew
            /\ a <= Burst * (k + 1) + Incr(q) /\ a <= Burst * (k + 1) + Burst
        BY <4>2, <4>3
      <4> QED
        BY <4>2, <4>3, <4>4
    <3> QED
      BY <3>4, <3>5, <3>6
  <2> QED
    BY <2>1, <2>2
<1> QED
  BY <1>9

\* A call whose script ran keeps the invariant of every counter, when what it
\* adds to the admissions is one at most, and only within the burst.
LEMMA ScriptInv ==
  ASSUME Inv, NEW q \in Request, CallInv(q), q.at <= now, Script(q),
         \/ admitted' = admitted
         \/ /\ Incr(q) <= Burst
            /\ admitted' = [admitted EXCEPT ![q.ip][q.window] = @ + 1]
  PROVE  \A ip \in IPs, w \in Windows : CounterInv(ip, w)'
<1> DEFINE a == admitted'[q.ip][q.window]
<1>1. q.ip \in IPs /\ q.window \in Windows
  BY DEF Request
<1>2. admitted \in [IPs -> [Windows -> Nat]]
  BY DEF Inv, TypeOK
<1>3. /\ a \in Nat
      /\ \A ip \in IPs, w \in Windows : ip # q.ip \/ w # q.window =>
           admitted'[ip][w] = admitted[ip][w]
      /\ \/ a = admitted[q.ip][q.window]
         \/ Incr(q) <= Burst /\ a = admitted[q.ip][q.window] + 1
  BY <1>1, <1>2
<1>4. /\ count'[q.ip][q.window] = Incr(q) /\ expires'[q.ip][q.window] = Expire(q)
      /\ \A ip \in IPs, w \in Windows : ip # q.ip \/ w # q.window =>
           count'[ip][w] = count[ip][w] /\ expires'[ip][w] = expires[ip][w]
  BY ScriptStep DEF Inv
<1>5. /\ Expire(q) # 0
      /\ \E k \in Nat :
           /\ (k + 1) * Window + q.window * Second <= Expire(q) + MaxSkew
           /\ a <= Burst * k + Incr(q)
           /\ a <= Burst * k + Burst
  <2> HIDE DEF a
  <2> QED
    BY <1>3, CounterOfCall
<1>6. CounterInv(q.ip, q.window)'
  BY <1>4, <1>5 DEF CounterInv, LivesInv
<1>7. ASSUME NEW ip \in IPs, NEW w \in Windows, ip # q.ip \/ w # q.window
      PROVE  CounterInv(ip, w)'
  <2>1. CounterInv(ip, w)
    BY DEF Inv
  <2> QED
    BY <1>3, <1>4, <1>7, <2>1 DEF CounterInv, LivesInv
<1> QED
  BY <1>6, <1>7

\* The script renews the life time of its own counter or leaves it alone.
LEMMA ScriptLife ==
  ASSUME Inv, NEW q \in Request, CallInv(q), q.at <= now, Script(q), now' = now
  PROVE  \A ip \in IPs, w \in Windows : LifeInv(ip, w)'
<1> DEFINE d == q.window * Second
           e == expires[q.ip][q.window]
<1>1. q.ip \in IPs /\ q.window \in Windows /\ q.window \in Nat /\ q.at \in Nat
  BY LimiterAssumption DEF Request, Windows
<1>2. /\ Second \in Nat /\ Window \in Nat /\ MaxDelay \in Nat /\ MaxSkew \in Nat
      /\ d \in Nat /\ e \in Nat /\ now \in Nat
  BY <1>1, LimiterAssumption DEF Inv, TypeOK
<1>3. /\ expires'[q.ip][q.window] = Expire(q)
      /\ \A ip \in IPs, w \in Windows : ip # q.ip \/ w # q.window =>
           expires'[ip][w] = expires[ip][w]
  BY ScriptStep DEF Inv
<1>4. d <= q.at + MaxSkew /\ q.at < d + Second /\ now <= q.at + MaxDelay
  BY DEF CallInv
<1>5. /\ d + Window <= (now + Window) + MaxSkew
      /\ now + Window < d + Second + MaxDelay + Window
  <2> HIDE DEF d
  <2> QED
    BY <1>1, <1>2, <1>4
<1>6. Expire(q) = now + Window \/ Expire(q) = e
  BY DEF Expire
<1>7. LifeInv(q.ip, q.window)'
  <2>1. CASE Expire(q) = now + Window
    BY <1>2, <1>3, <1>5, <2>1 DEF LifeInv
  <2>2. CASE Expire(q) = e
    <3>1. LifeInv(q.ip, q.window)
      BY <1>1 DEF Inv
    <3> QED
      BY <1>3, <2>2, <3>1 DEF LifeInv
  <2> QED
    BY <1>6, <2>1, <2>2
<1>8. ASSUME NEW ip \in IPs, NEW w \in Windows, ip # q.ip \/ w # q.window
      PROVE  LifeInv(ip, w)'
  <2>1. LifeInv(ip, w)
    BY DEF Inv
  <2> QED
    BY <1>3, <1>8, <2>1 DEF LifeInv
<1> QED
  BY <1>7, <1>8

----------------------------------------------------------------------------
(* Every step *)

\* A request that arrives names a counter of the second its replica reads.
LEMMA ArriveStep ==
  ASSUME TypeOK, NEW r \in Requests, Arrive(r)
  PROVE  \E q \in Request : req' = [req EXCEPT ![r] = {q}] /\ q.at = now /\ CallInv(q)
<1>1. PICK n \in Replicas, ip \in IPs :
        req' = [req EXCEPT ![r] =
                  {[on |-> n, ip |-> ip, window |-> Unix(n), at |-> now]}]
  BY DEF Arrive
<1>2. /\ now \in Nat /\ now <= MaxTime /\ Skew[n] \in Nat /\ Skew[n] <= MaxSkew
      /\ Second \in Nat \ {0} /\ MaxSkew \in Nat /\ MaxTime \in Nat /\ MaxDelay \in Nat
  BY LimiterAssumption DEF TypeOK
<1>3. /\ Unix(n) \in Nat /\ Unix(n) <= now + Skew[n]
      /\ Unix(n) * Second <= now + Skew[n] /\ now + Skew[n] < Unix(n) * Second + Second
  <2> DEFINE t == now + Skew[n]
  <2>1. t \in Nat
    BY <1>2
  <2>2. Unix(n) = t \div Second
    BY DEF Unix
  <2> HIDE DEF t
  <2>3. /\ t \div Second \in Nat /\ t \div Second <= t
        /\ (t \div Second) * Second <= t /\ t < (t \div Second) * Second + Second
    BY <1>2, <2>1, SecondOf
  <2>4. /\ Unix(n) \in Nat /\ Unix(n) <= t
        /\ Unix(n) * Second <= t /\ t < Unix(n) * Second + Second
    BY <2>2, <2>3
  <2> QED
    BY <2>4 DEF t
<1> DEFINE q == [on |-> n, ip |-> ip, window |-> Unix(n), at |-> now]
           d == Unix(n) * Second
<1>4. d \in Nat
  BY <1>2, <1>3
<1>5. Unix(n) \in Windows
  BY <1>2, <1>3 DEF Windows
<1>6. q \in Request
  BY <1>2, <1>5 DEF Request
<1>7. d <= now + Skew[n] /\ now + Skew[n] < d + Second
  BY <1>3
<1> HIDE DEF d
<1>8. d <= now + MaxSkew /\ now < d + Second /\ now <= now + MaxDelay
  BY <1>2, <1>4, <1>7
<1>9. CallInv(q)
  BY <1>8 DEF CallInv, d
<1> QED
  BY <1>1, <1>6, <1>9

\* The calls in flight after a step that starts none.
LEMMA CallsRemain ==
  ASSUME TypeOK, TypeOK', \A r \in Requests : req'[r] \subseteq req[r], now' = now,
         \A r \in Requests : \A q \in req[r] : CallInv(q)
  PROVE  (\A r \in Requests : \A q \in req[r] : CallInv(q))'
  BY DEF CallInv

LEMMA TypeNext ==
  ASSUME TypeOK, [Next]_vars
  PROVE  TypeOK'
<1> USE DEF TypeOK, Idle
<1>1. ASSUME NEW n \in Replicas, Start(n) PROVE TypeOK'
  BY <1>1 DEF Start
<1>2. ASSUME NEW n \in Replicas, Restart(n) PROVE TypeOK'
  BY <1>2 DEF Restart
<1>3. ASSUME NEW r \in Requests, Arrive(r) PROVE TypeOK'
  <2>1. PICK q \in Request : req' = [req EXCEPT ![r] = {q}] /\ q.at = now
    BY <1>3, ArriveStep
  <2> QED
    BY <1>3, <2>1 DEF Arrive
<1>4. ASSUME NEW r \in Requests, Allow(r) PROVE TypeOK'
  <2>1. PICK q \in req[r] :
          /\ Script(q)
          /\ admitted' = IF WithinBurst(Incr(q))
                         THEN [admitted EXCEPT ![q.ip][q.window] = @ + 1]
                         ELSE admitted
          /\ req' = [req EXCEPT ![r] = Idle]
          /\ UNCHANGED <<backend, now>>
    BY <1>4 DEF Allow
  <2>2. q \in Request /\ q.ip \in IPs /\ q.window \in Windows
    BY DEF Request
  <2>3. count' \in [IPs -> [Windows -> Nat]] /\ expires' \in [IPs -> [Windows -> Nat]]
    BY <2>1, <2>2, ScriptStep
  <2>4. admitted' \in [IPs -> [Windows -> Nat]]
    BY <2>1, <2>2
  <2> QED
    BY <2>1, <2>3, <2>4
<1>5. ASSUME NEW r \in Requests, FailOpen(r) PROVE TypeOK'
  <2>1. PICK q \in req[r] :
          /\ Script(q) \/ UNCHANGED <<count, expires>>
          /\ \E next \in {Idle, req[r]} : req' = [req EXCEPT ![r] = next]
          /\ UNCHANGED <<backend, now, admitted>>
    BY <1>5 DEF FailOpen
  <2>2. count' \in [IPs -> [Windows -> Nat]] /\ expires' \in [IPs -> [Windows -> Nat]]
    BY <2>1, ScriptStep
  <2> QED
    BY <2>1, <2>2
<1>6. CASE Tick
  BY <1>6, LimiterAssumption DEF Tick, Request
<1>7. CASE UNCHANGED vars
  BY <1>7 DEF vars
<1> QED
  BY <1>1, <1>2, <1>3, <1>4, <1>5, <1>6, <1>7 DEF Next

\* What the requests know of their calls is kept by every step.
LEMMA CallsNext ==
  ASSUME TypeOK, TypeOK', [Next]_vars, \A r \in Requests : \A q \in req[r] : CallInv(q)
  PROVE  (\A r \in Requests : \A q \in req[r] : CallInv(q))'
<1>1. ASSUME NEW r \in Requests, Arrive(r)
      PROVE  (\A k \in Requests : \A q \in req[k] : CallInv(q))'
  <2>1. PICK q \in Request :
          req' = [req EXCEPT ![r] = {q}] /\ q.at = now /\ CallInv(q)
    BY <1>1, ArriveStep
  <2> QED
    BY <1>1, <2>1 DEF Arrive, CallInv, TypeOK
<1>2. CASE Tick
  BY <1>2, LimiterAssumption DEF Tick, CallInv, TypeOK, Request
<1>3. ASSUME now' = now, \A r \in Requests : req'[r] \subseteq req[r]
      PROVE  (\A r \in Requests : \A q \in req[r] : CallInv(q))'
  BY <1>3, CallsRemain
<1>4. ASSUME NEW n \in Replicas, Start(n) \/ Restart(n)
      PROVE  now' = now /\ \A r \in Requests : req'[r] \subseteq req[r]
  BY <1>4 DEF Start, Restart, Idle
<1>5. ASSUME NEW r \in Requests, Allow(r) \/ FailOpen(r)
      PROVE  now' = now /\ \A k \in Requests : req'[k] \subseteq req[k]
  <2>1. now' = now /\ \E next \in {{}, req[r]} : req' = [req EXCEPT ![r] = next]
    BY <1>5 DEF Allow, FailOpen, Idle
  <2> QED
    BY <2>1 DEF TypeOK
<1>6. CASE UNCHANGED vars
  BY <1>3, <1>6 DEF vars
<1> QED
  BY <1>1, <1>2, <1>3, <1>4, <1>5, <1>6 DEF Next

LEMMA InvNext ==
  ASSUME Inv, [Next]_vars
  PROVE  Inv'
<1>1. TypeOK /\ TypeOK' /\ (\A r \in Requests : \A q \in req[r] : CallInv(q))'
  BY TypeNext, CallsNext DEF Inv
<1>2. /\ \A r \in Requests : \A q \in req[r] : q \in Request /\ CallInv(q) /\ q.at <= now
      /\ \A ip \in IPs, w \in Windows : LifeInv(ip, w) /\ CounterInv(ip, w)
  BY DEF Inv, TypeOK
<1> DEFINE Counters == \A ip \in IPs, w \in Windows : LifeInv(ip, w) /\ CounterInv(ip, w)
<1>3. ASSUME UNCHANGED <<count, expires, admitted>>, now' \in {now, now + 1} PROVE Counters'
  <2> SUFFICES ASSUME NEW ip \in IPs, NEW w \in Windows
               PROVE  LifeInv(ip, w)' /\ CounterInv(ip, w)'
    OBVIOUS
  <2>1. /\ LifeInv(ip, w) /\ CounterInv(ip, w)
        /\ now \in Nat /\ Window \in Nat /\ expires[ip][w] \in Nat
    BY <1>1, <1>2, LimiterAssumption DEF TypeOK
  <2>2. expires[ip][w] <= now + Window => expires[ip][w] <= now' + Window
    BY <1>3, <2>1
  <2>3. LifeInv(ip, w)'
    BY <1>3, <2>1, <2>2 DEF LifeInv
  <2>4. CounterInv(ip, w)'
    BY <1>3, <2>1 DEF CounterInv, LivesInv
  <2> QED
    BY <2>3, <2>4
<1>4. ASSUME NEW r \in Requests, Allow(r) PROVE Counters'
  <2>1. PICK q \in req[r] :
          /\ Script(q)
          /\ admitted' = IF WithinBurst(Incr(q))
                         THEN [admitted EXCEPT ![q.ip][q.window] = @ + 1]
                         ELSE admitted
          /\ now' = now
    BY <1>4 DEF Allow
  <2> QED
    BY <1>2, <2>1, ScriptInv, ScriptLife DEF WithinBurst
<1>5. ASSUME NEW r \in Requests, FailOpen(r) PROVE Counters'
  <2>1. PICK q \in req[r] :
          /\ Script(q) \/ UNCHANGED <<count, expires>>
          /\ UNCHANGED <<now, admitted>>
    BY <1>5 DEF FailOpen
  <2> QED
    BY <1>2, <1>3, <2>1, ScriptInv, ScriptLife
<1>6. ASSUME UNCHANGED vars PROVE Counters'
  BY <1>3, <1>6 DEF vars
<1>7. ASSUME NEW n \in Replicas, Start(n) \/ Restart(n) PROVE Counters'
  BY <1>3, <1>7 DEF Start, Restart
<1>8. ASSUME NEW r \in Requests, Arrive(r) PROVE Counters'
  BY <1>3, <1>8 DEF Arrive
<1>9. ASSUME Tick PROVE Counters'
  BY <1>3, <1>9 DEF Tick
<1>10. Counters'
  BY <1>4, <1>5, <1>6, <1>7, <1>8, <1>9 DEF Next
<1> QED
  BY <1>1, <1>10 DEF Inv

----------------------------------------------------------------------------
\* Every reachable state of the limiter is well formed, whatever the delays
\* and the skew: every counter a call names is among those of the model.
THEOREM TypeCorrect == Spec => []TypeOK
<1>1. Init => TypeOK
  BY InvInit DEF Inv
<1> QED
  BY <1>1, TypeNext, PTL DEF Spec

----------------------------------------------------------------------------
(* How often one counter can be created *)

\* How many lives, or seconds, fit into a span of time.
LEMMA SecondsWithin ==
  ASSUME NEW d \in Int, NEW t \in Nat, NEW S \in Nat \ {0}, d * S <= t
  PROVE  t \div S \in Nat /\ d <= t \div S
<1> DEFINE k == t \div S
<1>1. k \in Nat /\ t < k * S + S
  OBVIOUS
<1> HIDE DEF k
<1>2. d * S < (k + 1) * S
  BY <1>1
<1>3. d < k + 1
  <2> SUFFICES ASSUME k + 1 <= d PROVE FALSE
    BY <1>1
  <2>1. (k + 1) * S <= d * S
    BY <1>1
  <2>2. (k + 1) * S \in Int /\ d * S \in Int
    BY <1>1
  <2> QED
    BY <1>2, <2>1, <2>2
<1> QED
  BY <1>1, <1>3 DEF k

\* A client never has more requests of one second admitted than Burst for each
\* life its counter can have, for any life time, delay and skew, over all
\* replicas, restarts, failed and repeated calls.
THEOREM WindowIsBounded == Spec => []WindowBounded
<1>1. Init => Inv
  BY InvInit
<1>2. Inv /\ [Next]_vars => Inv'
  BY InvNext
<1>3. Inv => WindowBounded
  <2> SUFFICES ASSUME Inv, NEW ip \in IPs, NEW w \in Windows
               PROVE  admitted[ip][w] <= Burst * Lives
    BY DEF WindowBounded
  <2> DEFINE t == Second + MaxDelay + MaxSkew - 1
             m == t \div Window
             e == expires[ip][w]
             d == w * Second
             a == admitted[ip][w]
  <2>1. /\ Second \in Nat \ {0} /\ Window \in Nat \ {0} /\ MaxDelay \in Nat
        /\ MaxSkew \in Nat /\ Burst \in Nat /\ t \in Nat /\ w \in Nat
        /\ e \in Nat /\ a \in Nat /\ d \in Nat
    BY LimiterAssumption DEF Inv, TypeOK, Windows
  <2>2. m \in Nat /\ Lives = m + 1
    <3>1. m \in Nat
      <4> HIDE DEF t
      <4> QED
        BY <2>1
    <3>2. Lives = 1 + m
      BY DEF Lives
    <3> HIDE DEF m
    <3> QED
      BY <3>1, <3>2
  <2>3. CASE e = 0
    <3>1. a = 0
      BY <2>3 DEF Inv, CounterInv
    <3>2. Burst * Lives \in Nat
      <4> HIDE DEF m
      <4> QED
        BY <2>1, <2>2
    <3> QED
      BY <3>1, <3>2
  <2>4. CASE e # 0
    <3>1. PICK k \in Nat : (k + 1) * Window + d <= e + MaxSkew /\ a <= Burst * k + Burst
      BY <2>4 DEF Inv, CounterInv, LivesInv
    <3>2. e < d + Second + MaxDelay + Window
      BY <2>4 DEF Inv, LifeInv
    <3> HIDE DEF m, e, d, a
    <3>3. k * Window <= t
      <4> DEFINE u == k * Window
      <4>1. u \in Nat /\ (k + 1) * Window = u + Window
        BY <2>1
      <4>2. u + Window + d <= e + MaxSkew
        BY <3>1, <4>1
      <4> HIDE DEF u
      <4>3. u <= t
        BY <2>1, <3>2, <4>1, <4>2
      <4> QED
        BY <4>3 DEF u
    <3>4. k <= m
      <4> HIDE DEF t
      <4>1. k <= t \div Window
        BY <2>1, <3>3, SecondsWithin
      <4> QED
        BY <4>1 DEF m
    <3>5. Burst * k + Burst <= Burst * (m + 1)
      <4>1. PICK j \in Nat : m = k + j
        BY <2>2, <3>4
      <4>2. Burst * (m + 1) = Burst * k + Burst * j + Burst
        BY <2>1, <4>1
      <4>3. Burst * k \in Nat /\ Burst * j \in Nat
        BY <2>1
      <4> QED
        BY <2>1, <4>2, <4>3
    <3>6. Burst * k \in Nat /\ Burst * (m + 1) \in Nat
      BY <2>1, <2>2
    <3>7. a <= Burst * Lives
      BY <2>1, <2>2, <3>1, <3>5, <3>6
    <3> QED
      BY <3>7 DEF a
  <2> QED
    BY <2>3, <2>4
<1> QED
  BY <1>1, <1>2, <1>3, PTL DEF Spec

----------------------------------------------------------------------------
(* No counter stays behind *)

\* The live counters of a client are those of KeysAtOnce seconds in a row, up
\* to the one the fastest clock is in.
LEMMA LiveKeys ==
  ASSUME Inv, NEW ip \in IPs
  PROVE  LET last == (now + MaxSkew) \div Second
         IN  /\ last \in Int /\ KeysAtOnce \in Nat
             /\ {w \in Windows : Live(ip, w)} \subseteq (last - KeysAtOnce + 1)..last
<1> DEFINE last == (now + MaxSkew) \div Second
           t == Window + MaxDelay + MaxSkew + Second - 1
           k == t \div Second
<1>1. /\ Second \in Nat \ {0} /\ Window \in Nat \ {0} /\ MaxDelay \in Nat /\ MaxSkew \in Nat
      /\ now \in Nat /\ t \in Nat /\ now + MaxSkew \in Nat
  BY LimiterAssumption DEF Inv, TypeOK
<1>2. k \in Nat /\ KeysAtOnce = k + 1
  <2>1. k \in Nat
    <3> HIDE DEF t
    <3> QED
      BY <1>1
  <2>2. KeysAtOnce = 1 + k
    BY DEF KeysAtOnce
  <2> HIDE DEF k
  <2> QED
    BY <2>1, <2>2
<1>3. /\ last \in Nat /\ last * Second <= now + MaxSkew
      /\ now + MaxSkew < last * Second + Second
  BY <1>1, SecondOf
<1>4. ASSUME NEW w \in Windows, Live(ip, w)
      PROVE  w <= last /\ last - w <= k
  <2> DEFINE e == expires[ip][w]
             d == w * Second
             l == last * Second
  <2>1. w \in Nat /\ e \in Nat
    BY <1>1, LimiterAssumption DEF Windows, Inv, TypeOK
  <2>2. d \in Nat /\ l \in Nat
    BY <1>1, <1>3, <2>1
  <2>3. now < e /\ e # 0
    BY <1>1, <1>4, <2>1 DEF Live
  <2>4. /\ e <= now + Window /\ d + Window <= e + MaxSkew
        /\ e < d + Second + MaxDelay + Window
    BY <2>3 DEF Inv, LifeInv
  <2>5. l <= now + MaxSkew /\ now + MaxSkew < l + Second
    BY <1>3
  <2>6. d <= now + MaxSkew /\ l - d <= t
    <3> HIDE DEF d, l, e, last
    <3> QED
      BY <1>1, <2>1, <2>2, <2>3, <2>4, <2>5
  <2>7. last - w <= k
    <3>1. last - w \in Int /\ (last - w) * Second = l - d
      <4> HIDE DEF last
      <4> QED
        BY <1>1, <1>3, <2>1
    <3>2. (last - w) * Second <= t
      BY <2>6, <3>1
    <3> HIDE DEF last, t
    <3> QED
      BY <1>1, <3>1, <3>2, SecondsWithin
  <2>8. w <= last
    <3> HIDE DEF last
    <3>1. w <= (now + MaxSkew) \div Second
      BY <1>1, <2>1, <2>6, SecondsWithin
    <3> QED
      BY <3>1 DEF last
  <2> QED
    BY <2>7, <2>8
<1> HIDE DEF last, k
<1>5. {w \in Windows : Live(ip, w)} \subseteq (last - KeysAtOnce + 1)..last
  <2> SUFFICES ASSUME NEW w \in Windows, Live(ip, w)
               PROVE  w \in (last - KeysAtOnce + 1)..last
    OBVIOUS
  <2>1. w \in Nat
    BY LimiterAssumption DEF Windows
  <2>2. w <= last /\ last - w <= k
    BY <1>4
  <2> QED
    BY <1>2, <1>3, <2>1, <2>2
<1> QED
  BY <1>2, <1>3, <1>5 DEF last

\* No counter stays behind, for any delay and skew: what a client has in Redis
\* is bounded.
THEOREM KeysGoAway == Spec => []NoKeyStaysBehind
<1>1. Init => Inv
  BY InvInit
<1>2. Inv /\ [Next]_vars => Inv'
  BY InvNext
<1>3. Inv => NoKeyStaysBehind
  <2> SUFFICES ASSUME Inv, NEW ip \in IPs
               PROVE  Cardinality({w \in Windows : Live(ip, w)}) <= KeysAtOnce
    BY DEF NoKeyStaysBehind
  <2> DEFINE keys == {w \in Windows : Live(ip, w)}
             last == (now + MaxSkew) \div Second
             first == last - KeysAtOnce + 1
  <2>1. last \in Int /\ KeysAtOnce \in Nat /\ keys \subseteq first..last
    BY LiveKeys
  <2> HIDE DEF keys, last
  <2>2. /\ IsFiniteSet(first..last)
        /\ Cardinality(first..last) = IF first > last THEN 0 ELSE last - first + 1
    BY <2>1, FS_Interval
  <2>3. Cardinality(first..last) <= KeysAtOnce /\ Cardinality(first..last) \in Nat
    BY <2>1, <2>2
  <2>4. IsFiniteSet(keys) /\ Cardinality(keys) <= Cardinality(first..last)
    BY <2>1, <2>2, FS_Subset
  <2>5. Cardinality(keys) \in Nat
    BY <2>4, FS_CardinalityType
  <2>6. Cardinality(keys) <= KeysAtOnce
    <3> HIDE DEF first
    <3> QED
      BY <2>1, <2>3, <2>4, <2>5
  <2> QED
    BY <2>6 DEF keys
<1> QED
  BY <1>1, <1>2, <1>3, PTL DEF Spec
=============================================================================
