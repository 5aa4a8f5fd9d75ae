------------------------ MODULE MemoryLimiterProofs ------------------------
(***************************************************************************)
(* Proofs about MemoryLimiter, for any clients, burst, rate and clock.     *)
(***************************************************************************)
EXTENDS MemoryLimiter, TLAPS

LEMMA CapIsNat == Cap \in Nat
  BY LimiterAssumption DEF Cap

\* Multiplication by the rate, in the forms the proofs below need.
LEMMA Earned ==
  ASSUME NEW m \in Nat, NEW n \in Nat, NEW R \in Nat, n <= m
  PROVE  /\ (m - n) * R \in Nat
         /\ (m + 1 - n) * R = (m - n) * R + R
         /\ (m + 1) * R = m * R + R
  OBVIOUS

LEMMA EarnedGrows ==
  ASSUME NEW m \in Nat, NEW n \in Nat, NEW R \in Nat, n <= m
  PROVE  n * R <= m * R
  OBVIOUS

LEMMA LevelIsNat ==
  ASSUME TypeOK
  PROVE  \A ip \in IPs : Level(ip) \in Nat /\ Level(ip) <= Cap
<1> SUFFICES ASSUME NEW ip \in IPs PROVE Level(ip) \in Nat /\ Level(ip) <= Cap
  OBVIOUS
<1>1. CASE ip \in known
  <2>1. /\ now \in Nat /\ last[ip] \in Nat /\ last[ip] <= now /\ tokens[ip] \in Nat
        /\ Rate \in Nat
    BY <1>1, LimiterAssumption DEF TypeOK
  <2>2. (now - last[ip]) * Rate \in Nat
    BY <2>1, Earned
  <2> QED
    BY <1>1, <2>1, <2>2, CapIsNat DEF Level, Advance
<1>2. CASE ip \notin known
  BY <1>2, CapIsNat DEF Level
<1> QED
  BY <1>1, <1>2

----------------------------------------------------------------------------
(* The level of every bucket after each step *)

LEMMA TypeInit == Init => TypeOK
  BY DEF Init, TypeOK

LEMMA AllowStep ==
  ASSUME TypeOK, NEW ip \in IPs, Allow(ip)
  PROVE  /\ TypeOK'
         /\ \A j \in IPs \ {ip} : Level(j)' = Level(j)
         /\ Level(ip)' = IF Level(ip) >= Cost THEN Level(ip) - Cost ELSE Level(ip)
<1>1. /\ Level(ip) \in Nat /\ Level(ip) <= Cap /\ Cap \in Nat /\ Cost \in Nat
      /\ Rate \in Nat /\ now \in Nat /\ now' = now
      /\ tokens \in [IPs -> Nat] /\ last \in [IPs -> Nat] /\ lastSeen \in [IPs -> Nat]
      /\ admitted \in [IPs -> Nat]
  BY LevelIsNat, CapIsNat, LimiterAssumption DEF TypeOK, Allow, Seen
<1>2. \A j \in IPs \ {ip} :
        /\ tokens'[j] = tokens[j] /\ last'[j] = last[j] /\ lastSeen'[j] = lastSeen[j]
        /\ j \in known' <=> j \in known
  BY <1>1 DEF Allow, Seen
<1>3. \A j \in IPs \ {ip} : Level(j)' = Level(j)
  BY <1>1, <1>2 DEF Level, Advance
<1>4. ip \in known' /\ lastSeen'[ip] = now
  BY <1>1 DEF Allow, Seen
<1>5. CASE Level(ip) >= Cost
  <2>1. /\ tokens' = [tokens EXCEPT ![ip] = Level(ip) - Cost]
        /\ last' = [last EXCEPT ![ip] = now]
        /\ admitted' = [admitted EXCEPT ![ip] = @ + 1]
    BY <1>1, <1>5 DEF Allow, Seen
  <2>2. tokens'[ip] = Level(ip) - Cost /\ last'[ip] = now
    BY <1>1, <2>1
  <2>3. Level(ip) - Cost \in Nat /\ Level(ip) - Cost <= Cap
    BY <1>1, <1>5
  <2>4. TypeOK'
    <3>1. /\ tokens' \in [IPs -> Nat] /\ last' \in [IPs -> Nat]
          /\ lastSeen' \in [IPs -> Nat] /\ admitted' \in [IPs -> Nat]
      BY <1>1, <2>1, <2>3 DEF Allow, Seen
    <3> QED
      BY <1>1, <1>2, <1>4, <2>2, <2>3, <3>1 DEF TypeOK, Allow, Seen
  <2>5. Level(ip)' = Level(ip) - Cost
    <3>1. (now - now) * Rate = 0
      BY <1>1
    <3>2. Advance(ip)' = Level(ip) - Cost
      BY <1>1, <2>2, <2>3, <3>1 DEF Advance
    <3> QED
      BY <1>4, <3>2 DEF Level
  <2> QED
    BY <1>3, <1>5, <2>4, <2>5
<1>6. CASE ~(Level(ip) >= Cost)
  <2>1. /\ tokens' = [tokens EXCEPT ![ip] = IF ip \in known THEN @ ELSE Cap]
        /\ last' = [last EXCEPT ![ip] = IF ip \in known THEN @ ELSE now]
        /\ admitted' = admitted
    BY <1>1, <1>6 DEF Allow, Seen
  <2>2. /\ tokens'[ip] = IF ip \in known THEN tokens[ip] ELSE Cap
        /\ last'[ip] = IF ip \in known THEN last[ip] ELSE now
    BY <1>1, <2>1
  <2>3. TypeOK'
    <3>1. /\ tokens' \in [IPs -> Nat] /\ last' \in [IPs -> Nat]
          /\ lastSeen' \in [IPs -> Nat] /\ admitted' \in [IPs -> Nat]
      BY <1>1, <2>1 DEF Allow, Seen
    <3>2. tokens'[ip] <= Cap /\ last'[ip] <= now
      BY <1>1, <2>2 DEF TypeOK
    <3> QED
      BY <1>1, <1>2, <1>4, <3>1, <3>2 DEF TypeOK, Allow, Seen
  <2>4. Level(ip)' = Level(ip)
    <3>1. CASE ip \in known
      BY <1>1, <1>4, <2>2, <3>1 DEF Level, Advance
    <3>2. CASE ip \notin known
      <4>1. (now - now) * Rate = 0
        BY <1>1
      <4>2. Advance(ip)' = Cap
        BY <1>1, <2>2, <3>2, <4>1 DEF Advance
      <4> QED
        BY <1>4, <3>2, <4>2 DEF Level
    <3> QED
      BY <3>1, <3>2
  <2> QED
    BY <1>3, <1>6, <2>3, <2>4
<1> QED
  BY <1>5, <1>6

LEMMA TickStep ==
  ASSUME TypeOK, Tick
  PROVE  TypeOK' /\ \A ip \in IPs : Level(ip)' = B!Refill(Level(ip))
<1>1. /\ now \in Nat /\ now' = now + 1 /\ Rate \in Nat /\ Cap \in Nat
      /\ UNCHANGED <<known, tokens, last, lastSeen, answer, admitted>>
  BY CapIsNat, LimiterAssumption DEF TypeOK, Tick
<1>2. TypeOK'
  BY <1>1 DEF TypeOK
<1>3. ASSUME NEW ip \in IPs, ip \in known
      PROVE  Level(ip)' = B!Refill(Level(ip))
  <2>1. tokens[ip] \in Nat /\ last[ip] \in Nat /\ last[ip] <= now
    BY <1>1, <1>3 DEF TypeOK
  <2>2. PICK e \in Nat : e = (now - last[ip]) * Rate
    BY <1>1, <2>1, Earned
  <2>3. (now' - last'[ip]) * Rate = e + Rate
    BY <1>1, <2>1, <2>2, Earned
  <2>4. Level(ip)' = IF tokens[ip] + (e + Rate) > Cap THEN Cap ELSE tokens[ip] + (e + Rate)
    BY <1>1, <1>3, <2>3 DEF Level, Advance
  <2>5. Level(ip) = IF tokens[ip] + e > Cap THEN Cap ELSE tokens[ip] + e
    BY <1>3, <2>2 DEF Level, Advance
  <2> QED
    BY <1>1, <2>1, <2>4, <2>5 DEF B!Refill
<1>4. ASSUME NEW ip \in IPs, ip \notin known
      PROVE  Level(ip)' = B!Refill(Level(ip))
  BY <1>1, <1>4 DEF Level, B!Refill
<1> QED
  BY <1>2, <1>3, <1>4

\* Forgetting a visitor changes no bucket when the limits have refilled it.
LEMMA CleanupStep ==
  ASSUME TypeOK, Cleanup
  PROVE  /\ TypeOK'
         /\ RefilledBeforeEviction => \A ip \in IPs : Level(ip)' = Level(ip)
<1>1. /\ known' \subseteq known
      /\ UNCHANGED <<tokens, last, lastSeen, now, answer, admitted>>
  BY DEF Cleanup
<1>2. TypeOK'
  BY <1>1 DEF TypeOK
<1>3. ASSUME RefilledBeforeEviction, NEW ip \in IPs
      PROVE  Level(ip)' = Level(ip)
  <2>1. CASE ip \in known /\ Stale(ip)
    <3>1. /\ tokens[ip] \in Nat /\ last[ip] \in Nat /\ last[ip] <= lastSeen[ip]
          /\ lastSeen[ip] \in Nat /\ lastSeen[ip] <= now /\ now \in Nat
          /\ EvictAfter \in Nat /\ Rate \in Nat /\ Cap \in Nat
      BY <2>1, CapIsNat, LimiterAssumption DEF TypeOK
    <3>2. now - last[ip] \in Nat /\ EvictAfter + 1 <= now - last[ip]
      BY <2>1, <3>1 DEF Stale
    <3>3. (EvictAfter + 1) * Rate <= (now - last[ip]) * Rate
      BY <3>1, <3>2, EarnedGrows
    <3>4. PICK e \in Nat : e = (now - last[ip]) * Rate
      BY <3>1, Earned
    <3>5. PICK d \in Nat : d = (EvictAfter + 1) * Rate
      BY <3>1
    <3>6. Cap <= e
      BY <1>3, <3>1, <3>3, <3>4, <3>5 DEF RefilledBeforeEviction
    <3>7. Advance(ip) = Cap
      BY <3>1, <3>4, <3>6 DEF Advance
    <3>8. ip \notin known'
      BY <2>1 DEF Cleanup
    <3> QED
      BY <2>1, <3>7, <3>8, <1>1 DEF Level, Cap
  <2>2. CASE ~(ip \in known /\ Stale(ip))
    <3>1. ip \in known' <=> ip \in known
      BY <2>2 DEF Cleanup
    <3> QED
      BY <1>1, <3>1 DEF Level, Advance
  <2> QED
    BY <2>1, <2>2
<1> QED
  BY <1>2, <1>3

----------------------------------------------------------------------------
(* The theorems *)

LEMMA TypeStep ==
  ASSUME TypeOK, [Next]_vars
  PROVE  TypeOK'
<1>1. CASE UNCHANGED vars
  BY <1>1 DEF vars, TypeOK
<1>2. CASE Next
  BY <1>2, AllowStep, TickStep, CleanupStep DEF Next
<1> QED
  BY <1>1, <1>2

\* The limiters and the times of allow and cleanupLoop are well typed: no
\* limiter holds more than its burst and none was used after it was last seen.
THEOREM TypeCorrect == Spec => []TypeOK
  BY TypeInit, TypeStep, PTL DEF Spec

\* When the limits refill a bucket before cleanupLoop can forget its visitor,
\* allow admits and refuses exactly as one bucket per client would.
THEOREM EvictionIsInvisible == RefilledBeforeEviction => (Spec => ImplementsBucket)
<1> SUFFICES ASSUME RefilledBeforeEviction PROVE Spec => ImplementsBucket
  OBVIOUS
<1>1. Init => B!Init
  BY DEF Init, B!Init, Level
<1>2. TypeOK /\ [Next]_vars => [B!Next]_B!bvars
  <2> SUFFICES ASSUME TypeOK, [Next]_vars PROVE [B!Next]_B!bvars
    OBVIOUS
  <2>1. CASE UNCHANGED vars
    BY <2>1 DEF vars, B!bvars, Level, Advance
  <2>2. CASE Tick
    <3>1. B!Tick
      BY <2>2, TickStep DEF B!Tick, Tick
    <3> QED
      BY <3>1 DEF B!Next
  <2>3. CASE Cleanup
    BY <2>3, CleanupStep DEF B!bvars, Cleanup
  <2>4. ASSUME NEW ip \in IPs, Allow(ip) PROVE [B!Next]_B!bvars
    <3>1. CASE Level(ip) >= Cost
      <4>1. answer' = <<ip, "admitted">>
        BY <2>4, <3>1, LevelIsNat, LimiterAssumption DEF Allow, Seen
      <4>2. \A j \in IPs : Level(j)' = IF j = ip THEN Level(ip) - Cost ELSE Level(j)
        BY <2>4, <3>1, AllowStep
      <4>3. [j \in IPs |-> Level(j)]'
              = [[j \in IPs |-> Level(j)] EXCEPT ![ip] = Level(ip) - Cost]
        BY <4>2
      <4>4. B!Admit(ip)
        BY <3>1, <4>1, <4>3 DEF B!Admit
      <4> QED
        BY <4>4 DEF B!Next
    <3>2. CASE ~(Level(ip) >= Cost)
      <4>1. B!Refuse(ip)
        BY <2>4, <3>2, AllowStep, LevelIsNat, LimiterAssumption DEF B!Refuse, Allow
      <4> QED
        BY <4>1 DEF B!Next
    <3> QED
      BY <3>1, <3>2
  <2> QED
    BY <2>1, <2>2, <2>3, <2>4 DEF Next
<1> QED
  BY <1>1, <1>2, TypeCorrect, PTL DEF Spec, ImplementsBucket, B!Spec

\* What a client was admitted for and what its bucket still holds never
\* exceed its burst and what its rate earned since the start.
Accounting ==
  \A ip \in IPs : admitted[ip] * Cost + Level(ip) <= Cap + now * Rate

LEMMA AccountingStep ==
  ASSUME TypeOK, Accounting, RefilledBeforeEviction, [Next]_vars
  PROVE  Accounting'
<1>1. /\ Cap \in Nat /\ Cost \in Nat /\ Rate \in Nat /\ now \in Nat
      /\ admitted \in [IPs -> Nat]
      /\ \A ip \in IPs : Level(ip) \in Nat
  BY CapIsNat, LevelIsNat, LimiterAssumption DEF TypeOK
<1>2. CASE UNCHANGED vars
  BY <1>2 DEF vars, Accounting, Level, Advance
<1>3. CASE Cleanup
  BY <1>3, CleanupStep DEF Accounting, Cleanup
<1>4. CASE Tick
  <2> SUFFICES ASSUME NEW ip \in IPs
               PROVE  admitted'[ip] * Cost + Level(ip)' <= Cap + now' * Rate
    BY DEF Accounting
  <2>1. admitted' = admitted /\ now' = now + 1
    BY <1>4 DEF Tick
  <2>2. PICK e \in Nat : e = now * Rate
    BY <1>1
  <2>3. now' * Rate = e + Rate
    BY <1>1, <2>1, <2>2, Earned
  <2>4. PICK a \in Nat : a = admitted[ip] * Cost
    BY <1>1
  <2>5. Level(ip)' <= Level(ip) + Rate /\ Level(ip)' \in Nat
    BY <1>1, <1>4, TickStep DEF B!Refill
  <2>6. a + Level(ip) <= Cap + e
    BY <2>2, <2>4 DEF Accounting
  <2> QED
    BY <1>1, <2>1, <2>3, <2>4, <2>5, <2>6
<1>5. ASSUME NEW ip \in IPs, Allow(ip) PROVE Accounting'
  <2> SUFFICES ASSUME NEW j \in IPs
               PROVE  admitted'[j] * Cost + Level(j)' <= Cap + now * Rate
    BY <1>5 DEF Accounting, Allow
  <2>1. CASE j # ip
    BY <1>1, <1>5, <2>1, AllowStep DEF Accounting, Allow
  <2>2. CASE j = ip /\ Level(ip) >= Cost
    <3>1. admitted'[ip] = admitted[ip] + 1
      BY <1>1, <1>5, <2>2 DEF Allow, Seen
    <3>2. PICK a \in Nat : a = admitted[ip] * Cost
      BY <1>1
    <3>3. admitted'[ip] * Cost = a + Cost
      BY <1>1, <3>1, <3>2, Earned
    <3>4. PICK e \in Nat : e = now * Rate
      BY <1>1
    <3>5. Level(ip)' = Level(ip) - Cost
      BY <1>5, <2>2, AllowStep
    <3>6. a + Level(ip) <= Cap + e
      BY <3>2, <3>4 DEF Accounting
    <3> QED
      BY <1>1, <2>2, <3>3, <3>4, <3>5, <3>6
  <2>3. CASE j = ip /\ ~(Level(ip) >= Cost)
    <3>1. admitted' = admitted
      BY <1>1, <1>5, <2>3 DEF Allow, Seen
    <3>2. Level(ip)' = Level(ip)
      BY <1>5, <2>3, AllowStep
    <3> QED
      BY <2>3, <3>1, <3>2 DEF Accounting
  <2> QED
    BY <2>1, <2>2, <2>3
<1> QED
  BY <1>2, <1>3, <1>4, <1>5 DEF Next

\* Under the same condition allow never admits more requests of a client than
\* its burst plus what its rate earned, whatever it forgets and whenever.
THEOREM AdmissionsAreBounded == RefilledBeforeEviction => (Spec => []AdmissionsBounded)
<1> SUFFICES ASSUME RefilledBeforeEviction PROVE Spec => []AdmissionsBounded
  OBVIOUS
<1>1. Init => Accounting
  <2> SUFFICES ASSUME Init, NEW ip \in IPs
               PROVE  admitted[ip] * Cost + Level(ip) <= Cap + now * Rate
    BY DEF Accounting
  <2>1. admitted[ip] = 0 /\ now = 0 /\ Level(ip) = Cap
    BY DEF Init, Level
  <2>2. 0 * Cost = 0 /\ 0 * Rate = 0
    BY LimiterAssumption
  <2> QED
    BY <2>1, <2>2, CapIsNat
<1>2. TypeOK /\ Accounting /\ [Next]_vars => Accounting'
  BY AccountingStep
<1>3. TypeOK /\ Accounting => AdmissionsBounded
  <2> SUFFICES ASSUME TypeOK, Accounting, NEW ip \in IPs
               PROVE  admitted[ip] * Cost <= Cap + now * Rate
    BY DEF AdmissionsBounded
  <2>1. PICK a \in Nat, e \in Nat : a = admitted[ip] * Cost /\ e = now * Rate
    BY LimiterAssumption DEF TypeOK
  <2>2. a + Level(ip) <= Cap + e
    BY <2>1 DEF Accounting
  <2> QED
    BY <2>1, <2>2, LevelIsNat, CapIsNat
<1> QED
  BY <1>1, <1>2, <1>3, TypeCorrect, PTL DEF Spec
============================================================================
