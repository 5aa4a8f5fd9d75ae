--------------------------- MODULE RedisLimiter ---------------------------
(***************************************************************************)
(* The Redis-backed rate limiter shared by the replicas of the API:        *)
(* middleware/ratelimit_redis.go behind middleware/ratelimit.go.           *)
(*                                                                         *)
(* A request reads the clock of its replica, names a counter after its     *)
(* client and the Unix second it read, and has Redis run a script that     *)
(* increments the counter and, when it is new, gives it windowMillis to    *)
(* live.  Between the two the request travels: time passes, other requests *)
(* of all replicas run, and the counter may expire.  A call that fails is  *)
(* sent again by the client library or lets the request pass.              *)
(*                                                                         *)
(* A replica that cannot reach Redis when it starts uses MemoryLimiter for *)
(* as long as it runs; its requests do not appear here.                    *)
(***************************************************************************)
EXTENDS Naturals, FiniteSets

CONSTANTS
  Replicas,
  IPs,          \* what clientIP returns
  Requests,     \* slots for requests in flight at one time
  Burst,
  Second,       \* ticks in a second, the unit of the name of a counter
  Window,       \* windowMillis in ticks, the life time of a counter
  Skew,         \* [Replicas -> ticks its clock is ahead of the slowest]
  MaxSkew,
  MaxDelay,     \* ticks between reading the clock and running the script
  MaxCount,     \* calls that one counter counts (bound)
  MaxTime       \* the last tick (bound)

ASSUME LimiterAssumption ==
  /\ Burst \in Nat /\ Second \in Nat \ {0} /\ Window \in Nat \ {0}
  /\ MaxSkew \in Nat /\ MaxDelay \in Nat
  /\ MaxCount \in Nat /\ MaxTime \in Nat
  /\ Skew \in [Replicas -> 0..MaxSkew]

VARIABLES
  backend,      \* [Replicas -> the limiter the replica uses]
  count,        \* [IPs -> [Windows -> value of the counter]]
  expires,      \* [IPs -> [Windows -> when it expires, 0 if never created]]
  req,          \* the requests in flight
  now,          \* the clock of the slowest replica
  admitted      \* history: [IPs -> [Windows -> requests admitted by count]]

vars == <<backend, count, expires, req, now, admitted>>

\* The seconds a counter can be named after (bound).
Windows == 0..(MaxTime + MaxSkew)

Request == [on: Replicas, ip: IPs, window: Windows, at: Nat]

\* A slot without a request.
Idle == {}

Init ==
  /\ backend = [n \in Replicas |-> "starting"]
  /\ count = [ip \in IPs |-> [w \in Windows |-> 0]]
  /\ expires = [ip \in IPs |-> [w \in Windows |-> 0]]
  /\ req = [r \in Requests |-> Idle]
  /\ now = 0
  /\ admitted = [ip \in IPs |-> [w \in Windows |-> 0]]

----------------------------------------------------------------------------
\* NewRateLimiter: Redis if it answers the ping, otherwise memory; for good.
Start(n) ==
  /\ backend[n] = "starting"
  /\ \E b \in {"redis", "memory"} : backend' = [backend EXCEPT ![n] = b]
  /\ UNCHANGED <<count, expires, req, now, admitted>>

\* The process dies, and its requests with it; the counters are in Redis.
Restart(n) ==
  /\ backend[n] # "starting"
  /\ backend' = [backend EXCEPT ![n] = "starting"]
  /\ req' = [r \in Requests |->
               IF \E q \in req[r] : q.on = n THEN Idle ELSE req[r]]
  /\ UNCHANGED <<count, expires, now, admitted>>

\* time.Now().Unix() on a replica.
Unix(n) == (now + Skew[n]) \div Second

\* The middleware asks the limiter, which names the counter.
Arrive(r) ==
  /\ req[r] = Idle
  /\ \E n \in Replicas, ip \in IPs :
       /\ backend[n] = "redis"
       /\ req' = [req EXCEPT ![r] =
                    {[on |-> n, ip |-> ip, window |-> Unix(n), at |-> now]}]
  /\ UNCHANGED <<backend, count, expires, now, admitted>>

Live(ip, w) == now < expires[ip][w]

\* INCR: a counter that is not there, or no longer, counts as 0.
Incr(q) == IF Live(q.ip, q.window) THEN count[q.ip][q.window] + 1 ELSE 1

\* Mutant: a crash between INCR and EXPIRE leaves a counter without life time.
ExpireNever(q) ==
  IF Live(q.ip, q.window) THEN expires[q.ip][q.window] ELSE MaxTime + Window

\* Mutant: the life time is shorter than the second the counter is named after.
ExpireEarly(q) ==
  IF Incr(q) = 1 THEN now + Window - 1 ELSE expires[q.ip][q.window]

\* PEXPIRE on the first increment only.
Expire(q) == IF Incr(q) = 1 THEN now + Window ELSE expires[q.ip][q.window]

\* The script runs, in one step.
Script(q) ==
  /\ Incr(q) <= MaxCount
  /\ count' = [count EXCEPT ![q.ip][q.window] = Incr(q)]
  /\ expires' = [expires EXCEPT ![q.ip][q.window] = Expire(q)]

WithinBurst(n) == n <= Burst

\* The answer of the script reaches the middleware, which serves the request
\* or answers 429.
Allow(r) ==
  \E q \in req[r] :
    /\ Script(q)
    /\ admitted' = IF WithinBurst(Incr(q))
                   THEN [admitted EXCEPT ![q.ip][q.window] = @ + 1]
                   ELSE admitted
    /\ req' = [req EXCEPT ![r] = Idle]
    /\ UNCHANGED <<backend, now>>

\* The call fails, with or without the script having run.  The client library
\* sends it again, or the middleware lets the request pass.
FailOpen(r) ==
  \E q \in req[r] :
    /\ Script(q) \/ UNCHANGED <<count, expires>>
    /\ \E next \in {Idle, req[r]} : req' = [req EXCEPT ![r] = next]
    /\ UNCHANGED <<backend, now, admitted>>

\* No call takes longer than MaxDelay.
Tick ==
  /\ now < MaxTime
  /\ \A r \in Requests : \A q \in req[r] : now < q.at + MaxDelay
  /\ now' = now + 1
  /\ UNCHANGED <<backend, count, expires, req, admitted>>

Next == \/ \E n \in Replicas : Start(n) \/ Restart(n)
        \/ \E r \in Requests : Arrive(r) \/ Allow(r) \/ FailOpen(r)
        \/ Tick

Spec == Init /\ [][Next]_vars

----------------------------------------------------------------------------
(* Properties *)

\* The variables have their types: a slot holds at most one request, and it
\* did not arrive in the future.
TypeOK ==
  /\ backend \in [Replicas -> {"starting", "redis", "memory"}]
  /\ count \in [IPs -> [Windows -> Nat]]
  /\ expires \in [IPs -> [Windows -> Nat]]
  /\ admitted \in [IPs -> [Windows -> Nat]]
  /\ now \in 0..MaxTime
  /\ req \in [Requests -> SUBSET Request]
  /\ \A r \in Requests : \A q \in req[r] : req[r] = {q} /\ q.at <= now

\* "A fixed 1-second window counter capped at burst requests per window"
\* (redisBackend.allow): over all replicas no client has more than Burst
\* requests of one second admitted by count.  This is false as soon as a call
\* takes time or clocks differ, since a counter lives no longer than the second
\* it is named after and a late call creates it again.
WindowCapped == \A ip \in IPs, w \in Windows : admitted[ip][w] <= Burst

\* How often the counter of one second can be created: the calls that name it
\* run between the moment the fastest clock enters the second and MaxDelay
\* after the slowest one leaves it, and each life takes up Window of that.
Lives == 1 + (Second + MaxDelay + MaxSkew - 1) \div Window

\* What the limiter does guarantee: over all replicas, their restarts, late,
\* failing and repeated calls and clocks that differ, a client has at most
\* Burst requests of one second admitted per life of its counter.  With
\* windowMillis of one second that is twice the burst as long as delay and skew
\* together stay within a second.
WindowBounded == \A ip \in IPs, w \in Windows : admitted[ip][w] <= Burst * Lives

\* The counters that can be there at once: those of the seconds in which a call
\* that ran within the last Window may have been named.
KeysAtOnce == 1 + (Window + MaxDelay + MaxSkew + Second - 1) \div Second

\* "Avoids ... a key with no TTL" (ratelimit_redis.go): no counter stays behind,
\* whatever a client sends and however long; with windowMillis of one second
\* and delay and skew within a second together a client has the counters of
\* three seconds at most.
NoKeyStaysBehind ==
  \A ip \in IPs : Cardinality({w \in Windows : Live(ip, w)}) <= KeysAtOnce
=============================================================================
