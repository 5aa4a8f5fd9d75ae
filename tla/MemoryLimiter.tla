--------------------------- MODULE MemoryLimiter ---------------------------
(***************************************************************************)
(* The in-memory rate limiter: middleware/ratelimit_memory.go, a map from  *)
(* client IP to a visitor, and the rate.Limiter of golang.org/x/time that  *)
(* a visitor holds.  The limiter stores its tokens as of the last request  *)
(* it admitted and computes the refill when it is asked.  A background     *)
(* loop forgets visitors that were idle for a while.  Both run under one   *)
(* mutex, so allow and one sweep are atomic.                               *)
(*                                                                         *)
(* Time is discrete.  A token is worth Cost units and Rate units arrive    *)
(* each tick, so any ratio of burst and rps has an instance.               *)
(***************************************************************************)
EXTENDS Naturals

CONSTANTS
  IPs,
  Burst,        \* tokens in a full bucket
  Rate, Cost,   \* units per tick, units per token
  EvictAfter,   \* a visitor idle for longer is forgotten: 3 minutes
  MaxTime       \* the last tick (bound)

ASSUME LimiterAssumption ==
  /\ Burst \in Nat /\ Rate \in Nat /\ Cost \in Nat
  /\ EvictAfter \in Nat /\ MaxTime \in Nat

VARIABLES
  known,        \* the keys of the map
  tokens,       \* [IPs -> units in the limiter as of last]
  last,         \* [IPs -> time of the last request the limiter admitted]
  lastSeen,     \* [IPs -> time of the last request]
  now,
  answer,       \* the last request and its outcome
  admitted      \* history: [IPs -> requests admitted so far]

vars == <<known, tokens, last, lastSeen, now, answer, admitted>>

Cap == Burst * Cost

Init ==
  /\ known = {}
  /\ tokens = [ip \in IPs |-> 0]
  /\ last = [ip \in IPs |-> 0]
  /\ lastSeen = [ip \in IPs |-> 0]
  /\ now = 0
  /\ answer = <<>>
  /\ admitted = [ip \in IPs |-> 0]

\* rate.Limiter.advance: the tokens the limiter has now.
Advance(ip) ==
  LET n == tokens[ip] + (now - last[ip]) * Rate
  IN  IF n > Cap THEN Cap ELSE n

\* A visitor that is not in the map gets a new limiter, which is full.
Level(ip) == IF ip \in known THEN Advance(ip) ELSE Cap

\* Mutant: only a new visitor is seen.
SeenAtCreation(ip) == IF ip \in known THEN lastSeen[ip] ELSE now

\* Every request of a visitor counts as seen, a refused one too.
Seen(ip) == now

\* A refused request leaves the limiter as it is.
Allow(ip) ==
  /\ known' = known \cup {ip}
  /\ lastSeen' = [lastSeen EXCEPT ![ip] = Seen(ip)]
  /\ \/ /\ Level(ip) >= Cost
        /\ tokens' = [tokens EXCEPT ![ip] = Level(ip) - Cost]
        /\ last' = [last EXCEPT ![ip] = now]
        /\ answer' = <<ip, "admitted">>
        /\ admitted' = [admitted EXCEPT ![ip] = @ + 1]
     \/ /\ Level(ip) < Cost
        /\ tokens' = [tokens EXCEPT ![ip] = IF ip \in known THEN @ ELSE Cap]
        /\ last' = [last EXCEPT ![ip] = IF ip \in known THEN @ ELSE now]
        /\ answer' = <<ip, "refused">>
        /\ UNCHANGED admitted
  /\ UNCHANGED now

\* Mutant: a visitor is forgotten one tick early.
StaleEarly(ip) == now - lastSeen[ip] >= EvictAfter

Stale(ip) == now - lastSeen[ip] > EvictAfter

\* One pass of cleanupLoop.  The ticker's phase against the requests is open.
Cleanup ==
  /\ \E ip \in known : Stale(ip)
  /\ known' = {ip \in known : ~Stale(ip)}
  /\ UNCHANGED <<tokens, last, lastSeen, now, answer, admitted>>

Tick ==
  /\ now < MaxTime
  /\ now' = now + 1
  /\ UNCHANGED <<known, tokens, last, lastSeen, answer, admitted>>

Next == Tick \/ Cleanup \/ \E ip \in IPs : Allow(ip)

Spec == Init /\ [][Next]_vars

----------------------------------------------------------------------------
(* Properties *)

\* The variables have their types and no stored time lies ahead of the clock.
TypeOK ==
  /\ known \subseteq IPs
  /\ now \in Nat
  /\ tokens \in [IPs -> Nat]
  /\ last \in [IPs -> Nat] /\ lastSeen \in [IPs -> Nat]
  /\ admitted \in [IPs -> Nat]
  /\ \A ip \in known : /\ tokens[ip] <= Cap
                       /\ last[ip] <= lastSeen[ip] /\ lastSeen[ip] <= now

\* The limits refill a bucket before its visitor can be forgotten.  With the
\* defaults (5 per second, burst 10, 3 minutes) they do so many times over.
RefilledBeforeEviction == Cap <= (EvictAfter + 1) * Rate

\* However long a client waits and however often it is forgotten, it has not
\* been admitted more often than its burst and its rate allow.
AdmissionsBounded == \A ip \in IPs : admitted[ip] * Cost <= Cap + now * Rate

\* The lazy refill and the eviction of idle visitors cannot be told from one
\* bucket per client that is filled all the time: every request is admitted
\* or refused as that bucket demands.
B == INSTANCE TokenBucket WITH level <- [ip \in IPs |-> Level(ip)]

ImplementsBucket == B!Spec
=============================================================================
