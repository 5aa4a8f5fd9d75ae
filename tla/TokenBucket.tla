---------------------------- MODULE TokenBucket ----------------------------
(***************************************************************************)
(* What a rate limiter promises: each client has a bucket that holds Cap   *)
(* units, starts full, gains Rate units a tick and pays Cost units for a   *)
(* request.  A request is admitted exactly when its bucket can pay for it. *)
(***************************************************************************)
EXTENDS Naturals

CONSTANTS IPs, Cap, Rate, Cost

VARIABLES
  level,     \* [IPs -> units in the bucket]
  answer     \* the last request and whether it was admitted

bvars == <<level, answer>>

Refill(n) == IF n + Rate > Cap THEN Cap ELSE n + Rate

Init ==
  /\ level = [ip \in IPs |-> Cap]
  /\ answer = <<>>

Tick ==
  /\ level' = [ip \in IPs |-> Refill(level[ip])]
  /\ UNCHANGED answer

Admit(ip) ==
  /\ level[ip] >= Cost
  /\ level' = [level EXCEPT ![ip] = @ - Cost]
  /\ answer' = <<ip, "admitted">>

Refuse(ip) ==
  /\ level[ip] < Cost
  /\ answer' = <<ip, "refused">>
  /\ UNCHANGED level

Next == Tick \/ \E ip \in IPs : Admit(ip) \/ Refuse(ip)

Spec == Init /\ [][Next]_bvars
=============================================================================
