------------------------------ MODULE MCRedis ------------------------------
(* Model-checking instances of RedisLimiter. *)
EXTENDS RedisLimiter, TLC

\* All replicas read the same clock.
NoSkew == [n \in Replicas |-> 0]

\* The clock of one replica is a tick ahead of the others'.
OneAhead == LET fast == CHOOSE n \in Replicas : TRUE
            IN  [n \in Replicas |-> IF n = fast THEN 1 ELSE 0]

\* Replicas are told apart by their clocks, requests are not.
Interchangeable == Permutations(Requests)
=============================================================================
