------------------------------ MODULE MCAccess ------------------------------
(* Model-checking instances of AccessTokens. *)
EXTENDS AccessTokens, TLC

\* The clock of one replica is a tick ahead of the others'.
OneAhead == LET fast == CHOOSE r \in Replicas : TRUE
            IN  [r \in Replicas |-> IF r = fast THEN 1 ELSE 0]

\* Sessions and refresh tokens, and users, are interchangeable; replicas are
\* told apart by their clocks.
Interchangeable == Permutations(Tokens) \cup Permutations(Users)
=============================================================================
