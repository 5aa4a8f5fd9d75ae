------------------------------- MODULE MCAuth -------------------------------
(* Model-checking instances of AuthService. *)
EXTENDS AuthService, TLC

\* Requests, tokens, emails and passwords are interchangeable.
Interchangeable ==
  Permutations(Requests) \cup Permutations(Tokens)
    \cup Permutations(Emails) \cup Permutations(Passwords)
=============================================================================
