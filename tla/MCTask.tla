------------------------------- MODULE MCTask -------------------------------
(* Model-checking instances of TaskService. *)
EXTENDS TaskService, TLC

\* Requests, users and titles are interchangeable; ids are ordered.
Interchangeable ==
  Permutations(Requests) \cup Permutations(Users) \cup Permutations(Titles)

\* Nothing asked for, one row, and more than a page may hold.
AskedFor == {-1, 1, MaxPageLimit + 1}
=============================================================================
