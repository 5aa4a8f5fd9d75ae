------------------------------ MODULE Sessions ------------------------------
(***************************************************************************)
(* What refresh-token rotation promises, without requests, statements or   *)
(* clocks.  A session is opened by a signup or a login and named after its *)
(* first token.  At any time it has one current token, or is being         *)
(* exchanged (its token is consumed and the next one not there yet), or    *)
(* has ended; an ended session never has a current token again.            *)
(***************************************************************************)
CONSTANTS Tokens, Users, None

VARIABLES
  owner,       \* [Tokens -> user of the session, None if never opened]
  current,     \* [Tokens -> the current token of the session, as a set]
  exchanging,  \* sessions whose token was taken for an exchange
  issued       \* tokens generated so far

svars == <<owner, current, exchanging, issued>>

Init ==
  /\ owner = [s \in Tokens |-> None]
  /\ current = [s \in Tokens |-> {}]
  /\ exchanging = {}
  /\ issued = {}

Open(s, u) ==
  /\ s \notin issued
  /\ owner' = [owner EXCEPT ![s] = u]
  /\ current' = [current EXCEPT ![s] = {s}]
  /\ issued' = issued \cup {s}
  /\ UNCHANGED exchanging

\* Only a session with a current token can be taken, and it loses that token.
Take(s) ==
  /\ current[s] # {}
  /\ s \notin exchanging
  /\ current' = [current EXCEPT ![s] = {}]
  /\ exchanging' = exchanging \cup {s}
  /\ UNCHANGED <<owner, issued>>

Renew(s, t) ==
  /\ s \in exchanging
  /\ t \notin issued
  /\ current' = [current EXCEPT ![s] = {t}]
  /\ exchanging' = exchanging \ {s}
  /\ issued' = issued \cup {t}
  /\ UNCHANGED owner

\* The exchange fails or is cut off: the session has no token any more.
Abandon(s) ==
  /\ s \in exchanging
  /\ exchanging' = exchanging \ {s}
  /\ UNCHANGED <<owner, current, issued>>

\* One session ends, or all the sessions of one user with a current token.
End(s) ==
  /\ current' = [current EXCEPT ![s] = {}]
  /\ UNCHANGED <<owner, exchanging, issued>>

EndAll(u) ==
  /\ current' = [s \in Tokens |-> IF owner[s] = u THEN {} ELSE current[s]]
  /\ UNCHANGED <<owner, exchanging, issued>>

Next ==
  \/ \E s \in Tokens :
       \/ \E u \in Users : Open(s, u)
       \/ Take(s) \/ Abandon(s) \/ End(s)
       \/ \E t \in Tokens : Renew(s, t)
  \/ \E u \in Users : EndAll(u)

Spec == Init /\ [][Next]_svars
=============================================================================
