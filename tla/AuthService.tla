---------------------------- MODULE AuthService ----------------------------
(***************************************************************************)
(* Signup, login, refresh-token rotation and logout: service/auth_service  *)
(* over the users and refresh_tokens tables, as served by the auth         *)
(* handlers.                                                               *)
(*                                                                         *)
(* Every request is a process whose steps are the SQL statements it sends  *)
(* and the local decisions between them; no transaction spans two          *)
(* statements, so the steps of concurrent requests interleave freely.  A   *)
(* request acts on the row it read earlier (existing), not on the row that *)
(* is in the table when it acts.                                           *)
(*                                                                         *)
(* A refresh token stands for its plaintext, its hash and the id of its    *)
(* row: 32 random bytes never collide, and the UNIQUE hash and the         *)
(* BIGSERIAL id determine each other.  A user is identified with the       *)
(* UNIQUE email; the bcrypt hash of a user is represented by the password  *)
(* that it verifies.                                                       *)
(***************************************************************************)
EXTENDS Naturals, FiniteSets, HttpErrors

CONSTANTS
  Emails,       \* users.email
  Passwords,
  Requests,     \* slots for requests in flight at one time
  Tokens,       \* refresh tokens that can be generated (bound)
  RefreshTTL,   \* life time of a refresh token, in ticks
  MaxTime,      \* the last tick of the clock (bound)
  None          \* no value: SQL NULL, a nil pointer, an unknown token

ASSUME TimeAssumption == RefreshTTL \in Nat /\ MaxTime \in Nat
ASSUME NoneAssumption == None \notin Emails \cup Passwords \cup Tokens

VARIABLES
  users,        \* [Emails -> password of the user, None when there is none]
  tokens,       \* the refresh_tokens table
  delivered,    \* tokens whose plaintext reached a client
  req,          \* the requests in flight
  now           \* the wall clock

vars == <<users, tokens, delivered, req, now>>

----------------------------------------------------------------------------
(* A row of refresh_tokens.  Status is "live" while revoked_at IS NULL (an *)
(* expired row is live too).  session and parent are history: the token a  *)
(* login or signup started from, and the token this one was exchanged for. *)

Status == {"absent", "live", "revoked"}

Row == [status: Status, user: Emails \cup {None}, expires: Nat,
        session: Tokens \cup {None}, parent: Tokens \cup {None}]

NoRow == [status |-> "absent", user |-> None, expires |-> 0,
          session |-> None, parent |-> None]

Ops == {"signup", "login", "refresh", "logout"}

PCs == {"idle", "createUser", "findUser", "find", "decide",
        "revoke", "revokeAll", "issue", "reply"}

Request == [op: Ops \cup {"none"}, pc: PCs,
            email: Emails \cup {None}, password: Passwords \cup {None},
            token: Tokens \cup {None},      \* the refresh token presented
            existing: Row,                  \* the row FindByHash returned
            pair: Tokens \cup {None},       \* the refresh token issued
            code: Nat]                      \* the status of the response

Idle == [op |-> "none", pc |-> "idle", email |-> None, password |-> None,
         token |-> None, existing |-> NoRow, pair |-> None, code |-> 0]

Init ==
  /\ users = [e \in Emails |-> None]
  /\ tokens = [t \in Tokens |-> NoRow]
  /\ delivered = {}
  /\ req = [r \in Requests |-> Idle]
  /\ now = 0

At(r, pc) == req[r].pc = pc

Absent == {t \in Tokens : tokens[t].status = "absent"}
Live == {t \in Tokens : tokens[t].status = "live"}

\* A refresh whose token is revoked and whose replacement is not inserted yet.
Exchanging(r) == At(r, "issue") /\ req[r].op = "refresh"

----------------------------------------------------------------------------
(* Control *)

Become(r, q) == req' = [req EXCEPT ![r] = q]

Goto(r, pc) == Become(r, [req[r] EXCEPT !.pc = pc])

Answer(r, code) == Become(r, [req[r] EXCEPT !.pc = "reply", !.code = code])

Fail(r, err) == Answer(r, writeDomainError(err))

\* A statement that committed.  Its acknowledgement can still be lost with
\* the connection; the code sees an error and answers 500.
Acknowledge(r, outcome) == outcome \/ Answer(r, InternalError)

----------------------------------------------------------------------------
(* The handlers: decode and validate the body, then call the service.      *)

\* Bound: no request that may issue a token starts unless every such request
\* finds a token that was never generated.  A refresh with a token that is no
\* longer live issues none.
TokensToSpare ==
  Cardinality(Absent) >
    Cardinality({r \in Requests : req[r].op \in {"signup", "login", "refresh"}})

Start(r, op, pc, email, password, token) ==
  /\ At(r, "idle")
  /\ Become(r, [Idle EXCEPT !.op = op, !.pc = pc, !.email = email,
                            !.password = password, !.token = token])
  /\ UNCHANGED <<users, tokens, delivered, now>>

\* The password is hashed before the user is stored.  bcrypt refuses one of
\* more than 72 bytes, which Validate accepts: that signup is answered 500.
Signup(r, e, p) ==
  \/ Start(r, "signup", "createUser", e, p, None)
  \/ /\ At(r, "idle")
     /\ Become(r, [Idle EXCEPT !.op = "signup", !.pc = "reply",
                               !.email = e, !.code = InternalError])
     /\ UNCHANGED <<users, tokens, delivered, now>>

BeginSignup(r) ==
  /\ TokensToSpare
  /\ \E e \in Emails, p \in Passwords : Signup(r, e, p)

BeginLogin(r) ==
  /\ TokensToSpare
  /\ \E e \in Emails, p \in Passwords :
       Start(r, "login", "findUser", e, p, None)

\* A client presents a token it received, or a string that is no token.
BeginRefresh(r) ==
  \E t \in delivered \cup {None} :
    /\ t \in Live => TokensToSpare
    /\ Start(r, "refresh", "find", None, None, t)

BeginLogout(r) ==
  \E t \in delivered \cup {None} : Start(r, "logout", "find", None, None, t)

\* Malformed JSON or a body that fails Validate.
Reject(r) ==
  /\ At(r, "idle")
  /\ \E op \in Ops :
       Become(r, [Idle EXCEPT !.op = op, !.pc = "reply", !.code = BadRequest])
  /\ UNCHANGED <<users, tokens, delivered, now>>

----------------------------------------------------------------------------
(* Users *)

\* Mutant: users.email is not UNIQUE.
TakenNever(e) == FALSE

\* The UNIQUE constraint on users.email.
Taken(e) == users[e] # None

CreateUser(r) ==
  /\ At(r, "createUser")
  /\ \/ /\ Taken(req[r].email)
        /\ Fail(r, "ErrAlreadyExists")
        /\ UNCHANGED users
     \/ /\ ~Taken(req[r].email)
        /\ users' = [users EXCEPT ![req[r].email] = req[r].password]
        /\ Acknowledge(r, Goto(r, "issue"))
  /\ UNCHANGED <<tokens, delivered, now>>

\* The credential of the row with this email; None is ErrNotFound.
FindByEmail(e) == users[e]

\* An unknown email and a wrong password get the same answer.
FindUser(r) ==
  /\ At(r, "findUser")
  /\ IF FindByEmail(req[r].email) = req[r].password
     THEN Goto(r, "issue")
     ELSE Fail(r, "ErrInvalidCredentials")
  /\ UNCHANGED <<users, tokens, delivered, now>>

----------------------------------------------------------------------------
(* Refresh tokens *)

Expired(row) == now > row.expires

FindByHash(r) ==
  /\ At(r, "find")
  /\ IF req[r].token = None
     THEN Fail(r, "ErrTokenInvalid")
     ELSE Become(r, [req[r] EXCEPT !.pc = "decide",
                                   !.existing = tokens[req[r].token]])
  /\ UNCHANGED <<users, tokens, delivered, now>>

\* Reuse is answered by revoking every token of the user.
OnReuse(r) == Goto(r, "revokeAll")

\* Refresh: a revoked token is reuse, an expired one is refused, any other
\* is revoked before its replacement is issued.
DecideRefresh(r) ==
  /\ At(r, "decide") /\ req[r].op = "refresh"
  /\ LET row == req[r].existing IN
       \/ row.status = "revoked" /\ OnReuse(r)
       \/ row.status # "revoked" /\ Expired(row) /\ Fail(r, "ErrTokenInvalid")
       \/ row.status # "revoked" /\ ~Expired(row) /\ Goto(r, "revoke")
  /\ UNCHANGED <<users, tokens, delivered, now>>

\* Mutant: an expired token counts as logged out.
LoggedOutOrExpired(row) == row.status = "revoked" \/ Expired(row)

\* Logout of a revoked token succeeds without writing; expiry is not looked at.
LoggedOut(row) == row.status = "revoked"

DecideLogout(r) ==
  /\ At(r, "decide") /\ req[r].op = "logout"
  /\ IF LoggedOut(req[r].existing) THEN Answer(r, NoContent)
                                   ELSE Goto(r, "revoke")
  /\ UNCHANGED <<users, tokens, delivered, now>>

\* Mutant: UPDATE ... WHERE id = $1
RevokeMatchesId(t) == tokens[t].status # "absent"

\* UPDATE ... WHERE id = $1 AND revoked_at IS NULL
RevokeMatches(t) == tokens[t].status = "live"

\* No row affected is ErrNotFound, which both callers pass on.
Revoke(r) ==
  /\ At(r, "revoke")
  /\ LET t == req[r].token IN
       \/ /\ RevokeMatches(t)
          /\ tokens' = [tokens EXCEPT ![t].status = "revoked"]
          /\ Acknowledge(r, IF req[r].op = "refresh" THEN Goto(r, "issue")
                                                     ELSE Answer(r, NoContent))
       \/ /\ ~RevokeMatches(t)
          /\ Fail(r, "ErrNotFound")
          /\ UNCHANGED tokens
  /\ UNCHANGED <<users, delivered, now>>

\* Mutant: UPDATE ... WHERE revoked_at IS NULL
RevokeAllMatchesAnyUser(t, user) == tokens[t].status = "live"

\* UPDATE ... WHERE user_id = $1 AND revoked_at IS NULL
RevokeAllMatches(t, user) == tokens[t].status = "live" /\ tokens[t].user = user

RevokeAllForUser(r) ==
  /\ At(r, "revokeAll")
  /\ tokens' = [t \in Tokens |->
                  IF RevokeAllMatches(t, req[r].existing.user)
                  THEN [tokens[t] EXCEPT !.status = "revoked"]
                  ELSE tokens[t]]
  /\ Acknowledge(r, Fail(r, "ErrTokenInvalid"))
  /\ UNCHANGED <<users, delivered, now>>

----------------------------------------------------------------------------
(* issueTokenPair *)

ExpiresAt == now + RefreshTTL

Owner(r) == IF req[r].op = "refresh" THEN req[r].existing.user ELSE req[r].email

NewRow(r, t) ==
  [status |-> "live", user |-> Owner(r), expires |-> ExpiresAt,
   session |-> IF req[r].op = "refresh" THEN req[r].existing.session ELSE t,
   parent |-> req[r].token]

IssueTokenPair(r) ==
  /\ At(r, "issue")
  /\ \E t \in Absent :
       /\ tokens' = [tokens EXCEPT ![t] = NewRow(r, t)]
       /\ Acknowledge(r, Become(r, [req[r] EXCEPT
            !.pc = "reply", !.pair = t,
            !.code = IF req[r].op = "signup" THEN Created ELSE OK]))
  /\ UNCHANGED <<users, delivered, now>>

----------------------------------------------------------------------------
(* The end of a request *)

\* Mutant: the pair is written to the response without looking at the error.
PairUnchecked(r) == {req[r].pair}

\* The refresh token in the response, if there is one.
PairReturned(r) == {req[r].pair} \ {None}

\* The client receives the response, and with it the plaintext of the pair.
Reply(r) ==
  /\ At(r, "reply")
  /\ delivered' = delivered \cup PairReturned(r)
  /\ Become(r, Idle)
  /\ UNCHANGED <<users, tokens, now>>

\* A statement or the random generator fails without effect.
Fault(r) ==
  /\ req[r].pc \in {"createUser", "findUser", "find", "revoke", "revokeAll", "issue"}
  /\ Answer(r, InternalError)
  /\ UNCHANGED <<users, tokens, delivered, now>>

\* The request ends where it is: TimeoutHandler answered 503 and cancelled
\* its context, the client went away, or the process died.  What was
\* committed stays, nothing more is written and no token is delivered.
Cancel(r) ==
  /\ ~At(r, "idle")
  /\ Become(r, Idle)
  /\ UNCHANGED <<users, tokens, delivered, now>>

Tick ==
  /\ now < MaxTime
  /\ now' = now + 1
  /\ UNCHANGED <<users, tokens, delivered, req>>

Begin(r) == \/ BeginSignup(r) \/ BeginLogin(r) \/ BeginRefresh(r)
            \/ BeginLogout(r) \/ Reject(r)

Step(r) == \/ CreateUser(r) \/ FindUser(r) \/ FindByHash(r)
           \/ DecideRefresh(r) \/ DecideLogout(r)
           \/ Revoke(r) \/ RevokeAllForUser(r) \/ IssueTokenPair(r)
           \/ Reply(r)

Next == \/ \E r \in Requests : Begin(r) \/ Step(r) \/ Fault(r) \/ Cancel(r)
        \/ Tick

Spec == Init /\ [][Next]_vars

----------------------------------------------------------------------------
(* Properties *)

\* The variables have their types: every row, snapshot and response is well
\* formed and no expiry lies before the epoch.
TypeOK ==
  /\ users \in [Emails -> Passwords \cup {None}]
  /\ tokens \in [Tokens -> Row]
  /\ delivered \subseteq Tokens
  /\ req \in [Requests -> Request]
  /\ now \in Nat

\* A session never has two tokens that could be exchanged: at most one of its
\* tokens is live, none is while an exchange is between its two statements,
\* and no two exchanges of one session are there at once, however the
\* requests of the clients that hold its tokens interleave.
OneCurrentToken ==
  /\ \A t, u \in Live : tokens[t].session = tokens[u].session => t = u
  /\ \A r \in Requests, t \in Live :
       Exchanging(r) => tokens[t].session # req[r].existing.session
  /\ \A r, q \in Requests :
       /\ Exchanging(r) /\ Exchanging(q)
       /\ req[r].existing.session = req[q].existing.session
       => r = q

\* "Each refresh token is single-use" (auth_service.go): no token is ever
\* exchanged for two others, also when it is presented twice at once or its
\* exchange is retried after a fault.
SingleUse ==
  \A t, u \in Tokens :
    tokens[t].parent # None /\ tokens[t].parent = tokens[u].parent => t = u

\* A token pair is only issued to a client that proved the password the
\* account has: of two signups racing for one email the loser gets nothing.
IssueAuthenticated ==
  \A r \in Requests :
    At(r, "issue") /\ req[r].op \in {"signup", "login"}
      => req[r].password = users[req[r].email] /\ users[req[r].email] # None

\* A client told that its refresh (200) or its logout (204) succeeded
\* presented a token that is revoked, whatever ran in between.
SuccessRevokes ==
  \A r \in Requests :
    /\ At(r, "reply")
    /\ \/ req[r].op = "refresh" /\ req[r].code = OK
       \/ req[r].op = "logout" /\ req[r].code = NoContent
    => tokens[req[r].token].status = "revoked"

\* The abstract state: who opened a session, its live token, the exchanges
\* between their two statements, and the rows inserted so far.
sessionOwner ==
  [s \in Tokens |-> IF tokens[s].session = s THEN tokens[s].user ELSE None]
sessionTokens == [s \in Tokens |-> {t \in Live : tokens[t].session = s}]
sessionsExchanging ==
  {req[r].existing.session : r \in {q \in Requests : Exchanging(q)}}

S == INSTANCE Sessions WITH
       Users <- Emails, owner <- sessionOwner, current <- sessionTokens,
       exchanging <- sessionsExchanging, issued <- Tokens \ Absent

\* Rotation implements the abstract sessions: an ended session never gets a
\* current token again, an exchange takes the token of one session and
\* renews that session only, and reuse ends the sessions of one user only.
ImplementsSessions == S!Spec

----------------------------------------------------------------------------
(* What the documentation says and the code does not do                    *)

\* auth_service.go: the answer to reuse is "to revoke every refresh token for
\* that user, forcing re-authentication everywhere".  Once the request that
\* met the reuse is answered, the session of the reused token has no live
\* token.
ReuseEndsSession ==
  \A r \in Requests :
    /\ At(r, "reply") /\ req[r].op = "refresh" /\ req[r].code = 401
    /\ req[r].existing.status = "revoked"
    => \A t \in Live : tokens[t].session # req[r].existing.session
=============================================================================
