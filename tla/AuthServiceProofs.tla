------------------------- MODULE AuthServiceProofs -------------------------
(***************************************************************************)
(* Proofs about AuthService, for any sets of users, passwords, tokens and  *)
(* requests, any life time of a token and any clock.                       *)
(***************************************************************************)
EXTENDS AuthService, TLAPS

----------------------------------------------------------------------------
(* The inductive invariant *)

Present(t) == tokens[t].status # "absent"

\* Rows: an absent row is empty, and a row belongs to the user of the session
\* it is in, which started from a token of its own.
RowInv ==
  /\ \A t \in Tokens : ~Present(t) => tokens[t] = NoRow
  /\ \A t \in Tokens : Present(t) =>
       /\ tokens[t].user \in Emails
       /\ tokens[t].session \in Tokens
       /\ Present(tokens[t].session)
       /\ tokens[tokens[t].session].session = tokens[t].session
       /\ tokens[tokens[t].session].user = tokens[t].user
  /\ \A t \in delivered : Present(t)

\* The snapshot a request holds is the row of the token it presented, except
\* that a live snapshot may be stale: the row can have been revoked since.
Snapshot(q) ==
  /\ q.token \in Tokens
  /\ Present(q.token)
  /\ q.existing.session = tokens[q.token].session
  /\ q.existing.user = tokens[q.token].user
  /\ q.existing.status = "revoked" => tokens[q.token].status = "revoked"

\* What a request holds at each of its steps.
RequestInv(q) ==
  /\ q.pc = "createUser" =>
       q.op = "signup" /\ q.email \in Emails /\ q.password \in Passwords
  /\ q.pc = "findUser" =>
       q.op = "login" /\ q.email \in Emails /\ q.password \in Passwords
  /\ q.pc = "find" =>
       /\ q.op \in {"refresh", "logout"}
       /\ q.token # None => q.token \in Tokens /\ Present(q.token)
  /\ q.pc \in {"decide", "revoke"} => q.op \in {"refresh", "logout"} /\ Snapshot(q)
  /\ q.pc = "revokeAll" => q.op = "refresh" /\ Snapshot(q)
  /\ q.pc = "issue" =>
       \/ /\ q.op \in {"signup", "login"} /\ q.token = None /\ q.email \in Emails
          /\ q.password \in Passwords /\ q.password = users[q.email]
       \/ /\ q.op = "refresh" /\ Snapshot(q)
          /\ tokens[q.token].status = "revoked"
  /\ q.token # None => q.op \in {"refresh", "logout"}
  /\ q.pair # None => q.pair \in Tokens /\ Present(q.pair)
  /\ /\ q.pc = "reply"
     /\ \/ q.op = "refresh" /\ q.code = OK
        \/ q.op = "logout" /\ q.code = NoContent
     => q.token \in Tokens /\ tokens[q.token].status = "revoked"

\* A token that was exchanged is revoked, and one whose exchange is between
\* its two statements has not been exchanged before.
LineageInv ==
  /\ \A t \in Tokens : tokens[t].parent # None =>
       /\ tokens[t].parent \in Tokens
       /\ tokens[tokens[t].parent].status = "revoked"
  /\ \A r \in Requests, t \in Tokens :
       Exchanging(r) => tokens[t].parent # req[r].token

Inv ==
  /\ TypeOK
  /\ RowInv
  /\ \A r \in Requests : RequestInv(req[r])
  /\ OneCurrentToken
  /\ LineageInv
  /\ SingleUse

----------------------------------------------------------------------------
(* The control helpers *)

LEMMA StatusIsNat == \A err : writeDomainError(err) \in Nat
  BY DEF writeDomainError, StatusOf, InternalError

LEMMA Codes ==
  /\ OK \in Nat /\ Created \in Nat /\ NoContent \in Nat
  /\ BadRequest \in Nat /\ InternalError \in Nat
  /\ BadRequest \notin {OK, NoContent} /\ InternalError \notin {OK, NoContent}
  BY DEF OK, Created, NoContent, BadRequest, InternalError

LEMMA IdleIsRequest == Idle \in Request /\ NoRow \in Row
  BY DEF Idle, Request, NoRow, Row, Status, Ops, PCs

LEMMA InitInv == Init => Inv
<1> SUFFICES ASSUME Init PROVE Inv
  OBVIOUS
<1>1. TypeOK
  BY IdleIsRequest DEF Init, TypeOK
<1>2. RowInv
  BY DEF Init, RowInv, Present, NoRow
<1>3. \A r \in Requests : RequestInv(req[r])
  BY DEF Init, RequestInv, Idle
<1>4. OneCurrentToken /\ LineageInv /\ SingleUse
  BY DEF Init, OneCurrentToken, LineageInv, SingleUse, Live, Exchanging, At,
         Idle, NoRow
<1> QED
  BY <1>1, <1>2, <1>3, <1>4 DEF Inv

\* A step of one request that writes to no table and starts no exchange
\* keeps the invariant when what the request holds afterwards fits its step.
LEMMA LocalStep ==
  ASSUME Inv, NEW r \in Requests, NEW q \in Request, Become(r, q),
         UNCHANGED <<users, tokens, delivered, now>>,
         RequestInv(q), ~(q.pc = "issue" /\ q.op = "refresh")
  PROVE  Inv'
<1>1. req' = [req EXCEPT ![r] = q] /\ req \in [Requests -> Request]
  BY DEF Become, Inv, TypeOK
<1>2. TypeOK'
  BY <1>1 DEF Inv, TypeOK
<1>3. RowInv'
  BY DEF Inv, RowInv, Present
<1>4. (\A k \in Requests : RequestInv(req[k]))'
  <2>1. \A k \in Requests : req'[k] = IF k = r THEN q ELSE req[k]
    BY <1>1
  <2>2. \A k \in Requests : RequestInv(req'[k])
    BY <2>1 DEF Inv
  <2> QED
    BY <2>2 DEF RequestInv, Snapshot, Present
<1>5. \A k \in Requests : Exchanging(k)' => Exchanging(k) /\ req'[k] = req[k]
  BY <1>1 DEF Exchanging, At
<1>6. OneCurrentToken'
  BY <1>5 DEF Inv, OneCurrentToken, Live
<1>7. LineageInv' /\ SingleUse'
  BY <1>5 DEF Inv, LineageInv, SingleUse
<1> QED
  BY <1>2, <1>3, <1>4, <1>6, <1>7 DEF Inv

----------------------------------------------------------------------------
(* The steps that write to no table *)

LEMMA BeginInv ==
  ASSUME Inv, NEW r \in Requests, Begin(r)
  PROVE  Inv'
<1> USE IdleIsRequest, Codes
<1> USE DEF Idle, Request, Ops, PCs
<1>1. CASE BeginSignup(r)
  <2>1. PICK e \in Emails, p \in Passwords :
          \/ Start(r, "signup", "createUser", e, p, None)
          \/ /\ At(r, "idle")
             /\ Become(r, [Idle EXCEPT !.op = "signup", !.pc = "reply",
                                       !.email = e, !.code = InternalError])
             /\ UNCHANGED <<users, tokens, delivered, now>>
    BY <1>1 DEF BeginSignup, Signup
  <2> DEFINE a == [Idle EXCEPT !.op = "signup", !.pc = "createUser", !.email = e,
                               !.password = p, !.token = None]
             b == [Idle EXCEPT !.op = "signup", !.pc = "reply",
                               !.email = e, !.code = InternalError]
  <2>2. a \in Request /\ b \in Request
    OBVIOUS
  <2>3. RequestInv(a) /\ RequestInv(b)
    BY DEF RequestInv
  <2>4. ~(a.pc = "issue") /\ ~(b.pc = "issue")
    OBVIOUS
  <2>5. CASE Become(r, a) /\ UNCHANGED <<users, tokens, delivered, now>>
    BY <2>2, <2>3, <2>4, <2>5, LocalStep
  <2>6. CASE Become(r, b) /\ UNCHANGED <<users, tokens, delivered, now>>
    BY <2>2, <2>3, <2>4, <2>6, LocalStep
  <2> QED
    BY <2>1, <2>5, <2>6 DEF Start
<1>2. CASE BeginLogin(r)
  <2>1. PICK e \in Emails, p \in Passwords :
          Start(r, "login", "findUser", e, p, None)
    BY <1>2 DEF BeginLogin
  <2> DEFINE a == [Idle EXCEPT !.op = "login", !.pc = "findUser", !.email = e,
                               !.password = p, !.token = None]
  <2>2. a \in Request /\ RequestInv(a) /\ ~(a.pc = "issue")
    BY DEF RequestInv
  <2> QED
    BY <2>1, <2>2, LocalStep DEF Start
<1>3. CASE BeginRefresh(r) \/ BeginLogout(r)
  <2>1. PICK op \in {"refresh", "logout"}, t \in delivered \cup {None} :
          Start(r, op, "find", None, None, t)
    BY <1>3 DEF BeginRefresh, BeginLogout
  <2> DEFINE a == [Idle EXCEPT !.op = op, !.pc = "find", !.email = None,
                               !.password = None, !.token = t]
  <2>2. t # None => t \in Tokens /\ Present(t)
    BY DEF Inv, TypeOK, RowInv
  <2>3. a \in Request /\ RequestInv(a) /\ ~(a.pc = "issue")
    BY <2>2 DEF RequestInv
  <2> QED
    BY <2>1, <2>3, LocalStep DEF Start
<1>4. CASE Reject(r)
  <2>1. PICK op \in Ops :
          Become(r, [Idle EXCEPT !.op = op, !.pc = "reply", !.code = BadRequest])
    BY <1>4 DEF Reject
  <2> DEFINE a == [Idle EXCEPT !.op = op, !.pc = "reply", !.code = BadRequest]
  <2>2. a \in Request /\ RequestInv(a) /\ ~(a.pc = "issue")
    BY DEF RequestInv
  <2> QED
    BY <1>4, <2>1, <2>2, LocalStep DEF Reject
<1> QED
  BY <1>1, <1>2, <1>3, <1>4 DEF Begin

\* A request that answers with an error.
LEMMA AnswerInv ==
  ASSUME Inv, NEW r \in Requests, NEW code \in Nat, Answer(r, code),
         code \notin {OK, NoContent},
         UNCHANGED <<users, tokens, delivered, now>>
  PROVE  Inv'
<1> DEFINE a == [req[r] EXCEPT !.pc = "reply", !.code = code]
<1>1. req[r] \in Request /\ RequestInv(req[r])
  BY DEF Inv, TypeOK
<1>2. a \in Request /\ ~(a.pc = "issue")
  BY <1>1 DEF Request, PCs
<1>3. RequestInv(a)
  BY <1>1 DEF RequestInv, Request
<1> QED
  BY <1>2, <1>3, LocalStep DEF Answer

LEMMA ErrorCodes ==
  \A err : writeDomainError(err) \notin {OK, NoContent} /\ InternalError \notin {OK, NoContent}
  BY DEF writeDomainError, StatusOf, InternalError, OK, NoContent

LEMMA FailInv ==
  ASSUME Inv, NEW r \in Requests, NEW err, Fail(r, err),
         UNCHANGED <<users, tokens, delivered, now>>
  PROVE  Inv'
  BY AnswerInv, StatusIsNat, ErrorCodes DEF Fail

LEMMA FaultInv ==
  ASSUME Inv, NEW r \in Requests, Fault(r)
  PROVE  Inv'
  BY AnswerInv, ErrorCodes DEF Fault, InternalError

LEMMA CancelInv ==
  ASSUME Inv, NEW r \in Requests, Cancel(r)
  PROVE  Inv'
  BY LocalStep, IdleIsRequest DEF Cancel, Idle, RequestInv

LEMMA FindUserInv ==
  ASSUME Inv, NEW r \in Requests, FindUser(r)
  PROVE  Inv'
<1>1. CASE users[req[r].email] = req[r].password
  <2> DEFINE a == [req[r] EXCEPT !.pc = "issue"]
  <2>1. req[r] \in Request /\ RequestInv(req[r])
    BY DEF Inv, TypeOK
  <2>2. a \in Request /\ Become(r, a) /\ req[r].op = "login"
    BY <1>1, <2>1 DEF FindUser, FindByEmail, Goto, At, Request, PCs, RequestInv
  <2>3. RequestInv(a)
    BY <1>1, <2>1, <2>2 DEF FindUser, FindByEmail, At, RequestInv, Request
  <2>4. a.op # "refresh"
    BY <2>1, <2>2 DEF Request
  <2> QED
    BY <2>2, <2>3, <2>4, LocalStep DEF FindUser, FindByEmail
<1>2. CASE users[req[r].email] # req[r].password
  BY <1>2, FailInv DEF FindUser, FindByEmail
<1> QED
  BY <1>1, <1>2

LEMMA FindByHashInv ==
  ASSUME Inv, NEW r \in Requests, FindByHash(r)
  PROVE  Inv'
<1>1. CASE req[r].token = None
  BY <1>1, FailInv DEF FindByHash
<1>2. CASE req[r].token # None
  <2> DEFINE a == [req[r] EXCEPT !.pc = "decide", !.existing = tokens[req[r].token]]
  <2>1. req[r] \in Request /\ RequestInv(req[r]) /\ tokens \in [Tokens -> Row]
    BY DEF Inv, TypeOK
  <2>2. req[r].token \in Tokens /\ Present(req[r].token)
        /\ req[r].op \in {"refresh", "logout"}
    BY <1>2, <2>1 DEF FindByHash, At, RequestInv
  <2>3. a \in Request /\ Become(r, a) /\ a.pc = "decide"
    BY <1>2, <2>1, <2>2 DEF FindByHash, Request, PCs
  <2>4. RequestInv(a)
    BY <2>1, <2>2 DEF FindByHash, At, RequestInv, Request, Snapshot, Present
  <2> QED
    BY <2>3, <2>4, LocalStep DEF FindByHash
<1> QED
  BY <1>1, <1>2

LEMMA DecideInv ==
  ASSUME Inv, NEW r \in Requests, DecideRefresh(r) \/ DecideLogout(r)
  PROVE  Inv'
<1>1. /\ req[r] \in Request /\ RequestInv(req[r]) /\ req[r].pc = "decide"
      /\ UNCHANGED <<users, tokens, delivered, now>>
  BY DEF Inv, TypeOK, DecideRefresh, DecideLogout, At
<1>2. CASE DecideRefresh(r) /\ Fail(r, "ErrTokenInvalid")
  BY <1>1, <1>2, FailInv
<1>3. CASE DecideLogout(r) /\ Answer(r, NoContent) /\ req[r].existing.status = "revoked"
  <2> DEFINE a == [req[r] EXCEPT !.pc = "reply", !.code = NoContent]
  <2>1. a \in Request /\ ~(a.pc = "issue") /\ Become(r, a)
    BY <1>1, <1>3, Codes DEF Request, PCs, Answer
  <2>2. RequestInv(a)
    BY <1>1, <1>3 DEF RequestInv, Request, Snapshot
  <2> QED
    BY <1>1, <2>1, <2>2, LocalStep
<1>4. ASSUME NEW pc \in {"revoke", "revokeAll"}, Goto(r, pc),
             pc = "revokeAll" => req[r].op = "refresh"
      PROVE  Inv'
  <2> DEFINE a == [req[r] EXCEPT !.pc = pc]
  <2>1. a \in Request /\ ~(a.pc = "issue") /\ Become(r, a)
    BY <1>1, <1>4 DEF Request, PCs, Goto
  <2>2. RequestInv(a)
    BY <1>1, <1>4 DEF RequestInv, Request, Snapshot
  <2> QED
    BY <1>1, <2>1, <2>2, LocalStep
<1> QED
  BY <1>2, <1>3, <1>4 DEF DecideRefresh, DecideLogout, OnReuse, LoggedOut

----------------------------------------------------------------------------
(* The steps that write *)

LEMMA TickInv ==
  ASSUME Inv, Tick
  PROVE  Inv'
<1>1. TypeOK' /\ RowInv'
  BY DEF Inv, Tick, TypeOK, RowInv, Present
<1>2. (\A r \in Requests : RequestInv(req[r]))'
  BY DEF Inv, Tick, RequestInv, Snapshot, Present
<1>3. OneCurrentToken' /\ LineageInv' /\ SingleUse'
  BY DEF Inv, Tick, OneCurrentToken, LineageInv, SingleUse, Live, Exchanging, At
<1> QED
  BY <1>1, <1>2, <1>3 DEF Inv

LEMMA ReplyInv ==
  ASSUME Inv, NEW r \in Requests, Reply(r)
  PROVE  Inv'
<1>1. /\ req' = [req EXCEPT ![r] = Idle] /\ req \in [Requests -> Request]
      /\ UNCHANGED <<users, tokens, now>>
      /\ delivered' = delivered \cup PairReturned(r)
  BY DEF Reply, Become, Inv, TypeOK
<1>2. PairReturned(r) \subseteq Tokens /\ \A t \in PairReturned(r) : Present(t)
  BY DEF PairReturned, Inv, RequestInv
<1>3. TypeOK' /\ RowInv'
  BY <1>1, <1>2, IdleIsRequest DEF Inv, TypeOK, RowInv, Present
<1>4. (\A k \in Requests : RequestInv(req[k]))'
  <2>1. \A k \in Requests : RequestInv(req'[k])
    BY <1>1 DEF Inv, RequestInv, Idle
  <2> QED
    BY <1>1, <2>1 DEF RequestInv, Snapshot, Present
<1>5. \A k \in Requests : Exchanging(k)' => Exchanging(k) /\ req'[k] = req[k]
  BY <1>1 DEF Exchanging, At, Idle
<1>6. OneCurrentToken' /\ LineageInv' /\ SingleUse'
  BY <1>1, <1>5 DEF Inv, OneCurrentToken, LineageInv, SingleUse, Live
<1> QED
  BY <1>3, <1>4, <1>6 DEF Inv

LEMMA CreateUserInv ==
  ASSUME Inv, NEW r \in Requests, CreateUser(r)
  PROVE  Inv'
<1>1. CASE Taken(req[r].email)
  BY <1>1, FailInv DEF CreateUser
<1>2. CASE ~Taken(req[r].email)
  <2> DEFINE a == [req[r] EXCEPT !.pc = "issue"]
             b == [req[r] EXCEPT !.pc = "reply", !.code = InternalError]
  <2>1. /\ req \in [Requests -> Request] /\ req[r] \in Request /\ RequestInv(req[r])
        /\ req[r].pc = "createUser" /\ users \in [Emails -> Passwords \cup {None}]
    BY DEF Inv, TypeOK, CreateUser, At
  <2>2. /\ req[r].op = "signup" /\ req[r].email \in Emails
        /\ req[r].password \in Passwords /\ req[r].token = None
    BY <2>1 DEF RequestInv
  <2>3. /\ users' = [users EXCEPT ![req[r].email] = req[r].password]
        /\ UNCHANGED <<tokens, delivered, now>>
        /\ users[req[r].email] = None
    BY <1>2 DEF CreateUser, Taken
  <2>4. PICK q \in {a, b} : Become(r, q)
    BY <1>2 DEF CreateUser, Acknowledge, Goto, Answer
  <2>5. q \in Request /\ q.op = "signup" /\ q.token = None
    BY <2>1, <2>2, Codes DEF Request, PCs
  <2>6. TypeOK' /\ RowInv'
    BY <2>1, <2>2, <2>3, <2>4, <2>5 DEF Inv, TypeOK, RowInv, Present, Become
  <2>7. (\A k \in Requests : RequestInv(req[k]))'
    <3> SUFFICES ASSUME NEW k \in Requests PROVE RequestInv(req[k])'
      OBVIOUS
    <3>1. CASE k = r
      <4>1. req'[k] = q /\ q.pair = req[r].pair /\ q.email = req[r].email
            /\ q.password = req[r].password /\ q.pc \in {"issue", "reply"}
        BY <3>1, <2>1, <2>4 DEF Become, Request
      <4>2. users'[q.email] = q.password
        BY <4>1, <2>1, <2>2, <2>3
      <4> QED
        BY <4>1, <4>2, <2>1, <2>2, <2>3, <2>5 DEF RequestInv, Present
    <3>2. CASE k # r
      <4>1. req'[k] = req[k] /\ RequestInv(req[k])
        BY <3>2, <2>1, <2>4 DEF Become, Inv
      <4>2. \A e \in Emails : users[e] # None => users'[e] = users[e]
        BY <2>1, <2>2, <2>3
      <4>3. \A p \in Passwords : p # None
        BY NoneAssumption
      <4> QED
        BY <4>1, <4>2, <4>3, <2>3 DEF RequestInv, Snapshot, Present
    <3> QED
      BY <3>1, <3>2
  <2>8. \A k \in Requests : Exchanging(k)' => Exchanging(k) /\ req'[k] = req[k]
    BY <2>1, <2>4, <2>5 DEF Exchanging, At, Become
  <2>9. OneCurrentToken' /\ LineageInv' /\ SingleUse'
    BY <2>3, <2>8 DEF Inv, OneCurrentToken, LineageInv, SingleUse, Live
  <2> QED
    BY <2>6, <2>7, <2>9 DEF Inv
<1> QED
  BY <1>1, <1>2

\* One UPDATE that revokes a set of live rows, with the request that sent it
\* moving to its answer or, when it revoked its own token, to the exchange.
LEMMA RevokeRows ==
  ASSUME Inv, NEW r \in Requests, NEW R \in SUBSET Live,
         tokens' = [t \in Tokens |->
                      IF t \in R THEN [tokens[t] EXCEPT !.status = "revoked"]
                                 ELSE tokens[t]],
         UNCHANGED <<users, delivered, now>>,
         NEW pc \in {"issue", "reply"}, NEW code \in Nat,
         Become(r, [req[r] EXCEPT !.pc = pc, !.code = code]),
         pc = "issue" => /\ req[r].op = "refresh" /\ Snapshot(req[r])
                         /\ req[r].token \in R,
         pc = "reply" =>
           /\ req[r].op = "refresh" => code # OK
           /\ req[r].op = "logout" /\ code = NoContent => req[r].token \in R
  PROVE  Inv'
<1>0. PICK q : q = [req[r] EXCEPT !.pc = pc, !.code = code]
  OBVIOUS
<1>1. /\ req \in [Requests -> Request] /\ req[r] \in Request
      /\ tokens \in [Tokens -> Row] /\ R \subseteq Tokens
      /\ req' = [req EXCEPT ![r] = q]
  BY <1>0 DEF Inv, TypeOK, Live, Become
<1>2. /\ q \in Request /\ q.pc = pc /\ q.code = code /\ q.op = req[r].op
      /\ q.token = req[r].token /\ q.pair = req[r].pair
      /\ q.existing = req[r].existing
  BY <1>0, <1>1 DEF Request, PCs
<1>3. \A t \in Tokens :
        /\ tokens'[t].session = tokens[t].session
        /\ tokens'[t].user = tokens[t].user
        /\ tokens'[t].parent = tokens[t].parent
        /\ tokens'[t].status = IF t \in R THEN "revoked" ELSE tokens[t].status
  BY <1>1 DEF Row
<1>4. \A t \in R : tokens[t].status = "live"
  BY DEF Live
<1>5. TypeOK'
  <2>1. \A t \in Tokens : tokens'[t] \in Row
    BY <1>1 DEF Row, Status
  <2> QED
    BY <1>1, <1>2, <2>1 DEF Inv, TypeOK
<1>6. \A t \in Tokens : Present(t)' <=> Present(t)
  BY <1>3, <1>4 DEF Present
<1>7. RowInv'
  <2>1. \A t \in Tokens : ~Present(t) => tokens'[t] = tokens[t]
    BY <1>4 DEF Present
  <2>2. \A t \in delivered' : Present(t)'
    BY <1>6 DEF Inv, RowInv, TypeOK
  <2> QED
    BY <1>3, <1>6, <2>1, <2>2 DEF Inv, RowInv
<1>8. (\A k \in Requests : RequestInv(req[k]))'
  <2> SUFFICES ASSUME NEW k \in Requests PROVE RequestInv(req[k])'
    OBVIOUS
  <2>1. CASE k = r
    <3>1. req'[k] = q /\ RequestInv(req[r])
      BY <2>1, <1>1 DEF Inv
    <3>2. q.token # None => q.op \in {"refresh", "logout"}
      BY <1>2, <3>1 DEF RequestInv
    <3>3. q.pair # None => q.pair \in Tokens /\ Present(q.pair)'
      BY <1>2, <1>6, <3>1 DEF RequestInv
    <3>4. CASE pc = "issue"
      <4>1. Snapshot(q)' /\ tokens'[q.token].status = "revoked" /\ q.op = "refresh"
        BY <3>4, <1>2, <1>3, <1>6 DEF Snapshot
      <4> QED
        BY <3>1, <3>2, <3>3, <3>4, <4>1, <1>2 DEF RequestInv, Snapshot, Present
    <3>5. CASE pc = "reply"
      <4>1. q.op = "refresh" => q.code # OK
        BY <3>5, <1>2
      <4>2. q.op = "logout" /\ q.code = NoContent
              => q.token \in Tokens /\ tokens'[q.token].status = "revoked"
        BY <3>5, <1>1, <1>2, <1>3
      <4> QED
        BY <3>1, <3>2, <3>3, <3>5, <4>1, <4>2, <1>2 DEF RequestInv, Present
    <3> QED
      BY <3>4, <3>5
  <2>2. CASE k # r
    <3>1. req'[k] = req[k] /\ RequestInv(req[k])
      BY <2>2, <1>1 DEF Inv
    <3>2. \A t \in Tokens : tokens[t].status = "revoked" => tokens'[t].status = "revoked"
      BY <1>3
    <3> QED
      BY <3>1, <3>2, <1>3, <1>6 DEF RequestInv, Snapshot, Present
  <2> QED
    BY <2>1, <2>2
<1>9. \A k \in Requests : Exchanging(k)' =>
        \/ Exchanging(k) /\ req'[k] = req[k] /\ k # r
        \/ k = r /\ pc = "issue" /\ req'[k] = q
  BY <1>1, <1>2 DEF Exchanging, At
<1>10. Live' = Live \ R /\ Live \subseteq Tokens
  BY <1>3 DEF Live
<1>11. pc = "issue" => /\ req[r].token \in Live \cap R
                       /\ tokens[req[r].token].session = q.existing.session
                       /\ q.token = req[r].token
  BY <1>2 DEF Snapshot
<1>12. OneCurrentToken'
  <2>1. \A t, u \in Live' : tokens'[t].session = tokens'[u].session => t = u
    BY <1>3, <1>10 DEF Inv, OneCurrentToken
  <2>2. ASSUME NEW k \in Requests, NEW t \in Live', Exchanging(k)'
        PROVE  tokens'[t].session # req'[k].existing.session
    BY <2>2, <1>3, <1>9, <1>10, <1>11 DEF Inv, OneCurrentToken
  <2>3. ASSUME NEW k \in Requests, NEW l \in Requests, Exchanging(k)', Exchanging(l)',
               req'[k].existing.session = req'[l].existing.session
        PROVE  k = l
    BY <2>3, <1>9, <1>11 DEF Inv, OneCurrentToken
  <2> QED
    BY <2>1, <2>2, <2>3 DEF OneCurrentToken
<1>13. LineageInv'
  <2>1. \A t \in Tokens : tokens'[t].parent # None =>
          tokens'[t].parent \in Tokens /\ tokens'[tokens'[t].parent].status = "revoked"
    BY <1>3 DEF Inv, LineageInv
  <2>2. ASSUME NEW k \in Requests, NEW t \in Tokens, Exchanging(k)'
        PROVE  tokens'[t].parent # req'[k].token
    <3>1. CASE Exchanging(k) /\ req'[k] = req[k]
      BY <3>1, <1>3 DEF Inv, LineageInv
    <3>2. CASE k = r /\ pc = "issue" /\ req'[k] = q
      <4>1. tokens[req[r].token].status = "live" /\ req[r].token # None
        BY <3>2, <1>11, NoneAssumption DEF Live
      <4> QED
        BY <3>2, <4>1, <1>2, <1>3 DEF Inv, LineageInv
    <3> QED
      BY <2>2, <3>1, <3>2, <1>9
  <2> QED
    BY <2>1, <2>2 DEF LineageInv
<1>14. SingleUse'
  BY <1>3 DEF Inv, SingleUse
<1> QED
  BY <1>5, <1>7, <1>8, <1>12, <1>13, <1>14 DEF Inv

LEMMA RevokeInv ==
  ASSUME Inv, NEW r \in Requests, Revoke(r)
  PROVE  Inv'
<1>1. CASE ~RevokeMatches(req[r].token)
  BY <1>1, FailInv DEF Revoke
<1>2. CASE RevokeMatches(req[r].token)
  <2> DEFINE R == {req[r].token}
  <2>1. /\ req[r] \in Request /\ tokens \in [Tokens -> Row]
        /\ req[r].op \in {"refresh", "logout"} /\ Snapshot(req[r])
    BY DEF Revoke, At, Inv, TypeOK, RequestInv
  <2>2. /\ R \in SUBSET Live
        /\ tokens' = [t \in Tokens |->
                        IF t \in R THEN [tokens[t] EXCEPT !.status = "revoked"]
                                   ELSE tokens[t]]
        /\ UNCHANGED <<users, delivered, now>>
    BY <1>2, <2>1 DEF Revoke, RevokeMatches, Live, Snapshot
  <2>3. \/ Goto(r, "issue") /\ req[r].op = "refresh"
        \/ Answer(r, NoContent) /\ req[r].op = "logout"
        \/ Answer(r, InternalError)
    BY <1>2, <2>1 DEF Revoke, Acknowledge
  <2>4. CASE Goto(r, "issue") /\ req[r].op = "refresh"
    <3>1. Become(r, [req[r] EXCEPT !.pc = "issue", !.code = req[r].code])
      <4>1. [req[r] EXCEPT !.pc = "issue"]
              = [req[r] EXCEPT !.pc = "issue", !.code = req[r].code]
        BY <2>1 DEF Request
      <4> QED
        BY <4>1, <2>4 DEF Goto
    <3>2. req[r].code \in Nat
      BY <2>1 DEF Request
    <3> QED
      BY <2>1, <2>2, <2>4, <3>1, <3>2, RevokeRows
  <2>5. CASE Answer(r, NoContent) /\ req[r].op = "logout"
    BY <2>1, <2>2, <2>5, Codes, RevokeRows DEF Answer
  <2>6. CASE Answer(r, InternalError)
    BY <2>1, <2>2, <2>6, Codes, RevokeRows DEF Answer
  <2> QED
    BY <2>3, <2>4, <2>5, <2>6
<1> QED
  BY <1>1, <1>2

LEMMA RevokeAllInv ==
  ASSUME Inv, NEW r \in Requests, RevokeAllForUser(r)
  PROVE  Inv'
<1> DEFINE R == {t \in Tokens : RevokeAllMatches(t, req[r].existing.user)}
<1>1. /\ R \in SUBSET Live
      /\ tokens' = [t \in Tokens |->
                      IF t \in R THEN [tokens[t] EXCEPT !.status = "revoked"]
                                 ELSE tokens[t]]
      /\ UNCHANGED <<users, delivered, now>>
  BY DEF RevokeAllForUser, RevokeAllMatches, Live
<1>2. PICK code \in Nat : /\ Answer(r, code) /\ code \notin {OK, NoContent}
  BY StatusIsNat, ErrorCodes, Codes DEF RevokeAllForUser, Acknowledge, Fail
<1> HIDE DEF R
<1> QED
  BY <1>1, <1>2, RevokeRows DEF Answer

LEMMA IssueInv ==
  ASSUME Inv, NEW r \in Requests, IssueTokenPair(r)
  PROVE  Inv'
<1>1. PICK n \in Absent :
        /\ tokens' = [tokens EXCEPT ![n] = NewRow(r, n)]
        /\ \/ Become(r, [req[r] EXCEPT !.pc = "reply", !.pair = n,
               !.code = IF req[r].op = "signup" THEN Created ELSE OK])
           \/ Answer(r, InternalError)
        /\ UNCHANGED <<users, delivered, now>>
  BY DEF IssueTokenPair, Acknowledge
<1>2. PICK row : row = NewRow(r, n)
  OBVIOUS
<1>3. PICK q : /\ Become(r, q)
               /\ \/ q = [req[r] EXCEPT !.pc = "reply", !.pair = n,
                         !.code = IF req[r].op = "signup" THEN Created ELSE OK]
                  \/ q = [req[r] EXCEPT !.pc = "reply", !.code = InternalError]
  BY <1>1 DEF Answer
<1>4. /\ req \in [Requests -> Request] /\ req[r] \in Request /\ RequestInv(req[r])
      /\ tokens \in [Tokens -> Row] /\ now \in Nat /\ req[r].pc = "issue"
      /\ n \in Tokens /\ ~Present(n) /\ tokens[n] = NoRow
      /\ req' = [req EXCEPT ![r] = q]
  BY <1>3 DEF Inv, TypeOK, RowInv, Absent, Present, IssueTokenPair, At, Become
<1>5. /\ q \in Request /\ q.pc = "reply" /\ q.op = req[r].op /\ q.token = req[r].token
      /\ q.pair # None => q.pair = n \/ q.pair = req[r].pair
      /\ q.op = "logout" => q.code # NoContent
  <2>1. CASE q = [req[r] EXCEPT !.pc = "reply", !.pair = n,
                    !.code = IF req[r].op = "signup" THEN Created ELSE OK]
    BY <2>1, <1>4, Codes DEF Request, PCs, RequestInv
  <2>2. CASE q = [req[r] EXCEPT !.pc = "reply", !.code = InternalError]
    BY <2>2, <1>4, Codes DEF Request, PCs
  <2> QED
    BY <1>3, <2>1, <2>2
\* The new row: the first of a session, or the next one of the session exchanged.
<1>6. /\ row \in Row /\ row.status = "live" /\ row.user \in Emails
      /\ row.parent = req[r].token
      /\ req[r].op = "refresh" => row.user = req[r].existing.user
      /\ row.session = IF req[r].op = "refresh" THEN req[r].existing.session ELSE n
  <2>1. ExpiresAt \in Nat
    BY <1>4, TimeAssumption DEF ExpiresAt
  <2>2. Owner(r) \in Emails
    BY <1>4 DEF Owner, RequestInv, Snapshot, Inv, RowInv
  <2>3. req[r].op = "refresh" => req[r].existing.session \in Tokens
    BY <1>4 DEF RequestInv, Snapshot, Inv, RowInv
  <2> QED
    BY <1>2, <1>4, <2>1, <2>2, <2>3 DEF NewRow, Owner, Row, Status, Request
<1>7. \A t \in Tokens : tokens'[t] = IF t = n THEN row ELSE tokens[t]
  BY <1>1, <1>2, <1>4
<1>8. TypeOK'
  BY <1>1, <1>2, <1>4, <1>5, <1>6 DEF Inv, TypeOK
<1>9. \A t \in Tokens : Present(t) => t # n /\ tokens'[t] = tokens[t] /\ Present(t)'
  BY <1>4, <1>7 DEF Present
<1>10. Present(n)' /\ tokens'[n] = row
  BY <1>4, <1>6, <1>7 DEF Present
<1>11. req[r].op = "refresh" =>
         /\ req[r].token \in Tokens /\ Present(req[r].token)
         /\ req[r].existing.session = tokens[req[r].token].session
         /\ req[r].existing.user = tokens[req[r].token].user
         /\ tokens[req[r].token].status = "revoked"
  BY <1>4 DEF RequestInv, Snapshot
<1>12. RowInv'
  <2>1. \A t \in Tokens : ~Present(t)' => t # n /\ tokens'[t] = tokens[t] /\ ~Present(t)
    BY <1>7, <1>10 DEF Present
  <2>2. \A t \in delivered' : Present(t)'
    BY <1>1, <1>9 DEF Inv, RowInv, TypeOK
  <2>3. ASSUME NEW t \in Tokens, Present(t)', t # n
        PROVE  /\ tokens'[t].user \in Emails
               /\ tokens'[t].session \in Tokens
               /\ Present(tokens[t].session)'
               /\ tokens'[tokens'[t].session].session = tokens'[t].session
               /\ tokens'[tokens'[t].session].user = tokens'[t].user
    <3>1. Present(t) /\ tokens'[t] = tokens[t]
      BY <2>3, <1>7 DEF Present
    <3>2. /\ tokens[t].session \in Tokens /\ Present(tokens[t].session)
          /\ tokens[tokens[t].session].session = tokens[t].session
          /\ tokens[tokens[t].session].user = tokens[t].user
          /\ tokens[t].user \in Emails
      BY <3>1 DEF Inv, RowInv
    <3> QED
      BY <3>1, <3>2, <1>9 DEF Present
  <2>4. /\ tokens'[n].user \in Emails
        /\ tokens'[n].session \in Tokens
        /\ Present(tokens[n].session)'
        /\ tokens'[tokens'[n].session].session = tokens'[n].session
        /\ tokens'[tokens'[n].session].user = tokens'[n].user
    <3>1. CASE req[r].op = "refresh"
      <4>1. /\ row.session = tokens[req[r].token].session
            /\ row.user = tokens[req[r].token].user
        BY <3>1, <1>6, <1>11
      <4>2. /\ row.session \in Tokens /\ Present(row.session)
            /\ tokens[row.session].session = row.session
            /\ tokens[row.session].user = row.user
        BY <3>1, <4>1, <1>11 DEF Inv, RowInv
      <4> QED
        BY <4>2, <1>6, <1>9, <1>10 DEF Present
    <3>2. CASE req[r].op # "refresh"
      BY <3>2, <1>4, <1>6, <1>10 DEF Present
    <3> QED
      BY <3>1, <3>2
  <2>5. \A t \in Tokens : ~Present(t)' => tokens'[t] = NoRow
    BY <2>1 DEF Inv, RowInv
  <2> QED
    BY <2>2, <2>3, <2>4, <2>5 DEF RowInv, Present
<1>13. (\A k \in Requests : RequestInv(req[k]))'
  <2> SUFFICES ASSUME NEW k \in Requests PROVE RequestInv(req[k])'
    OBVIOUS
  <2>1. CASE k = r
    <3>1. req'[k] = q
      BY <2>1, <1>4
    <3>2. q.pair # None => q.pair \in Tokens /\ Present(q.pair)'
      BY <1>4, <1>5, <1>9, <1>10 DEF RequestInv
    <3>3. q.op = "refresh" => q.token \in Tokens /\ tokens'[q.token].status = "revoked"
      BY <1>5, <1>9, <1>11
    <3> QED
      BY <3>1, <3>2, <3>3, <1>4, <1>5 DEF RequestInv, Present
  <2>2. CASE k # r
    <3>1. req'[k] = req[k] /\ RequestInv(req[k])
      BY <2>2, <1>4 DEF Inv
    <3>2. \A t \in Tokens : tokens[t].status = "revoked" => tokens'[t].status = "revoked"
      BY <1>9 DEF Present
    <3> QED
      BY <3>1, <3>2, <1>1, <1>9 DEF RequestInv, Snapshot, Present
  <2> QED
    BY <2>1, <2>2
<1>14. \A k \in Requests : Exchanging(k)' => k # r /\ Exchanging(k) /\ req'[k] = req[k]
  BY <1>4, <1>5 DEF Exchanging, At
<1>15. Live' = Live \cup {n}
  BY <1>4, <1>6, <1>7 DEF Live
<1>16. \A t \in Live : t # n /\ tokens'[t] = tokens[t] /\ Present(t) /\ t \in Tokens
  BY <1>9 DEF Live, Present
<1>17. Exchanging(r) <=> req[r].op = "refresh"
  BY <1>4 DEF Exchanging, At
<1>18. \A k \in Requests : Exchanging(k) =>
         /\ req[k].token \in Tokens /\ Present(req[k].token)
         /\ req[k].existing.session \in Tokens /\ Present(req[k].existing.session)
  <2> SUFFICES ASSUME NEW k \in Requests, Exchanging(k)
               PROVE  /\ req[k].token \in Tokens /\ Present(req[k].token)
                      /\ req[k].existing.session \in Tokens
                      /\ Present(req[k].existing.session)
    OBVIOUS
  <2>1. Snapshot(req[k])
    BY DEF Exchanging, At, Inv, RequestInv
  <2> QED
    BY <2>1 DEF Snapshot, Inv, RowInv
\* No other token is live in the new row's session, and nobody exchanges it.
<1>19. \A t \in Live : tokens[t].session # row.session
  <2>1. CASE req[r].op = "refresh"
    BY <2>1, <1>6, <1>17 DEF Inv, OneCurrentToken
  <2>2. CASE req[r].op # "refresh"
    BY <2>2, <1>4, <1>6, <1>16 DEF Inv, RowInv
  <2> QED
    BY <2>1, <2>2
<1>20. \A k \in Requests : k # r /\ Exchanging(k) => req[k].existing.session # row.session
  <2>1. CASE req[r].op = "refresh"
    BY <2>1, <1>6, <1>17 DEF Inv, OneCurrentToken
  <2>2. CASE req[r].op # "refresh"
    BY <2>2, <1>4, <1>6, <1>18
  <2> QED
    BY <2>1, <2>2
<1>21. OneCurrentToken'
  <2>1. \A t, u \in Live' : tokens'[t].session = tokens'[u].session => t = u
    BY <1>10, <1>15, <1>16, <1>19 DEF Inv, OneCurrentToken
  <2>2. ASSUME NEW k \in Requests, NEW t \in Live', Exchanging(k)'
        PROVE  tokens'[t].session # req'[k].existing.session
    BY <2>2, <1>10, <1>14, <1>15, <1>16, <1>20 DEF Inv, OneCurrentToken
  <2>3. ASSUME NEW k \in Requests, NEW l \in Requests, Exchanging(k)', Exchanging(l)',
               req'[k].existing.session = req'[l].existing.session
        PROVE  k = l
    BY <2>3, <1>14 DEF Inv, OneCurrentToken
  <2> QED
    BY <2>1, <2>2, <2>3 DEF OneCurrentToken
\* The token exchanged has no other child, and no other exchange is on it.
<1>22. req[r].token # None => req[r].op = "refresh"
  BY <1>4 DEF RequestInv
<1>23. \A k \in Requests : k # r /\ Exchanging(k) => req[k].token # row.parent
  <2> SUFFICES ASSUME NEW k \in Requests, k # r, Exchanging(k),
                      req[k].token = row.parent
               PROVE  FALSE
    OBVIOUS
  <2>1. req[r].op = "refresh" /\ req[k].token = req[r].token
    BY <1>6, <1>18, <1>22, NoneAssumption
  <2>2. Snapshot(req[k])
    BY DEF Exchanging, At, Inv, RequestInv
  <2> QED
    BY <2>1, <2>2, <1>11, <1>17 DEF Snapshot, Inv, OneCurrentToken
<1>24. \A t \in Tokens : tokens[t].parent # None => t # n
  BY <1>4 DEF NoRow
<1>25. LineageInv'
  <2>1. ASSUME NEW t \in Tokens, tokens'[t].parent # None
        PROVE  /\ tokens'[t].parent \in Tokens
               /\ tokens'[tokens'[t].parent].status = "revoked"
    <3>1. CASE t = n
      BY <3>1, <2>1, <1>6, <1>9, <1>10, <1>11, <1>22
    <3>2. CASE t # n
      <4>1. tokens'[t] = tokens[t] /\ tokens[t].parent \in Tokens
            /\ tokens[tokens[t].parent].status = "revoked"
        BY <3>2, <2>1, <1>7 DEF Inv, LineageInv
      <4> QED
        BY <4>1, <1>9 DEF Present
    <3> QED
      BY <3>1, <3>2
  <2>2. ASSUME NEW k \in Requests, NEW t \in Tokens, Exchanging(k)'
        PROVE  tokens'[t].parent # req'[k].token
    BY <2>2, <1>6, <1>7, <1>14, <1>23 DEF Inv, LineageInv
  <2> QED
    BY <2>1, <2>2 DEF LineageInv
<1>26. SingleUse'
  <2>1. \A t \in Tokens : row.parent # None => tokens[t].parent # row.parent
    BY <1>6, <1>17, <1>22 DEF Inv, LineageInv
  <2> QED
    BY <2>1, <1>7 DEF Inv, SingleUse
<1> QED
  BY <1>8, <1>12, <1>13, <1>21, <1>25, <1>26 DEF Inv

LEMMA NextInv ==
  ASSUME Inv, [Next]_vars
  PROVE  Inv'
<1>1. CASE UNCHANGED vars
  <2>1. TypeOK' /\ RowInv'
    BY <1>1 DEF Inv, vars, TypeOK, RowInv, Present
  <2>2. (\A r \in Requests : RequestInv(req[r]))'
    BY <1>1 DEF Inv, vars, RequestInv, Snapshot, Present
  <2>3. OneCurrentToken' /\ LineageInv' /\ SingleUse'
    BY <1>1 DEF Inv, vars, OneCurrentToken, LineageInv, SingleUse, Live, Exchanging, At
  <2> QED
    BY <2>1, <2>2, <2>3 DEF Inv
<1>2. CASE Tick
  BY <1>2, TickInv
<1>3. ASSUME NEW r \in Requests, Begin(r) \/ Fault(r) \/ Cancel(r)
      PROVE  Inv'
  BY <1>3, BeginInv, FaultInv, CancelInv
<1>4. ASSUME NEW r \in Requests, Step(r)
      PROVE  Inv'
  BY <1>4, CreateUserInv, FindUserInv, FindByHashInv, DecideInv, RevokeInv,
     RevokeAllInv, IssueInv, ReplyInv DEF Step
<1> QED
  BY <1>1, <1>2, <1>3, <1>4 DEF Next

LEMMA InvIsInvariant == Spec => []Inv
  BY InitInv, NextInv, PTL DEF Spec

----------------------------------------------------------------------------
(* The theorems *)

\* The variables always have their types, in particular every row of
\* refresh_tokens and every snapshot a request of auth_service.go acts on.
THEOREM TypeCorrect == Spec => []TypeOK
  BY InvIsInvariant, PTL DEF Inv

\* However many requests run, a session has at most one token that can still
\* be exchanged: the conditional UPDATE of Revoke hands it to one of them.
THEOREM RotationCorrect == Spec => []OneCurrentToken
  BY InvIsInvariant, PTL DEF Inv

\* Refresh never exchanges one token for two others.
THEOREM TokensAreSingleUse == Spec => []SingleUse
  BY InvIsInvariant, PTL DEF Inv

\* A 200 from Refresh and a 204 from Logout mean that the token is revoked.
THEOREM SuccessIsRevocation == Spec => []SuccessRevokes
<1>1. Inv => SuccessRevokes
  BY DEF Inv, RequestInv, SuccessRevokes, At
<1> QED
  BY <1>1, InvIsInvariant, PTL

\* Signup and Login issue a pair only against the password of the account.
THEOREM IssueIsAuthenticated == Spec => []IssueAuthenticated
<1>1. Inv => IssueAuthenticated
  BY NoneAssumption DEF Inv, RequestInv, IssueAuthenticated, At
<1> QED
  BY <1>1, InvIsInvariant, PTL

----------------------------------------------------------------------------
(* AuthService implements Sessions *)

LEMMA SessionsInit == Init => S!Init
  BY DEF Init, S!Init, sessionOwner, sessionTokens, sessionsExchanging, Live,
         Absent, Exchanging, At, NoRow, Idle

\* The exchanges after a step of r: its own session leaves the set unless the
\* step is the one that starts an exchange.
LEMMA ExchangingAfter ==
  ASSUME Inv, NEW r \in Requests, NEW q \in Request, Become(r, q)
  PROVE  /\ q.pc = "issue" /\ q.op = "refresh" /\ ~Exchanging(r) =>
              sessionsExchanging' = sessionsExchanging \cup {q.existing.session}
         /\ ~(q.pc = "issue" /\ q.op = "refresh") =>
              sessionsExchanging' =
                IF Exchanging(r) THEN sessionsExchanging \ {req[r].existing.session}
                                 ELSE sessionsExchanging
<1>1. \A k \in Requests : req'[k] = IF k = r THEN q ELSE req[k]
  BY DEF Become, Inv, TypeOK
<1>2. \A k \in Requests : Exchanging(k)' <=>
        IF k = r THEN q.pc = "issue" /\ q.op = "refresh" ELSE Exchanging(k)
  BY <1>1 DEF Exchanging, At
<1>3. \A k \in Requests : Exchanging(r) /\ Exchanging(k) /\ k # r =>
        req[k].existing.session # req[r].existing.session
  BY DEF Inv, OneCurrentToken
<1> QED
  BY <1>1, <1>2, <1>3 DEF sessionsExchanging

\* A step that leaves refresh_tokens alone stutters or abandons an exchange.
LEMMA LocalRefines ==
  ASSUME Inv, NEW r \in Requests, NEW q \in Request, Become(r, q),
         UNCHANGED tokens, ~(q.pc = "issue" /\ q.op = "refresh")
  PROVE  [S!Next]_S!svars
<1>1. UNCHANGED <<sessionOwner, sessionTokens, Tokens \ Absent>>
  BY DEF sessionOwner, sessionTokens, Live, Absent
<1>2. CASE ~Exchanging(r)
  BY <1>1, <1>2, ExchangingAfter DEF S!svars
<1>3. CASE Exchanging(r)
  <2>1. Snapshot(req[r])
    BY <1>3 DEF Exchanging, At, Inv, RequestInv
  <2>2. req[r].existing.session \in Tokens
    BY <2>1 DEF Snapshot, Inv, RowInv
  <2>3. req[r].existing.session \in sessionsExchanging
    BY <1>3 DEF sessionsExchanging
  <2>4. S!Abandon(req[r].existing.session)
    BY <1>1, <1>3, <2>3, ExchangingAfter DEF S!Abandon
  <2> QED
    BY <2>2, <2>4 DEF S!Next
<1> QED
  BY <1>2, <1>3

\* Revoking rows only empties sessions.
LEMMA RevokedSessions ==
  ASSUME Inv, NEW R \in SUBSET Live,
         tokens' = [t \in Tokens |->
                      IF t \in R THEN [tokens[t] EXCEPT !.status = "revoked"]
                                 ELSE tokens[t]]
  PROVE  /\ UNCHANGED <<sessionOwner, Tokens \ Absent>>
         /\ sessionTokens' =
              [s \in Tokens |-> {t \in Live \ R : tokens[t].session = s}]
<1>1. tokens \in [Tokens -> Row] /\ R \subseteq Tokens
  BY DEF Inv, TypeOK, Live
<1>2. \A t \in Tokens :
        /\ tokens'[t].session = tokens[t].session
        /\ tokens'[t].user = tokens[t].user
        /\ tokens'[t].status = IF t \in R THEN "revoked" ELSE tokens[t].status
  BY <1>1 DEF Row
<1>3. \A t \in R : tokens[t].status = "live"
  BY DEF Live
<1>4. Live' = Live \ R /\ Absent' = Absent
  BY <1>2, <1>3 DEF Live, Absent
<1>5. UNCHANGED sessionOwner
  BY <1>2 DEF sessionOwner
<1>6. sessionTokens' = [s \in Tokens |-> {t \in Live' : tokens'[t].session = s}]
  BY DEF sessionTokens
<1>7. \A s \in Tokens : {t \in Live' : tokens'[t].session = s}
                        = {t \in Live \ R : tokens[t].session = s}
  BY <1>2, <1>4 DEF Live
<1> QED
  BY <1>4, <1>5, <1>6, <1>7

LEMMA RevokeRefines ==
  ASSUME Inv, NEW r \in Requests, Revoke(r)
  PROVE  [S!Next]_S!svars
<1>1. /\ req[r] \in Request /\ tokens \in [Tokens -> Row] /\ req[r].pc = "revoke"
      /\ req[r].op \in {"refresh", "logout"} /\ Snapshot(req[r])
  BY DEF Revoke, At, Inv, TypeOK, RequestInv
<1>2. ~Exchanging(r)
  BY <1>1 DEF Exchanging, At
<1> DEFINE answered(code) == [req[r] EXCEPT !.pc = "reply", !.code = code]
           issuing == [req[r] EXCEPT !.pc = "issue"]
<1>3. /\ \A code \in Nat : answered(code) \in Request /\ answered(code).pc = "reply"
      /\ issuing \in Request /\ issuing.pc = "issue" /\ issuing.op = req[r].op
      /\ issuing.existing = req[r].existing
  BY <1>1 DEF Request, PCs
<1>4. CASE ~RevokeMatches(req[r].token)
  <2>1. PICK code \in Nat : Become(r, answered(code))
    BY <1>4, StatusIsNat DEF Revoke, Fail, Answer
  <2>2. UNCHANGED tokens
    BY <1>4 DEF Revoke
  <2> QED
    BY <2>1, <2>2, <1>3, LocalRefines
<1>5. CASE RevokeMatches(req[r].token)
  <2> DEFINE R == {req[r].token}
             s == req[r].existing.session
  <2>1. /\ R \in SUBSET Live
        /\ tokens' = [t \in Tokens |->
                        IF t \in R THEN [tokens[t] EXCEPT !.status = "revoked"]
                                   ELSE tokens[t]]
    BY <1>1, <1>5 DEF Revoke, RevokeMatches, Live, Snapshot
  <2>2. /\ UNCHANGED <<sessionOwner, Tokens \ Absent>>
        /\ sessionTokens' =
             [z \in Tokens |-> {t \in Live \ R : tokens[t].session = z}]
    BY <2>1, RevokedSessions
  <2>3. s \in Tokens /\ s = tokens[req[r].token].session /\ req[r].token \in Live
    BY <1>1, <2>1 DEF Snapshot, Inv, RowInv
  <2>4. \A z \in Tokens : {t \in Live \ R : tokens[t].session = z}
                          = IF z = s THEN {} ELSE {t \in Live : tokens[t].session = z}
    BY <2>3 DEF Inv, OneCurrentToken
  <2>5. sessionTokens' = [sessionTokens EXCEPT ![s] = {}]
    BY <2>2, <2>3, <2>4 DEF sessionTokens
  <2>6. \/ Become(r, issuing) /\ req[r].op = "refresh"
        \/ \E code \in Nat : Become(r, answered(code))
    BY <1>1, <1>5, Codes DEF Revoke, Acknowledge, Goto, Answer
  <2>7. CASE Become(r, issuing) /\ req[r].op = "refresh"
    <3>1. sessionsExchanging' = sessionsExchanging \cup {s}
      BY <2>7, <1>2, <1>3, ExchangingAfter
    <3>2. sessionTokens[s] # {}
      BY <2>3 DEF sessionTokens
    <3>3. s \notin sessionsExchanging
      BY <2>3 DEF sessionsExchanging, Inv, OneCurrentToken
    <3>4. S!Take(s)
      BY <2>2, <2>5, <3>1, <3>2, <3>3 DEF S!Take
    <3> QED
      BY <2>3, <3>4 DEF S!Next
  <2>8. CASE \E code \in Nat : Become(r, answered(code))
    <3>1. UNCHANGED sessionsExchanging
      BY <2>8, <1>2, <1>3, ExchangingAfter
    <3>2. S!End(s)
      BY <2>2, <2>5, <3>1 DEF S!End
    <3> QED
      BY <2>3, <3>2 DEF S!Next
  <2> QED
    BY <2>6, <2>7, <2>8
<1> QED
  BY <1>4, <1>5

LEMMA RevokeAllRefines ==
  ASSUME Inv, NEW r \in Requests, RevokeAllForUser(r)
  PROVE  [S!Next]_S!svars
<1> DEFINE u == req[r].existing.user
           R == {t \in Tokens : RevokeAllMatches(t, u)}
<1>1. /\ req[r] \in Request /\ tokens \in [Tokens -> Row] /\ req[r].pc = "revokeAll"
      /\ Snapshot(req[r])
  BY DEF RevokeAllForUser, At, Inv, TypeOK, RequestInv
<1>2. u \in Emails
  BY <1>1 DEF Snapshot, Inv, RowInv
<1>3. /\ R \in SUBSET Live
      /\ tokens' = [t \in Tokens |->
                      IF t \in R THEN [tokens[t] EXCEPT !.status = "revoked"]
                                 ELSE tokens[t]]
  BY DEF RevokeAllForUser, RevokeAllMatches, Live
<1>4. /\ UNCHANGED <<sessionOwner, Tokens \ Absent>>
      /\ sessionTokens' =
           [s \in Tokens |-> {t \in Live \ R : tokens[t].session = s}]
  BY <1>3, RevokedSessions
<1>5. \A t \in Live : /\ t \in Tokens
                      /\ sessionOwner[tokens[t].session] = tokens[t].user
                      /\ t \in R <=> tokens[t].user = u
  <2>1. \A t \in Live : t \in Tokens /\ Present(t)
    BY DEF Live, Present
  <2>2. \A t \in Live : sessionOwner[tokens[t].session] = tokens[t].user
    BY <2>1 DEF Inv, RowInv, sessionOwner
  <2>3. \A t \in Live : t \in R <=> tokens[t].user = u
    BY DEF RevokeAllMatches, Live
  <2> QED
    BY <2>1, <2>2, <2>3
<1>6. \A s \in Tokens : {t \in Live \ R : tokens[t].session = s}
        = IF sessionOwner[s] = u THEN {} ELSE {t \in Live : tokens[t].session = s}
  BY <1>5
<1>7. UNCHANGED sessionsExchanging
  <2>1. PICK code \in Nat : Become(r, [req[r] EXCEPT !.pc = "reply", !.code = code])
    BY StatusIsNat, Codes DEF RevokeAllForUser, Acknowledge, Fail, Answer
  <2>2. /\ [req[r] EXCEPT !.pc = "reply", !.code = code] \in Request
        /\ [req[r] EXCEPT !.pc = "reply", !.code = code].pc = "reply"
    BY <1>1 DEF Request, PCs
  <2>3. ~Exchanging(r)
    BY <1>1 DEF Exchanging, At
  <2> QED
    BY <2>1, <2>2, <2>3, ExchangingAfter
<1>8. S!EndAll(u)
  <2>1. sessionTokens' =
          [s \in Tokens |-> IF sessionOwner[s] = u THEN {} ELSE sessionTokens[s]]
    BY <1>4, <1>6 DEF sessionTokens
  <2> QED
    BY <1>4, <1>7, <2>1 DEF S!EndAll
<1> QED
  BY <1>2, <1>8 DEF S!Next

LEMMA IssueRefines ==
  ASSUME Inv, NEW r \in Requests, IssueTokenPair(r)
  PROVE  [S!Next]_S!svars
<1>1. PICK n \in Absent :
        /\ tokens' = [tokens EXCEPT ![n] = NewRow(r, n)]
        /\ \/ Become(r, [req[r] EXCEPT !.pc = "reply", !.pair = n,
               !.code = IF req[r].op = "signup" THEN Created ELSE OK])
           \/ Become(r, [req[r] EXCEPT !.pc = "reply", !.code = InternalError])
  BY DEF IssueTokenPair, Acknowledge, Answer
<1>2. /\ req[r] \in Request /\ RequestInv(req[r]) /\ req[r].pc = "issue"
      /\ tokens \in [Tokens -> Row] /\ n \in Tokens /\ tokens[n] = NoRow
  BY DEF Inv, TypeOK, RowInv, Absent, Present, IssueTokenPair, At
<1>3. PICK q \in Request : Become(r, q) /\ q.pc = "reply"
  <2>1. /\ [req[r] EXCEPT !.pc = "reply", !.code = InternalError] \in Request
        /\ [req[r] EXCEPT !.pc = "reply", !.pair = n,
              !.code = IF req[r].op = "signup" THEN Created ELSE OK] \in Request
    BY <1>2, Codes DEF Request, PCs
  <2> QED
    BY <1>1, <1>2, <2>1 DEF Request
<1>4. PICK row : row = NewRow(r, n)
  OBVIOUS
<1>5. \A t \in Tokens : tokens'[t] = IF t = n THEN row ELSE tokens[t]
  BY <1>1, <1>2, <1>4
<1>6. row.status = "live" /\ tokens[n].status = "absent" /\ tokens[n].session = None
  BY <1>2, <1>4 DEF NewRow, NoRow
<1>7. /\ Live' = Live \cup {n} /\ n \notin Live
      /\ (Tokens \ Absent)' = (Tokens \ Absent) \cup {n} /\ n \notin Tokens \ Absent
  BY <1>2, <1>5, <1>6 DEF Live, Absent
<1>8. \A s \in Tokens : sessionTokens'[s] =
        IF row.session = s THEN sessionTokens[s] \cup {n} ELSE sessionTokens[s]
  BY <1>2, <1>5, <1>7 DEF sessionTokens, Live
<1>0. /\ sessionTokens = [s \in Tokens |-> sessionTokens[s]]
      /\ sessionTokens' = [s \in Tokens |-> sessionTokens'[s]]
  BY DEF sessionTokens
<1>9. CASE req[r].op = "refresh"
  <2> DEFINE s == req[r].existing.session
  <2>1. Snapshot(req[r]) /\ Exchanging(r)
    BY <1>2, <1>9 DEF RequestInv, Exchanging, At
  <2>2. /\ s \in Tokens /\ Present(s) /\ tokens[s].session = s
        /\ row.session = s
    BY <1>4, <1>9, <2>1 DEF Snapshot, Inv, RowInv, NewRow
  <2>3. s # n
    BY <1>6, <2>2 DEF Present
  <2>4. sessionTokens[s] = {}
    BY <2>1, <2>2 DEF sessionTokens, Inv, OneCurrentToken
  <2>5. sessionTokens' = [sessionTokens EXCEPT ![s] = {n}]
    BY <1>0, <1>8, <2>2, <2>4
  <2>6. UNCHANGED sessionOwner
    <3>1. tokens[n].session # n
      BY <1>2, <1>6, NoneAssumption
    <3> QED
      BY <1>5, <2>2, <2>3, <3>1 DEF sessionOwner
  <2>7. /\ sessionsExchanging' = sessionsExchanging \ {s}
        /\ s \in sessionsExchanging
    BY <1>3, <2>1, ExchangingAfter DEF sessionsExchanging
  <2>8. S!Renew(s, n)
    BY <1>7, <2>5, <2>6, <2>7 DEF S!Renew
  <2> QED
    BY <1>2, <2>2, <2>8 DEF S!Next
<1>10. CASE req[r].op # "refresh"
  <2>1. row.session = n /\ row.user = req[r].email /\ req[r].email \in Emails
    BY <1>2, <1>4, <1>10 DEF NewRow, Owner, RequestInv
  <2>2. sessionTokens[n] = {}
    <3>1. \A t \in Live : t \in Tokens /\ Present(t)
      BY DEF Live, Present
    <3>2. \A t \in Live : tokens[t].session # n
      BY <3>1, <1>6 DEF Inv, RowInv, Present
    <3> QED
      BY <3>2, <1>2 DEF sessionTokens
  <2>3. sessionTokens' = [sessionTokens EXCEPT ![n] = {n}]
    BY <1>0, <1>2, <1>8, <2>1, <2>2
  <2>4. sessionOwner' = [sessionOwner EXCEPT ![n] = req[r].email]
    BY <1>2, <1>5, <2>1 DEF sessionOwner
  <2>5. UNCHANGED sessionsExchanging
    BY <1>3, <1>10, ExchangingAfter DEF Exchanging
  <2>6. S!Open(n, req[r].email)
    BY <1>7, <2>3, <2>4, <2>5 DEF S!Open
  <2> QED
    BY <1>2, <2>1, <2>6 DEF S!Next
<1> QED
  BY <1>9, <1>10

\* Every other step of a request leaves refresh_tokens alone and does not
\* start an exchange.
LEMMA OtherStepsAreLocal ==
  ASSUME Inv, NEW r \in Requests,
         \/ Begin(r) \/ Fault(r) \/ Cancel(r) \/ CreateUser(r) \/ FindUser(r)
         \/ FindByHash(r) \/ DecideRefresh(r) \/ DecideLogout(r) \/ Reply(r)
  PROVE  /\ UNCHANGED tokens
         /\ \E q \in Request : Become(r, q) /\ ~(q.pc = "issue" /\ q.op = "refresh")
<1>1. /\ req[r] \in Request /\ RequestInv(req[r]) /\ tokens \in [Tokens -> Row]
      /\ delivered \subseteq Tokens
  BY DEF Inv, TypeOK
<1>2. ASSUME NEW code \in Nat, Answer(r, code)
      PROVE  \E q \in Request : Become(r, q) /\ ~(q.pc = "issue" /\ q.op = "refresh")
  <2> DEFINE q == [req[r] EXCEPT !.pc = "reply", !.code = code]
  <2>1. q \in Request /\ q.pc = "reply"
    BY <1>1 DEF Request, PCs
  <2> QED
    BY <1>2, <2>1 DEF Answer
<1>3. ASSUME NEW pc \in PCs, Goto(r, pc), pc = "issue" => req[r].op # "refresh"
      PROVE  \E q \in Request : Become(r, q) /\ ~(q.pc = "issue" /\ q.op = "refresh")
  <2> DEFINE q == [req[r] EXCEPT !.pc = pc]
  <2>1. q \in Request /\ q.pc = pc /\ q.op = req[r].op
    BY <1>1 DEF Request
  <2> QED
    BY <1>3, <2>1 DEF Goto
<1>4. CASE Begin(r)
  <2>1. ASSUME NEW op \in Ops, NEW pc \in PCs \ {"issue"}, NEW e \in Emails \cup {None},
               NEW p \in Passwords \cup {None}, NEW t \in Tokens \cup {None},
               Start(r, op, pc, e, p, t)
        PROVE  \E q \in Request : Become(r, q) /\ ~(q.pc = "issue" /\ q.op = "refresh")
    <3> DEFINE q == [Idle EXCEPT !.op = op, !.pc = pc, !.email = e,
                                 !.password = p, !.token = t]
    <3>1. q \in Request /\ q.pc = pc
      BY IdleIsRequest DEF Request, Idle
    <3> QED
      BY <2>1, <3>1 DEF Start
  <2>2. ASSUME NEW e \in Emails, NEW op \in Ops,
               \/ Become(r, [Idle EXCEPT !.op = "signup", !.pc = "reply",
                                        !.email = e, !.code = InternalError])
               \/ Become(r, [Idle EXCEPT !.op = op, !.pc = "reply",
                                        !.code = BadRequest])
        PROVE  \E q \in Request : Become(r, q) /\ ~(q.pc = "issue" /\ q.op = "refresh")
    <3> DEFINE a == [Idle EXCEPT !.op = "signup", !.pc = "reply",
                                 !.email = e, !.code = InternalError]
               b == [Idle EXCEPT !.op = op, !.pc = "reply", !.code = BadRequest]
    <3>1. a \in Request /\ b \in Request /\ a.pc = "reply" /\ b.pc = "reply"
      BY IdleIsRequest, Codes DEF Request, Idle, Ops, PCs
    <3> QED
      BY <2>2, <3>1
  <2>3. CASE BeginSignup(r)
    BY <2>1, <2>2, <2>3 DEF BeginSignup, Signup, Start, Ops, PCs
  <2>4. CASE BeginLogin(r)
    BY <2>1, <2>4 DEF BeginLogin, Start, Ops, PCs
  <2>5. CASE BeginRefresh(r) \/ BeginLogout(r)
    BY <1>1, <2>1, <2>5 DEF BeginRefresh, BeginLogout, Start, Ops, PCs
  <2>6. CASE Reject(r)
    <3> DEFINE b(op) == [Idle EXCEPT !.op = op, !.pc = "reply", !.code = BadRequest]
    <3>1. \A op \in Ops : b(op) \in Request /\ b(op).pc = "reply"
      BY IdleIsRequest, Codes DEF Request, Idle, PCs
    <3> QED
      BY <2>6, <3>1 DEF Reject
  <2> QED
    BY <1>4, <2>3, <2>4, <2>5, <2>6 DEF Begin
<1>5. CASE Fault(r)
  BY <1>2, <1>5, Codes DEF Fault
<1>6. CASE Cancel(r) \/ Reply(r)
  BY <1>6, IdleIsRequest DEF Cancel, Reply, Idle
<1>7. CASE CreateUser(r)
  <2>1. req[r].op = "signup"
    BY <1>1, <1>7 DEF CreateUser, At, RequestInv
  <2> QED
    BY <1>2, <1>3, <1>7, <2>1, Codes, StatusIsNat DEF CreateUser, Fail, Acknowledge, PCs
<1>8. CASE FindUser(r)
  <2>1. req[r].op = "login"
    BY <1>1, <1>8 DEF FindUser, FindByEmail, At, RequestInv
  <2> QED
    BY <1>2, <1>3, <1>8, <2>1, StatusIsNat DEF FindUser, FindByEmail, Fail, PCs
<1>9. CASE FindByHash(r)
  <2>1. CASE req[r].token = None
    BY <1>2, <1>9, <2>1, StatusIsNat DEF FindByHash, Fail
  <2>2. CASE req[r].token # None
    <3> DEFINE q == [req[r] EXCEPT !.pc = "decide", !.existing = tokens[req[r].token]]
    <3>1. q \in Request /\ q.pc = "decide"
      BY <1>1, <2>2 DEF Request, PCs
    <3> QED
      BY <1>9, <2>2, <3>1 DEF FindByHash
  <2> QED
    BY <2>1, <2>2
<1>10. CASE DecideRefresh(r) \/ DecideLogout(r)
  BY <1>2, <1>3, <1>10, Codes, StatusIsNat
     DEF DecideRefresh, DecideLogout, OnReuse, Fail, PCs
<1> QED
  BY <1>4, <1>5, <1>6, <1>7, <1>8, <1>9, <1>10

LEMMA NextRefines ==
  ASSUME Inv, [Next]_vars
  PROVE  [S!Next]_S!svars
<1>1. CASE Tick \/ UNCHANGED vars
  BY <1>1 DEF Tick, vars, S!svars, sessionOwner, sessionTokens, sessionsExchanging,
              Live, Absent, Exchanging, At
<1>2. ASSUME NEW r \in Requests, Begin(r) \/ Step(r) \/ Fault(r) \/ Cancel(r)
      PROVE  [S!Next]_S!svars
  BY <1>2, RevokeRefines, RevokeAllRefines, IssueRefines, OtherStepsAreLocal,
     LocalRefines DEF Step
<1> QED
  BY <1>1, <1>2 DEF Next

\* The statements of Signup, Login, Refresh and Logout, interleaved in any
\* way, cut off anywhere and with any acknowledgement lost, implement the
\* abstract sessions.
THEOREM SessionsImplemented == Spec => ImplementsSessions
<1>1. Init => S!Init
  BY SessionsInit
<1>2. Inv /\ [Next]_vars => [S!Next]_S!svars
  BY NextRefines
<1> QED
  BY <1>1, <1>2, InvIsInvariant, PTL DEF Spec, ImplementsSessions, S!Spec
============================================================================
