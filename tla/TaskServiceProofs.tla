------------------------- MODULE TaskServiceProofs -------------------------
(***************************************************************************)
(* Proofs about TaskService, for any users, titles, requests and number of *)
(* tasks, any page limits and any pages asked for.                         *)
(***************************************************************************)
EXTENDS TaskService, FiniteSetTheorems, TLAPS

----------------------------------------------------------------------------
(* The inductive invariant *)

\* No row has an id that was not handed out, and no row is without owner.
TableInv ==
  /\ \A i \in Ids : i >= nextId => tasks[i] = NoRow
  /\ \A i \in Ids : tasks[i].owner = None => tasks[i] = NoRow

\* A task with an id handed out before is the user's or gone.  This is what
\* the ownership check leaves behind, and what keeps the write by id safe.
OwnOrGone(i, u) ==
  /\ i \in Ids /\ i < nextId
  /\ tasks[i].owner \in {u, None}

\* What a request holds at each of its steps.
RequestInv(q) ==
  /\ q.pc = "insert" => /\ q.op = "create" /\ q.user \in Users
                        /\ q.body.owner = q.user /\ q.body.status \in TaskStatus
  /\ q.pc = "find" => q.op \in {"get", "update", "delete"}
                      /\ q.user \in Users /\ q.task \in Ids
  /\ q.pc \in {"find", "update"} /\ q.op = "update" => q.body.status \in TaskStatus
  /\ q.pc \in {"update", "delete"} =>
       /\ q.op = q.pc /\ q.user \in Users
       /\ q.row.owner = q.user /\ OwnOrGone(q.task, q.user)
  /\ q.pc \in {"count", "select"} => q.op = "list" /\ q.user \in Users
  /\ q.pc # "reply" => q.page = {}
  /\ \A i \in q.page : OwnOrGone(i, q.user)
  /\ q.pc = "reply" /\ q.code \in {OK, Created} /\ q.op # "list" =>
       q.row.owner = q.user
  /\ q.pc = "reply" /\ q.op = "delete" /\ q.code = NoContent =>
       q.task \in Ids /\ q.task < nextId /\ tasks[q.task] = NoRow

Inv ==
  /\ TypeOK
  /\ TableInv
  /\ \A r \in Requests : RequestInv(req[r])
  /\ OneDeleteSucceeds

----------------------------------------------------------------------------
LEMMA Codes ==
  /\ OK \in Nat /\ Created \in Nat /\ NoContent \in Nat
  /\ BadRequest \in Nat /\ InternalError \in Nat
  /\ NoContent \notin {OK, Created}
  /\ BadRequest \notin {OK, Created, NoContent}
  /\ InternalError \notin {OK, Created, NoContent}
  BY DEF OK, Created, NoContent, BadRequest, InternalError

LEMMA ErrorCodes ==
  \A err : /\ writeDomainError(err) \in Nat
           /\ writeDomainError(err) \notin {OK, Created, NoContent}
  BY DEF writeDomainError, StatusOf, InternalError, OK, Created, NoContent

LEMMA IdleIsRequest == Idle \in Request /\ NoRow \in Row
  BY DEF Idle, Request, NoRow, Row, Ops, PCs

LEMMA InitInv == Init => Inv
<1> SUFFICES ASSUME Init PROVE Inv
  OBVIOUS
<1>1. TypeOK
  BY IdleIsRequest, MaxTasksAssumption DEF Init, TypeOK
<1>2. TableInv
  BY DEF Init, TableInv
<1>3. \A r \in Requests : RequestInv(req[r])
  BY DEF Init, RequestInv, Idle
<1>4. OneDeleteSucceeds
  BY DEF Init, OneDeleteSucceeds, At, Idle
<1> QED
  BY <1>1, <1>2, <1>3, <1>4 DEF Inv

\* A step of one request that leaves the table alone, and is not the answer
\* of a deletion, keeps the invariant.
LEMMA LocalStep ==
  ASSUME Inv, NEW r \in Requests, NEW q \in Request, Become(r, q),
         UNCHANGED tasks, nextId' \in {nextId, nextId + 1},
         nextId' \in 1..(MaxTasks + 1),
         RequestInv(q), ~(q.pc = "reply" /\ q.op = "delete" /\ q.code = NoContent)
  PROVE  Inv'
<1>1. /\ req' = [req EXCEPT ![r] = q] /\ req \in [Requests -> Request]
      /\ nextId \in Nat /\ nextId' \in Nat /\ nextId <= nextId'
  BY MaxTasksAssumption DEF Become, Inv, TypeOK
<1>2. TypeOK'
  BY <1>1 DEF Inv, TypeOK
<1>3. TableInv'
  <2>1. \A i \in Ids : i >= nextId' => i >= nextId
    BY <1>1, MaxTasksAssumption DEF Ids
  <2> QED
    BY <2>1 DEF Inv, TableInv
<1>4. (\A k \in Requests : RequestInv(req[k]))'
  <2>1. \A k \in Requests : req'[k] = IF k = r THEN q ELSE req[k]
    BY <1>1
  <2>2. \A k \in Requests : RequestInv(req'[k])
    BY <2>1 DEF Inv
  <2>3. \A i \in Ids : i < nextId => i < nextId'
    BY <1>1, MaxTasksAssumption DEF Ids
  <2> QED
    BY <2>2, <2>3 DEF RequestInv, OwnOrGone
<1>5. OneDeleteSucceeds'
  BY <1>1 DEF Inv, OneDeleteSucceeds, At
<1> QED
  BY <1>2, <1>3, <1>4, <1>5 DEF Inv

----------------------------------------------------------------------------
(* The steps that leave the table alone *)

LEMMA ErrorInv ==
  ASSUME Inv, NEW r \in Requests, NEW code \in Nat, Answer(r, code),
         code \notin {OK, Created, NoContent}, UNCHANGED tasks,
         nextId' \in {nextId, nextId + 1}, nextId' \in 1..(MaxTasks + 1)
  PROVE  Inv'
<1> DEFINE a == [req[r] EXCEPT !.pc = "reply", !.code = code]
<1>1. req[r] \in Request /\ RequestInv(req[r])
  BY DEF Inv, TypeOK
<1>2. a \in Request /\ a.pc = "reply" /\ a.code = code /\ a.page = req[r].page
      /\ a.user = req[r].user
  BY <1>1 DEF Request, PCs
<1>3. RequestInv(a)
  BY <1>1, <1>2 DEF RequestInv
<1> QED
  BY <1>2, <1>3, LocalStep DEF Answer

LEMMA FailInv ==
  ASSUME Inv, NEW r \in Requests, NEW err, Fail(r, err), UNCHANGED <<tasks, nextId>>
  PROVE  Inv'
  BY ErrorInv, ErrorCodes DEF Fail, Inv, TypeOK

LEMMA FaultInv ==
  ASSUME Inv, NEW r \in Requests, Fault(r)
  PROVE  Inv'
<1>1. nextId' \in {nextId, nextId + 1} /\ nextId' \in 1..(MaxTasks + 1)
  BY MaxTasksAssumption DEF Fault, Inv, TypeOK
<1> QED
  BY <1>1, ErrorInv, Codes DEF Fault

LEMMA EndInv ==
  ASSUME Inv, NEW r \in Requests, Reply(r) \/ Cancel(r)
  PROVE  Inv'
<1>1. RequestInv(Idle) /\ Idle.pc = "idle"
  BY DEF RequestInv, Idle
<1> QED
  BY <1>1, LocalStep, IdleIsRequest DEF Reply, Cancel, Inv, TypeOK

LEMMA BeginInv ==
  ASSUME Inv, NEW r \in Requests,
         \/ BeginCreate(r) \/ BeginList(r) \/ BeginGet(r) \/ BeginUpdate(r)
         \/ BeginDelete(r) \/ Reject(r)
  PROVE  Inv'
<1>1. UNCHANGED <<tasks, nextId>> /\ nextId \in 1..(MaxTasks + 1)
  BY DEF BeginCreate, BeginList, BeginGet, BeginDelete, BeginFind, BeginUpdate, Reject, Inv, TypeOK
<1> USE IdleIsRequest, Codes
<1> USE DEF Idle, Request, Row, Ops, PCs
<1>2. CASE BeginCreate(r)
  <2>1. PICK u \in Users, t \in Titles :
          Become(r, [Idle EXCEPT !.op = "create", !.pc = "insert", !.user = u,
                                     !.body = NewTask(u, t)])
    BY <1>2 DEF BeginCreate
  <2> DEFINE a == [Idle EXCEPT !.op = "create", !.pc = "insert", !.user = u,
                               !.body = NewTask(u, t)]
  <2>2. a \in Request /\ RequestInv(a) /\ a.pc = "insert"
    BY DEF RequestInv, TaskStatus, NewTask
  <2> QED
    BY <1>1, <2>1, <2>2, LocalStep
<1>3. CASE BeginList(r)
  <2>1. PICK u \in Users, st \in TaskStatus \cup {"none"}, l, o \in PageArgs :
          Become(r, [Idle EXCEPT !.op = "list", !.pc = "count", !.user = u,
            !.body = [owner |-> u, title |-> None, status |-> st],
            !.limit = EffectiveLimit(l), !.offset = EffectiveOffset(o)])
    BY <1>3 DEF BeginList
  <2> DEFINE filter == [owner |-> u, title |-> None, status |-> st]
             limit == EffectiveLimit(l)
             offset == EffectiveOffset(o)
             a == [Idle EXCEPT !.op = "list", !.pc = "count", !.user = u,
                     !.body = filter, !.limit = limit, !.offset = offset]
  <2>2. limit \in Int /\ offset \in Int
    BY PageAssumption DEF EffectiveLimit, EffectiveOffset
  <2>3. filter \in Row
    OBVIOUS
  <2>4. Become(r, a)
    BY <2>1
  <2> HIDE DEF filter, limit, offset
  <2>5. a.op = "list" /\ a.pc = "count" /\ a.page = {} /\ a.user \in Users
    OBVIOUS
  <2> HIDE DEF Row, Idle
  <2>6. a \in Request
    BY <2>2, <2>3
  <2> HIDE DEF a
  <2>7. RequestInv(a)
    BY <2>5 DEF RequestInv
  <2> QED
    BY <1>1, <2>4, <2>5, <2>6, <2>7, LocalStep
<1>4. CASE BeginGet(r) \/ BeginDelete(r)
  <2>1. PICK op \in {"get", "delete"}, u \in Users, i \in Ids :
          Become(r, [Idle EXCEPT !.op = op, !.pc = "find", !.user = u, !.task = i])
    BY <1>4 DEF BeginGet, BeginDelete, BeginFind
  <2> DEFINE a == [Idle EXCEPT !.op = op, !.pc = "find", !.user = u, !.task = i]
  <2>2. a \in Request /\ RequestInv(a) /\ a.pc = "find"
    BY DEF RequestInv
  <2> QED
    BY <1>1, <2>1, <2>2, LocalStep
<1>5. CASE BeginUpdate(r)
  <2>1. PICK u \in Users, i \in Ids, t \in Titles, st \in TaskStatus \cup {"none"} :
          Become(r, [Idle EXCEPT !.op = "update", !.pc = "find", !.user = u,
            !.task = i,
            !.body = [owner |-> u, title |-> t, status |-> StatusOrPending(st)]])
    BY <1>5 DEF BeginUpdate
  <2> DEFINE a == [Idle EXCEPT !.op = "update", !.pc = "find", !.user = u,
                     !.task = i,
                     !.body = [owner |-> u, title |-> t, status |-> StatusOrPending(st)]]
  <2>2. StatusOrPending(st) \in TaskStatus
    BY DEF StatusOrPending, TaskStatus
  <2>3. a \in Request /\ RequestInv(a) /\ a.pc = "find"
    BY <2>2 DEF RequestInv
  <2> QED
    BY <1>1, <2>1, <2>3, LocalStep
<1>6. CASE Reject(r)
  <2>1. PICK op \in Ops :
          Become(r, [Idle EXCEPT !.op = op, !.pc = "reply", !.code = BadRequest])
    BY <1>6 DEF Reject
  <2> DEFINE a == [Idle EXCEPT !.op = op, !.pc = "reply", !.code = BadRequest]
  <2>2. a \in Request /\ RequestInv(a) /\ a.code = BadRequest
    BY DEF RequestInv
  <2> QED
    BY <1>1, <2>1, <2>2, LocalStep
<1> QED
  BY <1>2, <1>3, <1>4, <1>5, <1>6

LEMMA FindInv ==
  ASSUME Inv, NEW r \in Requests, FindByID(r)
  PROVE  Inv'
<1> DEFINE i == req[r].task
           row == tasks[i]
<1>1. /\ req[r] \in Request /\ RequestInv(req[r]) /\ req[r].pc = "find"
      /\ req[r].op \in {"get", "update", "delete"} /\ req[r].user \in Users
      /\ i \in Ids /\ row \in Row /\ req[r].page = {}
      /\ nextId \in 1..(MaxTasks + 1) /\ UNCHANGED <<tasks, nextId>>
  BY DEF FindByID, At, Inv, TypeOK, RequestInv
<1>2. CASE Fail(r, "ErrNotFound") \/ Fail(r, "ErrForbidden")
  BY <1>1, <1>2, FailInv
<1>3. CASE /\ row.owner # None /\ MayAccess(r, row)
           /\ Become(r, Granted(r, row))
  <2>1. row.owner = req[r].user /\ i < nextId
    <3>1. ~(i >= nextId)
      BY <1>1, <1>3 DEF Inv, TableInv, NoRow
    <3> QED
      BY <1>1, <1>3, <3>1, MaxTasksAssumption DEF MayAccess, Ids
  <2> DEFINE a == [req[r] EXCEPT !.row = row, !.pc = "reply", !.code = OK]
             b == [req[r] EXCEPT !.row = row, !.pc = req[r].op]
  <2>2. CASE req[r].op = "get"
    <3>1. a \in Request /\ a.op = "get" /\ Become(r, a)
      BY <1>1, <1>3, <2>2, Codes DEF Request, PCs, Granted
    <3>2. RequestInv(a)
      BY <1>1, <2>1, <2>2, Codes DEF RequestInv, Request
    <3> QED
      BY <1>1, <3>1, <3>2, LocalStep
  <2>3. CASE req[r].op # "get"
    <3>1. b \in Request /\ b.pc \in {"update", "delete"} /\ Become(r, b)
      BY <1>1, <1>3, <2>3 DEF Request, PCs, Granted
    <3>2. RequestInv(b)
      BY <1>1, <2>1, <2>3 DEF RequestInv, Request, OwnOrGone
    <3> QED
      BY <1>1, <3>1, <3>2, LocalStep
  <2> QED
    BY <2>2, <2>3
<1> QED
  BY <1>2, <1>3 DEF FindByID

LEMMA MatchingIsFinite ==
  ASSUME NEW r \in Requests
  PROVE  /\ Matching(r) \subseteq Ids
         /\ Cardinality(Matching(r)) \in Nat
<1>1. Matching(r) \subseteq Ids
  BY DEF Matching, Stored
<1>2. IsFiniteSet(Ids)
  BY FS_Interval, MaxTasksAssumption DEF Ids
<1>3. IsFiniteSet(Matching(r))
  BY <1>1, <1>2, FS_Subset
<1> QED
  BY <1>1, <1>3, FS_CardinalityType

LEMMA ListInv ==
  ASSUME Inv, NEW r \in Requests, Count(r) \/ Select(r)
  PROVE  Inv'
<1>1. /\ req[r] \in Request /\ RequestInv(req[r]) /\ req[r].pc \in {"count", "select"}
      /\ req[r].op = "list" /\ req[r].user \in Users /\ req[r].page = {}
      /\ nextId \in 1..(MaxTasks + 1) /\ UNCHANGED <<tasks, nextId>>
  BY DEF Count, Select, At, Inv, TypeOK, RequestInv
<1>2. CASE Count(r)
  <2> DEFINE a == [req[r] EXCEPT !.pc = "select", !.total = Cardinality(Matching(r))]
  <2>1. a \in Request /\ a.pc = "select" /\ Become(r, a)
    BY <1>1, <1>2, MatchingIsFinite DEF Request, PCs, Count
  <2>2. RequestInv(a)
    BY <1>1 DEF RequestInv, Request
  <2> QED
    BY <1>1, <2>1, <2>2, LocalStep
<1>3. CASE Select(r)
  <2>1. PICK p \in SUBSET Matching(r) :
          Become(r, [req[r] EXCEPT !.pc = "reply", !.page = p, !.code = OK])
    BY <1>3 DEF Select, Pages
  <2> DEFINE a == [req[r] EXCEPT !.pc = "reply", !.page = p, !.code = OK]
  <2>2. a \in Request /\ a.op = "list"
    BY <1>1, <2>1, MatchingIsFinite, Codes DEF Request, PCs
  <2>3. \A i \in p : OwnOrGone(i, req[r].user)
    <3> SUFFICES ASSUME NEW i \in p PROVE OwnOrGone(i, req[r].user)
      OBVIOUS
    <3>1. i \in Ids /\ tasks[i].owner # None /\ tasks[i].owner = req[r].user
      BY <2>1 DEF Matching, Stored
    <3>2. ~(i >= nextId)
      BY <3>1 DEF Inv, TableInv, NoRow
    <3> QED
      BY <1>1, <3>1, <3>2, MaxTasksAssumption DEF OwnOrGone, Ids
  <2>4. RequestInv(a)
    BY <1>1, <2>3 DEF RequestInv, Request
  <2> QED
    BY <1>1, <2>1, <2>2, <2>4, LocalStep
<1> QED
  BY <1>2, <1>3

----------------------------------------------------------------------------
(* The steps that write the table *)

\* One row is written, with an id that is the next one or already handed out;
\* an id handed out keeps its owner or loses its row for good.
LEMMA WriteStep ==
  ASSUME Inv, NEW r \in Requests, NEW q \in Request, Become(r, q),
         NEW i \in Ids, NEW row \in Row, tasks' = [tasks EXCEPT ![i] = row],
         row.owner = None => row = NoRow,
         nextId' \in {nextId, nextId + 1}, nextId' \in 1..(MaxTasks + 1), i < nextId',
         i < nextId => row.owner \in {tasks[i].owner, None}
                       /\ (tasks[i] = NoRow => row = NoRow),
         RequestInv(q)',
         q.pc = "reply" /\ q.op = "delete" /\ q.code = NoContent =>
           q.task = i /\ tasks[i] # NoRow /\ row = NoRow
  PROVE  Inv'
<1>1. /\ req' = [req EXCEPT ![r] = q] /\ req \in [Requests -> Request]
      /\ tasks \in [Ids -> Row] /\ nextId \in Nat /\ nextId' \in Nat
      /\ nextId <= nextId'
  BY MaxTasksAssumption DEF Become, Inv, TypeOK
<1>2. TypeOK'
  BY <1>1 DEF Inv, TypeOK
<1>3. \A j \in Ids : tasks'[j] = IF j = i THEN row ELSE tasks[j]
  BY <1>1
<1>4. TableInv'
  <2>1. \A j \in Ids : j >= nextId' => j >= nextId /\ j # i
    BY <1>1, MaxTasksAssumption DEF Ids
  <2> QED
    BY <2>1, <1>3 DEF Inv, TableInv
<1>5. \A j \in Ids : j < nextId => j < nextId'
  BY <1>1, MaxTasksAssumption DEF Ids
<1>6. \A j \in Ids : \A u : OwnOrGone(j, u) => OwnOrGone(j, u)'
  BY <1>3, <1>5 DEF OwnOrGone
<1>7. (\A k \in Requests : RequestInv(req[k]))'
  <2> SUFFICES ASSUME NEW k \in Requests PROVE RequestInv(req[k])'
    OBVIOUS
  <2>1. CASE k = r
    <3>1. req'[k] = q
      BY <1>1, <2>1
    <3> QED
      BY <3>1 DEF RequestInv, OwnOrGone
  <2>2. CASE k # r
    <3>1. req'[k] = req[k] /\ RequestInv(req[k])
      BY <1>1, <2>2 DEF Inv
    <3>2. \A j \in Ids : j < nextId /\ tasks[j] = NoRow => tasks'[j] = NoRow
      BY <1>3
    <3> QED
      BY <3>1, <3>2, <1>3, <1>5 DEF RequestInv, OwnOrGone
  <2> QED
    BY <2>1, <2>2
<1>8. OneDeleteSucceeds'
  <2> DEFINE Gone(p) == p.pc = "reply" /\ p.op = "delete" /\ p.code = NoContent
  <2>1. \A k \in Requests : k # r /\ Gone(req[k]) =>
          req[k].task \in Ids /\ req[k].task < nextId /\ tasks[req[k].task] = NoRow
    BY DEF Inv, RequestInv
  <2>2. \A k \in Requests : req'[k] = IF k = r THEN q ELSE req[k]
    BY <1>1
  <2> QED
    BY <2>1, <2>2, <1>3 DEF Inv, OneDeleteSucceeds, At
<1> QED
  BY <1>2, <1>4, <1>7, <1>8 DEF Inv

LEMMA InsertInv ==
  ASSUME Inv, NEW r \in Requests, Insert(r)
  PROVE  Inv'
<1>1. PICK i \in Ids :
        /\ i = nextId /\ tasks' = [tasks EXCEPT ![i] = req[r].body]
        /\ nextId' = nextId + 1
        /\ \/ Become(r, [req[r] EXCEPT !.pc = "reply", !.task = i,
                         !.row = req[r].body, !.code = Created])
           \/ Become(r, [req[r] EXCEPT !.pc = "reply", !.code = InternalError])
  BY DEF Insert, IdHandedOut, Acknowledge, Answer
<1>2. /\ req[r] \in Request /\ RequestInv(req[r]) /\ req[r].pc = "insert"
      /\ req[r].body \in Row /\ req[r].op = "create" /\ req[r].user \in Users
      /\ req[r].body.owner = req[r].user /\ req[r].page = {}
  BY DEF Insert, At, Inv, TypeOK, RequestInv, Request
<1>3. /\ nextId' \in 1..(MaxTasks + 1) /\ i < nextId' /\ ~(i < nextId)
      /\ req[r].body.owner # None
  BY <1>1, <1>2, MaxTasksAssumption, NoneAssumption DEF Ids
<1>4. PICK q \in Request : Become(r, q) /\ RequestInv(q)' /\ q.op = "create"
  <2>1. CASE Become(r, [req[r] EXCEPT !.pc = "reply", !.task = i,
                          !.row = req[r].body, !.code = Created])
    <3>1. PICK a : a = [req[r] EXCEPT !.pc = "reply", !.task = i,
                          !.row = req[r].body, !.code = Created]
      OBVIOUS
    <3>2. /\ a \in Request /\ a.op = "create" /\ a.pc = "reply" /\ a.page = {}
          /\ a.row.owner = a.user
      BY <1>2, <3>1, Codes DEF Request, PCs
    <3>3. RequestInv(a)'
      BY <3>2 DEF RequestInv
    <3> QED
      BY <2>1, <3>1, <3>2, <3>3
  <2>2. CASE Become(r, [req[r] EXCEPT !.pc = "reply", !.code = InternalError])
    <3>1. PICK a : a = [req[r] EXCEPT !.pc = "reply", !.code = InternalError]
      OBVIOUS
    <3>2. /\ a \in Request /\ a.op = "create" /\ a.pc = "reply" /\ a.page = {}
          /\ a.code = InternalError
      BY <1>2, <3>1, Codes DEF Request, PCs
    <3>3. RequestInv(a)'
      BY <3>2, Codes DEF RequestInv
    <3> QED
      BY <2>2, <3>1, <3>2, <3>3
  <2> QED
    BY <1>1, <2>1, <2>2
<1> QED
  BY <1>1, <1>2, <1>3, <1>4, WriteStep

LEMMA UpdateInv ==
  ASSUME Inv, NEW r \in Requests, Update(r)
  PROVE  Inv'
<1>1. CASE ~UpdateMatches(req[r].task)
  BY <1>1, FailInv DEF Update
<1>2. CASE UpdateMatches(req[r].task)
  <2>1. /\ req[r] \in Request /\ RequestInv(req[r]) /\ req[r].pc = "update"
        /\ req[r].op = "update" /\ req[r].user \in Users
        /\ req[r].row.owner = req[r].user /\ OwnOrGone(req[r].task, req[r].user)
        /\ req[r].page = {} /\ req[r].body.status \in TaskStatus
        /\ tasks \in [Ids -> Row] /\ nextId \in 1..(MaxTasks + 1)
    BY DEF Update, At, Inv, TypeOK, RequestInv
  <2>2. PICK i \in Ids : i = req[r].task
    BY <2>1 DEF OwnOrGone
  <2>3. PICK row : row = Replaced(r, tasks[i])
    OBVIOUS
  <2>4. row \in Row /\ row.owner = tasks[i].owner /\ tasks[i].owner # None
    BY <1>2, <2>1, <2>2, <2>3 DEF Replaced, Row, Request, UpdateMatches
  <2>5. tasks' = [tasks EXCEPT ![i] = row] /\ nextId' = nextId
    BY <1>2, <2>2, <2>3 DEF Update
  <2>6. tasks[i] # NoRow /\ i < nextId
    BY <2>1, <2>2, <2>4 DEF NoRow, OwnOrGone
  <2>7. PICK q \in Request : Become(r, q) /\ RequestInv(q)' /\ q.op = "update"
    <3>1. \/ Become(r, [req[r] EXCEPT !.pc = "reply",
                         !.row = Replaced(r, req[r].row), !.code = OK])
          \/ Become(r, [req[r] EXCEPT !.pc = "reply", !.code = InternalError])
      BY <1>2 DEF Update, Acknowledge, Answer
    <3>2. Replaced(r, req[r].row) \in Row /\ Replaced(r, req[r].row).owner = req[r].user
      BY <2>1 DEF Replaced, Row, Request
    <3>3. PICK a, b :
            /\ a = [req[r] EXCEPT !.pc = "reply",
                      !.row = Replaced(r, req[r].row), !.code = OK]
            /\ b = [req[r] EXCEPT !.pc = "reply", !.code = InternalError]
      OBVIOUS
    <3>4. /\ a \in Request /\ a.op = "update" /\ a.pc = "reply" /\ a.page = {}
          /\ a.row.owner = a.user /\ a.code = OK
      BY <2>1, <3>2, <3>3, Codes DEF Request, PCs
    <3>5. /\ b \in Request /\ b.op = "update" /\ b.pc = "reply" /\ b.page = {}
          /\ b.code = InternalError
      BY <2>1, <3>3, Codes DEF Request, PCs
    <3>6. RequestInv(a)' /\ RequestInv(b)'
      BY <3>4, <3>5, Codes DEF RequestInv
    <3> QED
      BY <3>1, <3>3, <3>4, <3>5, <3>6
  <2> QED
    BY <2>1, <2>4, <2>5, <2>6, <2>7, WriteStep
<1> QED
  BY <1>1, <1>2

LEMMA DeleteInv ==
  ASSUME Inv, NEW r \in Requests, Delete(r)
  PROVE  Inv'
<1>1. CASE ~DeleteMatches(req[r].task)
  BY <1>1, FailInv DEF Delete
<1>2. CASE DeleteMatches(req[r].task)
  <2>1. /\ req[r] \in Request /\ RequestInv(req[r]) /\ req[r].pc = "delete"
        /\ req[r].op = "delete" /\ OwnOrGone(req[r].task, req[r].user)
        /\ req[r].page = {} /\ tasks \in [Ids -> Row] /\ nextId \in 1..(MaxTasks + 1)
    BY DEF Delete, At, Inv, TypeOK, RequestInv
  <2>2. PICK i \in Ids : i = req[r].task
    BY <2>1 DEF OwnOrGone
  <2>3. /\ tasks' = [tasks EXCEPT ![i] = NoRow] /\ nextId' = nextId
        /\ tasks[i] # NoRow /\ i < nextId
    BY <1>2, <2>1, <2>2 DEF Delete, DeleteMatches, NoRow, OwnOrGone
  <2>4. PICK code \in Nat :
          /\ Become(r, [req[r] EXCEPT !.pc = "reply", !.code = code])
          /\ code \notin {OK, Created}
    BY <1>2, Codes DEF Delete, Acknowledge, Answer
  <2>5. PICK q : q = [req[r] EXCEPT !.pc = "reply", !.code = code]
    OBVIOUS
  <2>6. /\ q \in Request /\ q.op = "delete" /\ q.pc = "reply" /\ q.page = {}
        /\ q.code = code /\ q.task = i
    BY <2>1, <2>2, <2>5 DEF Request, PCs
  <2>7. tasks'[i] = NoRow
    BY <2>1, <2>3
  <2>8. RequestInv(q)'
    BY <2>3, <2>4, <2>6, <2>7 DEF RequestInv
  <2> QED
    BY <2>1, <2>3, <2>4, <2>5, <2>6, <2>8, IdleIsRequest, WriteStep DEF NoRow
<1> QED
  BY <1>1, <1>2

LEMMA NextInv ==
  ASSUME Inv, [Next]_vars
  PROVE  Inv'
<1>1. CASE UNCHANGED vars
  <2>1. TypeOK' /\ TableInv' /\ OneDeleteSucceeds'
    BY <1>1 DEF Inv, vars, TypeOK, TableInv, OneDeleteSucceeds, At
  <2>2. (\A r \in Requests : RequestInv(req[r]))'
    BY <1>1 DEF Inv, vars, RequestInv, OwnOrGone
  <2> QED
    BY <2>1, <2>2 DEF Inv
<1>2. CASE Next
  BY <1>2, BeginInv, InsertInv, FindInv, UpdateInv, DeleteInv, ListInv, EndInv, FaultInv
     DEF Next
<1> QED
  BY <1>1, <1>2

LEMMA InvIsInvariant == Spec => []Inv
  BY InitInv, NextInv, PTL DEF Spec

----------------------------------------------------------------------------
(* The theorems *)

\* The table, the id sequence and the requests always have their types.
THEOREM TypeCorrect == Spec => []TypeOK
  BY InvIsInvariant, PTL DEF Inv

\* Get, Update, Create and List show a user tasks of their own only.
THEOREM TasksAreIsolated == Spec => []OwnTasksOnly
<1>1. Inv => OwnTasksOnly
  BY DEF Inv, RequestInv, OwnOrGone, OwnTasksOnly, At
<1> QED
  BY <1>1, InvIsInvariant, PTL

\* Of racing deletions of one task one is answered 204.
THEOREM DeletionsSucceedOnce == Spec => []OneDeleteSucceeds
  BY InvIsInvariant, PTL DEF Inv

\* The rows after each statement that can change one.
LEMMA WhoWrites ==
  ASSUME Inv, [Next]_vars
  PROVE  \/ UNCHANGED tasks
         \/ \E i \in Ids : /\ i >= nextId /\ tasks[i] = NoRow
                           /\ \A j \in Ids : j # i => tasks'[j] = tasks[j]
         \/ \E r \in Requests :
              /\ req[r].pc \in {"update", "delete"} /\ req'[r].pc # req[r].pc
              /\ OwnOrGone(req[r].task, req[r].user)
              /\ tasks[req[r].task] # NoRow
              /\ \A j \in Ids : j # req[r].task => tasks'[j] = tasks[j]
<1>1. tasks \in [Ids -> Row] /\ req \in [Requests -> Request]
  BY DEF Inv, TypeOK
<1>2. ASSUME NEW r \in Requests, Insert(r)
      PROVE  \E i \in Ids : /\ i >= nextId /\ tasks[i] = NoRow
                            /\ \A j \in Ids : j # i => tasks'[j] = tasks[j]
  <2>1. PICK i \in Ids : i = nextId /\ tasks' = [tasks EXCEPT ![i] = req[r].body]
    BY <1>2 DEF Insert, IdHandedOut
  <2>2. i >= nextId
    BY <2>1, MaxTasksAssumption DEF Ids
  <2> QED
    BY <1>1, <2>1, <2>2 DEF Inv, TableInv
<1>3. ASSUME NEW r \in Requests, Update(r) \/ Delete(r), ~UNCHANGED tasks
      PROVE  /\ req[r].pc \in {"update", "delete"} /\ req'[r].pc # req[r].pc
             /\ OwnOrGone(req[r].task, req[r].user)
             /\ tasks[req[r].task] # NoRow
             /\ \A j \in Ids : j # req[r].task => tasks'[j] = tasks[j]
  <2>1. /\ req[r].pc \in {"update", "delete"} /\ OwnOrGone(req[r].task, req[r].user)
    BY <1>3 DEF Update, Delete, At, Inv, RequestInv
  <2>2. tasks[req[r].task] # NoRow /\ \A j \in Ids : j # req[r].task => tasks'[j] = tasks[j]
    BY <1>1, <1>3, <2>1 DEF Update, Delete, UpdateMatches, DeleteMatches, NoRow, OwnOrGone
  <2>3. req'[r].pc = "reply"
    <3>1. \A code, row :
            /\ [req[r] EXCEPT !.pc = "reply", !.code = code].pc = "reply"
            /\ [req[r] EXCEPT !.pc = "reply", !.row = row, !.code = code].pc = "reply"
      BY <1>1 DEF Request
    <3>2. \E q : Become(r, q) /\ q.pc = "reply"
      BY <1>3, <3>1 DEF Update, Delete, Acknowledge, Fail, Answer
    <3> QED
      BY <1>1, <3>2 DEF Become
  <2> QED
    BY <2>1, <2>2, <2>3
<1>4. CASE UNCHANGED vars
  BY <1>4 DEF vars
<1>5. CASE Next
  BY <1>2, <1>3, <1>5 DEF Next, BeginCreate, BeginList, BeginGet, BeginDelete, BeginFind, BeginUpdate,
     Reject, FindByID, Count, Select, Reply, Fault, Cancel
<1> QED
  BY <1>4, <1>5

\* The write by id is safe: between the ownership check and the write an id
\* can lose its task but never get another owner.
THEOREM OnlyOwnersWrite == Spec => OwnerWrites
<1>1. Inv /\ [Next]_vars => [OwnerStep]_vars
  <2> SUFFICES ASSUME Inv, [Next]_vars PROVE OwnerStep
    OBVIOUS
  <2> QED
    BY WhoWrites DEF OwnerStep, Stored, OwnOrGone, NoRow
<1> QED
  BY <1>1, InvIsInvariant, PTL DEF Spec, OwnerWrites

\* No deleted task comes back, by a late update or by an id used twice.
THEOREM DeletionIsFinal == Spec => DeletedStaysDeleted
<1>1. Inv /\ [Next]_vars => [NoReturn]_vars
  <2> SUFFICES ASSUME Inv, [Next]_vars, NEW i \in Ids, i < nextId, tasks[i] = NoRow
               PROVE  tasks'[i] = NoRow
    BY DEF NoReturn
  <2>1. nextId \in Nat /\ i \in Nat
    BY MaxTasksAssumption DEF Inv, TypeOK, Ids
  <2>2. \A j \in Ids : j >= nextId => j # i
    BY <2>1
  <2> QED
    BY <2>2, WhoWrites
<1> QED
  BY <1>1, InvIsInvariant, PTL DEF Spec, DeletedStaysDeleted
============================================================================
