---------------------------- MODULE TaskService ----------------------------
(***************************************************************************)
(* The tasks of the users: the task handlers, service/task_service and the *)
(* tasks table.  Get, Update and Delete read the row and check its owner;  *)
(* Update and Delete then write by id alone, in a second statement.  List  *)
(* counts and selects in two statements.  Statements of concurrent         *)
(* requests interleave.                                                    *)
(*                                                                         *)
(* The Auth middleware has identified the user of a request.  The fields   *)
(* Title, Description and DueDate are one value (title); the order of a    *)
(* page is left open, as no property depends on it.                        *)
(***************************************************************************)
EXTENDS Integers, FiniteSets, HttpErrors

CONSTANTS
  Users,
  Titles,
  Requests,           \* slots for requests in flight at one time
  MaxTasks,           \* ids the BIGSERIAL hands out (bound)
  DefaultPageLimit,
  MaxPageLimit,
  PageArgs,           \* limits and offsets a client asks for
  None                \* no value

ASSUME NoneAssumption == None \notin Users \cup Titles
ASSUME MaxTasksAssumption == MaxTasks \in Nat
ASSUME PageAssumption ==
  /\ DefaultPageLimit \in Nat \ {0} /\ MaxPageLimit \in Nat \ {0}
  /\ DefaultPageLimit <= MaxPageLimit
  /\ PageArgs \subseteq Int

VARIABLES
  tasks,      \* the tasks table: [id -> row]
  nextId,     \* the next value of the id sequence
  req         \* the requests in flight

vars == <<tasks, nextId, req>>

----------------------------------------------------------------------------
Ids == 1..MaxTasks

TaskStatus == {"pending", "in_progress", "done"}

Row == [owner: Users \cup {None}, title: Titles \cup {None},
        status: TaskStatus \cup {"none"}]

NoRow == [owner |-> None, title |-> None, status |-> "none"]

Ops == {"create", "list", "get", "update", "delete"}

PCs == {"idle", "insert", "find", "update", "delete", "count", "select", "reply"}

Request == [op: Ops \cup {"none"}, pc: PCs, user: Users \cup {None},
            task: Ids \cup {0},
            body: Row,                       \* the fields sent, or the filter
            row: Row,                        \* the task read, then returned
            limit: Int, offset: Int,         \* the effective page
            total: Nat, page: SUBSET Ids,    \* the result of List
            code: Nat]

Idle == [op |-> "none", pc |-> "idle", user |-> None, task |-> 0,
         body |-> NoRow, row |-> NoRow, limit |-> 0, offset |-> 0,
         total |-> 0, page |-> {}, code |-> 0]

Init ==
  /\ tasks = [i \in Ids |-> NoRow]
  /\ nextId = 1
  /\ req = [r \in Requests |-> Idle]

At(r, pc) == req[r].pc = pc

Stored == {i \in Ids : tasks[i].owner # None}

----------------------------------------------------------------------------
(* Control *)

Become(r, q) == req' = [req EXCEPT ![r] = q]

Answer(r, code) == Become(r, [req[r] EXCEPT !.pc = "reply", !.code = code])

Fail(r, err) == Answer(r, writeDomainError(err))

\* A statement that committed; its acknowledgement can be lost, which the
\* code answers with 500.
Acknowledge(r, outcome) == outcome \/ Answer(r, InternalError)

----------------------------------------------------------------------------
(* The handlers *)

\* Create stores "pending", whatever status the body names.
NewTask(u, t) == [owner |-> u, title |-> t, status |-> "pending"]

BeginCreate(r) ==
  /\ At(r, "idle")
  /\ \E u \in Users, t \in Titles :
       Become(r, [Idle EXCEPT !.op = "create", !.pc = "insert", !.user = u,
                                   !.body = NewTask(u, t)])
  /\ UNCHANGED <<tasks, nextId>>

EffectiveLimit(limit) ==
  LET l == IF limit <= 0 THEN DefaultPageLimit ELSE limit
  IN  IF l > MaxPageLimit THEN MaxPageLimit ELSE l

EffectiveOffset(offset) == IF offset < 0 THEN 0 ELSE offset

\* The filter is a status, or "none" for the tasks of every status.
BeginList(r) ==
  /\ At(r, "idle")
  /\ \E u \in Users, s \in TaskStatus \cup {"none"}, l, o \in PageArgs :
       Become(r, [Idle EXCEPT !.op = "list", !.pc = "count", !.user = u,
         !.body = [owner |-> u, title |-> None, status |-> s],
         !.limit = EffectiveLimit(l), !.offset = EffectiveOffset(o)])
  /\ UNCHANGED <<tasks, nextId>>

\* A handler that reads the task with the id in the path before it acts.
BeginFind(r, op) ==
  /\ At(r, "idle")
  /\ \E u \in Users, i \in Ids :
       Become(r, [Idle EXCEPT !.op = op, !.pc = "find", !.user = u, !.task = i])
  /\ UNCHANGED <<tasks, nextId>>

BeginGet(r) == BeginFind(r, "get")

BeginDelete(r) == BeginFind(r, "delete")

\* An update without a status stores "pending".  Validate has refused any
\* status but the three, so the check in TaskService.Update never fails.
StatusOrPending(s) == IF s = "none" THEN "pending" ELSE s

BeginUpdate(r) ==
  /\ At(r, "idle")
  /\ \E u \in Users, i \in Ids, t \in Titles, s \in TaskStatus \cup {"none"} :
       Become(r, [Idle EXCEPT !.op = "update", !.pc = "find", !.user = u,
         !.task = i,
         !.body = [owner |-> u, title |-> t, status |-> StatusOrPending(s)]])
  /\ UNCHANGED <<tasks, nextId>>

\* Malformed JSON, a bad id, an empty title, an unknown status.
Reject(r) ==
  /\ At(r, "idle")
  /\ \E op \in Ops :
       Become(r, [Idle EXCEPT !.op = op, !.pc = "reply", !.code = BadRequest])
  /\ UNCHANGED <<tasks, nextId>>

----------------------------------------------------------------------------
(* The statements *)

\* Mutant: a new task takes the lowest id that no task has.
IdFree(i) == tasks[i].owner = None /\ \A j \in 1..(i-1) : tasks[j].owner # None

\* BIGSERIAL: every id is handed out once.
IdHandedOut(i) == i = nextId

Insert(r) ==
  /\ At(r, "insert")
  /\ \E i \in Ids :
       /\ IdHandedOut(i)
       /\ tasks' = [tasks EXCEPT ![i] = req[r].body]
       /\ nextId' = nextId + 1
       /\ Acknowledge(r, Become(r, [req[r] EXCEPT
            !.pc = "reply", !.task = i, !.row = req[r].body, !.code = Created]))

\* Mutant: the owner is not compared with the user of the request.
MayAccessAny(r, row) == TRUE

\* The request once its task was read: Get returns the task, Update and Delete
\* go on to write.
Granted(r, row) ==
  IF req[r].op = "get"
  THEN [req[r] EXCEPT !.row = row, !.pc = "reply", !.code = OK]
  ELSE [req[r] EXCEPT !.row = row, !.pc = req[r].op]

\* TaskService.Get: the task must belong to the user of the request.
MayAccess(r, row) == row.owner = req[r].user

FindByID(r) ==
  /\ At(r, "find")
  /\ LET row == tasks[req[r].task] IN
       \/ /\ row.owner = None
          /\ Fail(r, "ErrNotFound")
       \/ /\ row.owner # None /\ ~MayAccess(r, row)
          /\ Fail(r, "ErrForbidden")
       \/ /\ row.owner # None /\ MayAccess(r, row)
          /\ Become(r, Granted(r, row))
  /\ UNCHANGED <<tasks, nextId>>

\* Mutant: INSERT ... ON CONFLICT DO UPDATE.
UpdateMatchesAny(i) == TRUE

\* UPDATE tasks ... WHERE id = $5
UpdateMatches(i) == tasks[i].owner # None

\* The fields a request replaces; id, user_id and created_at stay.
Replaced(r, row) == [row EXCEPT !.title = req[r].body.title,
                                !.status = req[r].body.status]

Update(r) ==
  /\ At(r, "update")
  /\ LET i == req[r].task IN
       \/ /\ UpdateMatches(i)
          /\ tasks' = [tasks EXCEPT ![i] = Replaced(r, tasks[i])]
          /\ Acknowledge(r, Become(r, [req[r] EXCEPT
               !.pc = "reply", !.row = Replaced(r, req[r].row), !.code = OK]))
       \/ /\ ~UpdateMatches(i)
          /\ Fail(r, "ErrNotFound")
          /\ UNCHANGED tasks
  /\ UNCHANGED nextId

\* Mutant: the number of affected rows is not looked at.
DeleteMatchesAny(i) == TRUE

\* DELETE FROM tasks WHERE id = $1; no affected row is ErrNotFound.
DeleteMatches(i) == tasks[i].owner # None

Delete(r) ==
  /\ At(r, "delete")
  /\ \/ /\ DeleteMatches(req[r].task)
        /\ tasks' = [tasks EXCEPT ![req[r].task] = NoRow]
        /\ Acknowledge(r, Answer(r, NoContent))
     \/ /\ ~DeleteMatches(req[r].task)
        /\ Fail(r, "ErrNotFound")
        /\ UNCHANGED tasks
  /\ UNCHANGED nextId

\* Mutant: the status filter replaces the filter on the user.
MatchingAnyUser(r) ==
  {i \in Stored : \/ req[r].body.status = "none" /\ tasks[i].owner = req[r].user
                  \/ tasks[i].status = req[r].body.status}

\* WHERE user_id = $1 [AND status = $2]
Matching(r) ==
  {i \in Stored : /\ tasks[i].owner = req[r].user
                  /\ req[r].body.status \in {"none", tasks[i].status}}

Count(r) ==
  /\ At(r, "count")
  /\ Become(r, [req[r] EXCEPT !.pc = "select", !.total = Cardinality(Matching(r))])
  /\ UNCHANGED <<tasks, nextId>>

\* LIMIT and OFFSET over the matching rows, in an order left open.
Pages(r) ==
  LET m == Matching(r)
      rest == Cardinality(m) - req[r].offset
      size == IF rest < 0 THEN 0 ELSE IF rest < req[r].limit THEN rest ELSE req[r].limit
  IN  {p \in SUBSET m : Cardinality(p) = size}

Select(r) ==
  /\ At(r, "select")
  /\ \E p \in Pages(r) :
       Become(r, [req[r] EXCEPT !.pc = "reply", !.page = p, !.code = OK])
  /\ UNCHANGED <<tasks, nextId>>

----------------------------------------------------------------------------
(* The end of a request *)

Reply(r) ==
  /\ At(r, "reply")
  /\ Become(r, Idle)
  /\ UNCHANGED <<tasks, nextId>>

\* A statement fails without effect on the table; a failed INSERT may have
\* used up an id.
Fault(r) ==
  /\ req[r].pc \in {"insert", "find", "update", "delete", "count", "select"}
  /\ Answer(r, InternalError)
  /\ UNCHANGED tasks
  /\ \/ UNCHANGED nextId
     \/ At(r, "insert") /\ nextId <= MaxTasks /\ nextId' = nextId + 1

\* The deadline, a client that went away, or the end of the process.
Cancel(r) ==
  /\ ~At(r, "idle")
  /\ Become(r, Idle)
  /\ UNCHANGED <<tasks, nextId>>

Next ==
  \E r \in Requests :
    \/ BeginCreate(r) \/ BeginList(r) \/ BeginGet(r) \/ BeginUpdate(r)
    \/ BeginDelete(r) \/ Reject(r)
    \/ Insert(r) \/ FindByID(r) \/ Update(r) \/ Delete(r) \/ Count(r) \/ Select(r)
    \/ Reply(r) \/ Fault(r) \/ Cancel(r)

Spec == Init /\ [][Next]_vars
----------------------------------------------------------------------------
(* Properties *)

\* The variables have their types; the next id is at most one past the bound.
TypeOK ==
  /\ tasks \in [Ids -> Row]
  /\ nextId \in 1..(MaxTasks + 1)
  /\ req \in [Requests -> Request]

\* Only its owner changes or deletes a task.  Update and Delete check the owner
\* in one statement and write by id in another, without the owner in the WHERE
\* clause; in between, the task may be gone and others may be created.
OwnerStep ==
  \A i \in Stored : tasks'[i] # tasks[i] =>
    \E r \in Requests :
      /\ req[r].pc \in {"update", "delete"} /\ req[r].task = i
      /\ req[r].user = tasks[i].owner
      /\ req'[r] # req[r]

OwnerWrites == [][OwnerStep]_vars

\* A deleted task does not come back: an update that read the task before it
\* was deleted changes nothing, and no other task gets its id.
NoReturn == \A i \in Ids : i < nextId /\ tasks[i] = NoRow => tasks'[i] = NoRow

DeletedStaysDeleted == [][NoReturn]_vars

\* A user is only ever shown tasks of their own, by Get, by the answer of
\* Update, or in a page of List; also when the table changed since.
OwnTasksOnly ==
  \A r \in Requests :
    At(r, "reply") /\ req[r].code \in {OK, Created} =>
      /\ req[r].op # "list" => req[r].row.owner = req[r].user
      /\ \A i \in req[r].page : tasks[i].owner \in {req[r].user, None}

\* Of the deletions of one task that race, one is answered 204; the task is
\* gone when it is.
OneDeleteSucceeds ==
  \A r, q \in Requests :
    /\ At(r, "reply") /\ req[r].op = "delete" /\ req[r].code = NoContent
    /\ At(q, "reply") /\ req[q].op = "delete" /\ req[q].code = NoContent
    /\ req[r].task = req[q].task
    => r = q /\ tasks[req[r].task] = NoRow

=============================================================================
