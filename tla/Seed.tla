-------------------------------- MODULE Seed --------------------------------
(***************************************************************************)
(* cmd/seed: for each seed user, sign up or look up the account, list its  *)
(* tasks, and create the templates of the user's window that the list does *)
(* not show, each in two statements: a task is created pending and then    *)
(* updated to its status.  Errors of a list, a create or an update are     *)
(* logged and passed over; an error of a user ends the command.  It may be *)
(* run again and again, also after it was interrupted, and the accounts    *)
(* are used in between.                                                    *)
(***************************************************************************)
EXTENDS Naturals, Sequences, FiniteSets

CONSTANTS
  Procs,       \* runs of the command that may be there at once
  U,           \* number of seed users
  Templates,   \* number of task templates
  PerUser,     \* templates of a user's window
  PageLimit,   \* tasks the list shows: the newest 100
  Faults,      \* what may fail: some of signup, list, create, update, kill
  MaxFaults,   \* failures in one behaviour (bound)
  MaxRuns,     \* runs in one behaviour (bound)
  MaxOwn       \* tasks the demo users create themselves (bound)

ASSUME SeedAssumption ==
  /\ U \in Nat \ {0} /\ Templates \in 1..10 /\ PerUser \in 1..Templates
  /\ PageLimit \in Nat /\ MaxFaults \in Nat /\ MaxRuns \in Nat /\ MaxOwn \in Nat

VARIABLES
  run,       \* [Procs -> the run's place and its local variables]
  accounts,  \* seed users that have an account
  tasks,     \* [SeedUsers -> the user's tasks, oldest first]
  complete,  \* a run has come to its end without a failure
  misled,    \* a run has not been shown all there was, or has not been alone
  runs, faults

vars == <<run, accounts, tasks, complete, misled, runs, faults>>

\* Seed users are numbered from 0.
SeedUsers == 0..(U - 1)

\* A run is at its user number user and place i of that user's window, has
\* been shown the titles existing, has just created the user's task made, and
\* is clean while nothing has failed.
Place(at) == [pc |-> at, user |-> 0, i |-> 0, existing |-> {}, made |-> 0, clean |-> TRUE]

Init ==
  /\ run = [p \in Procs |-> Place("idle")]
  /\ accounts = {} /\ tasks = [u \in SeedUsers |-> <<>>]
  /\ complete = FALSE /\ misled = FALSE
  /\ runs = 0 /\ faults = 0

\* The statuses of taskTemplates, in their order.
templateStatuses ==
  <<"done", "done", "in_progress", "pending", "pending",
    "pending", "in_progress", "done", "done", "pending">>

\* Templates are numbered from 0.
Status(t) == templateStatuses[t + 1]

\* Mutant: a window one template short.
ShortWindow == PerUser - 1

\* Mutant: one template too many.
LongWindow == PerUser + 1

Window == PerUser

\* taskTemplates[(offset+i) % len(taskTemplates)].
Template(u, k) == (u + k) % Templates

Titles(s) == {s[k].title : k \in DOMAIN s}

\* The title of a task that the owner of an account adds.
Own == Templates

At(p, l) == run[p].pc = l

\* The tasks of the user that p is at.
Tasks(p) == tasks[run[p].user]

\* One of the faults happens.
Fault(f) == f \in Faults /\ faults < MaxFaults /\ faults' = faults + 1
NoFault == UNCHANGED faults

----------------------------------------------------------------------------
\* Configuration, connection and migrations are Startup's.
Start(p) ==
  /\ At(p, "idle") /\ runs < MaxRuns
  /\ runs' = runs + 1
  /\ run' = [run EXCEPT ![p] = Place("user")]
  /\ misled' = (misled \/ \E q \in Procs \ {p} : ~At(q, "idle"))
  /\ UNCHANGED <<accounts, tasks, complete, faults>>

\* Signup, or FindByEmail when the account is there.  A signup that fails may
\* have stored the account; the command exits.
getOrCreateUser(p) ==
  /\ At(p, "user")
  /\ \/ /\ NoFault
        /\ run' = [run EXCEPT ![p].pc = "list"]
        /\ accounts' = accounts \cup {run[p].user}
     \/ /\ Fault("signup")
        /\ run' = [run EXCEPT ![p] = Place("idle")]
        /\ accounts' \in {accounts, accounts \cup {run[p].user}}
  /\ UNCHANGED <<tasks, complete, misled, runs>>

\* List orders by created_at DESC.
Page(s) == SubSeq(s, IF Len(s) < PageLimit THEN 1 ELSE Len(s) - PageLimit + 1, Len(s))

\* A failed list is logged, and all templates are taken for new.
List(p) ==
  /\ At(p, "list")
  /\ \/ NoFault /\ run' = [run EXCEPT ![p].pc = "task", ![p].existing = Titles(Page(Tasks(p)))]
     \/ Fault("list") /\ run' = [run EXCEPT ![p].pc = "task", ![p].clean = FALSE]
  /\ misled' = (misled \/ ~(Titles(Tasks(p)) \subseteq run'[p].existing \cup {Own}))
  /\ UNCHANGED <<accounts, tasks, complete, runs>>

Current(p) == Template(run[p].user, run[p].i)

\* Mutant: existing titles are not looked at.
SkipNothing(p) == FALSE

Skip(p) == Current(p) \in run[p].existing

\* The template is there already.
SkipTask(p) ==
  /\ At(p, "task") /\ run[p].i < Window /\ Skip(p)
  /\ run' = [run EXCEPT ![p].i = @ + 1]
  /\ UNCHANGED <<accounts, tasks, complete, misled, runs, faults>>

Insert(p) ==
  tasks' = [tasks EXCEPT ![run[p].user] = Append(@, [title |-> Current(p), status |-> "pending"])]

\* A create that fails may have stored the task; the next template follows.
CreateTask(p) ==
  /\ At(p, "task") /\ run[p].i < Window /\ ~Skip(p)
  /\ \/ /\ NoFault /\ Insert(p)
        /\ run' = IF Status(Current(p)) = "pending"
                  THEN [run EXCEPT ![p].i = @ + 1]
                  ELSE [run EXCEPT ![p].pc = "status", ![p].made = Len(Tasks(p)) + 1]
     \/ /\ Fault("create") /\ (Insert(p) \/ UNCHANGED tasks)
        /\ run' = [run EXCEPT ![p].i = @ + 1, ![p].clean = FALSE]
  /\ UNCHANGED <<accounts, complete, misled, runs>>

\* Mutant: the newest task is updated instead of the one just created.
UpdateNewest(p) ==
  tasks' = [tasks EXCEPT ![run[p].user][Len(Tasks(p))].status = Status(Current(p))]

Update(p) == tasks' = [tasks EXCEPT ![run[p].user][run[p].made].status = Status(Current(p))]

SetStatus(p) ==
  /\ At(p, "status")
  /\ \E ok \in BOOLEAN :
       /\ \/ ok /\ NoFault /\ Update(p)
          \/ ~ok /\ Fault("update") /\ (Update(p) \/ UNCHANGED tasks)
       /\ run' = [run EXCEPT ![p].pc = "task", ![p].i = @ + 1, ![p].made = 0,
                             ![p].clean = @ /\ ok]
  /\ UNCHANGED <<accounts, complete, misled, runs>>

\* The window is through: the next user, or the end.
NextUser(p) ==
  /\ At(p, "task") /\ run[p].i >= Window
  /\ LET next == run[p].user + 1 IN
       IF next < U
       THEN /\ run' = [run EXCEPT ![p] = [Place("user") EXCEPT !.user = next, !.clean = run[p].clean]]
            /\ UNCHANGED complete
       ELSE /\ run' = [run EXCEPT ![p] = Place("idle")]
            /\ complete' = (complete \/ run[p].clean)
  /\ UNCHANGED <<accounts, tasks, misled, runs, faults>>

\* The command is interrupted, or its machine is.
Interrupt(p) ==
  /\ ~At(p, "idle")
  /\ Fault("kill")
  /\ run' = [run EXCEPT ![p] = Place("idle")]
  /\ UNCHANGED <<accounts, tasks, complete, misled, runs>>

\* The owner of an account adds a task.
Owned == UNION {{<<u, k>> : k \in {j \in DOMAIN tasks[u] : tasks[u][j].title = Own}} : u \in SeedUsers}
OwnTask(u) ==
  /\ u \in accounts /\ Cardinality(Owned) < MaxOwn
  /\ tasks' = [tasks EXCEPT ![u] = Append(@, [title |-> Own, status |-> "pending"])]
  /\ UNCHANGED <<run, accounts, complete, misled, runs, faults>>

\* The bounds are used up.
Over == (\A p \in Procs : At(p, "idle")) /\ runs = MaxRuns /\ UNCHANGED vars

Next ==
  \/ \E p \in Procs :
       \/ Start(p) \/ getOrCreateUser(p) \/ List(p) \/ SkipTask(p) \/ CreateTask(p)
       \/ SetStatus(p) \/ NextUser(p) \/ Interrupt(p)
  \/ \E u \in SeedUsers : OwnTask(u)
  \/ Over

Spec == Init /\ [][Next]_vars

----------------------------------------------------------------------------
(* Properties *)

Statuses == {"pending", "in_progress", "done"}

Task == [title : 0..Templates, status : Statuses]

RunState == [pc : {"idle", "user", "list", "task", "status"}, user : SeedUsers, i : 0..PerUser,
             existing : SUBSET (0..Templates), made : Nat, clean : BOOLEAN]

\* The variables have their types, and only accounts have tasks.
TypeOK ==
  /\ run \in [Procs -> RunState]
  /\ accounts \subseteq SeedUsers /\ complete \in BOOLEAN /\ misled \in BOOLEAN
  /\ tasks \in [SeedUsers -> Seq(Task)]
  /\ \A u \in SeedUsers : tasks[u] # <<>> => u \in accounts
  /\ runs \in 0..MaxRuns /\ faults \in 0..MaxFaults

Windowed(u) == {Template(u, k) : k \in 0..(PerUser - 1)}

\* "Safe to re-run: it looks up users/tasks that already exist instead of [...]
\* duplicating them" (README): however often the command is run, interrupted
\* or met by failing calls, no user has a template twice, as long as the runs
\* follow each other and each was shown the templates that were there.
NoDuplicates ==
  ~misled =>
    \A u \in SeedUsers : \A j, k \in DOMAIN tasks[u] :
      tasks[u][j].title # Own /\ tasks[u][j].title = tasks[u][k].title => j = k

\* A run without failures leaves every user with the whole window, whatever
\* earlier runs left undone and another run does at the same time.
LeavesAll ==
  complete => \A u \in SeedUsers : Windowed(u) \subseteq Titles(tasks[u])

\* seed/main.go: a new task is updated to its template's status "so the seeded
\* data actually spans pending/in_progress/done": unless a call failed or a run
\* was interrupted, also runs that overlap leave every template its status.
StatusesSeeded ==
  faults = 0 /\ (\A p \in Procs : At(p, "idle")) =>
    \A u \in SeedUsers : \A k \in DOMAIN tasks[u] :
      tasks[u][k].title # Own => tasks[u][k].status = Status(tasks[u][k].title)
=============================================================================
