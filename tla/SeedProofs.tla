----------------------------- MODULE SeedProofs -----------------------------
(***************************************************************************)
(* Proofs about Seed, for any number of users, overlapping runs, failures  *)
(* and tasks of the users themselves.                                      *)
(***************************************************************************)
EXTENDS Seed, Integers, TLAPS

----------------------------------------------------------------------------
(* Templates and their statuses *)

\* Between two multiples of a number, exclusive, there is no third but 0.
LEMMA SmallMultiple ==
  ASSUME NEW T \in Nat \ {0}, NEW d \in Int, -T < T * d, T * d < T
  PROVE  d = 0
<1>1. d >= 1 => T * d >= T
  OBVIOUS
<1>2. d <= -1 => T * d <= -T
  OBVIOUS
<1> QED
  BY <1>1, <1>2

\* A template is a number of the table, and no task of the owner.
LEMMA TemplateType ==
  ASSUME NEW u \in SeedUsers, NEW k \in Nat
  PROVE  Template(u, k) \in 0..(Templates - 1) /\ Template(u, k) # Own
<1>1. u \in Nat /\ Templates \in Nat \ {0}
  BY SeedAssumption DEF SeedUsers
<1> DEFINE n == u + k
<1>2. n \in Nat
  BY <1>1
<1> HIDE DEF n
<1>3. n % Templates \in 0..(Templates - 1)
  BY <1>1, <1>2
<1> QED
  BY <1>1, <1>3 DEF Template, Own, n

\* A user's window does not come round to the same template.
LEMMA TemplateInjective ==
  ASSUME NEW u \in SeedUsers, NEW j \in 0..(PerUser - 1), NEW k \in 0..(PerUser - 1),
         Template(u, j) = Template(u, k)
  PROVE  j = k
<1>1. /\ u \in Nat /\ Templates \in Nat \ {0} /\ PerUser \in Nat /\ PerUser <= Templates
      /\ j \in Nat /\ k \in Nat /\ j < PerUser /\ k < PerUser
  BY SeedAssumption DEF SeedUsers
<1> DEFINE a == (u + j) \div Templates
           b == (u + k) \div Templates
           r == (u + j) % Templates
<1>2. /\ a \in Int /\ b \in Int /\ r \in Int
      /\ u + j = Templates * a + r
      /\ u + k = Templates * b + ((u + k) % Templates)
  <2> DEFINE m == u + j
             n == u + k
  <2>1. m \in Nat /\ n \in Nat
    BY <1>1
  <2> HIDE DEF m, n
  <2>2. /\ m \div Templates \in Int /\ n \div Templates \in Int /\ m % Templates \in Int
        /\ m = Templates * (m \div Templates) + (m % Templates)
        /\ n = Templates * (n \div Templates) + (n % Templates)
    BY <1>1, <2>1
  <2> QED
    BY <2>2 DEF m, n
<1>3. (u + k) % Templates = r
  BY DEF Template
<1> HIDE DEF a, b, r
<1>4. Templates * (a - b) = j - k
  <2>1. Templates * (a - b) = Templates * a - Templates * b
    BY <1>1, <1>2
  <2>2. Templates * a \in Int /\ Templates * b \in Int
    BY <1>1, <1>2
  <2> QED
    BY <1>1, <1>2, <1>3, <2>1, <2>2
<1>5. a - b = 0
  <2>1. a - b \in Int /\ -Templates < j - k /\ j - k < Templates
    BY <1>1, <1>2
  <2> QED
    BY <1>1, <1>4, <2>1, SmallMultiple
<1> QED
  BY <1>1, <1>2, <1>4, <1>5

\* Every template has a status.
LEMMA StatusType ==
  ASSUME NEW t \in 0..(Templates - 1)
  PROVE  Status(t) \in Statuses
<1>1. t + 1 \in 1..10
  BY SeedAssumption
<1>2. \A n \in 1..10 : templateStatuses[n] \in Statuses
  BY DEF templateStatuses, Statuses
<1> QED
  BY <1>1, <1>2 DEF Status

----------------------------------------------------------------------------
(* What happens to the tasks of a user *)

\* A new task is the last one of its user; nothing else changes.
LEMMA AppendTask ==
  ASSUME NEW u \in SeedUsers, NEW x \in Task, tasks \in [SeedUsers -> Seq(Task)],
         tasks' = [tasks EXCEPT ![u] = Append(@, x)]
  PROVE  /\ tasks' \in [SeedUsers -> Seq(Task)]
         /\ Len(tasks'[u]) = Len(tasks[u]) + 1 /\ tasks'[u][Len(tasks[u]) + 1] = x
         /\ \A k \in 1..Len(tasks[u]) : tasks'[u][k] = tasks[u][k]
         /\ \A v \in SeedUsers : v # u => tasks'[v] = tasks[v]
<1>1. tasks[u] \in Seq(Task) /\ tasks'[u] = Append(tasks[u], x)
  OBVIOUS
<1>2. Append(tasks[u], x) \in Seq(Task)
  BY <1>1
<1> QED
  BY <1>1, <1>2

\* An update changes the status of one task.
LEMMA UpdateTask ==
  ASSUME NEW u \in SeedUsers, tasks \in [SeedUsers -> Seq(Task)],
         NEW m \in 1..Len(tasks[u]), NEW s \in Statuses,
         tasks' = [tasks EXCEPT ![u][m].status = s]
  PROVE  /\ tasks' \in [SeedUsers -> Seq(Task)]
         /\ Len(tasks'[u]) = Len(tasks[u])
         /\ tasks'[u][m] = [title |-> tasks[u][m].title, status |-> s]
         /\ \A k \in 1..Len(tasks[u]) : k # m => tasks'[u][k] = tasks[u][k]
         /\ \A v \in SeedUsers : v # u => tasks'[v] = tasks[v]
<1> DEFINE new == [tasks[u] EXCEPT ![m] = [tasks[u][m] EXCEPT !.status = s]]
<1>1. tasks[u] \in Seq(Task) /\ tasks[u][m] \in Task
  OBVIOUS
<1>2. tasks' = [tasks EXCEPT ![u] = new]
  OBVIOUS
<1>3. [tasks[u][m] EXCEPT !.status = s] = [title |-> tasks[u][m].title, status |-> s]
  BY <1>1 DEF Task
<1>4. [title |-> tasks[u][m].title, status |-> s] \in Task
  BY <1>1 DEF Task
<1>5. /\ new \in Seq(Task) /\ Len(new) = Len(tasks[u])
      /\ new[m] = [title |-> tasks[u][m].title, status |-> s]
      /\ \A k \in 1..Len(tasks[u]) : k # m => new[k] = tasks[u][k]
  BY <1>1, <1>3, <1>4
<1> HIDE DEF new
<1>6. tasks'[u] = new /\ \A v \in SeedUsers : v # u => tasks'[v] = tasks[v]
  BY <1>2
<1>7. tasks' \in [SeedUsers -> Seq(Task)]
  BY <1>2, <1>5
<1> QED
  BY <1>5, <1>6, <1>7

----------------------------------------------------------------------------
(* The inductive invariant *)

\* The places of its user's window that a run is through with; the task of a
\* place is created before its status is set.
Through(p) == 0..(IF At(p, "status") THEN run[p].i ELSE run[p].i - 1)

\* What the place of a run says: its user has an account; a window begins with
\* nothing known of the user's tasks; and between a create and its update there
\* is the task, still under its title.
PlaceInv(p) ==
  /\ run[p].pc \in {"list", "task", "status"} => run[p].user \in accounts
  /\ run[p].pc \in {"user", "list"} => run[p].i = 0 /\ run[p].existing = {}
  /\ At(p, "status") =>
       /\ run[p].i < PerUser
       /\ run[p].made \in 1..Len(Tasks(p))
       /\ Tasks(p)[run[p].made].title = Current(p)

\* What a run was shown is still there, and a run that is clean leaves nothing
\* out behind it.
CleanInv(p) ==
  ~At(p, "idle") =>
    /\ run[p].existing \subseteq Titles(Tasks(p))
    /\ run[p].clean =>
         /\ \A u \in SeedUsers : u < run[p].user => Windowed(u) \subseteq Titles(tasks[u])
         /\ \A k \in Through(p) : Template(run[p].user, k) \in Titles(Tasks(p))

\* A run knows all titles of the user it is at: from the list, from the owner,
\* or because it created them.
Knows(p) ==
  run[p].pc \in {"task", "status"} =>
    Titles(Tasks(p)) \subseteq
      run[p].existing \cup {Own} \cup {Template(run[p].user, k) : k \in Through(p)}

\* A run that was not misled is alone, and knows.
AloneInv ==
  ~misled =>
    /\ \A p, q \in Procs : ~At(p, "idle") /\ ~At(q, "idle") => p = q
    /\ \A p \in Procs : Knows(p)

\* Without failures a task has its status, or a run is about to set it.
StatusInv ==
  faults = 0 =>
    \A u \in SeedUsers : \A k \in DOMAIN tasks[u] :
      \/ tasks[u][k].title = Own
      \/ tasks[u][k].status = Status(tasks[u][k].title)
      \/ \E p \in Procs : At(p, "status") /\ run[p].user = u /\ run[p].made = k

Inv ==
  /\ TypeOK
  /\ \A p \in Procs : PlaceInv(p) /\ CleanInv(p)
  /\ LeavesAll
  /\ AloneInv /\ NoDuplicates
  /\ StatusInv

LEMMA InvInit == Init => Inv
<1> SUFFICES ASSUME Init PROVE Inv
  OBVIOUS
<1> USE SeedAssumption DEF Init, Place, At
<1>1. 0 \in SeedUsers /\ 0 \in 0..PerUser
  BY DEF SeedUsers
<1>2. TypeOK
  <2>1. run \in [Procs -> RunState]
    BY <1>1 DEF RunState
  <2>2. tasks \in [SeedUsers -> Seq(Task)]
    OBVIOUS
  <2>3. complete \in BOOLEAN /\ misled \in BOOLEAN /\ accounts \subseteq SeedUsers
    OBVIOUS
  <2>4. runs \in 0..MaxRuns /\ faults \in 0..MaxFaults
    OBVIOUS
  <2> QED
    BY <2>1, <2>2, <2>3, <2>4 DEF TypeOK
<1>3. \A p \in Procs : PlaceInv(p) /\ CleanInv(p)
  BY DEF PlaceInv, CleanInv
<1>4. \A u \in SeedUsers : DOMAIN tasks[u] = {}
  OBVIOUS
<1> QED
  <2>1. AloneInv
    BY DEF AloneInv, Knows
  <2>2. LeavesAll /\ NoDuplicates /\ StatusInv
    BY <1>4 DEF LeavesAll, NoDuplicates, StatusInv
  <2> QED
    BY <1>2, <1>3, <2>1, <2>2 DEF Inv

----------------------------------------------------------------------------
(* What each step does to the run that takes it and to the tasks *)

\* Only p moves.
Moves(p) ==
  run' \in [Procs -> RunState] /\ \A q \in Procs : q # p => run'[q] = run[q]

\* p inserts the template it is at, pending.
Inserts(p) ==
  tasks' = [tasks EXCEPT ![run[p].user] =
              Append(@, [title |-> Current(p), status |-> "pending"])]

\* p updates the task it has created.
Updates(p) ==
  tasks' = [tasks EXCEPT ![run[p].user][run[p].made].status = Status(Current(p))]

\* A run that moves to another state of its own.
LEMMA RunMoves ==
  ASSUME TypeOK, NEW p \in Procs, NEW x \in RunState, run' = [run EXCEPT ![p] = x]
  PROVE  Moves(p) /\ run'[p] = x
BY DEF TypeOK, Moves

LEMMA CurrentType ==
  ASSUME TypeOK, NEW p \in Procs
  PROVE  /\ Current(p) \in 0..(Templates - 1) /\ Current(p) # Own
         /\ Status(Current(p)) \in Statuses
         /\ [title |-> Current(p), status |-> "pending"] \in Task
<1>1. run[p].user \in SeedUsers /\ run[p].i \in Nat
  BY SeedAssumption DEF TypeOK, RunState
<1>2. Current(p) \in 0..(Templates - 1) /\ Current(p) # Own
  BY <1>1, TemplateType DEF Current
<1> QED
  BY <1>2, StatusType, SeedAssumption DEF Task, Statuses

LEMMA StartStep ==
  ASSUME TypeOK, NEW p \in Procs, Start(p)
  PROVE  /\ Moves(p) /\ run[p].pc = "idle" /\ run'[p] = Place("user")
         /\ UNCHANGED <<accounts, tasks, complete, faults>> /\ runs' \in 0..MaxRuns
         /\ misled' \in BOOLEAN /\ (misled => misled')
         /\ ~misled' => \A q \in Procs : q # p => run[q].pc = "idle"
<1>1. Place("user") \in RunState
  BY SeedAssumption DEF Place, RunState, SeedUsers
<1>2. /\ run[p].pc = "idle" /\ run' = [run EXCEPT ![p] = Place("user")]
      /\ misled' = (misled \/ \E q \in Procs \ {p} : ~At(q, "idle"))
      /\ UNCHANGED <<accounts, tasks, complete, faults>>
  BY DEF Start, At
<1>3. runs' \in 0..MaxRuns
  BY SeedAssumption DEF Start, TypeOK
<1>4. Moves(p) /\ run'[p] = Place("user")
  BY <1>1, <1>2, RunMoves
<1>5. misled' \in BOOLEAN /\ (misled => misled')
  BY <1>2 DEF TypeOK
<1>6. ~misled' => \A q \in Procs : q # p => run[q].pc = "idle"
  BY <1>2 DEF At
<1> QED
  BY <1>2, <1>3, <1>4, <1>5, <1>6

LEMMA UserStep ==
  ASSUME TypeOK, NEW p \in Procs, getOrCreateUser(p)
  PROVE  /\ Moves(p) /\ run[p].pc = "user"
         /\ UNCHANGED <<tasks, complete, misled, runs>> /\ faults' \in 0..MaxFaults
         /\ accounts \subseteq accounts' /\ accounts' \subseteq SeedUsers
         /\ \/ /\ run'[p] = [run[p] EXCEPT !.pc = "list"] /\ run[p].user \in accounts'
               /\ faults' = faults
            \/ run'[p] = Place("idle") /\ faults' # 0
<1>1. run[p] \in RunState /\ run[p].user \in SeedUsers /\ faults \in Nat
  BY SeedAssumption DEF TypeOK, RunState
<1>2. Place("idle") \in RunState
  BY SeedAssumption DEF Place, RunState, SeedUsers
<1>3. [run[p] EXCEPT !.pc = "list"] \in RunState
  BY <1>1 DEF RunState
<1>4. run[p].pc = "user" /\ UNCHANGED <<tasks, complete, misled, runs>>
  BY DEF getOrCreateUser, At
<1>5. CASE /\ NoFault /\ run' = [run EXCEPT ![p].pc = "list"]
           /\ accounts' = accounts \cup {run[p].user}
  <2>1. Moves(p) /\ run'[p] = [run[p] EXCEPT !.pc = "list"]
    BY <1>3, <1>5, RunMoves
  <2> QED
    BY <1>1, <1>4, <1>5, <2>1 DEF NoFault, TypeOK
<1>6. CASE /\ Fault("signup") /\ run' = [run EXCEPT ![p] = Place("idle")]
           /\ accounts' \in {accounts, accounts \cup {run[p].user}}
  <2>1. Moves(p) /\ run'[p] = Place("idle")
    BY <1>2, <1>6, RunMoves
  <2>2. faults' \in 0..MaxFaults /\ faults' # 0
    BY <1>1, <1>6, SeedAssumption DEF Fault
  <2> QED
    BY <1>1, <1>4, <1>6, <2>1, <2>2 DEF TypeOK
<1> QED
  BY <1>5, <1>6 DEF getOrCreateUser

\* The list shows only titles that are there; who was shown less is misled.
LEMMA ListStep ==
  ASSUME TypeOK, NEW p \in Procs, List(p)
  PROVE  /\ Moves(p) /\ run[p].pc = "list"
         /\ UNCHANGED <<accounts, tasks, complete, runs>> /\ faults' \in 0..MaxFaults
         /\ run'[p].pc = "task" /\ run'[p].user = run[p].user /\ run'[p].i = run[p].i
         /\ run'[p].made = run[p].made /\ (run'[p].clean => run[p].clean)
         /\ run'[p].existing \subseteq Titles(Tasks(p)) \/ run'[p].existing = run[p].existing
         /\ misled' \in BOOLEAN /\ (misled => misled')
         /\ ~misled' => Titles(Tasks(p)) \subseteq run'[p].existing \cup {Own}
         /\ faults' = 0 => faults = 0
<1>1. run[p] \in RunState /\ run[p].user \in SeedUsers /\ faults \in Nat /\ Tasks(p) \in Seq(Task)
  BY SeedAssumption DEF TypeOK, RunState, Tasks
<1> DEFINE page == Page(Tasks(p))
<1>2. page \in Seq(Task) /\ \A k \in DOMAIN page : \E j \in DOMAIN Tasks(p) : page[k] = Tasks(p)[j]
  <2> DEFINE s == Tasks(p)
             from == IF Len(s) < PageLimit THEN 1 ELSE Len(s) - PageLimit + 1
  <2>1. from \in Nat \ {0} /\ page = SubSeq(s, from, Len(s)) /\ Len(s) \in Nat
    BY <1>1, SeedAssumption DEF Page
  <2> HIDE DEF s, from, page
  <2>2. s \in Seq(Task)
    BY <1>1 DEF s
  <2>3. page \in Seq(Task) /\ \A k \in DOMAIN page : page[k] = s[from + k - 1] /\ from + k - 1 \in 1..Len(s)
    BY <2>1, <2>2
  <2> QED
    BY <2>2, <2>3 DEF s
<1>3. Titles(page) \subseteq Titles(Tasks(p)) /\ Titles(page) \subseteq 0..Templates
  <2>1. \A k \in DOMAIN page : page[k].title \in Titles(Tasks(p))
    BY <1>2 DEF Titles
  <2>2. \A k \in DOMAIN page : page[k].title \in 0..Templates
    <3>1. \A k \in DOMAIN page : page[k] \in Task
      BY <1>2
    <3> QED
      BY <3>1 DEF Task
  <2> QED
    BY <2>1, <2>2 DEF Titles
<1> HIDE DEF page
<1> DEFINE shown == [run[p] EXCEPT !.pc = "task", !.existing = Titles(page)]
           failed == [run[p] EXCEPT !.pc = "task", !.clean = FALSE]
<1>4. \/ run' = [run EXCEPT ![p] = shown] /\ faults' = faults
      \/ run' = [run EXCEPT ![p] = failed] /\ faults < MaxFaults /\ faults' = faults + 1
  BY DEF List, NoFault, Fault, page
<1>5. /\ shown \in RunState /\ shown.pc = "task" /\ shown.user = run[p].user
      /\ shown.i = run[p].i /\ shown.made = run[p].made /\ shown.clean = run[p].clean
      /\ shown.existing = Titles(page)
  BY <1>1, <1>3, Zenon DEF RunState
<1>6. /\ failed \in RunState /\ failed.pc = "task" /\ failed.user = run[p].user
      /\ failed.i = run[p].i /\ failed.made = run[p].made /\ ~failed.clean
      /\ failed.existing = run[p].existing
  BY <1>1, Zenon DEF RunState
<1> HIDE DEF shown, failed
<1>7. /\ Moves(p) /\ faults' \in 0..MaxFaults /\ (faults' = 0 => faults = 0)
      /\ run'[p] = shown \/ run'[p] = failed
  <2>1. Moves(p) /\ (run'[p] = shown \/ run'[p] = failed)
    BY <1>4, <1>5, <1>6, RunMoves
  <2>2. faults' \in 0..MaxFaults /\ (faults' = 0 => faults = 0)
    BY <1>1, <1>4, SeedAssumption DEF TypeOK
  <2> QED
    BY <2>1, <2>2
<1>8. /\ run[p].pc = "list" /\ UNCHANGED <<accounts, tasks, complete, runs>>
      /\ misled' = (misled \/ ~(Titles(Tasks(p)) \subseteq run'[p].existing \cup {Own}))
  BY DEF List, At
<1>9. misled' \in BOOLEAN /\ (misled => misled')
  BY <1>8 DEF TypeOK
<1>10. ~misled' => Titles(Tasks(p)) \subseteq run'[p].existing \cup {Own}
  BY <1>8
<1>11. /\ run'[p].pc = "task" /\ run'[p].user = run[p].user /\ run'[p].i = run[p].i
       /\ run'[p].made = run[p].made /\ (run'[p].clean => run[p].clean)
       /\ run'[p].existing \subseteq Titles(Tasks(p)) \/ run'[p].existing = run[p].existing
  BY <1>3, <1>5, <1>6, <1>7, Zenon
<1> QED
  BY <1>7, <1>8, <1>9, <1>10, <1>11

LEMMA SkipStep ==
  ASSUME TypeOK, NEW p \in Procs, SkipTask(p)
  PROVE  /\ Moves(p) /\ run[p].pc = "task" /\ run[p].i < PerUser
         /\ Current(p) \in run[p].existing
         /\ run'[p] = [run[p] EXCEPT !.i = @ + 1]
         /\ UNCHANGED <<accounts, tasks, complete, misled, runs, faults>>
<1>1. run[p] \in RunState
  BY DEF TypeOK
<1>2. run[p].i < PerUser => [run[p] EXCEPT !.i = @ + 1] \in RunState
  BY <1>1, SeedAssumption DEF RunState
<1> QED
  BY <1>1, <1>2 DEF TypeOK, SkipTask, Skip, At, Moves, Window

LEMMA CreateStep ==
  ASSUME TypeOK, NEW p \in Procs, CreateTask(p)
  PROVE  /\ Moves(p) /\ run[p].pc = "task" /\ run[p].i < PerUser
         /\ Current(p) \notin run[p].existing
         /\ UNCHANGED <<accounts, complete, misled, runs>> /\ faults' \in 0..MaxFaults
         /\ \/ /\ faults' = faults /\ Inserts(p)
               /\ \/ /\ Status(Current(p)) = "pending"
                     /\ run'[p] = [run[p] EXCEPT !.i = @ + 1]
                  \/ run'[p] = [run[p] EXCEPT !.pc = "status", !.made = Len(Tasks(p)) + 1]
            \/ /\ faults' # 0 /\ (Inserts(p) \/ UNCHANGED tasks)
               /\ run'[p] = [run[p] EXCEPT !.i = @ + 1, !.clean = FALSE]
<1>1. run[p] \in RunState /\ Len(Tasks(p)) \in Nat /\ faults \in Nat
  BY SeedAssumption DEF TypeOK, Tasks, RunState
<1>2. run[p].pc = "task" /\ run[p].i < PerUser /\ Current(p) \notin run[p].existing
  BY DEF CreateTask, At, Window, Skip
<1> DEFINE next == [run[p] EXCEPT !.i = @ + 1]
           half == [run[p] EXCEPT !.pc = "status", !.made = Len(Tasks(p)) + 1]
           failed == [run[p] EXCEPT !.i = @ + 1, !.clean = FALSE]
<1>3. next \in RunState /\ half \in RunState /\ failed \in RunState
  <2>1. run[p].i + 1 \in 0..PerUser /\ Len(Tasks(p)) + 1 \in Nat
    BY <1>1, <1>2, SeedAssumption DEF RunState
  <2> QED
    BY <1>1, <2>1, Zenon DEF RunState
<1>4. UNCHANGED <<accounts, complete, misled, runs>>
  BY DEF CreateTask
<1>5. CASE NoFault /\ Insert(p) /\ run' = IF Status(Current(p)) = "pending"
                  THEN [run EXCEPT ![p].i = @ + 1]
                  ELSE [run EXCEPT ![p].pc = "status", ![p].made = Len(Tasks(p)) + 1]
  <2>1. \/ Status(Current(p)) = "pending" /\ run' = [run EXCEPT ![p] = next]
        \/ run' = [run EXCEPT ![p] = half]
    BY <1>5
  <2>2. /\ Moves(p)
        /\ \/ Status(Current(p)) = "pending" /\ run'[p] = next
           \/ run'[p] = half
    <3> HIDE DEF next, half
    <3> QED
      BY <1>3, <2>1, RunMoves
  <2> QED
    BY <1>2, <1>4, <1>5, <2>2 DEF TypeOK, NoFault, Insert, Inserts
<1>6. CASE /\ Fault("create") /\ (Insert(p) \/ UNCHANGED tasks)
           /\ run' = [run EXCEPT ![p].i = @ + 1, ![p].clean = FALSE]
  <2>1. run' = [run EXCEPT ![p] = failed]
    BY <1>6
  <2>2. Moves(p) /\ run'[p] = failed
    <3> HIDE DEF failed
    <3> QED
      BY <1>3, <2>1, RunMoves
  <2>3. faults' \in 0..MaxFaults /\ faults' # 0
    BY <1>1, <1>6, SeedAssumption DEF Fault
  <2> QED
    BY <1>2, <1>4, <1>6, <2>2, <2>3 DEF Insert, Inserts
<1> QED
  BY <1>5, <1>6 DEF CreateTask

LEMMA SetStep ==
  ASSUME TypeOK, NEW p \in Procs, PlaceInv(p), SetStatus(p)
  PROVE  /\ Moves(p) /\ run[p].pc = "status"
         /\ UNCHANGED <<accounts, complete, misled, runs>> /\ faults' \in 0..MaxFaults
         /\ run'[p].pc = "task" /\ run'[p].user = run[p].user /\ run'[p].i = run[p].i + 1
         /\ run'[p].existing = run[p].existing /\ (run'[p].clean => run[p].clean)
         /\ \/ faults' = faults /\ Updates(p)
            \/ faults' # 0 /\ (Updates(p) \/ UNCHANGED tasks)
<1>1. run[p] \in RunState /\ faults \in Nat /\ run[p].pc = "status" /\ run[p].i < PerUser
  BY SeedAssumption DEF TypeOK, RunState, SetStatus, PlaceInv, At
<1>2. PICK ok \in BOOLEAN :
        /\ \/ ok /\ NoFault /\ Update(p)
           \/ ~ok /\ Fault("update") /\ (Update(p) \/ UNCHANGED tasks)
        /\ run' = [run EXCEPT ![p].pc = "task", ![p].i = @ + 1, ![p].made = 0,
                              ![p].clean = @ /\ ok]
  BY DEF SetStatus
<1> DEFINE c == run[p].clean /\ ok
           new == [run[p] EXCEPT !.pc = "task", !.i = @ + 1, !.made = 0, !.clean = c]
<1>3. c \in BOOLEAN /\ (c => run[p].clean)
  BY <1>1 DEF RunState
<1>4. run' = [run EXCEPT ![p] = new]
  BY <1>2
<1> HIDE DEF c
<1>5. /\ new \in RunState /\ new.pc = "task" /\ new.user = run[p].user /\ new.i = run[p].i + 1
      /\ new.existing = run[p].existing /\ new.clean = c
  <2>1. run[p].i + 1 \in 0..PerUser /\ 0 \in Nat
    BY <1>1, SeedAssumption DEF RunState
  <2> QED
    BY <1>1, <1>3, <2>1, Zenon DEF RunState
<1> HIDE DEF new
<1>6. Moves(p) /\ run'[p] = new
  BY <1>4, <1>5, RunMoves
<1>7. /\ faults' \in 0..MaxFaults
      /\ \/ faults' = faults /\ Updates(p)
         \/ faults' # 0 /\ (Updates(p) \/ UNCHANGED tasks)
  BY <1>1, <1>2, SeedAssumption DEF TypeOK, NoFault, Fault, Update, Updates
<1> QED
  BY <1>1, <1>3, <1>5, <1>6, <1>7 DEF SetStatus

LEMMA NextStep ==
  ASSUME TypeOK, NEW p \in Procs, NextUser(p)
  PROVE  /\ Moves(p) /\ run[p].pc = "task" /\ run[p].i = PerUser
         /\ UNCHANGED <<accounts, tasks, misled, runs, faults>> /\ complete' \in BOOLEAN
         /\ \/ /\ run[p].user + 1 < U /\ complete' = complete
               /\ run'[p] = [Place("user") EXCEPT !.user = run[p].user + 1, !.clean = run[p].clean]
            \/ /\ run[p].user = U - 1 /\ run'[p] = Place("idle")
               /\ complete' => complete \/ run[p].clean
<1>1. /\ run[p] \in RunState /\ run[p].user \in Nat /\ run[p].user < U /\ U \in Nat \ {0}
      /\ run[p].clean \in BOOLEAN
  BY SeedAssumption DEF TypeOK, RunState, SeedUsers
<1>2. run[p].pc = "task" /\ run[p].i = PerUser
  BY <1>1, SeedAssumption DEF NextUser, At, Window, RunState
<1>3. UNCHANGED <<accounts, tasks, misled, runs, faults>>
  BY DEF NextUser
<1> DEFINE new == [Place("user") EXCEPT !.user = run[p].user + 1, !.clean = run[p].clean]
<1>4. CASE run[p].user + 1 < U
  <2>1. run' = [run EXCEPT ![p] = new] /\ complete' = complete
    BY <1>4 DEF NextUser
  <2>2. new \in RunState
    <3>1. Place("user") \in RunState /\ run[p].user + 1 \in SeedUsers
      BY <1>1, <1>4, SeedAssumption DEF RunState, SeedUsers, Place
    <3> QED
      BY <1>1, <3>1, Zenon DEF RunState
  <2> HIDE DEF new
  <2>3. Moves(p) /\ run'[p] = new
    BY <2>1, <2>2, RunMoves
  <2> QED
    BY <1>2, <1>3, <1>4, <2>1, <2>3 DEF new, TypeOK
<1>5. CASE ~(run[p].user + 1 < U)
  <2>1. run' = [run EXCEPT ![p] = Place("idle")] /\ complete' = (complete \/ run[p].clean)
    BY <1>5 DEF NextUser
  <2>2. Place("idle") \in RunState
    BY SeedAssumption DEF RunState, SeedUsers, Place
  <2>3. Moves(p) /\ run'[p] = Place("idle")
    BY <2>1, <2>2, RunMoves
  <2>4. run[p].user = U - 1
    BY <1>1, <1>5
  <2>5. complete' \in BOOLEAN /\ (complete' => complete \/ run[p].clean)
    BY <1>1, <2>1 DEF TypeOK
  <2> QED
    BY <1>2, <1>3, <2>3, <2>4, <2>5
<1> QED
  BY <1>4, <1>5

LEMMA InterruptStep ==
  ASSUME TypeOK, NEW p \in Procs, Interrupt(p)
  PROVE  /\ Moves(p) /\ run'[p] = Place("idle") /\ faults' \in 0..MaxFaults /\ faults' # 0
         /\ UNCHANGED <<accounts, tasks, complete, misled, runs>>
<1>1. Place("idle") \in RunState /\ faults \in Nat
  BY SeedAssumption DEF Place, RunState, SeedUsers, TypeOK
<1> QED
  BY <1>1, SeedAssumption DEF TypeOK, Interrupt, Fault, Moves

----------------------------------------------------------------------------
(* What happens to titles *)

LEMMA TitlesOf ==
  ASSUME NEW s \in Seq(Task), NEW t
  PROVE  t \in Titles(s) <=> \E k \in 1..Len(s) : s[k].title = t
<1>1. DOMAIN s = 1..Len(s)
  OBVIOUS
<1> QED
  BY <1>1 DEF Titles

\* No task goes away or changes its title.
Kept ==
  /\ tasks' \in [SeedUsers -> Seq(Task)]
  /\ \A u \in SeedUsers :
       /\ Len(tasks[u]) <= Len(tasks'[u])
       /\ \A k \in 1..Len(tasks[u]) : tasks'[u][k].title = tasks[u][k].title

LEMMA KeptTitles ==
  ASSUME TypeOK, Kept, NEW u \in SeedUsers
  PROVE  Titles(tasks[u]) \subseteq Titles(tasks'[u])
<1>1. /\ tasks[u] \in Seq(Task) /\ tasks'[u] \in Seq(Task)
      /\ Len(tasks[u]) \in Nat /\ Len(tasks'[u]) \in Nat /\ Len(tasks[u]) <= Len(tasks'[u])
      /\ \A k \in 1..Len(tasks[u]) : tasks'[u][k].title = tasks[u][k].title
  BY DEF TypeOK, Kept
<1> SUFFICES ASSUME NEW t \in Titles(tasks[u]) PROVE t \in Titles(tasks'[u])
  OBVIOUS
<1>2. PICK k \in 1..Len(tasks[u]) : tasks[u][k].title = t
  BY <1>1, TitlesOf
<1>3. k \in 1..Len(tasks'[u]) /\ tasks'[u][k].title = t
  BY <1>1, <1>2
<1> QED
  BY <1>1, <1>3, TitlesOf

LEMMA Unchanged ==
  ASSUME TypeOK, tasks' = tasks
  PROVE  Kept
<1>1. \A u \in SeedUsers : Len(tasks[u]) \in Nat
  BY DEF TypeOK
<1> QED
  BY <1>1 DEF TypeOK, Kept

\* A new task of u, the owner's or a run's.
Adds(u, x) == tasks' = [tasks EXCEPT ![u] = Append(@, x)]

LEMMA AddStep ==
  ASSUME TypeOK, NEW u \in SeedUsers, NEW x \in Task, Adds(u, x)
  PROVE  /\ Kept
         /\ Titles(tasks'[u]) = Titles(tasks[u]) \cup {x.title}
         /\ Len(tasks[u]) \in Nat /\ Len(tasks'[u]) = Len(tasks[u]) + 1
         /\ tasks'[u][Len(tasks[u]) + 1] = x
         /\ \A k \in 1..Len(tasks[u]) : tasks'[u][k] = tasks[u][k]
         /\ \A v \in SeedUsers : v # u => tasks'[v] = tasks[v]
<1>1. tasks \in [SeedUsers -> Seq(Task)] /\ \A v \in SeedUsers : Len(tasks[v]) \in Nat
  BY DEF TypeOK
<1>2. /\ tasks' \in [SeedUsers -> Seq(Task)]
      /\ Len(tasks'[u]) = Len(tasks[u]) + 1 /\ tasks'[u][Len(tasks[u]) + 1] = x
      /\ \A k \in 1..Len(tasks[u]) : tasks'[u][k] = tasks[u][k]
      /\ \A v \in SeedUsers : v # u => tasks'[v] = tasks[v]
  BY <1>1, AppendTask DEF Adds
<1>3. Kept
  <2> SUFFICES ASSUME NEW v \in SeedUsers
               PROVE  /\ Len(tasks[v]) <= Len(tasks'[v])
                      /\ \A k \in 1..Len(tasks[v]) : tasks'[v][k].title = tasks[v][k].title
    BY <1>2 DEF Kept
  <2>1. CASE v = u
    BY <1>1, <1>2, <2>1
  <2>2. CASE v # u
    BY <1>1, <1>2, <2>2
  <2> QED
    BY <2>1, <2>2
<1>4. ASSUME NEW t
      PROVE  t \in Titles(tasks'[u]) <=> t \in Titles(tasks[u]) \/ t = x.title
  <2> DEFINE n == Len(tasks[u])
  <2>1. n \in Nat /\ 1..(n + 1) = (1..n) \cup {n + 1}
    BY <1>1
  <2>2. t \in Titles(tasks'[u]) <=> \E k \in 1..(n + 1) : tasks'[u][k].title = t
    BY <1>2, TitlesOf
  <2>3. t \in Titles(tasks[u]) <=> \E k \in 1..n : tasks[u][k].title = t
    BY <1>1, TitlesOf
  <2>4. /\ tasks'[u][n + 1] = x
        /\ \A k \in 1..n : tasks'[u][k] = tasks[u][k]
    BY <1>2
  <2> HIDE DEF n
  <2> QED
    BY <2>1, <2>2, <2>3, <2>4
<1>5. Titles(tasks'[u]) = Titles(tasks[u]) \cup {x.title}
  BY <1>4
<1> QED
  BY <1>1, <1>2, <1>3, <1>5

LEMMA InsertIsAdd ==
  ASSUME TypeOK, NEW p \in Procs, Inserts(p)
  PROVE  /\ run[p].user \in SeedUsers
         /\ [title |-> Current(p), status |-> "pending"] \in Task
         /\ Adds(run[p].user, [title |-> Current(p), status |-> "pending"])
BY CurrentType DEF TypeOK, RunState, Inserts, Adds

LEMMA UpdateStep ==
  ASSUME TypeOK, NEW p \in Procs, PlaceInv(p), At(p, "status"), Updates(p)
  PROVE  LET u == run[p].user IN
         /\ Kept /\ u \in SeedUsers
         /\ tasks'[u][run[p].made] = [title |-> Current(p), status |-> Status(Current(p))]
         /\ \A k \in 1..Len(tasks[u]) : k # run[p].made => tasks'[u][k] = tasks[u][k]
         /\ \A v \in SeedUsers : v # u => tasks'[v] = tasks[v]
         /\ \A v \in SeedUsers : Len(tasks'[v]) = Len(tasks[v]) /\ Titles(tasks'[v]) = Titles(tasks[v])
<1> DEFINE u == run[p].user
           m == run[p].made
<1>1. tasks \in [SeedUsers -> Seq(Task)] /\ u \in SeedUsers /\ \A v \in SeedUsers : Len(tasks[v]) \in Nat
  BY DEF TypeOK, RunState
<1>2. m \in 1..Len(tasks[u]) /\ tasks[u][m].title = Current(p) /\ Status(Current(p)) \in Statuses
  BY CurrentType DEF PlaceInv, Tasks
<1>3. tasks' = [tasks EXCEPT ![u][m].status = Status(Current(p))]
  BY DEF Updates
<1> HIDE DEF u, m
<1>4. /\ tasks' \in [SeedUsers -> Seq(Task)]
      /\ Len(tasks'[u]) = Len(tasks[u])
      /\ tasks'[u][m] = [title |-> tasks[u][m].title, status |-> Status(Current(p))]
      /\ \A k \in 1..Len(tasks[u]) : k # m => tasks'[u][k] = tasks[u][k]
      /\ \A v \in SeedUsers : v # u => tasks'[v] = tasks[v]
  BY <1>1, <1>2, <1>3, UpdateTask
<1>5. ASSUME NEW v \in SeedUsers
      PROVE  /\ Len(tasks'[v]) = Len(tasks[v])
             /\ \A k \in 1..Len(tasks[v]) : tasks'[v][k].title = tasks[v][k].title
  <2>1. CASE v = u
    BY <1>4, <2>1
  <2>2. CASE v # u
    BY <1>4, <2>2
  <2> QED
    BY <2>1, <2>2
<1>6. Kept
  BY <1>1, <1>4, <1>5 DEF Kept
<1>7. ASSUME NEW v \in SeedUsers PROVE Titles(tasks'[v]) = Titles(tasks[v])
  <2>1. \A t : t \in Titles(tasks'[v]) <=> \E k \in 1..Len(tasks'[v]) : tasks'[v][k].title = t
    BY <1>4, TitlesOf
  <2>2. \A t : t \in Titles(tasks[v]) <=> \E k \in 1..Len(tasks[v]) : tasks[v][k].title = t
    BY <1>1, TitlesOf
  <2>3. \A t : t \in Titles(tasks'[v]) <=> t \in Titles(tasks[v])
    BY <1>5, <2>1, <2>2
  <2> QED
    BY <2>3
<1> QED
  BY <1>1, <1>2, <1>4, <1>5, <1>6, <1>7 DEF u, m

\* What p relies on stays true whatever the others do.
LEMMA Stable ==
  ASSUME TypeOK, Kept, NEW q \in Procs, run'[q] = run[q], accounts \subseteq accounts',
         PlaceInv(q), CleanInv(q)
  PROVE  PlaceInv(q)' /\ CleanInv(q)'
<1> DEFINE u == run[q].user
<1>1. u \in SeedUsers /\ run[q].i \in Nat /\ run[q].made \in Nat
  BY SeedAssumption DEF TypeOK, RunState
<1>2. /\ Len(tasks[u]) \in Nat /\ Len(tasks'[u]) \in Nat /\ Len(tasks[u]) <= Len(tasks'[u])
      /\ \A k \in 1..Len(tasks[u]) : tasks'[u][k].title = tasks[u][k].title
  BY <1>1 DEF TypeOK, Kept
<1>3. \A v \in SeedUsers : Titles(tasks[v]) \subseteq Titles(tasks'[v])
  BY KeptTitles
<1>4. /\ Current(q)' = Current(q) /\ Through(q)' = Through(q)
      /\ \A l \in STRING : At(q, l)' <=> At(q, l)
  BY DEF Current, Through, At
<1>5. PlaceInv(q)'
  <2>1. /\ run[q].pc \in {"list", "task", "status"} => run[q].user \in accounts'
        /\ run[q].pc \in {"user", "list"} => run[q].i = 0 /\ run[q].existing = {}
    BY DEF PlaceInv
  <2>2. ASSUME run[q].pc = "status"
        PROVE  /\ run[q].i < PerUser /\ run[q].made \in 1..Len(tasks'[u])
               /\ tasks'[u][run[q].made].title = Current(q)
    <3>1. run[q].made \in 1..Len(tasks[u]) /\ tasks[u][run[q].made].title = Current(q) /\ run[q].i < PerUser
      BY <2>2 DEF PlaceInv, At, Tasks
    <3> HIDE DEF u
    <3> QED
      BY <1>2, <3>1
  <2> QED
    BY <1>4, <2>1, <2>2 DEF PlaceInv, At, Tasks
<1>6. CleanInv(q)'
  BY <1>1, <1>3, <1>4 DEF CleanInv, At, Tasks, Windowed
<1> QED
  BY <1>5, <1>6

----------------------------------------------------------------------------
(* What a step has to show, beyond the run that takes it *)

\* A run that moves is alone, when no run was misled.
LEMMA OthersIdle ==
  ASSUME AloneInv, ~misled, NEW p \in Procs, run[p].pc # "idle"
  PROVE  \A q \in Procs : q # p => run[q].pc = "idle"
BY DEF AloneInv, At

LEMMA RunsInv ==
  ASSUME Inv, NEW p \in Procs, Moves(p), Kept, accounts \subseteq accounts',
         PlaceInv(p)', CleanInv(p)'
  PROVE  (\A q \in Procs : PlaceInv(q) /\ CleanInv(q))'
<1> SUFFICES ASSUME NEW q \in Procs PROVE PlaceInv(q)' /\ CleanInv(q)'
  OBVIOUS
<1>1. CASE q = p
  BY <1>1
<1>2. CASE q # p
  BY <1>2, Stable DEF Inv, Moves
<1> QED
  BY <1>1, <1>2

LEMMA AloneStep ==
  ASSUME Inv, NEW p \in Procs, Moves(p), misled => misled',
         ~misled' => \A q \in Procs : q # p => run[q].pc = "idle",
         ~misled' => Knows(p)'
  PROVE  AloneInv'
<1> SUFFICES ASSUME ~misled'
             PROVE  /\ (\A q, r \in Procs : ~At(q, "idle") /\ ~At(r, "idle") => q = r)'
                    /\ (\A q \in Procs : Knows(q))'
  BY DEF AloneInv
<1>1. \A q \in Procs : q # p => run'[q].pc = "idle"
  BY DEF Moves
<1>2. ASSUME NEW q \in Procs PROVE Knows(q)'
  BY <1>1 DEF Knows
<1> QED
  BY <1>1, <1>2 DEF At

LEMMA LeavesStep ==
  ASSUME Inv, Kept, complete' => complete
  PROVE  LeavesAll'
<1> SUFFICES ASSUME complete', NEW u \in SeedUsers
             PROVE  Windowed(u) \subseteq Titles(tasks'[u])
  BY DEF LeavesAll, Windowed
<1>1. Titles(tasks[u]) \subseteq Titles(tasks'[u])
  BY KeptTitles DEF Inv
<1> QED
  BY <1>1 DEF Inv, LeavesAll

\* No new task, and no other title.
LEMMA NoNewTitle ==
  ASSUME Inv, Kept, misled => misled', \A u \in SeedUsers : Len(tasks'[u]) = Len(tasks[u])
  PROVE  NoDuplicates'
<1> SUFFICES ASSUME ~misled', NEW u \in SeedUsers, NEW j \in DOMAIN tasks'[u], NEW k \in DOMAIN tasks'[u],
                    tasks'[u][j].title # Own, tasks'[u][j].title = tasks'[u][k].title
             PROVE  j = k
  BY DEF NoDuplicates
<1>1. /\ DOMAIN tasks'[u] = 1..Len(tasks[u]) /\ DOMAIN tasks[u] = 1..Len(tasks[u])
      /\ \A n \in 1..Len(tasks[u]) : tasks'[u][n].title = tasks[u][n].title
  BY DEF Inv, TypeOK, Kept
<1> QED
  BY <1>1 DEF Inv, NoDuplicates

\* A task whose title is the owner's, or is not there yet.
LEMMA NewTitle ==
  ASSUME Inv, misled => misled', NEW u \in SeedUsers, NEW x \in Task, Adds(u, x),
         ~misled' => x.title = Own \/ x.title \notin Titles(tasks[u])
  PROVE  NoDuplicates'
<1> SUFFICES ASSUME ~misled', NEW v \in SeedUsers, NEW j \in DOMAIN tasks'[v], NEW k \in DOMAIN tasks'[v],
                    tasks'[v][j].title # Own, tasks'[v][j].title = tasks'[v][k].title
             PROVE  j = k
  BY DEF NoDuplicates
<1>1. TypeOK /\ tasks[v] \in Seq(Task) /\ tasks[u] \in Seq(Task) /\ DOMAIN tasks[v] = 1..Len(tasks[v])
  BY DEF Inv, TypeOK
<1>2. \A a, b \in DOMAIN tasks[v] :
        tasks[v][a].title # Own /\ tasks[v][a].title = tasks[v][b].title => a = b
  BY DEF Inv, NoDuplicates
<1>3. /\ tasks' \in [SeedUsers -> Seq(Task)]
      /\ Len(tasks[u]) \in Nat /\ Len(tasks'[u]) = Len(tasks[u]) + 1
      /\ tasks'[u][Len(tasks[u]) + 1] = x
      /\ \A n \in 1..Len(tasks[u]) : tasks'[u][n] = tasks[u][n]
      /\ \A w \in SeedUsers : w # u => tasks'[w] = tasks[w]
  BY <1>1, AddStep DEF Kept
<1>4. CASE v # u
  BY <1>2, <1>3, <1>4
<1>5. CASE v = u
  <2> DEFINE n == Len(tasks[u])
  <2>1. n \in Nat /\ j \in 1..(n + 1) /\ k \in 1..(n + 1)
    <3>1. DOMAIN tasks'[u] = 1..Len(tasks'[u])
      BY <1>3
    <3> QED
      BY <1>3, <1>5, <3>1
  <2>2. /\ \A a \in 1..n : tasks'[u][a] = tasks[u][a] /\ tasks[u][a].title \in Titles(tasks[u])
        /\ tasks'[u][n + 1] = x
    BY <1>1, <1>3, TitlesOf
  <2>3. x.title = Own \/ x.title \notin Titles(tasks[u])
    OBVIOUS
  <2>4. \A a, b \in 1..n :
          tasks[u][a].title # Own /\ tasks[u][a].title = tasks[u][b].title => a = b
    BY <1>1, <1>2, <1>5
  <2>5. /\ j \in 1..n \/ j = n + 1
        /\ k \in 1..n \/ k = n + 1
    BY <2>1
  <2>6. tasks'[u][j].title # Own /\ tasks'[u][j].title = tasks'[u][k].title
    BY <1>5
  <2> HIDE DEF n
  <2> QED
    BY <2>2, <2>3, <2>4, <2>5, <2>6
<1> QED
  BY <1>4, <1>5

\* A step that leaves the tasks alone, of a run that is not about to set a
\* status.
LEMMA StatusKept ==
  ASSUME Inv, NEW p \in Procs, Moves(p), run[p].pc # "status", tasks' = tasks,
         faults' = 0 => faults = 0
  PROVE  StatusInv'
<1> SUFFICES ASSUME faults' = 0, NEW u \in SeedUsers, NEW k \in DOMAIN tasks[u]
             PROVE  \/ tasks[u][k].title = Own
                    \/ tasks[u][k].status = Status(tasks[u][k].title)
                    \/ \E q \in Procs : run'[q].pc = "status" /\ run'[q].user = u /\ run'[q].made = k
  BY DEF StatusInv, At
<1>1. \/ tasks[u][k].title = Own
      \/ tasks[u][k].status = Status(tasks[u][k].title)
      \/ \E q \in Procs : run[q].pc = "status" /\ run[q].user = u /\ run[q].made = k
  BY DEF Inv, StatusInv, At
<1> QED
  BY <1>1 DEF Moves

LEMMA TypeRest ==
  ASSUME TypeOK, run' \in [Procs -> RunState], Kept,
         accounts \subseteq accounts', accounts' \subseteq SeedUsers,
         complete' \in BOOLEAN, misled' \in BOOLEAN,
         runs' \in 0..MaxRuns, faults' \in 0..MaxFaults,
         \A u \in SeedUsers : tasks'[u] # tasks[u] => u \in accounts'
  PROVE  TypeOK'
<1>1. \A u \in SeedUsers : tasks'[u] # <<>> => u \in accounts'
  BY DEF TypeOK
<1> QED
  BY <1>1 DEF TypeOK, Kept

----------------------------------------------------------------------------
(* Every step *)

LEMMA StartInv ==
  ASSUME Inv, NEW p \in Procs, Start(p)
  PROVE  Inv'
<1>1. /\ TypeOK /\ Moves(p) /\ run[p].pc = "idle" /\ run'[p] = Place("user")
      /\ UNCHANGED <<accounts, tasks, complete, faults>> /\ runs' \in 0..MaxRuns
      /\ misled' \in BOOLEAN /\ (misled => misled')
      /\ ~misled' => \A q \in Procs : q # p => run[q].pc = "idle"
  BY StartStep DEF Inv
<1>2. /\ run'[p].pc = "user" /\ run'[p].user = 0 /\ run'[p].i = 0 /\ run'[p].existing = {}
  BY <1>1 DEF Place
<1>3. Kept
  BY <1>1, Unchanged
<1>4. PlaceInv(p)'
  BY <1>2 DEF PlaceInv, At
<1>5. CleanInv(p)'
  <2>1. Through(p)' = {}
    BY <1>2 DEF Through, At
  <2>2. \A u \in SeedUsers : ~(u < 0)
    BY DEF SeedUsers
  <2> QED
    BY <1>2, <2>1, <2>2 DEF CleanInv
<1>6. Knows(p)'
  BY <1>2 DEF Knows
<1>7. TypeOK'
  BY <1>1, <1>3, TypeRest DEF Moves, TypeOK
<1>8. LeavesAll' /\ NoDuplicates' /\ StatusInv' /\ AloneInv'
  BY <1>1, <1>3, <1>6, LeavesStep, NoNewTitle, StatusKept, AloneStep
<1> QED
  BY <1>1, <1>3, <1>4, <1>5, <1>7, <1>8, RunsInv DEF Inv

LEMMA UserInv ==
  ASSUME Inv, NEW p \in Procs, getOrCreateUser(p)
  PROVE  Inv'
<1>1. /\ TypeOK /\ Moves(p) /\ run[p].pc = "user"
      /\ UNCHANGED <<tasks, complete, misled, runs>> /\ faults' \in 0..MaxFaults
      /\ accounts \subseteq accounts' /\ accounts' \subseteq SeedUsers
      /\ \/ /\ run'[p] = [run[p] EXCEPT !.pc = "list"] /\ run[p].user \in accounts'
            /\ faults' = faults
         \/ run'[p] = Place("idle") /\ faults' # 0
      /\ PlaceInv(p) /\ CleanInv(p) /\ AloneInv
  BY UserStep DEF Inv
<1>2. \/ run'[p].pc = "idle"
      \/ /\ run'[p].pc = "list" /\ run'[p].user = run[p].user /\ run[p].user \in accounts'
         /\ run'[p].i = run[p].i /\ run'[p].existing = run[p].existing
         /\ run'[p].clean = run[p].clean
  <2>1. run[p] \in RunState
    BY <1>1 DEF TypeOK
  <2>2. CASE run'[p] = [run[p] EXCEPT !.pc = "list"] /\ run[p].user \in accounts'
    BY <2>1, <2>2, Zenon DEF RunState
  <2>3. CASE run'[p] = Place("idle")
    BY <2>3 DEF Place
  <2> QED
    BY <1>1, <2>2, <2>3
<1>3. Kept
  BY <1>1, Unchanged
<1>4. PlaceInv(p)'
  BY <1>1, <1>2 DEF PlaceInv, At
<1>5. CleanInv(p)'
  <2>1. CASE run'[p].pc = "idle"
    BY <2>1 DEF CleanInv, At
  <2>2. CASE /\ run'[p].pc = "list" /\ run'[p].user = run[p].user
             /\ run'[p].i = run[p].i /\ run'[p].existing = run[p].existing
             /\ run'[p].clean = run[p].clean
    <3>1. Through(p)' = Through(p) /\ Titles(Tasks(p))' = Titles(Tasks(p))
      BY <1>1, <2>2 DEF Through, At, Tasks, Titles
    <3> QED
      BY <1>1, <2>2, <3>1 DEF CleanInv, At, Windowed
  <2> QED
    BY <1>2, <2>1, <2>2
<1>6. Knows(p)'
  BY <1>2 DEF Knows
<1>7. TypeOK'
  BY <1>1, <1>3, TypeRest DEF Moves, TypeOK
<1>8. ~misled' => \A q \in Procs : q # p => run[q].pc = "idle"
  BY <1>1, OthersIdle
<1>9. LeavesAll' /\ NoDuplicates' /\ StatusInv' /\ AloneInv'
  BY <1>1, <1>3, <1>6, <1>8, LeavesStep, NoNewTitle, StatusKept, AloneStep
<1> QED
  BY <1>1, <1>3, <1>4, <1>5, <1>7, <1>9, RunsInv DEF Inv

LEMMA ListInv ==
  ASSUME Inv, NEW p \in Procs, List(p)
  PROVE  Inv'
<1>1. /\ TypeOK /\ Moves(p) /\ run[p].pc = "list"
      /\ UNCHANGED <<accounts, tasks, complete, runs>> /\ faults' \in 0..MaxFaults
      /\ run'[p].pc = "task" /\ run'[p].user = run[p].user /\ run'[p].i = run[p].i
      /\ run'[p].made = run[p].made /\ (run'[p].clean => run[p].clean)
      /\ run'[p].existing \subseteq Titles(Tasks(p)) \/ run'[p].existing = run[p].existing
      /\ misled' \in BOOLEAN /\ (misled => misled')
      /\ ~misled' => Titles(Tasks(p)) \subseteq run'[p].existing \cup {Own}
      /\ faults' = 0 => faults = 0
      /\ PlaceInv(p) /\ CleanInv(p) /\ AloneInv
  BY ListStep DEF Inv
<1>2. run'[p].i = 0 /\ run[p].user \in accounts /\ run[p].existing = {}
  BY <1>1 DEF PlaceInv
<1>3. Kept /\ Titles(Tasks(p))' = Titles(Tasks(p))
  BY <1>1, Unchanged DEF Tasks, Titles
<1>4. PlaceInv(p)'
  BY <1>1, <1>2 DEF PlaceInv, At
<1>5. CleanInv(p)'
  <2>1. Through(p)' = {}
    BY <1>1, <1>2 DEF Through, At
  <2> QED
    BY <1>1, <1>2, <1>3, <2>1 DEF CleanInv, At, Windowed
<1>6. ~misled' => Knows(p)'
  BY <1>1, <1>3 DEF Knows
<1>7. TypeOK'
  BY <1>1, <1>3, TypeRest DEF Moves, TypeOK
<1>8. ~misled' => \A q \in Procs : q # p => run[q].pc = "idle"
  BY <1>1, OthersIdle
<1>9. LeavesAll' /\ NoDuplicates' /\ StatusInv' /\ AloneInv'
  BY <1>1, <1>3, <1>6, <1>8, LeavesStep, NoNewTitle, StatusKept, AloneStep
<1> QED
  BY <1>1, <1>3, <1>4, <1>5, <1>7, <1>9, RunsInv DEF Inv

LEMMA SkipInv ==
  ASSUME Inv, NEW p \in Procs, SkipTask(p)
  PROVE  Inv'
<1>1. /\ TypeOK /\ Moves(p) /\ run[p].pc = "task" /\ run[p].i < PerUser
      /\ Current(p) \in run[p].existing
      /\ run'[p] = [run[p] EXCEPT !.i = @ + 1]
      /\ UNCHANGED <<accounts, tasks, complete, misled, runs, faults>>
      /\ PlaceInv(p) /\ CleanInv(p) /\ AloneInv
  BY SkipStep DEF Inv
<1>2. /\ run[p] \in RunState /\ run[p].i \in Nat
      /\ run'[p].pc = "task" /\ run'[p].user = run[p].user /\ run'[p].i = run[p].i + 1
      /\ run'[p].existing = run[p].existing /\ run'[p].clean = run[p].clean
  BY <1>1, SeedAssumption DEF TypeOK, RunState
<1>3. Kept /\ Titles(Tasks(p))' = Titles(Tasks(p))
  BY <1>1, <1>2, Unchanged DEF Tasks, Titles
<1>4. PlaceInv(p)'
  BY <1>1, <1>2 DEF PlaceInv, At
<1>5. Through(p)' = Through(p) \cup {run[p].i}
  BY <1>1, <1>2 DEF Through, At
<1>6. CleanInv(p)'
  <2>1. Template(run[p].user, run[p].i) \in Titles(Tasks(p))
    BY <1>1 DEF CleanInv, At, Current
  <2> QED
    BY <1>1, <1>2, <1>3, <1>5, <2>1 DEF CleanInv, At, Windowed
<1>7. ~misled' => Knows(p)'
  BY <1>1, <1>2, <1>3, <1>5 DEF AloneInv, Knows
<1>8. TypeOK'
  BY <1>1, <1>3, TypeRest DEF Moves, TypeOK
<1>9. ~misled' => \A q \in Procs : q # p => run[q].pc = "idle"
  BY <1>1, OthersIdle
<1>10. LeavesAll' /\ NoDuplicates' /\ StatusInv' /\ AloneInv'
  BY <1>1, <1>3, <1>7, <1>9, LeavesStep, NoNewTitle, StatusKept, AloneStep
<1> QED
  BY <1>1, <1>3, <1>4, <1>6, <1>8, <1>10, RunsInv DEF Inv

LEMMA InterruptInv ==
  ASSUME Inv, NEW p \in Procs, Interrupt(p)
  PROVE  Inv'
<1>1. /\ TypeOK /\ Moves(p) /\ run'[p] = Place("idle") /\ faults' \in 0..MaxFaults /\ faults' # 0
      /\ UNCHANGED <<accounts, tasks, complete, misled, runs>>
      /\ run[p].pc # "idle" /\ AloneInv
  BY InterruptStep DEF Inv, Interrupt, At
<1>2. run'[p].pc = "idle"
  BY <1>1 DEF Place
<1>3. Kept
  BY <1>1, Unchanged
<1>4. PlaceInv(p)' /\ CleanInv(p)' /\ Knows(p)'
  BY <1>2 DEF PlaceInv, CleanInv, Knows, At
<1>5. TypeOK'
  BY <1>1, <1>3, TypeRest DEF Moves, TypeOK
<1>6. ~misled' => \A q \in Procs : q # p => run[q].pc = "idle"
  BY <1>1, OthersIdle
<1>7. StatusInv'
  BY <1>1 DEF StatusInv
<1>8. LeavesAll' /\ NoDuplicates' /\ AloneInv'
  BY <1>1, <1>3, <1>4, <1>6, LeavesStep, NoNewTitle, AloneStep
<1> QED
  BY <1>1, <1>3, <1>4, <1>5, <1>7, <1>8, RunsInv DEF Inv

LEMMA NextUserInv ==
  ASSUME Inv, NEW p \in Procs, NextUser(p)
  PROVE  Inv'
<1>1. /\ TypeOK /\ Moves(p) /\ run[p].pc = "task" /\ run[p].i = PerUser
      /\ UNCHANGED <<accounts, tasks, misled, runs, faults>> /\ complete' \in BOOLEAN
      /\ \/ /\ run[p].user + 1 < U /\ complete' = complete
            /\ run'[p] = [Place("user") EXCEPT !.user = run[p].user + 1, !.clean = run[p].clean]
         \/ /\ run[p].user = U - 1 /\ run'[p] = Place("idle")
            /\ complete' => complete \/ run[p].clean
      /\ PlaceInv(p) /\ CleanInv(p) /\ AloneInv
  BY NextStep DEF Inv
<1>2. /\ run[p].user \in Nat /\ run[p].user \in SeedUsers /\ U \in Nat
      /\ \A u \in SeedUsers : u \in Nat /\ u < U
  BY <1>1, SeedAssumption DEF TypeOK, RunState, SeedUsers
<1>3. \/ /\ run'[p].pc = "user" /\ run'[p].user = run[p].user + 1 /\ run'[p].i = 0
         /\ run'[p].existing = {} /\ run'[p].clean = run[p].clean /\ complete' = complete
      \/ /\ run'[p].pc = "idle" /\ run[p].user = U - 1
         /\ complete' => complete \/ run[p].clean
  <2>1. CASE /\ complete' = complete
             /\ run'[p] = [Place("user") EXCEPT !.user = run[p].user + 1, !.clean = run[p].clean]
    BY <2>1, Zenon DEF Place
  <2>2. CASE /\ run[p].user = U - 1 /\ run'[p] = Place("idle")
             /\ complete' => complete \/ run[p].clean
    <3>1. run'[p].pc = "idle"
      BY <2>2 DEF Place
    <3> QED
      BY <2>2, <3>1
  <2> QED
    BY <1>1, <2>1, <2>2
<1>4. Kept
  BY <1>1, Unchanged
\* The window of the user is through.
<1>5. run[p].clean =>
        \A u \in SeedUsers : u <= run[p].user => Windowed(u) \subseteq Titles(tasks[u])
  <2> SUFFICES ASSUME run[p].clean, NEW u \in SeedUsers, u <= run[p].user
               PROVE  Windowed(u) \subseteq Titles(tasks[u])
    OBVIOUS
  <2>1. CASE u < run[p].user
    BY <1>1, <2>1 DEF CleanInv, At
  <2>2. CASE u = run[p].user
    <3>1. Through(p) = 0..(PerUser - 1)
      BY <1>1 DEF Through, At
    <3> QED
      BY <1>1, <2>2, <3>1 DEF CleanInv, At, Windowed, Tasks
  <2> QED
    BY <1>2, <2>1, <2>2
<1>6. PlaceInv(p)' /\ Knows(p)'
  BY <1>3 DEF PlaceInv, Knows, At
<1>7. CleanInv(p)'
  <2>1. CASE run'[p].pc = "idle"
    BY <2>1 DEF CleanInv, At
  <2>2. CASE /\ run'[p].pc = "user" /\ run'[p].user = run[p].user + 1 /\ run'[p].i = 0
             /\ run'[p].existing = {} /\ run'[p].clean = run[p].clean
    <3>1. Through(p)' = {}
      BY <2>2 DEF Through, At
    <3>2. \A u \in SeedUsers : u < run[p].user + 1 => u <= run[p].user
      BY <1>2
    <3> QED
      BY <1>1, <1>5, <2>2, <3>1, <3>2 DEF CleanInv, Windowed
  <2> QED
    BY <1>3, <2>1, <2>2
<1>8. LeavesAll'
  <2>1. CASE complete' => complete
    BY <1>4, <2>1, LeavesStep
  <2>2. CASE run[p].user = U - 1 /\ run[p].clean
    <3>1. \A u \in SeedUsers : u <= run[p].user
      BY <1>2, <2>2
    <3> QED
      BY <1>1, <1>5, <2>2, <3>1 DEF LeavesAll, Windowed
  <2> QED
    BY <1>3, <2>1, <2>2
<1>9. TypeOK'
  BY <1>1, <1>4, TypeRest DEF Moves, TypeOK
<1>10. ~misled' => \A q \in Procs : q # p => run[q].pc = "idle"
  BY <1>1, OthersIdle
<1>11. NoDuplicates' /\ StatusInv' /\ AloneInv'
  BY <1>1, <1>4, <1>6, <1>10, NoNewTitle, StatusKept, AloneStep
<1> QED
  BY <1>1, <1>4, <1>6, <1>7, <1>8, <1>9, <1>11, RunsInv DEF Inv

\* Who was not misled creates no template that is there: it would have been
\* shown, or be of an earlier place of the window.
LEMMA CurrentIsNew ==
  ASSUME TypeOK, NEW p \in Procs, Knows(p), run[p].pc = "task", run[p].i < PerUser,
         Current(p) \notin run[p].existing
  PROVE  Current(p) \notin Titles(Tasks(p))
<1>1. run[p].user \in SeedUsers /\ run[p].i \in Nat /\ PerUser \in Nat
  BY SeedAssumption DEF TypeOK, RunState
<1>2. Through(p) = 0..(run[p].i - 1)
  BY DEF Through, At
<1>3. ASSUME NEW k \in Through(p) PROVE Template(run[p].user, k) # Current(p)
  <2>1. k \in 0..(PerUser - 1) /\ run[p].i \in 0..(PerUser - 1) /\ k # run[p].i
    BY <1>1, <1>2
  <2> QED
    BY <1>1, <2>1, TemplateInjective DEF Current
<1>4. Current(p) # Own
  BY CurrentType
<1> QED
  BY <1>3, <1>4 DEF Knows

LEMMA CreateInv ==
  ASSUME Inv, NEW p \in Procs, CreateTask(p)
  PROVE  Inv'
<1> DEFINE u == run[p].user
           x == [title |-> Current(p), status |-> "pending"]
<1>1. /\ TypeOK /\ Moves(p) /\ run[p].pc = "task" /\ run[p].i < PerUser
      /\ Current(p) \notin run[p].existing
      /\ UNCHANGED <<accounts, complete, misled, runs>> /\ faults' \in 0..MaxFaults
      /\ PlaceInv(p) /\ CleanInv(p) /\ AloneInv
  BY CreateStep DEF Inv
<1>2. /\ run[p] \in RunState /\ run[p].i \in Nat /\ u \in SeedUsers /\ u \in accounts
      /\ Len(tasks[u]) \in Nat
  BY <1>1, SeedAssumption DEF TypeOK, RunState, PlaceInv
\* The outcomes: created and done, created without its status, or failed.
<1>3. \/ /\ faults' = faults /\ Inserts(p) /\ Status(Current(p)) = "pending"
         /\ run'[p].pc = "task" /\ run'[p].i = run[p].i + 1 /\ run'[p].clean = run[p].clean
      \/ /\ faults' = faults /\ Inserts(p)
         /\ run'[p].pc = "status" /\ run'[p].i = run[p].i /\ run'[p].clean = run[p].clean
         /\ run'[p].made = Len(tasks[u]) + 1
      \/ /\ faults' # 0 /\ (Inserts(p) \/ UNCHANGED tasks)
         /\ run'[p].pc = "task" /\ run'[p].i = run[p].i + 1 /\ ~run'[p].clean
  <2>1. CASE /\ faults' = faults /\ Inserts(p) /\ Status(Current(p)) = "pending"
             /\ run'[p] = [run[p] EXCEPT !.i = @ + 1]
    BY <1>1, <1>2, <2>1, Zenon DEF RunState
  <2>2. CASE /\ faults' = faults /\ Inserts(p)
             /\ run'[p] = [run[p] EXCEPT !.pc = "status", !.made = Len(Tasks(p)) + 1]
    BY <1>1, <1>2, <2>2, Zenon DEF RunState, Tasks
  <2>3. CASE /\ faults' # 0 /\ (Inserts(p) \/ UNCHANGED tasks)
             /\ run'[p] = [run[p] EXCEPT !.i = @ + 1, !.clean = FALSE]
    BY <1>1, <1>2, <2>3, Zenon DEF RunState
  <2> QED
    BY <1>1, <2>1, <2>2, <2>3, CreateStep
<1>4. run'[p].user = u /\ run'[p].existing = run[p].existing
  <2>1. \/ run'[p] = [run[p] EXCEPT !.i = @ + 1]
        \/ run'[p] = [run[p] EXCEPT !.pc = "status", !.made = Len(Tasks(p)) + 1]
        \/ run'[p] = [run[p] EXCEPT !.i = @ + 1, !.clean = FALSE]
    BY <1>1, CreateStep
  <2> QED
    BY <1>2, <2>1, Zenon DEF RunState
<1>5. Through(p)' = Through(p) \cup {run[p].i}
  <2>1. \/ run'[p].pc = "task" /\ run'[p].i = run[p].i + 1
        \/ run'[p].pc = "status" /\ run'[p].i = run[p].i
    BY <1>3
  <2>2. run[p].i \in Nat /\ run[p].pc = "task"
    BY <1>1, <1>2
  <2> QED
    BY <2>1, <2>2 DEF Through, At
<1>6. Inserts(p) => x \in Task /\ Adds(u, x)
  BY <1>1, InsertIsAdd
<1>7. /\ Kept
      /\ \A v \in SeedUsers : v # u => tasks'[v] = tasks[v]
      /\ Inserts(p) =>
           /\ Titles(tasks'[u]) = Titles(tasks[u]) \cup {Current(p)}
           /\ Len(tasks'[u]) = Len(tasks[u]) + 1 /\ tasks'[u][Len(tasks[u]) + 1] = x
           /\ \A k \in 1..Len(tasks[u]) : tasks'[u][k] = tasks[u][k]
  <2>1. CASE Inserts(p)
    <3>1. x.title = Current(p)
      OBVIOUS
    <3>2. u \in SeedUsers /\ x \in Task /\ Adds(u, x)
      BY <1>2, <1>6, <2>1
    <3> HIDE DEF x, u
    <3>3. /\ Kept
          /\ Titles(tasks'[u]) = Titles(tasks[u]) \cup {x.title}
          /\ Len(tasks'[u]) = Len(tasks[u]) + 1 /\ tasks'[u][Len(tasks[u]) + 1] = x
          /\ \A k \in 1..Len(tasks[u]) : tasks'[u][k] = tasks[u][k]
          /\ \A v \in SeedUsers : v # u => tasks'[v] = tasks[v]
      BY <1>1, <3>2, AddStep
    <3> QED
      BY <3>1, <3>3
  <2>2. CASE ~Inserts(p)
    BY <1>1, <1>3, <2>2, Unchanged
  <2> QED
    BY <2>1, <2>2
<1>8. Tasks(p) = tasks[u] /\ Tasks(p)' = tasks'[u] /\ Titles(tasks[u]) \subseteq Titles(tasks'[u])
  BY <1>1, <1>2, <1>4, <1>7, KeptTitles DEF Tasks
<1>9. Titles(tasks'[u]) \subseteq Titles(tasks[u]) \cup {Current(p)}
  BY <1>3, <1>7
<1> HIDE DEF x
<1>10. PlaceInv(p)'
  <2>1. run'[p].user \in accounts'
    BY <1>1, <1>2, <1>4
  <2>2. ASSUME run'[p].pc = "status"
        PROVE  /\ run'[p].i < PerUser /\ run'[p].made \in 1..Len(tasks'[u])
               /\ tasks'[u][run'[p].made].title = Current(p)'
    <3>1. Inserts(p) /\ run'[p].made = Len(tasks[u]) + 1 /\ run'[p].i = run[p].i
      BY <1>3, <2>2
    <3>2. Current(p)' = Current(p)
      BY <1>4, <3>1 DEF Current
    <3> QED
      BY <1>1, <1>2, <1>7, <3>1, <3>2 DEF x
  <2> QED
    BY <1>3, <1>8, <2>1, <2>2 DEF PlaceInv, At
<1>11. CleanInv(p)'
  <2>1. run'[p].existing \subseteq Titles(tasks'[u])
    BY <1>1, <1>4, <1>8 DEF CleanInv, At
  <2>2. ASSUME run'[p].clean
        PROVE  /\ \A v \in SeedUsers : v < u => Windowed(v) \subseteq Titles(tasks'[v])
               /\ \A k \in Through(p)' : Template(u, k) \in Titles(tasks'[u])
    <3>1. run[p].clean /\ Inserts(p)
      BY <1>3, <2>2
    <3>2. \A v \in SeedUsers : Titles(tasks[v]) \subseteq Titles(tasks'[v])
      BY <1>1, <1>7, KeptTitles
    <3>3. Template(u, run[p].i) \in Titles(tasks'[u])
      BY <1>7, <3>1 DEF Current
    <3> QED
      BY <1>1, <1>5, <1>8, <3>1, <3>2, <3>3 DEF CleanInv, At
  <2> QED
    BY <1>4, <1>8, <2>1, <2>2 DEF CleanInv, Windowed
<1>12. ~misled' => Knows(p)'
  BY <1>1, <1>4, <1>5, <1>8, <1>9 DEF AloneInv, Knows, Current
<1>13. NoDuplicates'
  <2>1. CASE Inserts(p)
    <3>1. ~misled' => Current(p) \notin Titles(tasks[u])
      BY <1>1, <1>8, CurrentIsNew DEF AloneInv
    <3>2. x.title = Current(p)
      BY DEF x
    <3> QED
      BY <1>1, <1>2, <1>6, <2>1, <3>1, <3>2, NewTitle
  <2>2. CASE ~Inserts(p)
    BY <1>1, <1>3, <1>7, <2>2, NoNewTitle
  <2> QED
    BY <2>1, <2>2
<1>14. StatusInv'
  <2> SUFFICES ASSUME faults' = 0, NEW v \in SeedUsers, NEW k \in DOMAIN tasks'[v]
               PROVE  \/ tasks'[v][k].title = Own
                      \/ tasks'[v][k].status = Status(tasks'[v][k].title)
                      \/ \E q \in Procs : run'[q].pc = "status" /\ run'[q].user = v /\ run'[q].made = k
    BY DEF StatusInv, At
  <2>1. Inserts(p) /\ faults = 0
    BY <1>3
  <2>2. ASSUME k \in DOMAIN tasks[v], tasks'[v][k] = tasks[v][k]
        PROVE  \/ tasks'[v][k].title = Own
               \/ tasks'[v][k].status = Status(tasks'[v][k].title)
               \/ \E q \in Procs : run'[q].pc = "status" /\ run'[q].user = v /\ run'[q].made = k
    <3>1. \/ tasks[v][k].title = Own
          \/ tasks[v][k].status = Status(tasks[v][k].title)
          \/ \E q \in Procs : run[q].pc = "status" /\ run[q].user = v /\ run[q].made = k
      BY <2>1, <2>2 DEF Inv, StatusInv, At
    <3> QED
      BY <1>1, <2>2, <3>1 DEF Moves
  <2>3. CASE v # u
    BY <1>7, <2>2, <2>3
  <2>4. CASE v = u
    <3>1. DOMAIN tasks'[u] = 1..Len(tasks'[u]) /\ DOMAIN tasks[u] = 1..Len(tasks[u])
      BY <1>1, <1>2, <1>7 DEF Kept, TypeOK
    <3>2. k \in 1..Len(tasks[u]) \/ k = Len(tasks[u]) + 1
      BY <1>2, <1>7, <2>1, <2>4, <3>1
    <3>3. CASE k \in 1..Len(tasks[u])
      BY <1>7, <2>1, <2>2, <2>4, <3>1, <3>3
    <3>4. CASE k = Len(tasks[u]) + 1
      <4>1. tasks'[u][k].title = Current(p) /\ tasks'[u][k].status = "pending"
        BY <1>7, <2>1, <3>4 DEF x
      <4> QED
        BY <1>3, <1>4, <2>4, <3>4, <4>1
    <3> QED
      BY <3>2, <3>3, <3>4
  <2> QED
    BY <2>3, <2>4
<1>15. TypeOK'
  <2>1. \A v \in SeedUsers : tasks'[v] # tasks[v] => v \in accounts'
    BY <1>1, <1>2, <1>7
  <2> QED
    BY <1>1, <1>7, <2>1, TypeRest DEF Moves, TypeOK
<1>16. ~misled' => \A q \in Procs : q # p => run[q].pc = "idle"
  BY <1>1, OthersIdle
<1>17. LeavesAll' /\ AloneInv'
  BY <1>1, <1>7, <1>12, <1>16, LeavesStep, AloneStep
<1> QED
  BY <1>1, <1>7, <1>10, <1>11, <1>13, <1>14, <1>15, <1>17, RunsInv DEF Inv

LEMMA SetInv ==
  ASSUME Inv, NEW p \in Procs, SetStatus(p)
  PROVE  Inv'
<1> DEFINE u == run[p].user
<1>1. /\ TypeOK /\ PlaceInv(p) /\ CleanInv(p) /\ AloneInv
      /\ Moves(p) /\ run[p].pc = "status" /\ At(p, "status")
      /\ UNCHANGED <<accounts, complete, misled, runs>> /\ faults' \in 0..MaxFaults
      /\ run'[p].pc = "task" /\ run'[p].user = u /\ run'[p].i = run[p].i + 1
      /\ run'[p].existing = run[p].existing /\ (run'[p].clean => run[p].clean)
      /\ \/ faults' = faults /\ Updates(p)
         \/ faults' # 0 /\ (Updates(p) \/ UNCHANGED tasks)
  BY SetStep DEF Inv, At
<1>2. u \in SeedUsers /\ run[p].i \in Nat /\ u \in accounts
  BY <1>1, SeedAssumption DEF TypeOK, RunState, PlaceInv
<1>3. Updates(p) =>
        /\ tasks'[u][run[p].made] = [title |-> Current(p), status |-> Status(Current(p))]
        /\ \A k \in 1..Len(tasks[u]) : k # run[p].made => tasks'[u][k] = tasks[u][k]
  BY <1>1, UpdateStep
<1>4. /\ Kept
      /\ \A v \in SeedUsers : v # u => tasks'[v] = tasks[v]
      /\ \A v \in SeedUsers : Len(tasks'[v]) = Len(tasks[v]) /\ Titles(tasks'[v]) = Titles(tasks[v])
  <2>1. CASE Updates(p)
    BY <1>1, <2>1, UpdateStep
  <2>2. CASE tasks' = tasks
    BY <1>1, <2>2, Unchanged
  <2> QED
    BY <1>1, <2>1, <2>2
<1>5. Tasks(p) = tasks[u] /\ Tasks(p)' = tasks'[u] /\ Titles(tasks'[u]) = Titles(tasks[u])
  BY <1>1, <1>2, <1>4 DEF Tasks
<1>6. Through(p)' = Through(p)
  <2>1. run[p].pc = "status" /\ run'[p].pc = "task" /\ run'[p].i = run[p].i + 1 /\ run[p].i \in Nat
    BY <1>1, <1>2
  <2> QED
    BY <2>1 DEF Through, At
<1>7. PlaceInv(p)'
  BY <1>1, <1>2 DEF PlaceInv, At
<1>8. CleanInv(p)'
  <2>1. run'[p].existing \subseteq Titles(tasks'[u])
    BY <1>1, <1>5 DEF CleanInv, At
  <2>2. ASSUME run'[p].clean
        PROVE  /\ \A v \in SeedUsers : v < u => Windowed(v) \subseteq Titles(tasks'[v])
               /\ \A k \in Through(p)' : Template(u, k) \in Titles(tasks'[u])
    BY <1>1, <1>4, <1>5, <1>6, <2>2 DEF CleanInv, At
  <2> QED
    BY <1>1, <1>5, <2>1, <2>2 DEF CleanInv, Windowed
<1>9. ~misled' => Knows(p)'
  BY <1>1, <1>5, <1>6 DEF AloneInv, Knows
<1>10. StatusInv'
  <2> SUFFICES ASSUME faults' = 0, NEW v \in SeedUsers, NEW k \in DOMAIN tasks'[v]
               PROVE  \/ tasks'[v][k].title = Own
                      \/ tasks'[v][k].status = Status(tasks'[v][k].title)
                      \/ \E q \in Procs : run'[q].pc = "status" /\ run'[q].user = v /\ run'[q].made = k
    BY DEF StatusInv, At
  <2>1. Updates(p) /\ faults = 0
    BY <1>1
  <2>2. k \in 1..Len(tasks[v]) /\ DOMAIN tasks[v] = 1..Len(tasks[v])
    BY <1>1, <1>4 DEF Kept, TypeOK
  <2>3. CASE v = u /\ k = run[p].made
    BY <1>3, <2>1, <2>3
  <2>4. CASE ~(v = u /\ k = run[p].made)
    <3>1. tasks'[v][k] = tasks[v][k]
      BY <1>3, <1>4, <2>1, <2>2, <2>4
    <3>2. \/ tasks[v][k].title = Own
          \/ tasks[v][k].status = Status(tasks[v][k].title)
          \/ \E q \in Procs : run[q].pc = "status" /\ run[q].user = v /\ run[q].made = k
      BY <2>1, <2>2 DEF Inv, StatusInv, At
    <3> QED
      BY <1>1, <2>4, <3>1, <3>2 DEF Moves
  <2> QED
    BY <2>3, <2>4
<1>11. TypeOK'
  <2>1. \A v \in SeedUsers : tasks'[v] # tasks[v] => v \in accounts'
    BY <1>1, <1>2, <1>4
  <2> QED
    BY <1>1, <1>4, <2>1, TypeRest DEF Moves, TypeOK
<1>12. ~misled' => \A q \in Procs : q # p => run[q].pc = "idle"
  BY <1>1, OthersIdle
<1>13. LeavesAll' /\ AloneInv' /\ NoDuplicates'
  BY <1>1, <1>4, <1>9, <1>12, LeavesStep, AloneStep, NoNewTitle
<1> QED
  BY <1>1, <1>4, <1>7, <1>8, <1>10, <1>11, <1>13, RunsInv DEF Inv

LEMMA OwnInv ==
  ASSUME Inv, NEW u \in SeedUsers, OwnTask(u)
  PROVE  Inv'
<1> DEFINE x == [title |-> Own, status |-> "pending"]
<1>1. /\ TypeOK /\ u \in accounts /\ UNCHANGED <<run, accounts, complete, misled, runs, faults>>
      /\ Adds(u, x) /\ AloneInv /\ StatusInv
  BY DEF OwnTask, Adds, Inv
<1>2. x \in Task /\ x.title = Own
  BY SeedAssumption DEF Task, Statuses, Own
<1> HIDE DEF x
<1>3. /\ Kept
      /\ Titles(tasks'[u]) = Titles(tasks[u]) \cup {Own}
      /\ Len(tasks[u]) \in Nat /\ Len(tasks'[u]) = Len(tasks[u]) + 1
      /\ tasks'[u][Len(tasks[u]) + 1] = x
      /\ \A k \in 1..Len(tasks[u]) : tasks'[u][k] = tasks[u][k]
      /\ \A v \in SeedUsers : v # u => tasks'[v] = tasks[v]
  BY <1>1, <1>2, AddStep
<1>4. (\A q \in Procs : PlaceInv(q) /\ CleanInv(q))'
  BY <1>1, <1>3, Stable DEF Inv
<1>5. AloneInv'
  <2>1. ASSUME ~misled, NEW q \in Procs PROVE Knows(q)'
    <3>1. Knows(q) /\ run[q].user \in SeedUsers /\ Through(q)' = Through(q)
      BY <1>1, <2>1 DEF AloneInv, TypeOK, RunState, Through, At
    <3>2. Titles(tasks'[run[q].user]) \subseteq Titles(tasks[run[q].user]) \cup {Own}
      BY <1>3, <3>1
    <3> QED
      BY <1>1, <3>1, <3>2 DEF Knows, Tasks
  <2> QED
    BY <1>1, <2>1 DEF AloneInv, At
<1>6. NoDuplicates'
  BY <1>1, <1>2, NewTitle
<1>7. StatusInv'
  <2> SUFFICES ASSUME faults = 0, NEW v \in SeedUsers, NEW k \in DOMAIN tasks'[v]
               PROVE  \/ tasks'[v][k].title = Own
                      \/ tasks'[v][k].status = Status(tasks'[v][k].title)
                      \/ \E q \in Procs : run[q].pc = "status" /\ run[q].user = v /\ run[q].made = k
    BY <1>1 DEF StatusInv, At
  <2>1. ASSUME k \in DOMAIN tasks[v], tasks'[v][k] = tasks[v][k]
        PROVE  \/ tasks'[v][k].title = Own
               \/ tasks'[v][k].status = Status(tasks'[v][k].title)
               \/ \E q \in Procs : run[q].pc = "status" /\ run[q].user = v /\ run[q].made = k
    BY <1>1, <2>1 DEF StatusInv, At
  <2>2. CASE v # u
    BY <1>3, <2>1, <2>2
  <2>3. CASE v = u
    <3>1. DOMAIN tasks'[u] = 1..Len(tasks'[u]) /\ DOMAIN tasks[u] = 1..Len(tasks[u])
      BY <1>1, <1>3 DEF Kept, TypeOK
    <3>2. k \in 1..Len(tasks[u]) \/ k = Len(tasks[u]) + 1
      BY <1>3, <2>3, <3>1
    <3> QED
      BY <1>2, <1>3, <2>1, <2>3, <3>1, <3>2
  <2> QED
    BY <2>2, <2>3
<1>8. TypeOK'
  <2>1. \A v \in SeedUsers : tasks'[v] # tasks[v] => v \in accounts'
    BY <1>1, <1>3
  <2> QED
    BY <1>1, <1>3, <2>1, TypeRest DEF TypeOK
<1>9. LeavesAll'
  BY <1>1, <1>3, LeavesStep
<1> QED
  BY <1>4, <1>5, <1>6, <1>7, <1>8, <1>9 DEF Inv

LEMMA InvStutter ==
  ASSUME Inv, UNCHANGED vars
  PROVE  Inv'
BY DEF Inv, vars, TypeOK, PlaceInv, CleanInv, LeavesAll, AloneInv, Knows, NoDuplicates, StatusInv,
       Through, Current, Tasks, At, Windowed

LEMMA InvNext == Inv /\ [Next]_vars => Inv'
<1> SUFFICES ASSUME Inv, [Next]_vars PROVE Inv'
  OBVIOUS
<1>1. CASE UNCHANGED vars
  BY <1>1, InvStutter
<1>2. ASSUME NEW p \in Procs, Start(p) PROVE Inv'
  BY <1>2, StartInv
<1>3. ASSUME NEW p \in Procs, getOrCreateUser(p) PROVE Inv'
  BY <1>3, UserInv
<1>4. ASSUME NEW p \in Procs, List(p) PROVE Inv'
  BY <1>4, ListInv
<1>5. ASSUME NEW p \in Procs, SkipTask(p) PROVE Inv'
  BY <1>5, SkipInv
<1>6. ASSUME NEW p \in Procs, CreateTask(p) PROVE Inv'
  BY <1>6, CreateInv
<1>7. ASSUME NEW p \in Procs, SetStatus(p) PROVE Inv'
  BY <1>7, SetInv
<1>8. ASSUME NEW p \in Procs, NextUser(p) PROVE Inv'
  BY <1>8, NextUserInv
<1>9. ASSUME NEW p \in Procs, Interrupt(p) PROVE Inv'
  BY <1>9, InterruptInv
<1>10. ASSUME NEW u \in SeedUsers, OwnTask(u) PROVE Inv'
  BY <1>10, OwnInv
<1>11. CASE Over
  BY <1>1, <1>11 DEF Over
<1> QED
  BY <1>1, <1>2, <1>3, <1>4, <1>5, <1>6, <1>7, <1>8, <1>9, <1>10, <1>11 DEF Next

LEMMA InvAlways == Spec => []Inv
<1> QED
  BY InvInit, InvNext, PTL DEF Spec

----------------------------------------------------------------------------
(* Theorems *)

\* The variables have their types whatever runs, fails or is interrupted; in
\* particular a run creates tasks only for a user that has an account.
THEOREM TypeCorrect == Spec => []TypeOK
<1>1. Inv => TypeOK
  BY DEF Inv
<1> QED
  BY <1>1, InvAlways, PTL

\* Runs that follow each other, each shown the templates that were there, never
\* create a template that the user has: not after failed creates that stored
\* their task, failed updates, or an interrupt anywhere.
THEOREM TemplatesAreNotDuplicated == Spec => []NoDuplicates
<1>1. Inv => NoDuplicates
  BY DEF Inv
<1> QED
  BY <1>1, InvAlways, PTL

\* Once a run has come to its end without a failure, every user has the whole
\* window, from then on.
THEOREM NothingIsLeftOut == Spec => []LeavesAll
<1>1. Inv => LeavesAll
  BY DEF Inv
<1> QED
  BY <1>1, InvAlways, PTL

\* Where nothing failed and no run is under way, every template has the status
\* of the table: an update always meets the task its run created.
THEOREM StatusesAreSet == Spec => []StatusesSeeded
<1>1. Inv => StatusesSeeded
  BY DEF Inv, StatusInv, StatusesSeeded, At
<1> QED
  BY <1>1, InvAlways, PTL
=============================================================================
