------------------------------ MODULE Startup ------------------------------
(***************************************************************************)
(* The start of a process: cmd/api/main.go up to the listener, with        *)
(* tracing.Init, database.Connect (a bounded number of pings) and          *)
(* database.Migrate (every file, in the order of their names, each         *)
(* executed as one statement list in an implicit transaction).  Any        *)
(* failure is os.Exit(1), and the orchestrator starts the process again.   *)
(* Several replicas start at once against one database.                    *)
(*                                                                         *)
(* PostgreSQL is external: CREATE TABLE IF NOT EXISTS looks for the table, *)
(* and when another transaction creates it in between, the insert into the *)
(* catalog waits for that one and then fails.                              *)
(***************************************************************************)
EXTENDS Naturals

CONSTANTS
  Replicas,
  N,            \* the number of migration files
  MaxAttempts,  \* pings of one Connect
  MaxFaults     \* failures, crashes and signals in one behaviour (bound)

ASSUME StartupAssumption ==
  N \in Nat \ {0} /\ MaxAttempts \in Nat \ {0} /\ MaxFaults \in Nat

VARIABLES
  pc,       \* [Replicas -> boot, connect, migrate, exec, serving, exited]
  attempt,  \* [Replicas -> the ping it is at]
  pos,      \* [Replicas -> position in the list of files it is at]
  found,    \* [Replicas -> its statement found the tables of the file]
  schema,   \* files whose tables are in the database
  faults    \* faults so far

startupVars == <<pc, attempt, pos, found, schema, faults>>

Files == 1..N

StartupInit ==
  /\ pc = [r \in Replicas |-> "boot"]
  /\ attempt = [r \in Replicas |-> 1]
  /\ pos = [r \in Replicas |-> 1]
  /\ found = [r \in Replicas |-> FALSE]
  /\ schema = {} /\ faults = 0

Goto(r, l) == pc' = [pc EXCEPT ![r] = l]

Fault == faults < MaxFaults /\ faults' = faults + 1

----------------------------------------------------------------------------
\* The tracer's resource or exporter cannot be built, or the configuration is
\* refused.
InitFails(r) == Goto(r, "exited") /\ Fault

\* Configuration, logger and tracer.
Boot(r) ==
  /\ pc[r] = "boot"
  /\ \/ Goto(r, "connect") /\ UNCHANGED faults
     \/ InitFails(r)
  /\ attempt' = [attempt EXCEPT ![r] = 1]
  /\ UNCHANGED <<pos, found, schema>>

\* Mutant: one ping too many.
RetryOnceMore(r) == attempt[r] <= MaxAttempts

Retry(r) == attempt[r] < MaxAttempts

Connect(r) ==
  /\ pc[r] = "connect"
  /\ \/ Goto(r, "migrate") /\ UNCHANGED <<attempt, faults>>
     \/ /\ Fault
        /\ IF Retry(r)
           THEN attempt' = [attempt EXCEPT ![r] = @ + 1] /\ UNCHANGED pc
           ELSE Goto(r, "exited") /\ UNCHANGED attempt
  /\ pos' = [pos EXCEPT ![r] = 1]
  /\ UNCHANGED <<found, schema>>

\* Mutant: the files in the reverse order.
Reversed(i) == N + 1 - i

\* sort.Strings(names): the files in the order of their numbers.
File(i) == i

\* Mutant: CREATE TABLE without IF NOT EXISTS.
ExistsNever(f) == FALSE

\* IF NOT EXISTS.
Exists(f) == f \in schema

\* The statement begins and looks for the tables.
BeginExec(r) ==
  /\ pc[r] = "migrate" /\ pos[r] <= N
  /\ found' = [found EXCEPT ![r] = Exists(File(pos[r]))]
  /\ Goto(r, "exec")
  /\ UNCHANGED <<attempt, pos, schema, faults>>

OnError(r) == Goto(r, "exited") /\ UNCHANGED pos

\* It skips tables it found, creates the others, or finds them created since.
EndExec(r) ==
  /\ pc[r] = "exec"
  /\ LET f == File(pos[r]) IN
     \/ /\ found[r] \/ f \notin schema
        /\ schema' = schema \cup {f}
        /\ pos' = [pos EXCEPT ![r] = @ + 1]
        /\ Goto(r, "migrate")
     \/ /\ ~found[r] /\ f \in schema
        /\ OnError(r)
        /\ UNCHANGED schema
  /\ UNCHANGED <<attempt, found, faults>>

\* The connection breaks or the signal cancels the statement, before or after
\* its commit.
FailExec(r) ==
  /\ pc[r] = "exec"
  /\ Fault
  /\ OnError(r)
  /\ \/ UNCHANGED schema
     \/ ~found[r] /\ File(pos[r]) \notin schema /\ schema' = schema \cup {File(pos[r])}
  /\ UNCHANGED <<attempt, found>>

\* Mutant: the loop ends before the last file.
AllButLast(r) == pos[r] >= N

Migrated(r) == pos[r] > N

\* The repositories, services and the router are built and the server listens,
\* or its port is taken.
Serve(r) ==
  /\ pc[r] = "migrate" /\ Migrated(r)
  /\ \/ Goto(r, "serving") /\ UNCHANGED faults
     \/ Goto(r, "exited") /\ Fault
  /\ UNCHANGED <<attempt, pos, found, schema>>

\* A signal between two calls, or a crash.
Stop(r) ==
  /\ pc[r] \in {"connect", "migrate", "serving"}
  /\ Fault
  /\ Goto(r, "exited")
  /\ UNCHANGED <<attempt, pos, found, schema>>

Restart(r) ==
  /\ pc[r] = "exited"
  /\ Goto(r, "boot")
  /\ UNCHANGED <<attempt, pos, found, schema, faults>>

Progress(r) == Boot(r) \/ Connect(r) \/ BeginExec(r) \/ EndExec(r) \/ Serve(r)

\* All replicas serve and nothing happens to them any more.
Settled == (\A r \in Replicas : pc[r] = "serving") /\ UNCHANGED startupVars

StartupNext ==
  \/ \E r \in Replicas : Progress(r) \/ FailExec(r) \/ Stop(r) \/ Restart(r)
  \/ Settled

\* A replica that runs makes progress, and one that exited is started again.
StartupFairness == \A r \in Replicas : WF_startupVars(Progress(r)) /\ WF_startupVars(Restart(r))

StartupSpec == StartupInit /\ [][StartupNext]_startupVars /\ StartupFairness

----------------------------------------------------------------------------
(* Properties *)

\* The variables have their types.
StartupTypeOK ==
  /\ pc \in [Replicas -> {"boot", "connect", "migrate", "exec", "serving", "exited"}]
  /\ attempt \in [Replicas -> 1..MaxAttempts]
  /\ pos \in [Replicas -> 1..(N + 1)]
  /\ found \in [Replicas -> BOOLEAN]
  /\ schema \subseteq Files /\ faults \in Nat

\* A replica that serves has all tables, whatever failed on the way and
\* whoever created them.
ServingHasSchema == \A r \in Replicas : pc[r] = "serving" => schema = Files

\* Migrations are applied in order, across replicas, failures and restarts: a
\* file's tables are never there without those of the files before it, which
\* they refer to.
AppliedInOrder == \A f \in schema : 1..f \subseteq schema

\* When the faults end every replica comes to serve, for good.
EveryReplicaServes == \A r \in Replicas : <>[](pc[r] = "serving")
=============================================================================
