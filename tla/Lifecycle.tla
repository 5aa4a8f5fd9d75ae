----------------------------- MODULE Lifecycle -----------------------------
(***************************************************************************)
(* The end of a process: cmd/api/main.go from the listener on, with        *)
(* the readiness probe of health_handler.go, the requests in flight and,   *)
(* external, a load balancer that probes /readyz and an orchestrator that  *)
(* kills a process which outlives its grace period.                        *)
(*                                                                         *)
(* Time is discrete.  A timer that is due acts before time moves on.       *)
(***************************************************************************)
EXTENDS Naturals

CONSTANTS
  Requests,
  DrainDelay,       \* SHUTDOWN_DRAIN_DELAY: from the signal to Shutdown
  Window,           \* the deadline of Shutdown: 10s
  FlushTime,        \* the deadline of the trace exporter's flush: 5s
  WriteTimeout,     \* of the server: an answer after it is lost
  RequestTimeout,   \* no request runs longer
  Period, Threshold,\* the load balancer's probe: its period, and the number of
                    \* failures in a row that take a replica out of rotation
  Graces            \* how long after the signal orchestrators kill a process

ASSUME LifecycleAssumption ==
  /\ DrainDelay \in Nat /\ Window \in Nat /\ FlushTime \in Nat
  /\ WriteTimeout \in Nat /\ RequestTimeout \in Nat /\ Graces \subseteq Nat
  /\ Period \in Nat \ {0} /\ Threshold \in Nat \ {0}

VARIABLES
  grace,       \* the grace period of this deployment
  phase,       \* serving, draining, shutdown, flushing, exited, failed, killed
  draining,    \* the flag /readyz reads
  timer,       \* what is left of the running delay or deadline
  since,       \* time since the signal
  flushed,     \* the shutdown function of the tracer was called
  probeIn,     \* time to the next probe
  fails,       \* failed probes in a row
  inRotation,  \* the load balancer sends requests here
  req,         \* [Requests -> idle, active, answered, late, refused, cut]
  age          \* [Requests -> time since the request was accepted]

process == <<phase, draining, timer, flushed>>
balancer == <<probeIn, fails, inRotation>>
vars == <<grace, phase, draining, timer, since, flushed,
          probeIn, fails, inRotation, req, age>>

Init ==
  /\ grace \in Graces
  /\ phase = "serving" /\ draining = FALSE /\ timer = 0 /\ since = 0 /\ flushed = FALSE
  /\ probeIn \in 0..Period /\ fails = 0 /\ inRotation = TRUE
  /\ req = [r \in Requests |-> "idle"]
  /\ age = [r \in Requests |-> 0]

Listening == phase \in {"serving", "draining"}
Running == phase \notin {"exited", "failed", "killed"}
Active == {r \in Requests : req[r] = "active"}

----------------------------------------------------------------------------
(* Requests *)

\* The load balancer routes a request here; without a listener its
\* connection is refused.
Route(r) ==
  /\ inRotation
  /\ req[r] \in {"idle", "answered", "late"}
  /\ req' = [req EXCEPT ![r] = IF Listening THEN "active" ELSE "refused"]
  /\ age' = [age EXCEPT ![r] = 0]
  /\ UNCHANGED <<grace, process, since, balancer>>

Respond(r) ==
  /\ req[r] = "active"
  /\ req' = [req EXCEPT ![r] = IF age[r] < WriteTimeout THEN "answered" ELSE "late"]
  /\ UNCHANGED <<grace, process, since, balancer, age>>

\* The connections of the process are gone with it.
Cut == req' = [r \in Requests |-> IF req[r] = "active" THEN "cut" ELSE req[r]]

----------------------------------------------------------------------------
(* The probe *)

\* Mutant: readiness is the database alone.
ReadyDatabase(dbUp) == dbUp

\* /readyz: draining comes first, then the database is pinged.
Ready(dbUp) == ~draining /\ dbUp

\* One success returns a replica to rotation.
Probe ==
  /\ probeIn = 0
  /\ probeIn' = Period
  /\ \E dbUp \in BOOLEAN :
       IF Listening /\ Ready(dbUp)
       THEN fails' = 0 /\ inRotation' = TRUE
       ELSE /\ fails' = IF fails < Threshold THEN fails + 1 ELSE fails
            /\ inRotation' = (inRotation /\ fails + 1 < Threshold)
  /\ UNCHANGED <<grace, process, since, req, age>>

----------------------------------------------------------------------------
(* The listener *)

\* ListenAndServe returns an error before Shutdown was called: its goroutine
\* ends the process with os.Exit(1), and no deferred call runs.
ListenFails ==
  /\ Listening
  /\ phase' = "failed" /\ Cut
  /\ UNCHANGED <<grace, draining, timer, since, flushed, balancer, age>>

----------------------------------------------------------------------------
(* The shutdown *)

Signal ==
  /\ phase = "serving"
  /\ phase' = "draining" /\ draining' = TRUE /\ timer' = DrainDelay
  /\ UNCHANGED <<grace, since, flushed, balancer, req, age>>

\* Mutant: Shutdown with a shorter deadline.
ShorterWindow == Window \div 2

ShutdownWindow == Window

\* Shutdown closes the listener first.
CloseListener ==
  /\ phase = "draining" /\ timer = 0
  /\ phase' = "shutdown" /\ timer' = ShutdownWindow
  /\ UNCHANGED <<grace, draining, since, flushed, balancer, req, age>>

\* No connection is active: Shutdown returns and main runs its deferred
\* calls: Redis and the database are closed, which takes no time here, and the
\* tracer is flushed.
Drained ==
  /\ phase = "shutdown" /\ Active = {}
  /\ phase' = "flushing" /\ timer' = FlushTime /\ flushed' = TRUE
  /\ UNCHANGED <<grace, draining, since, balancer, req, age>>

\* Mutant: Shutdown is given the context that the signal has cancelled.
AlreadyExpired == TRUE

\* Mutant: Shutdown has no deadline.
NoDeadline == FALSE

\* Shutdown looks for active connections now and then, so its deadline can
\* pass although the last one has just ended.
ShutdownExpired == timer = 0

\* os.Exit(1) runs no deferred call.
GiveUp ==
  /\ phase = "shutdown" /\ ShutdownExpired
  /\ phase' = "exited" /\ Cut
  /\ UNCHANGED <<grace, draining, timer, since, flushed, balancer, age>>

\* Mutant: the flush has no deadline.
FlushUnbounded == FALSE

FlushExpired == timer = 0

Exit ==
  /\ phase = "flushing"
  /\ phase' = "exited"
  /\ UNCHANGED <<grace, draining, timer, since, flushed, balancer, req, age>>

\* SIGKILL at the end of the grace period.
Kill ==
  /\ Running /\ draining /\ since >= grace
  /\ phase' = "killed" /\ Cut
  /\ UNCHANGED <<grace, draining, timer, since, flushed, balancer, age>>

----------------------------------------------------------------------------
Down(n) == IF n = 0 THEN 0 ELSE n - 1

\* Something has to happen now.
Due ==
  \/ probeIn = 0
  \/ phase = "draining" /\ timer = 0
  \/ phase = "shutdown" /\ ShutdownExpired
  \/ phase = "flushing" /\ FlushExpired
  \/ Running /\ draining /\ since >= grace
  \/ \E r \in Active : age[r] >= RequestTimeout

Tick ==
  /\ ~Due
  /\ timer' = Down(timer)
  /\ since' = IF Running /\ draining THEN since + 1 ELSE since
  /\ probeIn' = probeIn - 1
  /\ age' = [r \in Requests |-> IF req[r] = "active" THEN age[r] + 1 ELSE age[r]]
  /\ UNCHANGED <<grace, phase, draining, flushed, fails, inRotation, req>>

Next ==
  \/ \E r \in Requests : Route(r) \/ Respond(r)
  \/ Probe \/ ListenFails \/ Signal \/ CloseListener \/ Drained \/ GiveUp \/ Exit \/ Kill \/ Tick

\* The process runs, timers fire, requests end at their timeout and the load
\* balancer probes.  A collector need not answer: a flush ends by its deadline.
\* A listener need not fail.
Fairness ==
  /\ WF_vars(Tick) /\ WF_vars(Probe) /\ WF_vars(CloseListener)
  /\ WF_vars(Drained) /\ WF_vars(GiveUp) /\ WF_vars(FlushExpired /\ Exit) /\ WF_vars(Kill)
  /\ \A r \in Requests : WF_vars(Respond(r))

Spec == Init /\ [][Next]_vars /\ Fairness

----------------------------------------------------------------------------
(* Properties *)

\* The variables have their types.
TypeOK ==
  /\ phase \in {"serving", "draining", "shutdown", "flushing", "exited", "failed", "killed"}
  /\ draining \in BOOLEAN /\ flushed \in BOOLEAN /\ inRotation \in BOOLEAN
  /\ grace \in Nat /\ timer \in Nat /\ since \in Nat
  /\ probeIn \in 0..Period /\ fails \in 0..Threshold
  /\ req \in [Requests -> {"idle", "active", "answered", "late", "refused", "cut"}]
  /\ age \in [Requests -> Nat]

\* The load balancer notices within the drain delay, whatever the phase of its
\* probes, and the process lives that long.
NoticedInTime == Threshold * Period < DrainDelay /\ DrainDelay < grace

\* main.go: the load balancer stops sending traffic "before connections start
\* getting cut": where it can notice in time, no request meets a closed listener,
\* unless the listener failed by itself.
NoneRefused == NoticedInTime /\ phase # "failed" => \A r \in Requests : req[r] # "refused"

\* The phases of a shutdown fit into the orchestrator's grace period.
FitsGrace == DrainDelay + Window + FlushTime < grace

\* Where the phases fit the process ends by itself: it is never killed.
EndsWithinGrace == FitsGrace => phase # "killed"

\* main.go: a shutdown gives "in-flight requests a bounded window to finish".
\* A request the end of the process cuts off could not have been answered any
\* more, its write timeout had passed, if the window is as long as that and the
\* listener did not fail.
CutOnlyLate ==
  FitsGrace /\ WriteTimeout <= Window /\ phase # "failed" =>
    \A r \in Requests : req[r] = "cut" => age[r] >= WriteTimeout

\* tracing.go: the shutdown function "must be called before the process exits".
\* From the listener on main breaks this in two ways, and no others: requests
\* outlast the whole window of Shutdown, or the listener fails, which it can do
\* until the drain delay is over only.  (An exit during the start, of Startup,
\* skips the flush too.)
UnflushedExits ==
  /\ phase = "exited" /\ ~flushed => since >= DrainDelay + Window
  /\ phase = "failed" => ~flushed /\ since <= DrainDelay

\* Once the signal is there the process ends by itself.
ShutdownEnds == phase = "draining" /\ FitsGrace ~> phase \in {"exited", "failed"}
=============================================================================
