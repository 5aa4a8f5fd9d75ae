---------------------------- MODULE HttpPipeline ----------------------------
(***************************************************************************)
(* The way of a request through the middlewares of router.go:              *)
(* RequestID > Logging > Recover > Metrics > SecurityHeaders > root mux,   *)
(* and below /api/v1/ CORS > MaxBodyBytes > rate limit > Timeout > api     *)
(* mux > Auth > handler.                                                   *)
(*                                                                         *)
(* http.TimeoutHandler runs the handler in a goroutine of its own against  *)
(* a buffer, so a request has two threads: the server's (pc) and the       *)
(* handler's (hnd), which may outlive the answer.  A panic of the handler  *)
(* is raised again on the server's thread, if that still listens.  Time is *)
(* counted per request from the moment its header was read.                *)
(***************************************************************************)
EXTENDS Naturals, Sequences

CONSTANTS
  Requests,
  RequestTimeout,  \* REQUEST_TIMEOUT, counted from the entry of Timeout
  WriteTimeout,    \* http.Server.WriteTimeout: later writes are lost
  LimiterDelay,    \* the longest the rate limiter takes to decide
  OpsDelay         \* the longest an operational endpoint takes

ASSUME PipelineAssumption ==
  /\ RequestTimeout \in Nat /\ WriteTimeout \in Nat
  /\ LimiterDelay \in Nat /\ OpsDelay \in Nat

VARIABLES
  pc,        \* [Requests -> where the server's thread is]
  hnd,       \* [Requests -> where the handler's thread is]
  route,     \* [Requests -> what the request is for]
  age,       \* [Requests -> time since its header was read]
  began,     \* [Requests -> age at which Timeout was entered]
  gone,      \* requests whose client has closed the connection
  buffer,    \* [Requests -> status in the timeout handler's buffer, 0 if none]
  recLog,    \* [Requests -> status in the recorder of Logging]
  recMet,    \* [Requests -> status in the recorder of Metrics]
  sent,      \* [Requests -> status of the first header written, 0 if none]
  got,       \* [Requests -> status that reached the client, 0 if none]
  lines,     \* [Requests -> the access log lines: sequence of statuses]
  counts,    \* [Requests -> what it added to http_requests_total]
  recovered  \* requests whose panic Recover has caught and reported

vars == <<pc, hnd, route, age, began, gone, buffer, recLog, recMet, sent, got,
          lines, counts, recovered>>

\* Operational endpoints, public and protected API routes, a path below
\* /api/v1/ without a route, a preflight request, and any other path.
Routes == {"ops", "auth", "tasks", "lost", "preflight", "none"}
Api == {"auth", "tasks", "lost", "preflight"}

Init ==
  /\ pc = [r \in Requests |-> "idle"]
  /\ hnd = [r \in Requests |-> "none"]
  /\ route = [r \in Requests |-> "none"]
  /\ age = [r \in Requests |-> 0]
  /\ began = [r \in Requests |-> 0]
  /\ gone = {}
  /\ buffer = [r \in Requests |-> 0]
  /\ recLog = [r \in Requests |-> 200]
  /\ recMet = [r \in Requests |-> 200]
  /\ sent = [r \in Requests |-> 0]
  /\ got = [r \in Requests |-> 0]
  /\ lines = [r \in Requests |-> <<>>]
  /\ counts = [r \in Requests |-> <<>>]
  /\ recovered = {}

Goto(r, l) == pc' = [pc EXCEPT ![r] = l]

----------------------------------------------------------------------------
(* Writing to the connection *)

\* net/http sends the first header only, and nothing after WriteTimeout.
Send(r, s) ==
  /\ sent' = [sent EXCEPT ![r] = IF @ = 0 THEN s ELSE @]
  /\ got' = [got EXCEPT ![r] =
               IF sent[r] = 0 /\ r \notin gone /\ age[r] < WriteTimeout
               THEN s ELSE @]

\* A write from inside Metrics passes the recorders of Metrics and Logging.
Write(r, s) ==
  /\ recMet' = [recMet EXCEPT ![r] = s]
  /\ recLog' = [recLog EXCEPT ![r] = s]
  /\ Send(r, s)

NoWrite == UNCHANGED <<recMet, recLog, sent, got>>

----------------------------------------------------------------------------
(* The server's thread, inwards *)

\* RequestID tags the request; Logging and Metrics wrap the writer.
Arrive(r) ==
  /\ pc[r] = "idle"
  /\ \E p \in Routes : route' = [route EXCEPT ![r] = p]
  /\ Goto(r, "mux")
  /\ NoWrite
  /\ UNCHANGED <<hnd, age, began, gone, buffer, lines, counts, recovered>>

\* CORS answers a preflight request itself.
Preflight(r) == route[r] = "preflight" /\ Write(r, 204) /\ Goto(r, "metrics")

\* A path that is not clean is redirected to the clean one, whose pattern the
\* request is given.
Redirect(r) == Write(r, 307) /\ Goto(r, "metrics")

RootMux(r) ==
  /\ pc[r] = "mux"
  /\ \/ route[r] = "ops" /\ Goto(r, "ops") /\ NoWrite
     \/ route[r] = "none" /\ (\E s \in {404, 405} : Write(r, s)) /\ Goto(r, "metrics")
     \/ Redirect(r)
     \/ Preflight(r)
     \/ route[r] \in Api \ {"preflight"} /\ Goto(r, "limiter") /\ NoWrite
  /\ UNCHANGED <<hnd, route, age, began, gone, buffer, lines, counts, recovered>>

\* An operational endpoint writes straight to the connection, as the last thing
\* it does, or panics before; /readyz gives up after two seconds, and /metrics
\* answers 500 when it cannot gather.
Ops(r) ==
  /\ pc[r] = "ops"
  /\ \/ \E s \in {200, 500, 503} : Write(r, s) /\ Goto(r, "metrics")
     \/ Goto(r, "panic") /\ NoWrite
  /\ UNCHANGED <<hnd, route, age, began, gone, buffer, lines, counts, recovered>>

\* Behind the limiter Timeout starts the handler's thread and its timer.
Limit(r) ==
  /\ pc[r] = "limiter"
  /\ \/ /\ Write(r, 429) /\ Goto(r, "metrics")
        /\ UNCHANGED <<hnd, began>>
     \/ /\ NoWrite /\ Goto(r, "waiting")
        /\ hnd' = [hnd EXCEPT ![r] = "mux"]
        /\ began' = [began EXCEPT ![r] = age[r]]
  /\ UNCHANGED <<route, age, gone, buffer, lines, counts, recovered>>

----------------------------------------------------------------------------
(* The handler's thread *)

\* Writes go to the buffer, and are dropped once Timeout has answered.
IntoBuffer(r, s) ==
  /\ buffer' = [buffer EXCEPT ![r] = IF @ = 0 /\ pc[r] = "waiting" THEN s ELSE @]
  /\ NoWrite

\* Mutant: no buffer, the handler writes to the connection.
ToConnection(r, s) ==
  /\ buffer' = [buffer EXCEPT ![r] = s]
  /\ IF pc[r] = "waiting" THEN Write(r, s) ELSE NoWrite

HandlerWrite(r, s) == IntoBuffer(r, s)

\* The api mux, and Auth in front of the task routes, answer or pass on.
ApiMux(r) ==
  /\ hnd[r] = "mux"
  /\ \/ /\ route[r] = "lost" /\ \E s \in {404, 405} : HandlerWrite(r, s)
        /\ hnd' = [hnd EXCEPT ![r] = "returned"]
     \/ /\ route[r] = "tasks" /\ HandlerWrite(r, 401)
        /\ hnd' = [hnd EXCEPT ![r] = "returned"]
     \/ /\ route[r] # "lost"
        /\ hnd' = [hnd EXCEPT ![r] = "running"]
        /\ UNCHANGED buffer /\ NoWrite
  /\ UNCHANGED <<pc, route, age, began, gone, lines, counts, recovered>>

\* Reading a body beyond MAX_BODY_BYTES fails, and is answered like one that
\* does not decode.
RefuseBody(r) == HandlerWrite(r, 400)

\* A handler writes its answer, one status standing for those of its class.
Handle(r) ==
  /\ hnd[r] = "running"
  /\ RefuseBody(r) \/ \E s \in {200, 500} : HandlerWrite(r, s)
  /\ hnd' = [hnd EXCEPT ![r] = "written"]
  /\ UNCHANGED <<pc, route, age, began, gone, lines, counts, recovered>>

HandlerEnd(r) ==
  /\ \/ hnd[r] = "written" /\ hnd' = [hnd EXCEPT ![r] = "returned"]
     \/ hnd[r] \in {"running", "written"} /\ hnd' = [hnd EXCEPT ![r] = "panicked"]
  /\ NoWrite
  /\ UNCHANGED <<pc, route, age, began, gone, buffer, lines, counts, recovered>>

----------------------------------------------------------------------------
(* The server's thread, in the select of http.TimeoutHandler *)

\* Mutant: the timer fires one tick late.
DeadlineLate(r) == began[r] + RequestTimeout + 1

Deadline(r) == began[r] + RequestTimeout

Answer(r) ==
  /\ hnd[r] = "returned"
  /\ Write(r, IF buffer[r] = 0 THEN 200 ELSE buffer[r])
  /\ Goto(r, "metrics")

\* Mutant: a panic is taken for the end of the handler.
PanicAsReturn(r) ==
  /\ hnd[r] = "panicked"
  /\ Write(r, IF buffer[r] = 0 THEN 200 ELSE buffer[r])
  /\ Goto(r, "metrics")

Repanic(r) == hnd[r] = "panicked" /\ NoWrite /\ Goto(r, "panic")

\* Mutant: nothing watches the deadline.
NeverTimedOut(r) == FALSE /\ Write(r, 503) /\ Goto(r, "metrics")

TimedOut(r) == age[r] >= Deadline(r) /\ Write(r, 503) /\ Goto(r, "metrics")

\* The context ended because the client left: only the header is written.
Abandon(r) == r \in gone /\ Write(r, 503) /\ Goto(r, "metrics")

\* When several cases are ready any of them is taken.
Select(r) ==
  /\ pc[r] = "waiting"
  /\ Answer(r) \/ Repanic(r) \/ TimedOut(r) \/ Abandon(r)
  /\ UNCHANGED <<hnd, route, age, began, gone, buffer, lines, counts, recovered>>

----------------------------------------------------------------------------
(* The server's thread, outwards *)

\* Mutant: the path of the request.
PathLabel(r) == route[r]

\* The pattern of the outer mux: Timeout hands a copy of the request on, and
\* what the api mux sets there is not seen here.
Label(r) ==
  CASE route[r] = "none" -> "unmatched"
    [] route[r] \in Api  -> "/api/v1/"
    [] OTHER             -> route[r]

\* Metrics counts when the inner handler returns; a panic passes it by.
Count(r) ==
  /\ pc[r] = "metrics"
  /\ counts' = [counts EXCEPT ![r] = Append(@, <<Label(r), recMet[r]>>)]
  /\ Goto(r, "logging")
  /\ NoWrite
  /\ UNCHANGED <<hnd, route, age, began, gone, buffer, lines, recovered>>

\* Mutant: Recover outside Logging.
OutsideLogging == "done"

\* Recover is inside Logging and outside Metrics.
AfterRecover == "logging"

Recover(r) ==
  /\ pc[r] = "panic"
  /\ recovered' = recovered \cup {r}
  /\ recLog' = [recLog EXCEPT ![r] = 500]
  /\ Send(r, 500)
  /\ Goto(r, AfterRecover)
  /\ UNCHANGED <<hnd, route, age, began, gone, buffer, recMet, lines, counts>>

Log(r) ==
  /\ pc[r] = "logging"
  /\ lines' = [lines EXCEPT ![r] = Append(@, recLog[r])]
  /\ Goto(r, "done")
  /\ NoWrite
  /\ UNCHANGED <<hnd, route, age, began, gone, buffer, counts, recovered>>

----------------------------------------------------------------------------
(* The environment *)

InFlight(r) == pc[r] \notin {"idle", "done"}

Leave(r) ==
  /\ InFlight(r) /\ r \notin gone
  /\ gone' = gone \cup {r}
  /\ NoWrite
  /\ UNCHANGED <<pc, hnd, route, age, began, buffer, lines, counts, recovered>>

\* Only the limiter, an operational endpoint and the wait for the handler take
\* time, and a timer that is due fires before time moves on.
MayWait(r) ==
  \/ pc[r] = "limiter" /\ age[r] < LimiterDelay
  \/ pc[r] = "ops"     /\ age[r] < OpsDelay
  \/ pc[r] = "waiting" /\ age[r] < Deadline(r)

Tick(r) ==
  /\ MayWait(r)
  /\ age' = [age EXCEPT ![r] = @ + 1]
  /\ NoWrite
  /\ UNCHANGED <<pc, hnd, route, began, gone, buffer, lines, counts, recovered>>

ServerStep(r) == RootMux(r) \/ Ops(r) \/ Limit(r) \/ Select(r) \/ Count(r) \/ Recover(r) \/ Log(r)
HandlerStep(r) == ApiMux(r) \/ Handle(r) \/ HandlerEnd(r)

\* All requests of the instance are over.
Finished == (\A r \in Requests : pc[r] = "done") /\ UNCHANGED vars

Next ==
  \/ \E r \in Requests : Arrive(r) \/ ServerStep(r) \/ HandlerStep(r) \/ Leave(r) \/ Tick(r)
  \/ Finished

\* Go runs the server's thread of every request, and time passes.  Nothing
\* is assumed of handlers: one may hang for ever.
Fairness == \A r \in Requests : WF_vars(ServerStep(r)) /\ WF_vars(Tick(r))

Spec == Init /\ [][Next]_vars /\ Fairness

----------------------------------------------------------------------------
(* Properties *)

Places == {"idle", "mux", "ops", "limiter", "waiting", "panic", "metrics", "logging", "done"}
HandlerPlaces == {"none", "mux", "running", "written", "returned", "panicked"}
Statuses == {200, 204, 307, 400, 401, 404, 405, 429, 500, 503}

\* The variables have their types.
TypeOK ==
  /\ pc \in [Requests -> Places]
  /\ hnd \in [Requests -> HandlerPlaces]
  /\ route \in [Requests -> Routes]
  /\ age \in [Requests -> Nat] /\ began \in [Requests -> Nat]
  /\ gone \subseteq Requests /\ recovered \subseteq Requests
  /\ buffer \in [Requests -> Statuses \cup {0}]
  /\ recLog \in [Requests -> Statuses] /\ recMet \in [Requests -> Statuses]
  /\ sent \in [Requests -> Statuses \cup {0}] /\ got \in [Requests -> Statuses \cup {0}]
  /\ lines \in [Requests -> Seq(Statuses)]
  /\ counts \in [Requests -> Seq({"unmatched", "/api/v1/", "ops"} \X Statuses)]

\* "Every response is accounted for exactly once" (router.go), as far as it is
\* so: whether a request was answered, refused, timed out, abandoned or
\* panicked, when it is over it has exactly one access log line, and exactly
\* one count, with the status of that line.  The 500 of a panic that Recover
\* caught is the one response that no counter counts: Metrics is inside Recover
\* and counts after its inner handler has returned.
AccountedOnce ==
  \A r \in Requests : pc[r] = "done" =>
    /\ Len(lines[r]) = 1
    /\ Len(counts[r]) = IF r \in recovered THEN 0 ELSE 1
    /\ \A i \in DOMAIN counts[r] : counts[r][i][2] = lines[r][1]

\* What the access log and the counter say is what the client got: the first
\* header on the connection is never contradicted by a later one, neither by a
\* handler that ends after its timeout nor by a panic after a partial answer.
LogTellsAnswer ==
  \A r \in Requests : pc[r] = "done" /\ got[r] # 0 =>
    /\ lines[r] = <<got[r]>>
    /\ \A i \in DOMAIN counts[r] : counts[r][i][2] = got[r]

\* The timers leave room for the answer to a timeout.
AnswersInTime == LimiterDelay + RequestTimeout < WriteTimeout

\* "every /api/v1/* request is aborted after REQUEST_TIMEOUT if it hasn't
\* responded" (README): a client that still waits at the deadline is told so.
TimeoutAnswered ==
  \A r \in Requests : pc[r] = "done" /\ recMet[r] = 503 /\ route[r] # "ops" /\ r \notin gone
                        => got[r] = 503

\* Every request ends although its handler may hang for ever.
EveryRequestEnds == \A r \in Requests : pc[r] = "mux" ~> pc[r] = "done"

\* recover.go: a panic in the handler chain becomes a 500 response and a line
\* in the log.  A request whose handler panicked is never passed off as a
\* success: Recover saw the panic, or the request was already given up with a
\* 503 when its handler got that far.
PanicNotSwallowed ==
  \A r \in Requests : pc[r] = "done" /\ hnd[r] = "panicked" =>
    r \in recovered \/ lines[r] = <<503>>
=============================================================================
