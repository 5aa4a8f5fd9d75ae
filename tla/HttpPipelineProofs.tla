------------------------- MODULE HttpPipelineProofs -------------------------
(***************************************************************************)
(* Proofs about HttpPipeline, for any number of requests and any timeouts. *)
(***************************************************************************)
EXTENDS HttpPipeline, TLAPS

----------------------------------------------------------------------------
(* The inductive invariant *)

Inward == {"idle", "mux", "ops", "limiter", "waiting", "panic"}

\* On the way in nothing was written, logged or counted.
Untouched(r) ==
  /\ sent[r] = 0 /\ got[r] = 0 /\ recMet[r] = 200 /\ recLog[r] = 200
  /\ lines[r] = <<>> /\ counts[r] = <<>> /\ r \notin recovered

\* On the way out the recorders hold what was sent, and each of Metrics and
\* Logging adds its entry once.
Recorded(r) ==
  /\ got[r] \in {0, recLog[r]}
  /\ r \notin recovered => recMet[r] = recLog[r]
  /\ r \in recovered => recMet[r] = 200 /\ pc[r] # "metrics"
  /\ counts[r] = IF pc[r] = "metrics" \/ r \in recovered THEN <<>>
                 ELSE <<<<Label(r), recMet[r]>>>>
  /\ lines[r] = IF pc[r] = "done" THEN <<recLog[r]>> ELSE <<>>

AccountInv(r) == IF pc[r] \in Inward THEN Untouched(r) ELSE Recorded(r)

\* Time: the deadline of a request lies before WriteTimeout.
TimeInv(r) ==
  /\ pc[r] \in {"idle", "mux"} => age[r] = 0
  /\ pc[r] = "limiter" => age[r] <= LimiterDelay
  /\ pc[r] = "waiting" => began[r] <= LimiterDelay /\ age[r] <= began[r] + RequestTimeout
  /\ pc[r] = "ops" => route[r] = "ops"

LateInv(r) ==
  pc[r] \notin Inward /\ recMet[r] = 503 /\ route[r] # "ops" /\ r \notin gone => got[r] = 503

Inv == TypeOK /\ \A r \in Requests : AccountInv(r) /\ TimeInv(r)

----------------------------------------------------------------------------
(* Types *)

Step(r) == Arrive(r) \/ ServerStep(r) \/ HandlerStep(r) \/ Leave(r) \/ Tick(r)

\* The parts of TypeOK by the kind of step that can change them.
Threads == pc \in [Requests -> Places] /\ hnd \in [Requests -> HandlerPlaces]

Written ==
  /\ recLog \in [Requests -> Statuses] /\ recMet \in [Requests -> Statuses]
  /\ sent \in [Requests -> Statuses \cup {0}] /\ got \in [Requests -> Statuses \cup {0}]

Buffered == buffer \in [Requests -> Statuses \cup {0}]

Rest ==
  /\ route \in [Requests -> Routes]
  /\ age \in [Requests -> Nat] /\ began \in [Requests -> Nat]
  /\ gone \subseteq Requests /\ recovered \subseteq Requests
  /\ lines \in [Requests -> Seq(Statuses)]
  /\ counts \in [Requests -> Seq({"unmatched", "/api/v1/", "ops"} \X Statuses)]

LEMMA WriteType ==
  ASSUME Written, NEW r \in Requests, (\E s \in Statuses : Write(r, s)) \/ NoWrite
  PROVE  Written'
<1>1. CASE NoWrite
  BY <1>1 DEF NoWrite, Written
<1>2. ASSUME NEW s \in Statuses, Write(r, s) PROVE Written'
  BY <1>2 DEF Write, Send, Written
<1> QED
  BY <1>1, <1>2

\* The places and statuses the steps name.
LEMMA Names ==
  /\ {200, 204, 307, 400, 401, 404, 405, 429, 500, 503} \subseteq Statuses
  /\ {"mux", "ops", "limiter", "waiting", "panic", "metrics", "logging", "done"} \subseteq Places
  /\ {"mux", "running", "written", "returned", "panicked"} \subseteq HandlerPlaces
BY DEF Statuses, Places, HandlerPlaces

LEMMA WrittenStep ==
  ASSUME TypeOK, NEW r \in Requests, Step(r)
  PROVE  Written'
<1>1. Written
  BY DEF TypeOK, Written
<1>2. CASE Arrive(r) \/ HandlerStep(r) \/ Leave(r) \/ Tick(r) \/ Count(r) \/ Log(r)
  <2>1. NoWrite
    BY <1>2 DEF Arrive, HandlerStep, ApiMux, Handle, HandlerEnd, RefuseBody, HandlerWrite, IntoBuffer, Leave,
       Tick, Count, Log
  <2> QED
    BY <1>1, <2>1, WriteType
<1>3. CASE RootMux(r) \/ Ops(r) \/ Limit(r)
  <2>1. (\E s \in Statuses : Write(r, s)) \/ NoWrite
    BY <1>3, Names DEF RootMux, Preflight, Redirect, Ops, Limit
  <2> QED
    BY <1>1, <2>1, WriteType
<1>4. CASE Select(r)
  <2>1. buffer[r] \in Statuses \cup {0}
    BY DEF TypeOK
  <2>2. (\E s \in Statuses : Write(r, s)) \/ NoWrite
    BY <1>4, <2>1, Names DEF Select, Answer, Repanic, TimedOut, Abandon
  <2> QED
    BY <1>1, <2>2, WriteType
<1>5. CASE Recover(r)
  <2>1. 500 \in Statuses
    BY Names
  <2>2. recMet' = recMet /\ recLog' = [recLog EXCEPT ![r] = 500] /\ Send(r, 500)
    BY <1>5 DEF Recover
  <2> QED
    BY <1>1, <2>1, <2>2 DEF Send, Written
<1> QED
  BY <1>2, <1>3, <1>4, <1>5 DEF Step, ServerStep

LEMMA ThreadsStep ==
  ASSUME TypeOK, NEW r \in Requests, Step(r)
  PROVE  Threads'
<1>1. Threads
  BY DEF TypeOK, Threads
<1>2. UNCHANGED pc \/ \E l \in Places : Goto(r, l)
  <2>1. CASE Arrive(r) \/ RootMux(r) \/ Ops(r) \/ Limit(r)
    BY <2>1, Names DEF Arrive, RootMux, Preflight, Redirect, Ops, Limit
  <2>2. CASE Select(r)
    BY <2>2, Names DEF Select, Answer, Repanic, TimedOut, Abandon
  <2>3. CASE Count(r) \/ Recover(r) \/ Log(r)
    BY <2>3, Names DEF Count, Recover, AfterRecover, Log
  <2>4. CASE HandlerStep(r) \/ Leave(r) \/ Tick(r)
    BY <2>4 DEF HandlerStep, ApiMux, Handle, HandlerEnd, Leave, Tick
  <2> QED
    BY <2>1, <2>2, <2>3, <2>4 DEF Step, ServerStep
<1>3. UNCHANGED hnd \/ \E l \in HandlerPlaces : hnd' = [hnd EXCEPT ![r] = l]
  <2>1. CASE Limit(r)
    BY <2>1, Names DEF Limit
  <2>2. CASE HandlerStep(r)
    BY <2>2, Names DEF HandlerStep, ApiMux, Handle, HandlerEnd
  <2>3. CASE ~Limit(r) /\ ~HandlerStep(r)
    BY <2>3 DEF Step, Arrive, ServerStep, RootMux, Ops, Select, Count, Recover, Log, Leave, Tick
  <2> QED
    BY <2>1, <2>2, <2>3
<1> QED
  BY <1>1, <1>2, <1>3 DEF Threads, Goto

LEMMA BufferedStep ==
  ASSUME TypeOK, NEW r \in Requests, Step(r)
  PROVE  Buffered'
<1>1. Buffered
  BY DEF TypeOK, Buffered
<1>2. CASE HandlerStep(r)
  <2>1. UNCHANGED buffer \/ \E s \in Statuses : IntoBuffer(r, s)
    BY <1>2, Names DEF HandlerStep, ApiMux, Handle, HandlerEnd, RefuseBody, HandlerWrite
  <2> QED
    BY <1>1, <2>1 DEF IntoBuffer, Buffered
<1>3. CASE ~HandlerStep(r)
  <2>1. UNCHANGED buffer
    BY <1>3 DEF Step, Arrive, ServerStep, RootMux, Ops, Limit, Select, Count, Recover, Log, Leave, Tick
  <2> QED
    BY <1>1, <2>1 DEF Buffered
<1> QED
  BY <1>2, <1>3

LEMMA RestStep ==
  ASSUME TypeOK, NEW r \in Requests, Step(r)
  PROVE  Rest'
<1>1. Rest /\ recLog[r] \in Statuses /\ recMet[r] \in Statuses /\ route[r] \in Routes
  BY DEF TypeOK, Rest
<1>2. CASE Arrive(r) \/ RootMux(r) \/ Ops(r) \/ Limit(r) \/ Select(r)
  BY <1>1, <1>2 DEF Arrive, RootMux, Ops, Limit, Select, Rest
<1>3. CASE Count(r)
  <2>1. <<Label(r), recMet[r]>> \in {"unmatched", "/api/v1/", "ops"} \X Statuses
    BY <1>1 DEF Label, Routes, Api
  <2> QED
    BY <1>1, <1>3, <2>1 DEF Count, Rest
<1>4. CASE Recover(r) \/ Leave(r)
  BY <1>1, <1>4 DEF Recover, Leave, Rest
<1>7. CASE Tick(r)
  <2>1. age' \in [Requests -> Nat]
    BY <1>1, <1>7 DEF Tick, Rest
  <2> QED
    BY <1>1, <1>7, <2>1 DEF Tick, Rest
<1>6. CASE Log(r)
  BY <1>1, <1>6 DEF Log, Rest
<1>5. CASE HandlerStep(r)
  BY <1>1, <1>5 DEF HandlerStep, ApiMux, Handle, HandlerEnd, Rest
<1> QED
  BY <1>2, <1>3, <1>4, <1>5, <1>6, <1>7 DEF Step, ServerStep

LEMMA TypeStep == TypeOK /\ [Next]_vars => TypeOK'
<1> SUFFICES ASSUME TypeOK, [Next]_vars PROVE TypeOK'
  OBVIOUS
<1>1. CASE UNCHANGED vars
  BY <1>1 DEF vars, TypeOK
<1>2. CASE ~UNCHANGED vars
  <2>1. PICK r \in Requests : Step(r)
    BY <1>2 DEF Next, Step, Finished
  <2>2. Threads' /\ Written' /\ Buffered' /\ Rest'
    BY <2>1, ThreadsStep, WrittenStep, BufferedStep, RestStep
  <2> QED
    BY <2>2 DEF TypeOK, Threads, Written, Buffered, Rest
<1> QED
  BY <1>1, <1>2

LEMMA InvInit == Init => Inv
<1> SUFFICES ASSUME Init PROVE Inv
  OBVIOUS
<1>1. TypeOK
  BY DEF Init, TypeOK, Routes, Statuses, Places, HandlerPlaces
<1> QED
  BY <1>1, PipelineAssumption DEF Init, Inv, AccountInv, Inward, Untouched, TimeInv

----------------------------------------------------------------------------
(* A step concerns one request *)

\* What the invariant of a request depends on.
Kept(q) ==
  /\ pc'[q] = pc[q] /\ hnd'[q] = hnd[q] /\ age'[q] = age[q] /\ began'[q] = began[q] /\ route'[q] = route[q]
  /\ recLog'[q] = recLog[q] /\ recMet'[q] = recMet[q] /\ sent'[q] = sent[q] /\ got'[q] = got[q]
  /\ lines'[q] = lines[q] /\ counts'[q] = counts[q]
  /\ (q \in recovered') = (q \in recovered) /\ (q \in gone => q \in gone')

LEMMA OthersKept ==
  ASSUME TypeOK, NEW r \in Requests, Step(r), NEW q \in Requests, q # r
  PROVE  Kept(q)
<1> USE DEF TypeOK, NoWrite, Goto, Write, Send, Kept
<1>1. CASE Arrive(r) \/ RootMux(r) \/ Ops(r) \/ Limit(r)
  BY <1>1 DEF Arrive, RootMux, Preflight, Redirect, Ops, Limit
<1>2. CASE Select(r)
  BY <1>2 DEF Select, Answer, Repanic, TimedOut, Abandon
<1>3. CASE Count(r) \/ Recover(r) \/ Log(r) \/ Leave(r) \/ Tick(r)
  BY <1>3 DEF Count, Recover, Log, Leave, Tick
<1>4. CASE HandlerStep(r)
  BY <1>4 DEF HandlerStep, ApiMux, Handle, HandlerEnd, RefuseBody, HandlerWrite, IntoBuffer
<1> QED
  BY <1>1, <1>2, <1>3, <1>4 DEF Step, ServerStep

LEMMA KeptInv ==
  ASSUME NEW q \in Requests, Kept(q)
  PROVE  /\ AccountInv(q) => AccountInv(q)'
         /\ TimeInv(q) => TimeInv(q)'
         /\ LateInv(q) => LateInv(q)'
<1>1. Label(q)' = Label(q)
  BY DEF Kept, Label
<1>2. AccountInv(q) => AccountInv(q)'
  BY <1>1 DEF Kept, AccountInv, Untouched, Recorded
<1> QED
  BY <1>2 DEF Kept, TimeInv, LateInv

\* The first write of a request.
LEMMA FirstWrite ==
  ASSUME Inv, NEW r \in Requests, pc[r] \in Inward, NEW s \in Statuses, Write(r, s),
         Goto(r, "metrics"), UNCHANGED <<route, age, gone, lines, counts, recovered>>
  PROVE  /\ AccountInv(r)'
         /\ TimeInv(r)'
         /\ recMet'[r] = s
         /\ got'[r] = IF r \notin gone /\ age[r] < WriteTimeout THEN s ELSE 0
<1>1. /\ Untouched(r)
      /\ pc'[r] = "metrics" /\ recMet'[r] = s /\ recLog'[r] = s
      /\ got'[r] = IF r \notin gone /\ age[r] < WriteTimeout THEN s ELSE 0
      /\ lines'[r] = <<>> /\ counts'[r] = <<>> /\ r \notin recovered'
  BY DEF Inv, TypeOK, AccountInv, Untouched, Write, Send, Goto
<1>2. Recorded(r)'
  BY <1>1 DEF Recorded
<1> QED
  BY <1>1, <1>2 DEF AccountInv, Inward, TimeInv

\* A step that writes nothing and stays on the way in.
LEMMA StillInward ==
  ASSUME Inv, NEW r \in Requests, pc[r] \in Inward, NoWrite, pc'[r] \in Inward,
         UNCHANGED <<lines, counts, recovered>>
  PROVE  AccountInv(r)'
BY DEF Inv, AccountInv, Untouched, NoWrite

LEMMA AccountStep ==
  ASSUME Inv, NEW r \in Requests, Step(r)
  PROVE  AccountInv(r)'
<1>1. {200, 204, 307, 400, 401, 404, 405, 429, 500, 503} \subseteq Statuses
  BY DEF Statuses
<1> USE DEF Inv
<1>2. CASE Arrive(r)
  BY <1>2, StillInward DEF Arrive, Goto, Inward, TypeOK
<1>3. CASE RootMux(r)
  <2>1. CASE NoWrite /\ (Goto(r, "ops") \/ Goto(r, "limiter"))
    BY <1>3, <2>1, StillInward DEF RootMux, Goto, Inward, TypeOK
  <2>2. CASE \E s \in Statuses : Write(r, s) /\ Goto(r, "metrics")
    BY <1>3, <2>2, FirstWrite DEF RootMux, Inward
  <2> QED
    BY <1>1, <1>3, <2>1, <2>2 DEF RootMux, Preflight, Redirect
<1>4. CASE Ops(r)
  <2>1. CASE NoWrite /\ Goto(r, "panic")
    BY <1>4, <2>1, StillInward DEF Ops, Goto, Inward, TypeOK
  <2>2. CASE \E s \in Statuses : Write(r, s) /\ Goto(r, "metrics")
    BY <1>4, <2>2, FirstWrite DEF Ops, Inward
  <2> QED
    BY <1>1, <1>4, <2>1, <2>2 DEF Ops
<1>5. CASE Limit(r)
  <2>1. CASE NoWrite /\ Goto(r, "waiting")
    BY <1>5, <2>1, StillInward DEF Limit, Goto, Inward, TypeOK
  <2>2. CASE \E s \in Statuses : Write(r, s) /\ Goto(r, "metrics")
    BY <1>5, <2>2, FirstWrite DEF Limit, Inward
  <2> QED
    BY <1>1, <1>5, <2>1, <2>2 DEF Limit
<1>6. CASE Select(r)
  <2>1. CASE Repanic(r)
    BY <1>6, <2>1, StillInward DEF Select, Repanic, Goto, Inward, TypeOK
  <2>2. CASE \E s \in Statuses : Write(r, s) /\ Goto(r, "metrics")
    BY <1>6, <2>2, FirstWrite DEF Select, Inward
  <2>3. Answer(r) => \E s \in Statuses : Write(r, s) /\ Goto(r, "metrics")
    BY <1>1 DEF Answer, TypeOK
  <2> QED
    BY <1>1, <1>6, <2>1, <2>2, <2>3 DEF Select, TimedOut, Abandon
<1>7. CASE Count(r)
  <2>1. Recorded(r) /\ pc[r] = "metrics" /\ pc'[r] = "logging" /\ r \notin recovered
    BY <1>7 DEF Count, Goto, AccountInv, Inward, TypeOK, Recorded
  <2>2. counts'[r] = <<<<Label(r), recMet[r]>>>>
    BY <1>7, <2>1 DEF Count, Recorded, TypeOK
  <2>3. Label(r)' = Label(r)
    BY <1>7 DEF Count, Label
  <2> QED
    BY <1>7, <2>1, <2>2, <2>3 DEF Count, AccountInv, Inward, Recorded, NoWrite
<1>8. CASE Recover(r)
  <2>1. Untouched(r) /\ pc'[r] = "logging" /\ recLog'[r] = 500 /\ r \in recovered'
        /\ got'[r] \in {0, 500}
    BY <1>8 DEF Recover, Send, Goto, AfterRecover, AccountInv, Inward, TypeOK, Untouched
  <2> QED
    BY <1>8, <2>1 DEF Recover, AccountInv, Inward, Untouched, Recorded
<1>9. CASE Log(r)
  <2>1. Recorded(r) /\ pc[r] = "logging" /\ pc'[r] = "done"
    BY <1>9 DEF Log, Goto, AccountInv, Inward, TypeOK
  <2>3. lines'[r] = <<recLog[r]>>
    BY <1>9, <2>1 DEF Log, Recorded, TypeOK
  <2>2. Label(r)' = Label(r)
    BY <1>9 DEF Log, Label
  <2> QED
    BY <1>9, <2>1, <2>2, <2>3 DEF Log, AccountInv, Inward, Recorded, NoWrite
<1>10. CASE HandlerStep(r) \/ Leave(r) \/ Tick(r)
  <2>1. /\ UNCHANGED <<pc, route, recLog, recMet, sent, got, lines, counts, recovered>>
    BY <1>10 DEF HandlerStep, ApiMux, Handle, HandlerEnd, RefuseBody, HandlerWrite, IntoBuffer, Leave, Tick, NoWrite
  <2>2. Label(r)' = Label(r)
    BY <2>1 DEF Label
  <2> QED
    BY <2>1, <2>2 DEF AccountInv, Untouched, Recorded
<1> QED
  BY <1>2, <1>3, <1>4, <1>5, <1>6, <1>7, <1>8, <1>9, <1>10 DEF Step, ServerStep

LEMMA TimeStep ==
  ASSUME Inv, NEW r \in Requests, Step(r)
  PROVE  TimeInv(r)'
<1> USE PipelineAssumption DEF Inv, TypeOK, TimeInv, Goto
<1>1. CASE Arrive(r) \/ RootMux(r) \/ Ops(r) \/ Limit(r)
  BY <1>1 DEF Arrive, RootMux, Preflight, Redirect, Ops, Limit, Api, Routes
<1>2. CASE Select(r)
  BY <1>2 DEF Select, Answer, Repanic, TimedOut, Abandon
<1>3. CASE Count(r) \/ Recover(r) \/ Log(r) \/ Leave(r) \/ Tick(r)
  BY <1>3 DEF Count, Recover, AfterRecover, Log, Leave, Tick, MayWait, Deadline
<1>4. CASE HandlerStep(r)
  BY <1>4 DEF HandlerStep, ApiMux, Handle, HandlerEnd
<1> QED
  BY <1>1, <1>2, <1>3, <1>4 DEF Step, ServerStep

LEMMA InvStep == Inv /\ [Next]_vars => Inv'
<1> SUFFICES ASSUME Inv, [Next]_vars PROVE Inv'
  OBVIOUS
<1>1. TypeOK'
  BY TypeStep DEF Inv
<1>2. ASSUME NEW r \in Requests, Step(r), NEW q \in Requests
      PROVE  AccountInv(q)' /\ TimeInv(q)'
  <2>1. CASE q = r
    BY <1>2, <2>1, AccountStep, TimeStep
  <2>2. CASE q # r
    BY <1>2, <2>2, OthersKept, KeptInv DEF Inv
  <2> QED
    BY <2>1, <2>2
<1>3. CASE UNCHANGED vars
  <2>1. ASSUME NEW q \in Requests PROVE Kept(q)
    BY <1>3 DEF vars, Kept
  <2> QED
    BY <1>1, <2>1, KeptInv DEF Inv
<1> QED
  BY <1>1, <1>2, <1>3 DEF Inv, Next, Step, Finished

----------------------------------------------------------------------------
(* Theorems *)

\* Every reachable state of the pipeline has its types.
THEOREM TypeCorrect == Spec => []TypeOK
<1>1. Inv => TypeOK
  BY DEF Inv
<1> QED
  BY InvInit, InvStep, <1>1, PTL DEF Spec

\* Logging adds one line for every request that is over and Metrics one count
\* with the same status, however the request ended, and none if it panicked.
THEOREM RequestsAreAccountedOnce == Spec => []AccountedOnce
<1>1. Inv => AccountedOnce
  <2> SUFFICES ASSUME Inv, NEW r \in Requests, pc[r] = "done"
               PROVE  /\ Len(lines[r]) = 1
                      /\ Len(counts[r]) = IF r \in recovered THEN 0 ELSE 1
                      /\ \A i \in DOMAIN counts[r] : counts[r][i][2] = lines[r][1]
    BY DEF AccountedOnce
  <2>1. Recorded(r)
    BY DEF Inv, AccountInv, Inward
  <2>2. lines[r] = <<recLog[r]>>
    BY <2>1 DEF Recorded
  <2>3. CASE r \in recovered
    <3>1. counts[r] = <<>>
      BY <2>1, <2>3 DEF Recorded
    <3> QED
      BY <2>2, <2>3, <3>1
  <2>4. CASE r \notin recovered
    <3>1. counts[r] = <<<<Label(r), lines[r][1]>>>>
      BY <2>1, <2>2, <2>4 DEF Recorded
    <3> QED
      BY <2>2, <2>4, <3>1
  <2> QED
    BY <2>3, <2>4
<1> QED
  BY InvInit, InvStep, <1>1, PTL DEF Spec

\* The access log and the counter state the status the client received.
THEOREM LogIsTrue == Spec => []LogTellsAnswer
<1>1. Inv => LogTellsAnswer
  <2> SUFFICES ASSUME Inv, NEW r \in Requests, pc[r] = "done", got[r] # 0
               PROVE  /\ lines[r] = <<got[r]>>
                      /\ \A i \in DOMAIN counts[r] : counts[r][i][2] = got[r]
    BY DEF LogTellsAnswer
  <2>1. Recorded(r)
    BY DEF Inv, AccountInv, Inward
  <2>2. got[r] = recLog[r] /\ lines[r] = <<recLog[r]>>
    BY <2>1 DEF Recorded
  <2>3. CASE r \in recovered
    <3>1. counts[r] = <<>>
      BY <2>1, <2>3 DEF Recorded
    <3> QED
      BY <2>2, <3>1
  <2>4. CASE r \notin recovered
    <3>1. counts[r] = <<<<Label(r), got[r]>>>>
      BY <2>1, <2>2, <2>4 DEF Recorded
    <3> QED
      BY <2>2, <3>1
  <2> QED
    BY <2>3, <2>4
<1> QED
  BY InvInit, InvStep, <1>1, PTL DEF Spec

\* If the limiter and the request timeout together stay below WriteTimeout, a
\* client that waits until the deadline receives the answer of Timeout.
THEOREM TimeoutsAreAnswered == AnswersInTime => (Spec => []TimeoutAnswered)
<1> SUFFICES ASSUME AnswersInTime PROVE Spec => []TimeoutAnswered
  OBVIOUS
<1> DEFINE Late == \A r \in Requests : LateInv(r)
<1>1. Init => Late
  BY DEF Init, LateInv, Inward
<1>2. Inv /\ Late /\ [Next]_vars => Late'
  <2> SUFFICES ASSUME Inv, Late, [Next]_vars, NEW q \in Requests PROVE LateInv(q)'
    OBVIOUS
  <2>1. CASE UNCHANGED vars
    BY <2>1 DEF vars, LateInv
  <2>2. ASSUME NEW r \in Requests, Step(r) PROVE LateInv(q)'
    <3>1. CASE q # r
      BY <2>2, <3>1, OthersKept, KeptInv DEF Inv
    <3>2. CASE q = r
      <4>1. CASE Arrive(r) \/ Recover(r)
        BY <4>1, <3>2 DEF Inv, TypeOK, Arrive, Recover, Goto, LateInv, Inward, AccountInv, Untouched
      <4>2. CASE RootMux(r) \/ Ops(r) \/ Limit(r)
        <5>1. Untouched(r)
          BY <4>2 DEF RootMux, Ops, Limit, Inv, AccountInv, Inward
        <5>2. CASE RootMux(r)
          BY <5>1, <5>2, <3>2 DEF Inv, TypeOK, RootMux, Preflight, Redirect, Write, NoWrite, LateInv, Untouched
        <5>3. CASE Ops(r)
          BY <5>1, <5>3, <3>2 DEF Inv, TypeOK, Ops, NoWrite, LateInv, Untouched, TimeInv
        <5>4. CASE Limit(r)
          BY <5>1, <5>4, <3>2 DEF Inv, TypeOK, Limit, Write, NoWrite, LateInv, Untouched
        <5> QED
          BY <4>2, <5>2, <5>3, <5>4
      <4>3. CASE Select(r)
        <5>1. /\ pc[r] = "waiting" /\ Untouched(r) /\ age[r] < WriteTimeout
              /\ age[r] \in Nat
          BY <4>3, PipelineAssumption DEF Select, Inv, TypeOK, AccountInv, Inward, TimeInv, AnswersInTime
        <5>2. CASE Repanic(r)
          BY <4>3, <5>1, <5>2, <3>2 DEF Select, Repanic, NoWrite, LateInv, Untouched
        <5>3. ASSUME NEW s \in Statuses, Write(r, s) PROVE LateInv(q)'
          BY <4>3, <5>1, <5>3, <3>2 DEF Select, Write, Send, LateInv, Untouched, Inv, TypeOK
        <5>4. (Answer(r) \/ TimedOut(r) \/ Abandon(r)) => \E s \in Statuses : Write(r, s)
          <6>1. {200, 503} \subseteq Statuses /\ buffer[r] \in Statuses \cup {0}
            BY DEF Statuses, Inv, TypeOK
          <6> QED
            BY <6>1 DEF Answer, TimedOut, Abandon
        <5> QED
          BY <4>3, <5>2, <5>3, <5>4 DEF Select
      <4>4. CASE Count(r) \/ Log(r) \/ HandlerStep(r) \/ Leave(r) \/ Tick(r)
        <5>1. UNCHANGED <<route, recMet, got>> /\ gone \subseteq gone'
          BY <4>4 DEF Count, Log, HandlerStep, ApiMux, Handle, HandlerEnd, RefuseBody, HandlerWrite, IntoBuffer,
             Leave, Tick, NoWrite
        <5>2. pc[r] \in Inward => pc'[r] \in Inward
          BY <4>4 DEF Inv, TypeOK, Count, Log, HandlerStep, ApiMux, Handle, HandlerEnd, Leave, Tick,
             Goto, Inward
        <5> QED
          BY <3>2, <5>1, <5>2 DEF LateInv
      <4> QED
        BY <2>2, <4>1, <4>2, <4>3, <4>4 DEF Step, ServerStep
    <3> QED
      BY <3>1, <3>2
  <2> QED
    BY <2>1, <2>2 DEF Next, Step, Finished
<1>3. Late => TimeoutAnswered
  BY DEF LateInv, Inward, TimeoutAnswered
<1> QED
  BY InvInit, InvStep, <1>1, <1>2, <1>3, PTL DEF Spec

\* A handler's thread starts behind the limiter.  While it has not returned its
\* request can only be on the way out through Recover or with a 503.
PanicInv(r) ==
  /\ pc[r] \in {"idle", "mux", "ops", "limiter"} => hnd[r] = "none"
  /\ pc[r] \notin Inward /\ hnd[r] \in {"mux", "running", "written", "panicked"} /\ r \notin recovered
       => recLog[r] = 503

LEMMA PanicStep ==
  ASSUME Inv, NEW r \in Requests, PanicInv(r), Step(r)
  PROVE  PanicInv(r)'
<1> USE DEF Inv, TypeOK, Goto, PanicInv, Inward
<1>1. CASE Arrive(r)
  BY <1>1 DEF Arrive
<1>2. CASE RootMux(r) \/ Ops(r)
  BY <1>2 DEF RootMux, Preflight, Redirect, Ops
<1>3. CASE Limit(r)
  BY <1>3 DEF Limit
<1>4. CASE Select(r)
  <2>1. CASE Answer(r) \/ Repanic(r)
    BY <1>4, <2>1 DEF Select, Answer, Repanic
  <2>2. CASE TimedOut(r) \/ Abandon(r)
    BY <1>4, <2>2 DEF Select, TimedOut, Abandon, Write
  <2> QED
    BY <1>4, <2>1, <2>2 DEF Select
<1>5. CASE Count(r) \/ Log(r)
  BY <1>5 DEF Count, Log, NoWrite
<1>6. CASE Recover(r)
  BY <1>6 DEF Recover, AfterRecover
<1>7. CASE Leave(r) \/ Tick(r)
  BY <1>7 DEF Leave, Tick, NoWrite
<1>8. CASE HandlerStep(r)
  <2>1. UNCHANGED <<pc, recLog, recovered>>
    BY <1>8 DEF HandlerStep, ApiMux, Handle, HandlerEnd, RefuseBody, HandlerWrite, IntoBuffer, NoWrite
  <2>2. hnd[r] \in {"mux", "running", "written"}
    BY <1>8 DEF HandlerStep, ApiMux, Handle, HandlerEnd
  <2>3. hnd[r] # "none"
    BY <2>2
  <2> QED
    BY <2>1, <2>2, <2>3
<1> QED
  BY <1>1, <1>2, <1>3, <1>4, <1>5, <1>6, <1>7, <1>8 DEF Step, ServerStep

\* Recover answers for every panic it can see, and the others come after a 503.
THEOREM PanicsAreNotSwallowed == Spec => []PanicNotSwallowed
<1> DEFINE Panics == \A r \in Requests : PanicInv(r)
<1>1. Init => Panics
  <2> SUFFICES ASSUME Init, NEW r \in Requests PROVE PanicInv(r)
    OBVIOUS
  <2>1. pc[r] = "idle" /\ hnd[r] = "none"
    BY DEF Init
  <2> QED
    BY <2>1 DEF PanicInv, Inward
<1>2. Inv /\ Panics /\ [Next]_vars => Panics'
  <2> SUFFICES ASSUME Inv, Panics, [Next]_vars, NEW q \in Requests PROVE PanicInv(q)'
    OBVIOUS
  <2>1. CASE UNCHANGED vars
    BY <2>1 DEF vars, PanicInv
  <2>2. ASSUME NEW r \in Requests, Step(r) PROVE PanicInv(q)'
    <3>1. CASE q # r
      BY <2>2, <3>1, OthersKept DEF Inv, Kept, PanicInv
    <3> QED
      BY <2>2, <3>1, PanicStep
  <2> QED
    BY <2>1, <2>2 DEF Next, Step, Finished
<1>3. Inv /\ Panics => PanicNotSwallowed
  <2> SUFFICES ASSUME Inv, Panics, NEW r \in Requests, pc[r] = "done", hnd[r] = "panicked",
                      r \notin recovered
               PROVE  lines[r] = <<503>>
    BY DEF PanicNotSwallowed
  <2>1. recLog[r] = 503
    BY DEF PanicInv, Inward
  <2>2. Recorded(r)
    BY DEF Inv, AccountInv, Inward
  <2>3. lines[r] = <<recLog[r]>>
    BY <2>2 DEF Recorded
  <2> QED
    BY <2>1, <2>3
<1> QED
  BY InvInit, InvStep, <1>1, <1>2, <1>3, PTL DEF Spec
=============================================================================
