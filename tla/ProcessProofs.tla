--------------------------- MODULE ProcessProofs ---------------------------
(***************************************************************************)
(* Proofs about the life of a process: Config (its settings), Startup (up  *)
(* to the listener) and Lifecycle (from the listener on).  For any  *)
(* environment, any number of replicas, migrations, attempts and faults,   *)
(* any number of requests, any timeouts and any probe settings.            *)
(***************************************************************************)
EXTENDS Config, Startup, Lifecycle, TLAPS

----------------------------------------------------------------------------
(* Config *)

\* What Load reads of the environment: what is set is one of the texts.
EnvInv == \A k \in Keys : env[k] = Unset \/ env[k] \in Texts(k)

LEMMA EnvInit == ConfigInit => EnvInv
<1> SUFFICES ASSUME ConfigInit, NEW k \in Keys PROVE env[k] = Unset \/ env[k] \in Texts(k)
  BY DEF EnvInv
<1>1. PICK K \in SUBSET Keys :
        env \in {[l \in Keys |-> IF l \in K THEN f[l] ELSE Unset] :
                  f \in {g \in [K -> UNION {Texts(l) : l \in K}] : \A l \in K : g[l] \in Texts(l)}}
  BY Zenon DEF ConfigInit, Environments
<1>2. PICK f : /\ \A l \in K : f[l] \in Texts(l)
               /\ env = [l \in Keys |-> IF l \in K THEN f[l] ELSE Unset]
  BY <1>1
<1> QED
  BY <1>2

LEMMA EnvStep == EnvInv /\ [ConfigNext]_configVars => EnvInv'
BY DEF ConfigNext, Load, Done, configVars, EnvInv

\* A conversion keeps a whole unit of what it keeps at all.
LEMMA TruncatedWhole ==
  ASSUME NEW n \in Int, Truncate(n) > 0
  PROVE  Truncate(n) \in Int /\ Truncate(n) >= Whole
<1>1. Whole \in Nat \ {0}
  BY ConfigAssumption
<1>2. CASE n >= 0
  <2> DEFINE q == n \div Whole
  <2>1. q \in Int /\ n = Whole * q + (n % Whole) /\ n % Whole \in 0..(Whole - 1)
    BY <1>1
  <2> HIDE DEF q
  <2>2. Truncate(n) = Whole * q
    <3>1. Truncate(n) = n - (n % Whole)
      BY <1>2 DEF Truncate
    <3>2. Whole * q \in Int
      BY <1>1, <2>1
    <3> QED
      BY <2>1, <3>1, <3>2
  <2>3. q <= 0 => Whole * q <= 0
    BY <1>1, <2>1
  <2>4. q >= 1 => Whole * q >= Whole
    BY <1>1, <2>1
  <2> QED
    BY <1>1, <2>1, <2>2, <2>3, <2>4
<1>3. CASE n < 0
  <2>1. Truncate(n) = -((-n) - ((-n) % Whole))
    BY <1>3 DEF Truncate
  <2> DEFINE m == -n
             q == m \div Whole
  <2>2. m \in Nat /\ Truncate(n) = -(m - (m % Whole))
    BY <1>3, <2>1
  <2> HIDE DEF m
  <2>3. q \in Nat /\ m = Whole * q + (m % Whole) /\ m % Whole \in 0..(Whole - 1)
    BY <1>1, <2>2
  <2> HIDE DEF q
  <2>4. Whole * q \in Nat /\ Truncate(n) = -(Whole * q)
    BY <1>1, <2>2, <2>3
  <2> QED
    BY <2>4
<1> QED
  BY <1>2, <1>3

\* A duration or number that was read is a number, NaN, Inf or -Inf.
Number(v) == \E n \in Int : v = Num(n)

LEMMA ReadNumber ==
  ASSUME EnvInv, NEW k \in Durations \cup Floats
  PROVE  /\ k \in Durations => Number(Read(k))
         /\ k \in Floats => Read(k) \in {NaN, Inf, NegInf} \/ Number(Read(k))
<1>1. Read(k) = getEnvNumber(k) /\ k \in Keys
  BY DEF Read, Keys, Durations, Floats
<1>2. Number(Default[k])
  <2>1. \A n \in {30, 90, 10 * Whole} : n \in Int
    BY ConfigAssumption
  <2>2. \E n \in {30, 90, 10 * Whole} : Default[k] = Num(n)
    BY <1>1 DEF Default, Durations, Floats
  <2> QED
    BY <2>1, <2>2 DEF Number
<1>3. \A n \in Amounts : n \in Int
  BY ConfigAssumption
<1>4. ASSUME k \in Durations, env[k] \in Texts(k), env[k] # Garbage PROVE Number(env[k])
  BY <1>3, <1>4 DEF Texts, Number, Durations, Floats
<1>5. ASSUME k \in Floats, env[k] \in Texts(k), env[k] # Garbage
      PROVE  env[k] \in {NaN, Inf, NegInf} \/ Number(env[k])
  BY <1>3, <1>5 DEF Texts, Number, Durations, Floats
<1> QED
  BY <1>1, <1>2, <1>4, <1>5 DEF getEnvNumber, EnvInv

\* What Load leaves behind.
Loaded ==
  /\ env' = env /\ cfg'["ENV"] = getEnv("ENV") /\ cfg'["JWT_SECRET"] = getEnvOrFile
  /\ \A k \in Durations : cfg'[k] = Read(k)
  /\ \A k \in {"RATE_LIMIT_BURST", "MAX_BODY_BYTES"} : cfg'[k] \in Integer(Read(k))
  /\ status' = "running" => ~Invalid(cfg')

LEMMA LoadStep == Load => Loaded
<1> SUFFICES ASSUME Load PROVE Loaded
  OBVIOUS
<1>1. PICK burst \in Integer(Read("RATE_LIMIT_BURST")), body \in Integer(Read("MAX_BODY_BYTES")) :
        cfg' = [[k \in Keys |-> Read(k)] EXCEPT !["RATE_LIMIT_BURST"] = burst, !["MAX_BODY_BYTES"] = body]
  BY DEF Load
<1>2. cfg'["RATE_LIMIT_BURST"] = burst /\ cfg'["MAX_BODY_BYTES"] = body
  BY <1>1 DEF Keys, Floats
<1>3. \A k \in Durations \cup {"ENV", "JWT_SECRET"} : cfg'[k] = Read(k)
  BY <1>1 DEF Keys, Durations
<1>4. Read("ENV") = getEnv("ENV") /\ Read("JWT_SECRET") = getEnvOrFile
  BY DEF Read, Durations, Floats
<1>5. env' = env /\ (status' = "running" => ~Invalid(cfg'))
  BY DEF Load
<1> QED
  BY <1>1, <1>2, <1>3, <1>4, <1>5 DEF Loaded

\* In production no other secret than a long one that was really configured
\* survives the fallbacks: neither the default that stands in for a file that
\* cannot be read, nor a blank or short file.
THEOREM SecretIsStrongInProduction == ConfigSpec => []ProductionSecretIsStrong
<1>1. ConfigInit => ProductionSecretIsStrong
  BY DEF ConfigInit, ProductionSecretIsStrong
<1>2. EnvInv /\ ProductionSecretIsStrong /\ [ConfigNext]_configVars => ProductionSecretIsStrong'
  <2> SUFFICES ASSUME EnvInv, Load, status' = "running", env'["ENV"] = Text("production")
               PROVE  cfg'["JWT_SECRET"] = Text("long") /\ env'["JWT_SECRET_FILE"] # Text("unreadable")
    BY DEF ConfigNext, Done, configVars, ProductionSecretIsStrong
  <2>1. env' = env /\ cfg'["ENV"] = getEnv("ENV") /\ cfg'["JWT_SECRET"] = getEnvOrFile /\ ~Invalid(cfg')
    BY LoadStep DEF Loaded
  <2>2. cfg'["ENV"] = Text("production")
    BY <2>1 DEF getEnv, Text, Unset
  <2>3. cfg'["JWT_SECRET"] \notin {Text("blank"), Text("default"), Text("short")}
    BY <2>1, <2>2 DEF Invalid, WeakSecret
  <2>4. Default["JWT_SECRET"] = Text("default")
    BY DEF Default, Keys, Floats
  <2>5. /\ Texts("JWT_SECRET") = {Text("default"), Text("short"), Text("long")}
        /\ Texts("JWT_SECRET_FILE") = {Text("unreadable"), Text("blank"), Text("default"), Text("short"), Text("long")}
    BY DEF Texts, Durations, Floats
  <2>6. /\ env["JWT_SECRET"] = Unset \/ env["JWT_SECRET"] \in Texts("JWT_SECRET")
        /\ env["JWT_SECRET_FILE"] = Unset \/ env["JWT_SECRET_FILE"] \in Texts("JWT_SECRET_FILE")
    BY DEF EnvInv, Keys
  <2>7. CASE env["JWT_SECRET_FILE"] = Text("unreadable")
    <3>1. getEnvOrFile = Text("default")
      BY <2>4, <2>7 DEF getEnvOrFile, Text, Unset
    <3> QED
      BY <2>1, <2>3, <3>1
  <2>8. CASE env["JWT_SECRET_FILE"] = Unset
    <3>1. getEnvOrFile = getEnv("JWT_SECRET") /\ env["JWT_SECRET_FILE"] # Text("unreadable")
      BY <2>8 DEF getEnvOrFile, Text, Unset
    <3> QED
      BY <2>1, <2>3, <2>4, <2>5, <2>6, <3>1 DEF getEnv
  <2>9. CASE env["JWT_SECRET_FILE"] \notin {Text("unreadable"), Unset}
    <3>1. getEnvOrFile = env["JWT_SECRET_FILE"]
      BY <2>9 DEF getEnvOrFile
    <3> QED
      BY <2>1, <2>3, <2>5, <2>6, <2>9, <3>1
  <2> QED
    BY <2>7, <2>8, <2>9
<1> QED
  BY EnvInit, EnvStep, <1>1, <1>2, PTL DEF ConfigSpec

\* Whatever numbers, NaN, Inf, -Inf or garbage the environment holds, a process
\* that starts has room for a token and a byte, time for a request, and a
\* refresh token that outlives its access token.
THEOREM RunningProcessCanServe == ConfigSpec => []RunningCanServe
<1>1. ConfigInit => RunningCanServe
  BY DEF ConfigInit, RunningCanServe
<1>2. EnvInv /\ RunningCanServe /\ [ConfigNext]_configVars => RunningCanServe'
  <2> SUFFICES ASSUME EnvInv, Load, status' = "running"
               PROVE  /\ \A k \in {"RATE_LIMIT_BURST", "MAX_BODY_BYTES"} : cfg'[k][2] >= Whole
                      /\ cfg'["REQUEST_TIMEOUT"][2] > 0
                      /\ cfg'["REFRESH_TOKEN_EXPIRES_IN"][2] > cfg'["JWT_EXPIRES_IN"][2]
    BY DEF ConfigNext, Done, configVars, RunningCanServe
  <2>1. Loaded /\ ~Invalid(cfg')
    BY LoadStep DEF Loaded
  <2>2. ASSUME NEW v, NEW w, Number(v), Number(w), ~AtMost(v, w) PROVE v[2] > w[2]
    BY <2>2 DEF Number, AtMost, Num, NaN, Inf
  <2>3. Number(Num(0)) /\ Num(0)[2] = 0
    BY DEF Number, Num
  <2>4. ASSUME NEW k \in {"RATE_LIMIT_BURST", "MAX_BODY_BYTES"} PROVE cfg'[k][2] >= Whole
    <3>1. cfg'[k] \in Integer(Read(k)) /\ ~AtMost(cfg'[k], Num(0))
      BY <2>1 DEF Loaded, Invalid, Floats
    <3>2. Read(k) \in {NaN, Inf, NegInf} \/ Number(Read(k))
      BY ReadNumber DEF Floats
    <3>3. MaxInt * Whole \in Int /\ MaxInt * Whole >= Whole /\ -(MaxInt + 1) * Whole \in Int
      BY ConfigAssumption
    <3>4. Number(Num(MaxInt * Whole)) /\ Number(Least) /\ Least[2] <= 0
      <4>1. -(MaxInt + 1) * Whole <= 0
        BY ConfigAssumption
      <4> QED
        BY <3>3, <4>1 DEF Number, Least, Num
    <3>5. CASE Read(k) \in {NaN, Inf, NegInf}
      <4>1. cfg'[k] \in {Least, Num(0), Num(MaxInt * Whole)}
        BY <3>1, <3>5 DEF Integer
      <4>2. Least[2] \in Int
        BY <3>3 DEF Least, Num
      <4>3. cfg'[k][2] > 0
        BY <2>2, <2>3, <3>1, <3>4, <4>1
      <4>4. cfg'[k] = Num(MaxInt * Whole)
        BY <2>3, <3>4, <4>1, <4>2, <4>3
      <4> QED
        BY <3>3, <4>4 DEF Num
    <3>6. CASE Number(Read(k))
      <4>1. PICK n \in Int : Read(k) = Num(n)
        BY <3>6 DEF Number
      <4>2. cfg'[k] = Num(Truncate(n))
        BY <3>1, <4>1 DEF Integer, Num, NaN, Inf, NegInf
      <4>3. Truncate(n) \in Int
        BY ConfigAssumption DEF Truncate
      <4>4. Truncate(n) > 0
        BY <2>3, <3>1, <4>2, <4>3 DEF AtMost, Num, NaN, Inf, NegInf
      <4> QED
        BY <4>2, <4>4, TruncatedWhole DEF Num
    <3> QED
      BY <3>2, <3>5, <3>6
  <2>5. cfg'["REQUEST_TIMEOUT"][2] > 0
    <3>1. Number(cfg'["REQUEST_TIMEOUT"])
      BY <2>1, ReadNumber DEF Loaded, Durations
    <3>2. ~AtMost(cfg'["REQUEST_TIMEOUT"], Num(0))
      BY <2>1 DEF Invalid
    <3> QED
      BY <2>2, <2>3, <3>1, <3>2
  <2>6. cfg'["REFRESH_TOKEN_EXPIRES_IN"][2] > cfg'["JWT_EXPIRES_IN"][2]
    <3>1. Number(cfg'["REFRESH_TOKEN_EXPIRES_IN"]) /\ Number(cfg'["JWT_EXPIRES_IN"])
      BY <2>1, ReadNumber DEF Loaded, Durations
    <3>2. ~AtMost(cfg'["REFRESH_TOKEN_EXPIRES_IN"], cfg'["JWT_EXPIRES_IN"])
      BY <2>1 DEF Invalid, Lifetimes
    <3> QED
      BY <2>2, <3>1, <3>2
  <2> QED
    BY <2>4, <2>5, <2>6
<1> QED
  BY EnvInit, EnvStep, <1>1, <1>2, PTL DEF ConfigSpec

----------------------------------------------------------------------------
(* Startup: the inductive invariant *)

\* The part of the types the argument needs.
Shape ==
  /\ pc \in [Replicas -> {"boot", "connect", "migrate", "exec", "serving", "exited"}]
  /\ pos \in [Replicas -> 1..(N + 1)]
  /\ schema \subseteq Files

\* A replica at a position has seen all files before it in the database.
PosInv(r) ==
  /\ pc[r] \in {"migrate", "exec", "serving"} => \A f \in Files : f < pos[r] => f \in schema
  /\ pc[r] = "exec" => pos[r] \in Files
  /\ pc[r] = "serving" => pos[r] = N + 1

InOrder == \A f \in schema : \A g \in Files : g < f => g \in schema

StartupInv == Shape /\ InOrder /\ \A r \in Replicas : PosInv(r)

LEMMA StartupInvInit == StartupInit => StartupInv
BY StartupAssumption DEF StartupInit, StartupInv, Shape, InOrder, PosInv, Files

\* Tables are only added, and only for the file a replica is executing.
LEMMA SchemaStep ==
  ASSUME Shape, NEW r \in Replicas, EndExec(r) \/ FailExec(r)
  PROVE  /\ pc[r] = "exec"
         /\ schema' = schema \/ schema' = schema \cup {pos[r]}
BY DEF EndExec, FailExec, File

LEMMA StartupInvStep == StartupInv /\ [StartupNext]_startupVars => StartupInv'
<1> SUFFICES ASSUME StartupInv, [StartupNext]_startupVars PROVE StartupInv'
  OBVIOUS
<1> USE StartupAssumption DEF StartupInv, Shape, InOrder, PosInv, Files, Goto
<1>1. ASSUME NEW r \in Replicas, Boot(r) PROVE StartupInv'
  BY <1>1 DEF Boot, InitFails
<1>2. ASSUME NEW r \in Replicas, Connect(r) PROVE StartupInv'
  <2>1. /\ schema' = schema /\ pos' = [pos EXCEPT ![r] = 1]
        /\ \/ UNCHANGED pc
           \/ pc' = [pc EXCEPT ![r] = "migrate"]
           \/ pc' = [pc EXCEPT ![r] = "exited"]
        /\ pc[r] = "connect"
    BY <1>2 DEF Connect
  <2> QED
    BY <2>1
<1>3. ASSUME NEW r \in Replicas, BeginExec(r) PROVE StartupInv'
  <2>1. /\ UNCHANGED <<schema, pos>> /\ pc' = [pc EXCEPT ![r] = "exec"]
        /\ pc[r] = "migrate" /\ pos[r] <= N
    BY <1>3 DEF BeginExec
  <2> QED
    BY <2>1
<1>4. ASSUME NEW r \in Replicas, EndExec(r) PROVE StartupInv'
  <2>1. pc[r] = "exec" /\ pos[r] \in Files
    BY <1>4 DEF EndExec
  <2>2. CASE /\ schema' = schema \cup {pos[r]}
             /\ pos' = [pos EXCEPT ![r] = @ + 1] /\ pc' = [pc EXCEPT ![r] = "migrate"]
    <3>1. Shape'
      <4>1. pos[r] + 1 \in 1..(N + 1)
        BY <2>1
      <4>2. pos' \in [Replicas -> 1..(N + 1)]
        BY <2>2, <4>1
      <4> QED
        BY <2>1, <2>2, <4>2
    <3>2. InOrder'
      BY <2>1, <2>2
    <3>3. ASSUME NEW q \in Replicas, q # r PROVE PosInv(q)'
      BY <2>2, <3>3
    <3>4. PosInv(r)'
      <4>1. pos'[r] = pos[r] + 1 /\ pc'[r] = "migrate"
        BY <2>2
      <4>2. \A f \in Files : f < pos[r] + 1 => f < pos[r] \/ f = pos[r]
        BY <2>1
      <4> QED
        BY <2>1, <2>2, <4>1, <4>2
    <3> QED
      BY <3>1, <3>2, <3>3, <3>4
  <2>3. CASE schema' = schema /\ UNCHANGED pos /\ pc' = [pc EXCEPT ![r] = "exited"]
    BY <2>1, <2>3
  <2> QED
    BY <1>4, <2>2, <2>3 DEF EndExec, File, OnError
<1>5. ASSUME NEW r \in Replicas, FailExec(r) PROVE StartupInv'
  <2>1. pc[r] = "exec" /\ pos[r] \in Files /\ UNCHANGED pos /\ pc' = [pc EXCEPT ![r] = "exited"]
    BY <1>5 DEF FailExec, OnError
  <2>2. schema' = schema \/ schema' = schema \cup {pos[r]}
    BY <1>5, SchemaStep
  <2> QED
    BY <2>1, <2>2
<1>6. ASSUME NEW r \in Replicas, Serve(r) \/ Stop(r) \/ Restart(r) PROVE StartupInv'
  <2>1. /\ UNCHANGED <<schema, pos>>
        /\ \/ pc' = [pc EXCEPT ![r] = "exited"] \/ pc' = [pc EXCEPT ![r] = "boot"]
           \/ pc' = [pc EXCEPT ![r] = "serving"] /\ pc[r] = "migrate" /\ pos[r] > N
    BY <1>6 DEF Serve, Migrated, Stop, Restart
  <2> QED
    BY <2>1
<1>7. CASE UNCHANGED startupVars
  BY <1>7 DEF startupVars
<1> QED
  BY <1>1, <1>2, <1>3, <1>4, <1>5, <1>6, <1>7 DEF StartupNext, Progress, Settled

\* A replica that serves has every table, for any number of racing replicas
\* and any failures.
THEOREM SchemaIsComplete == StartupSpec => []ServingHasSchema
<1>1. StartupInv => ServingHasSchema
  <2> SUFFICES ASSUME StartupInv, NEW r \in Replicas, pc[r] = "serving" PROVE Files \subseteq schema
    BY DEF StartupInv, Shape, ServingHasSchema
  <2>1. pos[r] = N + 1
    BY DEF StartupInv, PosInv
  <2>2. \A f \in Files : f < N + 1
    BY StartupAssumption DEF Files
  <2> QED
    BY <2>1, <2>2 DEF StartupInv, PosInv
<1> QED
  BY StartupInvInit, StartupInvStep, <1>1, PTL DEF StartupSpec

\* The tables of a migration are never there without those before it.
THEOREM MigrationsAreOrdered == StartupSpec => []AppliedInOrder
<1>1. StartupInv => AppliedInOrder
  BY StartupAssumption DEF StartupInv, Shape, InOrder, AppliedInOrder, Files
<1> QED
  BY StartupInvInit, StartupInvStep, <1>1, PTL DEF StartupSpec

\* The rest of the types: attempts, flags and faults.
Rest ==
  /\ attempt \in [Replicas -> 1..MaxAttempts]
  /\ found \in [Replicas -> BOOLEAN]
  /\ faults \in Nat

LEMMA RestInit == StartupInit => Rest
BY StartupAssumption DEF StartupInit, Rest

LEMMA RestStep == Rest /\ [StartupNext]_startupVars => Rest'
<1> SUFFICES ASSUME Rest, [StartupNext]_startupVars PROVE Rest'
  OBVIOUS
<1>1. faults' = faults \/ faults' = faults + 1
  BY DEF StartupNext, Progress, Settled, Boot, InitFails, Connect, BeginExec, EndExec, FailExec, Serve, Stop, Restart,
         Fault, startupVars
<1>2. found' \in [Replicas -> BOOLEAN]
  <2>1. found' = found \/ \E r \in Replicas : found' = [found EXCEPT ![r] = Exists(File(pos[r]))]
    BY DEF StartupNext, Progress, Settled, Boot, InitFails, Connect, BeginExec, EndExec, FailExec, Serve, Stop, Restart,
           startupVars
  <2>2. \A r \in Replicas : Exists(File(pos[r])) \in BOOLEAN
    BY DEF Exists
  <2> HIDE DEF Exists
  <2> QED
    BY <2>1, <2>2, Zenon DEF Rest
\* A ping is repeated only while there are attempts left.
<1>3. attempt' \in [Replicas -> 1..MaxAttempts]
  <2>1. \/ attempt' = attempt
        \/ \E r \in Replicas : attempt' = [attempt EXCEPT ![r] = 1]
        \/ \E r \in Replicas : Retry(r) /\ attempt' = [attempt EXCEPT ![r] = @ + 1]
    BY DEF StartupNext, Progress, Settled, Boot, InitFails, Connect, BeginExec, EndExec, FailExec, Serve, Stop, Restart,
           startupVars
  <2>2. ASSUME NEW r \in Replicas, Retry(r) PROVE attempt[r] + 1 \in 1..MaxAttempts
    BY <2>2, StartupAssumption DEF Retry, Rest
  <2> QED
    BY <2>1, <2>2, StartupAssumption DEF Rest
<1> QED
  BY <1>1, <1>2, <1>3 DEF Rest

\* The variables have their types; no Connect makes more pings than it may.
THEOREM StartupTypeCorrect == StartupSpec => []StartupTypeOK
<1>1. StartupInv /\ Rest => StartupTypeOK
  BY Zenon DEF StartupInv, Shape, Rest, StartupTypeOK
<1> QED
  BY StartupInvInit, StartupInvStep, RestInit, RestStep, <1>1, PTL DEF StartupSpec

----------------------------------------------------------------------------
(* Lifecycle: the inductive invariant *)

\* What is left of the running timer and the time since the signal add up to
\* the phases so far.
ClockInv ==
  /\ phase = "serving" => ~draining
  /\ phase \notin {"serving", "failed"} => draining
  /\ phase = "serving"  => since = 0
  /\ phase = "draining" => since + timer = DrainDelay
  /\ phase = "shutdown" => since + timer = DrainDelay + Window
  /\ phase = "flushing" => since + timer <= DrainDelay + Window + FlushTime
  /\ phase = "failed"   => since <= DrainDelay

\* Every probe since the signal has failed, and they are one period apart.
ProbeInv ==
  /\ inRotation => fails < Threshold
  /\ phase = "draining" /\ inRotation => since + probeIn <= (fails + 1) * Period

\* A request still active in the shutdown was accepted before it began.
AgeInv == \A r \in Requests : phase = "shutdown" /\ req[r] = "active" => age[r] + timer >= Window

Inv == TypeOK /\ ClockInv /\ ProbeInv /\ AgeInv

LEMMA Monotone ==
  ASSUME NEW a \in Nat, NEW b \in Nat, NEW c \in Nat, a <= b
  PROVE  a * c <= b * c
OBVIOUS

LEMMA OneMore ==
  ASSUME NEW a \in Nat, NEW c \in Nat
  PROVE  (a + 1) * c = a * c + c /\ a * c \in Nat
OBVIOUS

\* TypeOK apart from the flags, and the flags: the two need different provers.
Plain ==
  /\ phase \in {"serving", "draining", "shutdown", "flushing", "exited", "failed", "killed"}
  /\ grace \in Nat /\ timer \in Nat /\ since \in Nat
  /\ probeIn \in 0..Period /\ fails \in 0..Threshold
  /\ req \in [Requests -> {"idle", "active", "answered", "late", "refused", "cut"}]
  /\ age \in [Requests -> Nat]

Flags == draining \in BOOLEAN /\ flushed \in BOOLEAN /\ inRotation \in BOOLEAN

LEMMA TypeParts == TypeOK <=> Plain /\ Flags
BY Zenon DEF TypeOK, Plain, Flags

\* What a probe does, by its outcome.
LEMMA ProbeCases ==
  ASSUME Probe
  PROVE  /\ probeIn = 0 /\ probeIn' = Period
         /\ UNCHANGED <<grace, phase, draining, timer, flushed, since, req, age>>
         /\ \/ /\ Listening /\ ~draining
               /\ fails' = 0 /\ inRotation' = TRUE
            \/ /\ fails' = IF fails < Threshold THEN fails + 1 ELSE fails
               /\ inRotation' = (inRotation /\ fails + 1 < Threshold)
BY DEF Probe, Ready, process

LEMMA ProbeOutcome ==
  ASSUME Probe
  PROVE  \/ /\ Listening /\ ~draining
            /\ fails' = 0
         \/ /\ fails' = IF fails < Threshold THEN fails + 1 ELSE fails
            /\ inRotation' => inRotation /\ fails + 1 < Threshold
BY ProbeCases, Zenon

LEMMA InvInit == Init => Inv
<1> SUFFICES ASSUME Init PROVE Inv
  OBVIOUS
<1> USE LifecycleAssumption
<1>1. Plain
  BY DEF Init, Plain
<1>2. Flags
  BY Zenon DEF Init, Flags
<1>3. ClockInv
  BY DEF Init, ClockInv
<1>4. ProbeInv /\ AgeInv
  BY DEF Init, ProbeInv, AgeInv
<1> QED
  BY <1>1, <1>2, <1>3, <1>4, TypeParts DEF Inv

----------------------------------------------------------------------------
(* Lifecycle: the steps *)

LEMMA PlainStep == Plain /\ [Next]_vars => Plain'
<1> SUFFICES ASSUME Plain, [Next]_vars PROVE Plain'
  OBVIOUS
<1> USE LifecycleAssumption DEF Plain
<1>1. ASSUME NEW r \in Requests, Route(r) \/ Respond(r) PROVE Plain'
  BY <1>1 DEF Route, Respond, process, balancer
<1>2. CASE Probe
  <2>1. fails' = 0 \/ fails' = IF fails < Threshold THEN fails + 1 ELSE fails
    BY <1>2, ProbeCases
  <2> QED
    BY <1>2, <2>1, ProbeCases
<1>3. CASE Signal \/ CloseListener \/ Drained \/ Exit
  BY <1>3 DEF Signal, CloseListener, ShutdownWindow, Drained, Exit, balancer
<1>4. CASE GiveUp \/ Kill \/ ListenFails
  BY <1>4 DEF GiveUp, Kill, ListenFails, Cut, balancer
<1>5. CASE Tick
  BY <1>5 DEF Tick, Due, Down
<1>6. CASE UNCHANGED vars
  BY <1>6 DEF vars
<1> QED
  BY <1>1, <1>2, <1>3, <1>4, <1>5, <1>6 DEF Next

LEMMA FlagsStep == Flags /\ [Next]_vars => Flags'
<1> SUFFICES ASSUME Flags, [Next]_vars PROVE Flags'
  OBVIOUS
<1> USE DEF Flags
<1>1. ASSUME NEW r \in Requests, Route(r) \/ Respond(r) PROVE Flags'
  BY <1>1, Zenon DEF Route, Respond, process, balancer
<1>2. CASE Probe
  BY <1>2, ProbeCases, Zenon
<1>3. CASE Signal \/ CloseListener \/ Drained \/ Exit
  BY <1>3, Zenon DEF Signal, CloseListener, Drained, Exit, balancer
<1>4. CASE GiveUp \/ Kill \/ ListenFails
  BY <1>4, Zenon DEF GiveUp, Kill, ListenFails, balancer
<1>5. CASE Tick
  BY <1>5, Zenon DEF Tick
<1>6. CASE UNCHANGED vars
  BY <1>6, Zenon DEF vars
<1> QED
  BY <1>1, <1>2, <1>3, <1>4, <1>5, <1>6, Zenon DEF Next

LEMMA ClockStep == Inv /\ [Next]_vars => ClockInv'
<1> SUFFICES ASSUME Inv, [Next]_vars PROVE ClockInv'
  OBVIOUS
<1>0. Plain /\ ClockInv
  BY TypeParts DEF Inv
<1> USE LifecycleAssumption DEF Plain, ClockInv
<1>1. ASSUME NEW r \in Requests, Route(r) \/ Respond(r) PROVE ClockInv'
  BY <1>0, <1>1 DEF Route, Respond, process
<1>2. CASE Probe
  BY <1>0, <1>2, ProbeCases
<1>3. CASE Signal
  <2>1. phase = "serving" /\ phase' = "draining" /\ draining' /\ timer' = DrainDelay /\ since' = since
    BY <1>3, Zenon DEF Signal
  <2> QED
    BY <1>0, <2>1
<1>7. CASE CloseListener \/ Drained \/ Exit
  BY <1>0, <1>7 DEF CloseListener, ShutdownWindow, Drained, Exit
<1>4. CASE GiveUp \/ Kill \/ ListenFails
  BY <1>0, <1>4 DEF GiveUp, Kill, ListenFails, Listening, Running
<1>5. CASE Tick
  <2>1. /\ UNCHANGED <<phase, draining>> /\ timer' = Down(timer)
        /\ since' = IF Running /\ draining THEN since + 1 ELSE since
        /\ phase = "draining" => timer # 0
        /\ phase = "shutdown" => timer # 0
        /\ phase = "flushing" => timer # 0
    BY <1>5 DEF Tick, Due, ShutdownExpired, FlushExpired
  <2> QED
    BY <1>0, <2>1 DEF Down, Running
<1>6. CASE UNCHANGED vars
  BY <1>0, <1>6 DEF vars
<1> QED
  BY <1>1, <1>2, <1>3, <1>4, <1>5, <1>6, <1>7 DEF Next

LEMMA ProbeStep == Inv /\ [Next]_vars => ProbeInv'
<1> SUFFICES ASSUME Inv, [Next]_vars PROVE ProbeInv'
  OBVIOUS
<1>0. Plain /\ ClockInv /\ ProbeInv
  BY TypeParts DEF Inv
<1> USE <1>0, LifecycleAssumption DEF Plain, ProbeInv
<1>1. ASSUME NEW r \in Requests, Route(r) \/ Respond(r) PROVE ProbeInv'
  BY <1>1 DEF Route, Respond, process, balancer
<1>2. CASE Probe
  <2>1. inRotation' => fails' < Threshold
    BY <1>2, ProbeOutcome
  <2>2. ASSUME phase' = "draining", inRotation'
        PROVE  since' + probeIn' <= (fails' + 1) * Period
    <3>1. phase = "draining" /\ draining /\ since' = since
      BY <1>2, <2>2, ProbeCases DEF ClockInv
    <3>2. inRotation /\ probeIn = 0 /\ probeIn' = Period /\ fails' = fails + 1
      BY <1>2, <2>2, <3>1, ProbeCases, ProbeOutcome
    <3>3. since <= (fails + 1) * Period
      BY <3>1, <3>2
    <3>4. (fails' + 1) * Period = (fails + 1) * Period + Period
      BY <3>2, OneMore
    <3> QED
      BY <3>1, <3>2, <3>3, <3>4
  <2> QED
    BY <2>1, <2>2
<1>3. CASE Signal
  <2>1. Period <= (fails + 1) * Period
    BY Monotone
  <2> QED
    BY <1>3, <2>1 DEF Signal, balancer, ClockInv
<1>4. CASE CloseListener \/ Drained \/ Exit \/ GiveUp \/ Kill \/ ListenFails
  BY <1>4 DEF CloseListener, Drained, Exit, GiveUp, Kill, ListenFails, balancer
<1>5. CASE Tick
  BY <1>5 DEF Tick, Due, ClockInv
<1>6. CASE UNCHANGED vars
  BY <1>6 DEF vars
<1> QED
  BY <1>1, <1>2, <1>3, <1>4, <1>5, <1>6 DEF Next

LEMMA AgeStep == Inv /\ [Next]_vars => AgeInv'
<1> SUFFICES ASSUME Inv, [Next]_vars PROVE AgeInv'
  OBVIOUS
<1>0. Plain /\ AgeInv
  BY TypeParts DEF Inv
<1> USE <1>0, LifecycleAssumption DEF Plain, AgeInv
<1>1. ASSUME NEW r \in Requests, Route(r) \/ Respond(r) PROVE AgeInv'
  BY <1>1 DEF Route, Respond, process, Listening
<1>2. CASE Probe
  BY <1>2 DEF Probe, process
<1>3. CASE Signal \/ CloseListener \/ Drained \/ Exit \/ GiveUp \/ Kill \/ ListenFails
  BY <1>3 DEF Signal, CloseListener, ShutdownWindow, Drained, Exit, GiveUp, Kill, ListenFails
<1>5. CASE Tick
  BY <1>5 DEF Tick, Due, Down
<1>6. CASE UNCHANGED vars
  BY <1>6 DEF vars
<1> QED
  BY <1>1, <1>2, <1>3, <1>5, <1>6 DEF Next

LEMMA InvStep == Inv /\ [Next]_vars => Inv'
<1> SUFFICES ASSUME Inv, [Next]_vars PROVE Inv'
  OBVIOUS
<1>1. Plain /\ Flags
  BY TypeParts DEF Inv
<1>2. Plain' /\ Flags'
  BY <1>1, PlainStep, FlagsStep
<1>3. TypeOK'
  BY <1>2, Zenon DEF TypeOK, Plain, Flags
<1> QED
  BY <1>3, ClockStep, ProbeStep, AgeStep DEF Inv

----------------------------------------------------------------------------
(* Lifecycle: theorems *)

\* Every reachable state of the shutdown has its types.
THEOREM TypeCorrect == Spec => []TypeOK
<1>1. Inv => TypeOK
  BY DEF Inv
<1> QED
  BY InvInit, InvStep, <1>1, PTL DEF Spec

LEMMA NoKill == Inv /\ FitsGrace => ~Kill
BY LifecycleAssumption, TypeParts DEF Kill, Running, FitsGrace, Inv, Plain, ClockInv

LEMMA GraceFixed == [Next]_vars => grace' = grace
BY DEF Next, Route, Respond, Probe, ListenFails, Signal, CloseListener, Drained, GiveUp, Exit, Kill, Tick, vars

\* A process whose listener failed is gone.
LEMMA FailedIsFinal == [Next]_vars /\ phase = "failed" => phase' = "failed"
BY DEF Next, Route, Respond, Probe, ListenFails, Listening, Signal, CloseListener, Drained, GiveUp,
   Exit, Kill, Running, Tick, vars, process

\* The three deadlines of main.go bound the shutdown: where they fit into the
\* grace period the orchestrator never has to kill the process.
THEOREM EndsBeforeTheKill == Spec => []EndsWithinGrace
<1>1. Init => EndsWithinGrace
  BY DEF Init, EndsWithinGrace
<1>2. Inv /\ EndsWithinGrace /\ [Next]_vars => EndsWithinGrace'
  <2> SUFFICES ASSUME Inv, EndsWithinGrace, [Next]_vars, FitsGrace' PROVE phase' # "killed"
    BY DEF EndsWithinGrace
  <2>1. FitsGrace
    BY GraceFixed DEF FitsGrace
  <2>2. ~Kill /\ phase # "killed"
    BY <2>1, NoKill DEF EndsWithinGrace
  <2> QED
    BY <2>2 DEF Next, Route, Respond, Probe, ListenFails, Signal, CloseListener, Drained, GiveUp, Exit, Tick, vars, process
<1> QED
  BY InvInit, InvStep, <1>1, <1>2, PTL DEF Spec

\* If as many probes as take a replica out of rotation fit into the drain
\* delay, no request is routed to a closed listener.
THEOREM NobodyIsRefused == Spec => []NoneRefused
<1> DEFINE Out == NoticedInTime /\ ~Listening /\ phase # "failed" => ~inRotation
<1>1. Init => Out /\ NoneRefused
  BY DEF Init, Listening, NoneRefused
<1>2. Inv /\ Out /\ [Next]_vars => Out'
  <2> SUFFICES ASSUME Inv, Out, [Next]_vars, NoticedInTime', ~Listening', phase' # "failed"
               PROVE  ~inRotation'
    OBVIOUS
  <2>0. NoticedInTime /\ phase # "failed"
    BY GraceFixed, FailedIsFinal DEF NoticedInTime
  <2>1. CASE CloseListener
    <3>1. phase = "draining" /\ since = DrainDelay /\ UNCHANGED inRotation
      BY <2>1, LifecycleAssumption, TypeParts DEF CloseListener, Inv, ClockInv, Plain, balancer
    <3>2. ASSUME inRotation PROVE FALSE
      <4>1. fails \in Nat /\ probeIn \in Nat /\ fails + 1 <= Threshold
        BY <3>2, LifecycleAssumption, TypeParts DEF Inv, ProbeInv, Plain
      <4>2. (fails + 1) * Period <= Threshold * Period
        BY <4>1, Monotone, LifecycleAssumption
      <4>3. (fails + 1) * Period \in Nat /\ Threshold * Period \in Nat
        BY <4>1, LifecycleAssumption
      <4>4. DrainDelay + probeIn <= (fails + 1) * Period
        BY <3>1, <3>2 DEF Inv, ProbeInv
      <4> QED
        BY <2>0, <4>1, <4>2, <4>3, <4>4, LifecycleAssumption DEF NoticedInTime
    <3> QED
      BY <3>1, <3>2
  <2>2. CASE Probe
    BY <2>0, <2>2, ProbeCases DEF Listening
  <2>3. CASE Tick \/ Signal \/ UNCHANGED vars \/ \E r \in Requests : Route(r) \/ Respond(r)
    BY <2>0, <2>3 DEF Tick, Signal, vars, Route, Respond, process, balancer, Listening
  <2>4. CASE Drained \/ GiveUp \/ Exit
    BY <2>0, <2>4 DEF Drained, GiveUp, Exit, balancer, Listening
  <2>5. CASE Kill
    <3>1. phase # "serving" /\ since >= grace /\ UNCHANGED inRotation
      BY <2>5 DEF Kill, balancer, Inv, ClockInv
    <3>2. phase # "draining"
      BY <2>0, <3>1, LifecycleAssumption, TypeParts DEF Inv, Plain, ClockInv, NoticedInTime
    <3> QED
      BY <2>0, <3>1, <3>2 DEF Listening
  <2>6. ~ListenFails
    BY DEF ListenFails
  <2> QED
    BY <2>1, <2>2, <2>3, <2>4, <2>5, <2>6 DEF Next
<1>3. Out /\ NoneRefused /\ Inv /\ [Next]_vars => NoneRefused'
  <2> SUFFICES ASSUME Out, NoneRefused, Inv, [Next]_vars, NoticedInTime', phase' # "failed",
                      NEW q \in Requests
               PROVE  req'[q] # "refused"
    BY DEF NoneRefused
  <2>0. NoticedInTime /\ phase # "failed" /\ req[q] # "refused" /\ Plain
    BY GraceFixed, FailedIsFinal, TypeParts DEF NoticedInTime, NoneRefused, Inv
  <2>1. ASSUME NEW r \in Requests, Route(r) \/ Respond(r) PROVE req'[q] # "refused"
    BY <2>0, <2>1 DEF Route, Respond, Plain
  <2>2. CASE GiveUp \/ Kill \/ ListenFails
    BY <2>0, <2>2 DEF GiveUp, Kill, ListenFails, Cut
  <2> QED
    BY <2>0, <2>1, <2>2 DEF Next, Probe, Signal, CloseListener, Drained, Exit, Tick, vars
<1> QED
  BY InvInit, InvStep, <1>1, <1>2, <1>3, PTL DEF Spec

\* Where Shutdown waits at least as long as the server lets an answer take,
\* only requests that could not be answered any more are cut off.
THEOREM OnlyLateRequestsAreCut == Spec => []CutOnlyLate
<1>1. Init => CutOnlyLate
  BY DEF Init, CutOnlyLate
<1>2. Inv /\ CutOnlyLate /\ [Next]_vars => CutOnlyLate'
  <2> SUFFICES ASSUME Inv, CutOnlyLate, [Next]_vars, FitsGrace', WriteTimeout <= Window,
                      phase' # "failed", NEW q \in Requests, req'[q] = "cut"
               PROVE  age'[q] >= WriteTimeout
    BY DEF CutOnlyLate
  <2>0. Plain /\ FitsGrace /\ phase # "failed"
    BY TypeParts, GraceFixed, FailedIsFinal DEF Inv, FitsGrace
  <2>1. ASSUME NEW r \in Requests, Route(r) \/ Respond(r) PROVE req[q] = "cut" /\ age'[q] = age[q]
    BY <2>0, <2>1 DEF Route, Respond, Plain
  <2>2. CASE GiveUp
    <3>1. age'[q] = age[q] /\ (req[q] = "cut" \/ req[q] = "active") /\ phase = "shutdown" /\ timer = 0
      BY <2>0, <2>2 DEF GiveUp, Cut, ShutdownExpired
    <3>2. CASE req[q] = "active"
      <4>1. age[q] \in Nat /\ age[q] + 0 >= Window
        BY <2>0, <3>1, <3>2 DEF Inv, AgeInv, Plain
      <4> QED
        BY <3>1, <4>1, LifecycleAssumption
    <3> QED
      BY <2>0, <3>1, <3>2 DEF CutOnlyLate
  <2>3. ~Kill /\ ~ListenFails
    BY <2>0, NoKill DEF ListenFails
  <2>4. CASE Tick
    BY <2>0, <2>4 DEF Tick, CutOnlyLate
  <2> QED
    BY <2>0, <2>1, <2>2, <2>3, <2>4 DEF Next, CutOnlyLate, Probe, Signal, CloseListener, Drained, Exit, vars
<1> QED
  BY InvInit, InvStep, <1>1, <1>2, PTL DEF Spec

\* A process ends without the flush of its tracer only when Shutdown ran out of
\* its deadline or when the listener failed before the drain delay was over.
THEOREM FlushIsSkippedInTwoWays == Spec => []UnflushedExits
<1> DEFINE Called == /\ phase = "flushing" => flushed
                     /\ phase \in {"serving", "draining", "failed"} => ~flushed
<1>1. Init => Called /\ UnflushedExits
  BY DEF Init, UnflushedExits
<1>2. Called /\ [Next]_vars => Called'
  BY DEF Next, Route, Respond, Probe, ListenFails, Listening, Signal, CloseListener, Drained,
     GiveUp, Exit, Kill, Tick, vars, process
<1>3. Inv /\ Called /\ Inv' /\ Called' /\ UnflushedExits /\ [Next]_vars => UnflushedExits'
  <2> SUFFICES ASSUME Inv, Called, Inv', Called', UnflushedExits, [Next]_vars
               PROVE  UnflushedExits'
    OBVIOUS
  <2>0. Plain /\ ClockInv
    BY TypeParts DEF Inv
  <2>1. ASSUME phase' = "exited", ~flushed' PROVE since' >= DrainDelay + Window
    <3>1. CASE GiveUp
      BY <2>0, <3>1, LifecycleAssumption DEF GiveUp, ShutdownExpired, Plain, ClockInv
    <3>2. CASE Exit
      BY <2>1, <3>2 DEF Exit
    <3>3. CASE Tick
      BY <2>1, <3>3 DEF Tick, Running, UnflushedExits
    <3> QED
      BY <2>1, <3>1, <3>2, <3>3 DEF Next, Route, Respond, Probe, ListenFails, Signal, CloseListener,
         Drained, Kill, vars, process, UnflushedExits
  <2>2. ASSUME phase' = "failed" PROVE ~flushed' /\ since' <= DrainDelay
    BY <2>2 DEF Inv, ClockInv
  <2> QED
    BY <2>1, <2>2 DEF UnflushedExits
<1> QED
  BY InvInit, InvStep, <1>1, <1>2, <1>3, PTL DEF Spec
=============================================================================
