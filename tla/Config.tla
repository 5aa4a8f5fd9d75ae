------------------------------- MODULE Config -------------------------------
(***************************************************************************)
(* config.Load: every setting is read from the environment, falls back to  *)
(* a default when it is unset or does not parse, is converted, and the     *)
(* whole is validated once.  The environment is any assignment of a class  *)
(* of texts to each variable; at most MaxSet variables are set, since the  *)
(* conditions of validate join at most three.                              *)
(*                                                                         *)
(* A text that parses as a number is <<"num", n>>, with n in parts of a    *)
(* whole; NaN, Inf and -Inf are texts that ParseFloat accepts too.         *)
(* Settings that only need to be non-empty are left out: getEnv never      *)
(* returns an empty text for them.                                         *)
(***************************************************************************)
EXTENDS Integers, FiniteSets

CONSTANTS
  MaxSet,    \* variables that are set (bound)
  Whole,     \* parts of a whole
  MaxInt,    \* the greatest integer
  Amounts    \* the numbers that texts stand for

ASSUME ConfigAssumption ==
  /\ MaxSet \in Nat /\ Whole \in Nat \ {0} /\ MaxInt \in Nat \ {0}
  /\ Amounts \subseteq (-MaxInt * Whole)..(MaxInt * Whole)

VARIABLES
  env,     \* [Keys -> text]
  cfg,     \* [Keys -> value after conversion], once loaded
  status   \* unread, running, refused

configVars == <<env, cfg, status>>

Unset == <<"unset", 0>>
Num(n) == <<"num", n>>
NaN == <<"nan", 0>>
Inf == <<"inf", 0>>
NegInf == <<"-inf", 0>>
Garbage == <<"garbage", 0>>

\* Secrets and the environment's name are told apart by what validate asks:
\* empty, the default secret, shorter than 32 characters, long enough.  What
\* validate cannot tell from a secret, such as the placeholder that
\* docker-compose.yml publishes, is "long" too.
Text(c) == <<c, 0>>

Durations == {"JWT_EXPIRES_IN", "REFRESH_TOKEN_EXPIRES_IN", "REQUEST_TIMEOUT", "SHUTDOWN_DRAIN_DELAY"}
Floats == {"RATE_LIMIT_RPS", "RATE_LIMIT_BURST", "MAX_BODY_BYTES"}
Keys == Durations \cup Floats \cup {"ENV", "JWT_SECRET", "JWT_SECRET_FILE"}

\* JWT_SECRET_FILE stands for the contents of the file it names.
Texts(k) ==
  CASE k \in Durations        -> {Garbage} \cup {Num(n) : n \in Amounts}
    [] k \in Floats           -> {Garbage, NaN, Inf, NegInf} \cup {Num(n) : n \in Amounts}
    [] k = "ENV"              -> {Text("production"), Text("other")}
    [] k = "JWT_SECRET"       -> {Text("default"), Text("short"), Text("long")}
    [] k = "JWT_SECRET_FILE"  -> {Text("unreadable"), Text("blank"), Text("default"), Text("short"), Text("long")}

\* The defaults; of durations only their order and sign matter.
Default ==
  [k \in Keys |->
     CASE k = "ENV"                      -> Text("development")
       [] k = "JWT_EXPIRES_IN"           -> Num(30)
       [] k = "REFRESH_TOKEN_EXPIRES_IN" -> Num(90)
       [] k \in {"REQUEST_TIMEOUT", "SHUTDOWN_DRAIN_DELAY"} -> Num(30)
       [] k \in Floats                   -> Num(10 * Whole)
       [] OTHER                          -> Text("default")]

Environments ==
  UNION {{[k \in Keys |-> IF k \in K THEN f[k] ELSE Unset] :
            f \in {g \in [K -> UNION {Texts(k) : k \in K}] : \A k \in K : g[k] \in Texts(k)}} :
         K \in {L \in SUBSET Keys : Cardinality(L) <= MaxSet}}

ConfigInit ==
  /\ env \in Environments
  /\ cfg = Default
  /\ status = "unread"

----------------------------------------------------------------------------
getEnv(k) == IF env[k] = Unset THEN Default[k] ELSE env[k]

\* ParseDuration, ParseFloat.
getEnvNumber(k) == IF env[k] \in {Unset, Garbage} THEN Default[k] ELSE env[k]

\* The file is preferred; one that cannot be read means the default secret.
getEnvOrFile ==
  CASE env["JWT_SECRET_FILE"] = Text("unreadable") -> Default["JWT_SECRET"]
    [] env["JWT_SECRET_FILE"] = Unset              -> getEnv("JWT_SECRET")
    [] OTHER                                       -> env["JWT_SECRET_FILE"]

\* int() and int64() cut the fraction towards zero (0.5 and -0.5 are 0).
Truncate(n) == IF n >= 0 THEN n - (n % Whole) ELSE -((-n) - ((-n) % Whole))

\* What becomes of NaN and Inf depends on the machine: the least integer, 0,
\* or the greatest; -Inf is the least everywhere.
Least == Num(-(MaxInt + 1) * Whole)
Integer(v) ==
  CASE v = NaN    -> {Least, Num(0)}
    [] v = Inf    -> {Least, Num(MaxInt * Whole)}
    [] v = NegInf -> {Least}
    [] OTHER      -> {Num(Truncate(v[2]))}

\* A comparison with NaN is false.
AtMost(v, w) == v # NaN /\ v # Inf /\ w # NaN /\ (v = NegInf \/ v[2] <= w[2])

\* Mutant: production is not treated apart.
AnySecret(c) == c["JWT_SECRET"] = Text("blank")

WeakSecret(c) ==
  \/ c["JWT_SECRET"] = Text("blank")
  \/ c["ENV"] = Text("production") /\ c["JWT_SECRET"] \in {Text("default"), Text("short")}

\* Mutant: the lifetimes are not compared.
AnyLifetimes(c) == AtMost(c["JWT_EXPIRES_IN"], Num(0)) \/ AtMost(c["REFRESH_TOKEN_EXPIRES_IN"], Num(0))

Lifetimes(c) ==
  \/ AtMost(c["JWT_EXPIRES_IN"], Num(0)) \/ AtMost(c["REFRESH_TOKEN_EXPIRES_IN"], Num(0))
  \/ AtMost(c["REFRESH_TOKEN_EXPIRES_IN"], c["JWT_EXPIRES_IN"])

\* An error of validate; they are joined and any of them refuses the start.
Invalid(c) ==
  \/ WeakSecret(c)
  \/ \E k \in Floats \cup {"REQUEST_TIMEOUT"} : AtMost(c[k], Num(0))
  \/ Lifetimes(c)
  \/ AtMost(c["SHUTDOWN_DRAIN_DELAY"], Num(-1))

\* What Load reads for k, before the conversion to integers.
Read(k) ==
  CASE k \in Durations \cup Floats -> getEnvNumber(k)
    [] k = "JWT_SECRET"            -> getEnvOrFile
    [] OTHER                       -> getEnv(k)

Load ==
  /\ status = "unread"
  /\ \E burst \in Integer(Read("RATE_LIMIT_BURST")), body \in Integer(Read("MAX_BODY_BYTES")) :
       cfg' = [[k \in Keys |-> Read(k)] EXCEPT !["RATE_LIMIT_BURST"] = burst, !["MAX_BODY_BYTES"] = body]
  /\ status' = IF Invalid(cfg') THEN "refused" ELSE "running"
  /\ UNCHANGED env

Done == status # "unread" /\ UNCHANGED configVars

ConfigNext == Load \/ Done

ConfigSpec == ConfigInit /\ [][ConfigNext]_configVars

----------------------------------------------------------------------------
(* Properties *)

\* A process in production never runs with the published secret or a short
\* one, whichever of the variable and the file are set, wrong or missing: a
\* secret file that is not mounted refuses the start.
ProductionSecretIsStrong ==
  status = "running" /\ env["ENV"] = Text("production")
    => /\ cfg["JWT_SECRET"] = Text("long")
       /\ env["JWT_SECRET_FILE"] # Text("unreadable")

\* A process that runs can serve: a bucket holds a whole token and a body a
\* whole byte after the conversion to integers, requests have time, and a
\* refresh token outlives the access token it came with.
RunningCanServe ==
  status = "running" =>
    /\ \A k \in {"RATE_LIMIT_BURST", "MAX_BODY_BYTES"} : cfg[k][2] >= Whole
    /\ cfg["REQUEST_TIMEOUT"][2] > 0
    /\ cfg["REFRESH_TOKEN_EXPIRES_IN"][2] > cfg["JWT_EXPIRES_IN"][2]
=============================================================================
