# Verification of taskflow-api

TLA+ models of the taskflow API, a Go service over PostgreSQL: users sign up,
log in, rotate refresh tokens and log out, and keep tasks of their own behind a
per-client rate limit. The models are checked with TLC on small instances and
the main properties are proved with TLAPS for every value of the constants.

`tlc -config <cfg> <MC module>` repeats a run and `tlapm <X>Proofs.tla` the
proofs of a module. `PROJECT.json` maps every definition to the lines it models.

## Inventory

| Component | State | Operations | Interacts with |
|---|---|---|---|
| Auth (`service/auth_service.go`, `handler/auth_handler.go`) | none of its own; a request holds the row it read | Signup, Login, Refresh, Logout | users and refresh_tokens tables |
| Refresh tokens (`repository/refresh_token_repository.go`) | table `refresh_tokens` | Create, FindByHash, Revoke, RevokeAllForUser | called by Auth, one statement each, no transaction |
| Users (`repository/user_repository.go`) | table `users`, UNIQUE email | Create, FindByEmail, FindByID (unused) | called by Auth and the seed |
| Tasks (`service/task_service.go`, `handler/task_handler.go`, `repository/task_repository.go`) | table `tasks`, its id sequence | Create, List, Get, Update, Delete | the user id set by the Auth middleware |
| Error mapping (`handler/errors.go`, `domain/errors.go`) | none | writeDomainError | all handlers |
| In-memory limiter (`middleware/ratelimit_memory.go`) | map IP -> visitor (limiter, lastSeen), a mutex | allow, cleanupLoop | rate limit middleware; a goroutine that never ends |
| Redis limiter (`middleware/ratelimit.go`, `ratelimit_redis.go`) | counters with expiry in Redis | allow, choice of backend, fail open | shared by replicas |
| HTTP pipeline (`router.go`, `middleware/*`) | metric counters, request id | one middleware each | wraps every handler |
| Access tokens (`service/token.go`, `middleware/auth.go`) | none (signed JWT) | Generate, Validate | task routes |
| Start (`cmd/api/main.go`, `database/database.go`, `migrations/`) | the schema | Load, tracing.Init, Connect with retry, Migrate, serve; any failure exits | other replicas, over one database; the orchestrator restarts |
| Shutdown and probes (`cmd/api/main.go`, `handler/health_handler.go`) | draining flag, listener, requests in flight | drain, Shutdown, flush, exit; `/readyz` | load balancer probes, the orchestrator's grace period |
| Seed (`cmd/seed/main.go`) | none | create users and tasks, skip what exists | Auth and Tasks |
| Configuration (`config/config.go`) | none that changes | Load, validate | read once by every process |
| Logging, tracing | none that changes | | |

What is hard here is not any one statement but what happens between two: a
service call is a sequence of autocommitted statements, other requests run in
between, the request's deadline or the death of the process can end it at any
of them, and a statement can commit although its caller sees an error.

Properties that make each part correct:

- Auth: a session has at most one usable refresh token; a token is exchanged at
  most once; an ended session stays ended; tokens go only to who proved the
  password; a success answer is true.
- Tasks: only its owner reads, changes or deletes a task, although the write is
  by id alone; a deletion is final and succeeds once; total and page agree.
- In-memory limiter: eviction and lazy refill are invisible.
- Redis limiter: what a client is admitted per second, over replicas, delayed
  and failed calls; counters do not stay behind.
- Pipeline: every request is logged once and counted at most once, with the
  status it was answered with, also when it panics or times out; every request
  ends.
- Access tokens: what a logout leaves open is bounded by the life time.
- Start: a replica that serves has the whole schema; replicas that start
  together all come to serve.
- Shutdown: no request meets a closed listener while the load balancer believes
  the replica ready; the phases fit the grace period; shutdown ends; which exits
  skip the flush.
- Seed: running it again neither duplicates nor leaves out.
- Configuration: what starts is safe and can serve.

## Modules

`HttpErrors` holds the status codes and the mapping of `writeDomainError`.

**`AuthService`** has the two tables, the set of tokens clients have received,
the requests in flight and a clock. A request is a record: the handler that
runs (`op`), the statement it is about to send (`pc`), its arguments, the row
`FindByHash` returned (`existing`), and the answer. The actions are one per
handler entry (`BeginSignup`, `BeginLogin`, `BeginRefresh`, `BeginLogout`,
`Reject` for bodies that fail to decode or validate), one per SQL statement
(`CreateUser`, `FindUser`, `FindByHash`, `Revoke`, `RevokeAllForUser`,
`IssueTokenPair`), one per decision taken on the row that was read
(`DecideRefresh`, `DecideLogout`) and `Reply`. Separating the decision from the
read lets the clock move in between, as it does in the code. `Fault` is a
statement that failed without effect; `Acknowledge` adds to each writing
statement the outcome in which it committed and the caller sees an error;
`Cancel` ends a request anywhere (deadline, client gone, process crash: all
state is in the tables, so a restart is the cancellation of the requests in
flight). A statement that commits after its request was cut off is covered by
the interleaving in which the cut comes after the commit, as slots are not tied
to clients.

Abstractions: a refresh token stands for its plaintext, hash and row id; a user
for the UNIQUE email; a bcrypt hash for the password it verifies. The access
token is not modelled here. `session` and `parent` of a row are history
variables, written once at the insert.

**`Sessions`** is what rotation promises, without requests or statements: open,
take, renew, abandon, end, end all sessions of a user. `AuthService` maps its
tables to it (`S`), and `ImplementsSessions` is its specification.

**`TaskService`** has the tasks table, the id sequence and the requests in
flight, with the same control (`Fault`, `Acknowledge`, `Cancel`). The user of a
request has been identified by the Auth middleware. Title, description and due
date are one value. The effective limit and offset are computed as in
`TaskService.List`; a page is any subset of the matching rows of the size LIMIT
and OFFSET give, since ORDER BY created_at does not matter to the properties.

**`MemoryLimiter`** has the map of visitors, the tokens and times inside each
`rate.Limiter`, and a clock. `Allow` and one sweep of `cleanupLoop` are atomic
because both hold the mutex. The minute ticker's phase is left open. A token
costs `Cost` units and `Rate` units arrive per tick, so that every ratio of
RATE_LIMIT_BURST and RATE_LIMIT_RPS has an instance in integers. `rate.Limiter`
is external and modelled from its use. **`TokenBucket`** is the specification:
buckets that fill all the time.

**`RedisLimiter`** has the counters in Redis with their expiry, the limiter each
replica chose when it started (`Start`, `Restart`), and the calls in flight: a
request names its counter after the Unix second its replica reads (`Arrive`)
and runs the script later (`Allow`; `FailOpen` for a call that fails, with or
without having run, and is repeated by the client library or lets the request
pass). The script is one step, as Redis runs scripts one at a time; handling
its answer depends on nothing but the answer, so it is part of the same step.
`Second` (the unit of the key, from `time.Now().Unix()`) and `Window`
(`windowMillis`, the life time) are two constants because they are two facts in
the code. Delay and clock skew are bounded by `MaxDelay` and `MaxSkew`.
`WindowBounded` is what the limiter guarantees under them, `WindowCapped` what
its comment claims.

**`HttpPipeline`** is the way of a request through the middlewares, from the
moment its header was read. `http.TimeoutHandler` (external) runs the handler
in a goroutine of its own, so a request has two threads: `pc` is the server's,
through `RootMux`, `Limit`, the `Select` of the timeout handler, `Count`
(Metrics), `Recover` and `Log`; `hnd` is the handler's, which writes to a buffer
and may hang, panic, or end after the answer. `recMet` and `recLog` are the two
`statusRecorder`s, `sent` the first header on the connection and `got` what
reached the client: nothing does after `WriteTimeout` or when the client has
left. Time is counted per request. Routes are told apart only as far as
middlewares treat them differently; the handlers' statuses are one of each kind,
as the service modules have the rest, and a body beyond MAX_BODY_BYTES is one that
does not decode (`RefuseBody`). An operational endpoint's write is the last thing
it does, so it can panic before it only. Response headers, `SecurityHeaders`
among them, and request ids are not state here.

**`Startup`** is `main` up to the listener, on several replicas over one
database. A migration file is one implicit transaction, so it is applied or not;
the look of IF NOT EXISTS and the creation are two steps, between which another
replica's transaction may commit (PostgreSQL is external; this is how it
behaves). Faults: a tracer that cannot be built, failed pings, a broken
statement before or after its commit, a signal, a crash, a taken port. Each one
is counted, up to `MaxFaults`.

**`Lifecycle`** is `main` from the listener on, with discrete time: a listener
that fails and ends the process (`ListenFails`), the signal, `draining`
and `/readyz`, the drain delay, `Shutdown` with its deadline, `os.Exit(1)` when
it passes, and the deferred flush. The other deferred calls, which close the
database and Redis, take no time. External are a load balancer that probes
every `Period`, takes a replica out after `Threshold` failures in a row and
returns it after one success, and an orchestrator that kills the process `grace`
after the signal, one of `Graces`. The database is up or down as it likes.
What each promise needs of the times is part of its property (`NoticedInTime`,
`FitsGrace`).

**`AccessTokens`** composes the tokens with `Sessions`, the abstract
specification that `AuthService` implements: `Issue` is a step of the session
(`Open` or `Renew`) and hands out the token that `Generate` signed before. A
token is its session, the secret it was signed with, and its times. Replicas
read the secret when they start, and each has a clock of its own, at most
`MaxSkew` ahead of the slowest. Time is in fractions of a second, the expiry
is cut to whole seconds.

**`Seed`** is the command, one action per call it makes, with the failures it
passes over and the ones it exits on; the statuses of the templates are the
command's own. Runs follow each other or overlap, and owners of the accounts add
tasks at any time. That an owner deletes, renames or finishes a seeded task is
left out: a later run creates a missing title again and leaves a changed status
alone, which is what the owner's choice and the skip by title mean. `misled` is a history variable: some run was not shown all
the tasks there were, or was not alone.

**`Config`** is `Load` as one step over every environment that sets up to
`MaxSet` variables, each to one of the classes of texts that parsing,
conversion and validation tell apart. A number is one of `Amounts`, counted in
parts of a `Whole` so that fractions can be cut; texts beyond `MaxInt` are Inf.
Integers made from NaN, Inf or -Inf differ between machines and are a choice. A
secret is told by its length and whether it is the default of `Load`: the
placeholder `docker-compose.yml` publishes is one of the long ones, and `validate`
lets it pass.

The definitions of `Startup` and `Config` that every specification has carry the
module's name (`StartupInit`, `ConfigSpec`, ...), so that one module can extend
both next to `Lifecycle` and prove what holds over the life of a process.

`MCAuth`, `MCTask`, `MCLimiter`, `MCRedis`, `MCPipeline`, `MCStartup`,
`MCLifecycle`, `MCAccess`, `MCSeed` and `MCConfig` instantiate them; `*Proofs`
hold theorems.
Operators commented "Mutant" are plausible errors in the definition below them;
no specification uses them, they show that a property can fail.

## Runs

| Run | Result | Bounds |
|---|---|---|
| `auth_rotation` | holds: `TypeOK`, `OneCurrentToken`, `SingleUse`, `SuccessRevokes`, `IssueAuthenticated`, `ImplementsSessions` | 2 requests, 2 users, 2 passwords, 3 tokens, clock 0..1 with life time 0 |
| `auth_reuse` | violated: `ReuseEndsSession` | 2 requests, 1 user, 3 tokens |
| `task_safety` | holds: `TypeOK`, `OwnTasksOnly`, `OneDeleteSucceeds`, `OwnerWrites`, `DeletedStaysDeleted` | 2 requests, 2 users, 2 ids, pages of 1 and 2 |
| `limiter_bucket` | holds: `TypeOK`, `AdmissionsBounded`, `ImplementsBucket` | 2 clients, burst 2, half a token per tick, eviction after 3, 10 ticks |
| `redis_window` | holds: `WindowBounded`, `NoKeyStaysBehind` | 2 requests, 2 replicas, 1 client, burst 1, three seconds of 2 ticks, delay and skew 1 tick each |
| `redis_late` | violated: `WindowCapped` | 3 requests, 2 replicas, 1 client, burst 2, seconds of 2 ticks, delay 1 tick, no skew |
| `pipeline_accounting` | holds: `TypeOK`, `AccountedOnce`, `LogTellsAnswer`, `TimeoutAnswered`, `PanicNotSwallowed`, `EveryRequestEnds` | 1 request, request timeout 2, limiter 1, WriteTimeout 4 |
| `startup_schema` | holds: `StartupTypeOK`, `ServingHasSchema`, `AppliedInOrder`, `EveryReplicaServes` | 3 replicas, 2 migrations, 2 pings, 2 faults |
| `lifecycle_drain` | holds: `NoneRefused`, `EndsWithinGrace`, `CutOnlyLate`, `UnflushedExits`, `ShutdownEnds` | 2 requests; units of 2.5s: drain 3, probe every 1, threshold 2, Shutdown 4, flush 2, grace 2, 4 or 10 |
| `access_exposure` | holds: `BoundedExposure`, `FullLifetime` | 2 refresh tokens, 2 users, 2 replicas, 2 secrets, life time 2s in half seconds, skew half a second |
| `seed_rerun` | holds: `TypeOK`, `NoDuplicates`, `LeavesAll`, `StatusesSeeded` | 2 runs, also at once, 2 users, 4 templates in windows of 3, a page of 3, 2 faults, 1 task of the users |
| `config_load` | holds: `ProductionSecretIsStrong`, `RunningCanServe` | 3 variables set at once; numbers in halves: -1, -0.5, 0, 0.5, 1, 30, and NaN, Inf, -Inf |

Why the bounds are enough to be interesting: two requests are two refreshes of
one token, or a refresh and a logout or a reuse, between each other's
statements; three tokens are a session that is exchanged twice, or one that is
exchanged next to a session of another user. The proofs have any number of each.
A tick past the life time makes tokens expire between
any two steps. Two requests and two ids let a task be deleted, and another be
created, between the check and the write of an update. Ten ticks are two
evictions with refills before, between and after. Clients of the Redis limiter
share no counter, so one is enough; three seconds show whether the counter of
the first one is gone when that of the third appears. A delay and a skew of half
a second each are what the code's life time of one second answers with two lives
of a counter (`Lives`); a burst of 1 makes every further life an admission too
many, so two calls in flight and two per counter are enough to exceed the bound
if a counter had a third life. The violation needs no skew, and a burst of 2 to
look like the code's: two calls use up a counter, the third is late. Requests share nothing in
the pipeline but the counters, so one with its two threads is enough; its timers
are such that each of limiter, handler and client may be first. Three replicas
and two migrations let one replica fail between the files while two others race.
The three grace periods kill the process in the drain, in Shutdown, and never.
Two refresh tokens are a session that is renewed or two sessions, four ticks of
life end between any two steps. A page of three with a window of three hides a
template as soon as the user adds a task; two runs are one after another, or
overlap. The conditions of `validate` join at most three
variables, so three at once meet every combination. Where the bounds matter most
the proofs remove them.

Bounds named in the modules: `MaxFaults`, `MaxRuns`, `MaxOwn`, `MaxSecrets`,
`MaxSet`, `Tokens` (with `TokensToSpare`, which keeps a request that may issue a
token from starting when it could not get one; a refresh with a token that is no
longer live issues none and always starts), `MaxTime`, `MaxTasks`,
`MaxCount` (calls one Redis counter counts; more than the burst plus one).
Deadlock is checked in all runs: some request can always start, and where the
instance is over (`Finished`, `Settled`, `Over`, `Done`) it stays so.

The types of `RedisLimiter`, `Lifecycle` and `AccessTokens` are proved
(`TypeCorrect`) and not checked again by the runs.

Symmetry is used in the runs without liveness (`auth_rotation`, `task_safety`,
`limiter_bucket`, `redis_window`, `redis_late`, `access_exposure`, `seed_rerun`), over values
no definition tells apart.

Fairness: `HttpPipeline` assumes weak fairness of the server's thread, which the
Go scheduler runs, and of time, not of handlers, which may hang. `Startup` assumes
that a running process goes on (every call has a deadline or a retry bound) and
that the orchestrator restarts one that exited; faults are finitely many.
`Lifecycle` assumes that timers fire, requests end at their timeout and
the load balancer probes; the trace collector may never answer, only the
deadline of the flush ends it. The other specifications have no fairness and no
liveness property: their handlers are straight-line code, and a sweep of the
limiter is never owed.

### Where code and documentation disagree

`auth_reuse`: an exchange between its revoke and its insert escapes
`RevokeAllForUser`, so a session survives a detected reuse that
`auth_service.go` says forces "re-authentication everywhere". The access token
minted with it and later refreshes work until the next reuse or expiry.

`redis_late`: a counter lives one second from its first increment, and calls that
name its second reach Redis later than that as soon as they take any time. Such a
call creates the counter again, and the client has more than the burst of one
second admitted, where `ratelimit_redis.go:26-27` says "capped at burst requests
per window". (The doubled burst at a boundary that the comment accepts is of two
windows.) `WindowIsBounded` says what is kept: one burst per life of the counter,
two lives while delay and skew together stay within a second.

Smaller ones, met while modelling. They follow from the modules' actions, and no
run is spent on them:

- Of two overlapping refreshes of one token the loser is answered 404 (`Revoke`
  finds no row, `ErrNotFound` is wrapped with `%w`); `api/openapi.yaml` has 401
  for a token that is already revoked and no 404. A logout that loses such a race
  is answered 404 too, where `api/openapi.yaml` promises 204 "also returned if
  already revoked".
- Count and page of a list come from two statements, so a page can hold a task
  the total does not count.
- Eviction gives a client a full bucket early when the burst exceeds 180 times
  the rate, where `ratelimit_memory.go` says "exact for a single instance". With
  the default limits (10 and 5 per second) `RefilledBeforeEviction` holds.
- Recover is outside Metrics, so the 500 of a panic is in no counter, where
  `router.go:56-58` says every response is "accounted for exactly once";
  `AccountedOnce` states exactly what happens: one log line always, and no count
  if Recover caught a panic, one otherwise.
- Timeout passes a copy of the request on; Metrics sees the outer pattern, and all
  API requests are counted as `/api/v1/`, where `metrics.go:39` gives "GET
  /api/v1/tasks/{id}" as an example of its label. `Label` is what the code
  computes; no property is about it beyond its fixed set of values (`TypeOK`).
- A handler that panics after its timeout is reported nowhere, where `recover.go`
  says "a panic anywhere in the handler chain".
- The server's WriteTimeout (10s) is over before the default REQUEST_TIMEOUT
  (15s), so its 503 never arrives. `TimeoutsAreAnswered` says what would do:
  limiter and request timeout together below WriteTimeout (`AnswersInTime`).
- With the default drain delay (5s) and the manifest's probe (every 5s, twice) the
  listener closes before two probes failed. Kubernetes also takes a pod that is
  being deleted out of its endpoints, and the manifest's preStop sleep helps
  there. `NobodyIsRefused` says which delay would do (`NoticedInTime`).
- `os.Exit(1)` skips the flush that "must be called before the process exits"
  (`tracing.go:25-26`): when Connect or Migrate fails (`main.go:64`, `main.go:70`;
  `OnError` of `Startup`), when the listener fails (`main.go:115`) and when
  requests outlast Shutdown (`main.go:139`). `UnflushedExits` says that from the
  listener on there is no other way.
- Replicas that start together on an empty database race in CREATE TABLE IF NOT
  EXISTS and one may exit; `EveryReplicaServes` shows that a restart mends it.
- While a new JWT_SECRET is rolled out, replicas reject each other's tokens; the
  runbook says refresh tokens "will mint new, valid access tokens on next use".
- More than 100 tasks make a seed run repeat templates, an interrupted one leaves
  a task pending for good, and the third user never has a done task, where README
  and comments say otherwise; hence the conditions of `NoDuplicates` and
  `StatusesSeeded`.
- NaN is accepted as RATE_LIMIT_RPS.

## Proofs

Proved for all constants that satisfy the assumptions stated in the modules
(times and limits are naturals, `None` is no other value, page limits are
positive):

| Module | Theorem | States |
|---|---|---|
| `AuthServiceProofs` | `TypeCorrect`, `RotationCorrect`, `TokensAreSingleUse`, `SuccessIsRevocation`, `IssueIsAuthenticated` | the invariants of the runs |
| | `SessionsImplemented` | `Spec => ImplementsSessions` |
| `TaskServiceProofs` | `TypeCorrect`, `TasksAreIsolated`, `DeletionsSucceedOnce` | the invariants of the run |
| | `OnlyOwnersWrite`, `DeletionIsFinal` | its action properties |
| `MemoryLimiterProofs` | `TypeCorrect` | the type invariant |
| | `EvictionIsInvisible`, `AdmissionsAreBounded` | refinement and bound, from `RefilledBeforeEviction` |
| `RedisLimiterProofs` | `TypeCorrect` | the type invariant |
| | `WindowIsBounded` | `WindowBounded`, for any delay, skew and life time |
| | `KeysGoAway` | `NoKeyStaysBehind`, for any delay, skew and life time |
| `HttpPipelineProofs` | `TypeCorrect`, `RequestsAreAccountedOnce`, `LogIsTrue`, `PanicsAreNotSwallowed` | the invariants of the run |
| | `TimeoutsAreAnswered` | `TimeoutAnswered`, from `AnswersInTime` |
| `ProcessProofs` | `SecretIsStrongInProduction`, `RunningProcessCanServe` | the invariants of `config_load` |
| | `StartupTypeCorrect`, `SchemaIsComplete`, `MigrationsAreOrdered` | the invariants of `startup_schema` |
| | `TypeCorrect`, `NobodyIsRefused`, `EndsBeforeTheKill`, `OnlyLateRequestsAreCut`, `FlushIsSkippedInTwoWays` | types and the invariants of `lifecycle_drain`, with their conditions on the times |
| `SeedProofs` | `TypeCorrect`, `TemplatesAreNotDuplicated`, `NothingIsLeftOut`, `StatusesAreSet` | the invariants of the run |
| `AccessTokensProofs` | `TypeCorrect`, `ExposureIsBounded`, `LifetimeIsKept` | the invariants of the run |

The arguments:

- **Auth.** `OneCurrentToken` alone is not inductive: a request acts on a row it
  read earlier. `Inv` adds `RowInv` (what a row that exists looks like, and that
  the first token of a session belongs to it), `RequestInv` for every request
  (per `pc`: which fields are set; and that the snapshot `existing` agrees with
  the table except that the row may have been revoked since), and `LineageInv`
  (a token with a child, or in exchange, is revoked). Then the conditional
  UPDATE is the point that decides: it succeeds for one request only, that
  request alone is `Exchanging` in its session, and no live token of the session
  is left. The refinement follows step by step from `Inv`.
- **Tasks.** `Inv` says that ids at or above `nextId` have no row, and that a
  request past its ownership check holds an id below `nextId` whose row is its
  user's or gone (`OwnOrGone`). It is stable because owners never change and
  the sequence never returns to an id; the write by id alone is safe for this
  reason only.
- **Limiter.** When a visitor is evicted it was last seen more than
  `EvictAfter` ticks ago, and was last charged no later; so its bucket is full,
  and a new limiter is the same bucket. `Accounting` relates the admissions so
  far to the level.
- **Redis limiter.** A call in flight knows that its second had begun on the
  fastest clock and not ended on the slowest when it arrived, `MaxDelay` ago at
  most (`CallInv`). The lives of one counter follow each other: one begins only
  when the one before has expired, `Window` after it began. So `CounterInv` keeps,
  for each counter, a number k of earlier lives such that they and the present one
  fit between the begin of the second on the fastest clock and the expiry, and
  admissions are at most `Burst` for each earlier life, and for the present one
  what the counter counts, up to `Burst` (`LivesInv`). A call can begin a life only up to `MaxDelay` after its
  second ended on the slowest clock; that bounds k by `Lives`. For the
  keys that stay behind: the script gives a counter its expiry in the step that
  creates it, so a key lives no longer than the life time after a call that named
  its second, and that call was at most `MaxDelay` late and `MaxSkew` off
  (`LifeInv`). Hence the seconds with a key lie in an interval, and `KeysAtOnce`
  counts it; with the code's life time of a second and no delay or skew these are
  two.
- **Config.** What is set is one of the texts (`EnvInv`), and `Load` is a single
  step, so the argument is the path of a value through fallback, conversion and
  validation: a cut number that is positive is at least a whole
  (`TruncatedWhole`), and the integers NaN and Inf can become are refused or are
  the greatest.
- **Pipeline.** On the way in nothing is recorded or written (`Untouched`), and
  every path out passes one write, or the one of Recover, and one of each
  account (`Recorded`); a handler's thread changes its buffer only. For the
  timeout, `TimeInv` bounds the age of a request by where it is.
- **Startup.** A replica at a position has seen the files before it in the
  database (`PosInv`), and the schema only grows, in order (`InOrder`). The types
  of attempts, flags and faults are a part of their own (`Rest`): they need
  nothing of the argument, and different provers.
- **Shutdown.** The time since the signal and what is left of the running timer
  add up to the phases so far, and the time since a probe could first fail
  bounds the failures still missing. A listener can fail until Shutdown closes it,
  so no later than the drain delay, and a failed process stays as it is
  (`FailedIsFinal`).
- **Access tokens.** A token was signed before its session was last seen live:
  it is handed out in the step that opens or renews the session. Its expiry and
  the clock that is compared with it are each off by the skew at most.
- **Seed.** None of the three properties is inductive, as a run acts on a list it
  was shown earlier. `PlaceInv` says what a run's place means (between a create
  and its update the task is still there, under its title), `CleanInv` that what
  it was shown is still there and that a run without failures has left nothing
  out behind it; both are stable under whatever other runs and owners do, since
  tasks are only added and titles never change (`Kept`, `Stable`). `AloneInv`
  says that a run which is not misled is alone and knows every title of its user:
  from the list, from the owner, or because it created it. A window does not come
  round to a template again (`TemplateInjective`, from `PerUser <= Templates`), so
  the template it is at is new when it is not in the list (`CurrentIsNew`).
  `StatusInv` gives every task without its status the run that is about to set
  it; overlapping runs do not disturb each other as each updates the task it
  created.

Only model-checked: `EveryRequestEnds`, `EveryReplicaServes` and `ShutdownEnds`,
as liveness under fairness is outside the prover's reach, and the two violations. Every invariant, action property and
refinement of a passing run is also proved.

## Not modelled, and the plan

Modelled: `HttpErrors`, `AuthService` with `Sessions`, `TaskService`,
`MemoryLimiter` with `TokenBucket`, `RedisLimiter`, `HttpPipeline`, `Startup`,
`Lifecycle`, `AccessTokens`, `Seed` and `Config`.

Left out for good: wording and layout of bodies, headers and log lines, the set-up
of log handlers, of the tracing exporter and of Prometheus, settings that only
have to be non-empty, the manifests as such, JWT and bcrypt themselves, and the
order of rows in a page. A bound on the memory of the in-memory limiter is not
stated by the code, so there is none to check. Liveness under fairness is
outside the prover's reach and stays with TLC.
