# A verification of nestjs-ddd-dual-db

TLA+ modules of the parts of this service whose correctness depends on the
order of events: what concurrent requests, cache entries, database answers,
sockets, timers and crashes can do to each other. TLC checks them on small
instances; TLAPS proves every safety property and every refinement of the passing
runs for every instance.

Run everything from this directory:

    tlc -workers 2 -config UserService.cfg MCUserService
    tlapm UserServiceProofs.tla

`PROJECT.json` lists the runs, the plausible slips (*mutants*) that show each
property can fail, the source lines every definition stands for, the findings,
the hazards and the theorems. Paths below are relative to the repository's
`src/`.

## 1. The system

One Node.js process: Fastify, NestJS, PostgreSQL through TypeORM, MongoDB
through Mongoose, a cache (`cache-manager`), RabbitMQ for events, socket.io for
notices. JavaScript runs one callback at a time, so concurrency happens at
`await`s: a call is a sequence of atomic steps, and between two of them any
other call may run. That is how every module here splits a method.

| Component | State | Operations | Talks to | What is hard | Correct when |
|---|---|---|---|---|---|
| User service (`domain/services/user.service.ts`) | users table, cache entries, User objects in memory | create, findById, findByEmail, update, delete | repository, cache, event bus | shared object aliases, stale entries, save and emit without a transaction | the cache shows only what was stored or is owed; every created user is announced; NotFound is true |
| Session services (`infrastructure/services/session.service.ts`, `application/services/enhanced-session.service.ts`) | `session:*` entries | create, get, validate, update, delete, list | cache, gateway | write-backs of old copies; recursion | a session has no user and id but those its key was given; one that is gone stays gone unless a call holds it; listings are right; calls return |
| Session gateway (`infrastructure/gateways/session.gateway.ts`) | `userSockets` | connect, disconnect, two notices | JWT, socket.io | disconnect overtakes verification | notices reach all and only the user's clients |
| Auth service (`application/services/auth.service.ts`) | attempt counter per address | login, validateLogin, logout | user and session services, cache, bcrypt | check far from increment, read-modify-write | answers are true; the overrun is bounded; lockouts end |
| Circuit breaker (`infrastructure/services/circuit-breaker.service.ts`) | state, count, last failure | execute | external API | late settlements | admission depends only on failures and time |
| Guards (`app.module.ts`, `infrastructure/guards/`) | throttler's hits | one check per guard | JWT, cache, session service | order, shared counters, long waits | only entitled requests reach a handler |
| Health (`infrastructure/health/`) | one cache key | three probes | cache, connection flags | probes share the key | alarms have reasons, and `up` is earned |
| Metrics (`infrastructure/services/metrics.service.ts`) | three registries of metrics | record, count, set | prom-client | calls that throw half-way | what is recorded is shown |
| Request (`presentation/controllers/user.controller.ts`, `infrastructure/interceptors/`, `filters/`, `decorators/transaction.decorator.ts`) | none of their own: the answer and the metrics | time-out, transform, record, filter; createUser, getUser | metrics, user service | a handler outlives its request; a result is replaced on its way out | an answer tells the truth about the effect, and the metrics about the answer |
| Start (`main.ts`, `app.module.ts`, `providers.ts`, the modules they import) | connections | create, configure, listen | both databases, Nest | dependencies and scopes across modules show at run time only | the process comes to listen |

The remaining parts (the MongoDB repository, e-mail and the events handler,
the password policy, logging, middleware, configuration values, two unused guards,
two unused interceptors, error formatting, Swagger) are listed with reasons in
`PROJECT.json` under "components" and in section 7.

Facts about the wiring that the models rest on:

- Two caches are registered: `CacheModule.register()` in `app.module.ts:52`, and
  a global one with `store: 'memory'` in `infrastructure/database/database.module.ts:34-42`.
  Both are in-process. The repository's `README.md` documents Redis, and
  `infrastructure/database/redis.config.ts` configures it, but nothing uses it.
  Where the difference matters a constant chooses: `AwaitsYield` (do other
  requests run during a cache call?) and `MissIsNull` (does a missing key answer
  `null`, or `undefined`?).
- `AppModule` registers no controller but HealthModule's. The routes of
  `presentation/controllers` are modelled as their decorators declare them.
- As it stands the application does not start: `app.get(CustomLoggerService)`
  (`main.ts:43`) asks for a transient provider and throws (run Bootstrap). The
  lock file also pairs @fastify/helmet 13 and @fastify/compress 8, which ask for
  Fastify 5, with Fastify 4.28.1, and leaves out @nestjs/platform-socket.io;
  RequestTrackingMiddleware is given the logger class of `logger.service.ts`, which
  no module provides. The other modules model each part as it would run once
  started.
- `main.ts` starts Fastify, the e2e test Express. A Fastify request has no
  `request.route`, which MetricsInterceptor reads; RequestExchange has both.
- CircuitBreakerService depends on a logger that depends on a request-scoped
  service, so Nest makes one breaker per request (`IsStatic` in Bootstrap).
  CircuitBreaker models one breaker, as the class is written. The global
  SessionGuard depends on the same logger and is static no more than the breaker:
  as wired, a request that comes to `session.guard.ts:25` meets an instance whose
  SessionService was not injected. RequestGuards takes the guard as its class is
  written, which adds behaviours and takes none of the refusals away.
- `auth.service.ts:84-89` means to compare a password with `'dummy-hash'` for an
  unknown user, as a protection against timing; it never does, because
  `findByEmail()` throws NotFound for such a user before any comparison. AuthService
  models what happens: the answer is NotFound.
- `User` has no `@Entity` decorator; the model takes the repository to work as
  TypeORM documents it.
- Versions read for external behaviour: cache-manager 5.7.6 (set clones, get
  returns the kept object, wrap runs one fill per key, TTLs in milliseconds,
  a clock advanced by timers only), @nestjs/throttler 5.2.0 (each hit has its own
  timer; refused hits count), prom-client 15.1.3 (constructors register in the
  default registry; a registry takes a name once), @nestjs/terminus 10 (the
  answer is "error" only if an indicator throws).

## 2. Modules

`MC<name>.tla` instantiates a module for TLC where a cfg alone cannot (symmetry,
record-valued constants). Operators commented *A plausible slip* are mutants; no
specification uses them.

**BreakerPolicy, CircuitBreaker, CircuitBreakerProofs.** `BreakerPolicy` is the
abstract promise, without any breaker state: a call goes through when fewer than
`failureThreshold` failures were seen since the last success, or the last failure
is at least `resetTimeout` old. `CircuitBreaker` is the code: `Admit` and
`Reject` are `execute()` up to its await, `Succeed` and `Fail` its two ways out,
`shouldReset`, `onSuccess`, `onFailure` the private methods. `age` is
`Date.now() - lastFailureTime`, counted up to `resetTimeout`.
`ImplementsPolicy` is the refinement (`streak <- failureCount`).

**UserService, UserServiceProofs.** `table` is the users table, `heap` the User
objects, `store` the cache (key to object), `lookup` the shared fill of a key,
`calls` one record per service call with the await it is at. Objects have
identity, because `get()` and `wrap()` hand the same object to several callers
and `update()` assigns to it. `FindHit`, `FindMiss`, `DbRead`, `DbReadFails`,
`UserMissing`, `UserFound` are `findById()`; `Assign`, `HashFails` are `update()` up
to its save; `SelectRow`, `Compare`, `Write`, `SaveFails` are the save as TypeORM does
it: a SELECT of the row, no statement if the object does not differ from it, else an
INSERT, or an UPDATE of the columns that differ (`Merged`), which resolves also if
the row has gone by then. `unsaved` notes the ids an update of which got lost that
way, or by an error. `CheckRow`, `DeleteRow`, `DeleteFails` are the rest of `delete()`;
`BeginCreate`, `Insert`, `InsertFails`, `Emit` are `create()`; `Publish` and
`PublishFails` the broker's answer. `Evict` is the TTL or the LRU. `Crash` loses
memory and keeps the database and the queue. A password is a value and its hash
another (`Hash`).

**SessionCheck, SessionService, SessionServiceProofs.** `SessionCheck` is the
contract of `getSession()` with whoever asks: a check is refused only while its
session is absent, and passes only if its session was found, whatever comes and goes
meanwhile; a failed command is neither. How long a check waits is not the contract's
affair, so a `getSession()` that returned at once would keep it too. `Stage` tells
how far a call's check is, and `ImplementsSessionCheck` is the refinement.
SessionService: both session services, over the entries they share. `store` maps ids
to sessions; a call's `frames` are the copies the nested `getSession()` calls hold.
`Read` is one `cache.get` (found: recurse; absent: unwind), `Unwind` one write-back
of `updateLastAccessed()`, `Answer` the outermost return, after which
`updateSession()` writes and a logout goes on (it passes the global SessionGuard,
the route's own, then deletes). `ListKeys` and `Scan` are `getUserSessions()`.
EnhancedSessionService reads once (`Peek`), and its `validateSession()` stores what
it read (`Touch`); these reads answer at once and are no checks. A session is its
`userId` and its `id`, the two fields other code reads: `Over` spreads a caller's
data, which may name either, over it, in `CreateSession` as in `Write`, and what
EnhancedSessionService stores has no id (`NoId`). `named` is the history of what the
session of a key was given. Times are left out, as no property is about them. A
cache command may fail when the cache is behind the network (`CommandFails`).

**Presence, SessionGateway, SessionGatewayProofs.** `Presence` is what a user may
expect: a client is somebody's or nobody's, and a notice reaches all and only the
clients a user has. `ImplementsPresence` maps a socket to its token's user while it
is verified and connected, whatever the map says (`present`). `userSockets` and
`known` are the map (its arrays, and which users have one). `Connect` is
`handleConnection()` up to its await; `Verified` and `Rejected` what follows;
`HandleDisconnect` may come between.

**AuthService, AuthServiceProofs.** `login()` and `validateLogin()` with the counter
`attempts` per address, its entry's `age`, and the rows others change. `held`
records what the call's row has been since the call began; `wrong` counts failed
comparisons. An unknown user is answered before any comparison (section 1).

**RequestGuards, RequestGuardsProofs.** Also over `SessionCheck`. A request walks
`Guards(route)`: the global guards in the order of `app.module.ts:65-94`, then the
route's. `hits` are the throttler's running timers per key; `valid`, `revoked`,
`live` are what is true of tokens and sessions, and change under the request. A
cache behind the network may fail (`CacheFails`): EnhancedJwtAuthGuard catches the
error and refuses the token, SessionGuard lets it end the request. A token may verify
and have no `sub` (`NoSub`), which `validateClaims()` refuses. A route not in
`AllRoutes` has the same guards as one that is there.

**HealthChecks.** Its definitions are `HealthInit` to `HealthTypeOK`, as they share
a module of proofs with the metrics (MonitoringProofs). Three kinds of probe
(`wired`: what HealthModule serves; `full`: the other controller; `rw`: the third
indicator) over the one key `health-check-test`.

**MetricRegistry, MetricsService.** `MetricRegistry` is what a caller may think
there is: one registry, which takes a name once, shows what it took for ever, and
loses a sample only if it shows no metric that fits it (`Fits`).
`ImplementsRegistry` maps it to the service's registry. `custom` is `customMetrics`,
`registry` the service's registry, `default` prom-client's. `RecordMetric` stands
for all six ways to record a custom metric; `HandlerAnswers` and `HandlerThrows` are
the interceptor's two branches where they come to record; behind Fastify they throw
before (RequestExchange).

**RemoteCall, RequestExchange, RequestExchangeProofs.** `RemoteCall` is what a
client may conclude from an answer: success means the effect took place, failure
that it did not and never will, anything else leaves both open. The refinement maps
an answer to what its status tells, and the effect to the user the handler stored.
`RequestExchange` is the way of a request: `Refuse` is a guard, `Admit` the
subscription from the outermost interceptor to the parameters, `TransactionThrows`,
`BodyRefused` and `Resolved` the parameters, `Hash` to `Find` the handlers' awaits,
`Settle` what becomes of a handler's result (dropped, if the time-out has
unsubscribed) and `Deliver` its way through the metrics to the filter. `sent` holds
all attempts of a client's request, because a handler goes on after its 408 beside
the next attempt. Three routes: `createUser` as it is declared, whose Transaction
parameter always throws, so that its handler never runs; `getUser`; and
`timedCreate`, which the code does not declare: the same handler behind the same
interceptor without that parameter. It is there because what TimeoutInterceptor does
to a handler at work cannot be seen on `createUser`.

**Bootstrap.** `AppModule` to `HealthModule` are the modules' declarations as
records (imports, exports, and what each provider needs); `Visible` is Nest's lookup
of a dependency and `IsStatic` whether a provider is one for the whole process.
`Connect`, `Refused`, `Create`, `Configure`, `GetLogger`, `Listen` are the steps of
`bootstrap()`; `Restart` is whoever starts the process again.

The modules are kept apart by what they share. `SessionCheck` stands between
SessionService and RequestGuards: the one is shown to keep it, for all its frames,
write-backs and other callers, the other to meet nothing in it that the contract
forbids, although it knows of a session only whether it is live. SessionService's
notices are SessionGateway's `Notify`; AuthService's `CreateSession` is
SessionService's `CreateSession`; UserService's rows are AuthService's `ChangeRow`;
RequestExchange's `Refuse` is a refusal of RequestGuards, its `Save` and `Emit`
UserService's `Insert` and `Emit`, its record MetricsService's `HandlerAnswers` and
`HandlerThrows`.

## 3. Runs

Passing runs (bounds in the cfg; each is explored completely, and unless it says
otherwise also checks the module's `TypeOK`, or `HealthTypeOK`):

| Run | Instance | Shows |
|---|---|---|
| CircuitBreaker | 3 calls, threshold 2, counter bound 4 | `ImplementsPolicy`, `NeverStuckOpen` |
| UserService | 2 calls, 1 id, updates of the password, 1 crash | `UncommittedOnlyWhenOwed`, `CreatedIsOwedAnEvent`, `NotFoundIsJustified`, `EveryCallReturns`, `CreatedIsAnnounced` |
| SessionService | 2 calls, 2 ids, 1 user, recursion to depth 2, the cache behind the network | `ImplementsSessionCheck`, `GoneForGoodReturns`, `OthersReturn` |
| SessionService_copies | the same with 2 users and updates that name the other user and a given id | `OwnersKept`, `ListingIsFaithful`, `GoneStaysGoneUnlessHeld` (without `TypeOK`) |
| SessionGateway | 3 sockets, 2 users | `StaleOnlyIfOvertaken`, `ImplementsPresence` |
| AuthService | 2 calls on one address, limit 1, the memory store, a row that changes | `AnswersAreJustified`, `CountIsExact`, `OverrunIsBounded`, `LockoutEnds` |
| Monitoring | 3 overlapping probes; then 2 metric names, all types, 2 label sets | `AlarmHasReason`, `UpIsEarned`; `ImplementsRegistry`, `RecordedIsShown` |
| RequestGuards | 5 routes (public, two throttlers, a session guard, a limit of its own, no throttling), all exemptions, hits of earlier requests still running | `WindowBound`, `AuthCountsKnown`, `AdmittedIsEntitled`, `ImplementsSessionCheck`, `OnlySessionsHoldUp` |
| RequestExchange | 1 client, up to 3 attempts of one request, 3 routes, both platforms | `ImplementsRemoteCall`, `RecordsMatchAnswers`, `TimedIsAnswered` |

Runs that expect a violation (each is a finding, quoted in `PROJECT.json`):

| Run | The code |
|---|---|
| Bootstrap | every start of the process ends at main.ts:43, before it listens |
| SessionService_logout | over the memory store, getSession() of a live session never returns, so neither does a logout |
| RequestGuards_blacklist | with the memory store every valid token is taken for a revoked one |

The last two are each true of their component over the memory store. In the composed
application the second hides the first: EnhancedJwtAuthGuard comes before
SessionGuard, and on every route that is not public refuses the token before
`getSession()` is called. Whoever repairs `!== null` meets the recursion next.

Read off the models, without a run of their own:

- `findById()` answers a deleted user for as long as its cache entry stays
  (`DeleteRow` leaves `store` alone), where `user.controller.ts:58` documents 404;
  for the same reason a second `delete()` succeeds (`CheckRow`), where
  `domain/services/__tests__/user.service.spec.ts:173` expects NotFoundException.
- The rate limiter is the first global guard, so its key never holds a user
  (`RateKey` at position 1): users behind one address share a counter, where
  `advanced-rate-limit.guard.ts:13` combines address and user, and the doubled limit
  is never given.
- `POST /users` never answers 201 (`TransactionThrows`), and behind Fastify every
  answer past the guards is a 500 (`Deliver`), also those whose user was stored.
- `isHealthy()` of `infrastructure/health/cache.health.ts`, the one HealthModule
  serves, reports a failing cache as data and throws nothing, and Terminus makes its
  answer "error" only for an indicator that throws: `/health` says "ok" (the verdicts
  themselves are right, see `UpIsEarned`).
- `SessionGuard` does not look at `@Public`, so the public `/health` is refused
  without a session id (`Guards("health")` contains `"session"`).
- `FindSession` refuses any absent session id with the notice "Your session has
  expired" to the token's user, whose own session may well live.
- `getUserSessions()` lists `undefined` for each session EnhancedSessionService stored
  (`Scan`): they lie under the same prefix and have no `id` (`session.service.ts:81`).
- Data given to `createSession()` and `updateSession()` may replace a session's `userId`
  and `id` (`Over`): the session then is another user's, and its `id` need not be its key.
- A delete between the SELECT and the UPDATE of a save makes `update()` answer with a
  user that is not stored, and the cache keep it (`Write`); a save whose SELECT
  came after the delete inserts the user again.

**Why these bounds.** The properties relate one user, session, socket or address
to the calls about it, so one or two of each data value suffice; what matters is
how many calls overlap. Two calls already give every pair of steps an order; the
breaker, the gateway and the probes have three, because there the third settles
what the other two left. In RequestGuards requests share nothing but the hits,
and each guard takes one atomic step on them, so it is enough that a request meets
hits of earlier ones at every point of its way, while timers drop them. Named
bounds: `MaxFailures` exceeds the threshold, and `MaxCount` the limit by more than
the calls in flight; `Load` lets a request arrive while as many hits run as the
smaller limit allows; `MaxDepth` lets a frame close over another, deeper recursion
overwriting the innermost frame; `MaxCrashes` is 1, as a crash resets all memory;
`MaxTotal` only ends the counting. In RequestExchange clients share nothing, so one
is enough; `MaxAttempts` is 3 so that a late handler meets an attempt that is at work
and one that is yet to come. `MaxTries` is the connection libraries' own bound.

The run Monitoring takes two components that share no variable, one at a time: each
moves only while the other is where it began (MCMonitoring), which leaves out
interleavings that neither can tell. The updates of the run UserService change one
column: that a save merges columns of different ages is in the model (`Merged`) and in
the proof of `UncommittedOnlyWhenOwed`, and met by no run.

**Symmetry** is used only in runs without liveness properties (SessionService_copies,
SessionGateway, Monitoring), over sets of interchangeable model values. That is also why
the sessions have two runs: the interleavings of copies with two users are too many to
check liveness over.

**Deadlock** is checked in every run.

## 4. Fairness

Weak fairness is assumed only of what the environment of the code guarantees:

- the database, bcrypt and the cache settle every promise, with a value or an
  error, and the event loop then runs the continuation (`Continue`, `Fill`);
- timers fire and the clock moves (`Tick`);
- the broker's client settles what it accepted (`Publish`), unless the process
  crashes, after which `CreatedIsAnnounced` promises nothing;
- in `CircuitBreaker` callers keep calling and operations settle: the
  code itself leaves `OPEN` only inside `execute()`.

- in `RequestExchange` only the timer of the time-out fires: handlers need never
  settle, guards need never let go;
- in `Bootstrap` connections are made, the steps of `bootstrap()` are taken, and the
  process is started again; `ComesToListen` asks only for processes that reach both
  databases, and fails all the same.

Nobody has to start a call otherwise, nothing has to expire or to be evicted, no
client has to disconnect. `SessionService_logout` fails under these assumptions
in its strongest form: every step of the call is fair, and it still never ends.

## 5. Properties worth reading

- `UncommittedOnlyWhenOwed`: what a field of a cached user shows was stored at some
  time, unless an update is about to store it or got lost. The shared object makes this
  a statement about aliases, and `save()`, which compares the object with a row that may
  have changed or gone by the time it writes, one about two columns of different ages.
- `NotFoundIsJustified`: a NotFound, which several callers of a fill may get at
  once, is true of a moment during that fill.
- `OwnersKept`: copies are written back long after they were read, also after a
  logout, and data may replace the user and the id in them; still a key's session
  is made of what its creator and its own updates gave it.
- `ImplementsSessionCheck`: what a guard may conclude from `getSession()`, in
  particular that a cache that fails is not a session that has expired. Two modules
  implement it from their two sides, so what RequestGuards takes a session check to be
  is what SessionService makes it. (That `getSession()` in fact hands a session back
  only once it has gone is `AnsweredOnlyOnceGone`, proved as the safety side of the
  finding SessionService_logout and no part of the contract.)
- `ImplementsPresence`: the map keeps ids of clients that left before they were
  verified, and none of that can be told from the notices.
- `ImplementsRegistry`: the metrics are kept in three places, by two keys, and calls
  throw between them; from outside there is one registry.
- `GoneStaysGoneUnlessHeld`: what is left of the promise of a delete, as five methods
  of two services write back what they read before.
- `OthersReturn`: the recursion is no one else's problem, although all work on the
  same entries; with `GoneForGoodReturns` it says exactly which calls may not return.
- `ImplementsRemoteCall`: a handler that outlives its 408 settles beside later
  attempts, and still no client is ever told of a failure that turns into a success;
  so only a retry after a 408 (or a 500 behind Fastify) can create a second user.
- `RecordsMatchAnswers`: the metrics tell what the client was told, not what the
  handler came to.
- `StaleOnlyIfOvertaken`: the exact condition of the gateway's leak.
- `OverrunIsBounded` with `CountIsExact`: check-then-act admits extra attempts,
  but by less than the number of calls in flight.
- `AdmittedIsEntitled`: what a handler may assume, and that it need not hold at a
  single moment. It does not say that the session is the token's user's: no guard
  compares the two.

## 6. Proofs

For every value of the constants that satisfies the module's `ASSUME`:

- **CircuitBreakerProofs** - the inductive invariant `Inv` joins the type
  invariant with `TrippedIffThreshold` and `HalfOpenIsCooledDown`; the latter needs
  the former, because an operation that fails late must be known to reopen.
  `AdmissionRule` (proved only) follows for each step, and `ImplementsPolicy` by mapping each
  action: `Admit` to the policy's `Admit`, `Reject` to `TurnAway`.
- **UserServiceProofs** - the safety properties are not inductive: they need that a
  live object holds a row (`LiveRow`), that an object is referred to by one id only
  (`OneOwner`), that calls have the shape of their await (`CallsShaped`),
  that stored rows are recorded (`RowsAreCommitted`) and that a fill knows
  when the row was absent (`LackedRecorded`). One lemma per action shows the part
  about objects (`Objects`), one per property the rest. For a save it matters what it
  selected and what it is about to write: `SavesTracked` says that the row it
  selected was once the table's, and is still there unless the id is in `unsaved`;
  `AllOwed`, column by column, that a value in memory was stored, is in `unsaved`, or
  is one that a save of that object will still find to differ and write (`WillSave`).
  `UncommittedOnlyWhenOwed` follows from the latter.
- **SessionGatewayProofs** - also that the map lists sockets under their own user
  only (`MapIsTight`) and every verified client that is connected
  (`ConnectedAreListed`). `Inv` adds `Fresh` (what holds of a socket before
  it is verified); `UnlistEffect` states what removing a socket from the map does,
  from which the case of `HandleDisconnect` follows.

- **SessionServiceProofs** - the properties rest on `Good`, one record at a time: its
  shape at each await (`Shape`), that every copy it holds is made of a user and an id
  its key was given (`Owns`, `Given`), and that a call that unwinds met an absent
  session, while a listing has every session that stayed the same in what it found or
  has still to look at (`Steady`). `KeptGood` shows that no step of another call
  disturbs this, since what a key was given is never taken back (`Grows`); `StepKeeps`
  then leaves one obligation per action. The stack of copies may be of any depth.
  `OwnersKept`, `AnsweredOnlyOnceGone`, `ListingIsFaithful` and
  `GoneStaysGoneUnlessHeld` follow.
- **AuthServiceProofs** - `Inv` has one part per call, `Sound`: what each await
  leaves known of `held`, the history of the row, so that `AnswersAreJustified`
  reads it off. Over the memory store (`ASSUME ~AwaitsYield`: nothing runs between
  the counter's get and set) `MemInv` adds that the counter is the number of failed
  comparisons and that, with `Past(ip)` the calls past the check,
  `attempts[ip] + Cardinality(Past(ip)) < Limit + Cardinality(Calls)`: a call enters
  `Past(ip)` only below the limit and leaves it before or as it counts.
  `CountIsExact` and `OverrunIsBounded` follow for any number of calls; with a cache
  behind the network neither is claimed.
- **RequestGuardsProofs** - `Order` is the one lemma about the lists of guards:
  which guard can be at which position. `Sound` says what a request has shown by
  the position it is at, `Noted` that its history is up to date; one lemma per
  guard gives what a request may become (`Moves`). `AdmittedIsEntitled` holds as
  only a request past the fourth guard is admitted. `KeyOK` is the counters' part:
  a hit passes only while fewer than the limit run, so `WindowBound` needs that the
  rate limiter comes before any user is known (`Sound` at position 1), and
  `AuthCountsKnown` that the other throttler comes after.
- **MonitoringProofs** - metrics: the map and the two registries agree between any two
  calls, also after one that threw half-way (`MapsAgree` with `ObtainEffect`), so the
  service's own registry never refuses a name that the default one took. Hence each
  call of `recordMetric()` is a step of `MetricRegistry` (`RecordMetricOne`): a name is
  taken in one place if it is in all. Probes: `Awaiting` is what a probe knows at each
  await of the entry it shares: another probe's delete, an expiry or an eviction is a
  loss it has on record.
- **RequestExchangeProofs** - the refinement needs an invariant that links an answer to
  the handler behind it. `Sound` is its part for one attempt: by the place the handler
  is at, which verdicts the client may have (a stored user means that the handler is
  past `Save`; a failure, that the handler has ended; the success of a creating route,
  that the user is stored), and what the metrics have counted. `Moves` says what a
  step may make of one attempt; the lemma `AttemptStep` turns it into both the next
  state's invariant and a step, or a stutter, of `RemoteCall`. So one lemma per action
  carries `RecordsMatchAnswers` and `ImplementsRemoteCall` together, for any number of
  clients and attempts.

The refinement arguments of the two other contracts:

- `ImplementsSessionCheck`, from both sides: `CheckStep` is one caller's part of a step
  of `SessionCheck`, which lets all callers step at once, since a cache entry that goes
  touches them all. In SessionServiceProofs `StepChecks` reduces every action to the
  record it changes, because what it does to the others is no part of their stage
  (`KeptStage`); a get that finds the session waits, one that does not refuses or passes,
  as the frames say (`ReadChecks`), and closing a frame leaves one (`UnwindChecks`). In
  RequestGuardsProofs `Moves` carries the same, and `StageAt` gives a request's stage
  from the position of its guard.
- `ImplementsPresence`: with `MapIsTight` and `ConnectedAreListed` a socket is listed
  under a user and connected exactly if it is present as that user's (`NextPromised`).
  A verification that was overtaken is a stutter, and a rejection that of nobody.

Only model-checked: liveness and everything under fairness (`NeverStuckOpen`,
`EveryCallReturns`, `CreatedIsAnnounced`, `GoneForGoodReturns`, `OthersReturn`,
`LockoutEnds`, `OnlySessionsHoldUp`, `TimedIsAnswered`), which is out of the
prover's reach, as is ENABLED; and Bootstrap, which has no parameters to generalise
over. Every other property of a passing run is stated by a theorem. Some theorems
state what no run lists any more, because a refinement that a run checks implies it:
`NoticesAreOwn` and `NoticeReachesAll` (by `ImplementsPresence`), `MapsAgree` (its part
about names, by `ImplementsRegistry`), and the parts of inductive invariants; and
`AnsweredOnlyOnceGone` states a fact about the code that nothing asks of it. No module
declares a RECURSIVE operator: `getSession()`'s recursion is a stack in the state,
`IsStatic` a recursive function over the finite graph.

## 7. Plan, and what is left out

Order of modules, most important first: CircuitBreaker, UserService,
SessionService, SessionGateway, AuthService, HealthChecks, MetricsService,
RequestGuards, RequestExchange, Bootstrap (all written). Abstract specifications:
BreakerPolicy, RemoteCall, SessionCheck, Presence, MetricRegistry (all written and
proved to be implemented). What could come next: a policy of lockouts for AuthService
(how many wrong passwords an address may try between two expiries, with a bound for
the cache behind the network too, where the counter may lose increments), and
`RemoteCall` for UserService's own create(), so that RequestExchange's `Save` and
UserService's `Insert` meet in a contract as the sessions do.

**Not modelled**, and why:

- `infrastructure/repositories/mongo-user.repository.ts`: injected into UserService
  and never called, so there is no second store to keep in step; its `save()`
  could not succeed, as the schema requires an `id` that it does not pass.
- `infrastructure/event-handlers/user-events.handler.ts`: in no module's controllers,
  and `main.ts` starts no microservice: no event reaches it.
- `password-validation.service.ts`, `api-version.guard.ts`, `rate-limit.guard.ts`,
  `http-cache.interceptor.ts`, `performance.interceptors.ts`,
  `http-exception.filter.ts`, `error.serializer.ts`, `custom.error.ts`: nothing in
  the application uses them, and none keeps state that another part reads.
- Logging, e-mail transport, request context, security headers, Swagger, the rules
  of the DTOs, configuration values: pure output or pure data.

Abstracted: TTL units (an entry may go at any time, so properties hold for seconds
and milliseconds alike), a commit whose answer is lost on the way from the database
(so an error of the database here means that nothing was stored), a clock set back,
the contents of tokens and messages, the order of a user's sockets, whether a
plug-in of Fastify registers (`Configure`).
