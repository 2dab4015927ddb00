--------------------------- MODULE RequestExchange ---------------------------
(***************************************************************************)
(* A request from its guards to its answer: MetricsInterceptor,            *)
(* TransformInterceptor, TimeoutInterceptor, the parameter decorators and  *)
(* pipes, the handlers of UserController and GlobalExceptionFilter.        *)
(*                                                                         *)
(* Nest subscribes from the outside in (metrics, transform, time-out,      *)
(* parameters, handler), and a value or an error travels back the same     *)
(* way.  The time-out unsubscribes from the handler but cannot stop it:    *)
(* its promise goes on, and what it settles to is dropped.                 *)
(*                                                                         *)
(* A client that is not told of success may send its request again.        *)
(***************************************************************************)
EXTENDS Naturals, Sequences

CONSTANTS
  Clients,
  MaxAttempts    \* bound: how often a client sends one request

ASSUME ExchangeAssumption == MaxAttempts \in Nat \ {0}

\* createUser as it is declared, the same handler without @Transaction() (what
\* TimeoutInterceptor does to any handler that takes its time), and getUser.
Routes == {"createUser", "timedCreate", "getUser"}
Creating == {"createUser", "timedCreate"}
Timed == {"createUser", "timedCreate"}
Transactional == {"createUser"}

\* Answers a handler can come to; NoStatus is an error without a status.
NoStatus == 0
Success == {200, 201}
Statuses == Success \cup {400, 401, 404, 408, 500}

VARIABLES
  platform,   \* the HTTP framework below Nest: main.ts takes Fastify, the e2e
              \*   test the default, Express; fixed when the process starts
  route,      \* the route of a client's present request
  sent        \* its attempts, in order

vars == <<platform, route, sent>>

Attempt == [pc : {"guards", "open", "answered"},
            work : {"none", "params", "hash", "save", "emit", "find", "ended"},
            stored : BOOLEAN,                   \* the handler saved its user
            answer : Statuses \cup {NoStatus},  \* what the client was sent
            record : Statuses \cup {NoStatus}]  \* what the metrics took for it

NewAttempt == [pc |-> "guards", work |-> "none", stored |-> FALSE,
               answer |-> NoStatus, record |-> NoStatus]

Init ==
  /\ platform \in {"express", "fastify"}
  /\ route = [c \in Clients |-> "getUser"]
  /\ sent = [c \in Clients |-> <<>>]

At(c, k, pc) == k \in DOMAIN sent[c] /\ sent[c][k].pc = pc
Working(c, k, work) == k \in DOMAIN sent[c] /\ sent[c][k].work = work

Become(c, k, a) ==
  /\ sent' = [sent EXCEPT ![c][k] = a]
  /\ UNCHANGED <<platform, route>>
-----------------------------------------------------------------------------
\* A plausible slip: the status is taken from the error, with no default.
FilterStatusRaw(outcome) == outcome

\* GlobalExceptionFilter: an HttpException's own status, else 500.
FilterStatus(outcome) == IF outcome = NoStatus THEN 500 ELSE outcome

\* MetricsInterceptor: every value counts as a 200.
MetricStatus(outcome) ==
  IF outcome \in Success THEN 200 ELSE FilterStatus(outcome)

\* A value or an error passes the metrics on its way to the client.  They read
\* request.route.path: an Express request has a route; a Fastify request has
\* none, and the TypeError takes the place of whatever was on its way.
Deliver(a, outcome) ==
  IF platform = "express"
  THEN [a EXCEPT !.pc = "answered", !.answer = FilterStatus(outcome),
                 !.record = MetricStatus(outcome)]
  ELSE [a EXCEPT !.pc = "answered", !.answer = FilterStatus(NoStatus)]

\* A plausible slip: a late result is recorded like any other.
SettleRecording(a, outcome) ==
  IF a.pc = "open" THEN [Deliver(a, outcome) EXCEPT !.work = "ended"]
  ELSE [a EXCEPT !.work = "ended", !.record = MetricStatus(outcome)]

\* The handler's promise settles; after a time-out nobody listens.
Settle(a, outcome) ==
  [(IF a.pc = "open" THEN Deliver(a, outcome) ELSE a) EXCEPT !.work = "ended"]
-----------------------------------------------------------------------------
\* A client sends a request, or the same once more when it was not told of
\* success.
Send(c) ==
  /\ Len(sent[c]) < MaxAttempts
  /\ sent' = [sent EXCEPT ![c] = Append(@, NewAttempt)]
  /\ IF sent[c] = <<>> THEN \E r \in Routes : route' = [route EXCEPT ![c] = r]
     ELSE LET last == sent[c][Len(sent[c])]
          IN  last.pc = "answered" /\ last.answer \notin Success /\ UNCHANGED route
  /\ UNCHANGED platform

\* It turns to something else; attempts still at work are waited for, so that
\* their slots can be used again.
MoveOn(c) ==
  /\ sent[c] # <<>>
  /\ \A k \in DOMAIN sent[c] :
       sent[c][k].pc = "answered" /\ sent[c][k].work \in {"none", "ended"}
  /\ sent' = [sent EXCEPT ![c] = <<>>]
  /\ UNCHANGED <<platform, route>>

\* A guard throws: the filter answers, and no interceptor hears of it.
Refuse(c, k) ==
  /\ At(c, k, "guards")
  /\ Become(c, k, [sent[c][k] EXCEPT !.pc = "answered", !.answer = 401])

Admit(c, k) ==
  /\ At(c, k, "guards")
  /\ Become(c, k, [sent[c][k] EXCEPT !.pc = "open", !.work = "params"])

\* A plausible slip: the 5 s start with the handler, after the parameters.
TimeOutInHandler(c, k) ==
  /\ At(c, k, "open") /\ route[c] \in Timed /\ ~Working(c, k, "params")
  /\ Become(c, k, Deliver(sent[c][k], 408))

\* TimeoutInterceptor's 5 s are over before the handler is.
TimeOut(c, k) ==
  /\ At(c, k, "open") /\ route[c] \in Timed
  /\ Become(c, k, Deliver(sent[c][k], 408))

\* @Transaction(): request.app.get(DataSource) gives no data source on either
\* platform, so the parameter throws.  It is resolved beside the body:
\* whichever of the two fails first ends the request before the handler.
TransactionThrows(c, k) ==
  /\ Working(c, k, "params") /\ route[c] \in Transactional
  /\ Become(c, k, Settle(sent[c][k], NoStatus))

\* CustomValidationPipe refuses the body.
BodyRefused(c, k) ==
  /\ Working(c, k, "params") /\ route[c] \in Creating
  /\ Become(c, k, Settle(sent[c][k], 400))

Resolved(c, k) ==
  /\ Working(c, k, "params") /\ route[c] \notin Transactional
  /\ Become(c, k, [sent[c][k] EXCEPT
                     !.work = IF route[c] \in Creating THEN "hash" ELSE "find"])

\* UserService.create(): the password is hashed, the user saved.
Hash(c, k) ==
  /\ Working(c, k, "hash")
  /\ Become(c, k, [sent[c][k] EXCEPT !.work = "save"])

Save(c, k) ==
  /\ Working(c, k, "save")
  /\ Become(c, k, [sent[c][k] EXCEPT !.work = "emit", !.stored = TRUE])

\* Either fails: createUser makes it a 500.
CreateFails(c, k) ==
  /\ Working(c, k, "hash") \/ Working(c, k, "save")
  /\ Become(c, k, Settle(sent[c][k], 500))

\* A plausible slip: an error of the event bus fails the call.
EmitChecked(c, k) ==
  /\ Working(c, k, "emit")
  /\ \/ Become(c, k, Settle(sent[c][k], 201))
     \/ Become(c, k, Settle(sent[c][k], 500))

\* emit() subscribes and returns, whatever the broker does.
Emit(c, k) ==
  /\ Working(c, k, "emit")
  /\ Become(c, k, Settle(sent[c][k], 201))

\* UserService.findById(): the user, NotFoundException, or the database's error.
Find(c, k) ==
  /\ Working(c, k, "find")
  /\ \E outcome \in {200, 404, NoStatus} : Become(c, k, Settle(sent[c][k], outcome))

Work(c, k) ==
  \/ TransactionThrows(c, k) \/ BodyRefused(c, k) \/ Resolved(c, k)
  \/ Hash(c, k) \/ Save(c, k) \/ CreateFails(c, k) \/ Emit(c, k) \/ Find(c, k)

Next ==
  \E c \in Clients :
    \/ Send(c) \/ MoveOn(c)
    \/ \E k \in 1..MaxAttempts :
         Refuse(c, k) \/ Admit(c, k) \/ TimeOut(c, k) \/ Work(c, k)

Spec == Init /\ [][Next]_vars

\* Only the timer is sure to fire: a database that never answers is no excuse.
FairSpec ==
  Spec /\ \A c \in Clients, k \in 1..MaxAttempts : WF_vars(TimeOut(c, k))
-----------------------------------------------------------------------------
TypeOK ==
  /\ platform \in {"express", "fastify"}
  /\ route \in [Clients -> Routes]
  /\ \A c \in Clients :
       /\ sent[c] \in Seq(Attempt) /\ Len(sent[c]) <= MaxAttempts
       /\ \A k \in DOMAIN sent[c] :
            sent[c][k].pc = "answered" <=> sent[c][k].answer # NoStatus

\* What the answer tells the client.  A 408 tells it nothing, and neither does
\* a 500 of a process whose metrics spoil every answer.
Verdict(a) ==
  CASE a.pc # "answered" -> "open"
    [] a.pc = "answered" /\ a.answer \in Success -> "done"
    [] a.pc = "answered" /\ (a.answer = 408 \/ (platform = "fastify" /\ a.answer = 500))
         -> "unknown"
    [] OTHER -> "failed"

Requests == Clients \X (1..MaxAttempts)
Known(q) == q[2] \in DOMAIN sent[q[1]]

\* What the clients know, what they asked for and what came of it, by request.
verdict ==
  [q \in Requests |-> IF Known(q) THEN Verdict(sent[q[1]][q[2]]) ELSE "idle"]
writes == [q \in Requests |-> Known(q) /\ route[q[1]] \in Creating]
effect == [q \in Requests |-> Known(q) /\ sent[q[1]][q[2]].stored]

Remote == INSTANCE RemoteCall
            WITH verdict <- verdict, writes <- writes, effect <- effect

\* A request is answered once; a success stored its user, an error other than
\* the above did not and never will, although handlers outlive their requests
\* and settle beside later attempts.  So a retry can only create a second user
\* behind an answer that told nothing.
ImplementsRemoteCall == Remote!Spec

\* Behind Express the metrics hold of each request past its guards exactly what
\* its client was told, by class of status; a handler that settles after the
\* 408 does not change it.  Behind Fastify they hold nothing.
RecordsMatchAnswers ==
  \A c \in Clients : \A k \in DOMAIN sent[c] :
    LET a == sent[c][k]
    IN  /\ platform = "fastify" \/ a.pc # "answered" \/ a.work = "none"
             => a.record = NoStatus
        /\ platform = "express" /\ a.pc = "answered" /\ a.work # "none" =>
             IF a.answer \in Success THEN a.record = 200 ELSE a.record = a.answer

\* Once past its guards, a request behind TimeoutInterceptor is answered, even
\* if its handler never settles.
TimedIsAnswered ==
  \A c \in Clients, k \in 1..MaxAttempts :
    At(c, k, "open") /\ route[c] \in Timed ~> ~At(c, k, "open")
=============================================================================
