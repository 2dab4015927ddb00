---------------------------- MODULE RequestGuards ----------------------------
(***************************************************************************)
(* The guards a request passes before its handler: the global ones in the  *)
(* order app.module.ts lists them, then those of the route.                *)
(*                                                                         *)
(* The counters of the throttler guards are shared by all requests, the    *)
(* token's and the session's validity may change while a request waits for *)
(* the cache, and SessionGuard waits for as long as the session lives: the *)
(* module SessionCheck says what it promises of that wait.                 *)
(*                                                                         *)
(* The guards are taken as their classes are written, each with what its   *)
(* constructor asks for.  SessionGuard asks for CustomLoggerService, which *)
(* is transient over a request-scoped service; as wired it is no static    *)
(* provider (Bootstrap's IsStatic), and requests that reach it meet an     *)
(* instance without a SessionService.  Here such requests go on or wait.   *)
(***************************************************************************)
EXTENDS Naturals, Sequences, FiniteSets, Functions

CONSTANTS
  Requests,     \* requests in flight; a slot is reused
  Users, Ips,
  Routes,       \* the routes that are requested, a subset of AllRoutes
  Exemptions,   \* what may exempt a request, a subset of AllExemptions
  Limit,        \* THROTTLE_LIMIT
  CreateLimit,  \* the limit @Throttle gives POST /users
  Load,         \* bound: a request arrives only while fewer hits than this run
  MissIsNull,   \* TRUE: a cache behind the network, as Redis, answers null for a
                \*   missing key and may fail; FALSE: the registered memory store
                \*   answers undefined and does not
  NoSub,        \* a token that verifies and whose payload has no sub
  None          \* no token, no session, no user

AllRoutes == {"health", "login", "logout", "sessions", "create", "getUser"}
\* agent: a user agent of throttler.config.ts; internal: x-internal-service,
\* or the development environment
AllExemptions == {"no", "agent", "internal"}

ASSUME GuardsAssumption ==
  /\ Routes \subseteq AllRoutes /\ Exemptions \subseteq AllExemptions
  /\ Limit \in Nat \ {0} /\ CreateLimit \in Nat \ {0}
  /\ Load \in Nat \ {0}
  /\ MissIsNull \in BOOLEAN
  /\ NoSub \notin Users /\ None \notin Users \cup {NoSub}

-----------------------------------------------------------------------------
\* The decorators of the handlers.
Public == {"health"}
SkipThrottle == {"getUser"}
LimitOf(route) == IF route = "create" THEN CreateLimit ELSE Limit

\* A plausible slip: the throttler of the credentials listed with the other.
GlobalGuardsSwapped == <<"rate", "auth", "jwt", "session">>

\* What a request may bring as its token.
Tokens == Users \cup {NoSub, None}

GlobalGuards == <<"rate", "jwt", "session", "auth">>

RouteGuards(route) ==
  CASE route = "login"                 -> <<"auth">>
    [] route = "logout"                -> <<"session">>
    [] route \in {"sessions", "getUser"} -> <<"routeJwt">>
    [] OTHER                           -> <<>>

Guards(route) == GlobalGuards \o RouteGuards(route)

\* The throttler's key: the route and the guard's own tracker.
Keys == [guard : {"rate", "auth"}, route : Routes, user : Users \cup {None}, ip : Ips]

\* A hit; history: whether the request's user was known by then, and whether it
\* passed.
Hits == [known : BOOLEAN, passed : BOOLEAN]

VARIABLES
  hits,     \* per key, the hits whose timer runs, oldest first
  valid,    \* users whose token has not expired
  revoked,  \* users whose token is in the cache, as a revoked one would be
  live,     \* users whose session is in the cache
  reqs

vars == <<hits, valid, revoked, live, reqs>>

\* at: the guard the request has come to, 0 for none; waits: that guard has
\* made its first await (the token verified, the session found); user:
\* request.user.  History: what held at some moment of the request: its token
\* was valid, was not revoked; its session was live.
NoRequest == [route |-> "none", token |-> None, sid |-> None, ip |-> None,
              exempt |-> "no", at |-> 0, waits |-> FALSE, user |-> None,
              answer |-> "none", seen |-> {}]

Init ==
  /\ hits = [k \in Keys |-> <<>>]
  /\ valid = Users /\ revoked = {} /\ live = Users
  /\ reqs = [r \in Requests |-> NoRequest]

Busy(r) == reqs[r].at # 0
At(r, guard) == Busy(r) /\ Guards(reqs[r].route)[reqs[r].at] = guard

\* What holds of request k while tokens and sessions are as given.
Facts(k, v, x, l) ==
  {f \in {"valid", "unrevoked", "live"} :
     \/ f = "valid"     /\ k.token \in v
     \/ f = "unrevoked" /\ k.token \notin x
     \/ f = "live"      /\ k.sid \in l}

\* Tokens and sessions change to the given ones, under every request.  (The
\* answer of a request is kept for one step only.)
Change(v, x, l, rs) ==
  /\ valid' = v /\ revoked' = x /\ live' = l
  /\ reqs' = [r \in Requests |->
                IF rs[r].at # 0
                THEN [rs[r] EXCEPT !.seen = @ \cup Facts(rs[r], v, x, l)]
                ELSE IF Busy(r) THEN rs[r] ELSE NoRequest]

Becomes(r, k) == Change(valid, revoked, live, [reqs EXCEPT ![r] = k])

\* A request goes on to its next guard, or is admitted to the handler.
Passed(k) ==
  IF k.at = Len(Guards(k.route)) THEN [NoRequest EXCEPT !.answer = "admitted"]
  ELSE [k EXCEPT !.at = @ + 1, !.waits = FALSE]
Refused(answer) == [NoRequest EXCEPT !.answer = answer]

-----------------------------------------------------------------------------
Running == SumFunction([key \in Keys |-> Len(hits[key])])

Arrive(r, route, token, sid, ip, exempt) ==
  /\ ~Busy(r) /\ Running < Load
  /\ Becomes(r, [NoRequest EXCEPT !.route = route, !.token = token, !.sid = sid,
                                  !.ip = ip, !.exempt = exempt, !.at = 1])
  /\ UNCHANGED hits

Fits(key, limit) == Len(hits[key]) < limit

\* ThrottlerGuard.handleRequest(): the storage counts the hit, also one that
\* is then refused; a timer of its own drops it.
Hit(r, key, limit) ==
  LET hit == [known |-> reqs[r].user # None, passed |-> Fits(key, limit)]
  IN  /\ hits' = [hits EXCEPT ![key] = Append(@, hit)]
      /\ Becomes(r, IF hit.passed THEN Passed(reqs[r]) ELSE Refused("too many"))

Skip(r) == Becomes(r, Passed(reqs[r])) /\ UNCHANGED hits

RateKey(k) == [guard |-> "rate", route |-> k.route, user |-> k.user, ip |-> k.ip]
AuthKey(k) == [guard |-> "auth", route |-> k.route, user |-> None, ip |-> k.ip]

\* A plausible slip: the doubled limit goes to those who are not known.
RateLimitInverted(r) ==
  LET k == reqs[r]
  IN  /\ At(r, "rate")
      /\ IF k.route \in SkipThrottle \/ k.exempt = "agent" THEN Skip(r)
         ELSE Hit(r, RateKey(k), (IF k.user = None THEN 2 ELSE 1) * LimitOf(k.route))

\* AdvancedRateLimitGuard: per user and address, twice the limit for a user.
RateLimit(r) ==
  LET k == reqs[r]
  IN  /\ At(r, "rate")
      /\ IF k.route \in SkipThrottle \/ k.exempt = "agent" THEN Skip(r)
         ELSE Hit(r, RateKey(k), (IF k.user # None THEN 2 ELSE 1) * LimitOf(k.route))

\* AuthThrottlerGuard: per address and e-mail (one e-mail per address here).
AuthThrottle(r) ==
  LET k == reqs[r]
  IN  /\ At(r, "auth")
      /\ IF k.exempt # "no" \/ k.route \in SkipThrottle THEN Skip(r)
         ELSE Hit(r, AuthKey(k), LimitOf(k.route))

\* EnhancedJwtAuthGuard: a public route passes; the token has to verify ...
Verify(r) ==
  LET k == reqs[r]
  IN  /\ At(r, "jwt") /\ ~k.waits
      /\ Becomes(r, IF k.route \in Public THEN Passed(k)
                    ELSE IF k.token \in valid \cup {NoSub} THEN [k EXCEPT !.waits = TRUE]
                    ELSE Refused("unauthorized"))
      /\ UNCHANGED hits

\* A plausible slip: the cache's answer is not looked at.
LookupTokenIgnored(r) ==
  LET k == reqs[r]
  IN  /\ At(r, "jwt") /\ k.waits
      /\ Becomes(r, Passed([k EXCEPT !.user = k.token]))
      /\ UNCHANGED hits

\* ... and the cache has to answer null for it, which for a missing key not
\* every store does; then its payload has to have a sub (validateClaims()).
LookupToken(r) ==
  LET k == reqs[r]
  IN  /\ At(r, "jwt") /\ k.waits
      /\ Becomes(r, IF \/ k.token \in revoked \/ ~MissIsNull
                        \/ k.token = NoSub
                    THEN Refused("unauthorized")
                    ELSE Passed([k EXCEPT !.user = k.token]))
      /\ UNCHANGED hits

\* JwtAuthGuard of a route: the token is verified once more.
VerifyAgain(r) ==
  LET k == reqs[r]
  IN  /\ At(r, "routeJwt")
      /\ Becomes(r, IF k.token \in valid THEN Passed([k EXCEPT !.user = k.token])
                    ELSE Refused("unauthorized"))
      /\ UNCHANGED hits

\* A plausible slip: an expired session is waited for, not refused.
FindSessionWaiting(r) ==
  LET k == reqs[r]
  IN  /\ At(r, "session") /\ ~k.waits /\ k.sid \in live
      /\ Becomes(r, [k EXCEPT !.waits = TRUE])
      /\ UNCHANGED hits

\* SessionGuard: no session, or a session that is found, which it waits for.
\* If the session is absent the user, if known, is told that it has expired.
FindSession(r) ==
  LET k == reqs[r]
  IN  /\ At(r, "session") /\ ~k.waits
      /\ Becomes(r, IF k.sid = None THEN Refused("unauthorized")
                    ELSE IF k.sid \in live THEN [k EXCEPT !.waits = TRUE]
                    ELSE Refused("expired"))
      /\ UNCHANGED hits

\* A plausible slip: the session's owner becomes the request's user.
ReturnSessionAsUser(r) ==
  LET k == reqs[r]
  IN  /\ At(r, "session") /\ k.waits /\ k.sid \notin live
      /\ Becomes(r, Passed([k EXCEPT !.user = k.sid]))
      /\ UNCHANGED hits

\* getSession() returns what it found first once a later get finds nothing;
\* on the way back it may store the session again.
ReturnSession(r) ==
  LET k == reqs[r]
  IN  /\ At(r, "session") /\ k.waits /\ k.sid \notin live
      /\ \E back \in {{}, {k.sid}} :
           Change(valid, revoked, live \cup back, [reqs EXCEPT ![r] = Passed(k)])
      /\ UNCHANGED hits

\* A plausible slip: SessionGuard catches the error too, as if nothing were found.
CacheFailsAsExpired(r) ==
  /\ MissIsNull
  /\ \/ At(r, "jwt") /\ reqs[r].waits /\ Becomes(r, Refused("unauthorized"))
     \/ At(r, "session") /\ reqs[r].sid # None /\ Becomes(r, Refused("expired"))
  /\ UNCHANGED hits

\* A cache that fails is a bad token to EnhancedJwtAuthGuard, which catches the
\* error, and an error of the request to SessionGuard, which does not.
CacheFails(r) ==
  /\ MissIsNull
  /\ \/ At(r, "jwt") /\ reqs[r].waits /\ Becomes(r, Refused("unauthorized"))
     \/ At(r, "session") /\ reqs[r].sid # None /\ Becomes(r, Refused("error"))
  /\ UNCHANGED hits

\* A hit's timer; timers of one key fire in the order they were set.
Release(key) ==
  /\ hits[key] # <<>>
  /\ hits' = [hits EXCEPT ![key] = Tail(@)]
  /\ Change(valid, revoked, live, reqs)

\* Time and other services: a token expires or is signed anew, is revoked or
\* forgotten; a session is created or goes.
Flip(set, u) == IF u \in set THEN set \ {u} ELSE set \cup {u}

TokenChanges(u)   == Change(Flip(valid, u), revoked, live, reqs) /\ UNCHANGED hits
RevokeChanges(u)  == Change(valid, Flip(revoked, u), live, reqs) /\ UNCHANGED hits
SessionChanges(u) == Change(valid, revoked, Flip(live, u), reqs) /\ UNCHANGED hits

Continue(r) ==
  \/ RateLimit(r) \/ AuthThrottle(r) \/ Verify(r) \/ LookupToken(r) \/ VerifyAgain(r)
  \/ FindSession(r) \/ ReturnSession(r)

Next ==
  \/ \E r \in Requests :
       \/ \E route \in Routes, token \in Tokens, sid \in Users \cup {None},
             ip \in Ips, exempt \in Exemptions : Arrive(r, route, token, sid, ip, exempt)
       \/ Continue(r) \/ CacheFails(r)
  \/ \E key \in Keys : Release(key)
  \/ \E u \in Users : TokenChanges(u) \/ RevokeChanges(u) \/ SessionChanges(u)

Spec == Init /\ [][Next]_vars

\* The guards' awaits settle.
FairSpec == Spec /\ \A r \in Requests : WF_vars(Continue(r))
-----------------------------------------------------------------------------
RequestRecords ==
  [route : Routes \cup {"none"}, token : Tokens, sid : Users \cup {None},
   ip : Ips \cup {None}, exempt : AllExemptions, at : Nat, waits : BOOLEAN,
   user : Users \cup {None}, seen : SUBSET {"valid", "unrevoked", "live"},
   answer : {"none", "admitted", "too many", "unauthorized", "expired", "error"}]

\* A request is at one of its guards; its user is its token's.
RequestOK(k) ==
  /\ k.at # 0 => k.route \in Routes /\ k.ip \in Ips /\ k.at \in 1 .. Len(Guards(k.route))
  /\ k.user # None => k.user = k.token

TypeOK ==
  /\ hits \in [Keys -> Seq(Hits)]
  /\ valid \subseteq Users /\ revoked \subseteq Users /\ live \subseteq Users
  /\ reqs \in [Requests -> RequestRecords] /\ \A r \in Requests : RequestOK(reqs[r])

\* A handler runs only for a request that, at some moment, had a live session
\* and, unless the route is public, a token that verified and was not revoked
\* (not necessarily at the same moment, nor still); that the session is that
\* user's is nothing any guard looks at.
AdmittedIsEntitled ==
  [][\A r \in Requests : Busy(r) /\ reqs'[r].answer = "admitted" =>
       /\ "live" \in reqs[r].seen
       /\ reqs[r].route \notin Public =>
            reqs[r].user = reqs[r].token /\ {"valid", "unrevoked"} \subseteq reqs[r].seen]_vars

\* Within the window of a key no more requests pass than the limit of their
\* route, however many are in flight.
WindowBound ==
  \A key \in Keys :
    Cardinality({i \in 1 .. Len(hits[key]) : hits[key][i].passed}) <= LimitOf(key.route)

\* Whatever the throttler of the credentials counts was authenticated before,
\* unless the route is public: unknown clients use up nobody's attempts.
AuthCountsKnown ==
  \A key \in Keys : key.guard = "auth" /\ key.route \notin Public =>
    \A i \in 1 .. Len(hits[key]) : hits[key][i].known

\* How far a request is with its SessionGuards: it asks them one after the other.
Stage(k) ==
  CASE k.answer = "admitted" -> "passed"
    [] k.answer = "expired"  -> "refused"
    [] k.at > 2 /\ Guards(k.route)[k.at] # "session" -> "passed"
    [] k.at > 2 /\ Guards(k.route)[k.at] = "session" /\ k.sid # None ->
         IF k.waits THEN "waiting" ELSE "asked"
    [] OTHER -> "none"

Check == INSTANCE SessionCheck
         WITH Sessions <- Users, Checks <- Requests,
              at <- [r \in Requests |-> Stage(reqs[r])], of <- [r \in Requests |-> reqs[r].sid]

\* From its first SessionGuard to its handler a request meets nothing but what
\* SessionService promises of getSession(): it is told that its session has
\* expired only if that is absent, not because the cache failed, and goes on
\* only if it was found.
ImplementsSessionCheck == Check!Spec

\* Only a live session holds a request up.
OnlySessionsHoldUp ==
  \A r \in Requests : Busy(r) ~> (~Busy(r) \/ (reqs[r].waits /\ reqs[r].sid \in live))

\* enhanced-jwt-auth.guard.ts:45: a token is refused if it is not valid, or
\* is found to be blacklisted.  (A token without sub is not one of Users'.)
RefusedTokenIsBad ==
  [][\A r \in Requests : At(r, "jwt") /\ reqs'[r].answer = "unauthorized" =>
       reqs[r].token \notin valid \ revoked]_vars
=============================================================================
