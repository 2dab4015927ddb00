-------------------------- MODULE RequestGuardsProofs --------------------------
(* What the chain of guards establishes, for all routes, users and limits. *)
EXTENDS RequestGuards, FiniteSetTheorems, SequenceTheorems, TLAPS

(* The order of app.module.ts, then the guards of the route.               *)
LEMMA Order ==
  ASSUME NEW route \in Routes
  PROVE  /\ Len(Guards(route)) \in {4, 5}
         /\ \A i \in 1 .. Len(Guards(route)) :
              /\ Guards(route)[i] = "rate" <=> i = 1
              /\ Guards(route)[i] = "jwt" <=> i = 2
              /\ Guards(route)[i] = "session" => i = 3 \/ i = 5
              /\ Guards(route)[i] = "auth" => i = 4 \/ i = 5
              /\ Guards(route)[i] = "routeJwt" => i = 5
         /\ Guards(route)[3] = "session"
<1> DEFINE g == <<"rate", "jwt", "session", "auth">>
<1>1. RouteGuards(route) \in {<<>>, <<"auth">>, <<"session">>, <<"routeJwt">>}
  BY GuardsAssumption DEF RouteGuards, AllRoutes
<1>2. CASE RouteGuards(route) = <<>>
  <2>1. Guards(route) = g
    BY <1>2 DEF Guards, GlobalGuards
  <2>2. QED
    BY <2>1
<1>3. ASSUME NEW last \in {"auth", "session", "routeJwt"}, RouteGuards(route) = <<last>>
      PROVE  /\ Len(Guards(route)) = 5 /\ Guards(route)[5] = last
             /\ \A i \in 1 .. 4 : Guards(route)[i] = g[i]
  <2> DEFINE t == <<last>>
             names == {"rate", "jwt", "session", "auth", "routeJwt"}
  <2>a. g \in Seq(names) /\ Len(g) = 4
    OBVIOUS
  <2>c. t \in Seq(names) /\ Len(t) = 1 /\ t[1] = last
    OBVIOUS
  <2>3. Guards(route) = g \o t
    BY <1>3 DEF Guards, GlobalGuards
  <2> HIDE DEF g, t, names
  <2>4. /\ Len(g \o t) = 5
        /\ \A i \in 1 .. 5 : (g \o t)[i] = IF i <= 4 THEN g[i] ELSE t[i - 4]
    <3>1. /\ Len(g \o t) = Len(g) + Len(t)
          /\ \A i \in 1 .. Len(g) + Len(t) :
               (g \o t)[i] = IF i <= Len(g) THEN g[i] ELSE t[i - Len(g)]
      BY <2>a, <2>c, ConcatProperties
    <3>2. QED
      BY <2>a, <2>c, <3>1
  <2>5. (g \o t)[5] = t[1] /\ \A i \in 1 .. 4 : (g \o t)[i] = g[i]
    BY <2>4
  <2>6. QED
    BY <2>c, <2>3, <2>4, <2>5
<1>4. CASE RouteGuards(route) # <<>>
  <2>1. PICK last \in {"auth", "session", "routeJwt"} :
          /\ Len(Guards(route)) = 5 /\ Guards(route)[5] = last
          /\ \A i \in 1 .. 4 : Guards(route)[i] = g[i]
    BY <1>1, <1>3, <1>4
  <2>2. Guards(route)[1] = "rate" /\ Guards(route)[2] = "jwt"
        /\ Guards(route)[3] = "session" /\ Guards(route)[4] = "auth"
    BY <2>1
  <2>3. \A i \in 1 .. Len(Guards(route)) : i \in {1, 2, 3, 4, 5}
    BY <2>1
  <2>4. QED
    BY <2>1, <2>2, <2>3
<1>5. QED
  BY <1>2, <1>4

(* What a request has shown by the guard it is at.                         *)
Sound(k) ==
  /\ k.at # 0 => /\ k.route \in Routes /\ k.ip \in Ips /\ k.answer = "none"
                 /\ k.at \in 1 .. Len(Guards(k.route))
  /\ k.user # None => k.user = k.token
  /\ k.at = 1 => k.user = None
  /\ k.at = 2 /\ k.waits /\ k.token # NoSub => "valid" \in k.seen /\ k.token \in Users
  /\ k.at > 2 /\ k.route \notin Public =>
       k.user = k.token /\ k.token \in Users /\ {"valid", "unrevoked"} \subseteq k.seen
  /\ k.at > 2 /\ k.waits => "live" \in k.seen /\ k.sid \in Users
  /\ k.at > 3 => "live" \in k.seen

(* The history of a request is up to date.                                 *)
Noted(k, v, x, l) == k.at # 0 => Facts(k, v, x, l) \subseteq k.seen

RequestsOK ==
  /\ valid \subseteq Users /\ revoked \subseteq Users /\ live \subseteq Users
  /\ reqs \in [Requests -> RequestRecords]
  /\ \A r \in Requests : Sound(reqs[r]) /\ Noted(reqs[r], valid, revoked, live)

LEMMA NobodySound ==
  ASSUME NEW k, k.at = 0, k.user = None
  PROVE  Sound(k)
<1>1. ~(k.at > 2) /\ ~(k.at > 3) /\ k.at # 1 /\ k.at # 2
  OBVIOUS
<1>2. QED
  BY <1>1, Zenon DEF Sound

Answers == {"none", "admitted", "too many", "unauthorized", "expired", "error"}

(* A slot without a request is sound, whatever was answered last.          *)
LEMMA IdleSound ==
  ASSUME NEW a \in Answers
  PROVE  /\ [NoRequest EXCEPT !.answer = a] \in RequestRecords
         /\ Sound([NoRequest EXCEPT !.answer = a])
         /\ [NoRequest EXCEPT !.answer = a].at = 0
         /\ NoRequest \in RequestRecords /\ Sound(NoRequest) /\ NoRequest.at = 0
<1>1. NoRequest \in RequestRecords
  BY DEF NoRequest, RequestRecords, AllExemptions, Tokens
<1>2. NoRequest.at = 0 /\ NoRequest.user = None
  BY DEF NoRequest
<1> DEFINE n == [NoRequest EXCEPT !.answer = a]
<1>3. n \in RequestRecords /\ n.at = 0 /\ n.user = None
  BY <1>1, <1>2 DEF RequestRecords, Answers
<1> HIDE DEF n
<1>4. QED
  BY <1>1, <1>2, <1>3, NobodySound DEF n

(* Tokens and sessions change, and every request takes note.               *)
LEMMA ChangeSound ==
  ASSUME NEW v \in SUBSET Users, NEW x \in SUBSET Users, NEW l \in SUBSET Users,
         NEW rs \in [Requests -> RequestRecords], \A q \in Requests : Sound(rs[q]),
         Change(v, x, l, rs)
  PROVE  RequestsOK'
<1>1. ASSUME NEW q \in Requests
      PROVE  /\ reqs'[q] \in RequestRecords /\ Sound(reqs'[q])
             /\ Noted(reqs'[q], v, x, l)
  <2> DEFINE k == rs[q]
             n == [k EXCEPT !.seen = @ \cup Facts(k, v, x, l)]
  <2>1. CASE k.at # 0
    <3>1. reqs'[q] = n
      BY <2>1 DEF Change
    <3>2. Facts(k, v, x, l) \subseteq {"valid", "unrevoked", "live"}
      BY DEF Facts
    <3>3. /\ n \in RequestRecords /\ n.seen = k.seen \cup Facts(k, v, x, l)
          /\ n.at = k.at /\ n.route = k.route /\ n.ip = k.ip /\ n.answer = k.answer
          /\ n.user = k.user /\ n.token = k.token /\ n.sid = k.sid /\ n.waits = k.waits
      BY <3>2 DEF RequestRecords
    <3>4. Facts(n, v, x, l) = Facts(k, v, x, l)
      BY <3>3 DEF Facts
    <3> HIDE DEF n
    <3>5. Sound(n)
      BY <3>3 DEF Sound
    <3>6. QED
      BY <3>1, <3>3, <3>4, <3>5 DEF Noted
  <2>2. CASE k.at = 0
    <3>1. reqs'[q] = k \/ reqs'[q] = NoRequest
      BY <2>2 DEF Change
    <3>2. QED
      BY <2>2, <3>1, IdleSound DEF Noted, Answers
  <2>3. QED
    BY <2>1, <2>2
<1>2. valid' = v /\ revoked' = x /\ live' = l /\ reqs' \in [Requests -> RequestRecords]
  BY <1>1 DEF Change
<1>3. QED
  BY <1>1, <1>2 DEF RequestsOK

(* The same, when one request moves on and nothing else changes.           *)
LEMMA BecomesSound ==
  ASSUME RequestsOK, NEW r \in Requests, NEW k \in RequestRecords, Sound(k), Becomes(r, k)
  PROVE  RequestsOK'
  BY ChangeSound DEF RequestsOK, Becomes

(* A request goes on, having shown what its next guard may assume.         *)
LEMMA PassedSound ==
  ASSUME NEW k \in RequestRecords, Sound(k), k.at # 0,
         k.at = 2 /\ k.route \notin Public =>
           k.user = k.token /\ k.token \in Users /\ {"valid", "unrevoked"} \subseteq k.seen,
         k.at = 3 => "live" \in k.seen
  PROVE  Passed(k) \in RequestRecords /\ Sound(Passed(k))
<1>1. CASE k.at = Len(Guards(k.route))
  BY <1>1, IdleSound DEF Passed, Answers
<1>2. CASE k.at # Len(Guards(k.route))
  <2> DEFINE n == [k EXCEPT !.at = @ + 1, !.waits = FALSE]
  <2>1. Passed(k) = n
    BY <1>2 DEF Passed
  <2>2. k.at \in Nat /\ k.at \in 1 .. Len(Guards(k.route)) /\ Len(Guards(k.route)) \in {4, 5}
    BY Order DEF Sound, RequestRecords
  <2> DEFINE next == k.at + 1
  <2>a. next \in Nat
    BY <2>2
  <2>b. [k EXCEPT !.at = next, !.waits = FALSE] \in RequestRecords
    <3> HIDE DEF next
    <3>1. QED
      BY <2>a DEF RequestRecords
  <2>3. /\ n \in RequestRecords /\ n.seen = k.seen /\ n.at = k.at + 1
        /\ n.route = k.route /\ n.ip = k.ip /\ n.answer = k.answer
        /\ n.user = k.user /\ n.token = k.token /\ n.sid = k.sid /\ ~n.waits
    BY <2>b DEF RequestRecords
  <2> HIDE DEF n
  <2>4. Sound(n)
    BY <1>2, <2>2, <2>3 DEF Sound
  <2>5. QED
    BY <2>1, <2>3, <2>4
<1>3. QED
  BY <1>1, <1>2

(* Only from its last guard, and with everything shown, is one admitted.   *)
LEMMA PassedAdmits ==
  ASSUME NEW k \in RequestRecords, Sound(k), k.at # 0, Passed(k).answer = "admitted"
  PROVE  k.at > 3
<1>1. k.at = Len(Guards(k.route)) \/ Passed(k) = [k EXCEPT !.at = @ + 1, !.waits = FALSE]
  BY DEF Passed
<1>2. [k EXCEPT !.at = @ + 1, !.waits = FALSE].answer = k.answer
  BY DEF RequestRecords
<1>3. k.answer = "none" /\ k.route \in Routes
  BY DEF Sound
<1>4. k.at = Len(Guards(k.route))
  BY <1>1, <1>2, <1>3
<1>5. QED
  BY <1>3, <1>4, Order

(* A step of SessionCheck: from request k to n, while the sessions l live. *)
CheckStep(k, n, l) ==
  \/ Stage(k) \notin Check!Pending /\ Stage(n) = "asked" /\ n.sid \in Users
  \/ Stage(k) = "asked" /\ k.sid \in l /\ Stage(n) = "waiting" /\ n.sid = k.sid
  \/ Stage(k) = "asked" /\ k.sid \notin l /\ Stage(n) = "refused"
  \/ Stage(k) = "waiting" /\ Stage(n) = "passed"
  \/ Stage(n) = "none"
  \/ Stage(n) = Stage(k) /\ (Stage(k) \in Check!Pending => n.sid = k.sid)

(* What a guard makes of request k's session.                              *)
AtSession(k) == IF k.sid = None THEN "none" ELSE IF k.waits THEN "waiting" ELSE "asked"

(* The stage of a request by its guard, ...                                *)
LEMMA StageAt ==
  ASSUME NEW k \in RequestRecords, Sound(k), k.at # 0
  PROVE  /\ k.at \in {1, 2} => Stage(k) = "none"
         /\ k.at = 3 => Stage(k) = AtSession(k)
         /\ k.at = 4 => Stage(k) = "passed"
         /\ k.at = 5 => Stage(k) = IF Guards(k.route)[5] = "session" THEN AtSession(k)
                                   ELSE "passed"
<1>1. k.answer = "none" /\ k.route \in Routes /\ k.at \in 1 .. Len(Guards(k.route))
  BY DEF Sound
<1>2. Guards(k.route)[3] = "session" /\ (k.at = 4 => Guards(k.route)[4] # "session")
  BY <1>1, Order
<1>3. QED
  BY <1>1, <1>2 DEF Stage, AtSession

(* ... of one that has been answered, ...                                  *)
LEMMA StageAnswered ==
  ASSUME NEW a \in Answers
  PROVE  Stage([NoRequest EXCEPT !.answer = a]) =
           IF a = "admitted" THEN "passed" ELSE IF a = "expired" THEN "refused" ELSE "none"
<1> DEFINE n == [NoRequest EXCEPT !.answer = a]
<1>1. n.at = 0 /\ n.answer = a
  BY DEF NoRequest
<1> HIDE DEF n
<1>2. Stage(n) = IF a = "admitted" THEN "passed" ELSE IF a = "expired" THEN "refused" ELSE "none"
  BY <1>1 DEF Stage
<1>3. QED
  BY <1>2 DEF n

(* ... and of one that goes on.                                            *)
LEMMA StagePassed ==
  ASSUME NEW k \in RequestRecords, Sound(k), k.at # 0
  PROVE  /\ k.at = 1 => Stage(Passed(k)) = "none"
         /\ k.at = 2 => Stage(Passed(k)) = IF k.sid = None THEN "none" ELSE "asked"
         /\ k.at = 3 => Stage(Passed(k)) = "passed"
         /\ k.at = 4 => \/ Stage(Passed(k)) \in {"passed", "none"}
                        \/ Stage(Passed(k)) = "asked" /\ k.sid # None
         /\ k.at = 5 => Stage(Passed(k)) = "passed"
         /\ Stage(Passed(k)) = "asked" => Passed(k).sid = k.sid
<1>1. k.answer = "none" /\ k.route \in Routes /\ k.at \in 1 .. Len(Guards(k.route))
  BY DEF Sound
<1>2. Len(Guards(k.route)) \in {4, 5} /\ Guards(k.route)[3] = "session"
  BY <1>1, Order
<1>3. CASE k.at = Len(Guards(k.route))
  <2>1. Stage(Passed(k)) = "passed"
    BY <1>3, StageAnswered DEF Passed, Answers
  <2>2. k.at \in {4, 5}
    BY <1>2, <1>3
  <2>3. QED
    BY <2>1, <2>2
<1>4. CASE k.at # Len(Guards(k.route))
  <2> DEFINE n == [k EXCEPT !.at = @ + 1, !.waits = FALSE]
  <2>1. Passed(k) = n
    BY <1>4 DEF Passed
  <2>2. /\ n.at = k.at + 1 /\ n.route = k.route /\ n.answer = "none"
        /\ n.sid = k.sid /\ ~n.waits
    BY <1>1 DEF RequestRecords
  <2>3. k.at \in {1, 2, 3, 4} /\ (k.at = 3 => Guards(k.route)[4] # "session")
    BY <1>1, <1>2, <1>4, Order
  <2> HIDE DEF n
  <2>4. CASE k.at = 1
    BY <2>1, <2>2, <2>4 DEF Stage
  <2>5. CASE k.at = 2
    BY <1>2, <2>1, <2>2, <2>5 DEF Stage
  <2>6. CASE k.at = 3
    BY <2>1, <2>2, <2>3, <2>6 DEF Stage
  <2>7. CASE k.at = 4
    BY <2>1, <2>2, <2>7 DEF Stage
  <2>8. QED
    BY <2>3, <2>4, <2>5, <2>6, <2>7
<1>5. QED
  BY <1>3, <1>4

(* Request r may become k.                                                 *)
Moves(r, k) ==
  /\ k \in RequestRecords /\ Sound(k)
  /\ k.answer = "admitted" => reqs[r].at > 3
  /\ CheckStep(reqs[r], k, live)

(* The request a guard has before it.                                      *)
LEMMA AtGuard ==
  ASSUME RequestsOK, NEW r \in Requests, NEW guard, At(r, guard)
  PROVE  /\ reqs[r] \in RequestRecords /\ Sound(reqs[r]) /\ reqs[r].at # 0
         /\ Facts(reqs[r], valid, revoked, live) \subseteq reqs[r].seen
         /\ guard = "rate" => reqs[r].at = 1
         /\ guard = "jwt" => reqs[r].at = 2
         /\ guard = "session" => reqs[r].at \in {3, 5}
         /\ guard = "auth" => reqs[r].at \in {4, 5}
         /\ guard = "routeJwt" => reqs[r].at = 5
<1>1. /\ reqs[r] \in RequestRecords /\ Sound(reqs[r]) /\ reqs[r].at # 0
      /\ Facts(reqs[r], valid, revoked, live) \subseteq reqs[r].seen
  BY DEF RequestsOK, At, Busy, Noted
<1>2. reqs[r].route \in Routes /\ reqs[r].at \in 1 .. Len(Guards(reqs[r].route))
  BY <1>1 DEF Sound
<1>3. Guards(reqs[r].route)[reqs[r].at] = guard
  BY DEF At
<1>4. QED
  BY <1>1, <1>2, <1>3, Order

(* A refused request is idle, and not admitted.                            *)
LEMMA RefusedMoves ==
  ASSUME NEW r \in Requests, NEW a \in {"too many", "unauthorized", "expired", "error"},
         a = "expired" => Stage(reqs[r]) = "asked" /\ reqs[r].sid \notin live
  PROVE  Moves(r, Refused(a))
<1>1. a \in Answers /\ a # "admitted"
  BY DEF Answers
<1>2. Refused(a).answer = a /\ Refused(a) \in RequestRecords /\ Sound(Refused(a))
  BY <1>1, IdleSound DEF Refused, RequestRecords
<1>3. Stage(Refused(a)) = IF a = "expired" THEN "refused" ELSE "none"
  BY <1>1, StageAnswered DEF Refused
<1>4. QED
  BY <1>1, <1>2, <1>3 DEF Moves, CheckStep

(* What a request that goes on is to SessionCheck.                         *)
LEMMA PassedCheck ==
  ASSUME NEW k \in RequestRecords, Sound(k), k.at # 0,
         k.at \in {3, 5} => \/ Stage(k) = "passed"
                            \/ Stage(k) = "waiting"
  PROVE  CheckStep(k, Passed(k), live)
<1>1. k.sid \in Users \cup {None} /\ k.at \in {1, 2, 3, 4, 5}
  <2>1. k.route \in Routes /\ k.at \in 1 .. Len(Guards(k.route))
    BY DEF Sound
  <2>2. Len(Guards(k.route)) \in {4, 5}
    BY <2>1, Order
  <2>3. k.at \in {1, 2, 3, 4, 5}
    <3>1. PICK m \in {4, 5} : Len(Guards(k.route)) = m
      BY <2>2
    <3>2. k.at \in 1 .. m
      BY <2>1, <3>1, Zenon
    <3>3. QED
      BY <3>2
  <2>4. k.sid \in Users \cup {None}
    BY DEF RequestRecords
  <2>5. QED
    BY <2>3, <2>4
<1>2. CASE k.at \in {1, 2}
  <2>1. Stage(k) = "none"
    BY <1>2, StageAt
  <2>2. \/ Stage(Passed(k)) = "none"
        \/ Stage(Passed(k)) = "asked" /\ Passed(k).sid \in Users
    <3>1. CASE k.at = 1
      BY <3>1, StagePassed
    <3>2. CASE k.at = 2
      BY <1>1, <3>2, StagePassed
    <3>3. QED
      BY <1>2, <3>1, <3>2
  <2>3. QED
    BY <2>1, <2>2 DEF CheckStep, Check!Pending
<1>3. CASE k.at \in {3, 5}
  <2>1. Stage(Passed(k)) = "passed"
    BY <1>3, StagePassed
  <2>2. QED
    BY <1>3, <2>1 DEF CheckStep, Check!Pending
<1>4. CASE k.at = 4
  <2>1. Stage(k) = "passed"
    BY <1>4, StageAt
  <2>2. \/ Stage(Passed(k)) \in {"none", "passed"}
        \/ Stage(Passed(k)) = "asked" /\ Passed(k).sid \in Users
    BY <1>1, <1>4, StagePassed
  <2>3. QED
    BY <2>1, <2>2 DEF CheckStep, Check!Pending
<1>5. QED
  BY <1>1, <1>2, <1>3, <1>4

(* One that goes on from a guard after the session's, or before the        *)
(* token's, has nothing to show.                                           *)
LEMMA PassedMoves ==
  ASSUME RequestsOK, NEW r \in Requests, reqs[r].at # 0,
         reqs[r].at = 2 => reqs[r].route \in Public,
         reqs[r].at = 3 => "live" \in reqs[r].seen,
         reqs[r].at \in {3, 5} => \/ Stage(reqs[r]) = "passed"
                                  \/ Stage(reqs[r]) = "waiting"
  PROVE  Moves(r, Passed(reqs[r]))
  BY PassedSound, PassedAdmits, PassedCheck DEF RequestsOK, Moves

LEMMA HitMoves ==
  ASSUME RequestsOK, NEW r \in Requests, NEW key, NEW limit, Hit(r, key, limit),
         reqs[r].at \in {1, 4, 5}, reqs[r].at = 5 => Stage(reqs[r]) = "passed"
  PROVE  \E k : Moves(r, k) /\ Becomes(r, k)
<1>1. Moves(r, Passed(reqs[r]))
  BY PassedMoves
<1>2. Moves(r, Refused("too many"))
  BY RefusedMoves
<1>3. Becomes(r, Passed(reqs[r])) \/ Becomes(r, Refused("too many"))
  BY Zenon DEF Hit
<1>4. QED
  BY <1>1, <1>2, <1>3

LEMMA SkipMoves ==
  ASSUME RequestsOK, NEW r \in Requests, Skip(r),
         reqs[r].at \in {1, 4, 5}, reqs[r].at = 5 => Stage(reqs[r]) = "passed"
  PROVE  \E k : Moves(r, k) /\ Becomes(r, k)
<1>1. Moves(r, Passed(reqs[r]))
  BY PassedMoves
<1>2. QED
  BY <1>1, Zenon DEF Skip

(* Both throttlers.                                                        *)
LEMMA ThrottleMoves ==
  ASSUME RequestsOK, NEW r \in Requests, RateLimit(r) \/ AuthThrottle(r)
  PROVE  \E k : Moves(r, k) /\ Becomes(r, k)
<1>1. reqs[r].at \in {1, 4, 5} /\ (reqs[r].at = 5 => Stage(reqs[r]) = "passed")
  <2>1. At(r, "rate") \/ At(r, "auth")
    BY Zenon DEF RateLimit, AuthThrottle
  <2>2. Guards(reqs[r].route)[reqs[r].at] # "session"
    BY <2>1 DEF At
  <2>3. QED
    BY <2>1, <2>2, AtGuard, StageAt
<1>2. Skip(r) \/ \E key, limit : Hit(r, key, limit)
  BY Zenon DEF RateLimit, AuthThrottle
<1>3. QED
  BY <1>1, <1>2, HitMoves, SkipMoves

(* The token's guard.                                                      *)
LEMMA VerifyMoves ==
  ASSUME RequestsOK, NEW r \in Requests, Verify(r)
  PROVE  \E k : Moves(r, k) /\ Becomes(r, k)
<1> DEFINE k == reqs[r]
           n == [k EXCEPT !.waits = TRUE]
<1>1. At(r, "jwt")
  BY DEF Verify
<1>2. /\ k \in RequestRecords /\ Sound(k) /\ k.at = 2
      /\ Facts(k, valid, revoked, live) \subseteq k.seen
  BY <1>1, AtGuard
<1>3. CASE k.route \in Public
  <2>1. Becomes(r, Passed(k))
    BY <1>3, Zenon DEF Verify
  <2>2. Moves(r, Passed(k))
    BY <1>2, <1>3, PassedMoves
  <2>3. QED
    BY <2>1, <2>2
<1>4. CASE k.route \notin Public /\ k.token \in valid \cup {NoSub}
  <2>1. Becomes(r, n)
    BY <1>4, Zenon DEF Verify
  <2>2. k.token # NoSub => "valid" \in k.seen /\ k.token \in Users
    BY <1>2, <1>4 DEF Facts, RequestsOK
  <2>3. /\ n \in RequestRecords /\ n.seen = k.seen /\ n.at = 2
        /\ n.route = k.route /\ n.ip = k.ip /\ n.answer = k.answer
        /\ n.user = k.user /\ n.token = k.token /\ n.sid = k.sid /\ n.waits
    BY <1>2 DEF RequestRecords
  <2> HIDE DEF n
  <2>4. Sound(n) /\ n.answer = "none"
    BY <1>2, <2>2, <2>3 DEF Sound
  <2>5. Stage(n) = "none"
    BY <2>3, <2>4, StageAt
  <2>6. QED
    BY <2>1, <2>3, <2>4, <2>5 DEF Moves, CheckStep
<1>5. CASE k.route \notin Public /\ k.token \notin valid \cup {NoSub}
  <2>1. Becomes(r, Refused("unauthorized"))
    BY <1>5, Zenon DEF Verify
  <2>2. QED
    BY <2>1, RefusedMoves
<1>6. QED
  BY <1>3, <1>4, <1>5

LEMMA LookupTokenMoves ==
  ASSUME RequestsOK, NEW r \in Requests, LookupToken(r)
  PROVE  \E k : Moves(r, k) /\ Becomes(r, k)
<1> DEFINE k == reqs[r]
           n == [k EXCEPT !.user = k.token]
<1>1. At(r, "jwt") /\ k.waits
  BY DEF LookupToken
<1>2. /\ k \in RequestRecords /\ Sound(k) /\ k.at = 2
      /\ Facts(k, valid, revoked, live) \subseteq k.seen
  BY <1>1, AtGuard
<1>3. CASE k.token \in revoked \/ ~MissIsNull \/ k.token = NoSub
  <2>1. Becomes(r, Refused("unauthorized"))
    BY <1>3, Zenon DEF LookupToken
  <2>2. QED
    BY <2>1, RefusedMoves
<1>4. CASE ~(k.token \in revoked \/ ~MissIsNull \/ k.token = NoSub)
  <2>1. Becomes(r, Passed(n))
    BY <1>4, Zenon DEF LookupToken
  <2>2. {"valid", "unrevoked"} \subseteq k.seen /\ k.token \in Users
    BY <1>1, <1>2, <1>4 DEF Facts, Sound
  <2>3. /\ n \in RequestRecords /\ n.seen = k.seen /\ n.at = 2
        /\ n.route = k.route /\ n.ip = k.ip /\ n.answer = k.answer
        /\ n.user = k.token /\ n.token = k.token /\ n.sid = k.sid /\ n.waits = k.waits
    BY <1>2, <2>2 DEF RequestRecords
  <2> HIDE DEF n
  <2>4. Sound(n)
    BY <1>1, <1>2, <2>2, <2>3 DEF Sound
  <2>5. Passed(n) \in RequestRecords /\ Sound(Passed(n))
    BY <2>2, <2>3, <2>4, PassedSound
  <2>6. Passed(n).answer # "admitted"
    BY <2>3, <2>4, PassedAdmits
  <2>7. CheckStep(k, Passed(n), live)
    <3>1. CheckStep(n, Passed(n), live)
      BY <2>3, <2>4, PassedCheck
    <3>2. Stage(n) = Stage(k)
      BY <1>2, <2>3, <2>4, StageAt
    <3>3. QED
      BY <2>3, <3>1, <3>2 DEF CheckStep
  <2>8. QED
    BY <2>1, <2>5, <2>6, <2>7 DEF Moves
<1>5. QED
  BY <1>3, <1>4

LEMMA VerifyAgainMoves ==
  ASSUME RequestsOK, NEW r \in Requests, VerifyAgain(r)
  PROVE  \E k : Moves(r, k) /\ Becomes(r, k)
<1> DEFINE k == reqs[r]
           n == [k EXCEPT !.user = k.token]
<1>1. At(r, "routeJwt")
  BY DEF VerifyAgain
<1>2. k \in RequestRecords /\ Sound(k) /\ k.at = 5 /\ Guards(k.route)[5] = "routeJwt"
  BY <1>1, AtGuard DEF At
<1>3. CASE k.token \notin valid
  <2>1. Becomes(r, Refused("unauthorized"))
    BY <1>3, Zenon DEF VerifyAgain
  <2>2. QED
    BY <2>1, RefusedMoves
<1>4. CASE k.token \in valid
  <2>1. Becomes(r, Passed(n))
    BY <1>4, Zenon DEF VerifyAgain
  <2>2. k.token \in Users
    BY <1>4 DEF RequestsOK
  <2>3. /\ n \in RequestRecords /\ n.seen = k.seen /\ n.at = 5
        /\ n.route = k.route /\ n.ip = k.ip /\ n.answer = k.answer
        /\ n.user = k.token /\ n.token = k.token /\ n.sid = k.sid /\ n.waits = k.waits
    BY <1>2, <2>2 DEF RequestRecords
  <2> HIDE DEF n
  <2>4. Sound(n)
    BY <1>2, <2>3 DEF Sound
  <2>5. Passed(n) \in RequestRecords /\ Sound(Passed(n))
    BY <2>3, <2>4, PassedSound
  <2>6. CheckStep(k, Passed(n), live)
    <3>1. Stage(k) = "passed" /\ Stage(Passed(n)) = "passed"
      BY <1>2, <2>3, <2>4, StageAt, StagePassed
    <3>2. QED
      BY <3>1 DEF CheckStep, Check!Pending
  <2>7. QED
    BY <1>2, <2>1, <2>5, <2>6 DEF Moves
<1>5. QED
  BY <1>3, <1>4

(* The session's guard.                                                    *)
LEMMA FindSessionMoves ==
  ASSUME RequestsOK, NEW r \in Requests, FindSession(r)
  PROVE  \E k : Moves(r, k) /\ Becomes(r, k)
<1> DEFINE k == reqs[r]
           n == [k EXCEPT !.waits = TRUE]
<1>1. At(r, "session")
  BY DEF FindSession
<1>2. /\ k \in RequestRecords /\ Sound(k) /\ k.at \in {3, 5}
      /\ Facts(k, valid, revoked, live) \subseteq k.seen
  BY <1>1, AtGuard
<1>a. Stage(k) = AtSession(k)
  BY <1>1, <1>2, StageAt DEF At
<1>3. CASE \/ Becomes(r, Refused("unauthorized"))
           \/ Becomes(r, Refused("expired")) /\ k.sid # None /\ k.sid \notin live
  <2>1. ~k.waits
    BY DEF FindSession
  <2>2. QED
    BY <1>a, <1>3, <2>1, RefusedMoves DEF AtSession
<1>4. CASE Becomes(r, n) /\ k.sid # None /\ k.sid \in live
  <2>1. "live" \in k.seen /\ k.sid \in Users
    BY <1>2, <1>4 DEF Facts, RequestsOK
  <2>2. /\ n \in RequestRecords /\ n.seen = k.seen /\ n.at = k.at
        /\ n.route = k.route /\ n.ip = k.ip /\ n.answer = k.answer
        /\ n.user = k.user /\ n.token = k.token /\ n.sid = k.sid /\ n.waits
    BY <1>2 DEF RequestRecords
  <2> HIDE DEF n
  <2>3. Sound(n) /\ n.answer = "none"
    BY <1>2, <2>1, <2>2 DEF Sound
  <2>4. Stage(k) = "asked" /\ Stage(n) = "waiting"
    <3>1. ~k.waits
      BY DEF FindSession
    <3>2. k.at = 5 => Guards(k.route)[5] = "session"
      BY <1>1 DEF At
    <3>3. QED
      BY <1>2, <1>a, <1>4, <2>2, <2>3, <3>1, <3>2, StageAt DEF AtSession
  <2>5. QED
    BY <1>4, <2>2, <2>3, <2>4 DEF Moves, CheckStep
<1>5. QED
  BY <1>3, <1>4, Zenon DEF FindSession

LEMMA ReturnSessionMoves ==
  ASSUME RequestsOK, NEW r \in Requests, ReturnSession(r)
  PROVE  \E k : \E l \in SUBSET Users :
           Moves(r, k) /\ Change(valid, revoked, l, [reqs EXCEPT ![r] = k])
<1> DEFINE k == reqs[r]
<1>1. At(r, "session") /\ k.waits /\ k.sid \notin live
  BY DEF ReturnSession
<1>2. /\ k \in RequestRecords /\ Sound(k) /\ k.at \in {3, 5}
      /\ Facts(k, valid, revoked, live) \subseteq k.seen
  BY <1>1, AtGuard
<1>3. "live" \in k.seen /\ k.sid \in Users
  BY <1>1, <1>2 DEF Facts, Sound
<1>a. Stage(k) = "waiting"
  <2>1. Stage(k) = AtSession(k)
    BY <1>1, <1>2, StageAt DEF At
  <2>2. QED
    BY <1>1, <1>3, <2>1, GuardsAssumption DEF AtSession
<1>4. Moves(r, Passed(k))
  BY <1>1, <1>2, <1>3, <1>a, PassedMoves
<1>5. PICK back \in {{}, {k.sid}} :
        Change(valid, revoked, live \cup back, [reqs EXCEPT ![r] = Passed(k)])
  BY DEF ReturnSession
<1>6. live \cup back \in SUBSET Users
  BY <1>3 DEF RequestsOK
<1>7. QED
  BY <1>4, <1>5, <1>6

LEMMA CacheFailsMoves ==
  ASSUME RequestsOK, NEW r \in Requests, CacheFails(r)
  PROVE  \E k : Moves(r, k) /\ Becomes(r, k)
<1>1. Becomes(r, Refused("unauthorized")) \/ Becomes(r, Refused("error"))
  BY DEF CacheFails
<1>2. QED
  BY <1>1, RefusedMoves

(* Whatever a request does at its guard.                                   *)
LEMMA ContinueMoves ==
  ASSUME RequestsOK, NEW r \in Requests, Continue(r) \/ CacheFails(r)
  PROVE  \E k : \E l \in SUBSET Users :
           Moves(r, k) /\ Change(valid, revoked, l, [reqs EXCEPT ![r] = k])
<1>1. CASE \E k : Moves(r, k) /\ Becomes(r, k)
  BY <1>1 DEF Becomes, RequestsOK
<1>2. CASE ReturnSession(r)
  BY <1>2, ReturnSessionMoves
<1>3. QED
  BY <1>1, <1>2, ThrottleMoves, VerifyMoves, LookupTokenMoves, VerifyAgainMoves,
     FindSessionMoves, CacheFailsMoves, Zenon DEF Continue

(* A new request is at its first guard and has shown nothing.              *)
LEMMA ArriveMoves ==
  ASSUME RequestsOK, NEW r \in Requests, NEW route \in Routes, NEW token \in Tokens,
         NEW sid \in Users \cup {None}, NEW ip \in Ips, NEW exempt \in Exemptions,
         Arrive(r, route, token, sid, ip, exempt)
  PROVE  \E k : Moves(r, k) /\ Becomes(r, k)
<1> DEFINE n == [NoRequest EXCEPT !.route = route, !.token = token, !.sid = sid,
                                  !.ip = ip, !.exempt = exempt, !.at = 1]
<1>1. NoRequest \in RequestRecords /\ NoRequest.user = None /\ NoRequest.answer = "none"
  BY IdleSound DEF NoRequest, Answers
<1>2. /\ n \in RequestRecords /\ n.at = 1 /\ n.user = None /\ n.answer = "none"
      /\ n.route = route /\ n.ip = ip
  BY <1>1, GuardsAssumption DEF RequestRecords
<1>3. Becomes(r, n)
  BY DEF Arrive
<1> HIDE DEF n
<1>4. 1 \in 1 .. Len(Guards(route))
  BY Order
<1>5. ~(n.at > 2) /\ ~(n.at > 3) /\ n.at # 2 /\ n.at # 0
  BY <1>2
<1>6. Sound(n)
  BY <1>2, <1>4, <1>5 DEF Sound
<1>7. Stage(n) = "none"
  BY <1>2, <1>6, StageAt
<1>8. QED
  BY <1>2, <1>3, <1>6, <1>7 DEF Moves, CheckStep

-----------------------------------------------------------------------------
(* The counters of the throttlers.                                         *)
PassedAt(s) == {i \in 1 .. Len(s) : s[i].passed}

KeyOK(key, s) ==
  /\ s \in Seq(Hits)
  /\ Cardinality(PassedAt(s)) <= LimitOf(key.route)
  /\ key.guard = "auth" /\ key.route \notin Public => \A i \in 1 .. Len(s) : s[i].known

HitsOK ==
  /\ hits = [key \in Keys |-> hits[key]]
  /\ \A key \in Keys : KeyOK(key, hits[key])

LEMMA LimitNat ==
  ASSUME NEW route
  PROVE  LimitOf(route) \in Nat \ {0}
  BY GuardsAssumption DEF LimitOf

(* A hit passes only below the limit.                                      *)
LEMMA AppendOK ==
  ASSUME NEW key, NEW s, KeyOK(key, s), NEW h \in Hits,
         h.passed => Len(s) < LimitOf(key.route),
         key.guard = "auth" /\ key.route \notin Public => h.known
  PROVE  KeyOK(key, Append(s, h))
<1> DEFINE t == Append(s, h)
<1>1. /\ s \in Seq(Hits) /\ Len(s) \in Nat /\ t \in Seq(Hits) /\ Len(t) = Len(s) + 1
      /\ \A i \in 1 .. Len(s) : t[i] = s[i]
      /\ t[Len(s) + 1] = h
  BY DEF KeyOK
<1> HIDE DEF t
<1>2. Cardinality(PassedAt(t)) <= LimitOf(key.route)
  <2>1. CASE h.passed
    <3>1. /\ IsFiniteSet(1 .. Len(t)) /\ Cardinality(1 .. Len(t)) = Len(s) + 1
      BY <1>1, FS_Interval
    <3>2. PassedAt(t) \subseteq 1 .. Len(t)
      BY DEF PassedAt
    <3>3. /\ Cardinality(PassedAt(t)) \in Nat
          /\ Cardinality(PassedAt(t)) <= Len(s) + 1
      BY <3>1, <3>2, FS_Subset, FS_CardinalityType
    <3>4. QED
      BY <1>1, <2>1, <3>3, LimitNat
  <2>2. CASE ~h.passed
    <3>1. PassedAt(t) = PassedAt(s)
      <4>1. ASSUME NEW i PROVE i \in PassedAt(t) <=> i \in PassedAt(s)
        <5>1. CASE i \in 1 .. Len(s)
          BY <1>1, <5>1 DEF PassedAt
        <5>2. CASE i = Len(s) + 1
          BY <1>1, <2>2, <5>2 DEF PassedAt
        <5>3. CASE i \notin 1 .. Len(s) + 1
          BY <1>1, <5>3 DEF PassedAt
        <5>4. QED
          BY <1>1, <5>1, <5>2, <5>3
      <4>2. QED
        BY <4>1
    <3>2. QED
      BY <3>1 DEF KeyOK
  <2>3. QED
    BY <2>1, <2>2
<1>3. ASSUME key.guard = "auth", key.route \notin Public, NEW i \in 1 .. Len(t)
      PROVE  t[i].known
  <2>1. CASE i = Len(s) + 1
    BY <1>1, <1>3, <2>1
  <2>2. CASE i \in 1 .. Len(s)
    BY <1>1, <1>3, <2>2 DEF KeyOK
  <2>3. QED
    BY <1>1, <2>1, <2>2
<1>4. QED
  BY <1>1, <1>2, <1>3 DEF KeyOK, t

(* A timer only takes the oldest away.                                     *)
LEMMA TailOK ==
  ASSUME NEW key, NEW s, KeyOK(key, s), s # <<>>
  PROVE  KeyOK(key, Tail(s))
<1> DEFINE t == Tail(s)
<1>1. /\ s \in Seq(Hits) /\ Len(s) \in Nat \ {0} /\ t \in Seq(Hits) /\ Len(t) = Len(s) - 1
      /\ \A i \in 1 .. Len(t) : i + 1 \in 1 .. Len(s) /\ t[i] = s[i + 1]
  BY DEF KeyOK
<1> HIDE DEF t
<1>2. Cardinality(PassedAt(t)) <= LimitOf(key.route)
  <2> DEFINE f == [i \in PassedAt(t) |-> i + 1]
  <2>1. IsFiniteSet(1 .. Len(s)) /\ PassedAt(s) \subseteq 1 .. Len(s)
    BY <1>1, FS_Interval DEF PassedAt
  <2>2. IsFiniteSet(PassedAt(s))
    BY <2>1, FS_Subset
  <2>3. ASSUME NEW i \in PassedAt(t) PROVE i \in Nat /\ i + 1 \in PassedAt(s)
    <3>1. i \in 1 .. Len(t) /\ t[i].passed
      BY DEF PassedAt
    <3>2. QED
      BY <1>1, <3>1 DEF PassedAt
  <2>4. f \in Injection(PassedAt(t), PassedAt(s))
    <3>1. f \in [PassedAt(t) -> PassedAt(s)]
      BY <2>3
    <3>2. \A i, j \in PassedAt(t) : f[i] = f[j] => i = j
      BY <2>3
    <3> HIDE DEF f
    <3>3. QED
      BY <3>1, <3>2 DEF Injection, IsInjective
  <2>5. IsFiniteSet(PassedAt(t)) /\ Cardinality(PassedAt(t)) <= Cardinality(PassedAt(s))
    BY <2>2, <2>4, FS_Injection
  <2>6. Cardinality(PassedAt(s)) \in Nat /\ Cardinality(PassedAt(t)) \in Nat
    BY <2>2, <2>5, FS_CardinalityType
  <2>7. QED
    BY <2>5, <2>6, LimitNat DEF KeyOK
<1>3. ASSUME key.guard = "auth", key.route \notin Public, NEW i \in 1 .. Len(t)
      PROVE  t[i].known
  BY <1>1, <1>3 DEF KeyOK
<1>4. QED
  BY <1>1, <1>2, <1>3 DEF KeyOK, t

(* A hit of a request: its key is its own, its limit the route's.          *)
LEMMA HitKeeps ==
  ASSUME RequestsOK, HitsOK, NEW r \in Requests, NEW key \in Keys, NEW limit,
         Hit(r, key, limit), limit = LimitOf(key.route),
         key.guard = "auth" /\ key.route \notin Public => reqs[r].user # None
  PROVE  HitsOK'
<1> DEFINE known == reqs[r].user # None
           passed == Fits(key, limit)
           hit == [known |-> known, passed |-> passed]
<1>1. hits' = [hits EXCEPT ![key] = Append(@, hit)]
  BY Zenon DEF Hit
<1>k. known \in BOOLEAN
  BY Zenon
<1>p. passed \in BOOLEAN
  BY SMT DEF Fits
<1>2. known \in BOOLEAN /\ passed \in BOOLEAN
  BY <1>k, <1>p
<1>3. passed => Len(hits[key]) < LimitOf(key.route)
  BY Zenon DEF Fits
<1>4. key.guard = "auth" /\ key.route \notin Public => known
  OBVIOUS
<1> HIDE DEF known, passed
<1>5. hit \in Hits /\ hit.known = known /\ hit.passed = passed
  BY <1>2 DEF Hits
<1> HIDE DEF hit
<1>6. KeyOK(key, Append(hits[key], hit))
  BY <1>3, <1>4, <1>5, AppendOK DEF HitsOK
<1>7. /\ hits' = [k \in Keys |-> hits'[k]] /\ hits'[key] = Append(hits[key], hit)
      /\ \A k \in Keys \ {key} : hits'[k] = hits[k]
  BY <1>1 DEF HitsOK
<1>8. QED
  BY <1>6, <1>7 DEF HitsOK

LEMMA RateLimitKeeps ==
  ASSUME RequestsOK, HitsOK, NEW r \in Requests, RateLimit(r)
  PROVE  HitsOK'
<1> DEFINE k == reqs[r]
<1>1. k \in RequestRecords /\ Sound(k) /\ k.at = 1
  BY AtGuard DEF RateLimit
<1>2. k.route \in Routes /\ k.ip \in Ips /\ k.user = None
  BY <1>1 DEF Sound
<1>3. RateKey(k) \in Keys /\ RateKey(k).route = k.route /\ RateKey(k).guard # "auth"
  BY <1>2 DEF RateKey, Keys
<1>4. CASE UNCHANGED hits
  BY <1>4 DEF HitsOK
<1>5. CASE Hit(r, RateKey(k), 1 * LimitOf(k.route))
  <2>1. 1 * LimitOf(k.route) = LimitOf(k.route)
    BY LimitNat
  <2>2. QED
    BY <1>3, <1>5, <2>1, HitKeeps
<1>6. QED
  BY <1>2, <1>4, <1>5, Zenon DEF RateLimit, Skip

LEMMA AuthThrottleKeeps ==
  ASSUME RequestsOK, HitsOK, NEW r \in Requests, AuthThrottle(r)
  PROVE  HitsOK'
<1> DEFINE k == reqs[r]
<1>1. k \in RequestRecords /\ Sound(k) /\ k.at \in {4, 5}
  BY AtGuard DEF AuthThrottle
<1>2. k.route \in Routes /\ k.ip \in Ips
  BY <1>1 DEF Sound
<1>3. AuthKey(k) \in Keys /\ AuthKey(k).route = k.route
  BY <1>2 DEF AuthKey, Keys
<1>4. k.route \notin Public => k.user # None
  BY <1>1, GuardsAssumption DEF Sound
<1>5. CASE UNCHANGED hits
  BY <1>5 DEF HitsOK
<1>6. CASE Hit(r, AuthKey(k), LimitOf(k.route))
  BY <1>3, <1>4, <1>6, HitKeeps
<1>7. QED
  BY <1>5, <1>6, Zenon DEF AuthThrottle, Skip

LEMMA ReleaseKeeps ==
  ASSUME HitsOK, NEW key \in Keys, Release(key)
  PROVE  HitsOK'
<1>1. hits' = [hits EXCEPT ![key] = Tail(@)] /\ hits[key] # <<>>
  BY DEF Release
<1>2. KeyOK(key, Tail(hits[key]))
  BY <1>1, TailOK DEF HitsOK
<1>3. /\ hits' = [k \in Keys |-> hits'[k]] /\ hits'[key] = Tail(hits[key])
      /\ \A k \in Keys \ {key} : hits'[k] = hits[k]
  BY <1>1 DEF HitsOK
<1>4. QED
  BY <1>2, <1>3 DEF HitsOK

-----------------------------------------------------------------------------
IInv == RequestsOK /\ HitsOK

LEMMA InitInv == Init => IInv
<1> SUFFICES ASSUME Init PROVE IInv
  OBVIOUS
<1>1. NoRequest \in RequestRecords /\ Sound(NoRequest) /\ NoRequest.at = 0
  BY IdleSound DEF Answers
<1>2. \A r \in Requests : reqs[r] = NoRequest
  BY DEF Init
<1>3. RequestsOK
  BY <1>1, <1>2 DEF Init, RequestsOK, Noted
<1>4. ASSUME NEW key \in Keys PROVE KeyOK(key, hits[key])
  <2>1. hits[key] = <<>>
    BY DEF Init
  <2>2. PassedAt(<<>>) = {}
    BY DEF PassedAt
  <2>3. Cardinality(PassedAt(<<>>)) = 0
    BY <2>2, FS_EmptySet
  <2>4. <<>> \in Seq(Hits) /\ 1 .. Len(<<>>) = {}
    OBVIOUS
  <2>5. QED
    BY <2>1, <2>3, <2>4, LimitNat DEF KeyOK
<1>5. HitsOK
  BY <1>4 DEF HitsOK, Init
<1>6. QED
  BY <1>3, <1>5 DEF IInv

(* A step of one request, as Moves has it, or a change under all of them.  *)
LEMMA MovesKeep ==
  ASSUME RequestsOK, NEW r \in Requests, NEW k, NEW l \in SUBSET Users, Moves(r, k),
         Change(valid, revoked, l, [reqs EXCEPT ![r] = k])
  PROVE  RequestsOK'
<1> DEFINE rs == [reqs EXCEPT ![r] = k]
<1>1. rs \in [Requests -> RequestRecords]
  BY DEF RequestsOK, Moves
<1>2. \A q \in Requests : Sound(rs[q])
  BY DEF RequestsOK, Moves
<1> HIDE DEF rs
<1>3. QED
  BY <1>1, <1>2, ChangeSound DEF RequestsOK, rs

LEMMA EnvironmentKeeps ==
  ASSUME RequestsOK, NEW v \in SUBSET Users, NEW x \in SUBSET Users, NEW l \in SUBSET Users,
         Change(v, x, l, reqs)
  PROVE  RequestsOK'
  BY ChangeSound DEF RequestsOK

LEMMA FlipUsers ==
  ASSUME NEW u \in Users, NEW s \in SUBSET Users
  PROVE  Flip(s, u) \in SUBSET Users
  BY DEF Flip

(* Time and other services.                                                *)
Others ==
  \/ \E key \in Keys : Release(key)
  \/ \E u \in Users : TokenChanges(u) \/ RevokeChanges(u) \/ SessionChanges(u)

LEMMA OthersChange ==
  ASSUME RequestsOK, Others
  PROVE  \E v, x, l \in SUBSET Users : Change(v, x, l, reqs)
<1>1. valid \in SUBSET Users /\ revoked \in SUBSET Users /\ live \in SUBSET Users
  BY DEF RequestsOK
<1>2. CASE \E key \in Keys : Release(key)
  BY <1>1, <1>2 DEF Release
<1>3. ASSUME NEW u \in Users, TokenChanges(u)
      PROVE  \E v, x, l \in SUBSET Users : Change(v, x, l, reqs)
  BY <1>1, <1>3, FlipUsers DEF TokenChanges
<1>4. ASSUME NEW u \in Users, RevokeChanges(u)
      PROVE  \E v, x, l \in SUBSET Users : Change(v, x, l, reqs)
  BY <1>1, <1>4, FlipUsers DEF RevokeChanges
<1>5. ASSUME NEW u \in Users, SessionChanges(u)
      PROVE  \E v, x, l \in SUBSET Users : Change(v, x, l, reqs)
  BY <1>1, <1>5, FlipUsers DEF SessionChanges
<1>6. QED
  BY <1>2, <1>3, <1>4, <1>5 DEF Others

LEMMA NextInv == IInv /\ [Next]_vars => IInv'
<1> SUFFICES ASSUME RequestsOK, HitsOK, [Next]_vars
             PROVE  RequestsOK' /\ HitsOK'
  BY DEF IInv
<1>1. ASSUME NEW r \in Requests, NEW route \in Routes, NEW token \in Tokens,
             NEW sid \in Users \cup {None}, NEW ip \in Ips, NEW exempt \in Exemptions,
             Arrive(r, route, token, sid, ip, exempt)
      PROVE  RequestsOK' /\ HitsOK'
  <2>1. PICK k : Moves(r, k) /\ Becomes(r, k)
    BY <1>1, ArriveMoves
  <2>2. UNCHANGED hits
    BY <1>1 DEF Arrive
  <2>3. QED
    BY <2>1, <2>2, BecomesSound DEF Moves, HitsOK
<1>2. ASSUME NEW r \in Requests, Continue(r) \/ CacheFails(r)
      PROVE  RequestsOK' /\ HitsOK'
  <2>2. RequestsOK'
    BY <1>2, ContinueMoves, MovesKeep
  <2>3. RateLimit(r) \/ AuthThrottle(r) \/ UNCHANGED hits
    BY <1>2 DEF Continue, Verify, LookupToken, VerifyAgain, FindSession, ReturnSession,
                CacheFails
  <2>4. HitsOK'
    BY <2>3, RateLimitKeeps, AuthThrottleKeeps DEF HitsOK
  <2>5. QED
    BY <2>2, <2>4
<1>3. CASE Others
  <2>1. RequestsOK'
    BY <1>3, OthersChange, EnvironmentKeeps
  <2>2. CASE UNCHANGED hits
    BY <2>1, <2>2 DEF HitsOK
  <2>3. QED
    <3>1. (\E key \in Keys : Release(key)) \/ UNCHANGED hits
      BY <1>3, Zenon DEF Others, TokenChanges, RevokeChanges, SessionChanges
    <3>2. CASE \E key \in Keys : Release(key)
      BY <2>1, <3>2, ReleaseKeeps
    <3>3. QED
      BY <2>1, <2>2, <3>1, <3>2, Zenon
<1>4. CASE UNCHANGED vars
  BY <1>4 DEF vars, RequestsOK, HitsOK
<1>5. QED
  BY <1>1, <1>2, <1>3, <1>4 DEF Next, Others

(* The order of the guards, and the history of each request with it, is    *)
(* kept by every step; so are the throttlers' counters.                    *)
THEOREM GuardsInvariant == Spec => []IInv
  BY InitInv, NextInv, PTL DEF Spec

(* The variables have their types, a request is at one of its guards, and  *)
(* its user is its token's.                                                *)
THEOREM GuardsTypeOK == Spec => []TypeOK
<1>1. IInv => TypeOK
  <2> SUFFICES ASSUME RequestsOK, HitsOK PROVE TypeOK
    BY DEF IInv
  <2>1. hits \in [Keys -> Seq(Hits)]
    BY DEF HitsOK, KeyOK
  <2>2. \A r \in Requests : RequestOK(reqs[r])
    BY DEF RequestsOK, Sound, RequestOK
  <2>3. QED
    BY <2>1, <2>2 DEF RequestsOK, TypeOK
<1>2. QED
  BY <1>1, GuardsInvariant, PTL

(* No more requests pass a key than its route's limit, in any window.      *)
THEOREM GuardsWindowBound == Spec => []WindowBound
<1>1. IInv => WindowBound
  BY DEF IInv, HitsOK, KeyOK, PassedAt, WindowBound
<1>2. QED
  BY <1>1, GuardsInvariant, PTL

(* The throttler of the credentials counts authenticated requests only.    *)
THEOREM GuardsAuthCountsKnown == Spec => []AuthCountsKnown
<1>1. IInv => AuthCountsKnown
  BY DEF IInv, HitsOK, KeyOK, AuthCountsKnown
<1>2. QED
  BY <1>1, GuardsInvariant, PTL

(* Who is admitted has come past the last guard, and shown it all.         *)
LEMMA AdmittedIsLate ==
  ASSUME RequestsOK, [Next]_vars, NEW r \in Requests, Busy(r), reqs'[r].answer = "admitted"
  PROVE  reqs[r].at > 3
<1>1. reqs[r] \in RequestRecords /\ reqs[r].answer = "none" /\ reqs[r].at # 0
  BY DEF RequestsOK, Sound, Busy
<1>2. ASSUME NEW v, NEW x, NEW l, NEW rs \in [Requests -> RequestRecords], Change(v, x, l, rs)
      PROVE  reqs'[r].answer = rs[r].answer
  <2>1. reqs'[r] = IF rs[r].at # 0 THEN [rs[r] EXCEPT !.seen = @ \cup Facts(rs[r], v, x, l)]
                   ELSE rs[r]
    BY <1>2 DEF Change
  <2>2. [rs[r] EXCEPT !.seen = @ \cup Facts(rs[r], v, x, l)].answer = rs[r].answer
    BY DEF RequestRecords
  <2>3. QED
    BY <2>1, <2>2
<1>3. ASSUME NEW q \in Requests, NEW k, NEW l \in SUBSET Users, Moves(q, k),
             Change(valid, revoked, l, [reqs EXCEPT ![q] = k])
      PROVE  reqs[r].at > 3
  <2>1. [reqs EXCEPT ![q] = k] \in [Requests -> RequestRecords]
    BY <1>3 DEF RequestsOK, Moves
  <2>2. [reqs EXCEPT ![q] = k][r].answer = "admitted"
    BY <1>2, <1>3, <2>1
  <2>3. q = r /\ k.answer = "admitted"
    BY <1>1, <2>2 DEF RequestsOK
  <2>4. QED
    BY <1>3, <2>3 DEF Moves
<1>4. CASE reqs'[r].answer = reqs[r].answer
  BY <1>1, <1>4
<1>5. ASSUME NEW v, NEW x, NEW l, Change(v, x, l, reqs)
      PROVE  reqs[r].at > 3
  BY <1>2, <1>4, <1>5 DEF RequestsOK
<1>6. CASE \E q \in Requests : Continue(q) \/ CacheFails(q)
  BY <1>3, <1>6, ContinueMoves
<1>7. CASE Others
  BY <1>5, <1>7, OthersChange
<1>8. ASSUME NEW q \in Requests, NEW route \in Routes, NEW token \in Tokens,
             NEW sid \in Users \cup {None}, NEW ip \in Ips, NEW exempt \in Exemptions,
             Arrive(q, route, token, sid, ip, exempt)
      PROVE  reqs[r].at > 3
  <2>1. PICK k : Moves(q, k) /\ Becomes(q, k)
    BY <1>8, ArriveMoves
  <2>2. QED
    BY <1>3, <2>1 DEF Becomes, RequestsOK
<1>9. CASE UNCHANGED vars
  BY <1>4, <1>9 DEF vars
<1>10. QED
  BY <1>6, <1>7, <1>8, <1>9 DEF Next, Others

(* A handler runs only for a request that has shown its token and session. *)
THEOREM GuardsAdmitTheEntitled == Spec => AdmittedIsEntitled
<1> DEFINE Entitled ==
      \A r \in Requests : Busy(r) /\ reqs'[r].answer = "admitted" =>
        /\ "live" \in reqs[r].seen
        /\ reqs[r].route \notin Public =>
             reqs[r].user = reqs[r].token /\ {"valid", "unrevoked"} \subseteq reqs[r].seen
<1>1. ASSUME IInv, [Next]_vars PROVE Entitled
  <2>1. ASSUME NEW r \in Requests, Busy(r), reqs'[r].answer = "admitted"
        PROVE  /\ "live" \in reqs[r].seen
               /\ reqs[r].route \notin Public =>
                    reqs[r].user = reqs[r].token /\ {"valid", "unrevoked"} \subseteq reqs[r].seen
    <3>1. reqs[r].at > 3 /\ reqs[r].at \in Nat /\ Sound(reqs[r])
      BY <1>1, <2>1, AdmittedIsLate DEF IInv, RequestsOK, RequestRecords
    <3>2. reqs[r].at > 2
      BY <3>1
    <3>3. QED
      BY <3>1, <3>2 DEF Sound
  <2>2. QED
    BY <2>1
<1>2. IInv /\ [Next]_vars => [Entitled]_vars
  BY <1>1
<1>3. QED
  BY <1>2, GuardsInvariant, PTL DEF Spec, AdmittedIsEntitled

-----------------------------------------------------------------------------
(* The whole state maps to SessionCheck's: its checks are the requests.     *)
LEMMA CheckSteps ==
  ASSUME RequestsOK, live' \in SUBSET Users,
         \A r \in Requests : CheckStep(reqs[r], reqs'[r], live)
  PROVE  Check!Next
<1> DEFINE at == [r \in Requests |-> Stage(reqs[r])]
           of == [r \in Requests |-> reqs[r].sid]
<1>1. at' = [r \in Requests |-> Stage(reqs'[r])] /\ of' = [r \in Requests |-> reqs'[r].sid]
  OBVIOUS
<1>2. \A r \in Requests : Stage(reqs'[r]) \in Check!Stages
  BY DEF Stage, Check!Stages
<1>3. ASSUME NEW r \in Requests
      PROVE  Check!Ask(r) \/ Check!Find(r) \/ Check!Refuse(r) \/ Check!Pass(r)
             \/ Check!Leave(r) \/ Check!Stay(r)
  BY DEF CheckStep, Check!Ask, Check!Find, Check!Refuse, Check!Pass, Check!Leave, Check!Stay
<1>4. QED
  BY <1>2, <1>3 DEF Check!Next

(* Everybody but the request that moves stays where it is, or is over.     *)
LEMMA ChangeSteps ==
  ASSUME RequestsOK, NEW v, NEW x, NEW l \in SUBSET Users,
         NEW rs \in [Requests -> RequestRecords], Change(v, x, l, rs),
         \A r \in Requests : Sound(rs[r]) /\ CheckStep(reqs[r], rs[r], live)
  PROVE  Check!Next
<1>1. ASSUME NEW r \in Requests
      PROVE  CheckStep(reqs[r], reqs'[r], live)
  <2> DEFINE n == [rs[r] EXCEPT !.seen = @ \cup Facts(rs[r], v, x, l)]
  <2>1. CASE rs[r].at # 0
    <3>1. reqs'[r] = n
      BY <2>1 DEF Change
    <3>2. /\ n.at = rs[r].at /\ n.route = rs[r].route /\ n.answer = rs[r].answer
          /\ n.sid = rs[r].sid /\ n.waits = rs[r].waits
      BY DEF RequestRecords
    <3> HIDE DEF n
    <3>3. Stage(n) = Stage(rs[r])
      BY <3>2 DEF Stage
    <3>4. QED
      BY <3>1, <3>2, <3>3 DEF CheckStep
  <2>2. CASE rs[r].at = 0
    <3>1. reqs'[r] = rs[r] \/ reqs'[r] = NoRequest
      BY <2>2 DEF Change
    <3>2. Stage(NoRequest) = "none"
      BY DEF Stage, NoRequest
    <3>3. QED
      BY <3>1, <3>2 DEF CheckStep
  <2>3. QED
    BY <2>1, <2>2
<1>2. live' \in SUBSET Users
  BY DEF Change
<1>3. QED
  BY <1>1, <1>2, CheckSteps

LEMMA StaySteps ==
  ASSUME NEW k, NEW l
  PROVE  CheckStep(k, k, l)
  BY DEF CheckStep

(* Every step of the guards is one of SessionCheck, or leaves it alone.    *)
LEMMA NextChecks ==
  ASSUME RequestsOK, [Next]_vars
  PROVE  Check!Next
<1>1. ASSUME NEW r \in Requests, NEW k, NEW l \in SUBSET Users, Moves(r, k),
             Change(valid, revoked, l, [reqs EXCEPT ![r] = k])
      PROVE  Check!Next
  <2> DEFINE rs == [reqs EXCEPT ![r] = k]
  <2>1. rs \in [Requests -> RequestRecords]
    BY <1>1 DEF RequestsOK, Moves
  <2>2. ASSUME NEW q \in Requests
        PROVE  Sound(rs[q]) /\ CheckStep(reqs[q], rs[q], live)
    <3>1. CASE q = r
      BY <1>1, <3>1 DEF Moves, RequestsOK
    <3>2. CASE q # r
      BY <3>2, StaySteps DEF RequestsOK
    <3>3. QED
      BY <3>1, <3>2
  <2> HIDE DEF rs
  <2>3. Change(valid, revoked, l, rs)
    BY <1>1 DEF rs
  <2>4. QED
    BY <2>1, <2>2, <2>3, ChangeSteps
<1>2. ASSUME NEW r \in Requests, NEW route \in Routes, NEW token \in Tokens,
             NEW sid \in Users \cup {None}, NEW ip \in Ips, NEW exempt \in Exemptions,
             Arrive(r, route, token, sid, ip, exempt)
      PROVE  Check!Next
  <2>1. PICK k : Moves(r, k) /\ Becomes(r, k)
    BY <1>2, ArriveMoves
  <2>2. QED
    BY <1>1, <2>1 DEF Becomes, RequestsOK
<1>3. ASSUME NEW r \in Requests, Continue(r) \/ CacheFails(r)
      PROVE  Check!Next
  BY <1>1, <1>3, ContinueMoves
<1>4. CASE Others
  <2>1. PICK v, x, l \in SUBSET Users : Change(v, x, l, reqs)
    BY <1>4, OthersChange
  <2>2. \A r \in Requests : Sound(reqs[r]) /\ CheckStep(reqs[r], reqs[r], live)
    BY StaySteps DEF RequestsOK
  <2>3. reqs \in [Requests -> RequestRecords]
    BY DEF RequestsOK
  <2>4. QED
    BY <2>1, <2>2, <2>3, ChangeSteps
<1>5. CASE UNCHANGED vars
  <2>1. live' \in SUBSET Users /\ \A r \in Requests : CheckStep(reqs[r], reqs'[r], live)
    BY <1>5, StaySteps DEF vars, RequestsOK
  <2>2. QED
    BY <2>1, CheckSteps
<1>6. QED
  BY <1>2, <1>3, <1>4, <1>5 DEF Next, Others

(* A request's way through its SessionGuards is a behaviour of the contract *)
(* that SessionService keeps.                                              *)
THEOREM GuardsImplementSessionCheck == Spec => ImplementsSessionCheck
<1>1. Init => Check!Init
  <2> SUFFICES ASSUME Init PROVE Check!Init
    OBVIOUS
  <2>1. Stage(NoRequest) = "none"
    BY DEF Stage, NoRequest
  <2>2. QED
    BY <2>1 DEF Init, Check!Init
<1>2. IInv /\ [Next]_vars => Check!Next
  BY NextChecks DEF IInv
<1>3. QED
  BY <1>1, <1>2, GuardsInvariant, PTL DEF Spec, ImplementsSessionCheck, Check!Spec
=============================================================================
