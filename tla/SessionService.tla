---------------------------- MODULE SessionService ----------------------------
(***************************************************************************)
(* src/infrastructure/services/session.service.ts and                      *)
(* src/application/services/enhanced-session.service.ts over one cache:    *)
(* both keep their sessions under `session:<id>`.                          *)
(*                                                                         *)
(* getSession() refreshes the session it found with updateLastAccessed(),  *)
(* which begins by calling getSession() again: each cache.get that finds   *)
(* the session opens one more frame holding a copy of it.  The recursion   *)
(* ends when a get finds nothing; the frames are then closed innermost     *)
(* first, and all but the outermost write their copy back.                 *)
(***************************************************************************)
EXTENDS Naturals, SequencesExt

CONSTANTS
  Keys,         \* session ids uuid can produce
  Users,
  CreateData, UpdateData,  \* what callers pass as data, which may name a
                           \*   userId or an id
  Calls,        \* concurrent service calls; a slot is reused
  MaxDepth,     \* bound: deeper recursion overwrites the innermost frame
  AwaitsYield,  \* TRUE: the cache is behind the network and other requests
                \*   run during an await.  FALSE: the memory store the
                \*   application registers; its promises settle in
                \*   microtasks, so nothing else runs until a call returns
  Gone,         \* no such key in the cache
  NoUser, NoId  \* no userId, no id: the field is not there

ASSUME SessionAssumption ==
  /\ MaxDepth \in Nat \ {0, 1}
  /\ AwaitsYield \in BOOLEAN
  /\ CreateData \cup UpdateData \subseteq [user : Users \cup {NoUser}, id : Keys \cup {NoId}]
  /\ Gone \notin [user : Users, id : Keys \cup {NoId}]
  /\ NoUser \notin Users /\ NoId \notin Keys

\* Of a stored session: its userId and its id, which need not be its key.
Sessions == [user : Users, id : Keys \cup {NoId}]

VARIABLES
  store,   \* the sessions in the cache
  named,   \* history: the users and ids a key's session was given
  calls

vars == <<store, named, calls>>

NoCall == [op |-> "none", pc |-> "idle", key |-> {}, arg |-> {},
           frames |-> <<>>, odd |-> FALSE, guards |-> 0,
           rest |-> {}, found |-> {}, same |-> {}, stayed |-> FALSE]

\* The keys drawn for a session so far.
Drawn == {k \in Keys : named[k].users # {}}

LiveKeys == {k \in Keys : store[k] # Gone}

\* {...session, ...data}
Over(session, data) ==
  [user |-> IF data.user = NoUser THEN session.user ELSE data.user,
   id   |-> IF data.id = NoId THEN session.id ELSE data.id]

\* A key's session with its key, as a listing meets it.
Entries(s) == {[key |-> k, session |-> s[k]] : k \in {x \in Keys : s[x] # Gone}}

\* The session of key is given users and ids.
Naming(key, users, ids) ==
  named' = [named EXCEPT ![key] = [users |-> @.users \cup users, ids |-> @.ids \cup ids]]

Started(op, pc, key, arg) ==
  [NoCall EXCEPT !.op = op, !.pc = pc, !.key = key, !.arg = arg]

\* A check of a session that starts; `stayed` records whether the session has
\* been there ever since.
Asked(k) == [k EXCEPT !.pc = "read", !.frames = <<>>, !.stayed = store[k.key] # Gone]

\* A listing that starts; `same` records the entries unchanged ever since.
Listing(user) == [Started("list", "keys", {}, user) EXCEPT !.same = Entries(store)]

\* The call moves on to record k while the cache changes to s.
Step(c, k, s) ==
  /\ store' = s
  /\ calls' = [d \in Calls |->
                 LET r == IF d = c THEN k ELSE calls[d]
                 IN  [r EXCEPT !.stayed = @ /\ s[r.key] # Gone,
                               !.same = {e \in @ : s[e.key] = e.session}]]

\* Whether the event loop is free to start another call or run a timer.
LoopFree == AwaitsYield \/ \A c \in Calls : calls[c].pc = "idle"

Init ==
  /\ store = [k \in Keys |-> Gone]
  /\ named = [k \in Keys |-> [users |-> {}, ids |-> {}]]
  /\ calls = [c \in Calls |-> NoCall]
-----------------------------------------------------------------------------
\* A new id is drawn, and the session of it goes to the cache.
Create(c, key, session) ==
  /\ LoopFree /\ calls[c].pc = "idle"
  /\ key \notin Drawn
  /\ Naming(key, {session.user}, {session.id})
  /\ Step(c, Started("create", "set", key, session), store)

CreateSession(c, user, data) ==
  \E k \in Keys : Create(c, k, Over([user |-> user, id |-> k], data))

\* The cache stores the new session; the new-login notice follows at once.
CreateSet(c) ==
  /\ calls[c].pc = "set"
  /\ Step(c, NoCall, [store EXCEPT ![calls[c].key] = calls[c].arg])
  /\ UNCHANGED named

\* getSession(), also as validateSession() and as the guard of a request.
GetSession(c, key) ==
  /\ LoopFree /\ calls[c].pc = "idle"
  /\ Step(c, Asked(Started("get", "read", key, {})), store)
  /\ UNCHANGED named

UpdateSession(c, key, data) ==
  /\ LoopFree /\ calls[c].pc = "idle"
  /\ Step(c, Started("update", "read", key, data), store)
  /\ UNCHANGED named

\* POST /auth/logout: the global SessionGuard, the route's own, the handler.
Logout(c, key) ==
  /\ LoopFree /\ calls[c].pc = "idle"
  /\ Step(c, Asked([Started("logout", "read", key, {}) EXCEPT !.guards = 2]), store)
  /\ UNCHANGED named

DeleteSession(c, key) ==
  /\ LoopFree /\ calls[c].pc = "idle"
  /\ Step(c, Started("delete", "del", key, {}), store)
  /\ UNCHANGED named

GetUserSessions(c, user) ==
  /\ LoopFree /\ calls[c].pc = "idle"
  /\ Step(c, Listing(user), store)
  /\ UNCHANGED named

\* EnhancedSessionService creates with the same one command and sends no
\* notice; what it stores has no id, and its metadata are not spread over it.
EnhancedCreate(c, user) == \E k \in Keys : Create(c, k, [user |-> user, id |-> NoId])

EnhancedDelete(c, key) == DeleteSession(c, key)

\* Its validateSession() and getSession() read the session once.
EnhancedValidate(c, key) ==
  /\ LoopFree /\ calls[c].pc = "idle"
  /\ Step(c, Started("validate", "peek", key, {}), store)
  /\ UNCHANGED named

EnhancedGet(c, key) ==
  /\ LoopFree /\ calls[c].pc = "idle"
  /\ Step(c, Started("look", "peek", key, {}), store)
  /\ UNCHANGED named
-----------------------------------------------------------------------------
\* A plausible slip: an absent session is read again, as if it were late.
ReadRetrying(c) ==
  /\ calls[c].pc = "read"
  /\ LET s == store[calls[c].key]
     IN  IF s = Gone THEN UNCHANGED <<store, calls>>
         ELSE Step(c, [calls[c] EXCEPT !.pc = "unwind", !.frames = <<s>>], store)
  /\ UNCHANGED named

\* One cache.get of getSession(): found, it recurses; absent, it unwinds.
\* (`odd` tells one get from the next where MaxDepth hides the difference.)
Read(c) ==
  /\ calls[c].pc = "read"
  /\ LET s == store[calls[c].key]
         f == calls[c].frames
         deeper == Append(IF Len(f) < MaxDepth THEN f ELSE Front(f), s)
     IN  IF s = Gone THEN Step(c, [calls[c] EXCEPT !.pc = "unwind", !.odd = FALSE], store)
         ELSE Step(c, [calls[c] EXCEPT !.frames = deeper,
                                       !.odd = deeper = f /\ ~@], store)
  /\ UNCHANGED named

\* A plausible slip: the key of the write-back is made of the session's own id.
UnwindBySessionId(c) ==
  /\ calls[c].pc = "unwind" /\ Len(calls[c].frames) > 1
  /\ Step(c, [calls[c] EXCEPT !.frames = Front(@)],
          [store EXCEPT ![Last(calls[c].frames).id] = Last(calls[c].frames)])
  /\ UNCHANGED named

\* An inner frame closes: its updateLastAccessed() stores the copy it holds.
Unwind(c) ==
  /\ calls[c].pc = "unwind" /\ Len(calls[c].frames) > 1
  /\ Step(c, [calls[c] EXCEPT !.frames = Front(@)],
          [store EXCEPT ![calls[c].key] = Last(calls[c].frames)])
  /\ UNCHANGED named

\* A plausible slip: validating through a validation, as getSession() refreshes
\* through a getSession().
PeekRecursing(c) ==
  /\ calls[c].pc = "peek"
  /\ LET s == store[calls[c].key]
     IN  IF s = Gone \/ calls[c].op = "look" THEN Step(c, NoCall, store)
         ELSE Step(c, [calls[c] EXCEPT !.frames = <<s>>, !.odd = ~@], store)
  /\ UNCHANGED named

\* EnhancedSessionService's get: absent, or for getSession(), the call answers;
\* validateSession() goes on to store what it found.
Peek(c) ==
  /\ calls[c].pc = "peek"
  /\ LET s == store[calls[c].key]
     IN  IF s = Gone \/ calls[c].op = "look" THEN Step(c, NoCall, store)
         ELSE Step(c, [calls[c] EXCEPT !.pc = "touch", !.frames = <<s>>], store)
  /\ UNCHANGED named

\* validateSession() stores its copy, with a new time, and answers true.
Touch(c) ==
  /\ calls[c].pc = "touch"
  /\ Step(c, NoCall, [store EXCEPT ![calls[c].key] = calls[c].frames[1]])
  /\ UNCHANGED named

\* A plausible slip: updateSession() stores its caller's data also when there is
\* no session to spread them over.
AnswerUpserting(c) ==
  /\ calls[c].pc = "unwind" /\ Len(calls[c].frames) <= 1
  /\ LET k == calls[c]
     IN  IF k.frames = <<>> /\ k.op = "update" /\ k.arg.user # NoUser
         THEN Step(c, NoCall, [store EXCEPT ![k.key] = k.arg])
         ELSE Step(c, IF k.op = "update" /\ k.frames # <<>>
                      THEN [k EXCEPT !.pc = "write"] ELSE NoCall, store)
  /\ UNCHANGED named

\* A plausible slip: updateSession() without its test for a missing session.
AnswerUnchecked(c) ==
  /\ calls[c].pc = "unwind" /\ Len(calls[c].frames) <= 1
  /\ LET k == calls[c]
     IN  Step(c, CASE k.op = "update" -> [k EXCEPT !.pc = "write"]
                   [] OTHER -> NoCall,
              store)
  /\ UNCHANGED named

\* The outermost getSession() returns and its caller goes on.
Answer(c) ==
  /\ calls[c].pc = "unwind" /\ Len(calls[c].frames) <= 1
  /\ LET k == calls[c]
     IN  Step(c,
              CASE k.frames = <<>>  -> NoCall
                [] k.frames # <<>> /\ k.op = "get" -> NoCall
                [] k.frames # <<>> /\ k.op = "update" -> [k EXCEPT !.pc = "write"]
                [] k.frames # <<>> /\ k.op = "logout" /\ k.guards = 2 ->
                     Asked([k EXCEPT !.guards = 1])
                [] k.frames # <<>> /\ k.op = "logout" /\ k.guards = 1 ->
                     Started("delete", "del", k.key, {}),
              store)
  /\ UNCHANGED named

\* updateSession() stores the session it got with the new data spread over it.
Write(c) ==
  /\ calls[c].pc = "write"
  /\ Step(c, NoCall,
          [store EXCEPT ![calls[c].key] = Over(calls[c].frames[1], calls[c].arg)])
  /\ Naming(calls[c].key, {calls[c].arg.user} \ {NoUser}, {calls[c].arg.id} \ {NoId})

Delete(c) ==
  /\ calls[c].pc = "del"
  /\ Step(c, NoCall, [store EXCEPT ![calls[c].key] = Gone])
  /\ UNCHANGED named

\* getUserSessions(): the keys first, then one get per key.
ListKeys(c) ==
  /\ calls[c].pc = "keys"
  /\ Step(c, [calls[c] EXCEPT !.pc = "scan", !.rest = LiveKeys], store)
  /\ UNCHANGED named

\* A plausible slip: the loop ends at the first key that has gone.
ScanStopping(c) ==
  /\ calls[c].pc = "scan"
  /\ IF calls[c].rest = {} THEN Step(c, NoCall, store)
     ELSE \E key \in calls[c].rest :
            Step(c, [calls[c] EXCEPT
                       !.rest = IF store[key] = Gone THEN {} ELSE @ \ {key},
                       !.found = IF store[key] # Gone /\ store[key].user = calls[c].arg
                                   THEN @ \cup {store[key].id} ELSE @], store)
  /\ UNCHANGED named

\* What is listed is the session's own id, or undefined.  The order of the keys
\* is the cache's.
Scan(c) ==
  /\ calls[c].pc = "scan"
  /\ IF calls[c].rest = {} THEN Step(c, NoCall, store)
     ELSE \E key \in calls[c].rest :
            Step(c, [calls[c] EXCEPT
                       !.rest = @ \ {key},
                       !.found = IF store[key] # Gone /\ store[key].user = calls[c].arg
                                   THEN @ \cup {store[key].id} ELSE @], store)
  /\ UNCHANGED named

\* A call that is about to send the cache a command.
Commands(c) ==
  \/ calls[c].pc \in {"set", "read", "peek", "touch", "write", "del", "keys"}
  \/ calls[c].pc = "unwind" /\ Len(calls[c].frames) > 1
  \/ calls[c].pc = "scan" /\ calls[c].rest # {}

\* A plausible slip: a get that failed is taken for one that found nothing.
CommandFailsAsMiss(c) ==
  /\ AwaitsYield /\ Commands(c)
  /\ Step(c, IF calls[c].pc = "read" THEN [calls[c] EXCEPT !.pc = "unwind"] ELSE NoCall,
          store)
  /\ UNCHANGED named

\* A cache behind the network may fail: the call ends at once, with an error.
CommandFails(c) ==
  /\ AwaitsYield /\ Commands(c)
  /\ Step(c, NoCall, store)
  /\ UNCHANGED named

\* The TTL passes or the LRU drops the entry.  The memory store reads a clock
\* that only a timer advances, so for it this too waits for a free loop.
Expire(key) ==
  /\ LoopFree /\ store[key] # Gone
  /\ store' = [store EXCEPT ![key] = Gone]
  /\ calls' = [d \in Calls |-> [calls[d] EXCEPT !.stayed = @ /\ calls[d].key # key,
                                              !.same = {e \in @ : e.key # key}]]
  /\ UNCHANGED named
-----------------------------------------------------------------------------
Request(c) ==
  \/ \E user \in Users : \/ EnhancedCreate(c, user)
                         \/ \E data \in CreateData : CreateSession(c, user, data)
  \/ \E key \in Keys : \/ GetSession(c, key) \/ Logout(c, key) \/ DeleteSession(c, key)
                       \/ EnhancedValidate(c, key) \/ EnhancedGet(c, key)
                       \/ EnhancedDelete(c, key)
                       \/ \E data \in UpdateData : UpdateSession(c, key, data)
  \/ \E user \in Users : GetUserSessions(c, user)

Continue(c) ==
  \/ CreateSet(c) \/ Read(c) \/ Unwind(c) \/ Answer(c) \/ Write(c) \/ Delete(c)
  \/ ListKeys(c) \/ Scan(c) \/ Peek(c) \/ Touch(c)

Next == \/ \E c \in Calls : Request(c) \/ Continue(c) \/ CommandFails(c)
        \/ \E key \in Keys : Expire(key)

Spec == Init /\ [][Next]_vars

\* The cache answers every command, if only with an error; nobody has to call, nothing has to expire.
FairSpec == Spec /\ \A c \in Calls : WF_vars(Continue(c))
-----------------------------------------------------------------------------
CallOK(k) ==
  /\ k.op \in {"none", "create", "get", "update", "logout", "delete", "list",
               "validate", "look"}
  /\ k.pc \in {"idle", "set", "read", "unwind", "write", "del", "keys", "scan",
               "peek", "touch"}
  /\ k.pc \in {"set", "read", "unwind", "write", "del", "peek", "touch"} => k.key \in Keys
  /\ k.frames \in Seq(Sessions) /\ Len(k.frames) <= MaxDepth
  /\ k.pc = "set" => k.arg \in Sessions
  /\ k.pc = "write" => k.op = "update" /\ k.arg \in UpdateData /\ k.frames # <<>>
  /\ k.pc = "touch" => k.op = "validate" /\ Len(k.frames) = 1
  /\ k.op = "logout" /\ k.pc \in {"read", "unwind"} => k.guards \in {1, 2}
  /\ k.rest \subseteq Keys /\ k.found \subseteq Keys \cup {NoId}
  /\ k.stayed \in BOOLEAN /\ k.same \subseteq [key : Keys, session : Sessions]

TypeOK ==
  /\ store \in [Keys -> Sessions \cup {Gone}]
  /\ named \in [Keys -> [users : SUBSET Users, ids : SUBSET (Keys \cup {NoId})]]
  /\ DOMAIN calls = Calls /\ \A c \in Calls : CallOK(calls[c])

\* Copies read long ago are written back, also after a logout, and data are
\* spread over them; still a key's session never has a user or an id but those
\* its creator, or an updateSession() of that very key, gave it:
\* a guard never lets a request in as somebody another session is about.
OwnersKept ==
  \A k \in Keys : store[k] # Gone => /\ store[k].user \in named[k].users
                                    /\ store[k].id \in named[k].ids

\* How far the getSession() of a call is, whoever made it.
Stage(k) ==
  CASE k.pc = "read"   -> IF k.frames = <<>> THEN "asked" ELSE "waiting"
    [] k.pc = "unwind" -> IF k.frames = <<>> THEN "refused" ELSE "passed"
    [] OTHER           -> "none"

Check == INSTANCE SessionCheck
         WITH Sessions <- Keys, Checks <- Calls, live <- LiveKeys,
              at <- [c \in Calls |-> Stage(calls[c])], of <- [c \in Calls |-> calls[c].key]

\* However the copies, write-backs, expiries, deletes and failures of other
\* calls fall between the gets of the recursion, getSession() keeps the contract
\* its callers live with: null only if the session is absent, a session only if
\* it was there, and a failed command is neither.
ImplementsSessionCheck == Check!Spec

\* The safety side of what LogoutAnswers shows, a fact about the code and nothing
\* it is meant to do: getSession() hands a session back only if the session went
\* away meanwhile; no check of a session that stays live is ever answered.
AnsweredOnlyOnceGone ==
  [][\A c \in Calls :
        (/\ calls[c].op \in {"get", "logout"}
         /\ calls[c].pc = "unwind" /\ ~Commands(c) /\ calls'[c].pc # "unwind")
          => ~calls[c].stayed]_vars

\* A listing that ends contains the id of every session of the user that stayed
\* the same all along, undefined (NoId) for one that has none, and no id but one
\* the key of a session the user was ever given had.
ListingIsFaithful ==
  [][\A c \in Calls :
        calls[c].pc = "scan" /\ ~Commands(c) /\ calls'[c].pc = "idle" =>
          /\ \A e \in calls[c].same :
               e.session.user = calls[c].arg => e.session.id \in calls[c].found
          /\ \A x \in calls[c].found :
               \E k \in Keys : calls[c].arg \in named[k].users /\ x \in named[k].ids]_vars

\* Once a session is gone for good, every call about it returns.
GoneForGoodReturns ==
  \A k \in Keys, c \in Calls :
    <>[](store[k] = Gone) => []<>~(calls[c].pc # "idle" /\ calls[c].key = k)

\* A session that went away comes back only from a call that read it before:
\* when no call holds a copy of it, a logout is final.  This is what is left of
\* the promise of a delete, since five methods of two services write copies back.
GoneStaysGoneUnlessHeld ==
  [][\A k \in Keys :
        /\ store[k] = Gone /\ k \in Drawn
        /\ \A c \in Calls :
             calls[c].key = k => calls[c].frames = <<>> /\ calls[c].pc # "set"
        => store'[k] = Gone]_vars

\* Whatever the others do, only a call that goes through SessionService's
\* getSession() can fail to return: creations, deletions, listings, and all of
\* EnhancedSessionService, over the very same sessions, come back.
OthersReturn ==
  \A c \in Calls :
    (calls[c].pc # "idle" /\ calls[c].op \notin {"get", "update", "logout"})
      ~> (calls[c].pc = "idle")

\* auth.controller.ts:47: a logout request is answered.
LogoutAnswers ==
  \A c \in Calls :
    (calls[c].op = "logout" /\ calls[c].pc # "idle") ~> (calls[c].pc = "idle")
=============================================================================
