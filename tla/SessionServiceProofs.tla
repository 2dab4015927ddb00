------------------------- MODULE SessionServiceProofs -------------------------
(***************************************************************************)
(* Proofs about SessionService, for any ids, users, data, callers, depth   *)
(* of the recursion, and either cache.                                     *)
(*                                                                         *)
(* OwnersKept is not inductive by itself: what a call writes back it read *)
(* long ago, so every copy a call holds must be made of what the session   *)
(* of the call's key was given (Owns), and what it was given is never      *)
(* taken back (Grows).                                                     *)
(***************************************************************************)
EXTENDS SessionService, TLAPS

Operations == {"none", "create", "get", "update", "logout", "delete", "list",
               "validate", "look"}
Places == {"idle", "set", "read", "unwind", "write", "del", "keys", "scan",
           "peek", "touch"}

Arguments == Sessions \cup UpdateData \cup Users \cup {{}}
Snapshots == [key : Keys, session : Sessions]

CallRecords ==
  [op : Operations, pc : Places, key : Keys \cup {{}}, arg : Arguments,
   frames : Seq(Sessions), odd : BOOLEAN, guards : {0, 1, 2},
   rest : SUBSET Keys, found : SUBSET (Keys \cup {NoId}),
   same : SUBSET Snapshots, stayed : BOOLEAN]

\* Which fields of a call mean something at each point of it.
Shape(k) ==
  /\ k \in CallRecords
  /\ Len(k.frames) <= MaxDepth
  /\ k.pc \in {"set", "read", "unwind", "write", "del", "peek", "touch"} \/ k.frames # <<>>
       => k.key \in Keys
  /\ k.pc = "set" => k.arg \in Sessions
  /\ k.pc \in {"read", "unwind"} => k.op \in {"get", "update", "logout"}
  /\ k.pc = "peek" => k.op \in {"validate", "look"}
  /\ k.op = "update" => k.arg \in UpdateData
  /\ k.pc = "write" => k.op = "update" /\ k.frames # <<>>
  /\ k.pc = "touch" => k.op = "validate" /\ Len(k.frames) = 1
  /\ k.op = "logout" /\ k.pc \in {"read", "unwind"} => k.guards \in {1, 2}
  /\ k.pc \in {"keys", "scan"} => k.op = "list" /\ k.arg \in Users
  /\ k.pc = "keys" => k.found = {}

\* Session v is made of what n says was given to it.
Given(v, n) == v.user \in n.users /\ v.id \in n.ids

\* What a call holds is made of what the session of its key was given.
Owns(k, o) ==
  /\ \A i \in 1 .. Len(k.frames) : Given(k.frames[i], o[k.key])
  /\ k.pc = "set" => Given(k.arg, o[k.key])

\* A call that unwinds met an absent session; a listing has missed none of the
\* sessions that stayed the same, and found only ids of the user's.
Steady(k, s, o) ==
  /\ k.stayed => k.key \in Keys /\ s[k.key] # Gone
  /\ k.pc = "unwind" => ~k.stayed
  /\ \A e \in k.same : s[e.key] = e.session
  /\ k.pc = "scan" =>
       /\ \A e \in k.same :
            e.session.user = k.arg => e.key \in k.rest \/ e.session.id \in k.found
       /\ \A x \in k.found : \E y \in Keys : k.arg \in o[y].users /\ x \in o[y].ids

Good(k, s, o) == Shape(k) /\ Owns(k, o) /\ Steady(k, s, o)

Stores == [Keys -> Sessions \cup {Gone}]
Names == [Keys -> [users : SUBSET Users, ids : SUBSET (Keys \cup {NoId})]]
Owned(s, o) == \A k \in Keys : s[k] # Gone => Given(s[k], o[k])
Grows(o, p) == \A k \in Keys : o[k].users \subseteq p[k].users /\ o[k].ids \subseteq p[k].ids

IInv ==
  /\ store \in Stores /\ named \in Names
  /\ Owned(store, named)
  /\ calls = [c \in Calls |-> calls[c]]
  /\ \A c \in Calls : Good(calls[c], store, named)

\* What Step and Expire make of a call's record when the cache becomes s.
Kept(k, s) == [k EXCEPT !.stayed = @ /\ s[k.key] # Gone,
                        !.same = {e \in @ : s[e.key] = e.session}]
-----------------------------------------------------------------------------
(* Data spread over a session make a session of what either has.           *)
LEMMA OverSession ==
  ASSUME NEW v \in Sessions,
         NEW d \in [user : Users \cup {NoUser}, id : Keys \cup {NoId}],
         NEW n \in [users : SUBSET Users, ids : SUBSET (Keys \cup {NoId})], Given(v, n),
         {d.user} \ {NoUser} \subseteq n.users, {d.id} \ {NoId} \subseteq n.ids
  PROVE  Over(v, d) \in Sessions /\ Given(Over(v, d), n)
BY DEF Over, Sessions, Given

(* Naming only adds to what a key's session was given.                     *)
LEMMA NamingGrows ==
  ASSUME named \in Names, NEW x \in Keys, NEW U \in SUBSET Users,
         NEW I \in SUBSET (Keys \cup {NoId}), Naming(x, U, I)
  PROVE  /\ named' \in Names /\ Grows(named, named')
         /\ named'[x].users = named[x].users \cup U
         /\ named'[x].ids = named[x].ids \cup I
<1>1. named' = [named EXCEPT ![x] = [users |-> named[x].users \cup U,
                                     ids |-> named[x].ids \cup I]]
  BY DEF Naming
<1>2. [users |-> named[x].users \cup U, ids |-> named[x].ids \cup I]
        \in [users : SUBSET Users, ids : SUBSET (Keys \cup {NoId})]
  BY DEF Names
<1>3. QED
  BY <1>1, <1>2 DEF Names, Grows

(* A call that has not begun, and one that has, is as it should be. *)
LEMMA IdleGood ==
  ASSUME NEW s \in Stores, NEW o \in Names
  PROVE  Good(NoCall, s, o)
<1>1. NoCall \in CallRecords
  BY DEF NoCall, CallRecords, Operations, Places, Arguments
<1>2. Len(NoCall.frames) = 0 /\ NoCall.frames = <<>> /\ Len(NoCall.frames) <= MaxDepth
  BY SessionAssumption DEF NoCall
<1>3. QED
  BY <1>1, <1>2 DEF Good, Shape, Owns, Steady, NoCall

LEMMA StartedRecord ==
  ASSUME NEW op \in Operations, NEW pc \in Places, NEW key \in Keys \cup {{}},
         NEW arg \in Arguments
  PROVE  /\ Started(op, pc, key, arg) \in CallRecords
         /\ Started(op, pc, key, arg).op = op
         /\ Started(op, pc, key, arg).pc = pc
         /\ Started(op, pc, key, arg).key = key
         /\ Started(op, pc, key, arg).arg = arg
         /\ Started(op, pc, key, arg).frames = <<>>
         /\ Started(op, pc, key, arg).guards = 0
         /\ Started(op, pc, key, arg).found = {}
         /\ Started(op, pc, key, arg).same = {}
         /\ ~Started(op, pc, key, arg).stayed
<1> DEFINE r == Started(op, pc, key, arg)
<1>1. r = [NoCall EXCEPT !.op = op, !.pc = pc, !.key = key, !.arg = arg]
  BY DEF Started
<1>2. /\ r.op = op /\ r.pc = pc /\ r.key = key /\ r.arg = arg /\ r.frames = <<>>
      /\ r.guards = 0 /\ r.found = {} /\ r.same = {} /\ ~r.stayed
  BY <1>1 DEF NoCall
<1>3. r = [op |-> op, pc |-> pc, key |-> key, arg |-> arg, frames |-> <<>>,
           odd |-> FALSE, guards |-> 0, rest |-> {}, found |-> {}, same |-> {},
           stayed |-> FALSE]
  BY <1>1 DEF NoCall
<1>4. r \in CallRecords
  BY <1>3 DEF CallRecords
<1>5. QED
  BY <1>2, <1>4

(* A check or a listing that starts knows what is there.                   *)
LEMMA AskedRecord ==
  ASSUME NEW k \in CallRecords
  PROVE  /\ Asked(k) \in CallRecords /\ Asked(k).op = k.op /\ Asked(k).pc = "read"
         /\ Asked(k).key = k.key /\ Asked(k).arg = k.arg /\ Asked(k).frames = <<>>
         /\ Asked(k).guards = k.guards /\ Asked(k).found = k.found
         /\ Asked(k).same = k.same /\ Asked(k).stayed = (store[k.key] # Gone)
<1> DEFINE there == store[k.key] # Gone
           n == [k EXCEPT !.pc = "read", !.frames = <<>>, !.stayed = there]
<1>1. there \in BOOLEAN /\ Asked(k) = n
  BY DEF Asked
<1>2. "read" \in Places /\ <<>> \in Seq(Sessions)
  BY DEF Places
<1> HIDE DEF there
<1>3. n \in CallRecords
  BY <1>1, <1>2 DEF CallRecords
<1>4. /\ n.op = k.op /\ n.pc = "read" /\ n.key = k.key /\ n.arg = k.arg
      /\ n.frames = <<>> /\ n.guards = k.guards /\ n.found = k.found
      /\ n.same = k.same /\ n.stayed = there
  BY DEF CallRecords
<1>5. QED
  BY <1>1, <1>3, <1>4 DEF there

LEMMA ListingRecord ==
  ASSUME store \in Stores, NEW user \in Users
  PROVE  /\ Listing(user) \in CallRecords /\ Listing(user).op = "list"
         /\ Listing(user).pc = "keys" /\ Listing(user).key = {}
         /\ Listing(user).arg = user /\ Listing(user).frames = <<>>
         /\ Listing(user).found = {}
         /\ Listing(user).same = Entries(store) /\ ~Listing(user).stayed
<1> DEFINE r == Started("list", "keys", {}, user)
<1>1. /\ r \in CallRecords /\ r.op = "list" /\ r.pc = "keys" /\ r.key = {}
      /\ r.arg = user /\ r.frames = <<>> /\ r.found = {}
      /\ ~r.stayed
  <2>1. "list" \in Operations /\ "keys" \in Places /\ user \in Arguments
    BY DEF Operations, Places, Arguments
  <2>2. QED
    BY <2>1, StartedRecord
<1>2. Entries(store) \in SUBSET Snapshots
  BY DEF Entries, Snapshots, Stores
<1> HIDE DEF r
<1>3. ASSUME NEW e \in SUBSET Snapshots
      PROVE  LET n == [r EXCEPT !.same = e]
             IN  /\ n \in CallRecords /\ n.op = "list" /\ n.pc = "keys" /\ n.key = {}
                 /\ n.arg = user /\ n.frames = <<>>
                 /\ n.found = {} /\ n.same = e /\ ~n.stayed
  BY <1>1 DEF CallRecords
<1>4. QED
  BY <1>2, <1>3 DEF Listing, r

(* A record stays good while sessions go, come and are written by others,  *)
(* as long as nothing a session was given is forgotten.                    *)
LEMMA KeptGood ==
  ASSUME NEW s \in Stores, NEW t \in Stores, NEW o \in Names, NEW p \in Names,
         NEW k, Good(k, s, o), Grows(o, p)
  PROVE  Good(Kept(k, t), t, p)
<1> DEFINE j == Kept(k, t)
<1>1. k \in CallRecords
  BY DEF Good, Shape
<1>2. /\ j \in CallRecords /\ j.op = k.op /\ j.pc = k.pc /\ j.key = k.key
      /\ j.arg = k.arg /\ j.frames = k.frames /\ j.guards = k.guards
      /\ j.rest = k.rest /\ j.found = k.found
      /\ j.stayed = (k.stayed /\ t[k.key] # Gone)
      /\ j.same = {e \in k.same : t[e.key] = e.session}
  <2> DEFINE there == k.stayed /\ t[k.key] # Gone
             same == {e \in k.same : t[e.key] = e.session}
  <2>1. j = [k EXCEPT !.stayed = there, !.same = same]
    BY <1>1 DEF Kept, CallRecords
  <2>2. there \in BOOLEAN /\ same \in SUBSET Snapshots
    BY <1>1 DEF CallRecords
  <2> HIDE DEF there, same, j
  <2>3. j \in CallRecords
    BY <1>1, <2>1, <2>2 DEF CallRecords
  <2>4. /\ j.op = k.op /\ j.pc = k.pc /\ j.key = k.key /\ j.arg = k.arg
        /\ j.frames = k.frames /\ j.guards = k.guards /\ j.rest = k.rest
        /\ j.found = k.found /\ j.stayed = there /\ j.same = same
    BY <1>1, <2>1 DEF CallRecords
  <2>5. QED
    BY <2>3, <2>4 DEF there, same
<1> HIDE DEF j
<1>3. Shape(j)
  BY <1>2 DEF Good, Shape
<1>4. Owns(j, p)
  <2>1. ASSUME NEW i \in 1 .. Len(k.frames)
        PROVE  Given(k.frames[i], p[k.key])
    <3>1. k.frames # <<>>
      BY <1>1 DEF CallRecords
    <3>2. k.key \in Keys /\ Given(k.frames[i], o[k.key])
      BY <3>1 DEF Good, Shape, Owns
    <3>3. QED
      BY <3>2 DEF Grows, Given
  <2>2. ASSUME k.pc = "set"
        PROVE  Given(k.arg, p[k.key])
    BY <2>2 DEF Good, Shape, Owns, Grows, Given
  <2>3. QED
    BY <1>2, <2>1, <2>2 DEF Owns
<1>5. Steady(j, t, p)
  <2>1. ASSUME k.pc = "scan", NEW x \in k.found
        PROVE  \E y \in Keys : k.arg \in p[y].users /\ x \in p[y].ids
    BY <2>1 DEF Good, Steady, Grows
  <2>2. j.stayed => j.key \in Keys /\ t[j.key] # Gone
    BY <1>2 DEF Good, Steady
  <2>3. j.pc = "unwind" => ~j.stayed
    BY <1>2 DEF Good, Steady
  <2>4. QED
    BY <1>2, <2>1, <2>2, <2>3 DEF Good, Steady
<1>6. QED
  BY <1>3, <1>4, <1>5 DEF Good, j

(* A step of one call keeps the invariant if its next record is good and   *)
(* it leaves the cache with sessions of their owners.                      *)
LEMMA StepKeeps ==
  ASSUME IInv, NEW c \in Calls, NEW k, NEW s \in Stores, Step(c, k, s),
         named' \in Names, Grows(named, named'),
         Good(k, store, named'), Owned(s, named')
  PROVE  IInv'
<1>1. store' = s
  BY DEF Step
<1>2. calls' = [d \in Calls |-> Kept(IF d = c THEN k ELSE calls[d], s)]
  BY DEF Step, Kept
<1>3. Grows(named', named')
  BY DEF Grows
<1>4. ASSUME NEW d \in Calls
      PROVE  Good(calls'[d], s, named')
  <2>1. CASE d = c
    BY <1>2, <1>3, <2>1, KeptGood DEF IInv
  <2>2. CASE d # c
    <3>1. Good(Kept(calls[d], s), s, named')
      BY KeptGood DEF IInv
    <3>2. QED
      BY <1>2, <2>2, <3>1
  <2>3. QED
    BY <2>1, <2>2
<1>5. calls' = [d \in Calls |-> calls'[d]]
  BY <1>2
<1>6. QED
  BY <1>1, <1>4, <1>5 DEF IInv

(* The same for a step that names nothing and leaves the cache alone, or   *)
(* writes one entry.                                                       *)
LEMMA StepQuiet ==
  ASSUME IInv, NEW c \in Calls, NEW k, Step(c, k, store), UNCHANGED named,
         Good(k, store, named)
  PROVE  IInv'
<1>1. Grows(named, named')
  BY DEF Grows
<1>2. QED
  BY <1>1, StepKeeps DEF IInv

LEMMA StepWrites ==
  ASSUME IInv, NEW c \in Calls, NEW k, NEW x \in Keys, NEW v \in Sessions \cup {Gone},
         Step(c, k, [store EXCEPT ![x] = v]), named' \in Names, Grows(named, named'),
         Good(k, store, named'), v # Gone => Given(v, named'[x])
  PROVE  IInv'
<1>1. [store EXCEPT ![x] = v] \in Stores
  BY DEF IInv, Stores
<1>2. Owned([store EXCEPT ![x] = v], named')
  BY DEF IInv, Owned, Stores, Grows, Given
<1>3. QED
  BY <1>1, <1>2, StepKeeps DEF IInv
-----------------------------------------------------------------------------
(* A call that starts with a command on its key, or a listing, is good.    *)
LEMMA StartGood ==
  ASSUME IInv, NEW k \in CallRecords, k.frames = <<>>,
         k.stayed => k.key \in Keys /\ store[k.key] # Gone,
         \A e \in k.same : store[e.key] = e.session,
         \/ k.key \in Keys /\ k.pc = "read" /\ k.op \in {"get", "update", "logout"}
         \/ k.key \in Keys /\ k.pc = "peek" /\ k.op \in {"validate", "look"}
         \/ k.key \in Keys /\ k.pc = "del" /\ k.op = "delete"
         \/ k.pc = "keys" /\ k.op = "list" /\ k.arg \in Users /\ k.found = {},
         k.op = "update" => k.arg \in UpdateData,
         k.op = "logout" => k.guards \in {1, 2}
  PROVE  Good(k, store, named)
<1>1. Len(k.frames) = 0 /\ 0 <= MaxDepth
  BY SessionAssumption
<1>2. Shape(k)
  BY <1>1 DEF Shape
<1>3. Owns(k, named)
  BY <1>1 DEF Owns
<1>4. Steady(k, store, named)
  BY DEF Steady
<1>5. QED
  BY <1>2, <1>3, <1>4 DEF Good

(* What is about to be stored is what its key has just been given.         *)
LEMMA CreateInv ==
  ASSUME IInv, NEW c \in Calls, NEW x \in Keys, NEW v \in Sessions, Create(c, x, v)
  PROVE  IInv'
<1> DEFINE k == Started("create", "set", x, v)
<1>1. Step(c, k, store) /\ Naming(x, {v.user}, {v.id})
  BY DEF Create
<1>2. {v.user} \in SUBSET Users /\ {v.id} \in SUBSET (Keys \cup {NoId})
  BY DEF Sessions
<1>3. /\ named' \in Names /\ Grows(named, named')
      /\ named'[x].users = named[x].users \cup {v.user}
      /\ named'[x].ids = named[x].ids \cup {v.id}
  BY <1>1, <1>2, NamingGrows DEF IInv
<1>4. /\ k \in CallRecords /\ k.op = "create" /\ k.pc = "set" /\ k.key = x
      /\ k.arg = v /\ k.frames = <<>> /\ k.same = {} /\ ~k.stayed
  <2>1. "create" \in Operations /\ "set" \in Places /\ v \in Arguments
    BY DEF Operations, Places, Arguments
  <2>2. QED
    BY <2>1, StartedRecord
<1> HIDE DEF k
<1>5. Owned(store, named')
  BY <1>3 DEF IInv, Owned, Grows, Given
<1>6. Good(k, store, named')
  <2>1. Len(k.frames) = 0 /\ 0 <= MaxDepth
    BY <1>4, SessionAssumption
  <2>2. Shape(k)
    BY <1>4, <2>1 DEF Shape
  <2>3. Owns(k, named')
    BY <1>3, <1>4, <2>1 DEF Owns, Given
  <2>4. Steady(k, store, named')
    BY <1>4 DEF Steady
  <2>5. QED
    BY <2>2, <2>3, <2>4 DEF Good
<1>7. QED
  BY <1>1, <1>3, <1>5, <1>6, StepKeeps DEF IInv

(* What the two services store first.                                      *)
LEMMA NewSession ==
  ASSUME NEW user \in Users, NEW x \in Keys
  PROVE  /\ [user |-> user, id |-> NoId] \in Sessions
         /\ \A data \in CreateData : Over([user |-> user, id |-> x], data) \in Sessions
BY SessionAssumption DEF Sessions, Over

LEMMA RequestInv ==
  ASSUME IInv, NEW c \in Calls, Request(c)
  PROVE  IInv'
<1>1. ASSUME NEW user \in Users,
             \/ EnhancedCreate(c, user)
             \/ \E data \in CreateData : CreateSession(c, user, data)
      PROVE  IInv'
  BY <1>1, NewSession, CreateInv DEF EnhancedCreate, CreateSession
<1>2. ASSUME NEW key \in Keys, NEW op, NEW pc, NEW arg, UNCHANGED named,
             Step(c, Started(op, pc, key, arg), store),
             \/ op = "update" /\ pc = "read" /\ arg \in UpdateData
             \/ op = "delete" /\ pc = "del" /\ arg = {}
             \/ op \in {"validate", "look"} /\ pc = "peek" /\ arg = {}
      PROVE  IInv'
  <2>1. op \in Operations /\ pc \in Places /\ arg \in Arguments
    BY <1>2 DEF Operations, Places, Arguments
  <2>2. Good(Started(op, pc, key, arg), store, named)
    <3>1. /\ Started(op, pc, key, arg) \in CallRecords
          /\ Started(op, pc, key, arg).op = op /\ Started(op, pc, key, arg).pc = pc
          /\ Started(op, pc, key, arg).key = key /\ Started(op, pc, key, arg).arg = arg
          /\ Started(op, pc, key, arg).frames = <<>>
          /\ Started(op, pc, key, arg).same = {}
          /\ ~Started(op, pc, key, arg).stayed
      BY <2>1, StartedRecord
    <3>2. QED
      BY <1>2, <3>1, StartGood
  <2>3. QED
    BY <1>2, <2>2, StepQuiet
<1>0. ASSUME NEW k \in CallRecords, UNCHANGED named, Step(c, Asked(k), store),
             k.op \in {"get", "logout"}, k.key \in Keys, k.same = {},
             k.op = "logout" => k.guards = 2
      PROVE  IInv'
  <2>1. Good(Asked(k), store, named)
    BY <1>0, AskedRecord, StartGood
  <2>2. QED
    BY <1>0, <2>1, StepQuiet
<1>3. ASSUME NEW key \in Keys, GetSession(c, key)
      PROVE  IInv'
  <2> DEFINE r == Started("get", "read", key, {})
  <2>1. /\ r \in CallRecords /\ r.op = "get" /\ r.key = key /\ r.same = {}
    <3>1. "get" \in Operations /\ "read" \in Places /\ {} \in Arguments
      BY DEF Operations, Places, Arguments
    <3>2. QED
      BY <3>1, StartedRecord
  <2>2. Step(c, Asked(r), store) /\ UNCHANGED named
    BY <1>3 DEF GetSession
  <2> HIDE DEF r
  <2>3. QED
    BY <1>0, <2>1, <2>2
<1>4. ASSUME NEW key \in Keys, NEW data \in UpdateData, UpdateSession(c, key, data)
      PROVE  IInv'
  BY <1>2, <1>4 DEF UpdateSession
<1>5. ASSUME NEW key \in Keys, DeleteSession(c, key) \/ EnhancedDelete(c, key)
      PROVE  IInv'
  BY <1>2, <1>5 DEF DeleteSession, EnhancedDelete
<1>6. ASSUME NEW key \in Keys, EnhancedValidate(c, key) \/ EnhancedGet(c, key)
      PROVE  IInv'
  BY <1>2, <1>6 DEF EnhancedValidate, EnhancedGet
<1>7. ASSUME NEW key \in Keys, Logout(c, key)
      PROVE  IInv'
  <2> DEFINE r == Started("logout", "read", key, {})
             k == [r EXCEPT !.guards = 2]
  <2>1. /\ r \in CallRecords /\ r.op = "logout" /\ r.key = key /\ r.same = {}
    <3>1. "logout" \in Operations /\ "read" \in Places /\ {} \in Arguments
      BY DEF Operations, Places, Arguments
    <3>2. QED
      BY <3>1, StartedRecord
  <2>2. Step(c, Asked(k), store) /\ UNCHANGED named
    BY <1>7 DEF Logout
  <2> HIDE DEF r
  <2>3. /\ k \in CallRecords /\ k.op = "logout" /\ k.key = key /\ k.guards = 2
        /\ k.same = {}
    BY <2>1 DEF CallRecords
  <2> HIDE DEF k
  <2>4. QED
    BY <1>0, <2>2, <2>3
<1>8. ASSUME NEW user \in Users, GetUserSessions(c, user)
      PROVE  IInv'
  <2>1. Step(c, Listing(user), store) /\ UNCHANGED named
    BY <1>8 DEF GetUserSessions
  <2>2. \A e \in Entries(store) : store[e.key] = e.session
    BY DEF Entries
  <2>3. Good(Listing(user), store, named)
    <3>1. /\ Listing(user) \in CallRecords /\ Listing(user).op = "list"
          /\ Listing(user).pc = "keys" /\ Listing(user).arg = user
          /\ Listing(user).frames = <<>> /\ Listing(user).found = {}
          /\ Listing(user).same = Entries(store) /\ ~Listing(user).stayed
      BY ListingRecord DEF IInv
    <3>2. QED
      BY <2>2, <3>1, StartGood
  <2>4. QED
    BY <2>1, <2>3, StepQuiet
<1>9. QED
  BY <1>1, <1>3, <1>4, <1>5, <1>6, <1>7, <1>8 DEF Request
-----------------------------------------------------------------------------
(* A call ends without a trace, or after it stored a session of its key.   *)
LEMMA EndQuiet ==
  ASSUME IInv, NEW c \in Calls, Step(c, NoCall, store), UNCHANGED named
  PROVE  IInv'
BY IdleGood, StepQuiet DEF IInv

LEMMA EndWrites ==
  ASSUME IInv, NEW c \in Calls, NEW x \in Keys, NEW v \in Sessions \cup {Gone},
         Step(c, NoCall, [store EXCEPT ![x] = v]), UNCHANGED named,
         v # Gone => Given(v, named[x])
  PROVE  IInv'
<1>1. Grows(named, named')
  BY DEF Grows
<1>2. QED
  BY <1>1, IdleGood, StepWrites DEF IInv

LEMMA ReadInv ==
  ASSUME IInv, NEW c \in Calls, Read(c)
  PROVE  IInv'
<1> DEFINE r == calls[c]
           s == store[r.key]
           f == r.frames
           kept == IF Len(f) < MaxDepth THEN f ELSE Front(f)
<1>1. /\ r \in CallRecords /\ r.pc = "read" /\ r.key \in Keys
      /\ f \in Seq(Sessions) /\ Len(f) <= MaxDepth
      /\ r.op \in {"get", "update", "logout"}
      /\ r.op = "update" => r.arg \in UpdateData
      /\ r.op = "logout" => r.guards \in {1, 2}
      /\ \A i \in 1 .. Len(f) : Given(f[i], named[r.key])
      /\ r.stayed => store[r.key] # Gone
      /\ \A e \in r.same : store[e.key] = e.session
  BY DEF Read, IInv, Good, Shape, Owns, Steady, CallRecords
<1>2. UNCHANGED named /\ s \in Sessions \cup {Gone}
  BY <1>1 DEF Read, IInv, Stores
<1>3. CASE s = Gone
  <2> DEFINE k == [r EXCEPT !.pc = "unwind", !.odd = FALSE]
  <2>1. Step(c, k, store)
    BY <1>3 DEF Read
  <2>2. /\ k \in CallRecords /\ k.op = r.op /\ k.pc = "unwind" /\ k.key = r.key
        /\ k.arg = r.arg /\ k.frames = f /\ k.guards = r.guards
        /\ k.stayed = r.stayed /\ k.same = r.same
    BY <1>1 DEF CallRecords, Places
  <2> HIDE DEF k
  <2>3. Good(k, store, named)
    BY <1>1, <1>3, <2>2 DEF Good, Shape, Owns, Steady
  <2>4. QED
    BY <1>2, <2>1, <2>3, StepQuiet
<1>4. CASE s # Gone
  <2> DEFINE g == Append(kept, s)
             k == [r EXCEPT !.frames = g, !.odd = g = f /\ ~@]
  <2>1. Step(c, k, store)
    BY <1>4 DEF Read
  <2>2. /\ kept \in Seq(Sessions) /\ Len(kept) < MaxDepth
        /\ \A i \in 1 .. Len(kept) : Given(kept[i], named[r.key])
    BY <1>1, SessionAssumption DEF Front
  <2>3. s \in Sessions /\ Given(s, named[r.key])
    BY <1>1, <1>2, <1>4 DEF IInv, Owned
  <2> HIDE DEF kept, s
  <2>4. /\ g \in Seq(Sessions) /\ Len(g) <= MaxDepth
        /\ \A i \in 1 .. Len(g) : Given(g[i], named[r.key])
    BY <2>2, <2>3, SessionAssumption
  <2> HIDE DEF g
  <2>5. /\ k \in CallRecords /\ k.op = r.op /\ k.pc = "read" /\ k.key = r.key
        /\ k.arg = r.arg /\ k.frames = g /\ k.guards = r.guards
        /\ k.stayed = r.stayed /\ k.same = r.same
    BY <1>1, <2>4 DEF CallRecords, g
  <2> HIDE DEF k
  <2>6. Good(k, store, named)
    BY <1>1, <2>4, <2>5 DEF Good, Shape, Owns, Steady
  <2>7. QED
    BY <1>2, <2>1, <2>6, StepQuiet
<1>5. QED
  BY <1>3, <1>4

(* The innermost copy is made of what its key was given.                   *)
LEMMA UnwindInv ==
  ASSUME IInv, NEW c \in Calls, Unwind(c)
  PROVE  IInv'
<1> DEFINE r == calls[c]
           f == r.frames
           k == [r EXCEPT !.frames = Front(@)]
<1>1. /\ r \in CallRecords /\ r.pc = "unwind" /\ r.key \in Keys
      /\ f \in Seq(Sessions) /\ Len(f) <= MaxDepth /\ Len(f) > 1
      /\ r.op \in {"get", "update", "logout"}
      /\ r.op = "update" => r.arg \in UpdateData
      /\ r.op = "logout" => r.guards \in {1, 2}
      /\ \A i \in 1 .. Len(f) : Given(f[i], named[r.key])
      /\ ~r.stayed /\ \A e \in r.same : store[e.key] = e.session
  BY DEF Unwind, IInv, Good, Shape, Owns, Steady, CallRecords
<1>2. /\ Front(f) \in Seq(Sessions) /\ Len(Front(f)) <= MaxDepth
      /\ \A i \in 1 .. Len(Front(f)) : Given(Front(f)[i], named[r.key])
  BY <1>1, SessionAssumption DEF Front
<1>3. Last(f) \in Sessions /\ Given(Last(f), named[r.key])
  BY <1>1 DEF Last
<1>4. /\ k \in CallRecords /\ k.op = r.op /\ k.pc = "unwind" /\ k.key = r.key
      /\ k.arg = r.arg /\ k.frames = Front(f) /\ k.guards = r.guards
      /\ k.stayed = r.stayed /\ k.same = r.same
  BY <1>1, <1>2 DEF CallRecords
<1>5. Step(c, k, [store EXCEPT ![r.key] = Last(f)]) /\ UNCHANGED named
  BY DEF Unwind
<1> HIDE DEF k
<1>6. Good(k, store, named)
  BY <1>1, <1>2, <1>4 DEF Good, Shape, Owns, Steady
<1>7. Grows(named, named') /\ named' \in Names
  BY <1>5 DEF Grows, IInv
<1>8. QED
  BY <1>1, <1>3, <1>5, <1>6, <1>7, StepWrites

(* EnhancedSessionService: a copy of the session found, and the copy back. *)
LEMMA PeekInv ==
  ASSUME IInv, NEW c \in Calls, Peek(c)
  PROVE  IInv'
<1> DEFINE r == calls[c]
           s == store[r.key]
           k == [r EXCEPT !.pc = "touch", !.frames = <<s>>]
<1>1. /\ r \in CallRecords /\ r.pc = "peek" /\ r.key \in Keys
      /\ r.op \in {"validate", "look"}
      /\ r.stayed => store[r.key] # Gone
      /\ \A e \in r.same : store[e.key] = e.session
  BY DEF Peek, IInv, Good, Shape, Steady
<1>2. UNCHANGED named
  BY DEF Peek
<1>3. CASE s = Gone \/ r.op = "look"
  BY <1>2, <1>3, EndQuiet DEF Peek
<1>4. CASE s # Gone /\ r.op = "validate"
  <2>1. s \in Sessions /\ Given(s, named[r.key])
    BY <1>1, <1>4 DEF IInv, Owned, Stores
  <2>2. Step(c, k, store)
    BY <1>4 DEF Peek
  <2> HIDE DEF s
  <2>3. /\ <<s>> \in Seq(Sessions) /\ Len(<<s>>) = 1 /\ 1 <= MaxDepth
        /\ \A i \in 1 .. Len(<<s>>) : Given(<<s>>[i], named[r.key])
    BY <2>1, SessionAssumption
  <2>4. /\ k \in CallRecords /\ k.op = "validate" /\ k.pc = "touch" /\ k.key = r.key
        /\ k.frames = <<s>> /\ k.stayed = r.stayed /\ k.same = r.same
    BY <1>1, <1>4, <2>3 DEF CallRecords, Places
  <2> HIDE DEF k
  <2>5. Good(k, store, named)
    BY <1>1, <2>3, <2>4 DEF Good, Shape, Owns, Steady
  <2>6. QED
    BY <1>2, <2>2, <2>5, StepQuiet
<1>5. QED
  BY <1>1, <1>3, <1>4

LEMMA TouchInv ==
  ASSUME IInv, NEW c \in Calls, Touch(c)
  PROVE  IInv'
<1> DEFINE r == calls[c]
<1>1. /\ r.key \in Keys /\ r.frames \in Seq(Sessions) /\ Len(r.frames) = 1
      /\ Given(r.frames[1], named[r.key])
  BY DEF Touch, IInv, Good, Shape, Owns, CallRecords
<1>2. r.frames[1] \in Sessions
  BY <1>1
<1>3. QED
  BY <1>1, <1>2, EndWrites DEF Touch

(* The outermost getSession() is over: its caller ends, writes, or goes on *)
(* to its next guard or its delete.                                        *)
LEMMA AnswerInv ==
  ASSUME IInv, NEW c \in Calls, Answer(c)
  PROVE  IInv'
<1> DEFINE r == calls[c]
           f == r.frames
<1>1. /\ r \in CallRecords /\ r.pc = "unwind" /\ r.key \in Keys
      /\ f \in Seq(Sessions) /\ Len(f) <= MaxDepth
      /\ r.op \in {"get", "update", "logout"}
      /\ r.op = "update" => r.arg \in UpdateData
      /\ r.op = "logout" => r.guards \in {1, 2}
      /\ \A i \in 1 .. Len(f) : Given(f[i], named[r.key])
      /\ r.stayed => store[r.key] # Gone
      /\ \A e \in r.same : store[e.key] = e.session
  BY DEF Answer, IInv, Good, Shape, Owns, Steady, CallRecords
<1>2. UNCHANGED named
  BY DEF Answer
<1>3. CASE f = <<>> \/ r.op = "get"
  BY <1>2, <1>3, EndQuiet DEF Answer
<1>4. CASE f # <<>> /\ r.op = "update"
  <2> DEFINE k == [r EXCEPT !.pc = "write"]
  <2>1. Step(c, k, store)
    BY <1>4 DEF Answer
  <2>2. /\ k \in CallRecords /\ k.op = "update" /\ k.pc = "write" /\ k.key = r.key
        /\ k.arg = r.arg /\ k.frames = f /\ k.stayed = r.stayed /\ k.same = r.same
    BY <1>1, <1>4 DEF CallRecords, Places
  <2> HIDE DEF k
  <2>3. Good(k, store, named)
    BY <1>1, <1>4, <2>2 DEF Good, Shape, Owns, Steady
  <2>4. QED
    BY <1>2, <2>1, <2>3, StepQuiet
<1>5. CASE f # <<>> /\ r.op = "logout" /\ r.guards = 2
  <2> DEFINE n == [r EXCEPT !.guards = 1]
  <2>1. Step(c, Asked(n), store)
    BY <1>5 DEF Answer
  <2>2. /\ n \in CallRecords /\ n.op = "logout" /\ n.key = r.key /\ n.guards = 1
        /\ n.same = r.same
    BY <1>1, <1>5 DEF CallRecords
  <2> HIDE DEF n
  <2>3. Good(Asked(n), store, named)
    <3>1. /\ Asked(n) \in CallRecords /\ Asked(n).op = "logout" /\ Asked(n).pc = "read"
          /\ Asked(n).key = r.key /\ Asked(n).frames = <<>> /\ Asked(n).guards = 1
          /\ Asked(n).same = r.same /\ Asked(n).stayed = (store[r.key] # Gone)
      BY <2>2, AskedRecord
    <3>2. QED
      BY <1>1, <3>1, StartGood
  <2>4. QED
    BY <1>2, <2>1, <2>3, StepQuiet
<1>6. CASE f # <<>> /\ r.op = "logout" /\ r.guards = 1
  <2> DEFINE k == Started("delete", "del", r.key, {})
  <2>1. Step(c, k, store)
    BY <1>6 DEF Answer
  <2>2. /\ k \in CallRecords /\ k.op = "delete" /\ k.pc = "del" /\ k.key = r.key
        /\ k.frames = <<>> /\ k.same = {} /\ ~k.stayed
    <3>1. "delete" \in Operations /\ "del" \in Places /\ {} \in Arguments
      BY DEF Operations, Places, Arguments
    <3>2. QED
      BY <1>1, <3>1, StartedRecord
  <2> HIDE DEF k
  <2>3. Good(k, store, named)
    BY <1>1, <2>2, StartGood
  <2>4. QED
    BY <1>2, <2>1, <2>3, StepQuiet
<1>7. QED
  BY <1>1, <1>3, <1>4, <1>5, <1>6

LEMMA ListKeysInv ==
  ASSUME IInv, NEW c \in Calls, ListKeys(c)
  PROVE  IInv'
<1> DEFINE r == calls[c]
           k == [r EXCEPT !.pc = "scan", !.rest = LiveKeys]
<1>1. Step(c, k, store) /\ UNCHANGED named
  BY DEF ListKeys
<1>2. /\ Good(r, store, named) /\ r \in CallRecords /\ r.pc = "keys" /\ r.found = {}
  BY DEF ListKeys, IInv, Good, Shape
<1>3. /\ k \in CallRecords /\ k.op = r.op /\ k.pc = "scan" /\ k.key = r.key
      /\ k.arg = r.arg /\ k.frames = r.frames /\ k.stayed = r.stayed /\ k.same = r.same
      /\ k.rest = {x \in Keys : store[x] # Gone} /\ k.found = {}
  BY <1>2 DEF CallRecords, Places, LiveKeys
<1> HIDE DEF k
<1>4. ASSUME NEW e \in r.same
      PROVE  e.key \in k.rest
  <2>1. e \in Snapshots /\ store[e.key] = e.session
    BY <1>2 DEF Good, Steady, CallRecords
  <2>2. QED
    BY <1>3, <2>1, SessionAssumption DEF Snapshots, Sessions
<1>5. Good(k, store, named)
  <2>1. Shape(k) /\ Owns(k, named)
    BY <1>2, <1>3 DEF Good, Shape, Owns
  <2>2. Steady(k, store, named)
    BY <1>2, <1>3, <1>4 DEF Good, Steady
  <2>3. QED
    BY <2>1, <2>2 DEF Good
<1>6. QED
  BY <1>1, <1>5, StepQuiet

(* A session that has stayed so far is found when its key comes up.        *)
LEMMA ScanInv ==
  ASSUME IInv, NEW c \in Calls, Scan(c)
  PROVE  IInv'
<1> DEFINE r == calls[c]
<1>1. /\ Good(r, store, named) /\ r \in CallRecords /\ r.pc = "scan" /\ UNCHANGED named
      /\ r.arg \in Users
  BY DEF Scan, IInv, Good, Shape
<1>2. CASE r.rest = {}
  BY <1>1, <1>2, EndQuiet DEF Scan
<1>3. CASE r.rest # {}
  <2>1. PICK key \in r.rest :
          Step(c, [r EXCEPT !.rest = @ \ {key},
                            !.found = IF store[key] # Gone /\ store[key].user = r.arg
                                        THEN @ \cup {store[key].id} ELSE @], store)
    BY <1>3 DEF Scan
  <2> DEFINE found == IF store[key] # Gone /\ store[key].user = r.arg
                      THEN r.found \cup {store[key].id} ELSE r.found
             k == [r EXCEPT !.rest = @ \ {key}, !.found = found]
  <2>2. /\ key \in Keys /\ r.found \subseteq Keys \cup {NoId} /\ r.same \subseteq Snapshots
        /\ store[key] # Gone => Given(store[key], named[key]) /\ store[key] \in Sessions
    BY <1>1 DEF CallRecords, IInv, Owned, Stores
  <2>3. found \subseteq Keys \cup {NoId}
    BY <2>2 DEF Sessions
  <2>4. ASSUME NEW e \in r.same, e.session.user = r.arg
        PROVE  e.key \in r.rest \ {key} \/ e.session.id \in found
    <3>1. store[e.key] = e.session /\ (e.key \in r.rest \/ e.session.id \in r.found)
      BY <1>1, <2>4 DEF Good, Steady
    <3>2. e.session # Gone
      BY <2>2, SessionAssumption DEF Snapshots, Sessions
    <3>3. QED
      BY <2>4, <3>1, <3>2
  <2>5. ASSUME NEW x \in found
        PROVE  \E y \in Keys : r.arg \in named[y].users /\ x \in named[y].ids
    BY <1>1, <2>2, <2>5 DEF Good, Steady, Given
  <2>6. Step(c, k, store)
    BY <1>1, <2>1 DEF CallRecords
  <2> HIDE DEF found
  <2>7. /\ k \in CallRecords /\ k.op = r.op /\ k.pc = "scan" /\ k.key = r.key
        /\ k.arg = r.arg /\ k.frames = r.frames /\ k.stayed = r.stayed
        /\ k.same = r.same /\ k.rest = r.rest \ {key} /\ k.found = found
    BY <1>1, <2>3 DEF CallRecords
  <2> HIDE DEF k
  <2>8. Good(k, store, named)
    <3>1. Shape(k) /\ Owns(k, named)
      BY <1>1, <2>7 DEF Good, Shape, Owns
    <3>2. Steady(k, store, named)
      BY <1>1, <2>4, <2>5, <2>7 DEF Good, Steady
    <3>3. QED
      BY <3>1, <3>2 DEF Good
  <2>9. QED
    BY <1>1, <2>6, <2>8, StepQuiet
<1>4. QED
  BY <1>2, <1>3

LEMMA ContinueInv ==
  ASSUME IInv, NEW c \in Calls, Continue(c)
  PROVE  IInv'
<1> DEFINE r == calls[c]
<1>0. Good(r, store, named)
  BY DEF IInv
<1>1. CASE CreateSet(c)
  <2>1. r.key \in Keys /\ r.arg \in Sessions /\ Given(r.arg, named[r.key])
    BY <1>0, <1>1 DEF CreateSet, Good, Shape, Owns
  <2>2. QED
    BY <1>1, <2>1, EndWrites DEF CreateSet
<1>2. CASE Write(c)
  <2> DEFINE d == r.arg
             v == Over(r.frames[1], d)
             U == {d.user} \ {NoUser}
             I == {d.id} \ {NoId}
  <2>1. /\ r.key \in Keys /\ d \in UpdateData /\ r.frames \in Seq(Sessions)
        /\ r.frames # <<>> /\ \A i \in 1 .. Len(r.frames) : Given(r.frames[i], named[r.key])
    BY <1>0, <1>2 DEF Write, Good, Shape, Owns, CallRecords
  <2>2. r.frames[1] \in Sessions /\ Given(r.frames[1], named[r.key])
    BY <2>1
  <2>3. /\ Step(c, NoCall, [store EXCEPT ![r.key] = v])
        /\ Naming(r.key, U, I)
    BY <1>2 DEF Write
  <2>4. /\ d \in [user : Users \cup {NoUser}, id : Keys \cup {NoId}]
        /\ U \in SUBSET Users /\ I \in SUBSET (Keys \cup {NoId})
    BY <2>1, SessionAssumption
  <2> HIDE DEF d, v, U, I
  <2>5. /\ named' \in Names /\ Grows(named, named')
        /\ named'[r.key].users = named[r.key].users \cup U
        /\ named'[r.key].ids = named[r.key].ids \cup I
    BY <2>1, <2>3, <2>4, NamingGrows DEF IInv
  <2>6. /\ Given(r.frames[1], named'[r.key])
        /\ named'[r.key] \in [users : SUBSET Users, ids : SUBSET (Keys \cup {NoId})]
    BY <2>1, <2>2, <2>5 DEF Given, Names
  <2>7. v \in Sessions /\ Given(v, named'[r.key])
    BY <2>2, <2>4, <2>5, <2>6, OverSession DEF v, U, I
  <2>8. QED
    BY <2>1, <2>3, <2>5, <2>7, IdleGood, StepWrites DEF IInv
<1>3. CASE Delete(c)
  <2>1. r.key \in Keys
    BY <1>0, <1>3 DEF Delete, Good, Shape
  <2>2. QED
    BY <1>3, <2>1, EndWrites DEF Delete
<1>4. QED
  BY <1>1, <1>2, <1>3, ReadInv, UnwindInv, AnswerInv, ListKeysInv, ScanInv, PeekInv,
     TouchInv DEF Continue

LEMMA ExpireInv ==
  ASSUME IInv, NEW key \in Keys, Expire(key)
  PROVE  IInv'
<1>1. /\ store' = [store EXCEPT ![key] = Gone] /\ UNCHANGED named
      /\ calls' = [d \in Calls |->
                     [calls[d] EXCEPT !.stayed = @ /\ calls[d].key # key,
                                      !.same = {e \in @ : e.key # key}]]
  BY DEF Expire
<1>2. store' \in Stores /\ Owned(store', named) /\ Grows(named, named)
  BY <1>1 DEF IInv, Stores, Owned, Grows
<1>3. ASSUME NEW d \in Calls
      PROVE  Good(calls'[d], store', named)
  <2> DEFINE r == calls[d]
  <2>1. Good(r, store, named) /\ r \in CallRecords
    BY DEF IInv, Good, Shape
  <2>2. (r.stayed /\ r.key # key) = (r.stayed /\ store'[r.key] # Gone)
    BY <1>1, <2>1 DEF Good, Steady, IInv, Stores
  <2>3. {e \in r.same : e.key # key} = {e \in r.same : store'[e.key] = e.session}
    <3>1. ASSUME NEW e \in r.same
          PROVE  e.key # key <=> store'[e.key] = e.session
      <4>1. e \in Snapshots /\ store[e.key] = e.session
        BY <2>1 DEF Good, Steady, CallRecords
      <4>2. e.key \in Keys /\ e.session # Gone
        BY <4>1, SessionAssumption DEF Snapshots, Sessions
      <4>3. QED
        BY <1>1, <4>1, <4>2 DEF IInv, Stores
    <3>2. QED
      BY <3>1
  <2>4. calls'[d] = [r EXCEPT !.stayed = r.stayed /\ r.key # key,
                              !.same = {e \in r.same : e.key # key}]
    BY <1>1, <2>1 DEF CallRecords
  <2>5. Kept(r, store') = [r EXCEPT !.stayed = r.stayed /\ store'[r.key] # Gone,
                                    !.same = {e \in r.same : store'[e.key] = e.session}]
    BY <2>1 DEF Kept, CallRecords
  <2>6. Good(Kept(r, store'), store', named)
    BY <1>2, <2>1, KeptGood DEF IInv
  <2>7. QED
    BY <2>2, <2>3, <2>4, <2>5, <2>6
<1>4. calls' = [d \in Calls |-> calls'[d]]
  BY <1>1
<1>5. QED
  BY <1>1, <1>2, <1>3, <1>4 DEF IInv
-----------------------------------------------------------------------------
LEMMA InitIInv == Init => IInv
<1> SUFFICES ASSUME Init PROVE IInv
  OBVIOUS
<1>1. store \in Stores /\ named \in Names /\ Owned(store, named)
  BY DEF Init, Stores, Names, Owned
<1>2. QED
  BY <1>1, IdleGood DEF Init, IInv

LEMMA NextIInv == IInv /\ [Next]_vars => IInv'
<1> SUFFICES ASSUME IInv, [Next]_vars PROVE IInv'
  OBVIOUS
<1>1. ASSUME NEW c \in Calls, CommandFails(c)
      PROVE  IInv'
  BY <1>1, EndQuiet DEF CommandFails
<1>2. CASE UNCHANGED vars
  BY <1>2 DEF vars, IInv
<1>3. QED
  BY <1>1, <1>2, RequestInv, ContinueInv, ExpireInv DEF Next

(* Calls are shaped by the await they are at, what they hold is made of    *)
(* what their key's session was given, and what unwinds or lists knows     *)
(* what stayed.                                                            *)
THEOREM SessionInvariant == Spec => []IInv
BY InitIInv, NextIInv, PTL DEF Spec

(* The cache, the history of names and the calls keep their types.         *)
THEOREM SessionTypeOK == Spec => []TypeOK
<1>1. IInv => TypeOK
  BY DEF IInv, TypeOK, CallOK, Good, Shape, Stores, Names, CallRecords, Operations,
     Places, Snapshots
<1>2. QED
  BY <1>1, SessionInvariant, PTL

(* session.service.ts:55 and :100: whatever copy is written back and       *)
(* whatever data are spread over it, the session of a key has no user and  *)
(* no id but what its creator or an update of that key gave it.            *)
THEOREM SessionOwnersKept == Spec => []OwnersKept
<1>1. IInv => OwnersKept
  BY DEF IInv, OwnersKept, Owned, Given
<1>2. QED
  BY <1>1, SessionInvariant, PTL

(* session.service.ts:97: getSession() answers with a session only if it   *)
(* went away meanwhile, since it recurses for as long as it finds it.  This *)
(* is the safety side of the finding about logout, a fact about the code   *)
(* and nothing it is meant to do.                                          *)
THEOREM SessionAnsweredOnlyOnceGone == Spec => AnsweredOnlyOnceGone
<1>1. IInv /\ [Next]_vars =>
        [\A c \in Calls :
           (/\ calls[c].op \in {"get", "logout"}
            /\ calls[c].pc = "unwind" /\ ~Commands(c) /\ calls'[c].pc # "unwind")
             => ~calls[c].stayed]_vars
  BY DEF IInv, Good, Steady
<1>2. QED
  BY <1>1, SessionInvariant, PTL DEF Spec, AnsweredOnlyOnceGone

(* session.service.ts:78: a listing has what session.id is (undefined for  *)
(* the other service's sessions) of every session of the user that stayed  *)
(* the same, and no id that was never one of a session of the user's key,  *)
(* whatever comes, goes and changes hands meanwhile.                       *)
THEOREM SessionListingIsFaithful == Spec => ListingIsFaithful
<1>1. IInv /\ [Next]_vars =>
        [\A c \in Calls :
           calls[c].pc = "scan" /\ ~Commands(c) /\ calls'[c].pc = "idle" =>
             /\ \A e \in calls[c].same :
                  e.session.user = calls[c].arg => e.session.id \in calls[c].found
             /\ \A x \in calls[c].found :
                  \E k \in Keys : calls[c].arg \in named[k].users /\ x \in named[k].ids]_vars
  <2> SUFFICES ASSUME IInv, NEW c \in Calls, calls[c].pc = "scan", ~Commands(c)
               PROVE  /\ \A e \in calls[c].same :
                           e.session.user = calls[c].arg => e.session.id \in calls[c].found
                      /\ \A x \in calls[c].found :
                           \E k \in Keys :
                             calls[c].arg \in named[k].users /\ x \in named[k].ids
    OBVIOUS
  <2>1. calls[c].rest = {}
    BY DEF Commands
  <2>2. Steady(calls[c], store, named)
    BY DEF IInv, Good
  <2>3. QED
    BY <2>1, <2>2 DEF Steady
<1>2. QED
  BY <1>1, SessionInvariant, PTL DEF Spec, ListingIsFaithful

(* A session that is gone, and of which no call holds a copy, stays gone:  *)
(* each of the writes of both services needs a copy of its own.            *)
THEOREM SessionGoneStaysGone == Spec => GoneStaysGoneUnlessHeld
<1>1. IInv /\ [Next]_vars =>
        [\A k \in Keys :
           /\ store[k] = Gone /\ k \in Drawn
           /\ \A c \in Calls :
                calls[c].key = k => calls[c].frames = <<>> /\ calls[c].pc # "set"
           => store'[k] = Gone]_vars
  <2> SUFFICES ASSUME IInv, Next, NEW k \in Keys, store[k] = Gone,
                      \A c \in Calls :
                        calls[c].key = k => calls[c].frames = <<>> /\ calls[c].pc # "set"
               PROVE  store'[k] = Gone
    BY DEF vars
  <2>1. ASSUME NEW c \in Calls, NEW r, Step(c, r, store)
        PROVE  store'[k] = Gone
    BY <2>1 DEF Step
  <2>2. ASSUME NEW c \in Calls, NEW v, NEW r,
               Step(c, r, [store EXCEPT ![calls[c].key] = v]), v = Gone \/ calls[c].key # k
        PROVE  store'[k] = Gone
    BY <2>2 DEF Step, IInv, Stores
  <2>3. ASSUME NEW c \in Calls, Request(c)
        PROVE  store'[k] = Gone
    BY <2>1, <2>3 DEF Request, CreateSession, EnhancedCreate, Create, GetSession, Logout,
       DeleteSession, EnhancedValidate, EnhancedGet, EnhancedDelete, UpdateSession,
       GetUserSessions
  <2>4. ASSUME NEW c \in Calls, Continue(c)
        PROVE  store'[k] = Gone
    <3>1. Shape(calls[c])
      BY DEF IInv, Good
    <3>2. CASE CreateSet(c)
      BY <2>2, <3>2 DEF CreateSet
    <3>3. CASE Unwind(c)
      <4>1. calls[c].frames # <<>>
        BY <3>3 DEF Unwind
      <4>2. QED
        BY <2>2, <3>3, <4>1 DEF Unwind
    <3>4. CASE Write(c)
      BY <2>2, <3>1, <3>4 DEF Write, Shape
    <3>5. CASE Touch(c)
      <4>1. Len(calls[c].frames) = 1
        BY <3>1, <3>5 DEF Touch, Shape
      <4>2. calls[c].frames # <<>>
        BY <4>1
      <4>3. QED
        BY <2>2, <3>5, <4>2 DEF Touch
    <3>6. CASE Delete(c)
      BY <2>2, <3>6 DEF Delete
    <3>7. CASE Read(c) \/ Answer(c) \/ ListKeys(c) \/ Scan(c) \/ Peek(c)
      BY <2>1, <3>7 DEF Read, Answer, ListKeys, Scan, Peek
    <3>8. QED
      BY <2>4, <3>2, <3>3, <3>4, <3>5, <3>6, <3>7 DEF Continue
  <2>5. ASSUME NEW c \in Calls, CommandFails(c)
        PROVE  store'[k] = Gone
    BY <2>1, <2>5 DEF CommandFails
  <2>6. ASSUME NEW key \in Keys, Expire(key)
        PROVE  store'[k] = Gone
    BY <2>6 DEF Expire, IInv, Stores
  <2>7. QED
    BY <2>3, <2>4, <2>5, <2>6 DEF Next
<1>2. QED
  BY <1>1, SessionInvariant, PTL DEF Spec, GoneStaysGoneUnlessHeld
-----------------------------------------------------------------------------
(* One call's part of a step of SessionCheck: from record k to n.          *)
CheckStep(k, n) ==
  \/ Stage(k) \notin Check!Pending /\ Stage(n) = "asked" /\ n.key \in Keys
  \/ Stage(k) = "asked" /\ k.key \in LiveKeys /\ Stage(n) = "waiting" /\ n.key = k.key
  \/ Stage(k) = "asked" /\ k.key \notin LiveKeys /\ Stage(n) = "refused"
  \/ Stage(k) = "waiting" /\ Stage(n) = "passed"
  \/ Stage(n) = "none"
  \/ Stage(n) = Stage(k) /\ (Stage(k) \in Check!Pending => n.key = k.key)

(* What the cache becomes is no part of a call's stage.                    *)
LEMMA KeptStage ==
  ASSUME NEW k \in CallRecords, NEW s
  PROVE  Stage(Kept(k, s)) = Stage(k) /\ Kept(k, s).key = k.key
<1>1. /\ Kept(k, s).pc = k.pc /\ Kept(k, s).frames = k.frames
      /\ Kept(k, s).key = k.key
  BY DEF Kept, CallRecords
<1>2. QED
  BY <1>1 DEF Stage

LEMMA StaySteps ==
  ASSUME NEW k \in CallRecords, NEW s
  PROVE  CheckStep(k, Kept(k, s))
BY KeptStage DEF CheckStep

(* The calls that take no step of their own stay where they are.           *)
LEMMA StepChecks ==
  ASSUME IInv, NEW c \in Calls, NEW k \in CallRecords, NEW s,
         Step(c, k, s), CheckStep(calls[c], k)
  PROVE  \A d \in Calls : CheckStep(calls[d], calls'[d])
<1> SUFFICES ASSUME NEW d \in Calls
             PROVE  CheckStep(calls[d], calls'[d])
  OBVIOUS
<1>1. calls'[d] = Kept(IF d = c THEN k ELSE calls[d], s)
  BY DEF Step, Kept
<1>2. CASE d = c
  <2>1. Stage(calls'[d]) = Stage(k) /\ calls'[d].key = k.key
    BY <1>1, <1>2, KeptStage
  <2>2. QED
    BY <1>2, <2>1 DEF CheckStep
<1>3. CASE d # c
  BY <1>1, <1>3, StaySteps DEF IInv, Good, Shape
<1>4. QED
  BY <1>2, <1>3

(* A call that begins, or ends, asks or leaves.                            *)
LEMMA LeaveChecks ==
  ASSUME NEW k, NEW n, n.pc \notin {"read", "unwind"}
  PROVE  CheckStep(k, n)
BY DEF CheckStep, Stage

LEMMA AskChecks ==
  ASSUME NEW k, NEW n, k.pc # "read", k.pc = "unwind" => k.frames # <<>>,
         n.pc = "read", n.frames = <<>>, n.key \in Keys
  PROVE  CheckStep(k, n)
BY DEF CheckStep, Stage, Check!Pending

LEMMA EndChecks ==
  ASSUME IInv, NEW c \in Calls, NEW s, Step(c, NoCall, s)
  PROVE  \A d \in Calls : CheckStep(calls[d], calls'[d])
<1>1. NoCall \in CallRecords /\ NoCall.pc = "idle"
  BY DEF NoCall, CallRecords, Operations, Places, Arguments
<1>2. QED
  BY <1>1, LeaveChecks, StepChecks

LEMMA RequestChecks ==
  ASSUME IInv, NEW c \in Calls, Request(c)
  PROVE  \A d \in Calls : CheckStep(calls[d], calls'[d])
<1> DEFINE Goal == \A d \in Calls : CheckStep(calls[d], calls'[d])
<1>1. calls[c].pc = "idle"
  BY DEF Request, CreateSession, EnhancedCreate, Create, GetSession, UpdateSession, Logout,
     DeleteSession, EnhancedDelete, EnhancedValidate, EnhancedGet, GetUserSessions
<1>2. ASSUME NEW op \in Operations, NEW pc \in Places, NEW key \in Keys \cup {{}},
             NEW arg \in Arguments, Step(c, Started(op, pc, key, arg), store),
             \/ pc \in {"set", "peek", "del", "keys"}
             \/ pc = "read" /\ key \in Keys
      PROVE  Goal
  <2> DEFINE k == Started(op, pc, key, arg)
  <2>1. k \in CallRecords /\ k.pc = pc /\ k.key = key /\ k.frames = <<>>
    BY <1>2, StartedRecord
  <2> HIDE DEF k
  <2>2. CheckStep(calls[c], k)
    <3>1. CASE pc = "read"
      BY <1>1, <1>2, <2>1, <3>1, AskChecks
    <3>2. CASE pc # "read"
      <4>1. k.pc \notin {"read", "unwind"}
        BY <1>2, <2>1, <3>2
      <4>2. QED
        BY <4>1, LeaveChecks
    <3>3. QED
      BY <3>1, <3>2
  <2>3. Step(c, k, store)
    BY <1>2 DEF k
  <2>4. QED
    BY <2>1, <2>2, <2>3, StepChecks
<1> HIDE DEF Goal
<1>3. ASSUME NEW user \in Users,
             \/ EnhancedCreate(c, user)
             \/ \E data \in CreateData : CreateSession(c, user, data)
      PROVE  Goal
  <2>1. PICK x \in Keys, v \in Sessions : Step(c, Started("create", "set", x, v), store)
    BY <1>3, NewSession DEF CreateSession, EnhancedCreate, Create
  <2>2. QED
    BY <1>2, <2>1 DEF Operations, Places, Arguments
<1>4. ASSUME NEW key \in Keys,
             \/ DeleteSession(c, key) \/ EnhancedDelete(c, key)
             \/ EnhancedValidate(c, key) \/ EnhancedGet(c, key)
             \/ \E data \in UpdateData : UpdateSession(c, key, data)
      PROVE  Goal
  BY <1>2, <1>4 DEF DeleteSession, EnhancedDelete, EnhancedValidate, EnhancedGet,
     UpdateSession, Operations, Places, Arguments
<1>5. ASSUME NEW key \in Keys, NEW k \in CallRecords, k.key = key, Step(c, Asked(k), store)
      PROVE  Goal
  <2>1. /\ Asked(k) \in CallRecords /\ Asked(k).pc = "read" /\ Asked(k).key = key
        /\ Asked(k).frames = <<>>
    BY <1>5, AskedRecord
  <2>2. CheckStep(calls[c], Asked(k))
    BY <1>1, <2>1, AskChecks
  <2>3. QED
    BY <1>5, <2>1, <2>2, StepChecks DEF Goal
<1>6. ASSUME NEW key \in Keys, GetSession(c, key) \/ Logout(c, key)
      PROVE  Goal
  <2> DEFINE r == Started("get", "read", key, {})
             q == Started("logout", "read", key, {})
             k == [q EXCEPT !.guards = 2]
  <2>1. Step(c, Asked(r), store) \/ Step(c, Asked(k), store)
    BY <1>6 DEF GetSession, Logout
  <2>2. /\ r \in CallRecords /\ r.key = key /\ q \in CallRecords /\ q.key = key
    <3>1. /\ "get" \in Operations /\ "logout" \in Operations /\ "read" \in Places
          /\ {} \in Arguments
      BY DEF Operations, Places, Arguments
    <3>2. QED
      BY <3>1, StartedRecord
  <2> HIDE DEF r, q
  <2>3. k \in CallRecords /\ k.key = key
    BY <2>2 DEF CallRecords
  <2> HIDE DEF k
  <2>4. QED
    BY <1>5, <2>1, <2>2, <2>3
<1>7. ASSUME NEW user \in Users, GetUserSessions(c, user)
      PROVE  Goal
  <2>1. Step(c, Listing(user), store)
    BY <1>7 DEF GetUserSessions
  <2>2. Listing(user) \in CallRecords /\ Listing(user).pc = "keys"
    BY ListingRecord DEF IInv
  <2>3. Listing(user).pc \notin {"read", "unwind"}
    BY <2>2
  <2>4. QED
    BY <2>1, <2>2, <2>3, LeaveChecks, StepChecks DEF Goal
<1>8. QED
  BY <1>3, <1>4, <1>6, <1>7 DEF Request, Goal

(* A get that finds the session opens a frame, so the check waits; one that *)
(* does not ends the recursion, and tells the check what the frames say.   *)
LEMMA ReadChecks ==
  ASSUME IInv, NEW c \in Calls, Read(c)
  PROVE  \A d \in Calls : CheckStep(calls[d], calls'[d])
<1> DEFINE r == calls[c]
           s == store[r.key]
           kept == IF Len(r.frames) < MaxDepth THEN r.frames ELSE Front(r.frames)
<1>1. /\ r \in CallRecords /\ r.pc = "read" /\ r.key \in Keys
      /\ r.frames \in Seq(Sessions) /\ Len(r.frames) <= MaxDepth
  BY DEF Read, IInv, Good, Shape, CallRecords
<1>2. s \in Sessions \cup {Gone} /\ (r.key \in LiveKeys <=> s # Gone)
  BY <1>1 DEF IInv, Stores, LiveKeys
<1>3. CASE s = Gone
  <2> DEFINE k == [r EXCEPT !.pc = "unwind", !.odd = FALSE]
  <2>1. Step(c, k, store)
    BY <1>3 DEF Read
  <2>2. k \in CallRecords /\ k.pc = "unwind" /\ k.key = r.key /\ k.frames = r.frames
    BY <1>1 DEF CallRecords, Places
  <2> HIDE DEF k
  <2>3. CheckStep(r, k)
    BY <1>1, <1>2, <1>3, <2>2 DEF CheckStep, Stage
  <2>4. QED
    BY <2>1, <2>2, <2>3, StepChecks
<1>4. CASE s # Gone
  <2> DEFINE g == Append(kept, s)
             k == [r EXCEPT !.frames = g, !.odd = g = r.frames /\ ~@]
  <2>1. Step(c, k, store)
    BY <1>4 DEF Read
  <2>2. kept \in Seq(Sessions)
    BY <1>1, SessionAssumption DEF Front
  <2> HIDE DEF kept, s
  <2>3. g \in Seq(Sessions) /\ g # <<>>
    <3>1. s \in Sessions
      BY <1>2, <1>4
    <3>2. g \in Seq(Sessions) /\ Len(g) = Len(kept) + 1 /\ Len(kept) \in Nat
      BY <2>2, <3>1
    <3>3. QED
      BY <3>2
  <2> HIDE DEF g
  <2>4. k \in CallRecords /\ k.pc = "read" /\ k.key = r.key /\ k.frames = g
    BY <1>1, <2>3 DEF CallRecords, g
  <2> HIDE DEF k
  <2>5. CheckStep(r, k)
    BY <1>1, <1>2, <1>4, <2>3, <2>4 DEF CheckStep, Stage
  <2>6. QED
    BY <2>1, <2>4, <2>5, StepChecks
<1>5. QED
  BY <1>3, <1>4

(* Closing a frame leaves the check passed, for one is left.               *)
LEMMA UnwindChecks ==
  ASSUME IInv, NEW c \in Calls, Unwind(c)
  PROVE  \A d \in Calls : CheckStep(calls[d], calls'[d])
<1> DEFINE r == calls[c]
           g == Front(r.frames)
           k == [r EXCEPT !.frames = Front(@)]
<1>1. /\ r \in CallRecords /\ r.pc = "unwind"
      /\ r.frames \in Seq(Sessions) /\ Len(r.frames) > 1
  BY DEF Unwind, IInv, Good, Shape, CallRecords
<1>2. g \in Seq(Sessions) /\ g # <<>> /\ r.frames # <<>>
  <2>1. g \in Seq(Sessions) /\ Len(g) > 0
    BY <1>1 DEF Front
  <2>2. QED
    BY <1>1, <2>1
<1>3. Step(c, k, [store EXCEPT ![r.key] = Last(r.frames)])
  BY DEF Unwind
<1> HIDE DEF g
<1>4. k \in CallRecords /\ k.pc = "unwind" /\ k.key = r.key /\ k.frames = g
  BY <1>1, <1>2 DEF CallRecords, g
<1> HIDE DEF k
<1>5. CheckStep(r, k)
  BY <1>1, <1>2, <1>4 DEF CheckStep, Stage
<1>6. QED
  BY <1>3, <1>4, <1>5, StepChecks

(* A caller that got its answer leaves; a logout that was let in once goes *)
(* on to ask again.                                                        *)
LEMMA AnswerChecks ==
  ASSUME IInv, NEW c \in Calls, Answer(c)
  PROVE  \A d \in Calls : CheckStep(calls[d], calls'[d])
<1> DEFINE r == calls[c]
           f == r.frames
<1>1. /\ r \in CallRecords /\ r.pc = "unwind" /\ r.key \in Keys
      /\ r.op \in {"get", "update", "logout"}
      /\ r.op = "logout" => r.guards \in {1, 2}
  BY DEF Answer, IInv, Good, Shape
<1>2. CASE f = <<>> \/ r.op = "get"
  <2>1. Step(c, NoCall, store)
    BY <1>2 DEF Answer
  <2>2. QED
    BY <2>1, EndChecks
<1>3. CASE f # <<>> /\ r.op = "update"
  <2> DEFINE k == [r EXCEPT !.pc = "write"]
  <2>1. Step(c, k, store)
    BY <1>3 DEF Answer
  <2>2. k \in CallRecords /\ k.pc = "write"
    BY <1>1 DEF CallRecords, Places
  <2> HIDE DEF k
  <2>3. QED
    BY <2>1, <2>2, LeaveChecks, StepChecks
<1>4. CASE f # <<>> /\ r.op = "logout" /\ r.guards = 2
  <2> DEFINE n == [r EXCEPT !.guards = 1]
  <2>1. Step(c, Asked(n), store)
    BY <1>4 DEF Answer
  <2>2. n \in CallRecords /\ n.key = r.key
    BY <1>1 DEF CallRecords
  <2> HIDE DEF n
  <2>3. /\ Asked(n) \in CallRecords /\ Asked(n).pc = "read" /\ Asked(n).key = r.key
        /\ Asked(n).frames = <<>>
    BY <2>2, AskedRecord
  <2>4. CheckStep(r, Asked(n))
    BY <1>1, <1>4, <2>3, AskChecks
  <2>5. QED
    BY <2>1, <2>3, <2>4, StepChecks
<1>5. CASE f # <<>> /\ r.op = "logout" /\ r.guards = 1
  <2> DEFINE k == Started("delete", "del", r.key, {})
  <2>1. Step(c, k, store)
    BY <1>5 DEF Answer
  <2>2. k \in CallRecords /\ k.pc = "del"
    <3>1. "delete" \in Operations /\ "del" \in Places /\ {} \in Arguments
      BY DEF Operations, Places, Arguments
    <3>2. QED
      BY <1>1, <3>1, StartedRecord
  <2> HIDE DEF k
  <2>3. k.pc \notin {"read", "unwind"}
    BY <2>2
  <2>4. QED
    BY <2>1, <2>2, <2>3, LeaveChecks, StepChecks
<1>6. QED
  BY <1>1, <1>2, <1>3, <1>4, <1>5

LEMMA ContinueChecks ==
  ASSUME IInv, NEW c \in Calls, Continue(c)
  PROVE  \A d \in Calls : CheckStep(calls[d], calls'[d])
<1> DEFINE r == calls[c]
<1>1. r \in CallRecords
  BY DEF IInv, Good, Shape
<1>2. ASSUME NEW k \in CallRecords, Step(c, k, store), k.pc \notin {"read", "unwind"}
      PROVE  \A d \in Calls : CheckStep(calls[d], calls'[d])
  BY <1>2, LeaveChecks, StepChecks
<1>3. CASE CreateSet(c) \/ Touch(c) \/ Write(c) \/ Delete(c)
  BY <1>3, EndChecks DEF CreateSet, Touch, Write, Delete
<1>4. CASE ListKeys(c)
  <2>1. Step(c, [r EXCEPT !.pc = "scan", !.rest = LiveKeys], store)
    BY <1>4 DEF ListKeys
  <2>2. /\ [r EXCEPT !.pc = "scan", !.rest = LiveKeys] \in CallRecords
        /\ [r EXCEPT !.pc = "scan", !.rest = LiveKeys].pc = "scan"
    BY <1>1 DEF CallRecords, Places, LiveKeys
  <2>3. QED
    BY <1>2, <2>1, <2>2
<1>5. CASE Scan(c)
  <2>1. CASE r.rest = {}
    BY <1>5, <2>1, EndChecks DEF Scan
  <2>2. CASE r.rest # {}
    <3>1. PICK key \in r.rest :
            Step(c, [r EXCEPT !.rest = @ \ {key},
                              !.found = IF store[key] # Gone /\ store[key].user = r.arg
                                          THEN @ \cup {store[key].id} ELSE @], store)
      BY <1>5, <2>2 DEF Scan
    <3> DEFINE found == IF store[key] # Gone /\ store[key].user = r.arg
                        THEN r.found \cup {store[key].id} ELSE r.found
               k == [r EXCEPT !.rest = @ \ {key}, !.found = found]
    <3>2. found \subseteq Keys \cup {NoId}
      BY <1>1 DEF CallRecords, IInv, Stores, Sessions
    <3>3. Step(c, k, store)
      BY <1>1, <3>1 DEF CallRecords
    <3> HIDE DEF found
    <3>4. k \in CallRecords /\ k.pc = "scan"
      BY <1>1, <1>5, <3>2 DEF CallRecords, Scan
    <3> HIDE DEF k
    <3>5. QED
      BY <1>2, <3>3, <3>4
  <2>3. QED
    BY <2>1, <2>2
<1>6. CASE Peek(c)
  <2> DEFINE s == store[r.key]
             k == [r EXCEPT !.pc = "touch", !.frames = <<s>>]
  <2>1. CASE s = Gone \/ r.op = "look"
    BY <1>6, <2>1, EndChecks DEF Peek
  <2>2. CASE ~(s = Gone \/ r.op = "look")
    <3>1. Step(c, k, store)
      BY <1>6, <2>2 DEF Peek
    <3>2. r.key \in Keys
      BY <1>6 DEF Peek, IInv, Good, Shape
    <3>3. s \in Sessions
      BY <2>2, <3>2 DEF IInv, Stores
    <3> HIDE DEF s
    <3>4. <<s>> \in Seq(Sessions)
      BY <3>3
    <3>5. k \in CallRecords /\ k.pc = "touch"
      BY <1>1, <3>4 DEF CallRecords, Places
    <3> HIDE DEF k
    <3>6. QED
      BY <1>2, <3>1, <3>5
  <2>3. QED
    BY <2>1, <2>2
<1>7. QED
  BY <1>3, <1>4, <1>5, <1>6, ReadChecks, UnwindChecks, AnswerChecks DEF Continue

LEMMA NextChecks ==
  ASSUME IInv, IInv', [Next]_vars
  PROVE  [Check!Next]_<<LiveKeys, [c \in Calls |-> Stage(calls[c])],
                        [c \in Calls |-> calls[c].key]>>
<1>1. ASSUME \A c \in Calls : CheckStep(calls[c], calls'[c])
      PROVE  Check!Next
  <2>1. LiveKeys' \subseteq Keys
    BY DEF LiveKeys
  <2>2. \A c \in Calls : Stage(calls'[c]) \in Check!Stages
    BY DEF Stage, Check!Stages
  <2>3. QED
    BY <1>1, <2>1, <2>2
    DEF CheckStep, Check!Next, Check!Ask, Check!Find, Check!Refuse, Check!Pass,
        Check!Leave, Check!Stay, Check!Pending, Stage
<1>2. ASSUME NEW c \in Calls, Request(c) \/ Continue(c) \/ CommandFails(c)
      PROVE  \A d \in Calls : CheckStep(calls[d], calls'[d])
  BY <1>2, RequestChecks, ContinueChecks, EndChecks DEF CommandFails
<1>3. ASSUME NEW key \in Keys, Expire(key)
      PROVE  \A d \in Calls : CheckStep(calls[d], calls'[d])
  <2>1. ASSUME NEW d \in Calls
        PROVE  /\ calls[d] \in CallRecords /\ calls'[d].pc = calls[d].pc
               /\ calls'[d].frames = calls[d].frames /\ calls'[d].key = calls[d].key
    BY <1>3 DEF Expire, IInv, Good, Shape, CallRecords
  <2>2. QED
    BY <2>1 DEF CheckStep, Stage
<1>4. CASE UNCHANGED vars
  BY <1>4 DEF vars, LiveKeys
<1>5. QED
  BY <1>1, <1>2, <1>3, <1>4 DEF Next

(* session.service.ts:44: whatever other calls do between the gets of its  *)
(* recursion, getSession() answers null only when the session is absent,   *)
(* hands back only one it found, and takes a failed command for neither:   *)
(* the contract that RequestGuards is shown to rely on.                    *)
THEOREM SessionImplementsCheck == Spec => ImplementsSessionCheck
<1>1. Init => Check!Init
  <2> SUFFICES ASSUME Init PROVE Check!Init
    OBVIOUS
  <2>1. Stage(NoCall) = "none"
    BY DEF Stage, NoCall
  <2>2. QED
    BY <2>1 DEF Init, Check!Init, LiveKeys
<1>2. IInv /\ IInv' /\ [Next]_vars =>
        [Check!Next]_<<LiveKeys, [c \in Calls |-> Stage(calls[c])],
                       [c \in Calls |-> calls[c].key]>>
  BY NextChecks
<1>3. QED
  BY <1>1, <1>2, SessionInvariant, PTL DEF Spec, ImplementsSessionCheck, Check!Spec
=============================================================================
