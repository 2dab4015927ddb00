----------------------------- MODULE UserService -----------------------------
(***************************************************************************)
(* src/domain/services/user.service.ts with the repository, the cache and  *)
(* the event bus it calls.  Every await is a point where another call may  *)
(* run, so a call is split there.                                          *)
(*                                                                         *)
(* The cache is the in-process memory store (CacheModule.register without  *)
(* a store): set() keeps a clone, get() hands out the very object it       *)
(* keeps, wrap() runs one fill per key and gives every waiting caller the  *)
(* same object.  Users in memory are therefore objects with identity, kept *)
(* in a heap, and update()'s Object.assign is visible through every alias. *)
(***************************************************************************)
EXTENDS Integers, FiniteSets

CONSTANTS
  Ids,         \* user ids the database can hand out
  Emails, Passwords,
  CreateDtos,  \* the dtos create() is called with
  UpdateDtos,  \* the dtos update() is called with: a field may be Absent
  Calls,       \* concurrent service calls; a slot is reused
  Objs,        \* User objects that can be alive at once
  MaxCrashes,  \* bound: process crashes
  NoRow, Miss, NoObj, NoId, Blank, Absent

Hash(p) == <<"bcrypt", p>>

Rows == [email : Emails, password : {Hash(p) : p \in Passwords}]
Dtos == [email : Emails \cup {Absent}, password : Passwords \cup {Absent}]
NoDto == [email |-> Absent, password |-> Absent]

ASSUME UserAssumption ==
  /\ CreateDtos \subseteq [email : Emails, password : Passwords]
  /\ UpdateDtos \subseteq Dtos
  /\ Absent \notin Emails \cup Passwords
  /\ NoRow \notin Rows /\ Blank \notin Rows
  /\ NoObj \notin Objs /\ Miss \notin Objs
  /\ NoId \notin Ids
  /\ MaxCrashes \in Nat

VARIABLES
  table,       \* the users table
  heap,        \* the User objects in memory
  store,       \* the cache: the object under `user:${id}`, or Miss
  lookup,      \* the shared fill of a key: none, its query, its reply
  calls,       \* the service calls
  inFlight,    \* events handed to the broker client, not yet accepted
  queue,       \* events the broker holds
  committed,   \* history: every row an id ever had
  unsaved,     \* history: ids an update of which got lost: its save failed,
               \* or the row was deleted under it
  created,     \* history: ids inserted by create()
  crashes

vars == <<table, heap, store, lookup, calls, inFlight, queue,
          committed, unsaved, created, crashes>>
database == <<table, committed, unsaved, created>>
cache    == <<heap, store, lookup>>
events   == <<inFlight, queue>>

NoLookup == [pc |-> "none", row |-> NoRow, lacked |-> FALSE]
NoCall == [op |-> "none", pc |-> "idle", id |-> NoId, dto |-> NoDto,
           obj |-> NoObj, row |-> NoRow, new |-> NoRow, out |-> "none"]

Begun(op, id, dto) ==
  [NoCall EXCEPT !.op = op, !.pc = "lookup", !.id = id, !.dto = dto]

Returned(k, out) ==
  [k EXCEPT !.pc = "idle", !.dto = NoDto, !.obj = NoObj, !.row = NoRow,
            !.new = NoRow, !.out = out]

\* findById() answered with object o: find returns it, update keeps it,
\* delete only takes its id.
WithUser(k, o) ==
  CASE k.op = "find"   -> Returned(k, "ok")
    [] k.op = "update" -> [k EXCEPT !.pc = "found", !.obj = o]
    [] k.op = "delete" -> [k EXCEPT !.pc = "check"]

Waiting(id) == {c \in Calls : calls[c].pc = "lookup" /\ calls[c].id = id}

\* Objects no variable refers to are garbage.
Live(s, k) == ({s[i] : i \in Ids} \cup {k[c].obj : c \in Calls}) \cap Objs
Collect(h, s, k) == [o \in Objs |-> IF o \in Live(s, k) THEN h[o] ELSE Blank]

\* Object.assign(user, dto) once dto.password has been hashed.
Assigned(row, dto) ==
  [email    |-> IF dto.email = Absent THEN row.email ELSE dto.email,
   password |-> IF dto.password = Absent THEN row.password
                                         ELSE Hash(dto.password)]

\* The table before the first request: any users, already stored.
Init ==
  /\ table \in [Ids -> {NoRow} \cup {Assigned(d, d) : d \in CreateDtos}]
  /\ heap = [o \in Objs |-> Blank]
  /\ store = [i \in Ids |-> Miss]
  /\ lookup = [i \in Ids |-> NoLookup]
  /\ calls = [c \in Calls |-> NoCall]
  /\ inFlight = {} /\ queue = {}
  /\ committed = [i \in Ids |-> {table[i]} \ {NoRow}]
  /\ unsaved = {} /\ created = {}
  /\ crashes = 0
-----------------------------------------------------------------------------
\* findById(), the first step of find, update and delete: a hit is answered
\* at once with the cached object itself.
FindHit(c, op, id, dto) ==
  /\ calls[c].pc = "idle"
  /\ store[id] # Miss
  /\ calls' = [calls EXCEPT ![c] = WithUser(Begun(op, id, dto), store[id])]
  /\ UNCHANGED <<database, cache, events, crashes>>

\* A miss starts the fill of the key or joins the one in flight.
FindMiss(c, op, id, dto) ==
  /\ calls[c].pc = "idle"
  /\ store[id] = Miss
  /\ calls' = [calls EXCEPT ![c] = Begun(op, id, dto)]
  /\ lookup' = IF lookup[id].pc # "none" THEN lookup
               ELSE [lookup EXCEPT ![id] = [pc |-> "query", row |-> NoRow,
                                            lacked |-> table[id] = NoRow]]
  /\ UNCHANGED <<database, heap, store, events, crashes>>

\* The database executes userRepository.findById's query.
DbRead(id) ==
  /\ lookup[id].pc = "query"
  /\ lookup' = [lookup EXCEPT ![id] = [@ EXCEPT !.pc = "reply", !.row = table[id]]]
  /\ UNCHANGED <<database, heap, store, calls, events, crashes>>

\* Plausible slips: the error is taken for an absent user, or only the
\* first caller of the fill hears of it.
DbReadFailsAsAbsent(id) ==
  /\ lookup[id].pc = "query"
  /\ lookup' = [lookup EXCEPT ![id].pc = "reply"]
  /\ UNCHANGED <<database, heap, store, calls, events, crashes>>

DbReadFailsSilently(id) ==
  /\ lookup[id].pc = "query"
  /\ lookup' = [lookup EXCEPT ![id] = NoLookup]
  /\ UNCHANGED <<database, heap, store, calls, events, crashes>>

\* The query is rejected, and with it every caller of the shared fill.
DbReadFails(id) ==
  /\ lookup[id].pc = "query"
  /\ lookup' = [lookup EXCEPT ![id] = NoLookup]
  /\ calls' = [c \in Calls |-> IF c \in Waiting(id)
                               THEN Returned(calls[c], "500") ELSE calls[c]]
  /\ UNCHANGED <<database, heap, store, events, crashes>>

\* The fill ends without a user: NotFoundException for every caller, and
\* nothing is cached.
UserMissing(id) ==
  /\ lookup[id].pc = "reply" /\ lookup[id].row = NoRow
  /\ lookup' = [lookup EXCEPT ![id] = NoLookup]
  /\ calls' = [c \in Calls |-> IF c \in Waiting(id)
                               THEN Returned(calls[c], "404") ELSE calls[c]]
  /\ UNCHANGED <<database, heap, store, events, crashes>>

\* The fill ends with a user: a clone goes into the cache, the object itself
\* to every caller.
UserFound(id, user, clone) ==
  /\ lookup[id].pc = "reply" /\ lookup[id].row # NoRow
  /\ user # clone /\ {user, clone} \cap Live(store, calls) = {}
  /\ lookup' = [lookup EXCEPT ![id] = NoLookup]
  /\ store' = [store EXCEPT ![id] = clone]
  /\ calls' = [c \in Calls |-> IF c \in Waiting(id)
                               THEN WithUser(calls[c], user) ELSE calls[c]]
  /\ heap' = Collect([heap EXCEPT ![user] = lookup[id].row,
                                  ![clone] = lookup[id].row], store', calls')
  /\ UNCHANGED <<database, events, crashes>>

\* The entry's TTL passes, or the 100-entry LRU drops it.
Evict(id) ==
  /\ store[id] # Miss
  /\ store' = [store EXCEPT ![id] = Miss]
  /\ heap' = Collect(heap, store', calls)
  /\ UNCHANGED <<database, lookup, calls, events, crashes>>

\* invalidateUserCache(), which no code calls.
InvalidateUserCache(id) ==
  /\ store' = [store EXCEPT ![id] = Miss]
  /\ heap' = Collect(heap, store', calls)
  /\ UNCHANGED <<database, lookup, calls, events, crashes>>
-----------------------------------------------------------------------------
\* A plausible slip: the dto is assigned before its password is hashed.
AssignUnhashed(c) ==
  /\ calls[c].pc = "found"
  /\ heap' = [heap EXCEPT ![calls[c].obj] =
                [Assigned(@, calls[c].dto) EXCEPT !.password =
                   IF calls[c].dto.password = Absent
                     THEN @ ELSE calls[c].dto.password]]
  /\ calls' = [calls EXCEPT ![c].pc = "save"]
  /\ UNCHANGED <<database, store, lookup, events, crashes>>

\* update() after findById(): hash the password, assign onto the object.
Assign(c) ==
  /\ calls[c].pc = "found"
  /\ heap' = [heap EXCEPT ![calls[c].obj] = Assigned(@, calls[c].dto)]
  /\ calls' = [calls EXCEPT ![c].pc = "save"]
  /\ UNCHANGED <<database, store, lookup, events, crashes>>

\* Hashing the new password is rejected; nothing was assigned yet.
HashFails(c) ==
  /\ calls[c].pc = "found" /\ calls[c].dto.password # Absent
  /\ calls' = [calls EXCEPT ![c] = Returned(@, "500")]
  /\ heap' = Collect(heap, store, calls')
  /\ UNCHANGED <<database, store, lookup, events, crashes>>

\* userRepository.save(): TypeORM first SELECTs the row of the object's id.
SelectRow(c) ==
  /\ calls[c].pc = "save"
  /\ calls' = [calls EXCEPT ![c].pc = "compare", ![c].row = table[calls[c].id]]
  /\ UNCHANGED <<database, cache, events, crashes>>

\* Its reply is compared with the object as it is by then: no difference, no
\* statement; else what is to be written is fixed here.
Compare(c) ==
  /\ calls[c].pc = "compare"
  /\ calls' = [calls EXCEPT ![c] =
                 IF heap[@.obj] = @.row THEN Returned(@, "ok")
                 ELSE [@ EXCEPT !.pc = "write", !.new = heap[calls[c].obj]]]
  /\ heap' = Collect(heap, store, calls')
  /\ UNCHANGED <<database, store, lookup, events, crashes>>

\* The row now, once the columns that differed from row are set to new's.
Merged(now, row, new) ==
  [f \in DOMAIN new |-> IF new[f] = row[f] THEN now[f] ELSE new[f]]

\* A plausible slip: save() as an UPDATE, which a missing row ignores.
WriteUpdatingOnly(c) ==
  /\ calls[c].pc = "write"
  /\ LET id == calls[c].id
         row == IF NoRow \in {calls[c].row, table[id]} THEN table[id]
                ELSE Merged(table[id], calls[c].row, calls[c].new)
     IN /\ table' = [table EXCEPT ![id] = row]
        /\ committed' = [committed EXCEPT ![id] = @ \cup ({row} \ {NoRow})]
  /\ calls' = [calls EXCEPT ![c] = Returned(@, "ok")]
  /\ heap' = Collect(heap, store, calls')
  /\ UNCHANGED <<unsaved, created, store, lookup, events, crashes>>

\* A row the SELECT did not find is inserted, unless it exists by now; one it
\* found has its changed columns updated, and an UPDATE of a row deleted in
\* the meantime touches nothing and resolves all the same.
Write(c) ==
  /\ calls[c].pc = "write"
  /\ calls[c].row = NoRow => table[calls[c].id] = NoRow
  /\ LET id == calls[c].id
         row == IF calls[c].row = NoRow THEN calls[c].new
                ELSE IF table[id] = NoRow THEN NoRow
                ELSE Merged(table[id], calls[c].row, calls[c].new)
     IN /\ table' = [table EXCEPT ![id] = row]
        /\ committed' = [committed EXCEPT ![id] = @ \cup ({row} \ {NoRow})]
  /\ calls' = [calls EXCEPT ![c] = Returned(@, "ok")]
  /\ heap' = Collect(heap, store, calls')
  /\ UNCHANGED <<unsaved, created, store, lookup, events, crashes>>

\* A statement is rejected: the object keeps what was assigned to it.
SaveFails(c) ==
  /\ calls[c].pc \in {"save", "write"}
  /\ unsaved' = unsaved \cup {calls[c].id}
  /\ calls' = [calls EXCEPT ![c] = Returned(@, "500")]
  /\ heap' = Collect(heap, store, calls')
  /\ UNCHANGED <<table, committed, created, store, lookup, events, crashes>>

\* userRepository.delete(): look for the row; its `false` is ignored.
CheckRow(c) ==
  /\ calls[c].pc = "check"
  /\ calls' = [calls EXCEPT ![c] = IF table[@.id] = NoRow
                                   THEN Returned(@, "ok")
                                   ELSE [@ EXCEPT !.pc = "drop"]]
  /\ UNCHANGED <<database, cache, events, crashes>>

\* A save that found the row of id and is about to update it.
Updating(k, id) == k.pc \in {"compare", "write"} /\ k.id = id /\ k.row # NoRow

\* The row goes; the cached user stays, and so do a fill and a save under way.
DeleteRow(c) ==
  /\ calls[c].pc = "drop"
  /\ LET id == calls[c].id
     IN /\ table' = [table EXCEPT ![id] = NoRow]
        /\ lookup' = [lookup EXCEPT ![id].lacked = lookup[id].pc # "none"]
        /\ unsaved' = IF \E d \in Calls : Updating(calls[d], id)
                       THEN unsaved \cup {id} ELSE unsaved
  /\ calls' = [calls EXCEPT ![c] = Returned(@, "ok")]
  /\ UNCHANGED <<committed, created, heap, store, events, crashes>>

DeleteFails(c) ==
  /\ calls[c].pc \in {"check", "drop"}
  /\ calls' = [calls EXCEPT ![c] = Returned(@, "500")]
  /\ UNCHANGED <<database, cache, events, crashes>>
-----------------------------------------------------------------------------
\* create() up to the save of the new user.
BeginCreate(c, dto) ==
  /\ calls[c].pc = "idle"
  /\ calls' = [calls EXCEPT ![c] = [NoCall EXCEPT !.op = "create",
                                                  !.pc = "insert", !.dto = dto]]
  /\ UNCHANGED <<database, cache, events, crashes>>

\* The database stores the new user under an id it never used.
Insert(c, id) ==
  /\ calls[c].pc = "insert"
  /\ committed[id] = {}
  /\ LET row == Assigned(calls[c].dto, calls[c].dto)
     IN /\ table' = [table EXCEPT ![id] = row]
        /\ committed' = [committed EXCEPT ![id] = {row}]
  /\ created' = created \cup {id}
  /\ calls' = [calls EXCEPT ![c].pc = "emit", ![c].id = id, ![c].dto = NoDto]
  /\ UNCHANGED <<unsaved, cache, events, crashes>>

InsertFails(c) ==
  /\ calls[c].pc = "insert"
  /\ calls' = [calls EXCEPT ![c] = Returned(@, "500")]
  /\ UNCHANGED <<database, cache, events, crashes>>

\* A plausible slip: the user is returned and the event never emitted.
ReturnWithoutEmit(c) ==
  /\ calls[c].pc = "emit"
  /\ calls' = [calls EXCEPT ![c] = Returned(@, "ok")]
  /\ UNCHANGED <<database, cache, events, crashes>>

\* The database's answer arrives: emit() hands the event to the client and
\* does not wait for it.
Emit(c) ==
  /\ calls[c].pc = "emit"
  /\ inFlight' = inFlight \cup {calls[c].id}
  /\ calls' = [calls EXCEPT ![c] = Returned(@, "ok")]
  /\ UNCHANGED <<database, cache, queue, crashes>>

Publish(id) ==
  /\ id \in inFlight
  /\ inFlight' = inFlight \ {id}
  /\ queue' = queue \cup {id}
  /\ UNCHANGED <<database, cache, calls, crashes>>

\* The process dies and is restarted: memory is lost, the database and the
\* broker keep what they have.
Restart ==
  /\ crashes < MaxCrashes
  /\ crashes' = crashes + 1
  /\ heap' = [o \in Objs |-> Blank]
  /\ store' = [i \in Ids |-> Miss]
  /\ lookup' = [i \in Ids |-> NoLookup]
  /\ calls' = [c \in Calls |-> NoCall]
  /\ inFlight' = {}
  /\ UNCHANGED <<database, queue>>

\* A plausible slip: subscribe() given an error handler that drops the error.
PublishFailsQuietly(id) ==
  /\ id \in inFlight
  /\ inFlight' = inFlight \ {id}
  /\ UNCHANGED <<database, cache, calls, queue, crashes>>

\* The broker refuses the event: emit() subscribed without an error handler,
\* so the error is thrown at the top level and ends the process.
PublishFails(id) ==
  /\ id \in inFlight
  /\ Restart

Crash == Restart
-----------------------------------------------------------------------------
Request(c) ==
  \/ \E id \in Ids : \/ FindHit(c, "find", id, NoDto)
                     \/ FindMiss(c, "find", id, NoDto)
                     \/ FindHit(c, "delete", id, NoDto)
                     \/ FindMiss(c, "delete", id, NoDto)
  \/ \E id \in Ids, dto \in UpdateDtos : \/ FindHit(c, "update", id, dto)
                                         \/ FindMiss(c, "update", id, dto)
  \/ \E dto \in CreateDtos : BeginCreate(c, dto)

Continue(c) ==
  \/ Assign(c) \/ HashFails(c)
  \/ SelectRow(c) \/ Compare(c) \/ Write(c) \/ SaveFails(c)
  \/ CheckRow(c) \/ DeleteRow(c) \/ DeleteFails(c)
  \/ (\E id \in Ids : Insert(c, id)) \/ InsertFails(c) \/ Emit(c)

Fill(id) ==
  \/ DbRead(id) \/ DbReadFails(id) \/ UserMissing(id)
  \/ \E user, clone \in Objs : UserFound(id, user, clone)

Next ==
  \/ \E c \in Calls : Request(c) \/ Continue(c)
  \/ \E id \in Ids : \/ Fill(id) \/ Evict(id) \/ InvalidateUserCache(id)
                     \/ Publish(id) \/ PublishFails(id)
  \/ Crash

Spec == Init /\ [][Next]_vars

\* The database answers every query and the broker takes or refuses every
\* event; nobody is obliged to make a request.
FairSpec ==
  /\ Spec
  /\ \A c \in Calls : WF_vars(Continue(c))
  /\ \A id \in Ids : WF_vars(Fill(id)) /\ WF_vars(Publish(id))
-----------------------------------------------------------------------------
LookupRecords ==
  [pc : {"none", "query", "reply"}, row : Rows \cup {NoRow}, lacked : BOOLEAN]
Outcomes == {"none", "ok", "404", "500"}
CallRecords ==
  [op : {"none", "find", "update", "delete", "create"},
   pc : {"idle", "lookup", "found", "save", "compare", "write", "check", "drop",
         "insert", "emit"},
   id : Ids \cup {NoId}, dto : Dtos, obj : Objs \cup {NoObj},
   row : Rows \cup {NoRow}, new : Rows \cup {NoRow}, out : Outcomes]

\* In the table, in a reply and in memory alike, a password is always one
\* bcrypt hash of something a caller sent: never plain, never hashed twice.
TypeOK ==
  /\ table \in [Ids -> Rows \cup {NoRow}]
  /\ heap \in [Objs -> Rows \cup {Blank}]
  /\ store \in [Ids -> Objs \cup {Miss}]
  /\ lookup \in [Ids -> LookupRecords]
  /\ calls \in [Calls -> CallRecords]
  /\ inFlight \subseteq Ids /\ queue \subseteq Ids
  /\ committed \in [Ids -> SUBSET Rows]
  /\ unsaved \subseteq Ids /\ created \subseteq Ids
  /\ crashes \in 0 .. MaxCrashes

\* The ids that reach an object, through the cache or through a call.
Refs(o) == {i \in Ids : store[i] = o}
           \cup {calls[c].id : c \in {d \in Calls : calls[d].obj = o}}

\* A save of object o is under way.
Saving(k, o) == k.pc \in {"save", "compare", "write"} /\ k.obj = o

\* Although update() writes into objects the cache and other callers share,
\* and save() only writes what differs from a row read some time before, no
\* field of a user in memory ever shows a value the database did not hold for
\* that very id at some time, except while a save of that object is under way
\* or after an update of the user got lost (unsaved).
UncommittedOnlyWhenOwed ==
  \A o \in Objs : \A i \in Refs(o), f \in {"email", "password"} :
    \/ \E row \in committed[i] : row[f] = heap[o][f]
    \/ i \in unsaved
    \/ \E c \in Calls : Saving(calls[c], o)

\* An id whose creation was committed has its user.created event at the
\* broker, with the broker client, or still to be emitted, unless the
\* process crashed on the way.
CreatedIsOwedAnEvent ==
  crashes = 0 =>
    created \subseteq queue \cup inFlight
                      \cup {calls[c].id : c \in {d \in Calls : calls[d].pc = "emit"}}

\* A caller is told "User not found" only if the row really was absent at
\* some moment since the fill it shares was started (possibly by another
\* caller, before this one arrived).
NotFoundIsJustified ==
  [][\A c \in Calls :
        calls[c].pc = "lookup" /\ calls'[c].out = "404" =>
          lookup[calls[c].id].lacked]_vars

\* Every call returns, also when it shares another caller's failing fill.
EveryCallReturns == \A c \in Calls : (calls[c].pc # "idle") ~> (calls[c].pc = "idle")

\* Every user created is announced at the broker, unless the process crashes
\* on the way.
CreatedIsAnnounced ==
  \A id \in Ids : (id \in created) ~> (id \in queue \/ crashes > 0)
=============================================================================
