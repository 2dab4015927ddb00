-------------------------- MODULE UserServiceProofs --------------------------
(***************************************************************************)
(* Proofs about UserService, for any ids, dtos, callers and number of      *)
(* crashes.                                                                *)
(*                                                                         *)
(* UncommittedOnlyWhenOwed is not inductive by itself: a save commits an   *)
(* object under the id of the saving call, so every other reference to the *)
(* object must be under the same id (OneOwner); what a fill or a save read *)
(* must be a row the id once had (RowsAreCommitted, SavesTracked); and a   *)
(* save whose values are fixed only answers for the fields that still have *)
(* them (AllOwed).                                                         *)
(***************************************************************************)
EXTENDS UserService, TLAPS

\* Which fields of a call mean something at each point of it.
CallShape(k) ==
  /\ k.pc \notin {"idle", "insert"} => k.id \in Ids
  /\ k.pc \in {"found", "save", "compare", "write"} => k.obj \in Objs
  /\ k.pc \notin {"found", "save", "compare", "write"} => k.obj = NoObj
  /\ k.pc = "write" => k.new \in Rows
  /\ k.pc = "lookup" => k.op \in {"find", "update", "delete"} /\ k.out = "none"
  /\ k.pc = "insert" => k.dto \in CreateDtos

CallsShaped == \A c \in Calls : CallShape(calls[c])
LiveRow     == \A o \in Objs : Refs(o) # {} => heap[o] \in Rows
OneOwner    == \A o \in Objs : \A i, j \in Refs(o) : i = j

RowsAreCommitted ==
  \A i \in Ids : {table[i], lookup[i].row} \subseteq committed[i] \cup {NoRow}

\* What a save read is a row the id had, and it knows of a deletion since.
SavesTracked ==
  \A c \in Calls : LET k == calls[c] IN
    k.pc \in {"compare", "write"} =>
      /\ k.row \in committed[k.id] \cup {NoRow}
      /\ k.row # NoRow /\ table[k.id] = NoRow => k.id \in unsaved

\* Call k is going to save field f of object o as it is.
WillSave(k, o, f) ==
  /\ k.obj = o
  /\ \/ k.pc \in {"save", "compare"}
     \/ k.pc = "write" /\ k.new[f] = heap[o][f]

Held(i, f, v) == \E row \in committed[i] : row[f] = v
Owed(o, i, f) == \/ Held(i, f, heap[o][f])
                 \/ i \in unsaved
                 \/ \E c \in Calls : WillSave(calls[c], o, f)
Fields == {"email", "password"}
AllOwed == \A o \in Objs : \A i \in Refs(o), f \in Fields : Owed(o, i, f)

LackedRecorded ==
  \A i \in Ids :
    /\ lookup[i].pc = "query" /\ table[i] = NoRow => lookup[i].lacked
    /\ lookup[i].pc = "reply" /\ lookup[i].row = NoRow => lookup[i].lacked

Objects == TypeOK /\ CallsShaped /\ LiveRow /\ OneOwner
-----------------------------------------------------------------------------
(* The records a call goes through. *)
LEMMA BegunShape ==
  ASSUME NEW op \in {"find", "update", "delete"}, NEW id \in Ids, NEW dto \in Dtos
  PROVE  /\ Begun(op, id, dto) \in CallRecords
         /\ CallShape(Begun(op, id, dto))
         /\ Begun(op, id, dto).pc = "lookup"
         /\ Begun(op, id, dto).id = id
         /\ Begun(op, id, dto).op = op
         /\ Begun(op, id, dto).out = "none"
         /\ Begun(op, id, dto).obj = NoObj
  BY DEF Begun, NoCall, CallRecords, CallShape, Outcomes

\* A call that returned holds no object and is well shaped.
LEMMA ReturnedShape ==
  ASSUME NEW k \in CallRecords, NEW out \in Outcomes
  PROVE  /\ Returned(k, out) \in CallRecords
         /\ CallShape(Returned(k, out))
         /\ Returned(k, out).pc = "idle"
         /\ Returned(k, out).id = k.id
         /\ Returned(k, out).out = out
         /\ Returned(k, out).obj = NoObj
  BY DEF Returned, CallRecords, CallShape, NoDto, Dtos

\* Answering a lookup with an object leaves the call well shaped, and only an
\* update keeps the object.
LEMMA WithUserShape ==
  ASSUME NEW k \in CallRecords, CallShape(k), k.pc = "lookup", NEW o \in Objs
  PROVE  /\ WithUser(k, o) \in CallRecords
         /\ CallShape(WithUser(k, o))
         /\ WithUser(k, o).pc \in {"idle", "found", "check"}
         /\ WithUser(k, o).id = k.id
         /\ WithUser(k, o).obj \in {NoObj, o}
         /\ WithUser(k, o).out \in {"ok", k.out}
<1>1. CASE k.op = "find"
  BY <1>1, ReturnedShape DEF WithUser, Outcomes
<1>2. CASE k.op = "update"
  BY <1>2 DEF WithUser, CallRecords, CallShape
<1>3. CASE k.op = "delete"
  BY <1>3 DEF WithUser, CallRecords, CallShape
<1>4. QED
  BY <1>1, <1>2, <1>3 DEF CallShape

(* Object.assign of a dto onto a row is a row again, password hashed. *)
LEMMA AssignedRow ==
  ASSUME NEW row \in Rows, NEW dto \in Dtos
  PROVE  Assigned(row, dto) \in Rows
  BY DEF Assigned, Rows, Dtos, Hash

\* What create() stores is a row, its password hashed.
LEMMA CreatedRow ==
  ASSUME NEW dto \in CreateDtos
  PROVE  dto \in Dtos /\ Assigned(dto, dto) \in Rows
  BY UserAssumption DEF Assigned, Rows, Dtos, Hash

(* What it takes to reach an object, now and after a step. *)
LEMMA RefsOf ==
  ASSUME NEW o \in Objs
  PROVE  /\ \A i : i \in Refs(o) <=> \/ i \in Ids /\ store[i] = o
                                     \/ \E c \in Calls : calls[c].obj = o /\ calls[c].id = i
         /\ \A i : i \in Refs(o)' <=> \/ i \in Ids /\ store'[i] = o
                                      \/ \E c \in Calls : calls'[c].obj = o /\ calls'[c].id = i
  BY DEF Refs

\* A step that only drops references and leaves the objects still referenced
\* alone.
OnlyDropsRefs == \A o \in Objs : /\ Refs(o)' \subseteq Refs(o)
                                 /\ Refs(o)' # {} => heap'[o] = heap[o]

(* Such a step keeps the heap well formed. *)
LEMMA ObjectsKept ==
  ASSUME LiveRow, OneOwner, OnlyDropsRefs
  PROVE  LiveRow' /\ OneOwner'
  BY DEF LiveRow, OneOwner, OnlyDropsRefs

(* Garbage collection is invisible: referenced objects keep their contents. *)
LEMMA CollectKeeps ==
  ASSUME NEW h \in [Objs -> Rows \cup {Blank}],
         heap' = Collect(h, store', calls')
  PROVE  /\ heap' \in [Objs -> Rows \cup {Blank}]
         /\ \A o \in Objs : Refs(o)' # {} => heap'[o] = h[o]
<1>1. \A o \in Objs : Refs(o)' # {} => o \in Live(store', calls')
  BY DEF Refs, Live
<1>2. QED
  BY <1>1 DEF Collect

(* A step of one call, to record k. *)
LEMMA OneCall ==
  ASSUME TypeOK, CallsShaped, NEW c \in Calls, NEW k \in CallRecords, CallShape(k),
         calls' = [calls EXCEPT ![c] = k]
  PROVE  /\ calls' \in [Calls -> CallRecords] /\ CallsShaped'
         /\ calls'[c] = k
         /\ \A d \in Calls \ {c} : calls'[d] = calls[d]
  BY DEF TypeOK, CallsShaped

(* The call's new record refers to no object, or to one it could reach. *)
LEMMA OneCallRefs ==
  ASSUME NEW c \in Calls,
         \A d \in Calls \ {c} : calls'[d] = calls[d],
         \A i \in Ids : store'[i] \in {store[i], Miss},
         \A o \in Objs : calls'[c].obj = o => calls'[c].id \in Refs(o)
  PROVE  \A o \in Objs : Refs(o)' \subseteq Refs(o)
  BY RefsOf, UserAssumption

(* The callers of a fill that ends without an object hold none. *)
LEMMA AllReturned ==
  ASSUME TypeOK, CallsShaped, NEW id \in Ids, NEW out \in Outcomes,
         calls' = [c \in Calls |-> IF c \in Waiting(id)
                                   THEN Returned(calls[c], out) ELSE calls[c]]
  PROVE  /\ calls' \in [Calls -> CallRecords] /\ CallsShaped'
         /\ \A c \in Calls : c \notin Waiting(id) => calls'[c] = calls[c]
         /\ \A c \in Waiting(id) : /\ calls'[c].pc = "idle"
                                   /\ calls'[c].obj = NoObj
                                   /\ calls'[c].out = out
<1>1. \A c \in Calls : calls[c] \in CallRecords /\ CallShape(calls[c])
  BY DEF TypeOK, CallsShaped
<1>2. \A c \in Waiting(id) : /\ c \in Calls
                             /\ Returned(calls[c], out) \in CallRecords
                             /\ CallShape(Returned(calls[c], out))
                             /\ Returned(calls[c], out).pc = "idle"
                             /\ Returned(calls[c], out).obj = NoObj
                             /\ Returned(calls[c], out).out = out
  BY <1>1, ReturnedShape DEF Waiting
<1>3. QED
  BY <1>1, <1>2 DEF CallsShaped

-----------------------------------------------------------------------------
\* The first state has no objects in use.
LEMMA InitObjects == Init => Objects
<1> SUFFICES ASSUME Init PROVE Objects
  OBVIOUS
<1>1. TypeOK
  BY CreatedRow, UserAssumption
  DEF Init, TypeOK, LookupRecords, NoLookup, NoCall, CallRecords, Outcomes, NoDto, Dtos
<1>2. CallsShaped
  BY DEF Init, CallsShaped, CallShape, NoCall
<1>3. \A o \in Objs : Refs(o) = {}
  BY UserAssumption DEF Init, Refs, NoCall
<1>4. QED
  BY <1>1, <1>2, <1>3 DEF Objects, LiveRow, OneOwner

\* A hit hands the cached object to one call and changes no object.
LEMMA FindHitObjects ==
  ASSUME Objects, NEW c \in Calls, NEW op \in {"find", "update", "delete"},
         NEW id \in Ids, NEW dto \in Dtos, FindHit(c, op, id, dto)
  PROVE  Objects' /\ OnlyDropsRefs
<1> DEFINE k == WithUser(Begun(op, id, dto), store[id])
<1>1. store[id] \in Objs /\ id \in Refs(store[id])
  BY DEF FindHit, Objects, TypeOK, Refs
<1>2. k \in CallRecords /\ CallShape(k) /\ k.id = id /\ k.obj \in {NoObj, store[id]}
  BY <1>1, BegunShape, WithUserShape
<1> HIDE DEF k
<1>3. calls' = [calls EXCEPT ![c] = k]
  BY DEF FindHit, k
<1>4. /\ calls' \in [Calls -> CallRecords] /\ CallsShaped'
      /\ calls'[c] = k
      /\ \A d \in Calls \ {c} : calls'[d] = calls[d]
  BY <1>2, <1>3, OneCall DEF Objects
<1>5. TypeOK'
  BY <1>4 DEF FindHit, Objects, TypeOK, database, cache, events
<1>6. \A o \in Objs : Refs(o)' \subseteq Refs(o)
  BY <1>1, <1>2, <1>4, OneCallRefs, UserAssumption DEF FindHit, cache
<1>7. QED
  BY <1>4, <1>5, <1>6, ObjectsKept DEF OnlyDropsRefs, FindHit, Objects, cache

\* A miss changes no object, and starts or joins a fill.
LEMMA FindMissObjects ==
  ASSUME Objects, NEW c \in Calls, NEW op \in {"find", "update", "delete"},
         NEW id \in Ids, NEW dto \in Dtos, FindMiss(c, op, id, dto)
  PROVE  Objects' /\ OnlyDropsRefs
<1> DEFINE k == Begun(op, id, dto)
<1>1. k \in CallRecords /\ CallShape(k) /\ k.obj = NoObj
  BY BegunShape
<1> HIDE DEF k
<1>2. calls' = [calls EXCEPT ![c] = k]
  BY DEF FindMiss, k
<1>3. /\ calls' \in [Calls -> CallRecords] /\ CallsShaped'
      /\ calls'[c] = k
      /\ \A d \in Calls \ {c} : calls'[d] = calls[d]
  BY <1>1, <1>2, OneCall DEF Objects
<1>4. TypeOK'
  BY <1>3 DEF FindMiss, Objects, TypeOK, LookupRecords, database, events
<1>5. \A o \in Objs : Refs(o)' \subseteq Refs(o)
  BY <1>1, <1>3, OneCallRefs, UserAssumption DEF FindMiss
<1>6. QED
  BY <1>3, <1>4, <1>5, ObjectsKept DEF OnlyDropsRefs, FindMiss, Objects

\* A fill that reads, fails or finds nothing changes no object.
LEMMA FillEndsObjects ==
  ASSUME Objects, NEW id \in Ids, DbRead(id) \/ DbReadFails(id) \/ UserMissing(id)
  PROVE  Objects' /\ OnlyDropsRefs
<1>1. CASE DbRead(id)
  <2>1. table[id] \in Rows \cup {NoRow} /\ lookup \in [Ids -> LookupRecords]
    BY DEF Objects, TypeOK, LookupRecords
  <2>2. lookup' \in [Ids -> LookupRecords]
    BY <1>1, <2>1 DEF DbRead, LookupRecords
  <2>3. TypeOK'
    BY <1>1, <2>2 DEF DbRead, Objects, TypeOK, LookupRecords, database, events
  <2>4. \A o \in Objs : Refs(o)' = Refs(o)
    BY <1>1 DEF DbRead, Refs
  <2>5. QED
    BY <1>1, <2>3, <2>4, ObjectsKept DEF OnlyDropsRefs, DbRead, Objects, CallsShaped
<1>2. CASE DbReadFails(id) \/ UserMissing(id)
  <2>1. PICK out \in Outcomes :
          calls' = [c \in Calls |-> IF c \in Waiting(id)
                                    THEN Returned(calls[c], out) ELSE calls[c]]
    BY <1>2 DEF DbReadFails, UserMissing, Outcomes
  <2>2. /\ calls' \in [Calls -> CallRecords] /\ CallsShaped'
        /\ \A c \in Calls : c \notin Waiting(id) => calls'[c] = calls[c]
        /\ \A c \in Waiting(id) : calls'[c].obj = NoObj
    BY <2>1, AllReturned DEF Objects
  <2>3. TypeOK'
    <3>1. lookup' \in [Ids -> LookupRecords]
      <4>1. NoLookup \in LookupRecords
        BY DEF NoLookup, LookupRecords
      <4>2. lookup' = [lookup EXCEPT ![id] = NoLookup]
        BY <1>2 DEF DbReadFails, UserMissing
      <4>3. QED
        BY <4>1, <4>2 DEF Objects, TypeOK
    <3>2. QED
      BY <1>2, <2>2, <3>1
      DEF DbReadFails, UserMissing, Objects, TypeOK, LookupRecords, database, events
  <2>4. \A o \in Objs : Refs(o)' \subseteq Refs(o)
    BY <1>2, <2>2, RefsOf, UserAssumption DEF DbReadFails, UserMissing
  <2>5. QED
    BY <1>2, <2>2, <2>3, <2>4, ObjectsKept DEF OnlyDropsRefs, DbReadFails, UserMissing, Objects
<1>3. QED
  BY <1>1, <1>2

\* A fill that ends with a user takes two unused objects, both of the row read.
LEMMA UserFoundObjects ==
  ASSUME Objects, NEW id \in Ids, NEW user \in Objs, NEW clone \in Objs,
         UserFound(id, user, clone)
  PROVE  /\ Objects'
         /\ \A o \in {user, clone} : /\ Refs(o)' \subseteq {id}
                                     /\ Refs(o)' # {} => heap'[o] = lookup[id].row
         /\ \A o \in Objs \ {user, clone} : /\ Refs(o)' \subseteq Refs(o)
                                            /\ Refs(o)' # {} => heap'[o] = heap[o]
<1> DEFINE h == [heap EXCEPT ![user] = lookup[id].row, ![clone] = lookup[id].row]
<1>1. lookup[id].row \in Rows
  BY DEF UserFound, Objects, TypeOK, LookupRecords
<1>2. /\ h \in [Objs -> Rows \cup {Blank}]
      /\ h[user] = lookup[id].row /\ h[clone] = lookup[id].row
      /\ \A o \in Objs \ {user, clone} : h[o] = heap[o]
  BY <1>1 DEF Objects, TypeOK
<1> HIDE DEF h
<1>3. /\ heap' \in [Objs -> Rows \cup {Blank}]
      /\ \A o \in Objs : Refs(o)' # {} => heap'[o] = h[o]
  BY <1>2, CollectKeeps DEF UserFound, h
<1>4. \A c \in Waiting(id) :
        /\ c \in Calls /\ calls[c].id = id
        /\ WithUser(calls[c], user) \in CallRecords
        /\ CallShape(WithUser(calls[c], user))
        /\ WithUser(calls[c], user).id = id
        /\ WithUser(calls[c], user).obj \in {NoObj, user}
  BY WithUserShape DEF Waiting, Objects, TypeOK, CallsShaped
<1>5. /\ calls' \in [Calls -> CallRecords] /\ CallsShaped'
      /\ \A c \in Calls : \/ calls'[c] = calls[c]
                          \/ calls'[c].id = id /\ calls'[c].obj \in {NoObj, user}
  <2>1. calls' = [c \in Calls |-> IF c \in Waiting(id)
                                  THEN WithUser(calls[c], user) ELSE calls[c]]
    BY DEF UserFound
  <2>2. QED
    BY <2>1, <1>4 DEF Objects, TypeOK, CallsShaped
<1>6. store' = [store EXCEPT ![id] = clone]
  BY DEF UserFound
<1>7. TypeOK'
  <2>1. NoLookup \in LookupRecords
    BY DEF NoLookup, LookupRecords
  <2>2. lookup' \in [Ids -> LookupRecords]
    BY <2>1 DEF UserFound, Objects, TypeOK
  <2>3. store' \in [Ids -> Objs \cup {Miss}]
    BY <1>6 DEF Objects, TypeOK
  <2>4. QED
    BY <1>3, <1>5, <2>2, <2>3 DEF UserFound, Objects, TypeOK, database, events
<1>8. Refs(user) = {} /\ Refs(clone) = {} /\ user # clone
  BY DEF UserFound, Live, Refs
<1>9. Refs(user)' \subseteq {id} /\ Refs(clone)' \subseteq {id}
  <2> USE UserAssumption DEF Objects, TypeOK
  <2>1. \A i \in Ids \ {id} : store'[i] = store[i]
    BY <1>6
  <2>2. \A i \in Ids \ {id} : store[i] \notin {user, clone}
    BY <1>8, RefsOf
  <2>3. \A c \in Calls : calls[c].obj \notin {user, clone}
    <3>1. \A c \in Calls : calls[c].obj \in Objs => calls[c].id \in Refs(calls[c].obj)
      BY RefsOf
    <3>2. QED
      BY <1>8, <3>1
  <2>4. QED
    BY <1>5, <2>1, <2>2, <2>3, RefsOf
<1>10. \A o \in Objs \ {user, clone} : Refs(o)' \subseteq Refs(o)
  <2>1. \A i \in Ids : store'[i] = store[i] \/ store'[i] = clone
    BY <1>6 DEF Objects, TypeOK
  <2>2. QED
    BY <2>1, <1>5, RefsOf, UserAssumption
<1>11. LiveRow' /\ OneOwner'
  BY <1>1, <1>2, <1>3, <1>9, <1>10 DEF Objects, LiveRow, OneOwner
<1>12. QED
  BY <1>2, <1>3, <1>5, <1>7, <1>9, <1>10, <1>11 DEF Objects

\* Dropping a cache entry only drops a reference.
LEMMA UncacheObjects ==
  ASSUME Objects, NEW id \in Ids, Evict(id) \/ InvalidateUserCache(id)
  PROVE  Objects' /\ OnlyDropsRefs
<1>1. store' \in [Ids -> Objs \cup {Miss}] /\ \A i \in Ids : store'[i] \in {store[i], Miss}
  BY DEF Evict, InvalidateUserCache, Objects, TypeOK
<1>2. /\ heap' \in [Objs -> Rows \cup {Blank}]
      /\ \A o \in Objs : Refs(o)' # {} => heap'[o] = heap[o]
  BY CollectKeeps DEF Evict, InvalidateUserCache, Objects, TypeOK
<1>3. calls' = calls
  BY DEF Evict, InvalidateUserCache
<1>4. \A o \in Objs : Refs(o)' \subseteq Refs(o)
  BY <1>1, <1>3, RefsOf, UserAssumption
<1>5. TypeOK'
  BY <1>1, <1>2, <1>3
  DEF Evict, InvalidateUserCache, Objects, TypeOK, database, events
<1>6. QED
  BY <1>2, <1>3, <1>4, <1>5, ObjectsKept DEF OnlyDropsRefs, Objects, CallsShaped

\* update()'s assignment changes one live object, by a row, and moves no
\* reference.
LEMMA AssignObjects ==
  ASSUME Objects, NEW c \in Calls, Assign(c)
  PROVE  /\ Objects'
         /\ calls'[c].pc = "save" /\ calls'[c].obj = calls[c].obj
         /\ \A d \in Calls \ {c} : calls'[d] = calls[d]
         /\ \A o \in Objs : Refs(o)' \subseteq Refs(o)
         /\ \A o \in Objs \ {calls[c].obj} : heap'[o] = heap[o]
<1> DEFINE k == [calls[c] EXCEPT !.pc = "save"]
<1>1. /\ calls[c] \in CallRecords /\ CallShape(calls[c]) /\ calls[c].pc = "found"
      /\ calls[c].obj \in Objs
  BY DEF Objects, TypeOK, CallsShaped, Assign, CallShape
<1>2. /\ k \in CallRecords /\ CallShape(k)
      /\ k.pc = "save" /\ k.obj = calls[c].obj /\ k.id = calls[c].id
  BY <1>1 DEF CallRecords, CallShape
<1> HIDE DEF k
<1>3. calls' = [calls EXCEPT ![c] = k]
  BY <1>1 DEF Assign, k, Objects, TypeOK
<1>4. /\ calls' \in [Calls -> CallRecords] /\ CallsShaped'
      /\ calls'[c] = k
      /\ \A d \in Calls \ {c} : calls'[d] = calls[d]
  BY <1>2, <1>3, OneCall DEF Objects
<1>5. calls[c].id \in Refs(calls[c].obj)
  BY <1>1, RefsOf
<1>6. Assigned(heap[calls[c].obj], calls[c].dto) \in Rows
  BY <1>1, <1>5, AssignedRow DEF Objects, LiveRow, CallRecords
<1>7. /\ heap' \in [Objs -> Rows \cup {Blank}]
      /\ heap'[calls[c].obj] \in Rows
      /\ \A o \in Objs \ {calls[c].obj} : heap'[o] = heap[o]
  BY <1>1, <1>6 DEF Assign, Objects, TypeOK
<1>8. TypeOK'
  BY <1>4, <1>7 DEF Assign, Objects, TypeOK, database, events
<1>9. \A o \in Objs : Refs(o)' \subseteq Refs(o)
  BY <1>2, <1>4, <1>5, OneCallRefs DEF Assign
<1>10. QED
  BY <1>2, <1>4, <1>7, <1>8, <1>9 DEF Objects, LiveRow, OneOwner

(* A step of one call that takes no object it did not hold. *)
LEMMA CallDrops ==
  ASSUME Objects, NEW c \in Calls, NEW k \in CallRecords, CallShape(k),
         \/ k.obj = NoObj
         \/ k.obj = calls[c].obj /\ k.id = calls[c].id,
         calls' = [calls EXCEPT ![c] = k], store' = store,
         heap' = heap \/ heap' = Collect(heap, store', calls')
  PROVE  /\ calls' \in [Calls -> CallRecords] /\ CallsShaped'
         /\ heap' \in [Objs -> Rows \cup {Blank}]
         /\ LiveRow' /\ OneOwner' /\ OnlyDropsRefs
<1>1. /\ calls' \in [Calls -> CallRecords] /\ CallsShaped'
      /\ calls'[c] = k
      /\ \A d \in Calls \ {c} : calls'[d] = calls[d]
  BY OneCall DEF Objects
<1>2. /\ heap' \in [Objs -> Rows \cup {Blank}]
      /\ \A o \in Objs : Refs(o)' # {} => heap'[o] = heap[o]
  BY CollectKeeps DEF Objects, TypeOK
<1>3. \A o \in Objs : calls'[c].obj = o => calls'[c].id \in Refs(o)
  BY <1>1, RefsOf, UserAssumption
<1>4. \A o \in Objs : Refs(o)' \subseteq Refs(o)
  BY <1>1, <1>3, OneCallRefs
<1>5. QED
  BY <1>1, <1>2, <1>4, ObjectsKept DEF OnlyDropsRefs, Objects

(* Setting some columns of a row gives a row. *)
LEMMA MergedRow ==
  ASSUME NEW now \in Rows, NEW row \in Rows, NEW new \in Rows
  PROVE  /\ Merged(now, row, new) \in Rows
         /\ \A f \in Fields : /\ new[f] = row[f] => Merged(now, row, new)[f] = now[f]
                              /\ new[f] # row[f] => Merged(now, row, new)[f] = new[f]
  BY DEF Merged, Rows, Fields

(* The row a save leaves behind. *)
LEMMA WrittenRow ==
  ASSUME Objects, NEW c \in Calls, Write(c)
  PROVE  LET k == calls[c]
             row == table'[k.id]
         IN  /\ k \in CallRecords /\ k.id \in Ids /\ k.obj \in Objs /\ k.new \in Rows
             /\ k.pc = "write" /\ CallShape(k)
             /\ table' = [table EXCEPT ![k.id] = row]
             /\ committed' = [committed EXCEPT ![k.id] = @ \cup ({row} \ {NoRow})]
             /\ row \in Rows \cup {NoRow}
             /\ (row = NoRow) <=> (k.row # NoRow /\ table[k.id] = NoRow)
             /\ row # NoRow => \A f \in Fields : \/ row[f] = k.new[f]
                                                 \/ k.row \in Rows /\ k.row[f] = k.new[f]
<1> DEFINE k == calls[c]
<1>1. /\ k \in CallRecords /\ k.id \in Ids /\ k.obj \in Objs /\ k.new \in Rows
      /\ k.pc = "write" /\ CallShape(k) /\ k.row \in Rows \cup {NoRow}
      /\ table[k.id] \in Rows \cup {NoRow}
  BY DEF Write, Objects, TypeOK, CallsShaped, CallShape, CallRecords
<1> DEFINE row == IF k.row = NoRow THEN k.new
                  ELSE IF table[k.id] = NoRow THEN NoRow
                  ELSE Merged(table[k.id], k.row, k.new)
<1>2. /\ table' = [table EXCEPT ![k.id] = row]
      /\ committed' = [committed EXCEPT ![k.id] = @ \cup ({row} \ {NoRow})]
  BY DEF Write
<1>3. table'[k.id] = row
  BY <1>1, <1>2 DEF Objects, TypeOK
<1>4. NoRow \notin Rows
  BY UserAssumption
<1>5. CASE k.row = NoRow
  <2>1. row = k.new
    BY <1>5
  <2> HIDE DEF row
  <2>2. QED
    BY <1>1, <1>2, <1>3, <1>4, <1>5, <2>1
<1>6. CASE k.row # NoRow /\ table[k.id] = NoRow
  BY <1>1, <1>2, <1>3, <1>4, <1>6
<1>7. CASE k.row # NoRow /\ table[k.id] # NoRow
  <2>1. row = Merged(table[k.id], k.row, k.new)
    BY <1>7
  <2>2. /\ row \in Rows
        /\ \A f \in Fields : row[f] = k.new[f] \/ k.row[f] = k.new[f]
    BY <1>1, <1>7, <2>1, MergedRow
  <2> HIDE DEF row
  <2>3. QED
    BY <1>1, <1>2, <1>3, <1>4, <1>7, <2>2
<1>8. QED
  BY <1>5, <1>6, <1>7

\* A save that goes on or ends only drops references.
LEMMA SaveObjects ==
  ASSUME Objects, NEW c \in Calls,
         HashFails(c) \/ SelectRow(c) \/ Compare(c) \/ Write(c) \/ SaveFails(c)
  PROVE  Objects' /\ OnlyDropsRefs
<1>1. /\ calls[c] \in CallRecords /\ CallShape(calls[c])
      /\ calls[c].pc \in {"found", "save", "compare", "write"}
      /\ calls[c].obj \in Objs /\ calls[c].id \in Ids
  BY DEF Objects, TypeOK, CallsShaped, HashFails, SelectRow, Compare, Write, SaveFails,
         CallShape
<1>2. heap[calls[c].obj] \in Rows /\ table[calls[c].id] \in Rows \cup {NoRow}
  BY <1>1, RefsOf DEF Objects, LiveRow, TypeOK
<1> DEFINE Goes(k) ==
      /\ CallShape(k)
      /\ \/ k.obj = NoObj
         \/ k.obj = calls[c].obj /\ k.id = calls[c].id
      /\ calls' = [calls EXCEPT ![c] = k]
<1>3. \E k \in CallRecords : Goes(k)
  <2>1. ASSUME NEW out \in Outcomes, calls' = [calls EXCEPT ![c] = Returned(calls[c], out)]
        PROVE  \E k \in CallRecords : Goes(k)
    BY <1>1, <2>1, ReturnedShape
  <2>2. CASE SelectRow(c)
    <3> DEFINE k == [calls[c] EXCEPT !.pc = "compare", !.row = table[calls[c].id]]
    <3>1. calls' = [calls EXCEPT ![c] = k]
      BY <2>2 DEF SelectRow, Objects, TypeOK
    <3>2. k \in CallRecords /\ CallShape(k) /\ k.obj = calls[c].obj /\ k.id = calls[c].id
      BY <1>1, <1>2 DEF CallRecords, CallShape
    <3> HIDE DEF k
    <3>3. QED
      BY <3>1, <3>2
  <2>3. CASE Compare(c) /\ heap[calls[c].obj] # calls[c].row
    <3> DEFINE k == [calls[c] EXCEPT !.pc = "write", !.new = heap[calls[c].obj]]
    <3>1. calls' = [calls EXCEPT ![c] = k]
      BY <2>3 DEF Compare, Objects, TypeOK
    <3>2. k \in CallRecords /\ CallShape(k) /\ k.obj = calls[c].obj /\ k.id = calls[c].id
      BY <1>1, <1>2, <2>3 DEF CallRecords, CallShape, Compare
    <3> HIDE DEF k
    <3>3. QED
      BY <3>1, <3>2
  <2>4. CASE Compare(c) /\ heap[calls[c].obj] = calls[c].row
    BY <2>1, <2>4 DEF Compare, Outcomes
  <2>5. CASE HashFails(c) \/ Write(c) \/ SaveFails(c)
    BY <2>1, <2>5 DEF HashFails, Write, SaveFails, Outcomes
  <2>6. QED
    BY <2>2, <2>3, <2>4, <2>5
<1>4. store' = store /\ (heap' = heap \/ heap' = Collect(heap, store', calls'))
  BY DEF HashFails, SelectRow, Compare, Write, SaveFails, cache
<1>5. /\ calls' \in [Calls -> CallRecords] /\ CallsShaped'
      /\ heap' \in [Objs -> Rows \cup {Blank}]
      /\ LiveRow' /\ OneOwner' /\ OnlyDropsRefs
  BY <1>3, <1>4, CallDrops
<1>6. TypeOK'
  <2>1. CASE Write(c)
    <3>1. table' \in [Ids -> Rows \cup {NoRow}] /\ committed' \in [Ids -> SUBSET Rows]
      BY <2>1, WrittenRow DEF Objects, TypeOK
    <3>2. QED
      BY <1>5, <2>1, <3>1 DEF Write, Objects, TypeOK, events
  <2>2. CASE SaveFails(c)
    BY <1>1, <1>5, <2>2 DEF SaveFails, Objects, TypeOK, events
  <2>3. CASE HashFails(c) \/ SelectRow(c) \/ Compare(c)
    BY <1>5, <2>3
    DEF HashFails, SelectRow, Compare, Objects, TypeOK, database, cache, events
  <2>4. QED
    BY <2>1, <2>2, <2>3
<1>7. QED
  BY <1>5, <1>6 DEF Objects

\* delete()'s steps change no object.
LEMMA DeleteObjects ==
  ASSUME Objects, NEW c \in Calls, CheckRow(c) \/ DeleteRow(c) \/ DeleteFails(c)
  PROVE  Objects' /\ OnlyDropsRefs
<1>1. /\ calls[c] \in CallRecords /\ CallShape(calls[c])
      /\ calls[c].pc \in {"check", "drop"} /\ calls[c].id \in Ids
  BY DEF Objects, TypeOK, CallsShaped, CheckRow, DeleteRow, DeleteFails, CallShape
<1>2. PICK k \in CallRecords : /\ CallShape(k) /\ k.obj = NoObj
                               /\ calls' = [calls EXCEPT ![c] = k]
  <2>1. CASE calls' = [calls EXCEPT ![c] = Returned(@, "ok")]
    BY <1>1, <2>1, ReturnedShape DEF Outcomes
  <2>2. CASE calls' = [calls EXCEPT ![c] = Returned(@, "500")]
    BY <1>1, <2>2, ReturnedShape DEF Outcomes
  <2>3. CASE calls' = [calls EXCEPT ![c] = [@ EXCEPT !.pc = "drop"]]
    <3>1. /\ [calls[c] EXCEPT !.pc = "drop"] \in CallRecords
          /\ CallShape([calls[c] EXCEPT !.pc = "drop"])
          /\ [calls[c] EXCEPT !.pc = "drop"].obj = NoObj
      BY <1>1 DEF CallRecords, CallShape
    <3>2. QED
      BY <2>3, <3>1
  <2>4. QED
    BY <2>1, <2>2, <2>3 DEF CheckRow, DeleteRow, DeleteFails
<1>3. /\ calls' \in [Calls -> CallRecords] /\ CallsShaped'
      /\ heap' \in [Objs -> Rows \cup {Blank}]
      /\ LiveRow' /\ OneOwner' /\ OnlyDropsRefs
  BY <1>2, CallDrops DEF CheckRow, DeleteRow, DeleteFails, cache
<1>4. TypeOK'
  <2>1. CASE CheckRow(c) \/ DeleteFails(c)
    BY <1>3, <2>1 DEF CheckRow, DeleteFails, Objects, TypeOK, database, cache, events
  <2>2. CASE DeleteRow(c)
    <3>1. lookup' \in [Ids -> LookupRecords]
      BY <2>2 DEF DeleteRow, Objects, TypeOK, LookupRecords
    <3>2. table' \in [Ids -> Rows \cup {NoRow}]
      BY <2>2 DEF DeleteRow, Objects, TypeOK
    <3>3. QED
      BY <1>3, <2>2, <3>1, <3>2 DEF DeleteRow, Objects, TypeOK, events
  <2>3. QED
    BY <2>1, <2>2
<1>5. QED
  BY <1>3, <1>4 DEF Objects

\* create()'s steps change no object.
LEMMA CreateObjects ==
  ASSUME Objects, NEW c \in Calls,
         \/ \E dto \in CreateDtos : BeginCreate(c, dto)
         \/ \E id \in Ids : Insert(c, id)
         \/ InsertFails(c) \/ Emit(c)
  PROVE  Objects' /\ OnlyDropsRefs
<1>1. calls[c] \in CallRecords /\ CallShape(calls[c])
  BY DEF Objects, TypeOK, CallsShaped
<1>2. ASSUME NEW dto \in CreateDtos, BeginCreate(c, dto)
      PROVE  Objects' /\ OnlyDropsRefs
  <2> DEFINE k == [NoCall EXCEPT !.op = "create", !.pc = "insert", !.dto = dto]
  <2>1. k \in CallRecords /\ CallShape(k) /\ k.obj = NoObj
    BY CreatedRow DEF NoCall, CallRecords, CallShape, Outcomes
  <2> HIDE DEF k
  <2>2. /\ calls' \in [Calls -> CallRecords] /\ CallsShaped'
        /\ heap' \in [Objs -> Rows \cup {Blank}]
        /\ LiveRow' /\ OneOwner' /\ OnlyDropsRefs
    BY <1>2, <2>1, CallDrops DEF BeginCreate, k, cache
  <2>3. QED
    BY <1>2, <2>2 DEF BeginCreate, Objects, TypeOK, database, cache, events
<1>3. ASSUME NEW id \in Ids, Insert(c, id)
      PROVE  Objects' /\ OnlyDropsRefs
  <2> DEFINE k == [calls[c] EXCEPT !.pc = "emit", !.id = id, !.dto = NoDto]
  <2>1. k \in CallRecords /\ CallShape(k) /\ k.obj = NoObj
    BY <1>1, <1>3 DEF Insert, NoDto, CallRecords, CallShape, Dtos
  <2>2. calls' = [calls EXCEPT ![c] = k]
    BY <1>3 DEF Insert, Objects, TypeOK
  <2> HIDE DEF k
  <2>3. /\ calls' \in [Calls -> CallRecords] /\ CallsShaped'
        /\ heap' \in [Objs -> Rows \cup {Blank}]
        /\ LiveRow' /\ OneOwner' /\ OnlyDropsRefs
    BY <1>3, <2>1, <2>2, CallDrops DEF Insert, cache
  <2>4. Assigned(calls[c].dto, calls[c].dto) \in Rows
    BY <1>1, <1>3, CreatedRow DEF Insert, CallShape
  <2>5. QED
    BY <1>3, <2>3, <2>4 DEF Insert, Objects, TypeOK, cache, events
<1>4. CASE InsertFails(c) \/ Emit(c)
  <2>1. PICK out \in {"ok", "500"} : calls' = [calls EXCEPT ![c] = Returned(calls[c], out)]
    BY <1>4 DEF InsertFails, Emit
  <2>2. /\ calls' \in [Calls -> CallRecords] /\ CallsShaped'
        /\ heap' \in [Objs -> Rows \cup {Blank}]
        /\ LiveRow' /\ OneOwner' /\ OnlyDropsRefs
    BY <1>1, <1>4, <2>1, ReturnedShape, CallDrops DEF InsertFails, Emit, cache, Outcomes
  <2>3. CASE InsertFails(c)
    BY <2>2, <2>3 DEF InsertFails, Objects, TypeOK, database, cache, events
  <2>4. CASE Emit(c)
    <3>1. calls[c].id \in Ids
      BY <1>1, <2>4 DEF Emit, CallShape
    <3>2. QED
      BY <2>2, <2>4, <3>1 DEF Emit, Objects, TypeOK, database, cache
  <2>5. QED
    BY <1>4, <2>3, <2>4
<1>5. QED
  BY <1>2, <1>3, <1>4

\* Publishing, a crash and stuttering leave the objects in order.
LEMMA OtherObjects ==
  ASSUME Objects,
         \/ \E id \in Ids : Publish(id) \/ PublishFails(id)
         \/ Crash
         \/ UNCHANGED vars
  PROVE  Objects' /\ OnlyDropsRefs
<1>1. CASE \E id \in Ids : Publish(id)
  <2>1. /\ UNCHANGED <<table, heap, store, lookup, calls, committed, unsaved,
                        created, crashes>>
        /\ inFlight' \subseteq Ids /\ queue' \subseteq Ids
    BY <1>1 DEF Publish, Objects, TypeOK, database, cache
  <2>2. TypeOK' /\ CallsShaped'
    BY <2>1 DEF Objects, TypeOK, CallsShaped
  <2>3. \A o \in Objs : Refs(o)' = Refs(o)
    BY <2>1 DEF Refs
  <2>4. QED
    BY <2>1, <2>2, <2>3, ObjectsKept DEF OnlyDropsRefs, Objects
<1>2. CASE Restart
  <2>1. NoLookup \in LookupRecords /\ NoCall \in CallRecords /\ CallShape(NoCall)
    BY DEF NoLookup, LookupRecords, NoCall, CallRecords, CallShape, Outcomes, NoDto, Dtos
  <2>2. TypeOK'
    BY <1>2, <2>1, UserAssumption DEF Restart, Objects, TypeOK, database
  <2>3. \A o \in Objs : Refs(o)' = {}
    BY <1>2, UserAssumption DEF Restart, Refs, NoCall
  <2>4. QED
    BY <1>2, <2>1, <2>2, <2>3
    DEF Restart, Objects, CallsShaped, LiveRow, OneOwner, OnlyDropsRefs
<1>3. CASE UNCHANGED vars
  <2>1. TypeOK' /\ CallsShaped'
    BY <1>3 DEF vars, Objects, TypeOK, CallsShaped
  <2>2. \A o \in Objs : Refs(o)' = Refs(o)
    BY <1>3 DEF vars, Refs
  <2>3. QED
    BY <1>3, <2>1, <2>2, ObjectsKept DEF OnlyDropsRefs, vars, Objects
<1>4. QED
  BY <1>1, <1>2, <1>3 DEF PublishFails, Crash
-----------------------------------------------------------------------------
(* The requests, in terms of the operation they carry. *)
LEMMA RequestCases ==
  ASSUME NEW c \in Calls, Request(c)
  PROVE  \/ \E op \in {"find", "update", "delete"}, id \in Ids, dto \in Dtos :
              FindHit(c, op, id, dto) \/ FindMiss(c, op, id, dto)
         \/ \E dto \in CreateDtos : BeginCreate(c, dto)
<1>1. NoDto \in Dtos
  BY DEF NoDto, Dtos
<1>2. UpdateDtos \subseteq Dtos
  BY UserAssumption
<1>3. QED
  BY <1>1, <1>2 DEF Request

(* Memory stays well formed: every object in use holds a row, is reached   *)
(* under one id only, and every call has the fields its point needs.       *)
LEMMA NextObjects == Objects /\ [Next]_vars => Objects'
<1> SUFFICES ASSUME Objects, [Next]_vars
             PROVE  Objects'
  OBVIOUS
<1>1. ASSUME NEW c \in Calls, Request(c)
      PROVE  Objects'
  BY <1>1, RequestCases, FindHitObjects, FindMissObjects, CreateObjects
<1>2. ASSUME NEW c \in Calls, Continue(c)
      PROVE  Objects'
  BY <1>2, AssignObjects, SaveObjects, DeleteObjects, CreateObjects DEF Continue
<1>3. ASSUME NEW id \in Ids, Fill(id)
      PROVE  Objects'
  BY <1>3, FillEndsObjects, UserFoundObjects DEF Fill
<1>4. ASSUME NEW id \in Ids, Evict(id) \/ InvalidateUserCache(id)
      PROVE  Objects'
  BY <1>4, UncacheObjects
<1>5. QED
  BY <1>1, <1>2, <1>3, <1>4, OtherObjects DEF Next

(* The table, and what a fill read from it, are rows the id had. *)
LEMMA NextRows == Objects /\ RowsAreCommitted /\ [Next]_vars => RowsAreCommitted'
<1> SUFFICES ASSUME Objects, RowsAreCommitted, [Next]_vars
             PROVE  RowsAreCommitted'
  OBVIOUS
<1> USE DEF Objects, TypeOK, RowsAreCommitted
<1>1. ASSUME NEW c \in Calls, Request(c)
      PROVE  RowsAreCommitted'
  <2>1. UNCHANGED <<table, committed>>
    BY <1>1, RequestCases DEF FindHit, FindMiss, BeginCreate, database
  <2>2. \A i \in Ids : lookup'[i].row \in {lookup[i].row, NoRow}
    <3>1. ASSUME NEW op, NEW id \in Ids, NEW dto, FindMiss(c, op, id, dto)
          PROVE  \A i \in Ids : lookup'[i].row \in {lookup[i].row, NoRow}
      <4>1. CASE lookup' = lookup
        BY <4>1
      <4>2. CASE lookup' # lookup
        BY <3>1, <4>2 DEF FindMiss
      <4>3. QED
        BY <4>1, <4>2
    <3>2. CASE lookup' = lookup
      BY <3>2
    <3>3. QED
      BY <1>1, <3>1, <3>2, RequestCases DEF FindHit, BeginCreate, cache
  <2>3. QED
    BY <2>1, <2>2
<1>2. ASSUME NEW c \in Calls, Write(c)
      PROVE  RowsAreCommitted'
  BY <1>2, WrittenRow DEF Write
<1>3. ASSUME NEW c \in Calls, NEW id \in Ids, Insert(c, id)
      PROVE  RowsAreCommitted'
  <2>1. lookup' = lookup /\ committed[id] = {}
    BY <1>3 DEF Insert, cache
  <2>2. QED
    BY <1>3, <2>1 DEF Insert
<1>4. ASSUME NEW c \in Calls, DeleteRow(c)
      PROVE  RowsAreCommitted'
  <2>1. \A i \in Ids : lookup'[i].row = lookup[i].row /\ table'[i] \in {table[i], NoRow}
    BY <1>4 DEF DeleteRow, LookupRecords
  <2>2. QED
    BY <1>4, <2>1 DEF DeleteRow
<1>5. ASSUME NEW c \in Calls,
             \/ Assign(c) \/ HashFails(c) \/ SelectRow(c) \/ Compare(c) \/ SaveFails(c)
             \/ CheckRow(c) \/ DeleteFails(c)
             \/ InsertFails(c) \/ Emit(c)
      PROVE  RowsAreCommitted'
  <2>1. UNCHANGED <<table, committed, lookup>>
    BY <1>5 DEF Assign, HashFails, SelectRow, Compare, SaveFails, CheckRow, DeleteFails,
                InsertFails, Emit, database, cache
  <2>2. QED
    BY <2>1
<1>6. ASSUME NEW id \in Ids, DbRead(id)
      PROVE  RowsAreCommitted'
  <2>1. \A i \in Ids : lookup'[i].row \in {lookup[i].row, table[i]}
    BY <1>6 DEF DbRead, LookupRecords
  <2>2. QED
    BY <1>6, <2>1 DEF DbRead, database
<1>7. ASSUME NEW id \in Ids,
             \/ DbReadFails(id) \/ UserMissing(id)
             \/ \E user, clone \in Objs : UserFound(id, user, clone)
      PROVE  RowsAreCommitted'
  <2>1. lookup' = [lookup EXCEPT ![id] = NoLookup] /\ UNCHANGED <<table, committed>>
    BY <1>7 DEF DbReadFails, UserMissing, UserFound, database
  <2>2. QED
    BY <2>1 DEF NoLookup
<1>8. CASE Restart
  BY <1>8 DEF Restart, NoLookup, database
<1>9. ASSUME NEW id \in Ids, Evict(id) \/ InvalidateUserCache(id) \/ Publish(id)
      PROVE  RowsAreCommitted'
  <2>1. UNCHANGED <<table, committed, lookup>>
    BY <1>9 DEF Evict, InvalidateUserCache, Publish, database, cache
  <2>2. QED
    BY <2>1
<1>10. CASE UNCHANGED vars
  BY <1>10 DEF vars
<1>11. QED
  BY <1>1, <1>2, <1>3, <1>4, <1>5, <1>6, <1>7, <1>8, <1>9, <1>10
  DEF Next, Continue, Fill, PublishFails, Crash

-----------------------------------------------------------------------------
SavingPcs == {"save", "compare", "write"}

Grows == /\ \A i \in Ids : committed[i] \subseteq committed'[i]
         /\ unsaved \subseteq unsaved'

(* Nothing but a save shortens what a call is saving, and histories grow.  *)
LEMMA HistoriesGrow ==
  ASSUME Objects, [Next]_vars
  PROVE  Grows
<1> USE DEF Grows, Objects, TypeOK
<1>1. ASSUME UNCHANGED <<committed, unsaved>>
      PROVE  Grows
  BY <1>1
<1>2. ASSUME NEW c \in Calls, Request(c)
      PROVE  Grows
  BY <1>1, <1>2, RequestCases DEF FindHit, FindMiss, BeginCreate, database
<1>3. ASSUME NEW c \in Calls, Continue(c)
      PROVE  Grows
  <2>1. CASE Write(c)
    BY <2>1, WrittenRow DEF Write
  <2>2. CASE \E id \in Ids : Insert(c, id)
    BY <2>2 DEF Insert
  <2>3. CASE SaveFails(c) \/ DeleteRow(c)
    BY <2>3 DEF SaveFails, DeleteRow
  <2>4. QED
    BY <1>1, <1>3, <2>1, <2>2, <2>3
    DEF Continue, Assign, HashFails, SelectRow, Compare, CheckRow, DeleteFails,
        InsertFails, Emit, database
<1>4. ASSUME NEW id \in Ids,
             \/ Fill(id) \/ Evict(id) \/ InvalidateUserCache(id) \/ Publish(id)
      PROVE  Grows
  BY <1>1, <1>4 DEF Fill, DbRead, DbReadFails, UserMissing, UserFound, Evict,
                    InvalidateUserCache, Publish, database
<1>5. CASE Restart \/ UNCHANGED vars
  BY <1>1, <1>5 DEF Restart, database, vars
<1>6. QED
  BY <1>2, <1>3, <1>4, <1>5 DEF Next, PublishFails, Crash

(* A step that takes no row away and moves no save on keeps SavesTracked.  *)
LEMMA TrackedKept ==
  ASSUME Objects, SavesTracked, Grows,
         \A d \in Calls : calls'[d] = calls[d] \/ calls'[d].pc \notin {"compare", "write"},
         \A i \in Ids : table'[i] = NoRow => table[i] = NoRow
  PROVE  SavesTracked'
<1> SUFFICES ASSUME NEW d \in Calls, calls'[d].pc \in {"compare", "write"}
             PROVE  /\ calls'[d].row \in committed'[calls'[d].id] \cup {NoRow}
                    /\ calls'[d].row # NoRow /\ table'[calls'[d].id] = NoRow
                         => calls'[d].id \in unsaved'
  BY DEF SavesTracked
<1>1. calls'[d] = calls[d] /\ calls[d].id \in Ids
  BY DEF Objects, CallsShaped, CallShape
<1>2. QED
  BY <1>1 DEF SavesTracked, Grows

(* A deletion marks the saves that read the row before it. *)
LEMMA NextTracked ==
  Objects /\ RowsAreCommitted /\ SavesTracked /\ [Next]_vars => SavesTracked'
<1> SUFFICES ASSUME Objects, RowsAreCommitted, SavesTracked, [Next]_vars
             PROVE  SavesTracked'
  OBVIOUS
<1>0. Grows
  BY HistoriesGrow
<1> DEFINE Same == \A d \in Calls : \/ calls'[d] = calls[d]
                                   \/ calls'[d].pc \notin {"compare", "write"}
<1>1. ASSUME UNCHANGED table, Same
      PROVE  SavesTracked'
  BY <1>0, <1>1, TrackedKept
<1>2. ASSUME NEW c \in Calls, Request(c)
      PROVE  SavesTracked'
  <2>1. UNCHANGED table
    BY <1>2, RequestCases DEF FindHit, FindMiss, BeginCreate, database
  <2>2. Same
    <3>1. ASSUME NEW op \in {"find", "update", "delete"}, NEW id \in Ids, NEW dto \in Dtos,
                 FindHit(c, op, id, dto)
          PROVE  Same
      <4>1. WithUser(Begun(op, id, dto), store[id]).pc \notin {"compare", "write"}
        <5>1. store[id] \in Objs
          BY <3>1 DEF FindHit, Objects, TypeOK
        <5>2. QED
          BY <5>1, BegunShape, WithUserShape
      <4>2. QED
        BY <3>1, <4>1 DEF FindHit, Objects, TypeOK
    <3>2. ASSUME NEW op \in {"find", "update", "delete"}, NEW id \in Ids, NEW dto \in Dtos,
                 FindMiss(c, op, id, dto)
          PROVE  Same
      BY <3>2, BegunShape DEF FindMiss, Objects, TypeOK
    <3>3. ASSUME NEW dto \in CreateDtos, BeginCreate(c, dto)
          PROVE  Same
      BY <3>3 DEF BeginCreate, Objects, TypeOK, NoCall
    <3>4. QED
      BY <1>2, <3>1, <3>2, <3>3, RequestCases
  <2>3. QED
    BY <1>1, <2>1, <2>2
<1>3. ASSUME NEW c \in Calls, SelectRow(c)
      PROVE  SavesTracked'
  <2>1. calls[c].id \in Ids /\ calls[c] \in CallRecords
    BY <1>3 DEF SelectRow, Objects, TypeOK, CallsShaped, CallShape
  <2>2. /\ calls'[c].id = calls[c].id /\ calls'[c].row = table[calls[c].id]
        /\ \A d \in Calls \ {c} : calls'[d] = calls[d]
        /\ UNCHANGED <<table, committed, unsaved>>
    BY <1>3, <2>1 DEF SelectRow, Objects, TypeOK, CallRecords, database
  <2>3. table[calls[c].id] \in committed[calls[c].id] \cup {NoRow}
    BY <2>1 DEF RowsAreCommitted
  <2>4. QED
    BY <2>2, <2>3 DEF SavesTracked
<1>4. ASSUME NEW c \in Calls, Compare(c)
      PROVE  SavesTracked'
  <2>1. CASE heap[calls[c].obj] = calls[c].row
    BY <1>1, <1>4, <2>1 DEF Compare, Objects, TypeOK, Returned, database
  <2>2. CASE heap[calls[c].obj] # calls[c].row
    <3>1. /\ calls'[c].id = calls[c].id /\ calls'[c].row = calls[c].row
          /\ calls[c].pc = "compare"
          /\ \A d \in Calls \ {c} : calls'[d] = calls[d]
          /\ UNCHANGED <<table, committed, unsaved>>
      BY <1>4, <2>2 DEF Compare, Objects, TypeOK, CallRecords, database
    <3>2. QED
      BY <3>1 DEF SavesTracked
  <2>3. QED
    BY <2>1, <2>2
<1>5. ASSUME NEW c \in Calls, Write(c)
      PROVE  SavesTracked'
  <2>1. \A i \in Ids : table'[i] = NoRow => table[i] = NoRow
    BY <1>5, WrittenRow DEF Objects, TypeOK
  <2>2. Same
    BY <1>5 DEF Write, Objects, TypeOK, Returned
  <2>3. QED
    BY <1>0, <2>1, <2>2, TrackedKept
<1>6. ASSUME NEW c \in Calls, NEW id \in Ids, Insert(c, id)
      PROVE  SavesTracked'
  <2>1. Assigned(calls[c].dto, calls[c].dto) \in Rows
    BY <1>6, CreatedRow DEF Insert, Objects, CallsShaped, CallShape
  <2>2. \A i \in Ids : table'[i] = NoRow => table[i] = NoRow
    BY <1>6, <2>1, UserAssumption DEF Insert, Objects, TypeOK
  <2>3. Same
    BY <1>6 DEF Insert, Objects, TypeOK, CallRecords
  <2>4. QED
    BY <1>0, <2>2, <2>3, TrackedKept
<1>7. ASSUME NEW c \in Calls, DeleteRow(c)
      PROVE  SavesTracked'
  <2> SUFFICES ASSUME NEW d \in Calls, calls'[d].pc \in {"compare", "write"}
               PROVE  /\ calls'[d].row \in committed'[calls'[d].id] \cup {NoRow}
                      /\ calls'[d].row # NoRow /\ table'[calls'[d].id] = NoRow
                           => calls'[d].id \in unsaved'
    BY DEF SavesTracked
  <2>1. calls'[d] = calls[d]
    BY <1>7 DEF DeleteRow, Objects, TypeOK, Returned
  <2>2. committed' = committed /\ calls[d].row \in committed[calls[d].id] \cup {NoRow}
    BY <1>7, <2>1 DEF DeleteRow, SavesTracked
  <2>3. calls[d].id \in Ids
    BY <2>1 DEF Objects, CallsShaped, CallShape
  <2>4. ASSUME calls[d].row # NoRow, table'[calls[d].id] = NoRow
        PROVE  calls[d].id \in unsaved'
    <3>1. CASE calls[d].id = calls[c].id
      BY <1>7, <2>1, <2>4, <3>1 DEF DeleteRow, Updating
    <3>2. CASE calls[d].id # calls[c].id
      <4>1. table[calls[d].id] = NoRow
        BY <1>7, <2>3, <2>4, <3>2 DEF DeleteRow, Objects, TypeOK
      <4>2. QED
        BY <1>0, <2>1, <2>4, <4>1 DEF SavesTracked, Grows
    <3>3. QED
      BY <3>1, <3>2
  <2>5. QED
    BY <2>1, <2>2, <2>4
<1>8. ASSUME NEW c \in Calls,
             \/ Assign(c) \/ HashFails(c) \/ SaveFails(c) \/ CheckRow(c) \/ DeleteFails(c)
             \/ InsertFails(c) \/ Emit(c)
      PROVE  SavesTracked'
  <2>1. UNCHANGED table
    BY <1>8 DEF Assign, HashFails, SaveFails, CheckRow, DeleteFails, InsertFails, Emit,
                database
  <2>2. Same
    BY <1>8 DEF Assign, HashFails, SaveFails, CheckRow, DeleteFails, InsertFails, Emit,
                Objects, TypeOK, CallRecords, Returned
  <2>3. QED
    BY <1>1, <2>1, <2>2
<1>9. ASSUME NEW id \in Ids,
             \/ Fill(id) \/ Evict(id) \/ InvalidateUserCache(id) \/ Publish(id)
      PROVE  SavesTracked'
  <2>1. UNCHANGED table
    BY <1>9 DEF Fill, DbRead, DbReadFails, UserMissing, UserFound, Evict,
                InvalidateUserCache, Publish, database
  <2>2. \A c \in Waiting(id), o \in Objs : WithUser(calls[c], o).pc \notin {"compare", "write"}
    BY WithUserShape DEF Waiting, Objects, TypeOK, CallsShaped
  <2>3. Same
    <3>1. CASE DbReadFails(id) \/ UserMissing(id)
      BY <3>1, AllReturned DEF DbReadFails, UserMissing, Outcomes, Objects
    <3>2. ASSUME NEW user \in Objs, NEW clone \in Objs, UserFound(id, user, clone)
          PROVE  Same
      BY <2>2, <3>2 DEF UserFound
    <3>3. QED
      BY <1>9, <3>1, <3>2 DEF Fill, DbRead, Evict, InvalidateUserCache, Publish
  <2>4. QED
    BY <1>1, <2>1, <2>3
<1>10. CASE Restart
  BY <1>1, <1>10 DEF Restart, NoCall, database
<1>11. CASE UNCHANGED vars
  BY <1>1, <1>11 DEF vars
<1>12. QED
  BY <1>2, <1>3, <1>4, <1>5, <1>6, <1>7, <1>8, <1>9, <1>10, <1>11
  DEF Next, Continue, PublishFails, Crash
-----------------------------------------------------------------------------
HeldThen(i, f, v) == \E row \in committed'[i] : row[f] = v

(* A step that only drops references keeps AllOwed if each save of a field *)
(* either goes on or settles it.                                           *)
LEMMA OwedKept ==
  ASSUME AllOwed, OnlyDropsRefs, Grows, Objects, Objects',
         \A d \in Calls, o \in Objs, f \in Fields :
           WillSave(calls[d], o, f) /\ Refs(o)' # {} =>
             \/ WillSave(calls[d], o, f)'
             \/ \A i \in Refs(o)' : HeldThen(i, f, heap[o][f]) \/ i \in unsaved'
  PROVE  AllOwed'
<1> SUFFICES ASSUME NEW o \in Objs, NEW i \in Refs(o)', NEW f \in Fields
             PROVE  Owed(o, i, f)'
  BY DEF AllOwed
<1>1. i \in Refs(o) /\ heap'[o] = heap[o] /\ i \in Ids
  <2>1. i \in Ids
    BY RefsOf, UserAssumption DEF Objects, CallsShaped, CallShape
  <2>2. QED
    BY <2>1 DEF OnlyDropsRefs
<1>2. CASE Held(i, f, heap[o][f]) \/ i \in unsaved
  BY <1>1, <1>2 DEF Grows, Owed, Held
<1>3. ASSUME NEW d \in Calls, WillSave(calls[d], o, f)
      PROVE  Owed(o, i, f)'
  <2>1. \/ WillSave(calls[d], o, f)'
        \/ HeldThen(i, f, heap[o][f]) \/ i \in unsaved'
    BY <1>3
  <2>2. QED
    BY <1>1, <2>1 DEF Owed, Held, HeldThen
<1>4. QED
  BY <1>1, <1>2, <1>3 DEF AllOwed, Owed

(* What update() assigned stays accounted for until its save returns: the  *)
(* save compares the object as it is, and writes or finds each field.      *)
LEMMA NextOwed ==
  Objects /\ RowsAreCommitted /\ SavesTracked /\ AllOwed /\ [Next]_vars => AllOwed'
<1> SUFFICES ASSUME Objects, RowsAreCommitted, SavesTracked, AllOwed, [Next]_vars
             PROVE  AllOwed'
  OBVIOUS
<1>0. Objects' /\ Grows
  BY NextObjects, HistoriesGrow
<1> DEFINE AllGoOn == \A d \in Calls : calls[d].pc \in SavingPcs => calls'[d] = calls[d]
<1>1. ASSUME OnlyDropsRefs, AllGoOn
      PROVE  AllOwed'
  BY <1>0, <1>1, OwedKept DEF OnlyDropsRefs, WillSave, SavingPcs
<1>2. ASSUME NEW c \in Calls, calls[c].pc \notin SavingPcs,
             \A d \in Calls \ {c} : calls'[d] = calls[d]
      PROVE  AllGoOn
  BY <1>2
<1>3. ASSUME NEW c \in Calls, Request(c)
      PROVE  AllOwed'
  <2>1. OnlyDropsRefs
    BY <1>3, RequestCases, FindHitObjects, FindMissObjects, CreateObjects
  <2>2. calls[c].pc \notin SavingPcs
    BY <1>3, RequestCases DEF FindHit, FindMiss, BeginCreate, SavingPcs
  <2>3. \A d \in Calls \ {c} : calls'[d] = calls[d]
    BY <1>3, RequestCases DEF FindHit, FindMiss, BeginCreate, Objects, TypeOK
  <2>4. QED
    BY <1>1, <1>2, <2>1, <2>2, <2>3
<1>4. ASSUME NEW c \in Calls,
             \/ HashFails(c) \/ CheckRow(c) \/ DeleteRow(c) \/ DeleteFails(c)
             \/ (\E id \in Ids : Insert(c, id)) \/ InsertFails(c) \/ Emit(c)
      PROVE  AllOwed'
  <2>1. OnlyDropsRefs
    BY <1>4, SaveObjects, DeleteObjects, CreateObjects
  <2>2. /\ calls[c].pc \notin SavingPcs
        /\ \A d \in Calls \ {c} : calls'[d] = calls[d]
    BY <1>4 DEF HashFails, CheckRow, DeleteRow, DeleteFails, Insert, InsertFails, Emit,
                Objects, TypeOK, SavingPcs
  <2>3. QED
    BY <1>1, <1>2, <2>1, <2>2
<1>5. ASSUME NEW c \in Calls, Assign(c)
      PROVE  AllOwed'
  <2>1. /\ calls'[c].pc = "save" /\ calls'[c].obj = calls[c].obj
        /\ \A d \in Calls \ {c} : calls'[d] = calls[d]
        /\ \A o \in Objs : Refs(o)' \subseteq Refs(o)
        /\ \A o \in Objs \ {calls[c].obj} : heap'[o] = heap[o]
    BY <1>5, AssignObjects
  <2>2. UNCHANGED <<committed, unsaved>> /\ calls[c].pc = "found"
    BY <1>5 DEF Assign, database
  <2> SUFFICES ASSUME NEW o \in Objs, NEW i \in Refs(o)', NEW f \in Fields
               PROVE  Owed(o, i, f)'
    BY DEF AllOwed
  <2>3. CASE o = calls[c].obj
    BY <2>1, <2>3 DEF Owed, WillSave
  <2>4. CASE o # calls[c].obj
    <3>1. Owed(o, i, f) /\ heap'[o] = heap[o]
      BY <2>1, <2>4 DEF AllOwed
    <3>2. \A d \in Calls : WillSave(calls[d], o, f) => WillSave(calls[d], o, f)'
      BY <2>1, <2>4, <3>1 DEF WillSave
    <3>3. QED
      BY <2>2, <3>1, <3>2 DEF Owed, Held
  <2>5. QED
    BY <2>3, <2>4
<1>6. ASSUME NEW c \in Calls, SelectRow(c) \/ Compare(c) \/ Write(c) \/ SaveFails(c)
      PROVE  AllOwed'
  <2>1. OnlyDropsRefs
    BY <1>6, SaveObjects
  <2>2. \A d \in Calls \ {c} : calls'[d] = calls[d]
    BY <1>6 DEF SelectRow, Compare, Write, SaveFails, Objects, TypeOK
  <2>3. /\ calls[c].obj \in Objs /\ calls[c].id \in Ids /\ calls[c] \in CallRecords
        /\ calls[c].id \in Refs(calls[c].obj) /\ heap[calls[c].obj] \in Rows
    BY <1>6, RefsOf
    DEF SelectRow, Compare, Write, SaveFails, Objects, TypeOK, CallsShaped, CallShape,
        LiveRow
  <2>4. \A o \in Objs : calls[c].obj = o => \A i \in Refs(o)' : i = calls[c].id
    BY <2>1, <2>3 DEF OnlyDropsRefs, Objects, OneOwner
  <2> DEFINE Settled(o, f) ==
        \/ WillSave(calls[c], o, f)'
        \/ HeldThen(calls[c].id, f, heap[o][f]) \/ calls[c].id \in unsaved'
  <2>5. ASSUME NEW o \in Objs, NEW f \in Fields, WillSave(calls[c], o, f), Refs(o)' # {}
        PROVE  Settled(o, f)
    <3>1. calls[c].obj = o /\ heap'[o] = heap[o]
      BY <2>1, <2>5 DEF WillSave, OnlyDropsRefs
    <3>2. CASE SelectRow(c)
      <4>1. calls'[c].obj = o /\ calls'[c].pc = "compare"
        BY <2>3, <3>1, <3>2 DEF SelectRow, Objects, TypeOK, CallRecords
      <4>2. QED
        BY <4>1 DEF WillSave
    <3>3. CASE Compare(c) /\ heap[o] # calls[c].row
      <4>1. calls'[c].obj = o /\ calls'[c].pc = "write" /\ calls'[c].new = heap[o]
        BY <2>3, <3>1, <3>3 DEF Compare, Objects, TypeOK, CallRecords
      <4>2. QED
        BY <3>1, <4>1 DEF WillSave
    <3>4. CASE Compare(c) /\ heap[o] = calls[c].row
      <4>1. heap[o] \in committed[calls[c].id]
        BY <2>3, <3>1, <3>4, UserAssumption DEF Compare, SavesTracked
      <4>2. QED
        BY <1>0, <2>3, <4>1 DEF HeldThen, Grows
    <3>5. CASE SaveFails(c)
      BY <3>5 DEF SaveFails
    <3>6. CASE Write(c)
      <4> DEFINE k == calls[c]
                 row == table'[k.id]
      <4>1. /\ k.pc = "write" /\ k.new[f] = heap[o][f]
            /\ k.row \in committed[k.id] \cup {NoRow}
            /\ k.row # NoRow /\ table[k.id] = NoRow => k.id \in unsaved
        BY <2>5, <3>6 DEF Write, WillSave, SavesTracked
      <4>2. /\ committed' = [committed EXCEPT ![k.id] = @ \cup ({row} \ {NoRow})]
            /\ (row = NoRow) <=> (k.row # NoRow /\ table[k.id] = NoRow)
            /\ row # NoRow => \/ row[f] = k.new[f]
                              \/ k.row \in Rows /\ k.row[f] = k.new[f]
        BY <3>6, WrittenRow
      <4>3. CASE row = NoRow
        BY <1>0, <4>1, <4>2, <4>3 DEF Grows
      <4>4. CASE row # NoRow
        <5>1. row \in committed'[k.id] /\ committed[k.id] \subseteq committed'[k.id]
          BY <2>3, <4>2, <4>4 DEF Objects, TypeOK
        <5>2. \E r \in committed'[k.id] : r[f] = k.new[f]
          BY <4>1, <4>2, <4>4, <5>1, UserAssumption
        <5>3. QED
          BY <4>1, <5>2 DEF HeldThen
      <4>5. QED
        BY <4>3, <4>4
    <3>7. QED
      BY <1>6, <3>1, <3>2, <3>3, <3>4, <3>5, <3>6
  <2>6. \A d \in Calls, o \in Objs, f \in Fields :
           WillSave(calls[d], o, f) /\ Refs(o)' # {} =>
             \/ WillSave(calls[d], o, f)'
             \/ \A i \in Refs(o)' : HeldThen(i, f, heap[o][f]) \/ i \in unsaved'
    <3> SUFFICES ASSUME NEW d \in Calls, NEW o \in Objs, NEW f \in Fields,
                        WillSave(calls[d], o, f), Refs(o)' # {}
                 PROVE  \/ WillSave(calls[d], o, f)'
                        \/ \A i \in Refs(o)' : HeldThen(i, f, heap[o][f]) \/ i \in unsaved'
      OBVIOUS
    <3>1. CASE d = c
      <4>1. calls[c].obj = o
        BY <3>1 DEF WillSave
      <4>2. \A i \in Refs(o)' : i = calls[c].id
        BY <2>4, <4>1
      <4>3. QED
        BY <2>5, <3>1, <4>2
    <3>2. CASE d # c
      BY <2>1, <2>2, <3>2 DEF WillSave, OnlyDropsRefs
    <3>3. QED
      BY <3>1, <3>2
  <2>7. QED
    BY <1>0, <2>1, <2>6, OwedKept
<1>7. ASSUME NEW id \in Ids,
             DbRead(id) \/ DbReadFails(id) \/ UserMissing(id) \/ Evict(id)
               \/ InvalidateUserCache(id) \/ Publish(id)
      PROVE  AllOwed'
  <2>1. OnlyDropsRefs
    BY <1>7, FillEndsObjects, UncacheObjects, OtherObjects
  <2>2. AllGoOn
    BY <1>7 DEF DbRead, DbReadFails, UserMissing, Evict, InvalidateUserCache,
                Publish, Waiting, SavingPcs
  <2>3. QED
    BY <1>1, <2>1, <2>2
<1>8. ASSUME NEW id \in Ids, NEW user \in Objs, NEW clone \in Objs,
             UserFound(id, user, clone)
      PROVE  AllOwed'
  <2>1. /\ \A o \in {user, clone} : /\ Refs(o)' \subseteq {id}
                                    /\ Refs(o)' # {} => heap'[o] = lookup[id].row
        /\ \A o \in Objs \ {user, clone} : /\ Refs(o)' \subseteq Refs(o)
                                           /\ Refs(o)' # {} => heap'[o] = heap[o]
    BY <1>8, UserFoundObjects
  <2>2. UNCHANGED <<committed, unsaved>> /\ lookup[id].row \in committed[id]
    BY <1>8 DEF UserFound, database, RowsAreCommitted
  <2>3. AllGoOn
    BY <1>8 DEF UserFound, Waiting, SavingPcs
  <2> SUFFICES ASSUME NEW o \in Objs, NEW i \in Refs(o)', NEW f \in Fields
               PROVE  Owed(o, i, f)'
    BY DEF AllOwed
  <2>4. CASE o \in {user, clone}
    <3>1. i = id /\ heap'[o] = lookup[id].row
      BY <2>1, <2>4
    <3>2. QED
      BY <2>2, <3>1 DEF Owed, Held
  <2>5. CASE o \notin {user, clone}
    <3>1. Owed(o, i, f) /\ heap'[o] = heap[o]
      BY <2>1, <2>5 DEF AllOwed
    <3>2. \A d \in Calls : WillSave(calls[d], o, f) => WillSave(calls[d], o, f)'
      BY <2>3, <3>1 DEF WillSave, SavingPcs
    <3>3. QED
      BY <2>2, <3>1, <3>2 DEF Owed, Held
  <2>6. QED
    BY <2>4, <2>5
<1>9. CASE Restart
  <2>1. \A o \in Objs : Refs(o)' = {}
    BY <1>9, UserAssumption DEF Restart, Refs, NoCall
  <2>2. QED
    BY <2>1 DEF AllOwed
<1>10. CASE UNCHANGED vars
  <2>1. OnlyDropsRefs /\ AllGoOn
    BY <1>10 DEF vars, Refs, OnlyDropsRefs
  <2>2. QED
    BY <1>1, <2>1
<1>11. QED
  BY <1>3, <1>4, <1>5, <1>6, <1>7, <1>8, <1>9, <1>10
  DEF Next, Continue, Fill, PublishFails, Crash
-----------------------------------------------------------------------------
(* A fill that is about to report an absent user recorded the absence. *)
LEMMA NextLacked == Objects /\ LackedRecorded /\ [Next]_vars => LackedRecorded'
<1> SUFFICES ASSUME Objects, LackedRecorded, [Next]_vars
             PROVE  LackedRecorded'
  OBVIOUS
<1> USE DEF Objects, TypeOK, LackedRecorded
<1>1. ASSUME UNCHANGED <<table, lookup>>
      PROVE  LackedRecorded'
  BY <1>1
<1>2. ASSUME NEW id \in Ids, UNCHANGED table, lookup' = [lookup EXCEPT ![id] = NoLookup]
      PROVE  LackedRecorded'
  BY <1>2 DEF NoLookup
<1>3. ASSUME NEW c \in Calls, NEW op, NEW id \in Ids, NEW dto, FindMiss(c, op, id, dto)
      PROVE  LackedRecorded'
  <2>1. CASE lookup' = lookup
    BY <1>1, <1>3, <2>1 DEF FindMiss, database
  <2>2. CASE lookup' # lookup
    BY <1>3, <2>2 DEF FindMiss, database
  <2>3. QED
    BY <2>1, <2>2
<1>4. ASSUME NEW id \in Ids, DbRead(id)
      PROVE  LackedRecorded'
  <2>1. /\ lookup'[id].row = table[id] /\ lookup'[id].lacked = lookup[id].lacked
        /\ lookup'[id].pc = "reply" /\ lookup[id].pc = "query"
        /\ \A i \in Ids \ {id} : lookup'[i] = lookup[i]
        /\ table' = table
    BY <1>4 DEF DbRead, LookupRecords, database
  <2>2. QED
    BY <2>1
<1>5. ASSUME NEW c \in Calls, DeleteRow(c)
      PROVE  LackedRecorded'
  <2>1. calls[c].id \in Ids
    BY <1>5 DEF DeleteRow, CallsShaped, CallShape
  <2>2. /\ lookup'[calls[c].id].pc = lookup[calls[c].id].pc
        /\ lookup'[calls[c].id].lacked = (lookup[calls[c].id].pc # "none")
        /\ \A i \in Ids \ {calls[c].id} : lookup'[i] = lookup[i] /\ table'[i] = table[i]
    BY <1>5, <2>1 DEF DeleteRow, LookupRecords
  <2>3. QED
    BY <2>1, <2>2
<1>6. ASSUME NEW c \in Calls, Write(c)
      PROVE  LackedRecorded'
  <2>1. \A i \in Ids : table'[i] = NoRow => table[i] = NoRow
    BY <1>6, WrittenRow
  <2>2. QED
    BY <1>6, <2>1 DEF Write
<1>7. ASSUME NEW c \in Calls, NEW id \in Ids, Insert(c, id)
      PROVE  LackedRecorded'
  <2>1. Assigned(calls[c].dto, calls[c].dto) \in Rows
    BY <1>7, CreatedRow DEF Insert, CallsShaped, CallShape
  <2>2. \A i \in Ids : table'[i] \in {table[i]} \cup Rows
    BY <1>7, <2>1 DEF Insert
  <2>3. QED
    BY <1>7, <2>2, UserAssumption DEF Insert, cache
<1>8. ASSUME NEW c \in Calls, Request(c)
      PROVE  LackedRecorded'
  BY <1>1, <1>3, <1>8, RequestCases DEF FindHit, BeginCreate, database, cache
<1>9. ASSUME NEW c \in Calls,
             \/ Assign(c) \/ HashFails(c) \/ SelectRow(c) \/ Compare(c) \/ SaveFails(c)
             \/ CheckRow(c) \/ DeleteFails(c)
             \/ InsertFails(c) \/ Emit(c)
      PROVE  LackedRecorded'
  BY <1>1, <1>9 DEF Assign, HashFails, SelectRow, Compare, SaveFails, CheckRow, DeleteFails,
                    InsertFails, Emit, database, cache
<1>10. ASSUME NEW id \in Ids,
              \/ DbReadFails(id) \/ UserMissing(id)
              \/ \E user, clone \in Objs : UserFound(id, user, clone)
       PROVE  LackedRecorded'
  BY <1>2, <1>10 DEF DbReadFails, UserMissing, UserFound, database
<1>11. ASSUME NEW id \in Ids, Evict(id) \/ InvalidateUserCache(id) \/ Publish(id)
       PROVE  LackedRecorded'
  BY <1>1, <1>11 DEF Evict, InvalidateUserCache, Publish, database, cache
<1>12. CASE Restart
  BY <1>12 DEF Restart, NoLookup
<1>13. CASE UNCHANGED vars
  BY <1>1, <1>13 DEF vars
<1>14. QED
  BY <1>4, <1>5, <1>6, <1>7, <1>8, <1>9, <1>10, <1>11, <1>12, <1>13
  DEF Next, Continue, Fill, PublishFails, Crash

(* Until a crash, an event is emitted before the call that owes it returns, *)
(* and stays with the client until the broker has it.                       *)
LEMMA NextOwedEvent ==
  Objects /\ CreatedIsOwedAnEvent /\ [Next]_vars => CreatedIsOwedAnEvent'
<1> SUFFICES ASSUME Objects, CreatedIsOwedAnEvent, [Next]_vars, crashes' = 0,
                    NEW i \in created', i \notin queue', i \notin inFlight'
             PROVE  \E c \in Calls : calls'[c].pc = "emit" /\ calls'[c].id = i
  BY DEF CreatedIsOwedAnEvent
<1> USE DEF Objects, TypeOK
<1>1. ~Restart
  <2>1. crashes \in Nat
    BY UserAssumption
  <2>2. QED
    BY <2>1 DEF Restart
<1>2. ASSUME NEW c \in Calls, NEW id \in Ids, Insert(c, id)
      PROVE  \E d \in Calls : calls'[d].pc = "emit" /\ calls'[d].id = i
  <2>1. calls'[c].pc = "emit" /\ calls'[c].id = id
    BY <1>2 DEF Insert, CallRecords
  <2>2. CASE i = id
    BY <2>1, <2>2
  <2>3. CASE i # id
    <3>1. PICK d \in Calls : calls[d].pc = "emit" /\ calls[d].id = i
      BY <1>2, <2>3 DEF Insert, CreatedIsOwedAnEvent, events
    <3>2. d # c
      BY <1>2, <3>1 DEF Insert
    <3>3. QED
      BY <1>2, <3>1, <3>2 DEF Insert
  <2>4. QED
    BY <2>2, <2>3
<1>3. ASSUME NEW c \in Calls, Emit(c)
      PROVE  \E d \in Calls : calls'[d].pc = "emit" /\ calls'[d].id = i
  <2>1. PICK d \in Calls : calls[d].pc = "emit" /\ calls[d].id = i
    BY <1>3 DEF Emit, CreatedIsOwedAnEvent, database
  <2>2. d # c
    BY <1>3, <2>1 DEF Emit
  <2>3. QED
    BY <1>3, <2>1, <2>2 DEF Emit
<1>4. ASSUME UNCHANGED created, queue \cup inFlight \subseteq queue' \cup inFlight',
             crashes = 0,
             \A d \in Calls : calls[d].pc = "emit" => calls'[d] = calls[d]
      PROVE  \E d \in Calls : calls'[d].pc = "emit" /\ calls'[d].id = i
  <2>1. PICK d \in Calls : calls[d].pc = "emit" /\ calls[d].id = i
    BY <1>4 DEF CreatedIsOwedAnEvent
  <2>2. QED
    BY <1>4, <2>1
<1>5. ASSUME NEW c \in Calls, Request(c)
      PROVE  \E d \in Calls : calls'[d].pc = "emit" /\ calls'[d].id = i
  <2>1. \A d \in Calls : calls[d].pc = "emit" => calls'[d] = calls[d]
    BY <1>5, RequestCases DEF FindHit, FindMiss, BeginCreate
  <2>2. UNCHANGED <<created, queue, inFlight, crashes>>
    BY <1>5, RequestCases DEF FindHit, FindMiss, BeginCreate, database, events
  <2>3. QED
    BY <1>4, <2>1, <2>2
<1>6. ASSUME NEW c \in Calls,
             \/ Assign(c) \/ HashFails(c) \/ SelectRow(c) \/ Compare(c) \/ Write(c)
             \/ SaveFails(c) \/ CheckRow(c) \/ DeleteRow(c) \/ DeleteFails(c)
             \/ InsertFails(c)
      PROVE  \E d \in Calls : calls'[d].pc = "emit" /\ calls'[d].id = i
  <2>1. \A d \in Calls : calls[d].pc = "emit" => calls'[d] = calls[d]
    BY <1>6 DEF Assign, HashFails, SelectRow, Compare, Write, SaveFails, CheckRow,
                DeleteRow, DeleteFails, InsertFails
  <2>2. UNCHANGED <<created, queue, inFlight, crashes>>
    BY <1>6 DEF Assign, HashFails, SelectRow, Compare, Write, SaveFails, CheckRow,
                DeleteRow, DeleteFails, InsertFails, database, events
  <2>3. QED
    BY <1>4, <2>1, <2>2
<1>7. ASSUME NEW id \in Ids,
             \/ Fill(id) \/ Evict(id) \/ InvalidateUserCache(id) \/ Publish(id)
      PROVE  \E d \in Calls : calls'[d].pc = "emit" /\ calls'[d].id = i
  <2>1. \A d \in Calls : calls[d].pc = "emit" => calls'[d] = calls[d]
    BY <1>7 DEF Fill, DbRead, DbReadFails, UserMissing, UserFound, Evict,
                InvalidateUserCache, Publish, Waiting
  <2>2. /\ UNCHANGED <<created, crashes>>
        /\ queue \cup inFlight \subseteq queue' \cup inFlight'
    BY <1>7 DEF Fill, DbRead, DbReadFails, UserMissing, UserFound, Evict,
                InvalidateUserCache, Publish, database, events
  <2>3. QED
    BY <1>4, <2>1, <2>2
<1>8. CASE UNCHANGED vars
  BY <1>4, <1>8 DEF vars
<1>9. QED
  BY <1>1, <1>2, <1>3, <1>5, <1>6, <1>7, <1>8
  DEF Next, Continue, PublishFails, Crash

-----------------------------------------------------------------------------
IInv == /\ Objects /\ RowsAreCommitted /\ LackedRecorded
        /\ SavesTracked /\ AllOwed /\ CreatedIsOwedAnEvent

\* The inductive invariant holds at first.
LEMMA InitIInv == Init => IInv
<1> SUFFICES ASSUME Init PROVE IInv
  OBVIOUS
<1>1. Objects
  BY InitObjects
<1>2. \A o \in Objs : Refs(o) = {}
  BY UserAssumption DEF Init, Refs, NoCall
<1>3. RowsAreCommitted /\ LackedRecorded
  BY DEF Init, RowsAreCommitted, LackedRecorded, NoLookup
<1>4. SavesTracked /\ AllOwed /\ CreatedIsOwedAnEvent
  BY <1>2 DEF Init, SavesTracked, AllOwed, CreatedIsOwedAnEvent, NoCall
<1>5. QED
  BY <1>1, <1>3, <1>4 DEF IInv

(* The service's inductive invariant. *)
THEOREM UserInvariant == Spec => []IInv
<1>1. IInv /\ [Next]_vars => IInv'
  BY NextObjects, NextRows, NextLacked, NextTracked, NextOwed, NextOwedEvent DEF IInv
<1>2. QED
  BY <1>1, InitIInv, PTL DEF Spec

(* Types are kept; above all, whatever update() assigns and whatever the   *)
(* cache clones, a password in memory or at rest is one bcrypt hash.       *)
THEOREM UserTypeOK == Spec => []TypeOK
<1>1. IInv => TypeOK
  BY DEF IInv, Objects
<1>2. QED
  BY <1>1, UserInvariant, PTL

(* Through every alias, each field of a user in memory shows only values   *)
(* the id really had, although a save reads, compares and writes in three  *)
(* steps, but for an update being saved, one whose save failed, or one     *)
(* that a deletion overtook.                                               *)
THEOREM UserUncommitted == Spec => []UncommittedOnlyWhenOwed
<1>1. IInv => UncommittedOnlyWhenOwed
  BY DEF IInv, AllOwed, Owed, Held, WillSave, Saving, Fields, UncommittedOnlyWhenOwed
<1>2. QED
  BY <1>1, UserInvariant, PTL

(* Only a crash can cost a created user its event. *)
THEOREM UserOwedEvent == Spec => []CreatedIsOwedAnEvent
<1>1. IInv => CreatedIsOwedAnEvent
  BY DEF IInv
<1>2. QED
  BY <1>1, UserInvariant, PTL

(* "User not found" is only ever said of a user that was absent at some    *)
(* moment of the shared lookup.                                            *)
THEOREM UserNotFoundJustified == Spec => NotFoundIsJustified
<1>1. IInv /\ [Next]_vars =>
        [\A c \in Calls : calls[c].pc = "lookup" /\ calls'[c].out = "404" =>
                            lookup[calls[c].id].lacked]_vars
  <2> SUFFICES ASSUME IInv, Next, NEW c \in Calls,
                      calls[c].pc = "lookup", calls'[c].out = "404"
               PROVE  lookup[calls[c].id].lacked
    BY DEF vars
  <2> USE DEF IInv, Objects, TypeOK
  <2>1. calls[c].out = "none" /\ calls[c].id \in Ids
    BY DEF CallsShaped, CallShape
  <2>2. calls'[c] # calls[c]
    BY <2>1
  <2>3. ASSUME NEW d \in Calls, Request(d)
        PROVE  FALSE
    BY <2>2, <2>3, RequestCases DEF FindHit, FindMiss, BeginCreate
  <2>4. ASSUME NEW d \in Calls, Continue(d)
        PROVE  FALSE
    BY <2>2, <2>4
    DEF Continue, Assign, HashFails, SelectRow, Compare, Write, SaveFails, CheckRow, DeleteRow, DeleteFails, Insert,
        InsertFails, Emit
  <2>5. ASSUME NEW id \in Ids,
               DbRead(id) \/ Evict(id) \/ InvalidateUserCache(id) \/ Publish(id)
        PROVE  FALSE
    BY <2>2, <2>5 DEF DbRead, Evict, InvalidateUserCache, Publish
  <2>6. ASSUME NEW id \in Ids, DbReadFails(id)
        PROVE  FALSE
    BY <2>2, <2>6, AllReturned DEF DbReadFails, Outcomes
  <2>7. ASSUME NEW id \in Ids, UserMissing(id)
        PROVE  lookup[calls[c].id].lacked
    <3>1. lookup[id].lacked
      BY <2>7 DEF UserMissing, LackedRecorded
    <3>2. calls[c].id = id
      BY <2>2, <2>7 DEF UserMissing, Waiting
    <3>3. QED
      BY <3>1, <3>2
  <2>8. ASSUME NEW id \in Ids, NEW user \in Objs, NEW clone \in Objs,
               UserFound(id, user, clone)
        PROVE  FALSE
    <3>1. calls'[c] = WithUser(calls[c], user)
      BY <2>2, <2>8 DEF UserFound
    <3>2. WithUser(calls[c], user).out \in {"ok", calls[c].out}
      BY WithUserShape DEF CallsShaped
    <3>3. QED
      BY <2>1, <3>1, <3>2
  <2>9. ASSUME Restart
        PROVE  FALSE
    BY <2>9 DEF Restart, NoCall
  <2>10. QED
    BY <2>3, <2>4, <2>5, <2>6, <2>7, <2>8, <2>9 DEF Next, Fill, PublishFails, Crash
<1>2. QED
  BY <1>1, UserInvariant, PTL DEF Spec, NotFoundIsJustified
=============================================================================
