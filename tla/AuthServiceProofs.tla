--------------------------- MODULE AuthServiceProofs ---------------------------
(* What login() and validateLogin() answer, for all users and passwords,   *)
(* and what the counter of attempts is worth over the memory store.        *)
EXTENDS AuthService, FiniteSetTheorems, TLAPS

(* Only a validateLogin() counts attempts, and it has an address.          *)
Shaped(k) ==
  /\ k.pc # "idle" => k.op # "none"
  /\ k.pc \in {"attempts", "count", "store"} => k.op = "validate"
  /\ k.op = "validate" => k.ip \in Ips

(* What a call under way knows of the row, the rows now being rs: what the *)
(* row is has been recorded, and what was read was the row at some time.   *)
Knows(k, rs) ==
  /\ k.pc # "idle" /\ k.email \in Emails => rs[k.email] \in k.held
  /\ k.pc # "idle" /\ k.email \notin Emails => NoRow \in k.held
  /\ k.pc = "compare" => k.row \in k.held /\ k.row # NoRow
  /\ k.pc = "session" => k.password \in k.held \ {NoRow}
  /\ k.pc \in {"count", "store"} => k.held \ {k.password, NoRow} # {}

Justified(k) ==
  /\ k.answer \in Success => k.password \in k.held \ {NoRow}
  /\ k.answer = "invalid" => k.held \ {k.password, NoRow} # {}
  /\ k.answer = "not found" => NoRow \in k.held

Sound(k, rs) == Shaped(k) /\ Knows(k, rs) /\ Justified(k)

Inv ==
  /\ rows \in [Emails -> Rows]
  /\ attempts \in [Ips -> 0 .. MaxCount] /\ wrong \in [Ips -> 0 .. MaxCount]
  /\ age \in [Ips -> {NoEntry} \cup 0 .. (Ttl - 1)]
  /\ calls \in [Calls -> CallRecords]
  /\ \A c \in Calls : Sound(calls[c], rows)

(* The invariant implies what the runs check.                              *)
LEMMA InvImplies == Inv => TypeOK /\ AnswersAreJustified
  BY DEF Inv, TypeOK, AnswersAreJustified, Sound, Shaped, Justified

(* An idle slot is a sound call.                                           *)
LEMMA NoCallSound ==
  ASSUME NEW rs
  PROVE  NoCall \in CallRecords /\ Sound(NoCall, rs)
  BY AuthAssumption
  DEF NoCall, CallRecords, Answers, Success, Rows, Sound, Shaped, Knows, Justified

(* Before the first call the invariant holds.                              *)
LEMMA InitInv == Init => Inv
<1> SUFFICES ASSUME Init
             PROVE  Inv
  OBVIOUS
<1>1. 0 \in 0 .. MaxCount
  BY AuthAssumption
<1>2. calls \in [Calls -> CallRecords] /\ \A c \in Calls : calls[c] = NoCall
  BY NoCallSound DEF Init
<1>3. QED
  BY <1>1, <1>2, NoCallSound DEF Init, Inv

(* A call's own step.                                                      *)
LEMMA OwnStep ==
  ASSUME Inv, NEW c \in Calls, NEW k \in CallRecords,
         calls' = [calls EXCEPT ![c] = k], Sound(k, rows), rows' = rows,
         attempts' \in [Ips -> 0 .. MaxCount], wrong' \in [Ips -> 0 .. MaxCount],
         age' \in [Ips -> {NoEntry} \cup 0 .. (Ttl - 1)]
  PROVE  Inv'
<1>1. calls' \in [Calls -> CallRecords]
  BY DEF Inv
<1>2. \A d \in Calls : calls'[d] = IF d = c THEN k ELSE calls[d]
  BY DEF Inv
<1>3. QED
  BY <1>1, <1>2 DEF Inv

(* A call that returns keeps what its answer is justified by.              *)
LEMMA ReturnSound ==
  ASSUME NEW k \in CallRecords, NEW answer \in Answers, NEW rs,
         answer \in Success => k.password \in k.held \ {NoRow},
         answer = "invalid" => k.held \ {k.password, NoRow} # {},
         answer = "not found" => NoRow \in k.held
  PROVE  LET r == [NoCall EXCEPT !.answer = answer, !.email = k.email,
                                 !.password = k.password, !.held = k.held]
         IN  r \in CallRecords /\ Sound(r, rs)
<1> DEFINE r == [NoCall EXCEPT !.answer = answer, !.email = k.email,
                               !.password = k.password, !.held = k.held]
<1>1. /\ r.op = "none" /\ r.pc = "idle" /\ r.answer = answer
      /\ r.password = k.password /\ r.held = k.held
  BY DEF NoCall
<1>2. r \in CallRecords
  <2>1. NoCall \in CallRecords
    BY NoCallSound
  <2>2. QED
    BY <2>1 DEF CallRecords
<1>3. Sound(r, rs)
  BY <1>1 DEF Sound, Shaped, Knows, Justified
<1>4. QED
  BY <1>2, <1>3

(* The counter's entry may go, or grow older, at any time.                 *)
LEMMA CounterStep ==
  ASSUME Inv, UNCHANGED <<rows, calls>>,
         attempts' \in [Ips -> 0 .. MaxCount], wrong' \in [Ips -> 0 .. MaxCount],
         age' \in [Ips -> {NoEntry} \cup 0 .. (Ttl - 1)]
  PROVE  Inv'
  BY DEF Inv

(* Its types are kept when it goes.                                        *)
LEMMA DropInv ==
  ASSUME Inv, NEW ip \in Ips, Drop(ip)
  PROVE  Inv'
<1>1. 0 \in 0 .. MaxCount
  BY AuthAssumption
<1>2. QED
  BY <1>1, CounterStep DEF Drop, Inv

(* Every step of a call keeps Inv.                                         *)
LEMMA CallInv ==
  ASSUME Inv, NEW c \in Calls, Request(c) \/ Continue(c) \/ StepFails(c)
  PROVE  Inv'
<1> DEFINE k == calls[c]
<1>0. k \in CallRecords /\ Shaped(k) /\ Knows(k, rows) /\ Justified(k)
  BY DEF Inv, Sound
<1>1. ASSUME UNCHANGED <<rows, counter>>,
             NEW r \in CallRecords, Sound(r, rows), calls' = [calls EXCEPT ![c] = r]
      PROVE  Inv'
  BY <1>1, OwnStep DEF Inv, counter
<1>2. ASSUME NEW op \in {"login", "validate"}, NEW pc \in {"find", "attempts"},
             NEW email \in Emails \cup {NoEmail}, NEW password \in Passwords,
             NEW ip \in Ips \cup {NoRow}, Begin(c, op, pc, email, password, ip),
             pc = "attempts" => op = "validate", op = "validate" => ip \in Ips
      PROVE  Inv'
  <2> DEFINE r == [NoCall EXCEPT !.op = op, !.pc = pc, !.email = email,
                     !.password = password, !.ip = ip,
                     !.held = IF email \in Emails THEN {rows[email]} ELSE {NoRow}]
             held == IF email \in Emails THEN {rows[email]} ELSE {NoRow}
  <2>1. /\ r.op = op /\ r.pc = pc /\ r.email = email /\ r.ip = ip
        /\ r.answer = "none" /\ r.held = held
    BY DEF NoCall
  <2>2. held \subseteq Rows /\ NoCall \in CallRecords
    BY NoCallSound DEF Inv, Rows
  <2>3. r \in CallRecords
    BY <2>2 DEF CallRecords, Rows
  <2>4. Sound(r, rows)
    <3>1. email \in Emails => rows[email] \in held
      OBVIOUS
    <3>2. email \notin Emails => NoRow \in held
      OBVIOUS
    <3> HIDE DEF r, held
    <3>3. QED
      BY <1>2, <2>1, <3>1, <3>2 DEF Sound, Shaped, Knows, Justified, Success
  <2>5. QED
    BY <1>2, <1>1, <2>3, <2>4 DEF Begin
<1>3. CASE Request(c)
  BY <1>3, <1>2 DEF Request, Login, ValidateLogin
<1>4. CASE CheckAttempts(c)
  <2>1. CASE attempts[k.ip] >= Limit
    BY <1>4, <2>1, <1>0, <1>1, ReturnSound
    DEF CheckAttempts, Return, Answers, Success
  <2>2. CASE ~(attempts[k.ip] >= Limit)
    <3>1. [k EXCEPT !.pc = "find"] \in CallRecords /\ Sound([k EXCEPT !.pc = "find"], rows)
      BY <1>4, <1>0 DEF CheckAttempts, CallRecords, Sound, Shaped, Knows, Justified
    <3>2. calls' = [calls EXCEPT ![c] = [k EXCEPT !.pc = "find"]]
      BY <1>4, <2>2 DEF CheckAttempts, Go, Inv
    <3>3. QED
      BY <1>4, <1>1, <3>1, <3>2 DEF CheckAttempts
  <2>3. QED
    BY <2>1, <2>2
<1>5. CASE FindByEmail(c)
  <2>1. PICK row \in Find(k.email) :
          IF row = NoRow THEN Return(c, "not found")
          ELSE calls' = [calls EXCEPT ![c].pc = "compare", ![c].row = row]
    BY <1>5 DEF FindByEmail
  <2>2. row \in k.held /\ row \in Rows
    BY <1>5, <1>0 DEF FindByEmail, Find, Knows, Rows, Inv
  <2>3. CASE row = NoRow
    BY <1>5, <2>1, <2>2, <2>3, <1>0, <1>1, ReturnSound
    DEF FindByEmail, Return, Answers, Success
  <2>4. CASE row # NoRow
    <3> DEFINE r == [k EXCEPT !.pc = "compare", !.row = row]
    <3>1. r \in CallRecords /\ Sound(r, rows)
      BY <1>5, <1>0, <2>2, <2>4
      DEF FindByEmail, CallRecords, Sound, Shaped, Knows, Justified
    <3>2. calls' = [calls EXCEPT ![c] = r]
      BY <2>1, <2>4 DEF Inv
    <3>3. QED
      BY <1>5, <1>1, <3>1, <3>2 DEF FindByEmail
  <2>5. QED
    BY <2>3, <2>4
<1>6. CASE Compare(c)
  <2>1. k.pc = "compare" /\ k.row \in k.held /\ k.row # NoRow
    BY <1>6, <1>0 DEF Compare, Knows
  <2>2. ASSUME NEW pc \in {"session", "count"}, Go(c, pc),
               pc = "session" => k.password = k.row,
               pc = "count" => k.password # k.row /\ k.op = "validate" /\ k.ip \in Ips
        PROVE  Inv'
    <3> DEFINE r == [k EXCEPT !.pc = pc]
    <3>1. r \in CallRecords /\ Sound(r, rows)
      BY <1>0, <2>1, <2>2 DEF CallRecords, Sound, Shaped, Knows, Justified
    <3>2. calls' = [calls EXCEPT ![c] = r]
      BY <2>2 DEF Go, Inv
    <3>3. QED
      BY <1>6, <1>1, <3>1, <3>2 DEF Compare
  <2>3. CASE k.password = k.row /\ k.op = "validate"
    BY <1>6, <2>1, <2>3, <1>0, <1>1, ReturnSound DEF Compare, Return, Answers, Success
  <2>4. CASE k.password = k.row /\ k.op = "login"
    BY <1>6, <2>2, <2>4 DEF Compare
  <2>5. CASE k.password # k.row /\ k.op = "login"
    BY <1>6, <2>1, <2>5, <1>0, <1>1, ReturnSound DEF Compare, Return, Answers, Success
  <2>6. CASE k.password # k.row /\ k.op = "validate"
    BY <1>6, <1>0, <2>2, <2>6 DEF Compare, Shaped
  <2>7. QED
    BY <1>0, <2>1, <2>3, <2>4, <2>5, <2>6 DEF Shaped, CallRecords
<1>7. CASE CreateSession(c)
  BY <1>7, <1>0, <1>1, ReturnSound DEF CreateSession, Return, Knows, Answers, Success
<1>8. CASE Count(c)
  <2> DEFINE r == [k EXCEPT !.pc = "store", !.count = attempts[k.ip]]
  <2>1. k.ip \in Ips /\ attempts[k.ip] \in 0 .. MaxCount
    BY <1>8, <1>0 DEF Count, Shaped, Inv
  <2>2. r \in CallRecords /\ Sound(r, rows)
    BY <1>8, <1>0, <2>1 DEF Count, CallRecords, Sound, Shaped, Knows, Justified
  <2>3. calls' = [calls EXCEPT ![c] = r]
    BY <1>8 DEF Count, Inv
  <2>4. QED
    BY <1>8, <1>1, <2>2, <2>3 DEF Count
<1>9. CASE Store(c)
  <2> DEFINE r == [NoCall EXCEPT !.answer = "invalid", !.email = k.email,
                                 !.password = k.password, !.held = k.held]
  <2>1. r \in CallRecords /\ Sound(r, rows)
    BY <1>9, <1>0, ReturnSound DEF Store, Knows, Answers, Success
  <2>2. k.count \in 0 .. MaxCount /\ k.ip \in Ips
    BY <1>9, <1>0 DEF Store, CallRecords, Shaped
  <2>3. /\ attempts' \in [Ips -> 0 .. MaxCount]
        /\ wrong' \in [Ips -> 0 .. MaxCount]
        /\ age' \in [Ips -> {NoEntry} \cup 0 .. (Ttl - 1)]
    BY <1>9, <2>2, AuthAssumption DEF Store, Inv
  <2>4. QED
    BY <1>9, <2>1, <2>3, OwnStep DEF Store, Return
<1>10. CASE StepFails(c)
  BY <1>10, <1>1, NoCallSound DEF StepFails
<1>11. QED
  BY <1>3, <1>4, <1>5, <1>6, <1>7, <1>8, <1>9, <1>10 DEF Continue

(* The row changes under the calls about it, and they take note.           *)
LEMMA ChangeRowInv ==
  ASSUME Inv, NEW email \in Emails, NEW row \in Rows, ChangeRow(email, row)
  PROVE  Inv'
<1> DEFINE noted(c) == [calls[c] EXCEPT !.held = @ \cup {row}]
<1>1. ASSUME NEW c \in Calls
      PROVE  calls'[c] \in CallRecords /\ Sound(calls'[c], rows')
  <2>1. calls[c] \in CallRecords /\ Sound(calls[c], rows)
    BY DEF Inv
  <2>2. CASE calls[c].pc # "idle" /\ calls[c].email = email
    <3>1. calls'[c] = noted(c) /\ rows'[email] = row
      BY <2>2 DEF ChangeRow, Inv
    <3>2. noted(c) \in CallRecords
      BY <2>1 DEF CallRecords
    <3>3. Sound(noted(c), rows')
      BY <2>1, <2>2, <3>1 DEF CallRecords, Sound, Shaped, Knows, Justified
    <3>4. QED
      BY <3>1, <3>2, <3>3
  <2>3. CASE ~(calls[c].pc # "idle" /\ calls[c].email = email)
    <3>1. calls'[c] = calls[c]
      BY <2>3 DEF ChangeRow
    <3>2. calls[c].pc # "idle" /\ calls[c].email \in Emails =>
            rows'[calls[c].email] = rows[calls[c].email]
      BY <2>3 DEF ChangeRow, Inv
    <3>3. QED
      BY <2>1, <3>1, <3>2 DEF Sound, Knows
  <2>4. QED
    BY <2>2, <2>3
<1>2. rows' \in [Emails -> Rows] /\ calls' \in [Calls -> CallRecords]
  BY <1>1 DEF ChangeRow, Inv
<1>3. QED
  BY <1>1, <1>2 DEF ChangeRow, Inv, counter

(* Every step of the calls, of time and of other services keeps Inv.       *)
LEMMA NextInv == Inv /\ [Next]_vars => Inv'
<1> SUFFICES ASSUME Inv, [Next]_vars
             PROVE  Inv'
  OBVIOUS
<1>1. ASSUME NEW c \in Calls, Request(c) \/ Continue(c) \/ StepFails(c)
      PROVE  Inv'
  BY <1>1, CallInv
<1>2. ASSUME NEW ip \in Ips, Tick(ip)
      PROVE  Inv'
  <2>1. CASE age[ip] + 1 = Ttl
    BY <1>2, <2>1, DropInv DEF Tick
  <2>2. CASE age[ip] + 1 # Ttl
    <3>1. age[ip] + 1 \in 0 .. (Ttl - 1)
      BY <1>2, <2>2, AuthAssumption DEF Tick, NoEntry, Inv
    <3>2. age' \in [Ips -> {NoEntry} \cup 0 .. (Ttl - 1)]
      BY <1>2, <2>2, <3>1 DEF Tick, Inv
    <3>3. QED
      BY <1>2, <2>2, <3>2, CounterStep DEF Tick, Inv
  <2>3. QED
    BY <2>1, <2>2
<1>3. ASSUME NEW ip \in Ips, Evict(ip)
      PROVE  Inv'
  BY <1>3, DropInv DEF Evict
<1>4. ASSUME NEW email \in Emails, NEW row \in Rows, ChangeRow(email, row)
      PROVE  Inv'
  BY <1>4, ChangeRowInv
<1>5. CASE UNCHANGED vars
  BY <1>5 DEF vars, Inv
<1>6. QED
  BY <1>1, <1>2, <1>3, <1>4, <1>5 DEF Next

(* The inductive invariant holds in every state, whatever the cache.       *)
THEOREM AuthInvariant == Spec => []Inv
  BY InitInv, NextInv, PTL DEF Spec

(* Types, for all users, passwords, addresses and bounds.                  *)
THEOREM AuthTypeOK == Spec => []TypeOK
  BY AuthInvariant, InvImplies, PTL

(* Sessions, "valid", refusals and NotFound were true of the user's row at *)
(* some moment of the call.                                                *)
THEOREM AuthAnswersAreJustified == Spec => []AnswersAreJustified
  BY AuthInvariant, InvImplies, PTL
-------------------------------------------------------------------------------
(* Over the memory store no more than one call is between the get and the  *)
(* set of incrementLoginAttempts(), and nothing happens until it goes on.  *)
Counting(c) == calls[c].pc = "store"

(* The calls that have passed the check of the address and may count.      *)
Past(ip) == {c \in Calls : /\ calls[c].op = "validate" /\ calls[c].ip = ip
                          /\ calls[c].pc \in {"find", "compare", "count", "store"}}

(* The counter is what it is taken for, and together with the calls past   *)
(* the check it stays below the bound.                                     *)
MemInv ==
  /\ CountIsExact
  /\ \A c \in Calls : Counting(c) => calls[c].count = attempts[calls[c].ip]
  /\ \A c, d \in Calls : Counting(c) /\ Counting(d) => c = d
  /\ \A ip \in Ips : attempts[ip] + Cardinality(Past(ip)) < Limit + Cardinality(Calls)

(* The calls past the check are finitely many, and no more than all.       *)
LEMMA PastCard ==
  ASSUME NEW S \in SUBSET Calls
  PROVE  /\ Cardinality(S) \in Nat /\ Cardinality(Calls) \in Nat
         /\ Cardinality(S) <= Cardinality(Calls)
         /\ \A T \in SUBSET S : Cardinality(T) \in Nat /\ Cardinality(T) <= Cardinality(S)
         /\ \A c \in S : Cardinality(S \ {c}) = Cardinality(S) - 1
<1>1. IsFiniteSet(Calls)
  BY AuthAssumption
<1>2. IsFiniteSet(S) /\ Cardinality(S) <= Cardinality(Calls)
  BY <1>1, FS_Subset
<1>3. Cardinality(S) \in Nat /\ Cardinality(Calls) \in Nat
  BY <1>1, <1>2, FS_CardinalityType
<1>4. ASSUME NEW T \in SUBSET S
      PROVE  Cardinality(T) \in Nat /\ Cardinality(T) <= Cardinality(S)
  BY <1>2, FS_Subset, FS_CardinalityType
<1>5. \A c \in S : Cardinality(S \ {c}) = Cardinality(S) - 1
  BY <1>2, FS_RemoveElement
<1>6. QED
  BY <1>2, <1>3, <1>4, <1>5

(* A step that leaves the counter alone, lets nobody past the check and    *)
(* takes nobody to the increment.                                          *)
LEMMA QuietStep ==
  ASSUME Inv, MemInv, UNCHANGED <<attempts, wrong>>,
         \A ip \in Ips : Past(ip)' \subseteq Past(ip),
         \A d \in Calls : Counting(d)' => Counting(d) /\ calls'[d] = calls[d]
  PROVE  MemInv'
<1>1. \A ip \in Ips : attempts[ip] \in Nat /\ Past(ip) \in SUBSET Calls
  BY AuthAssumption DEF Inv, Past
<1>2. ASSUME NEW ip \in Ips
      PROVE  (attempts[ip] + Cardinality(Past(ip)) < Limit + Cardinality(Calls))'
  <2>1. /\ Cardinality(Past(ip)) \in Nat /\ Cardinality(Calls) \in Nat
        /\ Cardinality(Past(ip)') \in Nat
        /\ Cardinality(Past(ip)') <= Cardinality(Past(ip))
    BY <1>1, PastCard
  <2>2. attempts[ip] + Cardinality(Past(ip)) < Limit + Cardinality(Calls)
    BY DEF MemInv
  <2>3. QED
    BY <1>1, <2>1, <2>2, AuthAssumption
<1>3. QED
  BY <1>2 DEF MemInv, CountIsExact, Counting

(* When nobody is at the increment and the counter goes, all is well.      *)
LEMMA DropMem ==
  ASSUME Inv, MemInv, NEW ip \in Ips, Drop(ip), \A c \in Calls : ~Counting(c)
  PROVE  MemInv'
<1>1. \A c \in Calls : ~Counting(c)'
  BY DEF Drop, Counting
<1>2. CountIsExact'
  BY DEF Drop, CountIsExact, MemInv, Inv
<1>3. ASSUME NEW i \in Ips
      PROVE  (attempts[i] + Cardinality(Past(i)) < Limit + Cardinality(Calls))'
  <2>1. Past(i)' = Past(i) /\ Past(i) \in SUBSET Calls
    BY DEF Drop, Past
  <2>2. /\ Cardinality(Past(i)) \in Nat /\ Cardinality(Calls) \in Nat
        /\ Cardinality(Past(i)) <= Cardinality(Calls)
    BY <2>1, PastCard
  <2>3. attempts'[i] = 0 \/ attempts'[i] = attempts[i]
    BY DEF Drop, Inv
  <2>4. attempts[i] + Cardinality(Past(i)) < Limit + Cardinality(Calls)
    BY DEF MemInv
  <2>5. QED
    BY <2>1, <2>2, <2>3, <2>4, AuthAssumption
<1>4. QED
  BY <1>1, <1>2, <1>3 DEF MemInv

(* The check lets a call past only while the counter is below the limit.   *)
LEMMA CheckAttemptsMem ==
  ASSUME Inv, MemInv, NEW c \in Calls, CheckAttempts(c)
  PROVE  MemInv'
<1>1. CASE attempts[calls[c].ip] >= Limit
  <2>1. \A d \in Calls : calls'[d] = calls[d] \/ calls'[d].pc = "idle"
    BY <1>1 DEF CheckAttempts, Return, NoCall, Inv
  <2>2. QED
    BY <2>1, QuietStep DEF CheckAttempts, counter, Past, Counting
<1>2. CASE ~(attempts[calls[c].ip] >= Limit)
  <2>1. /\ calls'[c] = [calls[c] EXCEPT !.pc = "find"]
        /\ \A d \in Calls : d # c => calls'[d] = calls[d]
    BY <1>2 DEF CheckAttempts, Go, Inv
  <2>2. calls'[c].pc = "find" /\ calls'[c].ip = calls[c].ip
    BY <2>1 DEF Inv, CallRecords
  <2>3. \A d \in Calls : Counting(d)' => Counting(d) /\ calls'[d] = calls[d]
    BY <2>1, <2>2 DEF Counting
  <2>4. ASSUME NEW i \in Ips
        PROVE  (attempts[i] + Cardinality(Past(i)) < Limit + Cardinality(Calls))'
    <3>1. attempts'[i] = attempts[i] /\ attempts[i] \in Nat
      <4>1. attempts' = attempts
        BY DEF CheckAttempts, counter
      <4>2. attempts[i] \in 0 .. MaxCount
        BY DEF Inv
      <4>3. QED
        BY <4>1, <4>2, AuthAssumption
    <3>2. Past(i) \in SUBSET Calls /\ Past(i)' \in SUBSET Calls
      BY DEF Past
    <3>3. CASE i = calls[c].ip
      <4>1. attempts[i] < Limit
        BY <1>2, <3>1, <3>3, AuthAssumption
      <4>2. QED
        BY <3>1, <3>2, <4>1, PastCard, AuthAssumption
    <3>4. CASE i # calls[c].ip
      <4>1. Past(i)' = Past(i)
        BY <2>1, <2>2, <3>4 DEF Past
      <4>2. QED
        BY <3>1, <4>1 DEF MemInv
    <3>5. QED
      BY <3>3, <3>4
  <2>5. CountIsExact'
    BY DEF CheckAttempts, counter, CountIsExact, MemInv
  <2>6. QED
    BY <2>3, <2>4, <2>5 DEF MemInv, Counting, CheckAttempts, counter
<1>3. QED
  BY <1>1, <1>2

(* The increment takes one call from those past the check.                 *)
LEMMA StoreMem ==
  ASSUME Inv, MemInv, NEW c \in Calls, Store(c)
  PROVE  MemInv'
<1> DEFINE ip == calls[c].ip
<1>1. /\ ip \in Ips /\ calls[c].op = "validate" /\ calls[c].pc = "store"
      /\ calls[c].count = attempts[ip]
  BY DEF Store, Inv, Sound, Shaped, MemInv, Counting
<1>2. /\ calls'[c].pc = "idle"
      /\ \A d \in Calls : d # c => calls'[d] = calls[d]
  BY DEF Store, Return, NoCall, Inv
<1>3. \A d \in Calls : ~Counting(d)'
  BY <1>1, <1>2 DEF MemInv, Counting
<1>4. /\ attempts' = [attempts EXCEPT ![ip] =
                       IF attempts[ip] < MaxCount THEN attempts[ip] + 1 ELSE MaxCount]
      /\ wrong' = [wrong EXCEPT ![ip] = IF @ < MaxCount THEN @ + 1 ELSE @]
  BY <1>1 DEF Store
<1>5. \A i \in Ips : attempts[i] \in 0 .. MaxCount /\ wrong[i] = attempts[i]
  BY DEF Inv, MemInv, CountIsExact
<1>6. CountIsExact'
  BY <1>1, <1>4, <1>5, AuthAssumption DEF CountIsExact, Inv
<1>7. ASSUME NEW i \in Ips
      PROVE  (attempts[i] + Cardinality(Past(i)) < Limit + Cardinality(Calls))'
  <2>1. attempts[i] + Cardinality(Past(i)) < Limit + Cardinality(Calls)
    BY DEF MemInv
  <2>2. Past(i) \in SUBSET Calls /\ attempts[i] \in Nat
    BY <1>5, AuthAssumption DEF Past
  <2>3. CASE i = ip
    <3>1. Past(i)' = Past(i) \ {c} /\ c \in Past(i)
      BY <1>1, <1>2, <2>3 DEF Past
    <3>2. attempts'[i] \in Nat /\ attempts'[i] <= attempts[i] + 1
      BY <1>1, <1>4, <1>5, <2>3, AuthAssumption DEF Inv
    <3>3. /\ Cardinality(Past(i)) \in Nat /\ Cardinality(Calls) \in Nat
          /\ Cardinality(Past(i)') = Cardinality(Past(i)) - 1
      BY <2>2, <3>1, PastCard
    <3>4. QED
      BY <2>1, <2>2, <3>2, <3>3, AuthAssumption
  <2>4. CASE i # ip
    <3>1. Past(i)' = Past(i) /\ attempts'[i] = attempts[i]
      BY <1>1, <1>2, <1>4, <2>4 DEF Past, Inv
    <3>2. QED
      BY <2>1, <3>1
  <2>5. QED
    BY <2>3, <2>4
<1>8. QED
  BY <1>3, <1>6, <1>7 DEF MemInv

(* The counter starts without a call at the increment.                     *)
LEMMA InitMem == Init => MemInv
<1> SUFFICES ASSUME Init
             PROVE  MemInv
  OBVIOUS
<1>1. \A c \in Calls : calls[c].pc = "idle"
  BY DEF Init, NoCall
<1>2. ASSUME NEW ip \in Ips
      PROVE  attempts[ip] + Cardinality(Past(ip)) < Limit + Cardinality(Calls)
  <2>1. Past(ip) \in SUBSET Calls /\ attempts[ip] = 0
    BY DEF Past, Init
  <2>2. QED
    BY <2>1, PastCard, AuthAssumption
<1>3. CountIsExact
  BY DEF Init, CountIsExact
<1>4. QED
  BY <1>1, <1>2, <1>3 DEF MemInv, Counting

(* Over the memory store every step keeps the counter exact and bounded.   *)
LEMMA NextMem == ~AwaitsYield /\ Inv /\ MemInv /\ [Next]_vars => MemInv'
<1> SUFFICES ASSUME ~AwaitsYield, Inv, MemInv, [Next]_vars
             PROVE  MemInv'
  OBVIOUS
<1>1. ASSUME NEW c \in Calls, UNCHANGED <<rows, counter>>, ~Counting(c)',
             \A d \in Calls : d # c => calls'[d] = calls[d],
             \A ip \in Ips : c \in Past(ip)' => c \in Past(ip)
      PROVE  MemInv'
  <2>1. ASSUME NEW ip \in Ips
        PROVE  Past(ip)' \subseteq Past(ip)
    BY <1>1 DEF Past
  <2>2. \A d \in Calls : Counting(d)' => Counting(d) /\ calls'[d] = calls[d]
    BY <1>1 DEF Counting
  <2>3. QED
    BY <1>1, <2>1, <2>2, QuietStep DEF counter
<1>2. ASSUME NEW c \in Calls, Request(c)
      PROVE  MemInv'
  <2>1. PICK op, pc, email, password, ip :
          /\ op \in {"login", "validate"} /\ pc \in {"find", "attempts"}
          /\ Begin(c, op, pc, email, password, ip)
          /\ pc = "find" => op = "login"
    BY <1>2 DEF Request, Login, ValidateLogin
  <2>2. /\ calls'[c].op = op /\ calls'[c].pc = pc
        /\ \A d \in Calls : d # c => calls'[d] = calls[d]
    BY <2>1 DEF Begin, NoCall, Inv
  <2>3. QED
    BY <1>1, <2>1, <2>2 DEF Begin, Counting, Past
<1>3. ASSUME NEW c \in Calls, FindByEmail(c) \/ Compare(c) \/ CreateSession(c) \/ StepFails(c)
      PROVE  MemInv'
  <2>1. \/ calls'[c].pc = "idle"
        \/ /\ calls[c].pc \in {"find", "compare"}
           /\ calls'[c].pc \in {"compare", "session", "count"}
           /\ calls'[c].op = calls[c].op /\ calls'[c].ip = calls[c].ip
    <3>1. calls \in [Calls -> CallRecords]
      BY DEF Inv
    <3>2. ASSUME NEW answer, Return(c, answer)
          PROVE  calls'[c].pc = "idle"
      BY <3>1, <3>2 DEF Return, NoCall
    <3>3. ASSUME NEW pc, Go(c, pc)
          PROVE  /\ calls'[c].pc = pc /\ calls'[c].op = calls[c].op
                 /\ calls'[c].ip = calls[c].ip
      BY <3>1, <3>3 DEF Go, CallRecords
    <3>4. CASE FindByEmail(c)
      <4>1. PICK row : \/ Return(c, "not found")
                       \/ calls' = [calls EXCEPT ![c].pc = "compare", ![c].row = row]
        BY <3>4 DEF FindByEmail
      <4>2. CASE Return(c, "not found")
        BY <3>2, <4>2
      <4>3. CASE calls' = [calls EXCEPT ![c].pc = "compare", ![c].row = row]
        <5>1. /\ calls'[c].pc = "compare" /\ calls'[c].op = calls[c].op
              /\ calls'[c].ip = calls[c].ip
          BY <3>1, <4>3 DEF CallRecords
        <5>2. calls[c].pc = "find"
          BY <3>4 DEF FindByEmail
        <5>3. QED
          BY <5>1, <5>2
      <4>4. QED
        BY <4>1, <4>2, <4>3
    <3>5. CASE Compare(c)
      <4>1. \/ \E answer : Return(c, answer)
            \/ \E pc \in {"session", "count"} : Go(c, pc)
        BY <3>5 DEF Compare
      <4>2. QED
        BY <3>2, <3>3, <3>5, <4>1 DEF Compare
    <3>6. CASE CreateSession(c)
      BY <3>2, <3>6 DEF CreateSession
    <3>7. CASE StepFails(c)
      BY <3>1, <3>7 DEF StepFails, NoCall
    <3>8. QED
      BY <1>3, <3>4, <3>5, <3>6, <3>7
  <2>2. \A d \in Calls : d # c => calls'[d] = calls[d]
    BY <1>3
    DEF FindByEmail, Compare, CreateSession, StepFails, Return, Go, Inv
  <2>3. UNCHANGED <<rows, counter>>
    BY <1>3 DEF FindByEmail, Compare, CreateSession, StepFails
  <2>4. QED
    BY <1>1, <2>1, <2>2, <2>3 DEF Counting, Past
<1>4. ASSUME NEW c \in Calls, CheckAttempts(c)
      PROVE  MemInv'
  BY <1>4, CheckAttemptsMem
<1>5. ASSUME NEW c \in Calls, Store(c)
      PROVE  MemInv'
  BY <1>5, StoreMem
<1>6. ASSUME NEW c \in Calls, Count(c)
      PROVE  MemInv'
  <2>1. /\ calls'[c].pc = "store" /\ calls'[c].count = attempts[calls'[c].ip]
        /\ calls'[c].op = calls[c].op /\ calls'[c].ip = calls[c].ip
        /\ calls[c].pc = "count" /\ \A d \in Calls : d # c => calls'[d] = calls[d]
    BY <1>6 DEF Count, Inv, CallRecords
  <2>2. \A d \in Calls : Counting(d)' => d = c
    BY <1>6, <2>1 DEF Count, LoopFree, Counting
  <2>3. UNCHANGED <<attempts, wrong>>
    BY <1>6 DEF Count, counter
  <2>4. \A ip \in Ips : Past(ip)' = Past(ip)
    BY <2>1 DEF Past
  <2>5. QED
    BY <2>1, <2>2, <2>3, <2>4 DEF MemInv, CountIsExact
<1>7. ASSUME NEW ip \in Ips, Tick(ip) \/ Evict(ip)
      PROVE  MemInv'
  <2>1. \A c \in Calls : ~Counting(c)
    BY <1>7 DEF Tick, Evict, LoopIdle, Counting
  <2>2. CASE Drop(ip)
    BY <2>1, <2>2, DropMem
  <2>3. CASE UNCHANGED <<rows, attempts, wrong, calls>>
    BY <2>3, QuietStep DEF Past, Counting
  <2>4. QED
    BY <1>7, <2>2, <2>3 DEF Tick, Evict
<1>8. ASSUME NEW email \in Emails, NEW row \in Rows, ChangeRow(email, row)
      PROVE  MemInv'
  <2>1. \A c \in Calls : ~Counting(c)
    BY <1>8 DEF ChangeRow, LoopIdle, Counting
  <2>2. \A c \in Calls : /\ calls'[c].pc = calls[c].pc /\ calls'[c].op = calls[c].op
                        /\ calls'[c].ip = calls[c].ip
    BY <1>8 DEF ChangeRow, Inv, CallRecords
  <2>3. QED
    BY <1>8, <2>1, <2>2, QuietStep DEF ChangeRow, counter, Past, Counting
<1>9. CASE UNCHANGED vars
  BY <1>9, QuietStep DEF vars, Past, Counting
<1>10. QED
  BY <1>2, <1>3, <1>4, <1>5, <1>6, <1>7, <1>8, <1>9 DEF Next, Continue

(* Over the memory store the counter is exact and bounded in every state.  *)
THEOREM AuthMemInvariant == ASSUME ~AwaitsYield PROVE Spec => []MemInv
<1>1. Inv /\ MemInv /\ [Next]_vars => MemInv'
  BY NextMem
<1>2. QED
  BY <1>1, InitMem, AuthInvariant, PTL DEF Spec

(* incrementLoginAttempts() loses no failed comparison and counts none     *)
(* twice.                                                                  *)
THEOREM AuthCountIsExact == ASSUME ~AwaitsYield PROVE Spec => []CountIsExact
<1>1. MemInv => CountIsExact
  BY DEF MemInv
<1>2. QED
  BY <1>1, AuthMemInvariant, PTL

(* However many calls are in flight, an address gets fewer than their      *)
(* number of attempts beyond the limit.                                    *)
THEOREM AuthOverrunIsBounded == ASSUME ~AwaitsYield PROVE Spec => []OverrunIsBounded
<1>1. Inv /\ MemInv => OverrunIsBounded
  <2> SUFFICES ASSUME Inv, MemInv, NEW ip \in Ips
               PROVE  attempts[ip] < Limit + Cardinality(Calls)
    BY DEF OverrunIsBounded
  <2>1. Past(ip) \in SUBSET Calls /\ attempts[ip] \in Nat
    BY AuthAssumption DEF Past, Inv
  <2>2. Cardinality(Past(ip)) \in Nat /\ Cardinality(Calls) \in Nat
    BY <2>1, PastCard
  <2>3. QED
    BY <2>1, <2>2, AuthAssumption DEF MemInv
<1>2. QED
  BY <1>1, AuthInvariant, AuthMemInvariant, PTL
=============================================================================
