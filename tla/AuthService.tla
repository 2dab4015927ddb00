------------------------------ MODULE AuthService ------------------------------
(***************************************************************************)
(* src/application/services/auth.service.ts: login() and validateLogin(),  *)
(* with the counter of failed attempts that the latter keeps per client    *)
(* address in the shared cache.                                            *)
(*                                                                         *)
(* Reading the user's row and comparing with bcrypt leave the event loop   *)
(* free in any case; the two cache calls of incrementLoginAttempts() do so *)
(* only when the cache is behind the network.                              *)
(***************************************************************************)
EXTENDS Integers, FiniteSets

CONSTANTS
  Calls,        \* concurrent service calls; a slot is reused
  Emails, Passwords, Ips,
  NoEmail,      \* an empty or missing e-mail
  NoRow,        \* the user table has no such row
  Limit,        \* attempts allowed per address (5 in the code)
  Ttl,          \* clock ticks until the counter's entry expires
  MaxCount,     \* bound: the counter is counted no further than this
  AwaitsYield   \* TRUE: other calls run between the counter's get and set

ASSUME AuthAssumption ==
  /\ NoEmail \notin Emails /\ NoRow \notin Passwords
  /\ Limit \in Nat \ {0} /\ Ttl \in Nat \ {0}
  /\ MaxCount \in Nat /\ MaxCount >= Limit
  /\ AwaitsYield \in BOOLEAN
  /\ IsFiniteSet(Calls)

Rows == Passwords \cup {NoRow}
NoEntry == -1
Success == {"valid", "session"}
Answers == Success \cup {"none", "too many", "not found", "invalid"}

VARIABLES
  rows,      \* the password (hash) of each user in the user table
  attempts,  \* the cached counter, 0 while there is none
  age,       \* clock ticks since the counter was set, or NoEntry
  wrong,     \* history: failed comparisons counted since the entry appeared
  calls

vars == <<rows, attempts, age, wrong, calls>>
counter == <<attempts, age, wrong>>

\* `held` records what the call's row has been since it began.
NoCall == [op |-> "none", pc |-> "idle", email |-> NoEmail, password |-> NoRow,
           ip |-> NoRow, row |-> NoRow, count |-> 0, answer |-> "none", held |-> {}]

Init ==
  /\ rows \in [Emails -> Rows]
  /\ attempts = [i \in Ips |-> 0]
  /\ age = [i \in Ips |-> NoEntry]
  /\ wrong = [i \in Ips |-> 0]
  /\ calls = [c \in Calls |-> NoCall]

\* Without a network a call that has read the counter stores it at once.
LoopFree(c) == AwaitsYield \/ \A d \in Calls \ {c} : calls[d].pc # "store"

\* userRepository.findByEmail() without its test for a missing e-mail: a
\* `where` without a value selects any row.
FindAny(email) ==
  IF email \in Emails THEN {rows[email]}
  ELSE IF \E e \in Emails : rows[e] # NoRow THEN {rows[e] : e \in Emails} \ {NoRow}
  ELSE {NoRow}

\* The rows userService.findByEmail() may be given.
Find(email) == IF email \in Emails THEN {rows[email]} ELSE {NoRow}

\* A call that ends keeps only what its answer has to be true of.
Return(c, answer) ==
  calls' = [calls EXCEPT ![c] = [NoCall EXCEPT !.answer = answer, !.email = calls[c].email,
                                   !.password = calls[c].password, !.held = calls[c].held]]
Go(c, pc) == calls' = [calls EXCEPT ![c].pc = pc]

\* A call starts.
Begin(c, op, pc, email, password, ip) ==
  /\ LoopFree(c) /\ calls[c].pc = "idle"
  /\ calls' = [calls EXCEPT ![c] =
                 [NoCall EXCEPT !.op = op, !.pc = pc, !.email = email,
                    !.password = password, !.ip = ip,
                    !.held = IF email \in Emails THEN {rows[email]} ELSE {NoRow}]]
  /\ UNCHANGED <<rows, counter>>

Login(c, email, password) == Begin(c, "login", "find", email, password, NoRow)
ValidateLogin(c, email, password, ip) ==
  Begin(c, "validate", "attempts", email, password, ip)

\* A plausible slip: an attempt that is refused counts as another attempt.
CheckAttemptsCounting(c) ==
  /\ LoopFree(c) /\ calls[c].pc = "attempts"
  /\ LET ip == calls[c].ip
     IN  IF attempts[ip] >= Limit
         THEN Return(c, "too many") /\ age' = [age EXCEPT ![ip] = 0]
         ELSE Go(c, "find") /\ UNCHANGED age
  /\ UNCHANGED <<rows, attempts, wrong>>

\* A plausible slip: an address is refused one attempt later.
CheckAttemptsLate(c) ==
  /\ LoopFree(c) /\ calls[c].pc = "attempts"
  /\ IF attempts[calls[c].ip] > Limit THEN Return(c, "too many") ELSE Go(c, "find")
  /\ UNCHANGED <<rows, counter>>

\* getLoginAttempts(), and the refusal of an address that has too many.
CheckAttempts(c) ==
  /\ LoopFree(c) /\ calls[c].pc = "attempts"
  /\ IF attempts[calls[c].ip] >= Limit THEN Return(c, "too many") ELSE Go(c, "find")
  /\ UNCHANGED <<rows, counter>>

\* findByEmail() throws for an unknown user, before anything is compared.
FindByEmail(c) ==
  /\ LoopFree(c) /\ calls[c].pc = "find"
  /\ \E row \in Find(calls[c].email) :
       IF row = NoRow THEN Return(c, "not found")
       ELSE calls' = [calls EXCEPT ![c].pc = "compare", ![c].row = row]
  /\ UNCHANGED <<rows, counter>>

\* A plausible slip: the counter is stored without reading it again.
CompareKeepingCount(c) ==
  /\ LoopFree(c) /\ calls[c].pc = "compare"
  /\ CASE calls[c].password = calls[c].row /\ calls[c].op = "validate" -> Return(c, "valid")
       [] calls[c].password = calls[c].row /\ calls[c].op = "login" -> Go(c, "session")
       [] calls[c].password # calls[c].row /\ calls[c].op = "login" -> Return(c, "invalid")
       [] OTHER -> Go(c, "store")
  /\ UNCHANGED <<rows, counter>>

\* hashService.compare(), and what each caller makes of the result.
Compare(c) ==
  /\ LoopFree(c) /\ calls[c].pc = "compare"
  /\ CASE calls[c].password = calls[c].row /\ calls[c].op = "validate" -> Return(c, "valid")
       [] calls[c].password = calls[c].row /\ calls[c].op = "login" -> Go(c, "session")
       [] calls[c].password # calls[c].row /\ calls[c].op = "login" -> Return(c, "invalid")
       [] OTHER -> Go(c, "count")
  /\ UNCHANGED <<rows, counter>>

\* login() signs the token and creates the session.
CreateSession(c) ==
  /\ LoopFree(c) /\ calls[c].pc = "session"
  /\ Return(c, "session")
  /\ UNCHANGED <<rows, counter>>

\* incrementLoginAttempts(): it reads the counter again ...
Count(c) ==
  /\ LoopFree(c) /\ calls[c].pc = "count"
  /\ calls' = [calls EXCEPT ![c].pc = "store", ![c].count = attempts[calls[c].ip]]
  /\ UNCHANGED <<rows, counter>>

\* A plausible slip: attempts left are counted down instead.
StoreDecreased(c) ==
  /\ LoopFree(c) /\ calls[c].pc = "store"
  /\ LET ip == calls[c].ip
     IN  /\ attempts' = [attempts EXCEPT ![ip] = calls[c].count - 1]
         /\ age' = [age EXCEPT ![ip] = 0]
         /\ wrong' = [wrong EXCEPT ![ip] = IF @ < MaxCount THEN @ + 1 ELSE @]
  /\ Return(c, "invalid")
  /\ UNCHANGED rows

\* ... and stores it, increased, for another hour.
Store(c) ==
  /\ LoopFree(c) /\ calls[c].pc = "store"
  /\ LET ip == calls[c].ip
     IN  /\ attempts' = [attempts EXCEPT ![ip] = IF calls[c].count < MaxCount
                                                 THEN calls[c].count + 1 ELSE MaxCount]
         /\ age' = [age EXCEPT ![ip] = 0]
         /\ wrong' = [wrong EXCEPT ![ip] = IF @ < MaxCount THEN @ + 1 ELSE @]
  /\ Return(c, "invalid")
  /\ UNCHANGED rows

\* The database, bcrypt, the token or the cache may fail, the memory store
\* excepted: the call ends with an error.
StepFails(c) ==
  /\ LoopFree(c) /\ calls[c].pc # "idle"
  /\ AwaitsYield \/ calls[c].pc \in {"find", "compare", "session"}
  /\ calls' = [calls EXCEPT ![c] = NoCall]
  /\ UNCHANGED <<rows, counter>>

\* The counter's entry goes: its time is over, or the cache makes room.
Drop(ip) ==
  /\ attempts' = [attempts EXCEPT ![ip] = 0]
  /\ age' = [age EXCEPT ![ip] = NoEntry]
  /\ wrong' = [wrong EXCEPT ![ip] = 0]
  /\ UNCHANGED <<rows, calls>>

\* Timers run only when no call is between the memory store's get and set.
LoopIdle == AwaitsYield \/ \A c \in Calls : calls[c].pc # "store"

Tick(ip) ==
  /\ LoopIdle /\ age[ip] # NoEntry
  /\ IF age[ip] + 1 = Ttl THEN Drop(ip)
     ELSE age' = [age EXCEPT ![ip] = @ + 1] /\ UNCHANGED <<rows, attempts, wrong, calls>>

Evict(ip) == LoopIdle /\ age[ip] # NoEntry /\ Drop(ip)

\* The user service creates, changes or deletes the row meanwhile.
ChangeRow(email, row) ==
  /\ LoopIdle /\ rows[email] # row
  /\ rows' = [rows EXCEPT ![email] = row]
  /\ calls' = [c \in Calls |-> IF calls[c].pc # "idle" /\ calls[c].email = email
                               THEN [calls[c] EXCEPT !.held = @ \cup {row}] ELSE calls[c]]
  /\ UNCHANGED counter

Request(c) ==
  \E email \in Emails \cup {NoEmail}, password \in Passwords :
    \/ Login(c, email, password)
    \/ \E ip \in Ips : ValidateLogin(c, email, password, ip)

Continue(c) ==
  CheckAttempts(c) \/ FindByEmail(c) \/ Compare(c) \/ CreateSession(c) \/ Count(c) \/ Store(c)

Next ==
  \/ \E c \in Calls : Request(c) \/ Continue(c) \/ StepFails(c)
  \/ \E ip \in Ips : Tick(ip) \/ Evict(ip)
  \/ \E email \in Emails, row \in Rows : ChangeRow(email, row)

Spec == Init /\ [][Next]_vars

\* Time passes, and the database, bcrypt and the cache answer.
FairSpec ==
  Spec /\ \A ip \in Ips : WF_vars(Tick(ip)) /\ \A c \in Calls : WF_vars(Continue(c))
-----------------------------------------------------------------------------
CallRecords ==
  [op : {"none", "login", "validate"},
   pc : {"idle", "attempts", "find", "compare", "session", "count", "store"},
   email : Emails \cup {NoEmail}, password : Rows, ip : Ips \cup {NoRow}, row : Rows,
   count : 0 .. MaxCount, answer : Answers, held : SUBSET Rows]

TypeOK ==
  /\ rows \in [Emails -> Rows]
  /\ attempts \in [Ips -> 0 .. MaxCount] /\ wrong \in [Ips -> 0 .. MaxCount]
  /\ age \in [Ips -> {NoEntry} \cup 0 .. (Ttl - 1)]
  /\ calls \in [Calls -> CallRecords]
  /\ \A c \in Calls : calls[c].pc \in {"attempts", "count", "store"} =>
                        calls[c].op = "validate" /\ calls[c].ip \in Ips

\* However the row changes during the call, what the call answers was true of
\* it at some moment of the call: a session or a "valid" only if the row had
\* the given password, a refusal only if it had another, NotFound only if
\* there was none.  In particular an empty e-mail is nobody.
AnswersAreJustified ==
  \A c \in Calls : LET k == calls[c] IN
    /\ k.answer \in Success => k.password \in k.held \ {NoRow}
    /\ k.answer = "invalid" => k.held \ {k.password, NoRow} # {}
    /\ k.answer = "not found" => NoRow \in k.held

\* With the memory store the counter is exact: no failed comparison is lost or
\* counted twice, however many are in flight on the address.
CountIsExact == \A ip \in Ips : attempts[ip] = wrong[ip]

\* The check of the counter and its increment are far apart, so calls in
\* flight can pass the check together; but by no more than their number.
OverrunIsBounded ==
  \A ip \in Ips : attempts[ip] < Limit + Cardinality(Calls)

\* An address that was locked out is let in again: what it is refused does
\* not prolong the lockout, and the calls already past the check run out.
LockoutEnds ==
  \A ip \in Ips : (attempts[ip] >= Limit) ~> (attempts[ip] < Limit)
=============================================================================
