------------------------ MODULE RequestExchangeProofs ------------------------
(***************************************************************************)
(* Proofs about RequestExchange for any set of clients and any number of   *)
(* attempts.  An attempt is sound (Sound) on its own; AttemptStep says how *)
(* a step may change one (Moves), from which follow both that the          *)
(* invariant is kept and that the step is one of RemoteCall's.             *)
(***************************************************************************)
EXTENDS RequestExchange, SequenceTheorems, TLAPS

(* Which step of a handler can follow which answer: the parameters of a    *)
(* route decide what its handler may come to, and a stored user is behind  *)
(* Save for good.                                                          *)
Shaped(a, r) ==
  /\ a.pc = "guards" => a = NewAttempt
  /\ a.pc = "open" => a.work \notin {"none", "ended"}
  /\ a.pc = "answered" <=> a.answer # NoStatus
  /\ a.work \in {"hash", "save", "emit"} => r \in Creating \ Transactional
  /\ a.work = "find" => r \notin Creating
  /\ a.stored => a.work \in {"emit", "ended"} /\ r \in Creating
  /\ a.work = "emit" => a.stored

(* A success has its effect; a failure has none, and its handler is done.  *)
Truthful(a, r) ==
  /\ Verdict(a) = "done" => (r \in Creating => a.stored)
  /\ Verdict(a) = "failed" => ~a.stored /\ a.work \in {"none", "ended"}

(* RecordsMatchAnswers, of one attempt.                                    *)
Recorded(a) ==
  /\ platform = "fastify" \/ a.pc # "answered" \/ a.work = "none"
       => a.record = NoStatus
  /\ platform = "express" /\ a.pc = "answered" /\ a.work # "none" =>
       IF a.answer \in Success THEN a.record = 200 ELSE a.record = a.answer

Sound(a, r) == a \in Attempt /\ Shaped(a, r) /\ Truthful(a, r) /\ Recorded(a)

Inv ==
  /\ platform \in {"express", "fastify"}
  /\ route \in [Clients -> Routes]
  /\ sent \in [Clients -> Seq(Attempt)]
  /\ \A c \in Clients : /\ Len(sent[c]) <= MaxAttempts
                        /\ \A k \in DOMAIN sent[c] : Sound(sent[c][k], route[c])

(* How one attempt may change: it is answered, goes on unseen, or has its  *)
(* effect while its client knows nothing yet, or was told nothing.         *)
Moves(a, b, r) ==
  \/ /\ a.pc # "answered" /\ b.pc = "answered"
     /\ b.stored = a.stored
  \/ /\ Verdict(b) = Verdict(a)
     /\ b.stored = a.stored
  \/ /\ Verdict(b) = Verdict(a) /\ Verdict(a) \in {"open", "unknown"}
     /\ r \in Creating /\ ~a.stored /\ b.stored
-----------------------------------------------------------------------------
(* What a guard finds.                                                     *)
LEMMA NewFields ==
  /\ NewAttempt.pc = "guards" /\ NewAttempt.work = "none"
  /\ NewAttempt.stored = FALSE
  /\ NewAttempt.answer = NoStatus /\ NewAttempt.record = NoStatus
  BY DEF NewAttempt

(* A new attempt is sound, whatever its route.                             *)
LEMMA NewSound ==
  ASSUME NEW r \in Routes
  PROVE  NewAttempt \in Attempt /\ Sound(NewAttempt, r)
<1>1. NewAttempt \in Attempt
  BY DEF NewAttempt, Attempt, Statuses, NoStatus, Success
<1>2. Verdict(NewAttempt) = "open"
  BY DEF NewAttempt, Verdict
<1>3. QED
  BY <1>1, <1>2 DEF Sound, Shaped, Truthful, Recorded, NewAttempt, NoStatus

(* What the filter and the metrics make of an outcome is a status.         *)
LEMMA StatusOfOutcome ==
  ASSUME NEW outcome \in Statuses \cup {NoStatus}
  PROVE  /\ FilterStatus(outcome) \in Statuses
         /\ MetricStatus(outcome) \in Statuses
         /\ outcome = NoStatus => FilterStatus(outcome) = 500
         /\ outcome # NoStatus => FilterStatus(outcome) = outcome
         /\ MetricStatus(outcome) = IF outcome \in Success THEN 200
                                   ELSE FilterStatus(outcome)
  BY DEF FilterStatus, MetricStatus, Statuses, Success, NoStatus

(* Delivering answers an attempt and leaves its handler alone.             *)
LEMMA DeliverIs ==
  ASSUME NEW a \in Attempt, NEW outcome \in Statuses \cup {NoStatus},
         NEW b, b = Deliver(a, outcome)
  PROVE  /\ b \in Attempt /\ b.pc = "answered"
         /\ b.work = a.work /\ b.stored = a.stored
         /\ platform = "express" => /\ b.answer = FilterStatus(outcome)
                                   /\ b.record = MetricStatus(outcome)
         /\ platform # "express" => b.answer = 500 /\ b.record = a.record
<1>1. CASE platform = "express"
  <2>1. /\ FilterStatus(outcome) \in Statuses
        /\ MetricStatus(outcome) \in Statuses
    BY StatusOfOutcome
  <2>2. b = [a EXCEPT !.pc = "answered", !.answer = FilterStatus(outcome),
                      !.record = MetricStatus(outcome)]
    BY <1>1 DEF Deliver
  <2>3. QED
    BY <1>1, <2>1, <2>2 DEF Attempt
<1>2. CASE platform # "express"
  <2>1. FilterStatus(NoStatus) = 500 /\ FilterStatus(NoStatus) \in Statuses
    BY StatusOfOutcome
  <2>2. QED
    BY <1>2, <2>1 DEF Deliver, Attempt
<1>3. QED
  BY <1>1, <1>2

(* Settling ends the handler, and delivers to whoever still listens.       *)
LEMMA SettleIs ==
  ASSUME NEW a \in Attempt, NEW outcome \in Statuses \cup {NoStatus},
         NEW b, b = Settle(a, outcome)
  PROVE  /\ b \in Attempt /\ b.work = "ended" /\ b.stored = a.stored
         /\ a.pc = "open" =>
              /\ b.pc = "answered"
              /\ platform = "express" => /\ b.answer = FilterStatus(outcome)
                                        /\ b.record = MetricStatus(outcome)
              /\ platform # "express" => b.answer = 500 /\ b.record = a.record
         /\ a.pc # "open" =>
              b.pc = a.pc /\ b.answer = a.answer /\ b.record = a.record
<1>1. CASE a.pc = "open"
  <2>1. PICK d : d = Deliver(a, outcome)
    OBVIOUS
  <2>2. b = [d EXCEPT !.work = "ended"]
    BY <1>1, <2>1 DEF Settle
  <2>3. d \in Attempt
    BY <2>1, DeliverIs
  <2>4. /\ b \in Attempt /\ b.work = "ended" /\ b.stored = d.stored
        /\ b.pc = d.pc /\ b.answer = d.answer /\ b.record = d.record
    BY <2>2, <2>3 DEF Attempt
  <2>5. QED
    BY <1>1, <2>1, <2>4, DeliverIs
<1>2. CASE a.pc # "open"
  <2>1. b = [a EXCEPT !.work = "ended"]
    BY <1>2 DEF Settle
  <2>2. QED
    BY <1>2, <2>1 DEF Attempt
<1>3. QED
  BY <1>1, <1>2

(* A result of the handler is dropped after an answer; before, it becomes  *)
(* an answer that fits what the handler did.                               *)
LEMMA SettleMoves ==
  ASSUME platform \in {"express", "fastify"},
         NEW r \in Routes, NEW a, Sound(a, r),
         a.pc # "guards", a.work # "none",
         NEW outcome \in (Statuses \cup {NoStatus}) \ {408},
         outcome \in Success => (r \in Creating => a.stored),
         outcome \notin Success => ~a.stored,
         NEW b, b = Settle(a, outcome)
  PROVE  Sound(b, r) /\ Moves(a, b, r)
<1> USE DEF Success
<1>1. /\ a \in Attempt /\ Shaped(a, r) /\ Truthful(a, r) /\ Recorded(a)
      /\ outcome \in Statuses \cup {NoStatus}
  BY DEF Sound
<1>2. b \in Attempt /\ b.work = "ended" /\ b.stored = a.stored
  BY <1>1, SettleIs
<1>3. CASE a.pc = "open"
  <2>1. b.pc = "answered" /\ b.answer # NoStatus /\ Shaped(b, r)
    <3>1. b.pc = "answered" /\ b.answer \in Statuses
      BY <1>1, <1>3, SettleIs, StatusOfOutcome DEF Statuses
    <3>2. b.answer # NoStatus
      BY <3>1 DEF Statuses, NoStatus
    <3>3. QED
      BY <1>1, <1>2, <3>1, <3>2 DEF Shaped
  <2>2. CASE platform = "express"
    <3>1. /\ b.answer = FilterStatus(outcome) /\ b.record = MetricStatus(outcome)
          /\ b.answer \in Success <=> outcome \in Success
          /\ b.answer # 408
      BY <1>1, <1>3, <2>2, SettleIs, StatusOfOutcome DEF NoStatus
    <3>2. Verdict(b) = IF outcome \in Success THEN "done" ELSE "failed"
      BY <2>1, <2>2, <3>1 DEF Verdict
    <3>3. Recorded(b)
      BY <1>1, <1>2, <2>1, <2>2, <3>1, StatusOfOutcome DEF Recorded
    <3>4. QED
      BY <1>2, <1>3, <2>1, <3>2, <3>3 DEF Sound, Truthful, Moves
  <2>3. CASE platform = "fastify"
    <3>1. b.answer = 500 /\ b.record = a.record
      BY <1>1, <1>3, <2>3, SettleIs
    <3>2. Verdict(b) = "unknown"
      BY <2>1, <2>3, <3>1 DEF Verdict
    <3>3. Recorded(b)
      BY <1>1, <2>3, <3>1 DEF Recorded
    <3>4. QED
      BY <1>2, <1>3, <2>1, <3>2, <3>3 DEF Sound, Truthful, Moves
  <2>4. QED
    BY <2>2, <2>3
<1>4. CASE a.pc = "answered"
  <2>1. b.pc = a.pc /\ b.answer = a.answer /\ b.record = a.record
    BY <1>1, <1>4, SettleIs
  <2>2. Verdict(b) = Verdict(a)
    BY <2>1 DEF Verdict
  <2>3. QED
    BY <1>1, <1>2, <1>4, <2>1, <2>2
    DEF Sound, Shaped, Truthful, Recorded, Moves
<1>5. QED
  BY <1>1, <1>3, <1>4 DEF Attempt

(* The time-out answers a request whose handler goes on.                   *)
LEMMA TimeOutMoves ==
  ASSUME platform \in {"express", "fastify"},
         NEW r \in Routes, NEW a, Sound(a, r), a.pc = "open",
         NEW b, b = Deliver(a, 408)
  PROVE  Sound(b, r) /\ Moves(a, b, r)
<1> USE DEF Success
<1>1. /\ a \in Attempt /\ Shaped(a, r) /\ Truthful(a, r) /\ Recorded(a)
      /\ 408 \in Statuses
  BY DEF Sound, Statuses
<1>2. /\ b \in Attempt /\ b.pc = "answered"
      /\ b.work = a.work /\ b.stored = a.stored
      /\ platform = "express" => b.answer = 408 /\ b.record = 408
      /\ platform = "fastify" => b.answer = 500 /\ b.record = a.record
  BY <1>1, DeliverIs, StatusOfOutcome DEF NoStatus
<1>3. Shaped(b, r)
  BY <1>1, <1>2 DEF Shaped, NoStatus
<1>4. Verdict(b) = "unknown"
  BY <1>2 DEF Verdict
<1>5. Recorded(b)
  BY <1>1, <1>2 DEF Recorded, Shaped
<1>6. QED
  BY <1>1, <1>2, <1>3, <1>4, <1>5 DEF Sound, Truthful, Moves

(* Every step of a request makes a sound attempt of a sound one.           *)
LEMMA AttemptStep ==
  ASSUME Inv, NEW c \in Clients, NEW k \in 1 .. MaxAttempts,
         Refuse(c, k) \/ Admit(c, k) \/ TimeOut(c, k) \/ Work(c, k)
  PROVE  /\ k \in DOMAIN sent[c]
         /\ \E b : /\ Become(c, k, b) /\ Sound(b, route[c])
                  /\ Moves(sent[c][k], b, route[c])
<1> DEFINE a == sent[c][k]
           r == route[c]
<1>1. k \in DOMAIN sent[c]
  BY DEF Refuse, Admit, TimeOut, Work, TransactionThrows, BodyRefused, Resolved,
         Hash, Save, CreateFails, Emit, Find, At, Working
<1>2. /\ platform \in {"express", "fastify"} /\ r \in Routes
      /\ Sound(a, r) /\ a \in Attempt /\ Shaped(a, r)
      /\ Truthful(a, r) /\ Recorded(a)
  BY <1>1 DEF Inv, Sound
<1>3. CASE Refuse(c, k)
  <2>1. PICK b : b = [a EXCEPT !.pc = "answered", !.answer = 401]
    OBVIOUS
  <2>2. Become(c, k, b) /\ a.pc = "guards"
    BY <1>3, <2>1 DEF Refuse, At
  <2>3. a.work = "none" /\ a.stored = FALSE /\ a.record = NoStatus
    BY <1>2, <2>2, NewFields DEF Shaped
  <2>4. b \in Attempt
    <3>1. 401 \in Statuses
      BY DEF Statuses
    <3>2. QED
      BY <1>2, <2>1, <3>1 DEF Attempt
  <2>5. /\ b.pc = "answered" /\ b.answer = 401 /\ b.work = a.work
        /\ b.stored = a.stored /\ b.record = a.record
    BY <1>2, <2>1 DEF Attempt
  <2>6. Verdict(b) = "failed"
    BY <1>2, <2>5 DEF Verdict, Success
  <2>7. QED
    BY <1>1, <2>2, <2>3, <2>4, <2>5, <2>6
    DEF Sound, Shaped, Truthful, Recorded, Moves, NoStatus
<1>4. CASE Admit(c, k)
  <2>1. PICK b : b = [a EXCEPT !.pc = "open", !.work = "params"]
    OBVIOUS
  <2>2. Become(c, k, b) /\ a.pc = "guards"
    BY <1>4, <2>1 DEF Admit, At
  <2>3. a.stored = FALSE /\ a.answer = NoStatus /\ a.record = NoStatus
    BY <1>2, <2>2, NewFields DEF Shaped
  <2>4. /\ b \in Attempt /\ b.pc = "open" /\ b.work = "params"
        /\ b.stored = a.stored /\ b.answer = a.answer /\ b.record = a.record
    BY <1>2, <2>1 DEF Attempt
  <2>5. Verdict(b) = "open" /\ Verdict(a) = "open"
    BY <2>2, <2>4 DEF Verdict
  <2>6. QED
    BY <1>1, <2>2, <2>3, <2>4, <2>5 DEF Sound, Shaped, Truthful, Recorded, Moves
<1>5. CASE TimeOut(c, k)
  BY <1>1, <1>2, <1>5, TimeOutMoves DEF TimeOut, At
<1>6. ASSUME NEW outcome \in (Statuses \cup {NoStatus}) \ {408},
             Become(c, k, Settle(a, outcome)), a.work # "none",
             outcome \in Success => (r \in Creating => a.stored),
             outcome \notin Success => ~a.stored
      PROVE  \E b : Become(c, k, b) /\ Sound(b, r) /\ Moves(a, b, r)
  <2>1. a.pc # "guards"
    BY <1>2, <1>6, NewFields DEF Shaped
  <2>2. QED
    BY <1>2, <1>6, <2>1, SettleMoves
<1>7. {0, 400, 404, 500} \subseteq ((Statuses \cup {NoStatus}) \ {408}) \ Success
      /\ {200, 201} \subseteq (Statuses \cup {NoStatus}) \ {408}
  BY DEF Statuses, Success, NoStatus
<1>8. CASE TransactionThrows(c, k) \/ BodyRefused(c, k) \/ CreateFails(c, k)
  <2>1. a.work \in {"params", "hash", "save"} /\ ~a.stored
    BY <1>2, <1>8 DEF TransactionThrows, BodyRefused, CreateFails, Working, Shaped
  <2>2. \E outcome \in {0, 400, 500} : Become(c, k, Settle(a, outcome))
    BY <1>8 DEF TransactionThrows, BodyRefused, CreateFails, NoStatus
  <2>3. QED
    BY <1>1, <1>6, <1>7, <2>1, <2>2
<1>9. CASE Emit(c, k)
  <2>1. a.work = "emit" /\ a.stored /\ Become(c, k, Settle(a, 201))
    BY <1>2, <1>9 DEF Emit, Working, Shaped
  <2>2. QED
    BY <1>1, <1>6, <1>7, <2>1 DEF Success
<1>10. CASE Find(c, k)
  <2>1. a.work = "find" /\ r \notin Creating /\ ~a.stored
    BY <1>2, <1>10 DEF Find, Working, Shaped
  <2>2. \E outcome \in {0, 200, 404} : Become(c, k, Settle(a, outcome))
    BY <1>10 DEF Find, NoStatus
  <2>3. QED
    BY <1>1, <1>6, <1>7, <2>1, <2>2 DEF Success
<1>11. CASE Resolved(c, k) \/ Hash(c, k) \/ Save(c, k)
  <2>1. PICK b : /\ Become(c, k, b)
                 /\ \/ /\ a.work = "params" /\ r \notin Transactional
                       /\ b = [a EXCEPT !.work = IF r \in Creating THEN "hash" ELSE "find"]
                    \/ a.work = "hash" /\ b = [a EXCEPT !.work = "save"]
                    \/ /\ a.work = "save"
                       /\ b = [a EXCEPT !.work = "emit", !.stored = TRUE]
    BY <1>11 DEF Resolved, Hash, Save, Working
  <2>2. /\ b \in Attempt /\ b.pc = a.pc /\ b.answer = a.answer /\ b.record = a.record
        /\ \/ /\ a.work = "params" /\ r \notin Transactional
              /\ b.work = IF r \in Creating THEN "hash" ELSE "find"
              /\ b.stored = a.stored
           \/ a.work = "hash" /\ b.work = "save" /\ b.stored = a.stored
           \/ a.work = "save" /\ b.work = "emit" /\ b.stored = TRUE
    BY <1>2, <2>1 DEF Attempt
  <2>3. Verdict(b) = Verdict(a)
    BY <2>2 DEF Verdict
  <2>4. a.pc # "guards" /\ ~a.stored /\ (a.work \in {"hash", "save"} => r \in Creating)
    BY <1>2, <2>2, NewFields DEF Shaped
  <2>5. Verdict(a) \in {"open", "unknown"} \/ r \notin Creating
    BY <1>2, <2>2, <2>4 DEF Truthful, Verdict
  <2>6. Shaped(b, r)
    BY <1>2, <2>2, <2>4 DEF Shaped
  <2>7. Truthful(b, r) /\ Recorded(b) /\ Moves(a, b, r)
    BY <1>2, <2>2, <2>3, <2>4, <2>5 DEF Truthful, Recorded, Moves
  <2>8. QED
    BY <1>1, <2>1, <2>2, <2>6, <2>7 DEF Sound
<1>12. QED
  BY <1>3, <1>4, <1>5, <1>8, <1>9, <1>10, <1>11 DEF Work

(* A step of one attempt touches no other.                                 *)
LEMMA BecomeEffect ==
  ASSUME Inv, NEW c \in Clients, NEW k \in DOMAIN sent[c], NEW b \in Attempt,
         Become(c, k, b)
  PROVE  /\ sent' \in [Clients -> Seq(Attempt)]
         /\ \A d \in Clients : /\ Len(sent'[d]) = Len(sent[d])
                              /\ DOMAIN sent'[d] = DOMAIN sent[d]
         /\ \A d \in Clients : \A j \in DOMAIN sent[d] :
              sent'[d][j] = IF d = c /\ j = k THEN b ELSE sent[d][j]
<1>1. sent \in [Clients -> Seq(Attempt)]
  BY DEF Inv
<1>2. sent' = [sent EXCEPT ![c] = [sent[c] EXCEPT ![k] = b]]
  BY DEF Become
<1>3. \A d \in Clients : sent[d] \in Seq(Attempt) /\ DOMAIN sent[d] = 1 .. Len(sent[d])
  BY <1>1, LenProperties
<1>4. PICK s : s = [sent[c] EXCEPT ![k] = b]
  OBVIOUS
<1>5. /\ s \in Seq(Attempt) /\ Len(s) = Len(sent[c])
      /\ \A j \in DOMAIN sent[c] : s[j] = IF j = k THEN b ELSE sent[c][j]
  BY <1>3, <1>4, ExceptSeq
<1>6. DOMAIN s = DOMAIN sent[c]
  BY <1>3, <1>5, LenProperties
<1>7. \A d \in Clients : sent'[d] = IF d = c THEN s ELSE sent[d]
  BY <1>1, <1>2, <1>4
<1>8. QED
  BY <1>1, <1>2, <1>3, <1>4, <1>5, <1>6, <1>7

(* What Sound says does not depend on the state beyond the platform.       *)
LEMMA SoundStays ==
  ASSUME platform' = platform
  PROVE  \A a, r : Sound(a, r) => Sound(a, r)'
  BY DEF Sound, Shaped, Truthful, Recorded, Verdict

(* A client's new attempt comes last, behind attempts that stay.           *)
LEMMA SendEffect ==
  ASSUME Inv, NEW c \in Clients, Send(c)
  PROVE  /\ Len(sent[c]) + 1 \in 1 .. MaxAttempts
         /\ sent' \in [Clients -> Seq(Attempt)] /\ route' \in [Clients -> Routes]
         /\ \A d \in Clients \ {c} : sent'[d] = sent[d] /\ route'[d] = route[d]
         /\ DOMAIN sent[c] = 1 .. Len(sent[c])
         /\ Len(sent'[c]) = Len(sent[c]) + 1
         /\ DOMAIN sent'[c] = 1 .. Len(sent[c]) + 1
         /\ \A k \in DOMAIN sent[c] :
              sent'[c][k] = sent[c][k] /\ route'[c] = route[c]
         /\ sent'[c][Len(sent[c]) + 1] = NewAttempt
<1>1. /\ sent[c] \in Seq(Attempt) /\ NewAttempt \in Attempt
      /\ sent \in [Clients -> Seq(Attempt)] /\ route \in [Clients -> Routes]
      /\ Len(sent[c]) \in Nat /\ DOMAIN sent[c] = 1 .. Len(sent[c])
  BY NewSound, LenProperties DEF Inv, Routes
<1>2. sent' = [sent EXCEPT ![c] = Append(sent[c], NewAttempt)]
  BY DEF Send
<1>3. PICK s : s = Append(sent[c], NewAttempt)
  OBVIOUS
<1>4. /\ s \in Seq(Attempt) /\ Len(s) = Len(sent[c]) + 1
      /\ \A k \in 1 .. Len(sent[c]) : s[k] = sent[c][k]
      /\ s[Len(sent[c]) + 1] = NewAttempt
  BY <1>1, <1>3, AppendProperties
<1>5. DOMAIN s = 1 .. Len(sent[c]) + 1
  BY <1>4, LenProperties
<1>6. sent' \in [Clients -> Seq(Attempt)] /\ sent'[c] = s
      /\ \A d \in Clients \ {c} : sent'[d] = sent[d]
  BY <1>1, <1>2, <1>3, <1>4
<1>7. /\ route' \in [Clients -> Routes]
      /\ \A d \in Clients \ {c} : route'[d] = route[d]
      /\ \A k \in DOMAIN sent[c] : route'[c] = route[c]
  <2>1. CASE sent[c] = <<>>
    <3>1. Len(sent[c]) = 0 /\ DOMAIN sent[c] = {}
      BY <1>1, <2>1
    <3>2. PICK r \in Routes : route' = [route EXCEPT ![c] = r]
      BY <2>1 DEF Send
    <3>3. QED
      BY <1>1, <3>1, <3>2
  <2>2. CASE sent[c] # <<>>
    BY <1>1, <2>2 DEF Send
  <2>3. QED
    BY <2>1, <2>2
<1>8. Len(sent[c]) + 1 \in 1 .. MaxAttempts
  <2>1. Len(sent[c]) \in Nat /\ Len(sent[c]) < MaxAttempts
    BY <1>1 DEF Send
  <2>2. QED
    BY <2>1, ExchangeAssumption
<1>9. QED
  BY <1>1, <1>4, <1>5, <1>6, <1>7, <1>8

(* Before the first request the invariant holds.                           *)
LEMMA InitInv == Init => Inv
<1> SUFFICES ASSUME Init
             PROVE  Inv
  OBVIOUS
<1>1. sent \in [Clients -> Seq(Attempt)] /\ route \in [Clients -> Routes]
  BY EmptySeq DEF Init, Routes
<1>2. ASSUME NEW c \in Clients
      PROVE  Len(sent[c]) = 0 /\ DOMAIN sent[c] = {}
  BY <1>2 DEF Init
<1>3. QED
  BY <1>1, <1>2, ExchangeAssumption DEF Init, Inv

(* Every step of every client's attempts keeps the invariant.              *)
LEMMA NextInv == Inv /\ [Next]_vars => Inv'
<1> SUFFICES ASSUME Inv, [Next]_vars
             PROVE  Inv'
  OBVIOUS
<1>1. ASSUME NEW c \in Clients, Send(c)
      PROVE  Inv'
  <2>1. platform' = platform /\ platform' \in {"express", "fastify"}
    BY <1>1 DEF Send, Inv
  <2>2. \A a, r : Sound(a, r) => Sound(a, r)'
    BY <2>1, SoundStays
  <2>3. ASSUME NEW d \in Clients, d # c
        PROVE  /\ Len(sent'[d]) <= MaxAttempts
               /\ \A k \in DOMAIN sent'[d] : Sound(sent[d][k], route[d])'
    BY <1>1, <2>2, <2>3, SendEffect DEF Inv
  <2>4. /\ Len(sent'[c]) <= MaxAttempts
        /\ \A k \in DOMAIN sent'[c] : Sound(sent[c][k], route[c])'
    <3>1. Len(sent'[c]) <= MaxAttempts
      BY <1>1, SendEffect, ExchangeAssumption
    <3>2. ASSUME NEW k \in DOMAIN sent[c]
          PROVE  Sound(sent'[c][k], route'[c])
      <4>1. sent'[c][k] = sent[c][k] /\ route'[c] = route[c]
        BY <1>1, <3>2, SendEffect
      <4>2. Sound(sent[c][k], route[c])
        BY <3>2 DEF Inv
      <4>3. QED
        BY <4>1, <4>2
    <3>3. Sound(sent'[c][Len(sent[c]) + 1], route'[c])
      <4>1. /\ sent'[c][Len(sent[c]) + 1] = NewAttempt
            /\ route'[c] \in Routes
        BY <1>1, SendEffect
      <4>2. QED
        BY <4>1, NewSound
    <3>4. \A k \in DOMAIN sent'[c] : Sound(sent'[c][k], route'[c])
      <4>1. DOMAIN sent'[c] = DOMAIN sent[c] \cup {Len(sent[c]) + 1}
        BY <1>1, SendEffect
      <4>2. QED
        BY <3>2, <3>3, <4>1
    <3>5. QED
      BY <2>2, <3>1, <3>4
  <2>5. QED
    BY <1>1, <2>1, <2>3, <2>4, SendEffect DEF Inv
<1>2. ASSUME NEW c \in Clients, MoveOn(c)
      PROVE  Inv'
  <2>1. /\ platform' = platform /\ route' = route
        /\ sent' = [sent EXCEPT ![c] = <<>>]
    BY <1>2 DEF MoveOn
  <2>2. /\ sent' \in [Clients -> Seq(Attempt)]
        /\ \A d \in Clients : sent'[d] = IF d = c THEN <<>> ELSE sent[d]
    BY <2>1, EmptySeq DEF Inv
  <2>3. \A a, r : Sound(a, r) => Sound(a, r)'
    BY <2>1, SoundStays
  <2>4. QED
    BY <2>1, <2>2, <2>3, ExchangeAssumption DEF Inv
<1>3. ASSUME NEW c \in Clients, NEW k \in 1 .. MaxAttempts,
             Refuse(c, k) \/ Admit(c, k) \/ TimeOut(c, k) \/ Work(c, k)
      PROVE  Inv'
  <2>1. k \in DOMAIN sent[c]
    BY <1>3, AttemptStep
  <2>2. PICK b : Become(c, k, b) /\ Sound(b, route[c])
    BY <1>3, AttemptStep
  <2>3. b \in Attempt /\ platform' = platform /\ route' = route
    BY <2>2 DEF Sound, Become
  <2>4. \A a, r : Sound(a, r) => Sound(a, r)'
    BY <2>3, SoundStays
  <2>5. /\ sent' \in [Clients -> Seq(Attempt)]
        /\ \A d \in Clients : /\ Len(sent'[d]) = Len(sent[d])
                             /\ DOMAIN sent'[d] = DOMAIN sent[d]
        /\ \A d \in Clients : \A j \in DOMAIN sent[d] :
             sent'[d][j] = IF d = c /\ j = k THEN b ELSE sent[d][j]
    BY <2>1, <2>2, <2>3, BecomeEffect
  <2>6. \A d \in Clients : \A j \in DOMAIN sent'[d] : Sound(sent'[d][j], route'[d])
    BY <2>2, <2>3, <2>5 DEF Inv
  <2>7. QED
    BY <2>3, <2>4, <2>5, <2>6 DEF Inv
<1>4. CASE UNCHANGED vars
  <2>1. platform' = platform /\ route' = route /\ sent' = sent
    BY <1>4 DEF vars
  <2>2. \A a, r : Sound(a, r) => Sound(a, r)'
    BY <2>1, SoundStays
  <2>3. QED
    BY <2>1, <2>2 DEF Inv
<1>5. QED
  BY <1>1, <1>2, <1>3, <1>4 DEF Next

(* The inductive invariant holds in every state.                           *)
THEOREM ExchangeInvariant == Spec => []Inv
  BY InitInv, NextInv, PTL DEF Spec

(* It implies what the runs check.                                         *)
LEMMA InvImplies == Inv => TypeOK /\ RecordsMatchAnswers
  BY DEF Inv, Sound, Shaped, Recorded, TypeOK, RecordsMatchAnswers

(* Types, for any number of clients and attempts.                          *)
THEOREM ExchangeTypeOK == Spec => []TypeOK
  BY ExchangeInvariant, InvImplies, PTL

(* The metrics hold what each client was told, and nothing else: what a    *)
(* handler comes to after its time-out does not reach them.                *)
THEOREM ExchangeRecords == Spec => []RecordsMatchAnswers
  BY ExchangeInvariant, InvImplies, PTL
-----------------------------------------------------------------------------
(* A verdict is read off the answer, and the platform, which stays.        *)
LEMMA VerdictStays ==
  ASSUME platform' = platform
  PROVE  \A a : Verdict(a)' = Verdict(a)
  BY DEF Verdict

(* A request names a client and one of its attempts.                       *)
LEMMA RequestIs ==
  /\ \A q \in Requests : q[1] \in Clients /\ q[2] \in 1 .. MaxAttempts
  /\ \A c \in Clients, k \in 1 .. MaxAttempts :
       <<c, k>> \in Requests /\ <<c, k>>[1] = c /\ <<c, k>>[2] = k
  /\ \A q, x \in Requests : q[1] = x[1] /\ q[2] = x[2] => q = x
  BY DEF Requests

(* The mapping before a step, request by request.                          *)
LEMMA MappedNow ==
  ASSUME Inv
  PROVE  /\ verdict \in [Requests -> Remote!Verdicts]
         /\ writes \in [Requests -> BOOLEAN] /\ effect \in [Requests -> BOOLEAN]
         /\ \A q \in Requests :
              /\ verdict[q] = IF q[2] \in DOMAIN sent[q[1]]
                              THEN Verdict(sent[q[1]][q[2]]) ELSE "idle"
              /\ writes[q] <=> q[2] \in DOMAIN sent[q[1]] /\ route[q[1]] \in Creating
              /\ effect[q] <=> q[2] \in DOMAIN sent[q[1]] /\ sent[q[1]][q[2]].stored
<1>1. \A a : Verdict(a) \in Remote!Verdicts
  BY DEF Verdict, Remote!Verdicts
<1>2. "idle" \in Remote!Verdicts
  BY DEF Remote!Verdicts
<1>3. QED
  BY <1>1, <1>2 DEF verdict, writes, effect, Known

(* The mapping after a step, request by request.                           *)
LEMMA MappedNext ==
  ASSUME NEW v, NEW w, NEW e, platform' = platform,
         v \in [Requests -> Remote!Verdicts],
         w \in [Requests -> BOOLEAN], e \in [Requests -> BOOLEAN],
         \A q \in Requests :
           /\ v[q] = IF q[2] \in DOMAIN sent'[q[1]]
                     THEN Verdict(sent'[q[1]][q[2]]) ELSE "idle"
           /\ w[q] <=> q[2] \in DOMAIN sent'[q[1]] /\ route'[q[1]] \in Creating
           /\ e[q] <=> q[2] \in DOMAIN sent'[q[1]] /\ sent'[q[1]][q[2]].stored
  PROVE  verdict' = v /\ writes' = w /\ effect' = e
<1>1. verdict' = v
  BY VerdictStays DEF verdict, Known
<1>2. writes' = w
  BY DEF writes, Known
<1>3. effect' = e
  BY DEF effect, Known
<1>4. QED
  BY <1>1, <1>2, <1>3

(* A step of one attempt is a step of one request, or of none.             *)
LEMMA AttemptImplements ==
  ASSUME Inv, NEW c \in Clients, NEW k \in DOMAIN sent[c], NEW b,
         Become(c, k, b), Sound(b, route[c]), Moves(sent[c][k], b, route[c])
  PROVE  \/ \E q \in Requests : Remote!Answer(q) \/ Remote!Effect(q)
         \/ UNCHANGED <<verdict, writes, effect>>
<1> DEFINE a == sent[c][k]
<1>1. /\ platform' = platform /\ route' = route /\ b \in Attempt
      /\ \A d \in Clients : DOMAIN sent'[d] = DOMAIN sent[d]
      /\ \A d \in Clients : \A j \in DOMAIN sent[d] :
           sent'[d][j] = IF d = c /\ j = k THEN b ELSE sent[d][j]
  BY BecomeEffect DEF Become, Sound
<1>2. k \in 1 .. MaxAttempts /\ a \in Attempt
  <2>1. sent[c] \in Seq(Attempt) /\ Len(sent[c]) <= MaxAttempts /\ a \in Attempt
    BY DEF Inv, Sound
  <2>2. Len(sent[c]) \in Nat /\ k \in 1 .. Len(sent[c])
    BY <2>1, LenProperties
  <2>3. QED
    BY <2>1, <2>2, ExchangeAssumption
<1>3. PICK q \in Requests : q[1] = c /\ q[2] = k
  BY <1>2, RequestIs
<1>4. /\ verdict[q] = Verdict(a) /\ writes[q] = (route[c] \in Creating)
      /\ effect[q] = a.stored
  BY <1>2, <1>3, MappedNow DEF Attempt
<1>5. /\ verdict' = [verdict EXCEPT ![q] = Verdict(b)]
      /\ writes' = writes
      /\ effect' = [effect EXCEPT ![q] = b.stored]
  <2>1. PICK v, e : /\ v = [verdict EXCEPT ![q] = Verdict(b)]
                    /\ e = [effect EXCEPT ![q] = b.stored]
    OBVIOUS
  <2>2. /\ v \in [Requests -> Remote!Verdicts] /\ e \in [Requests -> BOOLEAN]
        /\ v[q] = Verdict(b) /\ e[q] = b.stored
        /\ \A x \in Requests : x # q => v[x] = verdict[x] /\ e[x] = effect[x]
    BY <1>1, <2>1, MappedNow DEF Attempt, Verdict, Remote!Verdicts
  <2>3. ASSUME NEW x \in Requests
        PROVE  /\ v[x] = IF x[2] \in DOMAIN sent'[x[1]]
                         THEN Verdict(sent'[x[1]][x[2]]) ELSE "idle"
               /\ writes[x] <=> /\ x[2] \in DOMAIN sent'[x[1]]
                               /\ route'[x[1]] \in Creating
               /\ e[x] <=> x[2] \in DOMAIN sent'[x[1]] /\ sent'[x[1]][x[2]].stored
    <3>1. x[1] \in Clients /\ (x = q <=> x[1] = c /\ x[2] = k)
      BY <1>3, RequestIs
    <3>2. CASE x = q
      <4>1. k \in DOMAIN sent'[c] /\ sent'[c][k] = b /\ route'[c] = route[c]
        BY <1>1
      <4>2. /\ v[x] = Verdict(b) /\ e[x] = b.stored
            /\ writes[x] = (route[c] \in Creating)
        BY <1>4, <2>2, <3>2
      <4>3. QED
        BY <3>1, <3>2, <4>1, <4>2
    <3>3. CASE x # q
      <4>1. v[x] = verdict[x] /\ e[x] = effect[x]
        BY <2>2, <3>3
      <4>2. /\ DOMAIN sent'[x[1]] = DOMAIN sent[x[1]] /\ route'[x[1]] = route[x[1]]
            /\ x[2] \in DOMAIN sent[x[1]] =>
                 sent'[x[1]][x[2]] = sent[x[1]][x[2]]
        BY <1>1, <3>1, <3>3
      <4>3. /\ verdict[x] = IF x[2] \in DOMAIN sent[x[1]]
                            THEN Verdict(sent[x[1]][x[2]]) ELSE "idle"
            /\ writes[x] <=> x[2] \in DOMAIN sent[x[1]] /\ route[x[1]] \in Creating
            /\ effect[x] <=> x[2] \in DOMAIN sent[x[1]] /\ sent[x[1]][x[2]].stored
        BY MappedNow
      <4>4. CASE x[2] \in DOMAIN sent[x[1]]
        BY <4>1, <4>2, <4>3, <4>4
      <4>5. CASE x[2] \notin DOMAIN sent[x[1]]
        BY <4>1, <4>2, <4>3, <4>5
      <4>6. QED
        BY <4>4, <4>5
    <3>4. QED
      BY <3>2, <3>3
  <2>4. verdict' = v /\ writes' = writes /\ effect' = e
    <3>1. PICK w : w = writes
      OBVIOUS
    <3>2. w \in [Requests -> BOOLEAN]
      BY <3>1, MappedNow
    <3>3. QED
      BY <1>1, <2>2, <2>3, <3>1, <3>2, MappedNext
  <2>5. QED
    BY <2>1, <2>4
<1>6. a.pc # "answered" => Verdict(a) = "open"
  BY DEF Verdict
<1>7. b.pc = "answered" => Verdict(b) \in {"done", "failed", "unknown"}
  BY DEF Verdict
<1>8. Truthful(b, route[c])
  BY DEF Sound
<1>9. CASE a.pc # "answered" /\ b.pc = "answered" /\ b.stored = a.stored
  <2>1. verdict[q] = "open" /\ effect' = effect
    BY <1>4, <1>5, <1>6, <1>9, MappedNow
  <2>2. CASE Verdict(b) = "done"
    <3>1. writes[q] => effect[q]
      BY <1>4, <1>8, <1>9, <2>2 DEF Truthful
    <3>2. QED
      BY <1>3, <1>5, <2>1, <2>2, <3>1 DEF Remote!Answer
  <2>3. CASE Verdict(b) = "failed"
    <3>1. ~effect[q]
      BY <1>4, <1>8, <1>9, <2>3 DEF Truthful
    <3>2. QED
      BY <1>3, <1>5, <2>1, <2>3, <3>1 DEF Remote!Answer
  <2>4. CASE Verdict(b) = "unknown"
    BY <1>3, <1>5, <2>1, <2>4 DEF Remote!Answer
  <2>5. QED
    BY <1>7, <1>9, <2>2, <2>3, <2>4
<1>10. CASE Verdict(b) = Verdict(a) /\ b.stored = a.stored
  BY <1>4, <1>5, <1>10, MappedNow
<1>11. CASE /\ Verdict(b) = Verdict(a) /\ Verdict(a) \in {"open", "unknown"}
            /\ route[c] \in Creating /\ ~a.stored /\ b.stored
  <2>1. verdict' = verdict
    BY <1>4, <1>5, <1>11, MappedNow
  <2>2. b.stored = TRUE
    BY <1>1, <1>11 DEF Attempt
  <2>3. QED
    BY <1>3, <1>4, <1>5, <1>11, <2>1, <2>2 DEF Remote!Effect
<1>12. QED
  BY <1>9, <1>10, <1>11 DEF Moves

(* Sending an attempt is the call of a request that was idle.              *)
LEMMA SendImplements ==
  ASSUME Inv, NEW c \in Clients, Send(c)
  PROVE  \E q \in Requests : Remote!Call(q)
<1>0. PICK n : n = Len(sent[c]) + 1
  OBVIOUS
<1>1. /\ n \in 1 .. MaxAttempts
      /\ \A d \in Clients \ {c} : sent'[d] = sent[d] /\ route'[d] = route[d]
      /\ DOMAIN sent'[c] = DOMAIN sent[c] \cup {n} /\ n \notin DOMAIN sent[c]
      /\ \A j \in DOMAIN sent[c] :
           sent'[c][j] = sent[c][j] /\ route'[c] = route[c]
      /\ sent'[c][n] = NewAttempt
  BY <1>0, SendEffect
<1>2. PICK q \in Requests : q[1] = c /\ q[2] = n
  BY <1>1, RequestIs
<1>3. Verdict(NewAttempt) = "open" /\ NewAttempt.stored = FALSE
  BY NewFields DEF Verdict
<1>4. PICK t \in BOOLEAN : t <=> route'[c] \in Creating
  OBVIOUS
<1>5. PICK v, w : v = [verdict EXCEPT ![q] = "open"] /\ w = [writes EXCEPT ![q] = t]
  OBVIOUS
<1>6. /\ v \in [Requests -> Remote!Verdicts] /\ w \in [Requests -> BOOLEAN]
      /\ effect \in [Requests -> BOOLEAN]
      /\ v[q] = "open" /\ w[q] = t
      /\ \A x \in Requests : x # q => v[x] = verdict[x] /\ w[x] = writes[x]
  BY <1>5, MappedNow DEF Remote!Verdicts
<1>7. verdict[q] = "idle" /\ effect[q] = FALSE
  BY <1>1, <1>2, MappedNow
<1>8. ASSUME NEW x \in Requests
      PROVE  /\ v[x] = IF x[2] \in DOMAIN sent'[x[1]]
                       THEN Verdict(sent'[x[1]][x[2]]) ELSE "idle"
             /\ w[x] <=> x[2] \in DOMAIN sent'[x[1]] /\ route'[x[1]] \in Creating
             /\ effect[x] <=> x[2] \in DOMAIN sent'[x[1]] /\ sent'[x[1]][x[2]].stored
  <2>1. x[1] \in Clients /\ (x = q <=> x[1] = c /\ x[2] = n)
    BY <1>2, RequestIs
  <2>2. CASE x = q
    BY <1>1, <1>3, <1>4, <1>6, <1>7, <2>1, <2>2
  <2>3. CASE x # q
    <3>1. v[x] = verdict[x] /\ w[x] = writes[x]
      BY <1>6, <2>3
    <3>2. x[2] \in DOMAIN sent'[x[1]] <=> x[2] \in DOMAIN sent[x[1]]
      BY <1>1, <2>1, <2>3
    <3>3. x[2] \in DOMAIN sent[x[1]] => /\ sent'[x[1]][x[2]] = sent[x[1]][x[2]]
                                       /\ route'[x[1]] = route[x[1]]
      BY <1>1, <2>1
    <3>4. /\ verdict[x] = IF x[2] \in DOMAIN sent[x[1]]
                          THEN Verdict(sent[x[1]][x[2]]) ELSE "idle"
          /\ writes[x] <=> x[2] \in DOMAIN sent[x[1]] /\ route[x[1]] \in Creating
          /\ effect[x] <=> x[2] \in DOMAIN sent[x[1]] /\ sent[x[1]][x[2]].stored
      BY MappedNow
    <3>5. CASE x[2] \in DOMAIN sent[x[1]]
      BY <3>1, <3>2, <3>3, <3>4, <3>5
    <3>6. CASE x[2] \notin DOMAIN sent[x[1]]
      BY <3>1, <3>2, <3>4, <3>6
    <3>7. QED
      BY <3>5, <3>6
  <2>4. QED
    BY <2>2, <2>3
<1>9. verdict' = v /\ writes' = w /\ effect' = effect
  <2>1. platform' = platform
    BY DEF Send
  <2>2. PICK e : e = effect
    OBVIOUS
  <2>3. QED
    BY <1>6, <1>8, <2>1, <2>2, MappedNext
<1>10. QED
  BY <1>5, <1>7, <1>9 DEF Remote!Call

(* A client that turns to something else forgets its requests, all of      *)
(* which were answered.                                                    *)
LEMMA MoveOnImplements ==
  ASSUME Inv, NEW c \in Clients, MoveOn(c)
  PROVE  \E qs \in SUBSET Requests : Remote!Forget(qs)
<1>1. PICK qs : qs = {q \in Requests : q[1] = c /\ q[2] \in DOMAIN sent[c]}
  OBVIOUS
<1>2. /\ platform' = platform /\ route' = route
      /\ \A d \in Clients : d # c => sent'[d] = sent[d]
      /\ DOMAIN sent'[c] = {}
  BY DEF MoveOn, Inv
<1>3. PICK v, w, e :
        /\ v = [q \in Requests |-> IF q \in qs THEN "idle" ELSE verdict[q]]
        /\ w = [q \in Requests |-> IF q \in qs THEN FALSE ELSE writes[q]]
        /\ e = [q \in Requests |-> IF q \in qs THEN FALSE ELSE effect[q]]
  OBVIOUS
<1>4. /\ v \in [Requests -> Remote!Verdicts] /\ w \in [Requests -> BOOLEAN]
      /\ e \in [Requests -> BOOLEAN]
      /\ \A q \in qs : v[q] = "idle" /\ w[q] = FALSE /\ e[q] = FALSE
      /\ \A q \in Requests \ qs :
           v[q] = verdict[q] /\ w[q] = writes[q] /\ e[q] = effect[q]
  BY <1>1, <1>3, MappedNow DEF Remote!Verdicts
<1>5. ASSUME NEW x \in Requests
      PROVE  /\ v[x] = IF x[2] \in DOMAIN sent'[x[1]]
                       THEN Verdict(sent'[x[1]][x[2]]) ELSE "idle"
             /\ w[x] <=> x[2] \in DOMAIN sent'[x[1]] /\ route'[x[1]] \in Creating
             /\ e[x] <=> x[2] \in DOMAIN sent'[x[1]] /\ sent'[x[1]][x[2]].stored
  <2>1. x[1] \in Clients
    BY RequestIs
  <2>2. /\ verdict[x] = IF x[2] \in DOMAIN sent[x[1]]
                        THEN Verdict(sent[x[1]][x[2]]) ELSE "idle"
        /\ writes[x] <=> x[2] \in DOMAIN sent[x[1]] /\ route[x[1]] \in Creating
        /\ effect[x] <=> x[2] \in DOMAIN sent[x[1]] /\ sent[x[1]][x[2]].stored
    BY MappedNow
  <2>3. CASE x \in qs
    BY <1>1, <1>2, <1>4, <2>3
  <2>4. CASE x \notin qs /\ x[1] = c
    <3>1. x[2] \notin DOMAIN sent[c] /\ x[2] \notin DOMAIN sent'[c]
      BY <1>1, <1>2, <2>4
    <3>2. v[x] = verdict[x] /\ w[x] = writes[x] /\ e[x] = effect[x]
      BY <1>4, <2>4
    <3>3. QED
      BY <2>2, <2>4, <3>1, <3>2
  <2>5. CASE x \notin qs /\ x[1] # c
    <3>1. sent'[x[1]] = sent[x[1]] /\ route'[x[1]] = route[x[1]]
      BY <1>2, <2>1, <2>5
    <3>2. v[x] = verdict[x] /\ w[x] = writes[x] /\ e[x] = effect[x]
      BY <1>4, <2>5
    <3>3. QED
      BY <2>2, <3>1, <3>2
  <2>6. QED
    BY <2>3, <2>4, <2>5
<1>6. verdict' = v /\ writes' = w /\ effect' = e
  BY <1>2, <1>4, <1>5, MappedNext
<1>7. \A q \in qs : verdict[q] \notin {"idle", "open"}
  <2>1. ASSUME NEW q \in qs
        PROVE  /\ q \in Requests /\ verdict[q] = Verdict(sent[c][q[2]])
               /\ sent[c][q[2]].pc = "answered"
    BY <1>1, MappedNow DEF MoveOn
  <2>2. QED
    BY <2>1 DEF Verdict
<1>8. QED
  BY <1>1, <1>3, <1>6, <1>7 DEF Remote!Forget

(* The refinement.  Send is Call and MoveOn is Forget; a step that answers *)
(* an attempt is Answer, Save is Effect, and what goes on in between, or   *)
(* after an answer, is not seen.                                           *)
THEOREM ExchangeImplementsRemoteCall == Spec => ImplementsRemoteCall
<1>1. Init => Remote!Init
  <2> SUFFICES ASSUME Init
               PROVE  Remote!Init
    OBVIOUS
  <2>1. ASSUME NEW q \in Requests
        PROVE  q[2] \notin DOMAIN sent[q[1]]
    BY RequestIs DEF Init
  <2>2. QED
    BY <2>1, InitInv, MappedNow DEF Remote!Init
<1>2. Inv /\ [Next]_vars => [Remote!Next]_<<verdict, writes, effect>>
  <2> SUFFICES ASSUME Inv, [Next]_vars
               PROVE  [Remote!Next]_<<verdict, writes, effect>>
    OBVIOUS
  <2>1. ASSUME NEW c \in Clients, Send(c)
        PROVE  Remote!Next
    BY <2>1, SendImplements DEF Remote!Next
  <2>2. ASSUME NEW c \in Clients, MoveOn(c)
        PROVE  Remote!Next
    BY <2>2, MoveOnImplements DEF Remote!Next
  <2>3. ASSUME NEW c \in Clients, NEW k \in 1 .. MaxAttempts,
               Refuse(c, k) \/ Admit(c, k) \/ TimeOut(c, k) \/ Work(c, k)
        PROVE  Remote!Next \/ UNCHANGED <<verdict, writes, effect>>
    BY <2>3, AttemptStep, AttemptImplements DEF Remote!Next
  <2>4. CASE UNCHANGED vars
    BY <2>4 DEF vars, verdict, writes, effect, Known, Verdict
  <2>5. QED
    BY <2>1, <2>2, <2>3, <2>4 DEF Next
<1>3. QED
  BY <1>1, <1>2, ExchangeInvariant, PTL DEF Spec, ImplementsRemoteCall, Remote!Spec
=============================================================================
