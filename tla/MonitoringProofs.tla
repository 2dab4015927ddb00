--------------------------- MODULE MonitoringProofs ---------------------------
(***************************************************************************)
(* What the operators of the service look at: the metrics' registries, for *)
(* all names, label sets and bounds, and then the health probes, for every *)
(* set of them.  The two components share no state: each has its own       *)
(* specification (Spec, HealthSpec) and its own inductive invariant.       *)
(***************************************************************************)
EXTENDS MetricsService, HealthChecks, TLAPS

(* The map and the service's registry agree because prom-client's default  *)
(* registry, which refuses a name first, agrees with both.                 *)
Inv == TypeOK /\ MapsAgree /\ RecordedIsShown /\ TrafficAgrees

(* Before the service is constructed the invariant holds.                  *)
LEMMA InitInv == Init => Inv
<1> SUFFICES ASSUME Init
             PROVE  Inv
  OBVIOUS
<1>1. TypeOK
  <2>1. 0 \in -1 .. MaxTotal /\ 0 \in 0 .. MaxTotal
    BY MetricsAssumption
  <2>2. /\ total \in [Metrics -> -1 .. MaxTotal]
        /\ durations \in [Statuses -> 0 .. MaxTotal]
        /\ requests \in [Statuses -> 0 .. MaxTotal]
    BY <2>1, Zenon DEF Init
  <2>3. QED
    BY <2>1, <2>2 DEF Init, TypeOK
<1>2. MapsAgree /\ RecordedIsShown
  BY DEF Init, MapsAgree, RecordedIsShown
<1>3. TrafficAgrees
  BY DEF Init, TrafficAgrees, Statuses
<1>4. QED
  BY <1>1, <1>2, <1>3 DEF Inv

(* Looking a metric up, or making it, keeps the three places together and  *)
(* loses nothing, whether or not it throws.                                *)
LEMMA ObtainEffect ==
  ASSUME Inv, NEW name \in Names, NEW type \in Types, NEW labels \in LabelSets,
         Obtain(name, type, labels)
  PROVE  /\ custom' \subseteq Metrics /\ custom \subseteq custom'
         /\ registry' = custom' /\ default' = custom'
         /\ \A m, k \in custom' : m.name = k.name => m = k
         /\ \A m \in custom' : m.name \notin BuiltIn
<1> DEFINE m == [name |-> name, type |-> type, labels |-> labels]
<1>1. m \in Metrics /\ m.name = name
  BY DEF Metrics
<1>2. CASE UNCHANGED <<custom, registry, default>>
  BY <1>2 DEF Inv, TypeOK, MapsAgree
<1>3. CASE /\ Accepts(default, name)
           /\ custom' = custom \cup {m} /\ default' = default \cup {m}
           /\ registry' = IF Accepts(registry, name) THEN registry \cup {m} ELSE registry
  <2>1. Accepts(registry, name) /\ ~Registered(custom, name) /\ name \notin BuiltIn
    BY <1>3 DEF Accepts, Inv, MapsAgree
  <2>2. \A k \in custom : k.name # name
    BY <2>1 DEF Registered
  <2>3. QED
    BY <1>1, <1>3, <2>1, <2>2 DEF Inv, TypeOK, MapsAgree
<1>4. QED
  BY <1>2, <1>3 DEF Obtain

(* A recorded sample is recorded into one of the objects shown.            *)
LEMMA RecordMetricInv ==
  ASSUME Inv, NEW name \in Names, NEW value \in Values, NEW labels \in LabelSets,
         NEW type \in Types, RecordMetric(name, value, labels, type)
  PROVE  Inv'
<1> DEFINE mine == {m \in custom' : m.name = name /\ m.type = type}
           hit  == {m \in mine : Valid(m, value, labels)}
<1>1. Obtain(name, type, labels) /\ UNCHANGED <<started, http>>
  BY DEF RecordMetric
<1>2. /\ custom' \subseteq Metrics /\ custom \subseteq custom'
      /\ registry' = custom' /\ default' = custom'
      /\ MapsAgree'
  BY <1>1, ObtainEffect DEF MapsAgree
<1>3. TrafficAgrees'
  BY <1>1 DEF Inv, TrafficAgrees, http
<1>4. total' \in [Metrics -> -1 .. MaxTotal] /\ RecordedIsShown'
  <2>1. CASE hit = {}
    BY <2>1, <1>2 DEF RecordMetric, Inv, TypeOK, MapsAgree, RecordedIsShown
  <2>2. CASE hit # {}
    <3>1. PICK m \in hit : total[m] < MaxTotal /\ total' = Recorded(m, value, total)
      BY <2>2 DEF RecordMetric
    <3>2. m \in Metrics /\ m \in custom' /\ m.type \in Types
      BY <1>2 DEF Metrics
    <3>3. m.type = "counter" => value = 1
      BY DEF Valid, Values
    <3>4. PICK n \in -1 .. MaxTotal : total' = [total EXCEPT ![m] = n]
      <4>1. total[m] \in -1 .. MaxTotal /\ total[m] < MaxTotal
        BY <3>1, <3>2 DEF Inv, TypeOK
      <4>2. CASE m.type = "gauge"
        <5>1. total' = [total EXCEPT ![m] = value]
          BY <3>1, <4>2 DEF Recorded
        <5>2. value \in -1 .. MaxTotal
          BY <4>1, MetricsAssumption DEF Values
        <5>3. QED
          BY <5>1, <5>2
      <4>3. CASE m.type = "counter"
        <5>1. total' = [total EXCEPT ![m] = total[m] + 1]
          BY <3>1, <3>3, <4>3 DEF Recorded
        <5>2. total[m] + 1 \in -1 .. MaxTotal
          BY <4>1, MetricsAssumption
        <5>3. QED
          BY <5>1, <5>2
      <4>4. CASE m.type = "histogram"
        <5>1. total' = [total EXCEPT ![m] = total[m] + 1]
          BY <3>1, <4>4 DEF Recorded
        <5>2. total[m] + 1 \in -1 .. MaxTotal
          BY <4>1, MetricsAssumption
        <5>3. QED
          BY <5>1, <5>2
      <4>5. QED
        BY <3>2, <4>2, <4>3, <4>4 DEF Types
    <3>5. QED
      BY <3>2, <3>4, <1>2 DEF Inv, TypeOK, MapsAgree, RecordedIsShown
  <2>3. QED
    BY <2>1, <2>2
<1>5. QED
  BY <1>1, <1>2, <1>3, <1>4 DEF Inv, TypeOK, http

(* Every call of the service, of the interceptor or of the monitor keeps it. *)
LEMMA NextInv == Inv /\ [Next]_vars => Inv'
<1> SUFFICES ASSUME Inv, [Next]_vars
             PROVE  Inv'
  OBVIOUS
<1> USE MetricsAssumption
<1>1. CASE Construct
  BY <1>1 DEF Construct, Inv, TypeOK, MapsAgree, RecordedIsShown, TrafficAgrees, http
<1>2. ASSUME NEW name \in Names, NEW value \in Values, NEW labels \in LabelSets,
             NEW type \in Types, RecordMetric(name, value, labels, type)
      PROVE  Inv'
  BY <1>2, RecordMetricInv
<1>3. ASSUME NEW status \in Statuses, RecordHttpRequest(status)
      PROVE  /\ durations' \in [Statuses -> 0 .. MaxTotal] /\ requests' = durations'
             /\ requests' = [requests EXCEPT ![status] = @ + 1]
  BY <1>3 DEF RecordHttpRequest, Inv, TypeOK, TrafficAgrees
<1>4. CASE HandlerAnswers
  BY <1>3, <1>4
  DEF HandlerAnswers, Statuses, Inv, TypeOK, MapsAgree, RecordedIsShown, TrafficAgrees
<1>5. ASSUME NEW status \in Statuses \ {200}, HandlerThrows(status)
      PROVE  Inv'
  BY <1>3, <1>5
  DEF HandlerThrows, Statuses, Inv, TypeOK, MapsAgree, RecordedIsShown, TrafficAgrees
<1>6. CASE UNCHANGED vars
  BY <1>6 DEF vars, http, Inv, TypeOK, MapsAgree, RecordedIsShown, TrafficAgrees
<1>7. QED
  BY <1>1, <1>2, <1>4, <1>5, <1>6 DEF Next

(* The inductive invariant holds in every state.                           *)
THEOREM MetricsInvariant == Spec => []Inv
  BY InitInv, NextInv, PTL DEF Spec

(* Types, and with them the bounds of the samples.                         *)
THEOREM MetricsTypeOK == Spec => []TypeOK
<1>1. Inv => TypeOK
  BY DEF Inv
<1>2. QED
  BY <1>1, MetricsInvariant, PTL

(* customMetrics and the two registries never drift apart.                 *)
THEOREM MetricsMapsAgree == Spec => []MapsAgree
<1>1. Inv => MapsAgree
  BY DEF Inv
<1>2. QED
  BY <1>1, MetricsInvariant, PTL

(* What recordMetric() records, /metrics shows.                            *)
THEOREM MetricsRecordedIsShown == Spec => []RecordedIsShown
<1>1. Inv => RecordedIsShown
  BY DEF Inv
<1>2. QED
  BY <1>1, MetricsInvariant, PTL

(* One call of recordMetric() as the one registry sees it: it has the name *)
(* if, and only if, the map and the other registry have it.                *)
LEMMA RecordMetricOne ==
  ASSUME Inv, NEW name \in Names, NEW value \in Values, NEW labels \in LabelSets,
         NEW type \in Types, RecordMetric(name, value, labels, type)
  PROVE  One!Next
<1> DEFINE m == [name |-> name, type |-> type, labels |-> labels]
           mine == {k \in custom' : k.name = name /\ k.type = type}
           hit  == {k \in mine : Valid(k, value, labels)}
<1>1. m \in Metrics /\ m.name = name /\ m.type = type
  BY DEF Metrics
<1>2. Obtain(name, type, labels)
  BY DEF RecordMetric
<1>3. registry' = custom' /\ custom' \subseteq Metrics
  BY <1>2, ObtainEffect
<1>4. One!Taken(name) <=> ~Accepts(default, name)
  BY DEF One!Taken, Accepts, Registered, Inv, MapsAgree
<1>5. One!Register(m)
  <2>1. CASE One!Taken(name)
    <3>1. registry' = registry
      BY <1>2, <1>4, <2>1 DEF Obtain
    <3>2. QED
      BY <1>1, <2>1, <3>1 DEF One!Register
  <2>2. CASE ~One!Taken(name)
    <3>1. Accepts(registry, name) /\ \A k \in custom : k.name # name
      BY <1>4, <2>2 DEF Accepts, Registered, Inv, MapsAgree
    <3>2. registry' = registry \cup {m}
      BY <1>2, <1>4, <2>2, <3>1 DEF Obtain
    <3>3. QED
      BY <1>1, <2>2, <3>2 DEF One!Register
  <2>3. QED
    BY <2>1, <2>2
<1>6. m.type = type /\ m.labels = labels
  OBVIOUS
<1>7. \A k \in registry' : One!Fits(k, m, value) <=> k \in hit
  BY <1>1, <1>3, <1>6 DEF One!Fits, Valid
<1>8. \/ \E k \in registry' : One!Fits(k, m, value) /\ One!Sample(k, value)
      \/ (\A k \in registry' : ~One!Fits(k, m, value)) /\ UNCHANGED total
  <2>1. CASE hit = {}
    BY <1>7, <2>1 DEF RecordMetric
  <2>2. CASE hit # {}
    <3>1. PICK k \in hit : total' = Recorded(k, value, total)
      BY <2>2 DEF RecordMetric
    <3>2. k \in registry' /\ One!Fits(k, m, value) /\ k.type \in Types
      BY <1>3, <1>7 DEF Metrics
    <3>3. One!Sample(k, value)
      <4> HIDE DEF hit, mine, m
      <4>1. CASE k.type = "gauge"
        BY <3>1, <4>1 DEF Recorded, One!Sample
      <4>2. CASE k.type = "counter"
        BY <3>1, <4>2 DEF Recorded, One!Sample
      <4>3. CASE k.type = "histogram"
        BY <3>1, <4>3 DEF Recorded, One!Sample
      <4>4. QED
        BY <3>2, <4>1, <4>2, <4>3 DEF Types
    <3>4. QED
      BY <3>2, <3>3
  <2>3. QED
    BY <2>1, <2>2
<1>9. One!Record(m, value)
  BY <1>5, <1>8 DEF One!Record
<1>10. QED
  BY <1>1, <1>9 DEF One!Next

(* metrics.service.ts:65: three places to keep a metric in, two instances  *)
(* of the service and calls that throw half-way behave as one registry.    *)
THEOREM MetricsImplementRegistry == Spec => ImplementsRegistry
<1>1. Init => One!Init
  BY DEF Init, One!Init
<1>2. Inv /\ [Next]_vars => [One!Next]_<<registry, total>>
  BY RecordMetricOne
  DEF Next, Construct, HandlerAnswers, HandlerThrows, RecordHttpRequest, vars
<1>3. QED
  BY <1>1, <1>2, MetricsInvariant, PTL DEF Spec, ImplementsRegistry, One!Spec

(* The interceptor's three metrics tell the same story.                    *)
THEOREM MetricsTrafficAgrees == Spec => []TrafficAgrees
<1>1. Inv => TrafficAgrees
  BY DEF Inv
<1>2. QED
  BY <1>1, MetricsInvariant, PTL

-----------------------------------------------------------------------------
(* What is known of a probe k while the shared entry is there, or is not   *)
(* (e): one that has yet to read the entry finds it, unless it was lost;   *)
(* one that has read it found it, unless it was lost.  A database that was *)
(* down counts as lost.                                                    *)
Awaiting(k, e) ==
  /\ k.pc # "idle" => k.kind # "none" /\ k.found = "none" /\ ~k.error
  /\ k.pc = "set" => k.kind # "wired"
  /\ k.pc = "get" /\ k.kind # "wired" => e \/ k.lost
  /\ k.pc = "del" => k.kind = "full" /\ (k.value \/ k.lost)
  /\ ~k.db => k.lost

(* What a verdict is worth.                                                *)
Reported(k) ==
  /\ k.found = "down" => k.error \/ k.lost
  /\ k.found = "up" => ~k.error /\ (k.kind = "full" => k.db)

HealthInv ==
  /\ mongo \in BOOLEAN /\ postgres \in BOOLEAN /\ entry \in BOOLEAN
  /\ probes \in [Probes -> ProbeRecords]
  /\ \A p \in Probes : Awaiting(probes[p], entry) /\ Reported(probes[p])

(* The invariant implies what the runs check.                              *)
LEMMA HealthInvImplies ==
  HealthInv => HealthTypeOK /\ AlarmHasReason /\ UpIsEarned
  BY DEF HealthInv, Awaiting, Reported, HealthTypeOK, AlarmHasReason,
         UpIsEarned

(* An idle slot is a sound probe.                                          *)
LEMMA NoProbeSound ==
  ASSUME NEW e \in BOOLEAN
  PROVE  /\ NoProbe \in ProbeRecords
         /\ Awaiting(NoProbe, e) /\ Reported(NoProbe)
  BY DEF NoProbe, ProbeRecords, Awaiting, Reported

(* Before the first probe the invariant holds.                             *)
LEMMA HealthInitInv == HealthInit => HealthInv
<1> SUFFICES ASSUME HealthInit
             PROVE  HealthInv
  OBVIOUS
<1>1. entry \in BOOLEAN /\ \A p \in Probes : probes[p] = NoProbe
  BY DEF HealthInit
<1>2. probes \in [Probes -> ProbeRecords]
  BY NoProbeSound, <1>1 DEF HealthInit
<1>3. QED
  BY <1>1, <1>2, NoProbeSound DEF HealthInit, HealthInv

(* A probe's own step, which leaves the entry or writes it.                *)
LEMMA OwnStep ==
  ASSUME HealthInv, NEW p \in Probes, NEW k \in ProbeRecords,
         probes' = [probes EXCEPT ![p] = k], UNCHANGED <<mongo, postgres>>,
         entry' \in BOOLEAN, entry' = entry \/ entry' = TRUE,
         Awaiting(k, entry'), Reported(k)
  PROVE  HealthInv'
<1>1. probes' \in [Probes -> ProbeRecords] /\ probes'[p] = k
  BY DEF HealthInv
<1>2. ASSUME NEW q \in Probes, q # p
      PROVE  Awaiting(probes'[q], entry') /\ Reported(probes'[q])
  <2>1. probes'[q] = probes[q] /\ Awaiting(probes[q], entry) /\ Reported(probes[q])
    BY <1>2 DEF HealthInv
  <2>2. entry => entry'
    OBVIOUS
  <2>3. QED
    BY <2>1, <2>2, Zenon DEF Awaiting
<1>3. QED
  BY <1>1, <1>2 DEF HealthInv

(* A probe that loses the entry, or does not care, remains sound.          *)
LEMMA LostSound ==
  ASSUME NEW k \in ProbeRecords, NEW e \in BOOLEAN, Awaiting(k, e), Reported(k)
  PROVE  /\ Lost(k) \in ProbeRecords
         /\ Awaiting(Lost(k), FALSE) /\ Reported(Lost(k))
<1>1. CASE k.pc = "get" /\ k.kind # "wired"
  <2>1. /\ Lost(k) \in ProbeRecords
        /\ Lost(k).pc = "get" /\ Lost(k).kind = k.kind
        /\ Lost(k).found = k.found
        /\ Lost(k).lost = TRUE /\ Lost(k).error = k.error
    BY <1>1 DEF Lost, ProbeRecords
  <2>2. QED
    BY <1>1, <2>1 DEF Awaiting, Reported
<1>2. CASE ~(k.pc = "get" /\ k.kind # "wired")
  BY <1>2 DEF Lost, Awaiting
<1>3. QED
  BY <1>1, <1>2

(* Every step of a probe, of the cache and of the databases keeps Inv.     *)
LEMMA HealthNextInv == HealthInv /\ [HealthNext]_healthVars => HealthInv'
<1> SUFFICES ASSUME HealthInv, [HealthNext]_healthVars
             PROVE  HealthInv'
  OBVIOUS
<1> USE DEF HealthInv
<1>1. ASSUME NEW p \in Probes, NEW kind \in Kinds, Start(p, kind)
      PROVE  HealthInv'
  <2>1. PICK db \in BOOLEAN : probes' = [probes EXCEPT ![p] =
          [kind |-> kind, pc |-> IF kind = "wired" THEN "get" ELSE "set",
           db |-> db, value |-> FALSE, found |-> "none", http |-> "none",
           error |-> FALSE, lost |-> ~db]]
    BY <1>1 DEF Start
  <2> DEFINE k == [kind |-> kind, pc |-> IF kind = "wired" THEN "get" ELSE "set",
                   db |-> db, value |-> FALSE, found |-> "none", http |-> "none",
                   error |-> FALSE, lost |-> ~db]
  <2>2. k \in ProbeRecords /\ Awaiting(k, entry) /\ Reported(k)
    BY DEF ProbeRecords, Kinds, Awaiting, Reported
  <2>3. QED
    BY <1>1, <2>1, <2>2, OwnStep DEF Start
<1>2. ASSUME NEW p \in Probes, Set(p)
      PROVE  HealthInv'
  <2> DEFINE k == [probes[p] EXCEPT !.pc = "get"]
  <2>1. k \in ProbeRecords /\ Awaiting(k, TRUE) /\ Reported(k)
    BY <1>2 DEF Set, ProbeRecords, Awaiting, Reported
  <2>2. QED
    BY <1>2, <2>1, OwnStep DEF Set
<1>3. ASSUME NEW p \in Probes, Get(p)
      PROVE  HealthInv'
  <2>1. probes[p] \in ProbeRecords /\ Awaiting(probes[p], entry) /\ probes[p].pc = "get"
    BY <1>3 DEF Get
  <2>2. probes[p].kind \in Kinds /\ ~probes[p].error
    BY <2>1 DEF Awaiting, ProbeRecords
  <2>3. CASE probes[p].kind = "wired"
    <3>1. /\ Finish(p, TRUE, FALSE) \in ProbeRecords
          /\ Awaiting(Finish(p, TRUE, FALSE), entry)
          /\ Reported(Finish(p, TRUE, FALSE))
      BY <2>1, <2>2, <2>3 DEF Finish, ProbeRecords, Awaiting, Reported
    <3>2. QED
      BY <1>3, <2>3, <3>1, OwnStep DEF Get
  <2>4. CASE probes[p].kind = "rw"
    <3>1. /\ Finish(p, entry, ~entry) \in ProbeRecords
          /\ Awaiting(Finish(p, entry, ~entry), entry)
          /\ Reported(Finish(p, entry, ~entry))
      BY <2>1, <2>2, <2>4 DEF Finish, ProbeRecords, Awaiting, Reported
    <3>2. QED
      BY <1>3, <2>4, <3>1, OwnStep DEF Get
  <2>5. CASE probes[p].kind = "full"
    <3> DEFINE k == [probes[p] EXCEPT !.pc = "del", !.value = entry]
    <3>1. k \in ProbeRecords /\ Awaiting(k, entry) /\ Reported(k)
      BY <2>1, <2>2, <2>5 DEF ProbeRecords, Awaiting, Reported
    <3>2. QED
      BY <1>3, <2>5, <3>1, OwnStep DEF Get
  <2>6. QED
    BY <2>2, <2>3, <2>4, <2>5 DEF Kinds
<1>4. ASSUME NEW p \in Probes, Delete(p)
      PROVE  HealthInv'
  <2> DEFINE up == probes[p].db /\ probes[p].value
             k  == Finish(p, up, ~up)
  <2>1. k \in ProbeRecords /\ Awaiting(k, FALSE) /\ Reported(k)
    BY <1>4 DEF Delete, Finish, ProbeRecords, Awaiting, Reported
  <2>2. \A q \in Probes : probes'[q] = IF q = p THEN k ELSE Lost(probes[q])
    BY <1>4 DEF Delete
  <2>3. \A q \in Probes : /\ probes'[q] \in ProbeRecords
                          /\ Awaiting(probes'[q], FALSE) /\ Reported(probes'[q])
    BY <2>1, <2>2, LostSound
  <2>4. QED
    BY <1>4, <2>3 DEF Delete
<1>5. ASSUME NEW p \in Probes, CommandFails(p)
      PROVE  HealthInv'
  <2> DEFINE k == [Finish(p, FALSE, probes[p].kind # "wired") EXCEPT !.error = TRUE]
  <2>1. k \in ProbeRecords /\ Awaiting(k, entry) /\ Reported(k)
    BY <1>5 DEF CommandFails, Finish, ProbeRecords, Awaiting, Reported
  <2>2. QED
    BY <1>5, <2>1, OwnStep DEF CommandFails
<1>6. CASE Expire
  <2>1. \A q \in Probes : probes'[q] = Lost(probes[q])
    BY <1>6 DEF Expire
  <2>2. \A q \in Probes : /\ probes'[q] \in ProbeRecords
                          /\ Awaiting(probes'[q], FALSE) /\ Reported(probes'[q])
    BY <2>1, LostSound
  <2>3. QED
    BY <1>6, <2>2 DEF Expire
<1>7. CASE Flip
  BY <1>7 DEF Flip
<1>8. CASE UNCHANGED healthVars
  BY <1>8 DEF healthVars
<1>9. QED
  BY <1>1, <1>2, <1>3, <1>4, <1>5, <1>6, <1>7, <1>8 DEF HealthNext

(* The inductive invariant holds in every state.                           *)
THEOREM HealthInvariant == HealthSpec => []HealthInv
  BY HealthInitInv, HealthNextInv, PTL DEF HealthSpec

(* Types, for every set of probes.                                         *)
THEOREM HealthTypes == HealthSpec => []HealthTypeOK
  BY HealthInvariant, HealthInvImplies, PTL

(* pingCheck() and isHealthy() report "down" only with a reason.           *)
THEOREM HealthAlarms == HealthSpec => []AlarmHasReason
  BY HealthInvariant, HealthInvImplies, PTL

(* They report "up" only if nothing failed.                                *)
THEOREM HealthUp == HealthSpec => []UpIsEarned
  BY HealthInvariant, HealthInvImplies, PTL
=============================================================================
