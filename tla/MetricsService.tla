---------------------------- MODULE MetricsService ----------------------------
(***************************************************************************)
(* src/infrastructure/services/metrics.service.ts, with its callers        *)
(* MetricsInterceptor and PerformanceMonitor.  Every method is             *)
(* synchronous; what is hard is the state it keeps in three places at      *)
(* once: customMetrics (by name AND type), the service's own registry (by  *)
(* name), and prom-client's default registry, in which every metric        *)
(* constructor enters the metric too (by name).                            *)
(***************************************************************************)
EXTENDS Integers

CONSTANTS
  Names,      \* metric names callers use; may include built-in ones
  LabelSets,  \* the sets of label names callers pass
  MaxTotal    \* bound: sample totals are counted no further than this

HttpDuration == "http_request_duration_seconds"
HttpTotal == "http_requests_total"
ErrorTotal == "error_total"
BuiltIn == {HttpDuration, HttpTotal, ErrorTotal}

Types == {"counter", "gauge", "histogram"}
Values == {-1, 1}
Statuses == {200, 404, 500}

ASSUME MetricsAssumption == MaxTotal \in Nat \ {0}

\* A metric object; two objects of one name differ in type or label names.
Metrics == [name : Names, type : Types, labels : LabelSets]

VARIABLES
  started,   \* MetricsService.registry has been made
  custom,    \* customMetrics: the metric objects, one per name and type
  registry,  \* the custom metrics in the service's registry, which /metrics shows
  default,   \* the custom metrics in prom-client's default registry
  total,     \* per metric object: counter value, gauge value, or observations
  durations, \* http_request_duration_seconds: observations per status
  requests,  \* http_requests_total per status
  errors     \* error_total, over all types

vars == <<started, custom, registry, default, total, durations, requests, errors>>
http == <<durations, requests, errors>>

Init ==
  /\ started = FALSE
  /\ custom = {} /\ registry = {} /\ default = {}
  /\ total = [m \in Metrics |-> 0]
  /\ durations = [s \in Statuses |-> 0] /\ requests = [s \in Statuses |-> 0]
  /\ errors = 0

\* A plausible slip: without the test, a second provider starts all over.
ConstructAnew ==
  /\ started' = TRUE
  /\ custom' = {} /\ registry' = {}
  /\ UNCHANGED <<default, total, http>>

\* ServicesModule and AppModule both provide the service; the second
\* instance finds the static registry in place.  (Registering the three
\* built-in objects twice in one registry is accepted.)
Construct == started' = TRUE /\ UNCHANGED <<custom, registry, default, total, http>>

Registered(reg, name) == \E m \in reg : m.name = name

\* A registry refuses a second object of a name.
Accepts(reg, name) == name \notin BuiltIn /\ ~Registered(reg, name)

\* A plausible slip: metrics made with `registers: []`, to avoid the clash
\* with the default registry.
ObtainUnregistered(name, type, labels) ==
  LET m == [name |-> name, type |-> type, labels |-> labels]
  IN  IF \E k \in custom : k.name = name /\ k.type = type
      THEN UNCHANGED <<custom, registry, default>>
      ELSE /\ custom' = custom \cup {m}
           /\ registry' = IF Accepts(registry, name) THEN registry \cup {m} ELSE registry
           /\ UNCHANGED default

\* The metric of a key is looked up, or made: its constructor throws, before
\* anything is kept, if the default registry has the name.  After that the
\* service's registry cannot refuse it.
Obtain(name, type, labels) ==
  LET m == [name |-> name, type |-> type, labels |-> labels]
  IN  IF (\E k \in custom : k.name = name /\ k.type = type) \/ ~Accepts(default, name)
      THEN UNCHANGED <<custom, registry, default>>
      ELSE /\ default' = default \cup {m}
           /\ custom' = custom \cup {m}
           /\ registry' = IF Accepts(registry, name) THEN registry \cup {m} ELSE registry

\* prom-client refuses labels the metric was not made with, and counting down.
Valid(m, value, labels) == labels \subseteq m.labels /\ (m.type = "counter" => value >= 0)

\* A plausible slip: a gauge is incremented where it should be set.
RecordedByInc(m, value, samples) ==
  CASE m.type \in {"gauge", "counter"} -> [samples EXCEPT ![m] = @ + value]
    [] m.type = "histogram" -> [samples EXCEPT ![m] = @ + 1]

Recorded(m, value, samples) ==
  CASE m.type = "gauge"     -> [samples EXCEPT ![m] = value]
    [] m.type = "counter"   -> [samples EXCEPT ![m] = @ + value]
    [] m.type = "histogram" -> [samples EXCEPT ![m] = @ + 1]

\* recordMetric(), also as incrementCounter(), setGauge(), recordHistogram(),
\* trackDatabaseOperation() and trackCacheHitRate().  The labels of the first
\* call are the metric's for ever; a first call that throws leaves an empty
\* metric behind.
RecordMetric(name, value, labels, type) ==
  /\ started
  /\ Obtain(name, type, labels)
  /\ LET mine == {m \in custom' : m.name = name /\ m.type = type}
         hit == {m \in mine : Valid(m, value, labels)}
     IN  IF hit = {} THEN UNCHANGED total
         ELSE \E m \in hit :
                /\ total[m] < MaxTotal
                /\ total' = Recorded(m, value, total)
  /\ UNCHANGED <<started, http>>

\* recordHttpRequest().
RecordHttpRequest(status) ==
  /\ started /\ durations[status] < MaxTotal
  /\ durations' = [durations EXCEPT ![status] = @ + 1]
  /\ requests' = [requests EXCEPT ![status] = @ + 1]

\* The interceptor's two branches, where they get as far as recording: a
\* handler that answers is recorded as 200, one that throws under its status,
\* or 500, and as an error.  Behind Fastify, whose requests have no `route`,
\* both throw before they record (metrics.interceptor.ts:26) and nothing here
\* changes; what the client then sees is in RequestExchange.
HandlerAnswers ==
  /\ RecordHttpRequest(200)
  /\ UNCHANGED <<started, custom, registry, default, total, errors>>

HandlerThrows(status) ==
  /\ errors < MaxTotal
  /\ RecordHttpRequest(status)
  /\ errors' = errors + 1
  /\ UNCHANGED <<started, custom, registry, default, total>>

Next ==
  \/ Construct
  \/ \E name \in Names, value \in Values, labels \in LabelSets, type \in Types :
       RecordMetric(name, value, labels, type)
  \/ HandlerAnswers
  \/ \E status \in Statuses \ {200} : HandlerThrows(status)

Spec == Init /\ [][Next]_vars
-----------------------------------------------------------------------------
TypeOK ==
  /\ started \in BOOLEAN
  /\ custom \subseteq Metrics /\ registry \subseteq Metrics /\ default \subseteq Metrics
  /\ total \in [Metrics -> -1 .. MaxTotal]
  /\ durations \in [Statuses -> 0 .. MaxTotal] /\ requests \in [Statuses -> 0 .. MaxTotal]
  /\ errors \in 0 .. MaxTotal

\* Everything recordMetric() records into is shown by /metrics: the map, the
\* service's registry and prom-client's default one hold the same objects,
\* whatever calls threw on the way, and a name has one type and one set of
\* labels for ever.
MapsAgree ==
  /\ custom = registry /\ registry = default
  /\ \A m, k \in custom : m.name = k.name => m = k
  /\ \A m \in custom : m.name \notin BuiltIn

\* Nothing is recorded that /metrics does not show: not by a call that throws
\* half-way, nor by a second instance of the service.
RecordedIsShown == \A m \in Metrics : total[m] # 0 => m \in registry

One == INSTANCE MetricRegistry WITH Reserved <- BuiltIn, shown <- registry

\* The map, the two registries, the second instance of the service and the
\* calls that throw half-way show from outside as one registry: a name has one
\* type and one set of labels for ever, what is recorded is shown, and nothing
\* that is shown goes or is counted otherwise than its type says.
ImplementsRegistry == One!Spec

\* The three views of the HTTP traffic agree: every request has one duration
\* under its status, and the errors are the requests that did not end in 200.
TrafficAgrees ==
  /\ durations = requests
  /\ errors = requests[404] + requests[500]
=============================================================================
