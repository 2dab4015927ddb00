--------------------------- MODULE MetricRegistry ---------------------------
(***************************************************************************)
(* What whoever records a metric may think there is: one registry, which   *)
(* takes a name once and shows what it took for ever.  A sample goes to    *)
(* the metric of its name and type; it is lost only if the registry shows  *)
(* no such metric with its labels, or it would count a counter down.       *)
(* MetricsService is shown to implement this with its map, its static      *)
(* registry and prom-client's own.                                         *)
(***************************************************************************)
EXTENDS Integers

CONSTANTS
  Metrics,   \* records with a name, a type and label names
  Values,
  Reserved   \* names that are taken from the start

VARIABLES
  shown,     \* the metrics in the registry
  total      \* counter value, gauge value or observations of each

Init == shown = {} /\ total = [m \in Metrics |-> 0]

Taken(name) == name \in Reserved \/ \E k \in shown : k.name = name

Register(m) == shown' = IF Taken(m.name) THEN shown ELSE shown \cup {m}

\* The metric shown can take this value under the labels of m.
Fits(k, m, value) ==
  /\ k.name = m.name /\ k.type = m.type /\ m.labels \subseteq k.labels
  /\ k.type = "counter" => value >= 0

Sample(k, value) ==
  total' = [total EXCEPT ![k] = IF k.type = "gauge" THEN value
                                ELSE IF k.type = "counter" THEN @ + value ELSE @ + 1]

Record(m, value) ==
  /\ Register(m)
  /\ \/ \E k \in shown' : Fits(k, m, value) /\ Sample(k, value)
     \/ (\A k \in shown' : ~Fits(k, m, value)) /\ UNCHANGED total

Next == \E m \in Metrics, value \in Values : Record(m, value)

Spec == Init /\ [][Next]_<<shown, total>>
=============================================================================
