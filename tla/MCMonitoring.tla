----------------------------- MODULE MCMonitoring -----------------------------
(***************************************************************************)
(* An instance of MetricsService and HealthChecks for TLC.  The two share  *)
(* no variable, so what one does while the other moves it also does while  *)
(* the other rests: each moves only while the other is where it began.     *)
(***************************************************************************)
EXTENDS MetricsService, HealthChecks, TLC

MCNames == {"cache_hit_rate", "error_total"}
MCLabelSets == {{}, {"operation"}}

MCInit == Init /\ HealthInit
MCNext == \/ Next /\ HealthInit /\ UNCHANGED healthVars
          \/ HealthNext /\ Init /\ UNCHANGED vars
MCSpec == MCInit /\ [][MCNext]_<<vars, healthVars>>

MCSymmetry == Permutations(Probes)
=============================================================================
