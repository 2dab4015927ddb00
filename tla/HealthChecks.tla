----------------------------- MODULE HealthChecks -----------------------------
(***************************************************************************)
(* src/infrastructure/health: the indicators, and the two health           *)
(* controllers that ask them.                                              *)
(*                                                                         *)
(* Every probe of the cache uses the one key 'health-check-test', so       *)
(* probes that overlap write, read and delete each other's entry.  Each    *)
(* cache call is an await at which other probes run (with the memory store *)
(* fewer of these interleavings happen, and none is added).                *)
(***************************************************************************)
EXTENDS Naturals

CONSTANT Probes  \* concurrent health checks; a slot is reused

\* wired: GET /health as HealthModule serves it: isHealthy() of cache.health.ts
\* full:  the check of controllers/health.controller.ts: both pingCheck()s
\* rw:    isHealthy() of health/indicators/cache.health.ts
Kinds == {"wired", "full", "rw"}

VARIABLES
  mongo, postgres,  \* the connections' flags: readyState = 1, isInitialized
  entry,            \* whether the cache holds the key 'health-check-test'
  probes

healthVars == <<mongo, postgres, entry, probes>>

\* db, value: what the probe saw; found: its verdict; http: the answer's status.
\* History: error: a command of the probe failed; lost: the entry went away
\* between its write and its read, or a database was down when it looked.
NoProbe == [kind |-> "none", pc |-> "idle", db |-> TRUE, value |-> FALSE,
            found |-> "none", http |-> "none", error |-> FALSE, lost |-> FALSE]

HealthInit ==
  /\ mongo \in BOOLEAN /\ postgres \in BOOLEAN
  /\ entry = FALSE
  /\ probes = [p \in Probes |-> NoProbe]

\* The health check service answers "error" if an indicator threw.
Finish(p, up, throws) ==
  [kind |-> probes[p].kind, pc |-> "idle", db |-> probes[p].db, value |-> FALSE,
   found |-> IF up THEN "up" ELSE "down", http |-> IF throws THEN "error" ELSE "ok",
   error |-> probes[p].error, lost |-> probes[p].lost]

\* A plausible slip: the verdict of the last check is not cleared.
StartDirty(p, kind) ==
  /\ probes[p].pc = "idle"
  /\ LET db == kind # "full" \/ (mongo /\ postgres)
     IN  probes' = [probes EXCEPT ![p] =
                      [@ EXCEPT !.kind = kind, !.db = db, !.lost = ~db,
                                !.pc = IF kind = "wired" THEN "get" ELSE "set"]]
  /\ UNCHANGED <<mongo, postgres, entry>>

\* A check starts: the indicator of the databases reads their flags at once.
Start(p, kind) ==
  /\ probes[p].pc = "idle"
  /\ LET db == kind # "full" \/ (mongo /\ postgres)
     IN  probes' = [probes EXCEPT ![p] =
                      [kind |-> kind, pc |-> IF kind = "wired" THEN "get" ELSE "set",
                       db |-> db, value |-> FALSE, found |-> "none", http |-> "none",
                       error |-> FALSE, lost |-> ~db]]
  /\ UNCHANGED <<mongo, postgres, entry>>

Set(p) ==
  /\ probes[p].pc = "set"
  /\ entry' = TRUE
  /\ probes' = [probes EXCEPT ![p].pc = "get"]
  /\ UNCHANGED <<mongo, postgres>>

\* A plausible slip: the entry is deleted before it is read.
GetDeleted(p) ==
  /\ probes[p].pc = "get"
  /\ probes' = [probes EXCEPT ![p] =
       CASE probes[p].kind = "wired" -> Finish(p, TRUE, FALSE)
         [] probes[p].kind = "rw"    -> Finish(p, entry, ~entry)
         [] probes[p].kind = "full"  -> [probes[p] EXCEPT !.pc = "del", !.value = FALSE]]
  /\ UNCHANGED <<mongo, postgres, entry>>

\* The read.  wired reads another key and is content with any answer.
Get(p) ==
  /\ probes[p].pc = "get"
  /\ probes' = [probes EXCEPT ![p] =
       CASE probes[p].kind = "wired" -> Finish(p, TRUE, FALSE)
         [] probes[p].kind = "rw"    -> Finish(p, entry, ~entry)
         [] probes[p].kind = "full"  -> [probes[p] EXCEPT !.pc = "del", !.value = entry]]
  /\ UNCHANGED <<mongo, postgres, entry>>

\* What the loss of the entry is to a probe that has yet to read it.
Lost(k) == IF k.pc = "get" /\ k.kind # "wired" THEN [k EXCEPT !.lost = TRUE] ELSE k

\* pingCheck() deletes the entry whether or not it read it.
Delete(p) ==
  /\ probes[p].pc = "del"
  /\ entry' = FALSE
  /\ LET up == probes[p].db /\ probes[p].value
     IN  probes' = [q \in Probes |-> IF q = p THEN Finish(p, up, ~up) ELSE Lost(probes[q])]
  /\ UNCHANGED <<mongo, postgres>>

\* The entry's ten milliseconds are over, or the cache makes room.
Expire ==
  /\ entry /\ entry' = FALSE
  /\ probes' = [q \in Probes |-> Lost(probes[q])]
  /\ UNCHANGED <<mongo, postgres>>

\* A plausible slip: the error is caught and the check goes on as if it passed.
CommandFailsQuietly(p) ==
  /\ probes[p].pc \in {"set", "get", "del"}
  /\ probes' = [probes EXCEPT ![p] = [Finish(p, TRUE, FALSE) EXCEPT !.error = TRUE]]
  /\ UNCHANGED <<mongo, postgres, entry>>

\* A cache command fails: the probe reports "down"; all but wired's throw.
CommandFails(p) ==
  /\ probes[p].pc \in {"set", "get", "del"}
  /\ probes' = [probes EXCEPT ![p] =
                  [Finish(p, FALSE, probes[p].kind # "wired") EXCEPT !.error = TRUE]]
  /\ UNCHANGED <<mongo, postgres, entry>>

\* A connection comes up or goes down.
Flip ==
  /\ mongo' \in BOOLEAN /\ postgres' \in BOOLEAN /\ <<mongo, postgres>>' # <<mongo, postgres>>
  /\ UNCHANGED <<entry, probes>>

HealthNext ==
  \/ \E p \in Probes : \/ \E kind \in Kinds : Start(p, kind)
                       \/ Set(p) \/ Get(p) \/ Delete(p) \/ CommandFails(p)
  \/ Expire \/ Flip

HealthSpec == HealthInit /\ [][HealthNext]_healthVars
-----------------------------------------------------------------------------
ProbeRecords ==
  [kind : Kinds \cup {"none"}, pc : {"idle", "set", "get", "del"}, db : BOOLEAN,
   value : BOOLEAN, found : {"none", "up", "down"}, http : {"none", "ok", "error"},
   error : BOOLEAN, lost : BOOLEAN]

\* A probe under way has a kind, and no verdict yet.
HealthTypeOK ==
  /\ mongo \in BOOLEAN /\ postgres \in BOOLEAN /\ entry \in BOOLEAN
  /\ probes \in [Probes -> ProbeRecords]
  /\ \A p \in Probes :
       probes[p].pc # "idle" => probes[p].kind # "none" /\ probes[p].found = "none"

\* A probe that reports "down" had a reason: one of its commands failed, a
\* database was down when it looked, or its entry was lost between its write
\* and its read - which another probe's delete can do to a cache that works.
AlarmHasReason ==
  \A p \in Probes : probes[p].found = "down" => probes[p].error \/ probes[p].lost

\* A probe that reports "up" saw no command fail, and a full one both
\* databases up.
UpIsEarned ==
  \A p \in Probes :
    probes[p].found = "up" => ~probes[p].error /\ (probes[p].kind = "full" => probes[p].db)
=============================================================================
