------------------------------ MODULE Monitoring ------------------------------
(***************************************************************************)
(* The triggers that react to resource measurements: the monitor with its  *)
(* snapshots (monitor/snapshot.rs), its triggers (trigger.rs) and their    *)
(* cooldowns (hysteresis.rs), and the eviction controller of               *)
(* performance.rs.                                                         *)
(*                                                                         *)
(* A measurement is what thresholds it crosses.  Time is in units of the   *)
(* base cooldown.                                                          *)
(***************************************************************************)
EXTENDS Naturals

CONSTANTS
  Measured,    \* triggers on a snapshot, VRAM aside: kv_growing, queue_high
  Reported,    \* triggers on what update_* was told: moe_low_hit, ...
  BaseCooldown, MaxCooldown,
  EvictPause,  \* TriggerConfig.cooldown_ms of performance.rs
  MaxTime      \* bound: the last instant

Vram     == {"vram_critical", "vram_falling"}
Triggers == Vram \cup Measured \cup Reported

ASSUME MonitoringAssumption ==
  /\ BaseCooldown \in Nat \ {0} /\ MaxCooldown \in Nat
  /\ BaseCooldown <= MaxCooldown
  /\ EvictPause \in Nat /\ MaxTime \in Nat
  /\ Vram \cap (Measured \cup Reported) = {}

VARIABLES
  now,
  snapshot,   \* latest_snapshot: the level of the VRAM and what is crossed
  reported,   \* thresholds the reported values cross
  cooldown,   \* current_cooldown_ms of a trigger that has fired
  fired,      \* a trigger's consecutive_triggers, last_triggered, and the
              \* time between its last two firings (history)
  evicting,   \* TriggerController: inside the hysteresis
  evictions   \* the same record of its evictions

moVars == <<now, snapshot, reported, cooldown, fired, evicting, evictions>>

Never == [count |-> 0, last |-> 0, gap |-> 0]

Again(f) ==
  [count |-> f.count + 1, last |-> now, gap |-> IF f.count = 0 THEN 0 ELSE now - f.last]

MOInit ==
  /\ now = 0
  /\ snapshot = [vram |-> "calm", over |-> {}]
  /\ reported = {}
  /\ cooldown = [t \in Triggers |-> 0]
  /\ fired = [t \in Triggers |-> Never]
  /\ evicting = FALSE /\ evictions = Never

Advance ==
  /\ now < MaxTime
  /\ now' = now + 1
  /\ UNCHANGED <<snapshot, reported, cooldown, fired, evicting, evictions>>

(* run_periodic: what capture_snapshot reads replaces the latest snapshot.   *)
(* It estimates neither VRAM, KV nor queue yet; this model lets it.          *)
CaptureSnapshot ==
  /\ \E level \in {"calm", "falling", "critical"}, over \in SUBSET Measured :
       snapshot' = [vram |-> level, over |-> over]
  /\ UNCHANGED <<now, reported, cooldown, fired, evicting, evictions>>

UpdateReported ==
  /\ reported' \in SUBSET Reported
  /\ UNCHANGED <<now, snapshot, cooldown, fired, evicting, evictions>>

-----------------------------------------------------------------------------
CanTrigger(t) == fired[t].count = 0 \/ now - fired[t].last >= cooldown[t]

(* Seeded fault: every firing starts from the base again. *)
BaseAgain(t) == BaseCooldown

(* record_trigger: the first time doubles the base cooldown already. *)
NextCooldown(t) ==
  LET current == IF fired[t].count = 0 THEN BaseCooldown ELSE cooldown[t]
      doubled == 2 * current
  IN IF doubled < MaxCooldown THEN doubled ELSE MaxCooldown

(* A critical level does not also count as a falling one. *)
Crossed ==
  (CASE snapshot.vram = "critical" -> {"vram_critical"}
     [] snapshot.vram = "falling" -> {"vram_falling"}
     [] OTHER -> {})
  \cup snapshot.over \cup reported

(* evaluate: SSD reads in the decode phase are not detected, so that trigger *)
(* never fires.                                                              *)
Evaluate ==
  LET acts == {t \in Crossed : CanTrigger(t)} IN
  /\ cooldown' = [t \in Triggers |-> IF t \in acts THEN NextCooldown(t) ELSE cooldown[t]]
  /\ fired' = [t \in Triggers |-> IF t \in acts THEN Again(fired[t]) ELSE fired[t]]
  /\ UNCHANGED <<now, snapshot, reported, evicting, evictions>>

(* TriggerController::evaluate: between the two thresholds it keeps its mind.*)
ControlEvictions ==
  /\ evicting' = CASE snapshot.vram = "critical" -> TRUE
                   [] snapshot.vram = "calm" -> FALSE
                   [] OTHER -> evicting
  /\ evictions' = IF evicting' /\ (evictions.count = 0 \/ now - evictions.last >= EvictPause)
                  THEN Again(evictions) ELSE evictions
  /\ UNCHANGED <<now, snapshot, reported, cooldown, fired>>

MONext ==
  Advance \/ CaptureSnapshot \/ UpdateReported \/ Evaluate \/ ControlEvictions

MOSpec == MOInit /\ [][MONext]_moVars

-----------------------------------------------------------------------------
(* "Cooldowns prevent thrashing ... exponential backoff" (hysteresis.rs): a  *)
(* trigger that has fired n times waits 2^n base cooldowns, at most the      *)
(* maximum, whatever the levels do in between; and no two evictions of the   *)
(* controller are closer than its pause.                                     *)
FiringsBackOff ==
  /\ \A t \in Triggers : fired[t].count > 1 =>
       \/ fired[t].gap >= BaseCooldown * 2 ^ (fired[t].count - 1)
       \/ fired[t].gap >= MaxCooldown
  /\ evictions.count > 1 => evictions.gap >= EvictPause
=============================================================================
