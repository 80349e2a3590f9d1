--------------------------- MODULE SafetyMonitor ----------------------------
(***************************************************************************)
(* The watchdog of the safety pipeline, firmware/shared/safety_monitor.c,  *)
(* and the clock it reads, firmware/shared/time_source.c.  The clock is    *)
(* the wall-clock time of NTP if that is synced, else of the RTC, else 0;  *)
(* it changes source at any time.  missed_count, which stays 0, and the    *)
(* evaluation times of the rules, which nothing reads, are left out.       *)
(***************************************************************************)
EXTENDS Integers, FiniteSets

CONSTANTS
  Deadline,    \* SAFETY_MONITOR_DEADLINE_MS
  Missed,      \* SAFETY_MONITOR_MISSED_THRESHOLD
  Rules,       \* identifiers of safety rules
  MaxRules,    \* SAFETY_MONITOR_MAX_RULES
  Epoch,       \* the wall-clock time when the hub starts
  Skew,        \* how far NTP is ahead of the RTC
  Sources,     \* the states of the time source: "NTP", "RTC", "NONE"
  ClockMod,    \* 2^64
  MaxTime      \* bound: true time

ASSUME MonitorAssumption ==
  /\ Deadline \in Nat \ {0} /\ Missed \in Nat \ {0}
  /\ MaxRules \in Nat /\ Epoch \in Nat /\ Skew \in Nat /\ MaxTime \in Nat
  /\ Sources \subseteq {"NTP", "RTC", "NONE"} /\ Sources # {}
  /\ ClockMod \in Nat
  /\ ClockMod > Deadline * Missed + 2 * (Epoch + Skew + MaxTime)

VARIABLES
  monState,    \* state
  lastBeat,    \* last_heartbeat_ms
  tracked,     \* the rules that have a slot in rules[0 .. rule_count - 1]
  time,        \* true time since the hub started
  source,      \* which clock time_source_get_ms() reads
  beat,        \* history: true time of the last heartbeat
  overridden   \* history: the fail-safe callback was called

monitorVars == << monState, lastBeat, tracked, time, source, beat, overridden >>

(* time_source_get_ms() *)
Now ==
  CASE source = "NTP"  -> Epoch + Skew + time
    [] source = "RTC"  -> Epoch + time
    [] source = "NONE" -> 0

Clocks == 0 .. Epoch + Skew + MaxTime

MonitorTypeOK ==
  /\ monState \in {"IDLE", "ACTIVE", "EMERGENCY"}
  /\ lastBeat \in Clocks
  /\ tracked \subseteq Rules /\ Cardinality(tracked) <= MaxRules
  /\ time \in 0 .. MaxTime /\ source \in Sources
  /\ beat \in 0 .. time
  /\ overridden \in BOOLEAN

(* safety_monitor_init() *)
MonitorInit ==
  /\ monState = "IDLE" /\ lastBeat = 0 /\ tracked = {}
  /\ time = 0 /\ source \in Sources
  /\ beat = 0 /\ overridden = FALSE

(* Mutant of Heartbeat: any state becomes active. *)
HeartbeatRevives ==
  /\ lastBeat' = Now /\ beat' = time
  /\ monState' = "ACTIVE"
  /\ UNCHANGED << tracked, time, source, overridden >>

(* safety_monitor_heartbeat(); the state DEGRADED is never stored. *)
Heartbeat ==
  /\ lastBeat' = Now /\ beat' = time
  /\ monState' = IF monState = "EMERGENCY" THEN monState ELSE "ACTIVE"
  /\ UNCHANGED << tracked, time, source, overridden >>

(* Mutant of RuleEvaluated: the table is taken to have room. *)
RuleEvaluatedUnbounded(r) ==
  /\ tracked' = tracked \union {r}
  /\ UNCHANGED << monState, lastBeat, time, source, beat, overridden >>

(* safety_monitor_rule_evaluated(); a full table takes no new rule. *)
RuleEvaluated(r) ==
  /\ r \in tracked \/ Cardinality(tracked) < MaxRules
  /\ tracked' = tracked \union {r}
  /\ UNCHANGED << monState, lastBeat, time, source, beat, overridden >>

(* safety_monitor_trigger_failsafe() *)
TriggerFailsafe ==
  /\ monState' = "EMERGENCY" /\ overridden' = TRUE
  /\ UNCHANGED << lastBeat, tracked, time, source, beat >>

(* now - last_heartbeat_ms, unsigned *)
Elapsed == IF Now >= lastBeat THEN Now - lastBeat ELSE Now - lastBeat + ClockMod

(* Mutant of CheckResult: the missed beats are counted from one too few. *)
CheckResultLate ==
  CASE monState = "EMERGENCY" -> "EMERGENCY"
    [] monState = "IDLE" -> IF Now > 2 * Deadline THEN "EMERGENCY" ELSE "IDLE"
    [] OTHER -> IF Elapsed > Deadline * (Missed + 1) THEN "EMERGENCY"
                ELSE IF Elapsed > Deadline THEN "DEGRADED" ELSE "ACTIVE"

(* safety_monitor_check(): a result for the caller, nothing is stored. *)
CheckResult ==
  CASE monState = "EMERGENCY" -> "EMERGENCY"
    [] monState = "IDLE" -> IF Now > 2 * Deadline THEN "EMERGENCY" ELSE "IDLE"
    [] OTHER -> IF Elapsed > Deadline * Missed THEN "EMERGENCY"
                ELSE IF Elapsed > Deadline THEN "DEGRADED" ELSE "ACTIVE"

(* The hub starts again: safety_monitor_init() on a fresh context. *)
MonitorRestart ==
  /\ monState' = "IDLE" /\ lastBeat' = 0 /\ tracked' = {}
  /\ overridden' = FALSE
  /\ UNCHANGED << time, source, beat >>

(* Time passes, or the clock gets another source. *)
Tick ==
  /\ time < MaxTime /\ time' = time + 1
  /\ UNCHANGED << monState, lastBeat, tracked, source, beat, overridden >>

SwitchSource(s) ==
  /\ source' = s
  /\ UNCHANGED << monState, lastBeat, tracked, time, beat, overridden >>

-----------------------------------------------------------------------------
(* "Emergency is latched -- once triggered, stays until re-init": after    *)
(* the fail-safe override every check reports the emergency, whatever      *)
(* heartbeats still arrive.                                                *)
OverrideLatched == overridden => CheckResult = "EMERGENCY"

(* "If the heartbeat stops, the monitor triggers a failsafe override on    *)
(* all actuators": a heartbeat that has been missing for longer than the   *)
(* limit is reported, although the clock may jump back by the skew of its  *)
(* sources and the difference of two clock values may wrap.                *)
SilenceIsReported ==
  monState # "IDLE" /\ time - beat > Deadline * Missed + Skew
    => CheckResult = "EMERGENCY"
=============================================================================
