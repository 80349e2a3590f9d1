----------------------------- MODULE PowerState -----------------------------
(***************************************************************************)
(* The battery states of an edge node, firmware/edge/power_state.c.        *)
(***************************************************************************)
EXTENDS Integers

(* The voltages that the four thresholds tell apart, best first: above LOW *)
(* and at most LOW, CRITICAL, EMERGENCY, SHUTDOWN.                         *)
Voltages == 1 .. 5

VARIABLES
  power,     \* PowerStateContext_t.current
  lowest     \* history: the worst voltage since the start

powerVars == << power, lowest >>

(* PowerState_t, best first. *)
PowerStates == << "ACTIVE", "IDLE", "SLEEP", "EMERGENCY", "SHUTDOWN" >>

PowerTypeOK ==
  power \in {PowerStates[v] : v \in Voltages} /\ lowest \in Voltages

PowerInit == power = "ACTIVE" /\ lowest = 1

(* power_state_init() after a power cycle. *)
PowerRestart == power' = "ACTIVE" /\ lowest' = 1

(* Mutant of Evaluated: an emergency reading ends a shutdown. *)
EvaluatedRevives(state, voltage) ==
  CASE voltage = 5 -> "SHUTDOWN"
    [] voltage = 4 -> "EMERGENCY"
    [] voltage = 3 -> IF state \in {"ACTIVE", "IDLE"} THEN "SLEEP" ELSE state
    [] voltage = 2 -> IF state = "ACTIVE" THEN "IDLE" ELSE state
    [] OTHER -> state

(* The transition of power_state_evaluate(). *)
Evaluated(state, voltage) ==
  CASE voltage = 5 -> "SHUTDOWN"
    [] voltage = 4 -> IF state # "SHUTDOWN" THEN "EMERGENCY" ELSE state
    [] voltage = 3 -> IF state \in {"ACTIVE", "IDLE"} THEN "SLEEP" ELSE state
    [] voltage = 2 -> IF state = "ACTIVE" THEN "IDLE" ELSE state
    [] OTHER -> state

(* power_state_evaluate() *)
EvaluatePower(voltage) ==
  /\ power' = Evaluated(power, voltage)
  /\ lowest' = IF voltage > lowest THEN voltage ELSE lowest

-----------------------------------------------------------------------------
(* "can only move DOWN to worse state, not up": the state is the one that  *)
(* the worst voltage since the start asks for, in whatever order the       *)
(* voltages came.                                                          *)
PowerTracksWorst == power = PowerStates[lowest]
=============================================================================
