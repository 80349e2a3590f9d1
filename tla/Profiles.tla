------------------------------ MODULE Profiles ------------------------------
(***************************************************************************)
(* The data of the four domain profiles under firmware/profiles: rule      *)
(* tables, plausibility bounds and actuators.  Sensor values are in        *)
(* tenths, times in seconds.                                               *)
(***************************************************************************)
EXTENDS SensorGate

(* A RuleEntry_t: priority, class, rule_id and interlock_id, which the     *)
(* evaluation does not read, are left out; the action of every rule is     *)
(* RULE_ACTION_SET_ACTUATOR.                                               *)
Rule(metric, comparison, threshold, actuator) ==
  [metric |-> metric, comparison |-> comparison, threshold |-> threshold,
   actuator |-> actuator]

HomeRules ==
  << Rule("SECURITY_STATE", "ABOVE",   10, "DOOR_LOCK"),
     Rule("SOIL_MOISTURE",  "ABOVE",  300, "IRRIGATION_VALVE"),
     Rule("LIGHT_LEVEL",    "ABOVE", 1000, "LIGHT_RELAY") >>

AgricultureRules ==
  << Rule("WATER_LEVEL",   "BELOW", 100, "IRRIGATION_PUMP"),
     Rule("SOIL_MOISTURE", "BELOW", 250, "IRRIGATION_VALVE"),
     Rule("AMBIENT_TEMP",  "BELOW",  20, "FROST_VALVE") >>

HvacRules ==
  << Rule("SUPPLY_TEMP", "ABOVE", 450, "COMPRESSOR_RELAY"),
     Rule("SUPPLY_TEMP", "ABOVE", 550, "COMPRESSOR_RELAY"),
     Rule("RETURN_TEMP", "BELOW", 200, "FAN_MOTOR") >>

(* Mutant of WaterRules: the two limits of the pH are swapped. *)
WaterRulesSwapped ==
  << Rule("CHLORINE_LEVEL", "ABOVE",  40, "DOSING_VALVE"),
     Rule("PH",             "ABOVE",  65, "DOSING_VALVE"),
     Rule("PH",             "BELOW",  85, "DOSING_VALVE"),
     Rule("TANK_LEVEL",     "BELOW", 200, "MAIN_SUPPLY_VALVE") >>

WaterRules ==
  << Rule("CHLORINE_LEVEL", "ABOVE",  40, "DOSING_VALVE"),
     Rule("PH",             "ABOVE",  85, "DOSING_VALVE"),
     Rule("PH",             "BELOW",  65, "DOSING_VALVE"),
     Rule("TANK_LEVEL",     "BELOW", 200, "MAIN_SUPPLY_VALVE") >>

-----------------------------------------------------------------------------
(* The *_get_validation_bounds(): the metrics that have bounds. *)

HomeBounds ==
  [DOOR_CONTACT  |-> Bounds(0,    10,   20,    0),
   LIGHT_LEVEL   |-> Bounds(0, 10000, 5000, 3600),
   SOIL_MOISTURE |-> Bounds(0,  1000,  100, 7200)]

AgricultureBounds ==
  [SOIL_MOISTURE    |-> Bounds(   0, 1000,  50, 7200),
   AMBIENT_TEMP     |-> Bounds(-400,  600,  50, 3600),
   AMBIENT_HUMIDITY |-> Bounds(   0, 1000, 100, 3600),
   WATER_LEVEL      |-> Bounds(   0, 1000,  20, 1800)]

HvacBounds ==
  [SUPPLY_TEMP     |-> Bounds(   0,  600, 20,  600),
   RETURN_TEMP     |-> Bounds(   0,  600, 10,  900),
   INDOOR_HUMIDITY |-> Bounds(   0, 1000, 50, 1800),
   AMBIENT_TEMP    |-> Bounds(-100,  500, 10, 1800)]

WaterBounds ==
  [CHLORINE_LEVEL |-> Bounds(0,  100,  20, 1800),
   PH             |-> Bounds(0,  140,  10, 3600),
   TANK_LEVEL     |-> Bounds(0, 1000,  50, 1800),
   FLOW_RATE      |-> Bounds(0,  500, 100,  900)]

-----------------------------------------------------------------------------
(* The actuators the *_failsafe_register_all() register: those a profile   *)
(* has.                                                                    *)

HomeActuators == {"DOOR_LOCK", "IRRIGATION_VALVE", "LIGHT_RELAY"}

AgricultureActuators == {"IRRIGATION_PUMP", "IRRIGATION_VALVE", "FROST_VALVE"}

HvacActuators == {"COMPRESSOR_RELAY", "DAMPER_MOTOR", "FAN_MOTOR"}

WaterActuators == {"DOSING_VALVE", "MAIN_SUPPLY_VALVE", "CIRCULATION_PUMP"}

-----------------------------------------------------------------------------
(* The profile a hub is built with.  The validateSensorReading() of Home   *)
(* and Agriculture asks for a value that is not negative, of whatever      *)
(* metric; that of HVAC and Water Treatment for one within the bounds.     *)
Profiles ==
  [HOME |->
     [rules |-> HomeRules, bounds |-> HomeBounds, actuators |-> HomeActuators,
      gate |-> "nonnegative"],
   AGRICULTURE |->
     [rules |-> AgricultureRules, bounds |-> AgricultureBounds,
      actuators |-> AgricultureActuators, gate |-> "nonnegative"],
   HVAC |->
     [rules |-> HvacRules, bounds |-> HvacBounds, actuators |-> HvacActuators,
      gate |-> "bounds"],
   WATER_TREATMENT |->
     [rules |-> WaterRules, bounds |-> WaterBounds, actuators |-> WaterActuators,
      gate |-> "bounds"]]

ProfileIds == DOMAIN Profiles

(* The metrics of a profile that have bounds or a rule. *)
Metrics(p) ==
  DOMAIN Profiles[p].bounds
    \union {Profiles[p].rules[i].metric : i \in DOMAIN Profiles[p].rules}

(* vtable->validateSensorReading() *)
VtableValid(p, m, v) ==
  IF Profiles[p].gate = "nonnegative" THEN v >= 0
  ELSE /\ m \in DOMAIN Profiles[p].bounds
       /\ v \in Profiles[p].bounds[m].lo .. Profiles[p].bounds[m].hi
=============================================================================
