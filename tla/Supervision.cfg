SPECIFICATION Spec
CONSTANTS
  Faults = {"FLASH_WRITE_ERROR", "SENSOR_INVALID", "RULE_ENGINE_STALL"}
  Matrix <- MCMatrix
  MaxFaults = 2
  Deadline = 1
  Missed = 2
  Rules = {"r1", "r2"}
  MaxRules = 1
  Epoch = 1
  Skew = 1
  Sources = {"NTP", "RTC"}
  ClockMod = 100
  MaxTime = 4
  MinOff = 3
  Fallback = 2
INVARIANTS
  TypeOK
  DegradedEnough
  OverrideLatched
  SilenceIsReported
  PowerTracksWorst
PROPERTIES
  RestartDelayed
