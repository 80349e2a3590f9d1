----------------------------- MODULE ShortCycle -----------------------------
(***************************************************************************)
(* The short-cycle protection of the HVAC compressor, the hvac_short_cycle *)
(* functions of firmware/profiles/hvac/hvac_rules.c, read with the clock   *)
(* of SafetyMonitor.  Whoever drives the compressor is external: it        *)
(* records every stop and asks before every start.                         *)
(***************************************************************************)
EXTENDS SafetyMonitor

CONSTANTS
  MinOff,      \* HVAC_MIN_COMPRESSOR_OFF_SEC
  Fallback     \* HVAC_CLOCK_UNRELIABLE_FALLBACK_SEC

ASSUME ShortCycleAssumption == MinOff \in Nat /\ Fallback \in Nat /\ Fallback <= MinOff

VARIABLES
  lastOff,     \* last_off_time_sec
  offTracked,  \* tracked
  unreliable,  \* clock_unreliable
  running,     \* the compressor runs
  stopped,     \* history: true time of its last stop
  steady       \* history: the clock kept its source since the last stop

shortVars == << lastOff, offTracked, unreliable, running, stopped, steady >>

ShortTypeOK ==
  /\ lastOff \in Clocks
  /\ offTracked \in BOOLEAN /\ unreliable \in BOOLEAN
  /\ running \in BOOLEAN /\ steady \in BOOLEAN
  /\ stopped \in 0 .. time

ShortInit ==
  /\ lastOff = 0 /\ offTracked = FALSE /\ unreliable = FALSE
  /\ running = FALSE /\ stopped = 0 /\ steady = TRUE

(* The compressor stops: hvac_short_cycle_record_off(). *)
CompressorOff ==
  /\ running
  /\ lastOff' = Now /\ offTracked' = TRUE
  /\ running' = FALSE /\ stopped' = time /\ steady' = TRUE
  /\ UNCHANGED unreliable

(* The delay that applies. *)
RequiredOff == IF unreliable THEN Fallback ELSE MinOff

(* Mutant of MayStart: the unsigned difference is taken of a clock that    *)
(* went back.                                                              *)
MayStartWraps ==
  ~offTracked \/ Now < lastOff \/ Now - lastOff >= RequiredOff

(* hvac_short_cycle_check() returns true. *)
MayStart ==
  ~offTracked \/ (Now >= lastOff /\ Now - lastOff >= RequiredOff)

(* hvac_short_cycle_check() and, if it allows it, the start. *)
CompressorStart ==
  /\ ~running
  /\ running' = MayStart
  /\ unreliable' = (unreliable \/ (offTracked /\ Now < lastOff))
  /\ UNCHANGED << lastOff, offTracked, stopped, steady >>

(* The hub starts again with hvac_short_cycle_reset()'s state; without     *)
(* power the compressor has stopped.                                       *)
ShortRestart ==
  /\ lastOff' = 0 /\ offTracked' = FALSE /\ unreliable' = FALSE
  /\ running' = FALSE
  /\ stopped' = IF running THEN time ELSE stopped
  /\ steady' = TRUE

(* The clock may have changed its source. *)
ShortClock ==
  /\ steady' = (steady /\ source' = source)
  /\ UNCHANGED << lastOff, offTracked, unreliable, running, stopped >>

-----------------------------------------------------------------------------
(* A compressor whose stop was recorded stays off for the delay that       *)
(* applies, in true time, although the clock may have jumped either way by *)
(* the skew of its sources.                                                *)
RestartDelayed ==
  [][~running /\ running' /\ offTracked =>
       time - stopped >= RequiredOff - (IF steady THEN 0 ELSE Skew)]_<< shortVars, monitorVars >>
=============================================================================
