------------------------- MODULE SupervisionProofs --------------------------
(***************************************************************************)
(* Proofs about Supervision, for every set of faults, every matrix whose   *)
(* rows are monotone, every deadline and every pair of clocks.             *)
(***************************************************************************)
EXTENDS Supervision, FiniteSetTheorems, TLAPS

USE FaultAssumption, MonitorAssumption, ShortCycleAssumption

(* A step of Supervision, seen by one component at a time. *)

LEMMA StepOfFaults ==
  ASSUME [Next]_vars
  PROVE  \/ \E f \in Faults : ReportFault(f) \/ ClearFault(f)
         \/ FaultRestart
         \/ UNCHANGED faultVars
BY DEF Next, vars

LEMMA StepOfMonitor ==
  ASSUME [Next]_vars
  PROVE  \/ Heartbeat \/ TriggerFailsafe \/ Tick
         \/ \E r \in Rules : RuleEvaluated(r)
         \/ \E s \in Sources : SwitchSource(s)
         \/ MonitorRestart
         \/ UNCHANGED monitorVars
BY DEF Next, vars

LEMMA StepOfPower ==
  ASSUME [Next]_vars
  PROVE  \/ \E v \in Voltages : EvaluatePower(v)
         \/ PowerRestart
         \/ UNCHANGED powerVars
BY DEF Next, vars

-----------------------------------------------------------------------------

(* The fault tree. *)

(* WorstLevel() is the maximum of the levels, 0 for no fault. *)
LEMMA WorstLevelIsMax ==
  ASSUME NEW A \in SUBSET Faults, NEW level \in [Faults -> Levels]
  PROVE  /\ WorstLevel(A, level) \in Levels
         /\ \A f \in A : level[f] <= WorstLevel(A, level)
         /\ A = {} => WorstLevel(A, level) = 0
<1> DEFINE IsWorst(l) == /\ l = 0 \/ \E f \in A : level[f] = l
                         /\ \A f \in A : level[f] <= l
<1>1. \A f \in A : level[f] \in {0, 1, 2, 3, 4}
  BY DEF Levels
<1>2. \E l \in Levels : IsWorst(l)
  <2>1. CASE \E f \in A : level[f] = 4
    BY <1>1, <2>1 DEF Levels
  <2>2. CASE (\A f \in A : level[f] # 4) /\ \E f \in A : level[f] = 3
    BY <1>1, <2>2 DEF Levels
  <2>3. CASE (\A f \in A : level[f] \notin {3, 4}) /\ \E f \in A : level[f] = 2
    BY <1>1, <2>3 DEF Levels
  <2>4. CASE (\A f \in A : level[f] \notin {2, 3, 4}) /\ \E f \in A : level[f] = 1
    BY <1>1, <2>4 DEF Levels
  <2>5. CASE \A f \in A : level[f] = 0
    BY <2>5 DEF Levels
  <2>6. QED
    BY <1>1, <2>1, <2>2, <2>3, <2>4, <2>5
<1>3. WorstLevel(A, level) = CHOOSE l \in Levels : IsWorst(l)
  BY DEF WorstLevel
<1>4. WorstLevel(A, level) \in Levels /\ IsWorst(WorstLevel(A, level))
  <2> HIDE DEF IsWorst
  <2> QED
    BY <1>2, <1>3
<1>5. QED
  BY <1>4

(* The levels of the active faults lie between what the fault alone asks   *)
(* for and the level of the system.                                        *)
FaultInv ==
  /\ standing = active
  /\ \A f \in active : Matrix[f][0] <= faultLevel[f] /\ faultLevel[f] <= systemLevel
  /\ active = {} => systemLevel = 0

LEMMA FaultInitially == FaultInit => FaultTypeOK /\ FaultInv
BY DEF FaultInit, FaultTypeOK, FaultInv, Levels

LEMMA FaultStep ==
  ASSUME FaultTypeOK, FaultInv, [Next]_vars
  PROVE  FaultTypeOK' /\ FaultInv'
<1>1. ASSUME NEW f \in Faults, ReportFault(f) PROVE FaultTypeOK' /\ FaultInv'
  <2>1. /\ EscalatedLevel(f) \in Levels
        /\ Matrix[f][0] <= EscalatedLevel(f)
    <3>1. /\ Matrix[f][systemLevel] \in Levels /\ Matrix[f][0] \in Levels
          /\ faultLevel[f] \in Levels /\ 0 \in Levels /\ systemLevel \in Levels
      BY DEF FaultTypeOK, Levels
    <3>2. 0 <= systemLevel
      BY <3>1 DEF Levels
    <3>3. Matrix[f][0] <= Matrix[f][systemLevel]
      BY <3>1, <3>2
    <3>4. QED
      BY <3>1, <3>3 DEF EscalatedLevel, Levels
  <2>2. /\ slots' = slots \union {f} /\ active' = active \union {f}
        /\ standing' = standing \union {f}
        /\ faultLevel' = [faultLevel EXCEPT ![f] = EscalatedLevel(f)]
        /\ systemLevel' = WorstLevel(active', faultLevel')
    BY <1>1 DEF ReportFault
  <2>3. active' \in SUBSET Faults /\ faultLevel' \in [Faults -> Levels]
    BY <2>1, <2>2 DEF FaultTypeOK
  <2>4. /\ systemLevel' \in Levels
        /\ \A g \in active' : faultLevel'[g] <= systemLevel'
        /\ active' = {} => systemLevel' = 0
    BY <2>2, <2>3, WorstLevelIsMax
  <2>5. \A g \in active' : Matrix[g][0] <= faultLevel'[g]
    BY <2>1, <2>2 DEF FaultInv, FaultTypeOK
  <2>6. QED
    BY <2>2, <2>3, <2>4, <2>5 DEF FaultInv, FaultTypeOK
<1>2. ASSUME NEW f \in Faults, ClearFault(f) PROVE FaultTypeOK' /\ FaultInv'
  <2>1. /\ slots' = slots /\ active' = active \ {f} /\ standing' = standing \ {f}
        /\ faultLevel' = [faultLevel EXCEPT ![f] = 0]
        /\ systemLevel' = WorstLevel(active', faultLevel')
    BY <1>2 DEF ClearFault
  <2>2. active' \in SUBSET Faults /\ faultLevel' \in [Faults -> Levels]
    BY <2>1 DEF FaultTypeOK, Levels
  <2>3. /\ systemLevel' \in Levels
        /\ \A g \in active' : faultLevel'[g] <= systemLevel'
        /\ active' = {} => systemLevel' = 0
    BY <2>1, <2>2, WorstLevelIsMax
  <2>4. \A g \in active' : Matrix[g][0] <= faultLevel'[g]
    BY <2>1 DEF FaultInv, FaultTypeOK
  <2>5. QED
    BY <2>1, <2>2, <2>3, <2>4 DEF FaultInv, FaultTypeOK
<1>3. CASE FaultRestart
  BY <1>3 DEF FaultRestart, FaultTypeOK, FaultInv, Levels
<1>4. CASE UNCHANGED faultVars
  BY <1>4 DEF faultVars, FaultTypeOK, FaultInv
<1>5. QED
  BY <1>1, <1>2, <1>3, <1>4, StepOfFaults

LEMMA FaultCorrect == Spec => [](FaultTypeOK /\ FaultInv)
<1>1. Init => FaultTypeOK /\ FaultInv
  BY FaultInitially DEF Init
<1>2. (FaultTypeOK /\ FaultInv) /\ [Next]_vars => (FaultTypeOK /\ FaultInv)'
  BY FaultStep
<1>3. QED
  BY <1>1, <1>2, PTL DEF Spec

(* fault_tree_report_fault() and fault_tree_clear_fault(), in any order:   *)
(* the system is as degraded as each standing fault alone asks for, for    *)
(* every matrix with monotone rows.                                        *)
THEOREM DegradesEnough == Spec => []DegradedEnough
<1>1. FaultTypeOK /\ FaultInv => DegradedEnough
  <2> SUFFICES ASSUME FaultTypeOK, FaultInv, NEW f \in active
               PROVE  systemLevel >= Matrix[f][0]
    BY DEF DegradedEnough, FaultInv
  <2>1. f \in Faults
    BY DEF FaultTypeOK
  <2>2. Matrix[f][0] \in Levels /\ faultLevel[f] \in Levels /\ systemLevel \in Levels
    BY <2>1 DEF FaultTypeOK, Levels
  <2>3. QED
    BY <2>2 DEF FaultInv, Levels
<1>2. QED
  BY <1>1, FaultCorrect, PTL

-----------------------------------------------------------------------------

(* The battery states. *)

PowerInv == PowerTypeOK /\ PowerTracksWorst

LEMMA PowerStep ==
  ASSUME PowerInv, [Next]_vars
  PROVE  PowerInv'
<1> USE DEF PowerInv, PowerTypeOK, PowerTracksWorst, PowerStates, Voltages
<1>1. ASSUME NEW v \in Voltages, EvaluatePower(v) PROVE PowerInv'
  <2>1. lowest \in {1, 2, 3, 4, 5} /\ v \in {1, 2, 3, 4, 5}
    OBVIOUS
  <2>2. lowest' \in Voltages
    BY <1>1 DEF EvaluatePower
  <2>3. power' = PowerStates[lowest']
    BY <1>1, <2>1 DEF EvaluatePower, Evaluated
  <2>4. QED
    BY <2>2, <2>3
<1>2. CASE PowerRestart
  BY <1>2 DEF PowerRestart
<1>3. CASE UNCHANGED powerVars
  BY <1>3 DEF powerVars
<1>4. QED
  BY <1>1, <1>2, <1>3, StepOfPower

LEMMA PowerCorrect == Spec => []PowerInv
<1>1. Init => PowerInv
  BY DEF Init, PowerInit, PowerInv, PowerTypeOK, PowerTracksWorst, PowerStates, Voltages
<1>2. PowerInv /\ [Next]_vars => PowerInv'
  BY PowerStep
<1>3. QED
  BY <1>1, <1>2, PTL DEF Spec

(* power_state_evaluate() moves down only: the state is decided by the     *)
(* worst voltage since the start.                                          *)
THEOREM PowerIsWorst == Spec => []PowerTracksWorst
<1>1. PowerInv => PowerTracksWorst
  BY DEF PowerInv
<1>2. QED
  BY <1>1, PowerCorrect, PTL

-----------------------------------------------------------------------------

(* The watchdog. *)

MonitorInv ==
  /\ MonitorTypeOK
  /\ IsFiniteSet(tracked)
  /\ overridden => monState = "EMERGENCY"

LEMMA NowIsClock ==
  ASSUME MonitorTypeOK
  PROVE  Now \in Clocks
<1>1. source \in {"NTP", "RTC", "NONE"} /\ time \in 0 .. MaxTime
  BY DEF MonitorTypeOK
<1>2. CASE source = "NTP"
  BY <1>1, <1>2 DEF Now, Clocks
<1>3. CASE source = "RTC"
  BY <1>1, <1>3 DEF Now, Clocks
<1>4. CASE source = "NONE"
  BY <1>1, <1>4 DEF Now, Clocks
<1>5. QED
  BY <1>1, <1>2, <1>3, <1>4

LEMMA MonitorInitially == MonitorInit => MonitorInv
<1> SUFFICES ASSUME MonitorInit PROVE MonitorInv
  OBVIOUS
<1>1. IsFiniteSet(tracked) /\ Cardinality(tracked) = 0
  BY FS_EmptySet DEF MonitorInit
<1>2. overridden \in BOOLEAN
  BY Zenon DEF MonitorInit
<1>3. QED
  BY <1>1, <1>2 DEF MonitorInit, MonitorInv, MonitorTypeOK, Clocks

LEMMA MonitorStep ==
  ASSUME MonitorInv, [Next]_vars
  PROVE  MonitorInv'
<1> USE DEF MonitorInv, MonitorTypeOK
<1>1. CASE Heartbeat
  BY <1>1, NowIsClock DEF Heartbeat
<1>2. CASE TriggerFailsafe
  <2>1. overridden' \in BOOLEAN
    BY <1>2, Zenon DEF TriggerFailsafe
  <2>2. QED
    BY <1>2, <2>1 DEF TriggerFailsafe
<1>3. CASE Tick
  BY <1>3 DEF Tick
<1>4. ASSUME NEW r \in Rules, RuleEvaluated(r) PROVE MonitorInv'
  <2>1. IsFiniteSet(tracked') /\ Cardinality(tracked') <= MaxRules
    <3>1. CASE r \in tracked
      <4>1. tracked' = tracked
        BY <1>4, <3>1 DEF RuleEvaluated
      <4>2. QED
        BY <4>1
    <3>2. CASE r \notin tracked
      <4>1. /\ IsFiniteSet(tracked \union {r})
            /\ Cardinality(tracked \union {r}) = Cardinality(tracked) + 1
        BY <3>2, FS_AddElement
      <4>2. Cardinality(tracked) \in Nat
        BY FS_CardinalityType
      <4>3. Cardinality(tracked) < MaxRules /\ tracked' = tracked \union {r}
        BY <1>4, <3>2 DEF RuleEvaluated
      <4>4. QED
        BY <4>1, <4>2, <4>3
    <3>3. QED
      BY <3>1, <3>2
  <2>2. QED
    BY <1>4, <2>1 DEF RuleEvaluated
<1>5. ASSUME NEW s \in Sources, SwitchSource(s) PROVE MonitorInv'
  BY <1>5 DEF SwitchSource
<1>6. CASE MonitorRestart
  <2>1. IsFiniteSet(tracked') /\ Cardinality(tracked') = 0
    BY <1>6, FS_EmptySet DEF MonitorRestart
  <2>2. overridden' \in BOOLEAN /\ ~overridden'
    BY <1>6, Zenon DEF MonitorRestart
  <2>3. QED
    BY <1>6, <2>1, <2>2 DEF MonitorRestart, Clocks
<1>7. CASE UNCHANGED monitorVars
  BY <1>7 DEF monitorVars
<1>8. QED
  BY <1>1, <1>2, <1>3, <1>4, <1>5, <1>6, <1>7, StepOfMonitor

LEMMA MonitorCorrect == Spec => []MonitorInv
<1>1. Init => MonitorInv
  BY MonitorInitially DEF Init
<1>2. MonitorInv /\ [Next]_vars => MonitorInv'
  BY MonitorStep
<1>3. QED
  BY <1>1, <1>2, PTL DEF Spec

(* safety_monitor_trigger_failsafe() latches: no heartbeat, rule or clock  *)
(* makes a later safety_monitor_check() report anything but the emergency. *)
THEOREM OverrideStays == Spec => []OverrideLatched
<1>1. MonitorInv => OverrideLatched
  BY DEF MonitorInv, OverrideLatched, CheckResult
<1>2. QED
  BY <1>1, MonitorCorrect, PTL

(* The last heartbeat of an active watchdog was stamped by one of the two  *)
(* clocks.                                                                 *)
BeatInv == monState = "ACTIVE" => lastBeat \in {Epoch + beat, Epoch + Skew + beat}

LEMMA NowOfSource ==
  ASSUME "NONE" \notin Sources, MonitorTypeOK
  PROVE  Now \in {Epoch + time, Epoch + Skew + time}
<1>1. source \in {"NTP", "RTC"}
  BY DEF MonitorTypeOK
<1>2. QED
  BY <1>1 DEF Now

LEMMA BeatStep ==
  ASSUME "NONE" \notin Sources, MonitorInv, BeatInv, [Next]_vars
  PROVE  BeatInv'
<1>1. CASE Heartbeat
  BY <1>1, NowOfSource DEF Heartbeat, BeatInv, MonitorInv
<1>2. CASE UNCHANGED << monState, lastBeat, beat >>
  BY <1>2 DEF BeatInv
<1>3. CASE monState' # "ACTIVE"
  BY <1>3 DEF BeatInv
<1>4. QED
  BY <1>1, <1>2, <1>3, StepOfMonitor
     DEF TriggerFailsafe, Tick, RuleEvaluated, SwitchSource, MonitorRestart, monitorVars

LEMMA SilenceFound ==
  ASSUME "NONE" \notin Sources, MonitorInv, BeatInv
  PROVE  SilenceIsReported
<1> DEFINE Limit == Deadline * Missed
<1>1. Limit \in Nat
  OBVIOUS
<1> SUFFICES ASSUME monState = "ACTIVE", time - beat > Limit + Skew
             PROVE  CheckResult = "EMERGENCY"
  BY DEF SilenceIsReported, CheckResult, MonitorInv, MonitorTypeOK
<1>2. time \in Nat /\ beat \in Nat /\ Epoch \in Nat /\ Skew \in Nat
  BY DEF MonitorInv, MonitorTypeOK
<1>3. /\ Now \in {Epoch + time, Epoch + Skew + time}
      /\ lastBeat \in {Epoch + beat, Epoch + Skew + beat}
  BY NowOfSource DEF BeatInv, MonitorInv
<1> HIDE DEF Limit
<1>4. Now >= lastBeat /\ Now - lastBeat > Limit
  BY <1>1, <1>2, <1>3
<1>5. Elapsed > Limit
  BY <1>4 DEF Elapsed
<1>6. QED
  BY <1>5 DEF CheckResult, Limit

(* safety_monitor_check() reports a heartbeat that stopped, for every      *)
(* deadline and threshold and every skew of the clocks, on a hub whose     *)
(* time source has a clock to read.                                        *)
THEOREM SilenceFoundOut ==
  ASSUME "NONE" \notin Sources
  PROVE  Spec => []SilenceIsReported
<1>1. Init => BeatInv
  BY DEF Init, MonitorInit, BeatInv
<1>2. MonitorInv /\ BeatInv /\ [Next]_vars => BeatInv'
  BY BeatStep
<1>3. MonitorInv /\ BeatInv => SilenceIsReported
  BY SilenceFound
<1>4. QED
  BY <1>1, <1>2, <1>3, MonitorCorrect, PTL DEF Spec

-----------------------------------------------------------------------------

(* The short-cycle protection. *)

LEMMA StepOfShort ==
  ASSUME [Next]_vars
  PROVE  \/ (CompressorOff \/ CompressorStart) /\ UNCHANGED monitorVars
         \/ ShortClock /\ \E s \in Sources : SwitchSource(s)
         \/ ShortRestart /\ UNCHANGED << time, source >>
         \/ UNCHANGED shortVars /\ UNCHANGED << time, source >>
         \/ UNCHANGED shortVars /\ Tick
BY DEF Next, vars, MonitorRestart, Heartbeat, TriggerFailsafe, RuleEvaluated, monitorVars

LEMMA ShortTypeStep ==
  ASSUME MonitorTypeOK, ShortTypeOK, [Next]_vars
  PROVE  ShortTypeOK'
<1> USE DEF ShortTypeOK, MonitorTypeOK
<1>1. CASE CompressorOff /\ UNCHANGED monitorVars
  <2>1. offTracked' \in BOOLEAN /\ running' \in BOOLEAN /\ steady' \in BOOLEAN
    BY <1>1, Zenon DEF CompressorOff
  <2>2. QED
    BY <1>1, <2>1, NowIsClock DEF CompressorOff, monitorVars
<1>2. CASE CompressorStart /\ UNCHANGED monitorVars
  <2>1. running' \in BOOLEAN
    BY <1>2 DEF CompressorStart, MayStart
  <2>2. unreliable' \in BOOLEAN
    BY <1>2 DEF CompressorStart
  <2>3. QED
    BY <1>2, <2>1, <2>2 DEF CompressorStart, monitorVars
<1>3. ASSUME ShortClock, NEW s \in Sources, SwitchSource(s) PROVE ShortTypeOK'
  <2>1. steady' \in BOOLEAN
    BY <1>3 DEF ShortClock
  <2>2. QED
    BY <1>3, <2>1 DEF ShortClock, SwitchSource
<1>4. CASE ShortRestart /\ UNCHANGED << time, source >>
  <2>1. /\ offTracked' \in BOOLEAN /\ unreliable' \in BOOLEAN
        /\ running' \in BOOLEAN /\ steady' \in BOOLEAN
    BY <1>4, Zenon DEF ShortRestart
  <2>2. QED
    BY <1>4, <2>1 DEF ShortRestart, Clocks
<1>5. CASE UNCHANGED shortVars /\ (UNCHANGED << time, source >> \/ Tick)
  BY <1>5 DEF shortVars, Tick
<1>6. QED
  BY <1>1, <1>2, <1>3, <1>4, <1>5, StepOfShort

LEMMA ShortInitially == ShortInit /\ MonitorInit => ShortTypeOK
<1> SUFFICES ASSUME ShortInit, MonitorInit PROVE ShortTypeOK
  OBVIOUS
<1>1. /\ offTracked \in BOOLEAN /\ unreliable \in BOOLEAN
      /\ running \in BOOLEAN /\ steady \in BOOLEAN
  BY Zenon DEF ShortInit
<1>2. QED
  BY <1>1 DEF ShortInit, MonitorInit, ShortTypeOK, Clocks

LEMMA ShortCorrect == Spec => []ShortTypeOK
<1>1. Init => ShortTypeOK
  BY ShortInitially DEF Init
<1>2. MonitorInv /\ ShortTypeOK /\ [Next]_vars => ShortTypeOK'
  BY ShortTypeStep DEF MonitorInv
<1>3. QED
  BY <1>1, <1>2, MonitorCorrect, PTL DEF Spec

(* The four components keep to their types, and safety_monitor.c to its    *)
(* array of rules.                                                         *)
THEOREM TypeCorrect == Spec => []TypeOK
<1>1. MonitorInv /\ ShortTypeOK /\ PowerInv /\ (FaultTypeOK /\ FaultInv) => TypeOK
  BY DEF TypeOK, MonitorInv, PowerInv
<1>2. QED
  BY <1>1, MonitorCorrect, ShortCorrect, PowerCorrect, FaultCorrect, PTL

(* A recorded stop was stamped by one of the two clocks, and by the        *)
(* current one if the source has not changed since.                        *)
OffInv ==
  offTracked =>
    /\ lastOff \in {Epoch + stopped, Epoch + Skew + stopped}
    /\ steady => Now - lastOff = time - stopped

LEMMA OffStep ==
  ASSUME "NONE" \notin Sources, MonitorTypeOK, MonitorTypeOK', ShortTypeOK, OffInv, [Next]_vars
  PROVE  OffInv'
<1>0. /\ time \in Nat /\ stopped \in Nat /\ Epoch \in Nat /\ Skew \in Nat
      /\ Now \in {Epoch + time, Epoch + Skew + time} /\ lastOff \in Nat
  BY NowOfSource DEF MonitorTypeOK, ShortTypeOK, Clocks
<1>1. CASE CompressorOff /\ UNCHANGED monitorVars
  <2>1. /\ lastOff' = Now /\ stopped' = time
        /\ time' = time /\ Now' = Now
    BY <1>1 DEF CompressorOff, monitorVars, Now
  <2>2. QED
    BY <1>0, <2>1 DEF OffInv
<1>2. CASE CompressorStart /\ UNCHANGED monitorVars
  BY <1>2 DEF CompressorStart, monitorVars, OffInv, Now
<1>3. ASSUME ShortClock, NEW s \in Sources, SwitchSource(s) PROVE OffInv'
  <2>1. UNCHANGED << lastOff, offTracked, stopped, time >>
    BY <1>3 DEF ShortClock, SwitchSource
  <2>2. steady' => steady /\ source' = source
    BY <1>3 DEF ShortClock
  <2>3. source' = source => Now' = Now
    BY <2>1 DEF Now
  <2>4. QED
    BY <2>1, <2>2, <2>3 DEF OffInv
<1>4. CASE ShortRestart
  BY <1>4 DEF ShortRestart, OffInv
<1>5. CASE UNCHANGED shortVars /\ UNCHANGED << time, source >>
  BY <1>5 DEF shortVars, OffInv, Now
<1>6. CASE UNCHANGED shortVars /\ Tick
  <2>1. time' = time + 1 /\ source' = source
    BY <1>6 DEF Tick
  <2>2. source \in {"NTP", "RTC"}
    BY DEF MonitorTypeOK
  <2>3. Now' = Now + 1
    BY <1>0, <2>1, <2>2 DEF Now
  <2>4. QED
    BY <1>0, <1>6, <2>1, <2>3 DEF shortVars, OffInv
<1>7. QED
  BY <1>1, <1>2, <1>3, <1>4, <1>5, <1>6, StepOfShort

LEMMA RestartStep ==
  ASSUME "NONE" \notin Sources, MonitorTypeOK, ShortTypeOK, OffInv, [Next]_vars,
         ~running, running', offTracked
  PROVE  time - stopped >= RequiredOff - (IF steady THEN 0 ELSE Skew)
<1>1. CompressorStart
  BY StepOfShort DEF CompressorOff, ShortClock, ShortRestart, shortVars
<1>2. Now >= lastOff /\ Now - lastOff >= RequiredOff
  BY <1>1 DEF CompressorStart, MayStart
<1>3. /\ time \in Nat /\ stopped \in Nat /\ Epoch \in Nat /\ Skew \in Nat
      /\ Now \in {Epoch + time, Epoch + Skew + time}
      /\ RequiredOff \in Nat
  BY NowOfSource DEF MonitorTypeOK, ShortTypeOK, RequiredOff
<1>4. CASE steady
  BY <1>2, <1>3, <1>4 DEF OffInv
<1>5. CASE ~steady
  BY <1>2, <1>3, <1>5 DEF OffInv
<1>6. QED
  BY <1>4, <1>5

(* hvac_short_cycle_check() keeps a compressor off for the delay in true   *)
(* time, but for the skew of the clocks, on a hub whose time source has a  *)
(* clock to read.                                                          *)
THEOREM RestartIsDelayed ==
  ASSUME "NONE" \notin Sources
  PROVE  Spec => RestartDelayed
<1>1. Init => OffInv
  BY DEF Init, ShortInit, OffInv
<1>2. MonitorInv /\ MonitorInv' /\ ShortTypeOK /\ OffInv /\ [Next]_vars => OffInv'
  BY OffStep DEF MonitorInv
<1>3. MonitorInv /\ ShortTypeOK /\ OffInv /\ [Next]_vars
        => [~running /\ running' /\ offTracked =>
              time - stopped >= RequiredOff - (IF steady THEN 0 ELSE Skew)]_<< shortVars, monitorVars >>
  BY RestartStep DEF MonitorInv
<1>4. QED
  BY <1>1, <1>2, <1>3, MonitorCorrect, ShortCorrect, PTL DEF Spec, RestartDelayed
=============================================================================
