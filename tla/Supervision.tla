---------------------------- MODULE Supervision -----------------------------
(***************************************************************************)
(* What watches over a device, side by side: the watchdog of the safety    *)
(* pipeline and the compressor's short-cycle protection, which read one    *)
(* clock, the fault tree and the battery states.  No code under firmware/  *)
(* calls them: the calls come in any order.  A power cycle resets all.     *)
(***************************************************************************)
EXTENDS FaultTree, ShortCycle, PowerState

vars == << faultVars, monitorVars, shortVars, powerVars >>

(* The variables have their types, and the table of rules fits its array. *)
TypeOK == FaultTypeOK /\ MonitorTypeOK /\ ShortTypeOK /\ PowerTypeOK

Init == FaultInit /\ MonitorInit /\ ShortInit /\ PowerInit

Next ==
  \/ /\ \E f \in Faults : ReportFault(f) \/ ClearFault(f)
     /\ UNCHANGED << monitorVars, shortVars, powerVars >>
  \/ /\ Heartbeat \/ TriggerFailsafe \/ Tick \/ \E r \in Rules : RuleEvaluated(r)
     /\ UNCHANGED << faultVars, shortVars, powerVars >>
  \/ /\ \E s \in Sources : SwitchSource(s)
     /\ ShortClock
     /\ UNCHANGED << faultVars, powerVars >>
  \/ /\ CompressorOff \/ CompressorStart
     /\ UNCHANGED << faultVars, monitorVars, powerVars >>
  \/ /\ \E v \in Voltages : EvaluatePower(v)
     /\ UNCHANGED << faultVars, monitorVars, shortVars >>
  \/ FaultRestart /\ MonitorRestart /\ ShortRestart /\ PowerRestart

Spec == Init /\ [][Next]_vars
=============================================================================
