----------------------------- MODULE FaultTree ------------------------------
(***************************************************************************)
(* The degradation matrix of firmware/shared/fault_tree.c.  The array of   *)
(* fault slots is only appended to, and looked up by fault: it is the set  *)
(* of the faults that have a slot.  The report count and time of a fault,  *)
(* which no decision reads, are left out.                                  *)
(***************************************************************************)
EXTENDS Integers, FiniteSets

CONSTANTS
  Faults,     \* FaultId_t, without FAULT_COUNT
  Matrix,     \* s_degradation_matrix
  MaxFaults   \* FAULT_TREE_MAX_FAULTS

(* s_degradation_matrix; the level L is at position L + 1 of a row. *)
DegradationMatrix ==
  [NONE               |-> << 0, 0, 0, 0, 0 >>,
   RADIO_LOST         |-> << 1, 2, 2, 3, 4 >>,
   CLOUD_UNREACHABLE  |-> << 1, 2, 2, 3, 4 >>,
   SENSOR_INVALID     |-> << 1, 2, 3, 3, 4 >>,
   ATTESTATION_FAILED |-> << 2, 3, 3, 3, 4 >>,
   FLASH_WRITE_ERROR  |-> << 1, 1, 2, 3, 4 >>,
   CLOCK_DRIFT        |-> << 1, 2, 2, 3, 4 >>,
   MEMORY_LOW         |-> << 1, 2, 3, 4, 4 >>,
   RULE_ENGINE_STALL  |-> << 3, 4, 4, 4, 4 >>]

Levels == 0 .. 4   \* DEGRADE_LEVEL_NORMAL .. DEGRADE_LEVEL_EMERGENCY

(* Along a row of the matrix the result never gets better. *)
ASSUME FaultAssumption ==
  /\ Matrix \in [Faults -> [Levels -> Levels]]
  /\ \A f \in Faults : \A l, m \in Levels : l <= m => Matrix[f][l] <= Matrix[f][m]
  /\ MaxFaults \in Nat

VARIABLES
  slots,        \* the faults with a slot in faults[0 .. fault_count - 1]
  active,       \* those whose active flag is set
  faultLevel,   \* current_level of each fault, 0 without a slot
  systemLevel,  \* system_level
  standing      \* history: the faults reported and not cleared since

faultVars == << slots, active, faultLevel, systemLevel, standing >>

FaultTypeOK ==
  /\ slots \subseteq Faults
  /\ active \subseteq slots /\ standing \subseteq Faults
  /\ faultLevel \in [Faults -> Levels]
  /\ systemLevel \in Levels

FaultInit ==
  /\ slots = {} /\ active = {} /\ standing = {}
  /\ faultLevel = [f \in Faults |-> 0]
  /\ systemLevel = 0

(* fault_tree_init() on the context of a hub that starts again. *)
FaultRestart ==
  /\ slots' = {} /\ active' = {} /\ standing' = {}
  /\ faultLevel' = [f \in Faults |-> 0]
  /\ systemLevel' = 0

(* evaluate_system_level(): the worst level of the active faults A. *)
WorstLevel(A, level) ==
  CHOOSE l \in Levels :
    /\ l = 0 \/ \E f \in A : level[f] = l
    /\ \A f \in A : level[f] <= l

(* The level of a fault that is reported: it never gets better. *)
EscalatedLevel(f) ==
  IF Matrix[f][systemLevel] > faultLevel[f] THEN Matrix[f][systemLevel]
                                            ELSE faultLevel[f]

(* Mutant of ReportFault: a fault that has a slot is already active. *)
ReportFaultOnce(f) ==
  /\ f \in slots \/ Cardinality(slots) < MaxFaults
  /\ slots' = slots \union {f} /\ standing' = standing \union {f}
  /\ active' = IF f \in slots THEN active ELSE active \union {f}
  /\ faultLevel' = [faultLevel EXCEPT ![f] = EscalatedLevel(f)]
  /\ systemLevel' = WorstLevel(active', faultLevel')

(* fault_tree_report_fault(); without a free slot nothing changes. *)
ReportFault(f) ==
  /\ f \in slots \/ Cardinality(slots) < MaxFaults
  /\ slots' = slots \union {f} /\ standing' = standing \union {f}
  /\ active' = active \union {f}
  /\ faultLevel' = [faultLevel EXCEPT ![f] = EscalatedLevel(f)]
  /\ systemLevel' = WorstLevel(active', faultLevel')

(* fault_tree_clear_fault() *)
ClearFault(f) ==
  /\ active' = active \ {f} /\ standing' = standing \ {f}
  /\ faultLevel' = [faultLevel EXCEPT ![f] = 0]
  /\ systemLevel' = WorstLevel(active', faultLevel')
  /\ UNCHANGED slots

-----------------------------------------------------------------------------
(* "ensuring the system always degrades gracefully": whatever was reported *)
(* and cleared before, and in whatever order, while a fault stands the     *)
(* system is at least as degraded as this fault alone would make it, and   *)
(* a system without a standing fault is back to normal.                    *)
DegradedEnough ==
  /\ \A f \in standing : systemLevel >= Matrix[f][0]
  /\ standing = {} => systemLevel = 0
=============================================================================
