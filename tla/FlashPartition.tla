--------------------------- MODULE FlashPartition ---------------------------
(***************************************************************************)
(* The A/B flash partitions of firmware/shared/flash_partition.c: the      *)
(* static variables of that file and the operations the OTA session calls. *)
(*                                                                         *)
(* The backend callbacks behave as the in-memory backend of the same file  *)
(* does, except that a callback may also report a failure (the parameter   *)
(* "ok"), as a real flash driver can.  A byte of a slot is abstracted to   *)
(* the firmware version of the image it was cut from.                      *)
(***************************************************************************)
EXTENDS Naturals

CONSTANT SlotSize  \* FLASH_PARTITION_MAX_SIZE: bytes in a slot

ASSUME FlashAssumption == SlotSize \in Nat \ {0}

VARIABLES
  slotData,      \* s_slot_data: the content of each slot
  slotState,     \* s_slot_state
  bootFlag,      \* the backend's boot flag: the slot the boot loader starts
  bootPartition, \* s_boot_partition
  originalBoot,  \* s_original_boot_partition
  otaTarget,     \* s_ota_target
  otaInProgress, \* s_ota_in_progress
  misread        \* history: flash_partition_init() once ran on slot B, which
                 \* it takes for slot A

flashVars == << slotData, slotState, bootFlag, bootPartition, originalBoot,
                otaTarget, otaInProgress, misread >>

SlotA == 0
SlotB == 1
Slots == {SlotA, SlotB}
Other(slot) == IF slot = SlotA THEN SlotB ELSE SlotA

Erased == 0     \* an erased byte (0xFF); image bytes are versions, above 0
Offsets == 0 .. SlotSize - 1

SlotStates == {"ERASED", "WRITING", "VALID", "BOOTABLE"}

FlashTypeOK ==
  /\ slotData \in [Slots -> [Offsets -> Nat]]
  /\ slotState \in [Slots -> SlotStates]
  /\ bootFlag \in Slots
  /\ bootPartition \in Slots
  /\ originalBoot \in Slots
  /\ otaTarget \in Slots
  /\ otaInProgress \in BOOLEAN
  /\ misread \in BOOLEAN

(***************************************************************************)
(* Power-on of a fresh device: flash_partition_init() has run, and the     *)
(* slot it calls the active one carries the factory image.                 *)
(***************************************************************************)
FlashInit(factory) ==
  /\ slotData = [slot \in Slots |-> [i \in Offsets |->
                   IF slot = SlotA THEN factory ELSE Erased]]
  /\ slotState = [slot \in Slots |-> "ERASED"]
  /\ bootFlag = SlotA
  /\ bootPartition = SlotA
  /\ originalBoot = SlotA
  /\ otaTarget = SlotB
  /\ otaInProgress = FALSE
  /\ misread = FALSE

(* flash_partition_ota_begin() while an earlier write was never ended. *)
OtaBeginRefused ==
  /\ otaInProgress
  /\ UNCHANGED flashVars

(* Mutant of OtaBegin: the in-progress flag is not looked at. *)
OtaBeginUnguarded(size, ok) ==
  /\ originalBoot' = bootPartition
  /\ otaTarget' = Other(bootPartition)
  /\ otaInProgress' = ok
  /\ IF ok
       THEN /\ slotData' = [slotData EXCEPT ![Other(bootPartition)] =
                 [i \in Offsets |-> IF i < size THEN Erased ELSE @[i]]]
            /\ slotState' = [slotState EXCEPT ![Other(bootPartition)] = "WRITING"]
       ELSE UNCHANGED << slotData, slotState >>
  /\ UNCHANGED << bootFlag, bootPartition, misread >>

(* flash_partition_ota_begin(size), with mock_begin() erasing "size" bytes. *)
OtaBegin(size, ok) ==
  /\ ~otaInProgress
  /\ originalBoot' = bootPartition
  /\ otaTarget' = Other(bootPartition)
  /\ otaInProgress' = ok
  /\ IF ok
       THEN /\ slotData' = [slotData EXCEPT ![Other(bootPartition)] =
                 [i \in Offsets |-> IF i < size THEN Erased ELSE @[i]]]
            /\ slotState' = [slotState EXCEPT ![Other(bootPartition)] = "WRITING"]
       ELSE UNCHANGED << slotData, slotState >>
  /\ UNCHANGED << bootFlag, bootPartition, misread >>

(* The conditions under which mock_write() takes the bytes. *)
Writable(offset, len) ==
  /\ otaInProgress
  /\ offset + len <= SlotSize
  /\ slotState[otaTarget] = "WRITING"

(* flash_partition_ota_write() accepts the bytes. *)
OtaWrite(offset, len, version) ==
  /\ Writable(offset, len)
  /\ slotData' = [slotData EXCEPT ![otaTarget] =
       [i \in Offsets |-> IF i >= offset /\ i < offset + len
                            THEN version ELSE @[i]]]
  /\ UNCHANGED << slotState, bootFlag, bootPartition, originalBoot, otaTarget,
                  otaInProgress, misread >>

(* flash_partition_ota_end(): in progress is cleared whatever end() says;  *)
(* mock_end() itself refuses a slot that is not being written.             *)
OtaEnd(ok) ==
  /\ otaInProgress
  /\ ok => slotState[otaTarget] = "WRITING"
  /\ otaInProgress' = FALSE
  /\ slotState' = IF ok THEN [slotState EXCEPT ![otaTarget] = "VALID"]
                        ELSE slotState
  /\ UNCHANGED << slotData, bootFlag, bootPartition, originalBoot, otaTarget,
                  misread >>

(* The backend moves its boot flag: mock_set_boot_partition(). *)
MoveBoot(slot, ok) ==
  /\ IF ok
       THEN /\ slotState' = [slotState EXCEPT ![slot] = "BOOTABLE"]
            /\ bootFlag' = slot
            /\ bootPartition' = slot
       ELSE UNCHANGED << slotState, bootFlag, bootPartition >>
  /\ UNCHANGED << slotData, originalBoot, otaTarget, otaInProgress, misread >>

SetBoot(ok) == MoveBoot(otaTarget, ok)       \* flash_partition_set_boot()

Rollback(ok) == MoveBoot(originalBoot, ok)   \* flash_partition_rollback()

(***************************************************************************)
(* A restart.  The slots and the boot flag are nonvolatile, the file's own *)
(* variables are not: their initialisers and flash_partition_init() set    *)
(* them again, without asking the backend which slot it booted.            *)
(***************************************************************************)
FlashRestart ==
  /\ bootPartition' = SlotA
  /\ originalBoot' = SlotA
  /\ otaTarget' = SlotB
  /\ otaInProgress' = FALSE
  /\ misread' = (misread \/ bootFlag # SlotA)
  /\ UNCHANGED << slotData, slotState, bootFlag >>
=============================================================================
