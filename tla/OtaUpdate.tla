----------------------------- MODULE OtaUpdate ------------------------------
(***************************************************************************)
(* A firmware update: the OTA session of firmware/shared/ota_session.c     *)
(* over the flash partitions and the device identity, with the restarts    *)
(* that may hit between any two steps of it.                               *)
(*                                                                         *)
(* The firmware is single threaded, so every call of the API is one step,  *)
(* except the end of a transfer: flash_partition_ota_end(), set_pending_   *)
(* version() and set_boot() each write nonvolatile memory, and power may   *)
(* fail between them.  pc says how far a context got in that sequence; no  *)
(* other call runs until it is over.                                       *)
(***************************************************************************)
EXTENDS FlashPartition, DeviceIdentity

CONSTANTS
  Sessions,         \* OtaSessionContext_t objects of the callers
  MaxImage,         \* OTA_SESSION_MAX_IMAGE_SIZE
  MaxChunk,         \* OTA_SESSION_MAX_CHUNK_SIZE
  MaxRejects,       \* bound: rejected chunks a session lives to count
  BackendResults,   \* what the flash backend's begin and end callbacks, and
                    \* with FALSE in it also write, may return
  BootResults,      \* what its set_boot_partition callback may return
  SelfCheckResults  \* what the four module inits of the self-check may return

ASSUME OtaAssumption ==
  /\ MaxImage \in Nat \ {0} /\ MaxImage <= SlotSize
  /\ MaxChunk \in Nat \ {0}
  /\ MaxRejects \in Nat
  /\ BackendResults \subseteq BOOLEAN /\ BootResults \subseteq BOOLEAN
  /\ SelfCheckResults \subseteq BOOLEAN

VARIABLES
  ctx,        \* the contexts
  pc,         \* of each context: position in the tail of process_chunk()
  flashed     \* history: version and size of the manifest a slot was last
              \* begun for (the factory image counts as begun)

vars == << flashVars, identityVars, ctx, pc, flashed >>

States == {"IDLE", "TRANSFER", "VERIFY", "COMPLETE", "ERROR"}

Manifest == [domain : Domains, hw : Variants, fw_version : Versions,
             image_size : 0 .. MaxImage + 1]

(* A chunk, with the version of the image it was cut from: chunks carry no *)
(* session identifier, and the broker may repeat, reorder and delay them.  *)
Chunk == [sequence : 0 .. MaxImage, offset : 0 .. MaxImage,
          len : 0 .. MaxChunk + 1, version : Versions]

Context == [state : States, version : Versions \union {NoVersion},
            image_size : 0 .. MaxImage + 1, next_sequence : Nat,
            bytes_received : 0 .. MaxImage, received : Nat, accepted : Nat,
            rejected : 0 .. MaxRejects, retries : 0 .. MaxRejects,
            bytes_written : 0 .. MaxImage]

(* The context after memset(), in a given state. *)
Zeroed(state) ==
  [state |-> state, version |-> NoVersion, image_size |-> 0,
   next_sequence |-> 0, bytes_received |-> 0, received |-> 0, accepted |-> 0,
   rejected |-> 0, retries |-> 0, bytes_written |-> 0]

(* The context once the manifest has been copied into it. *)
Accepted(m, state) ==
  [Zeroed(state) EXCEPT !.version = m.fw_version, !.image_size = m.image_size]

(* Contexts, flash and identity have their types: no write passes the end  *)
(* of the slot.                                                            *)
TypeOK ==
  /\ FlashTypeOK
  /\ IdentityTypeOK
  /\ ctx \in [Sessions -> Context]
  /\ pc \in [Sessions -> {"idle", "end", "set_pending", "set_boot"}]
  /\ flashed \in [Slots -> [version : Versions, size : 0 .. SlotSize]]

Init ==
  \E factory \in Versions :
    /\ FlashInit(factory)
    /\ IdentityInit
    /\ ctx = [s \in Sessions |-> Zeroed("IDLE")]
    /\ pc = [s \in Sessions |-> "idle"]
    /\ flashed = [slot \in Slots |->
         [version |-> factory, size |-> IF slot = SlotA THEN SlotSize ELSE 0]]

-----------------------------------------------------------------------------
(* No call is in the middle of its work. *)
Quiet == \A s \in Sessions : pc[s] = "idle"

(* device_identity_set() at the factory, for the firmware in slot A. *)
Provision(id) ==
  /\ Quiet
  /\ id.fw_version = flashed[SlotA].version
  /\ SetIdentity(id)
  /\ UNCHANGED << flashVars, ctx, pc, flashed >>

(* ota_compatibility_check(). *)
Compatible(m) ==
  /\ m.domain = identity.domain
  /\ m.hw = identity.hw
  /\ m.fw_version > identity.fw_version

SizeOk(m) == m.image_size \in 1 .. MaxImage

(* ota_session_begin() refuses the manifest: not provisioned, or not for   *)
(* this device, or not newer.                                              *)
BeginIncompatible(s, m) ==
  /\ Quiet
  /\ ~(provisioned /\ Compatible(m))
  /\ ctx' = [ctx EXCEPT ![s] = Zeroed("ERROR")]
  /\ UNCHANGED << flashVars, identityVars, pc, flashed >>

(* ota_session_begin() refuses the image size. *)
BeginBadSize(s, m) ==
  /\ Quiet
  /\ provisioned /\ Compatible(m) /\ ~SizeOk(m)
  /\ ctx' = [ctx EXCEPT ![s] = Accepted(m, "ERROR")]
  /\ UNCHANGED << flashVars, identityVars, pc, flashed >>

(* ota_session_begin() with a good manifest while a write is in progress. *)
BeginRefused(s, m) ==
  /\ Quiet
  /\ provisioned /\ Compatible(m) /\ SizeOk(m)
  /\ OtaBeginRefused
  /\ ctx' = [ctx EXCEPT ![s] = Accepted(m, "ERROR")]
  /\ UNCHANGED << identityVars, pc, flashed >>

(* ota_session_begin() reaches the backend, which may fail to begin. *)
Begin(s, m, ok) ==
  /\ Quiet
  /\ provisioned /\ Compatible(m) /\ SizeOk(m)
  /\ OtaBegin(m.image_size, ok)
  /\ ctx' = [ctx EXCEPT ![s] = Accepted(m, IF ok THEN "TRANSFER" ELSE "ERROR")]
  /\ flashed' = IF ok THEN [flashed EXCEPT ![otaTarget'] =
                              [version |-> m.fw_version, size |-> m.image_size]]
                      ELSE flashed
  /\ UNCHANGED << identityVars, pc >>

-----------------------------------------------------------------------------
SequenceOk(x, c) == c.sequence = x.next_sequence
LengthOk(c) == c.len \in 1 .. MaxChunk
OffsetOk(x, c) == c.offset = x.bytes_received
FitsImage(c) == c.offset + c.len <= MaxImage

(* Mutants of ChunkOk: no bound on the image, no check of the offset. *)
ChunkOkUnbounded(x, c) == SequenceOk(x, c) /\ LengthOk(c) /\ OffsetOk(x, c)
ChunkOkAnyOffset(x, c) == SequenceOk(x, c) /\ LengthOk(c) /\ FitsImage(c)

ChunkOk(x, c) ==
  /\ SequenceOk(x, c)
  /\ LengthOk(c)
  /\ OffsetOk(x, c)
  /\ FitsImage(c)

(* Mutant of RejectChunk: a rejected chunk uses up its sequence number. *)
RejectChunkSkips(s, c) ==
  /\ Quiet
  /\ ctx[s].state = "TRANSFER"
  /\ ~ChunkOk(ctx[s], c)
  /\ ctx[s].rejected < MaxRejects
  /\ ctx' = [ctx EXCEPT ![s].received = @ + 1, ![s].rejected = @ + 1,
       ![s].next_sequence = @ + 1]
  /\ UNCHANGED << flashVars, identityVars, pc, flashed >>

(* ota_session_process_chunk() rejects: only a bad sequence asks a retry. *)
RejectChunk(s, c) ==
  /\ Quiet
  /\ ctx[s].state = "TRANSFER"
  /\ ~ChunkOk(ctx[s], c)
  /\ ctx[s].rejected < MaxRejects
  /\ ctx' = [ctx EXCEPT ![s].received = @ + 1, ![s].rejected = @ + 1,
       ![s].retries = IF SequenceOk(ctx[s], c) THEN @ ELSE @ + 1]
  /\ UNCHANGED << flashVars, identityVars, pc, flashed >>

(* ota_session_process_chunk() and the flash write fails. *)
WriteFails(s, c) ==
  /\ Quiet
  /\ ctx[s].state = "TRANSFER"
  /\ ChunkOk(ctx[s], c)
  /\ FALSE \in BackendResults \/ ~Writable(c.offset, c.len)
  /\ ctx' = [ctx EXCEPT ![s].received = @ + 1, ![s].state = "ERROR"]
  /\ UNCHANGED << flashVars, identityVars, pc, flashed >>

(* Mutant of AcceptChunk: the last chunk is recognised one byte too late. *)
AcceptChunkLate(s, c) ==
  LET last == ctx[s].bytes_received + c.len > ctx[s].image_size IN
  /\ Quiet
  /\ ctx[s].state = "TRANSFER"
  /\ ChunkOk(ctx[s], c)
  /\ OtaWrite(c.offset, c.len, c.version)
  /\ ctx' = [ctx EXCEPT ![s].received = @ + 1, ![s].accepted = @ + 1,
       ![s].next_sequence = @ + 1, ![s].bytes_received = @ + c.len,
       ![s].bytes_written = @ + c.len,
       ![s].state = IF last THEN "VERIFY" ELSE @]
  /\ pc' = IF last THEN [pc EXCEPT ![s] = "end"] ELSE pc
  /\ UNCHANGED << identityVars, flashed >>

(* ota_session_process_chunk() takes the chunk, and starts the tail when   *)
(* the whole image is in.                                                  *)
AcceptChunk(s, c) ==
  LET last == ctx[s].bytes_received + c.len >= ctx[s].image_size IN
  /\ Quiet
  /\ ctx[s].state = "TRANSFER"
  /\ ChunkOk(ctx[s], c)
  /\ OtaWrite(c.offset, c.len, c.version)
  /\ ctx' = [ctx EXCEPT ![s].received = @ + 1, ![s].accepted = @ + 1,
       ![s].next_sequence = @ + 1, ![s].bytes_received = @ + c.len,
       ![s].bytes_written = @ + c.len,
       ![s].state = IF last THEN "VERIFY" ELSE @]
  /\ pc' = IF last THEN [pc EXCEPT ![s] = "end"] ELSE pc
  /\ UNCHANGED << identityVars, flashed >>

(* The tail, first part: flash_partition_ota_end(), then COMPLETE. *)
EndFlash(s, ok) ==
  /\ pc[s] = "end"
  /\ OtaEnd(ok)
  /\ ctx' = [ctx EXCEPT ![s].state = IF ok THEN "COMPLETE" ELSE "ERROR"]
  /\ pc' = [pc EXCEPT ![s] = IF ok THEN "set_pending" ELSE "idle"]
  /\ UNCHANGED << identityVars, flashed >>

(* The tail, second part: device_identity_set_pending_version(). *)
SetPending(s) ==
  /\ pc[s] = "set_pending"
  /\ SetPendingVersion(ctx[s].version)
  /\ pc' = [pc EXCEPT ![s] = "set_boot"]
  /\ UNCHANGED << flashVars, ctx, flashed >>

(* The tail, last part: flash_partition_set_boot(), its result unused. *)
SwitchBoot(s, ok) ==
  /\ pc[s] = "set_boot"
  /\ SetBoot(ok)
  /\ pc' = [pc EXCEPT ![s] = "idle"]
  /\ UNCHANGED << identityVars, ctx, flashed >>

-----------------------------------------------------------------------------
(* ota_session_abort(): the flash partition is not told. *)
Abort(s) ==
  /\ Quiet
  /\ ctx' = [ctx EXCEPT ![s].state = "ERROR"]
  /\ UNCHANGED << flashVars, identityVars, pc, flashed >>

(* ota_session_boot_self_check() with a pending version, checks passed. *)
SelfCheckPasses ==
  /\ Quiet
  /\ ConfirmBoot
  /\ UNCHANGED << flashVars, ctx, pc, flashed >>

(* ota_session_boot_self_check() with a pending version, a check failed. *)
SelfCheckFails(ok) ==
  /\ Quiet
  /\ HasPending
  /\ Rollback(ok)
  /\ UNCHANGED << identityVars, ctx, pc, flashed >>

(* Power loss or restart, also in the middle of the tail. *)
Restart ==
  /\ FlashRestart
  /\ IdentityRestart
  /\ ctx' = [s \in Sessions |-> Zeroed("IDLE")]
  /\ pc' = [s \in Sessions |-> "idle"]
  /\ UNCHANGED flashed

SelfCheck ==
  \/ TRUE \in SelfCheckResults /\ SelfCheckPasses
  \/ FALSE \in SelfCheckResults /\ \E ok \in BootResults : SelfCheckFails(ok)

Tail ==
  \E s \in Sessions :
    \/ \E ok \in BackendResults : EndFlash(s, ok)
    \/ SetPending(s)
    \/ \E ok \in BootResults : SwitchBoot(s, ok)

Next ==
  \/ \E id \in Identity : Provision(id)
  \/ \E s \in Sessions, m \in Manifest :
       \/ BeginIncompatible(s, m)
       \/ BeginBadSize(s, m)
       \/ BeginRefused(s, m)
       \/ \E ok \in BackendResults : Begin(s, m, ok)
  \/ \E s \in Sessions, c \in Chunk :
       \/ RejectChunk(s, c)
       \/ WriteFails(s, c)
       \/ AcceptChunk(s, c)
  \/ \E s \in Sessions : Abort(s)
  \/ Tail
  \/ SelfCheck
  \/ Restart

Spec == Init /\ [][Next]_vars

(***************************************************************************)
(* The tail of a transfer runs to its end unless power fails, and the      *)
(* broker eventually delivers the chunk a session is waiting for.          *)
(***************************************************************************)
NeededChunk(s) ==
  \E c \in Chunk : c.version = ctx[s].version /\ AcceptChunk(s, c)

FairSpec ==
  /\ Spec
  /\ WF_vars(Tail)
  /\ \A s \in Sessions : WF_vars(NeededChunk(s))

-----------------------------------------------------------------------------
Busy(s) == ctx[s].state \in {"TRANSFER", "VERIFY"}

(* The slot has a byte written at every offset of the image begun in it. *)
Complete(slot) == \A i \in 0 .. flashed[slot].size - 1 : slotData[slot][i] # Erased

(* The slot the boot loader starts holds a fully written image, whatever   *)
(* aborts, flash failures, rollbacks and power losses hit an update, up to *)
(* a restart from slot B: flash_partition.c:127 then takes slot A for the  *)
(* one that boots, and the next begin erases the image that does.          *)
BootImageComplete == ~misread => Complete(bootFlag)

(* A context that is transferring owns the flash write that is in          *)
(* progress, alone: the in-progress flag of flash_partition_ota_begin()    *)
(* keeps a second ota_session_begin() from redirecting its chunks.         *)
TransferOwnsSlot ==
  \A s \in Sessions : Busy(s) =>
    /\ otaInProgress
    /\ flashed[otaTarget] = [version |-> ctx[s].version, size |-> ctx[s].image_size]
    /\ \A t \in Sessions : Busy(t) => t = s

(* The statistics of ota_session.c account for every chunk: each one       *)
(* received was accepted, rejected, or hit the flash failure that ended    *)
(* the session, and the bytes counted are the bytes received.              *)
StatsAddUp ==
  \A s \in Sessions :
    LET x == ctx[s] IN
    /\ x.received - x.accepted - x.rejected \in
         (IF x.state = "ERROR" THEN {0, 1} ELSE {0})
    /\ x.bytes_written = x.bytes_received
    /\ x.accepted = x.next_sequence
    /\ x.retries <= x.rejected

(* The self-check only ever confirms a version whose image is in the slot  *)
(* that boots: no power loss between the pending version and the boot      *)
(* switch in ota_session_process_chunk() separates the two.  A boot switch *)
(* that fails would: ota_session.c:169 drops its result.                   *)
ConfirmedImageBoots ==
  [][identity'.fw_version # identity.fw_version =>
       flashed'[bootFlag'].version = identity'.fw_version]_vars

(* A transfer is never stuck on duplicated, reordered or stale chunks: if  *)
(* the chunk it waits for keeps coming, ota_session_process_chunk() ends   *)
(* it one way or the other.                                                *)
TransferTerminates == \A s \in Sessions : Busy(s) ~> ~Busy(s)

-----------------------------------------------------------------------------
(* What a comment of the source says of the program, and it does not do.   *)

(* ota_session_boot_self_check(): a device that booted an image it has not *)
(* confirmed still has the pending version that the check confirms.        *)
UnconfirmedImageIsPending ==
  provisioned /\ Quiet =>
    HasPending \/ identity.fw_version = flashed[bootFlag].version
=============================================================================
