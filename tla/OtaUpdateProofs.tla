-------------------------- MODULE OtaUpdateProofs ---------------------------
(***************************************************************************)
(* Proofs about OtaUpdate, for every number of contexts, size of image and *)
(* set of versions.                                                        *)
(***************************************************************************)
EXTENDS OtaUpdate, TLAPS

LEMMA InitType == Init => TypeOK
<1> SUFFICES ASSUME Init PROVE TypeOK
  OBVIOUS
<1> USE FlashAssumption, IdentityAssumption, OtaAssumption
<1> PICK factory \in Versions :
      /\ FlashInit(factory)
      /\ IdentityInit
      /\ ctx = [s \in Sessions |-> Zeroed("IDLE")]
      /\ pc = [s \in Sessions |-> "idle"]
      /\ flashed = [slot \in Slots |->
           [version |-> factory, size |-> IF slot = SlotA THEN SlotSize ELSE 0]]
  BY DEF Init
<1>1. FlashTypeOK
  BY DEF FlashInit, FlashTypeOK, Slots, SlotA, SlotB, SlotStates, Erased, Offsets
<1>2. IdentityTypeOK
  BY DEF IdentityInit, IdentityTypeOK, Blank
<1>3. Zeroed("IDLE") \in Context
  BY DEF Zeroed, Context, States, NoVersion
<1>4. flashed \in [Slots -> [version : Versions, size : 0 .. SlotSize]]
  BY DEF Slots
<1> QED
  BY <1>1, <1>2, <1>3, <1>4 DEF TypeOK

(* The pieces every step is made of preserve the types of their module. *)
LEMMA FlashStepType ==
  ASSUME FlashTypeOK,
         NEW ok \in BOOLEAN, NEW size \in Nat, NEW offset \in Nat, NEW len \in Nat,
         NEW version \in Nat,
         \/ UNCHANGED flashVars
         \/ OtaBegin(size, ok)
         \/ OtaWrite(offset, len, version)
         \/ OtaEnd(ok)
         \/ SetBoot(ok)
         \/ Rollback(ok)
         \/ FlashRestart
  PROVE  FlashTypeOK'
<1> USE FlashAssumption DEF FlashTypeOK, Slots, SlotA, SlotB, SlotStates, Other,
        Erased
<1>1. CASE UNCHANGED flashVars
  BY <1>1 DEF flashVars
<1>2. CASE OtaBegin(size, ok)
  BY <1>2 DEF OtaBegin
<1>3. CASE OtaWrite(offset, len, version)
  BY <1>3 DEF OtaWrite
<1>4. CASE OtaEnd(ok)
  BY <1>4 DEF OtaEnd
<1>5. CASE SetBoot(ok) \/ Rollback(ok)
  BY <1>5 DEF SetBoot, Rollback, MoveBoot
<1>6. CASE FlashRestart
  BY <1>6 DEF FlashRestart
<1> QED
  BY <1>1, <1>2, <1>3, <1>4, <1>5, <1>6

LEMMA IdentityStepType ==
  ASSUME IdentityTypeOK,
         NEW id \in Identity, NEW version \in Versions \union {NoVersion},
         \/ UNCHANGED identityVars
         \/ SetIdentity(id)
         \/ SetPendingVersion(version)
         \/ ConfirmBoot
         \/ IdentityRestart
  PROVE  IdentityTypeOK'
<1> USE DEF IdentityTypeOK
<1>1. CASE UNCHANGED identityVars
  BY <1>1 DEF identityVars
<1>2. CASE SetIdentity(id)
  BY <1>2 DEF SetIdentity, Persist
<1>3. CASE SetPendingVersion(version)
  BY <1>3 DEF SetPendingVersion, Persist, identityVars
<1>4. CASE ConfirmBoot
  <2>1. identity \in Identity /\ pending \in Versions
    BY <1>4 DEF ConfirmBoot, HasPending
  <2>2. [identity EXCEPT !.fw_version = pending] \in Identity
    BY <2>1 DEF Identity
  <2> QED
    BY <1>4, <2>2 DEF ConfirmBoot, Persist, HasPending
<1>5. CASE IdentityRestart
  BY <1>5 DEF IdentityRestart
<1> QED
  BY <1>1, <1>2, <1>3, <1>4, <1>5

(* The contexts ota_session_begin() can leave behind. *)
LEMMA FreshContext ==
  ASSUME NEW m \in Manifest, NEW state \in States
  PROVE  Zeroed(state) \in Context /\ Accepted(m, state) \in Context
<1>1. Zeroed(state) \in Context
  BY OtaAssumption DEF Zeroed, Context, NoVersion
<1>2. m.fw_version \in Versions /\ m.image_size \in 0 .. MaxImage + 1
  BY DEF Manifest
<1>3. Accepted(m, state) \in Context
  BY <1>1, <1>2 DEF Accepted, Context
<1> QED
  BY <1>1, <1>3

(* A field of one context changes, the others stay. *)
LEMMA StateChange ==
  ASSUME ctx \in [Sessions -> Context], NEW s \in Sessions, NEW state \in States
  PROVE  [ctx EXCEPT ![s].state = state] \in [Sessions -> Context]
BY DEF Context

LEMMA NextType == TypeOK /\ [Next]_vars => TypeOK'
<1> SUFFICES ASSUME TypeOK, [Next]_vars PROVE TypeOK'
  OBVIOUS
<1> USE FlashAssumption, IdentityAssumption, OtaAssumption
<1>a. ASSUME UNCHANGED flashVars PROVE FlashTypeOK'
  BY <1>a, FlashStepType DEF TypeOK, flashVars, FlashTypeOK
<1>b. ASSUME UNCHANGED identityVars PROVE IdentityTypeOK'
  BY <1>b DEF TypeOK, identityVars, IdentityTypeOK
<1>c. {"ERROR", "TRANSFER", "IDLE", "VERIFY", "COMPLETE"} \subseteq States
  BY DEF States
<1>1. ASSUME NEW id \in Identity, Provision(id) PROVE TypeOK'
  <2>1. IdentityTypeOK'
    BY <1>1, IdentityStepType, Zenon DEF Provision, TypeOK
  <2> QED
    BY <1>1, <1>a, <2>1 DEF Provision, TypeOK
<1>2. ASSUME NEW s \in Sessions, NEW m \in Manifest,
             \/ BeginIncompatible(s, m)
             \/ BeginBadSize(s, m)
             \/ BeginRefused(s, m)
      PROVE TypeOK'
  <2>1. UNCHANGED << flashVars, identityVars, pc, flashed >>
    BY <1>2 DEF BeginIncompatible, BeginBadSize, BeginRefused, OtaBeginRefused
  <2>2. ctx' \in [Sessions -> Context]
    BY <1>2, <1>c, FreshContext DEF BeginIncompatible, BeginBadSize, BeginRefused, TypeOK
  <2> QED
    BY <1>a, <1>b, <2>1, <2>2 DEF TypeOK
<1>3. ASSUME NEW s \in Sessions, NEW m \in Manifest, NEW ok \in BackendResults,
             Begin(s, m, ok)
      PROVE TypeOK'
  <2>1. ok \in BOOLEAN /\ m.image_size \in Nat
    BY DEF Manifest
  <2>2. FlashTypeOK'
    BY <1>3, <2>1, FlashStepType, Zenon DEF Begin, TypeOK
  <2>3. ctx' \in [Sessions -> Context]
    BY <1>3, <1>c, FreshContext DEF Begin, TypeOK
  <2>4. flashed' \in [Slots -> [version : Versions, size : 0 .. SlotSize]]
    <3>1. m.image_size \in 0 .. SlotSize /\ m.fw_version \in Versions
      BY <1>3 DEF Begin, SizeOk, Manifest
    <3>2. otaTarget' \in Slots
      BY <2>2 DEF FlashTypeOK
    <3> QED
      BY <1>3, <3>1, <3>2 DEF Begin, TypeOK
  <2> QED
    BY <1>3, <1>b, <2>2, <2>3, <2>4 DEF Begin, TypeOK
<1>4. ASSUME NEW s \in Sessions, NEW c \in Chunk, RejectChunk(s, c) PROVE TypeOK'
  <2>1. ctx' \in [Sessions -> Context]
    BY <1>4 DEF RejectChunk, TypeOK, Context
  <2> QED
    BY <1>4, <1>a, <1>b, <2>1 DEF RejectChunk, TypeOK
<1>5. ASSUME NEW s \in Sessions, NEW c \in Chunk, WriteFails(s, c) PROVE TypeOK'
  <2>1. ctx' \in [Sessions -> Context]
    BY <1>5 DEF WriteFails, TypeOK, Context, States
  <2> QED
    BY <1>5, <1>a, <1>b, <2>1 DEF WriteFails, TypeOK
<1>6. ASSUME NEW s \in Sessions, NEW c \in Chunk, AcceptChunk(s, c) PROVE TypeOK'
  <2>0. c.version \in Versions
    BY DEF Chunk
  <2>1. c.offset \in Nat /\ c.len \in Nat /\ c.version \in Nat
    <3>1. c.offset \in Nat /\ c.len \in Nat
      BY DEF Chunk
    <3> QED
      BY <2>0, <3>1
  <2>2. FlashTypeOK'
    BY <1>6, <2>1, FlashStepType, Zenon DEF AcceptChunk, TypeOK
  <2>3. ctx[s].bytes_received + c.len \in 0 .. MaxImage
    BY <1>6, <2>1 DEF AcceptChunk, ChunkOk, OffsetOk, FitsImage, TypeOK, Context
  <2>4. ctx' \in [Sessions -> Context]
    BY <1>6, <2>1, <2>3 DEF AcceptChunk, TypeOK, Context, States
  <2>5. pc' \in [Sessions -> {"idle", "end", "set_pending", "set_boot"}]
    BY <1>6 DEF AcceptChunk, TypeOK
  <2> QED
    BY <1>6, <1>b, <2>2, <2>4, <2>5 DEF AcceptChunk, TypeOK
<1>7. ASSUME NEW s \in Sessions, Abort(s) PROVE TypeOK'
  <2>1. ctx' \in [Sessions -> Context]
    BY <1>7, <1>c, StateChange DEF Abort, TypeOK
  <2> QED
    BY <1>7, <1>a, <1>b, <2>1 DEF Abort, TypeOK
<1>8. ASSUME NEW s \in Sessions, NEW ok \in BackendResults, EndFlash(s, ok)
      PROVE TypeOK'
  <2>1. FlashTypeOK'
    BY <1>8, FlashStepType DEF EndFlash, TypeOK
  <2>2. ctx' \in [Sessions -> Context]
    BY <1>8, <1>c, StateChange DEF EndFlash, TypeOK
  <2> QED
    BY <1>8, <1>b, <2>1, <2>2 DEF EndFlash, TypeOK
<1>9. ASSUME NEW s \in Sessions, SetPending(s) PROVE TypeOK'
  <2>1. ctx[s].version \in Versions \union {NoVersion}
    BY DEF TypeOK, Context
  <2>2. IdentityTypeOK'
    BY <1>9, <2>1 DEF SetPending, TypeOK, SetPendingVersion, Persist,
       identityVars, IdentityTypeOK
  <2> QED
    BY <1>9, <1>a, <2>2 DEF SetPending, TypeOK
<1>10. ASSUME NEW s \in Sessions, NEW ok \in BootResults, SwitchBoot(s, ok)
       PROVE TypeOK'
  <2>1. FlashTypeOK'
    BY <1>10, FlashStepType DEF SwitchBoot, TypeOK
  <2> QED
    BY <1>10, <1>b, <2>1 DEF SwitchBoot, TypeOK
<1>11. ASSUME SelfCheckPasses PROVE TypeOK'
  <2>1. identity \in Identity
    BY <1>11 DEF SelfCheckPasses, ConfirmBoot, HasPending, TypeOK, IdentityTypeOK
  <2>2. IdentityTypeOK'
    BY <1>11, <2>1, IdentityStepType DEF SelfCheckPasses, TypeOK
  <2> QED
    BY <1>11, <1>a, <2>2 DEF SelfCheckPasses, TypeOK
<1>12. ASSUME NEW ok \in BootResults, SelfCheckFails(ok) PROVE TypeOK'
  <2>1. FlashTypeOK'
    BY <1>12, FlashStepType DEF SelfCheckFails, TypeOK
  <2> QED
    BY <1>12, <1>b, <2>1 DEF SelfCheckFails, TypeOK
<1>13. ASSUME Restart PROVE TypeOK'
  <2>1. FlashTypeOK'
    BY <1>13 DEF Restart, TypeOK, FlashRestart, FlashTypeOK, Slots, SlotA, SlotB
  <2>2. IdentityTypeOK'
    <3>1. stored' \in [identity : Identity \union {Blank}, provisioned : BOOLEAN,
                        pending : Versions \union {NoVersion}]
      BY <1>13 DEF Restart, TypeOK, IdentityRestart, IdentityTypeOK
    <3>2. stored'.identity = stored.identity /\ stored'.provisioned = stored.provisioned
      BY <1>13 DEF Restart, TypeOK, IdentityRestart, IdentityTypeOK
    <3> QED
      BY <1>13, <3>1, <3>2 DEF Restart, TypeOK, IdentityRestart, IdentityTypeOK
  <2>3. Zeroed("IDLE") \in Context
    BY DEF Zeroed, Context, States, NoVersion
  <2> QED
    BY <1>13, <2>1, <2>2, <2>3 DEF Restart, TypeOK
<1>14. CASE UNCHANGED vars
  BY <1>14, <1>a, <1>b DEF vars, TypeOK
<1> QED
  BY <1>1, <1>2, <1>3, <1>4, <1>5, <1>6, <1>7, <1>8, <1>9, <1>10, <1>11, <1>12,
     <1>13, <1>14 DEF Next, Tail, SelfCheck

(* Every reachable state is well typed: byte counts stay within the image  *)
(* bound that ota_session_process_chunk() enforces.                        *)
THEOREM TypeCorrect == Spec => []TypeOK
BY InitType, NextType, PTL DEF Spec

-----------------------------------------------------------------------------
(***************************************************************************)
(* The inductive strengthening of TransferOwnsSlot.  A context is engaged  *)
(* from its begin to the end of its tail; the slot stays its own through   *)
(* the tail, when the in-progress flag is already down.                    *)
(***************************************************************************)
Engaged(s) == Busy(s) \/ pc[s] # "idle"

OwnInv ==
  /\ \A s, t \in Sessions : Engaged(s) /\ Engaged(t) => s = t
  /\ \A s \in Sessions : pc[s] = "end" <=> ctx[s].state = "VERIFY"
  /\ \A s \in Sessions : Busy(s) => otaInProgress
  /\ \A s \in Sessions : pc[s] \in {"set_pending", "set_boot"} => ~otaInProgress
  /\ \A s \in Sessions : Engaged(s) =>
       flashed[otaTarget] = [version |-> ctx[s].version, size |-> ctx[s].image_size]

LEMMA OwnImplies == OwnInv => TransferOwnsSlot
BY DEF OwnInv, TransferOwnsSlot, Engaged

LEMMA InitOwn == Init => OwnInv
<1> SUFFICES ASSUME Init PROVE OwnInv
  OBVIOUS
<1>1. \A s \in Sessions : pc[s] = "idle" /\ ctx[s].state = "IDLE"
  BY DEF Init, Zeroed
<1> QED
  BY <1>1 DEF OwnInv, Engaged, Busy

LEMMA NextOwn == TypeOK /\ OwnInv /\ [Next]_vars => OwnInv'
<1> SUFFICES ASSUME TypeOK, OwnInv, [Next]_vars PROVE OwnInv'
  OBVIOUS
<1> USE DEF Engaged, Busy
<1>t. ctx \in [Sessions -> Context] /\ pc \in [Sessions -> {"idle", "end", "set_pending", "set_boot"}]
  BY DEF TypeOK
<1>1. ASSUME UNCHANGED << ctx, pc, flashed, otaTarget, otaInProgress >> PROVE OwnInv'
  BY <1>1 DEF OwnInv
<1>2. ASSUME NEW s \in Sessions, Quiet,
             ctx' \in [Sessions -> Context], ctx'[s].state = "ERROR",
             \A t \in Sessions \ {s} : ctx'[t] = ctx[t],
             UNCHANGED << pc, flashed, otaTarget, otaInProgress >>
      PROVE OwnInv'
  BY <1>2 DEF OwnInv, Quiet
<1>3. ASSUME NEW s \in Sessions, NEW m \in Manifest,
             \/ BeginIncompatible(s, m)
             \/ BeginBadSize(s, m)
             \/ BeginRefused(s, m)
      PROVE OwnInv'
  <2>1. Zeroed("ERROR").state = "ERROR" /\ Accepted(m, "ERROR").state = "ERROR"
    BY DEF Zeroed, Accepted
  <2>2. ctx'[s].state = "ERROR" /\ \A t \in Sessions \ {s} : ctx'[t] = ctx[t]
    BY <1>3, <1>t, <2>1 DEF BeginIncompatible, BeginBadSize, BeginRefused
  <2>3. ctx' \in [Sessions -> Context]
    BY NextType DEF TypeOK
  <2>4. Quiet /\ UNCHANGED << pc, flashed, otaTarget, otaInProgress >>
    BY <1>3 DEF BeginIncompatible, BeginBadSize, BeginRefused, OtaBeginRefused, flashVars
  <2> QED
    BY <1>2, <2>2, <2>3, <2>4
<1>4. ASSUME NEW s \in Sessions, NEW m \in Manifest, NEW ok \in BackendResults,
             Begin(s, m, ok)
      PROVE OwnInv'
  <2>1. \A t \in Sessions : ~Engaged(t)
    BY <1>4 DEF Begin, OtaBegin, Quiet, OwnInv
  <2>2. CASE ~ok
    <3>1. ctx'[s].state = "ERROR" /\ \A t \in Sessions \ {s} : ctx'[t] = ctx[t]
      BY <1>4, <1>t, <2>2 DEF Begin, Accepted, Zeroed
    <3> QED
      BY <1>4, <1>t, <2>1, <2>2, <3>1 DEF Begin, OwnInv
  <2>3. CASE ok
    <3>1. /\ ctx'[s].state = "TRANSFER" /\ ctx'[s].version = m.fw_version
          /\ ctx'[s].image_size = m.image_size
          /\ \A t \in Sessions \ {s} : ctx'[t] = ctx[t]
      BY <1>4, <1>t, <2>3 DEF Begin, Accepted, Zeroed
    <3>2. otaInProgress' /\ pc' = pc /\ Quiet
      BY <1>4, <2>3 DEF Begin, OtaBegin
    <3>3. flashed'[otaTarget'] = [version |-> m.fw_version, size |-> m.image_size]
      <4>1. otaTarget' \in Slots
        BY NextType DEF TypeOK, FlashTypeOK
      <4> QED
        BY <1>4, <2>3, <4>1 DEF Begin, TypeOK
    <3> QED
      BY <2>1, <3>1, <3>2, <3>3 DEF OwnInv, Quiet
  <2> QED
    BY <2>2, <2>3, OtaAssumption
<1>5. ASSUME NEW s \in Sessions, NEW c \in Chunk, RejectChunk(s, c) PROVE OwnInv'
  <2>1. \A t \in Sessions : /\ ctx'[t].state = ctx[t].state
                            /\ ctx'[t].version = ctx[t].version
                            /\ ctx'[t].image_size = ctx[t].image_size
    BY <1>5, <1>t DEF RejectChunk, Context
  <2>2. UNCHANGED << pc, flashed, otaTarget, otaInProgress >>
    BY <1>5 DEF RejectChunk, flashVars
  <2> QED
    BY <2>1, <2>2 DEF OwnInv
<1>6. ASSUME NEW s \in Sessions, NEW c \in Chunk, WriteFails(s, c) PROVE OwnInv'
  <2>1. ctx'[s].state = "ERROR" /\ \A t \in Sessions \ {s} : ctx'[t] = ctx[t]
    BY <1>6, <1>t DEF WriteFails, Context
  <2>2. ctx' \in [Sessions -> Context]
    BY NextType DEF TypeOK
  <2> QED
    BY <1>2, <1>6, <2>1, <2>2 DEF WriteFails, flashVars
<1>7. ASSUME NEW s \in Sessions, NEW c \in Chunk, AcceptChunk(s, c) PROVE OwnInv'
  <2>1. \A t \in Sessions : /\ t # s => ctx'[t] = ctx[t] /\ pc'[t] = pc[t]
                            /\ ctx'[t].version = ctx[t].version
                            /\ ctx'[t].image_size = ctx[t].image_size
    BY <1>7, <1>t DEF AcceptChunk, Context
  <2>2. \/ ctx'[s].state = "VERIFY" /\ pc'[s] = "end"
        \/ ctx'[s].state = "TRANSFER" /\ pc'[s] = "idle"
    <3>1. pc[s] = "idle" /\ ctx[s].state = "TRANSFER" /\ DOMAIN ctx = Sessions
      BY <1>7, <1>t DEF AcceptChunk, Quiet
    <3>2. ctx'[s].state = IF ctx[s].bytes_received + c.len >= ctx[s].image_size
                            THEN "VERIFY" ELSE "TRANSFER"
      BY <1>7, <1>t, <3>1 DEF AcceptChunk, Context
    <3>3. pc'[s] = IF ctx[s].bytes_received + c.len >= ctx[s].image_size
                     THEN "end" ELSE "idle"
      BY <1>7, <1>t, <3>1 DEF AcceptChunk
    <3> QED
      BY <3>2, <3>3
  <2>3. ctx[s].state = "TRANSFER" /\ UNCHANGED << flashed, otaTarget, otaInProgress >>
    BY <1>7 DEF AcceptChunk, OtaWrite
  <2> QED
    BY <2>1, <2>2, <2>3 DEF OwnInv
<1>8. ASSUME NEW s \in Sessions, Abort(s) PROVE OwnInv'
  <2>1. ctx'[s].state = "ERROR" /\ \A t \in Sessions \ {s} : ctx'[t] = ctx[t]
    BY <1>8, <1>t DEF Abort, Context
  <2>2. ctx' \in [Sessions -> Context]
    BY NextType DEF TypeOK
  <2> QED
    BY <1>2, <1>8, <2>1, <2>2 DEF Abort, flashVars
<1>9. ASSUME NEW s \in Sessions, NEW ok \in BackendResults, EndFlash(s, ok)
      PROVE OwnInv'
  <2>1. \A t \in Sessions : /\ t # s => ctx'[t] = ctx[t] /\ pc'[t] = pc[t]
                            /\ ctx'[t].version = ctx[t].version
                            /\ ctx'[t].image_size = ctx[t].image_size
    BY <1>9, <1>t DEF EndFlash, Context
  <2>2. \/ ctx'[s].state = "COMPLETE" /\ pc'[s] = "set_pending"
        \/ ctx'[s].state = "ERROR" /\ pc'[s] = "idle"
    BY <1>9, <1>t DEF EndFlash, Context
  <2>3. pc[s] = "end" /\ UNCHANGED << flashed, otaTarget >> /\ ~otaInProgress'
    BY <1>9 DEF EndFlash, OtaEnd
  <2> QED
    BY <2>1, <2>2, <2>3 DEF OwnInv
<1>10. ASSUME NEW s \in Sessions,
              \/ SetPending(s)
              \/ \E ok \in BootResults : SwitchBoot(s, ok)
       PROVE OwnInv'
  <2>1. UNCHANGED << ctx, flashed, otaTarget, otaInProgress >>
    BY <1>10 DEF SetPending, SwitchBoot, SetBoot, MoveBoot, flashVars
  <2>2. /\ pc[s] \in {"set_pending", "set_boot"} /\ pc'[s] \in {"set_boot", "idle"}
        /\ \A t \in Sessions \ {s} : pc'[t] = pc[t]
    BY <1>10, <1>t DEF SetPending, SwitchBoot
  <2> QED
    BY <2>1, <2>2 DEF OwnInv
<1>11. ASSUME Restart PROVE OwnInv'
  BY <1>11 DEF Restart, OwnInv, Zeroed
<1>12. ASSUME \/ \E id \in Identity : Provision(id)
              \/ SelfCheckPasses
              \/ \E ok \in BootResults : SelfCheckFails(ok)
              \/ UNCHANGED vars
       PROVE OwnInv'
  BY <1>1, <1>12 DEF Provision, SelfCheckPasses, SelfCheckFails, Rollback, MoveBoot,
     vars, flashVars
<1> QED
  BY <1>3, <1>4, <1>5, <1>6, <1>7, <1>8, <1>9, <1>10, <1>11, <1>12
     DEF Next, Tail, SelfCheck

LEMMA OwnInvariant == Spec => []OwnInv
BY InitOwn, NextOwn, TypeCorrect, PTL DEF Spec

(* At most one context transfers, and it owns the slot being written: the  *)
(* in-progress flag of flash_partition.c excludes every other begin.       *)
THEOREM TransferOwnership == Spec => []TransferOwnsSlot
BY OwnInvariant, OwnImplies, PTL

-----------------------------------------------------------------------------
(***************************************************************************)
(* The inductive strengthening of BootImageComplete, until a restart from  *)
(* slot B.  The flash layer knows which slot boots; the slot being written *)
(* is never that one nor the one a rollback returns to; the bytes received *)
(* so far are written; and a slot whose tail runs is complete already.  A  *)
(* restart from slot A keeps all of it, since it resets the variables to   *)
(* what is then true.                                                      *)
(***************************************************************************)
Written(slot, n) == \A i \in 0 .. n - 1 : slotData[slot][i] # Erased

BootInv ==
  /\ bootFlag = bootPartition
  /\ Complete(bootPartition)
  /\ Complete(originalBoot)
  /\ otaInProgress => otaTarget = Other(bootPartition) /\ originalBoot = bootPartition
  /\ \A s \in Sessions : Busy(s) => Written(otaTarget, ctx[s].bytes_received)
  /\ \A s \in Sessions : pc[s] # "idle" => Complete(otaTarget)

LEMMA InitBoot == Init => BootInv
<1> SUFFICES ASSUME Init PROVE BootInv
  OBVIOUS
<1> USE FlashAssumption, IdentityAssumption
<1> PICK factory \in Versions :
      /\ FlashInit(factory)
      /\ ctx = [s \in Sessions |-> Zeroed("IDLE")]
      /\ pc = [s \in Sessions |-> "idle"]
      /\ flashed = [slot \in Slots |->
           [version |-> factory, size |-> IF slot = SlotA THEN SlotSize ELSE 0]]
  BY DEF Init
<1>1. Complete(SlotA)
  BY DEF Complete, FlashInit, Slots, SlotA, Offsets, Erased
<1>2. \A s \in Sessions : ~Busy(s) /\ pc[s] = "idle"
  BY DEF Busy, Zeroed
<1> QED
  BY <1>1, <1>2 DEF BootInv, FlashInit

LEMMA MisreadStays == misread /\ [Next]_vars => misread'
<1> SUFFICES ASSUME misread, [Next]_vars PROVE misread'
  OBVIOUS
<1>1. ASSUME NEW s \in Sessions, NEW m \in Manifest, NEW ok \in BackendResults,
             Begin(s, m, ok)
      PROVE  misread'
  BY <1>1 DEF Begin, OtaBegin
<1>2. ASSUME NEW s \in Sessions, NEW c \in Chunk, AcceptChunk(s, c) PROVE misread'
  BY <1>2 DEF AcceptChunk, OtaWrite
<1>3. ASSUME NEW s \in Sessions, NEW ok \in BackendResults, EndFlash(s, ok)
      PROVE  misread'
  BY <1>3 DEF EndFlash, OtaEnd
<1>4. ASSUME NEW s \in Sessions, NEW ok \in BootResults,
             SwitchBoot(s, ok)
      PROVE  misread'
  BY <1>4 DEF SwitchBoot, SetBoot, MoveBoot
<1>5. CASE Restart
  BY <1>5 DEF Restart, FlashRestart
<1>6. ASSUME UNCHANGED flashVars PROVE misread'
  BY <1>6 DEF flashVars
<1>7. ASSUME NEW ok \in BootResults, SelfCheckFails(ok) PROVE misread'
  BY <1>7 DEF SelfCheckFails, Rollback, MoveBoot
<1> QED
  BY <1>1, <1>2, <1>3, <1>4, <1>5, <1>6, <1>7
     DEF Next, Tail, SelfCheck, Provision, BeginIncompatible, BeginBadSize, BeginRefused,
         OtaBeginRefused, RejectChunk, WriteFails, SetPending, Abort, SelfCheckPasses, vars

LEMMA NextBoot ==
  TypeOK /\ OwnInv /\ BootInv /\ [Next]_vars => misread' \/ BootInv'
<1> SUFFICES ASSUME TypeOK, OwnInv, BootInv, [Next]_vars, ~misread' PROVE BootInv'
  OBVIOUS
<1> USE FlashAssumption, IdentityAssumption, OtaAssumption
<1>t. /\ ctx \in [Sessions -> Context]
      /\ pc \in [Sessions -> {"idle", "end", "set_pending", "set_boot"}]
      /\ flashed \in [Slots -> [version : Versions, size : 0 .. SlotSize]]
      /\ slotData \in [Slots -> [Offsets -> Nat]]
      /\ {bootFlag, bootPartition, originalBoot, otaTarget} \subseteq Slots
  BY DEF TypeOK, FlashTypeOK
(* Steps that leave flash alone and do not engage a context further. *)
<1>1. ASSUME UNCHANGED << slotData, bootFlag, bootPartition, originalBoot, otaTarget,
                          otaInProgress, flashed >>,
             \A s \in Sessions : pc'[s] # "idle" => pc[s] # "idle",
             \A s \in Sessions : Busy(s)' =>
               Busy(s) /\ ctx'[s].bytes_received = ctx[s].bytes_received
      PROVE BootInv'
  BY <1>1 DEF BootInv, Complete, Written
<1>2. ASSUME NEW s \in Sessions, NEW m \in Manifest,
             \/ BeginIncompatible(s, m)
             \/ BeginBadSize(s, m)
             \/ BeginRefused(s, m)
      PROVE BootInv'
  <2>1. Zeroed("ERROR").state = "ERROR" /\ Accepted(m, "ERROR").state = "ERROR"
    BY DEF Zeroed, Accepted
  <2>2. ctx'[s].state = "ERROR" /\ \A t \in Sessions \ {s} : ctx'[t] = ctx[t]
    BY <1>2, <1>t, <2>1 DEF BeginIncompatible, BeginBadSize, BeginRefused
  <2>3. UNCHANGED << flashVars, pc, flashed >>
    BY <1>2 DEF BeginIncompatible, BeginBadSize, BeginRefused, OtaBeginRefused
  <2> QED
    BY <1>1, <2>2, <2>3 DEF flashVars, Busy
<1>3. ASSUME NEW s \in Sessions, NEW m \in Manifest, NEW ok \in BackendResults,
             Begin(s, m, ok)
      PROVE BootInv'
  <2> DEFINE target == Other(bootPartition)
  <2>1. target \in Slots /\ target # bootPartition
    BY <1>t DEF Other, Slots, SlotA, SlotB
  <2>2. /\ UNCHANGED << bootFlag, bootPartition, pc >>
        /\ originalBoot' = bootPartition /\ otaTarget' = target
        /\ slotData'[bootPartition] = slotData[bootPartition]
        /\ flashed'[bootPartition] = flashed[bootPartition]
    BY <1>3, <1>t, <2>1 DEF Begin, OtaBegin
  <2>3. Complete(bootPartition)'
    BY <2>2 DEF BootInv, Complete
  <2>4. \A t \in Sessions : ~Engaged(t)
    BY <1>3 DEF Begin, OtaBegin, Quiet, OwnInv, Engaged
  <2>5. \A t \in Sessions : Busy(t)' => ctx'[t].bytes_received = 0
    BY <1>3, <1>t, <2>4 DEF Begin, Accepted, Zeroed, Busy, Engaged
  <2>6. \A t \in Sessions : Busy(t)' => Written(otaTarget, ctx[t].bytes_received)'
    BY <2>5 DEF Written
  <2> QED
    BY <2>2, <2>3, <2>4, <2>6 DEF BootInv, Engaged
<1>4. ASSUME NEW s \in Sessions, NEW c \in Chunk, RejectChunk(s, c) PROVE BootInv'
  <2>1. \A t \in Sessions : /\ ctx'[t].state = ctx[t].state
                            /\ ctx'[t].bytes_received = ctx[t].bytes_received
    BY <1>4, <1>t DEF RejectChunk, Context
  <2> QED
    BY <1>1, <1>4, <2>1 DEF RejectChunk, flashVars, Busy
<1>5. ASSUME NEW s \in Sessions, NEW c \in Chunk, WriteFails(s, c) PROVE BootInv'
  <2>1. ctx'[s].state = "ERROR" /\ \A t \in Sessions \ {s} : ctx'[t] = ctx[t]
    BY <1>5, <1>t DEF WriteFails, Context
  <2> QED
    BY <1>1, <1>5, <2>1 DEF WriteFails, flashVars, Busy
<1>6. ASSUME NEW s \in Sessions, NEW c \in Chunk, AcceptChunk(s, c) PROVE BootInv'
  <2>0. c.version \in Versions
    BY DEF Chunk
  <2>1. c.len \in Nat /\ c.version \in Nat /\ c.version # Erased
    <3>1. c.len \in Nat
      BY DEF Chunk
    <3> QED
      BY <2>0, <3>1 DEF Erased
  <2>2. Busy(s) /\ otaInProgress /\ otaTarget # bootPartition /\ originalBoot = bootPartition
    BY <1>6, <1>t DEF AcceptChunk, Busy, OwnInv, BootInv, Other, Slots, SlotA, SlotB
  <2>3. /\ UNCHANGED << bootFlag, bootPartition, originalBoot, otaTarget, otaInProgress, flashed >>
        /\ slotData'[bootPartition] = slotData[bootPartition]
    BY <1>6, <1>t, <2>2 DEF AcceptChunk, OtaWrite
  <2>4. Complete(bootPartition)'
    BY <2>3 DEF BootInv, Complete
  <2> DEFINE n == ctx[s].bytes_received
  <2>5. n \in Nat /\ c.offset = n /\ n + c.len <= SlotSize
    BY <1>6, <1>t DEF AcceptChunk, ChunkOk, OffsetOk, OtaWrite, Writable, Context
  <2>6. \A i \in 0 .. n + c.len - 1 : slotData'[otaTarget][i] # Erased
    <3> SUFFICES ASSUME NEW i \in 0 .. n + c.len - 1
                 PROVE slotData'[otaTarget][i] # Erased
      OBVIOUS
    <3>1. i \in Offsets
      BY <2>1, <2>5 DEF Offsets
    <3>2. slotData'[otaTarget][i] = IF i >= n /\ i < n + c.len
                                      THEN c.version ELSE slotData[otaTarget][i]
      BY <1>6, <1>t, <2>5, <3>1 DEF AcceptChunk, OtaWrite
    <3>3. i < n => slotData[otaTarget][i] # Erased
      BY <2>2, <2>5 DEF BootInv, Written
    <3> QED
      BY <2>1, <2>5, <3>2, <3>3
  <2>7. ctx'[s].bytes_received = n + c.len /\ \A t \in Sessions \ {s} : ctx'[t] = ctx[t]
    BY <1>6, <1>t DEF AcceptChunk, Context
  <2>8. \A t \in Sessions \ {s} : ~Engaged(t) /\ pc'[t] = pc[t]
    BY <1>6, <1>t, <2>2 DEF AcceptChunk, OwnInv, Engaged
  <2>9. pc'[s] # "idle" => Complete(otaTarget)'
    <3>1. pc'[s] # "idle" => n + c.len >= ctx[s].image_size
      BY <1>6, <1>t DEF AcceptChunk, Quiet
    <3>2. flashed[otaTarget].size = ctx[s].image_size
      <4>1. flashed[otaTarget] = [version |-> ctx[s].version, size |-> ctx[s].image_size]
        BY <2>2 DEF OwnInv, Engaged
      <4> QED
        BY <4>1
    <3>3. ctx[s].image_size \in Nat
      BY <1>t DEF Context
    <3> QED
      BY <2>1, <2>3, <2>5, <2>6, <3>1, <3>2, <3>3 DEF Complete
  <2>10. Written(otaTarget, ctx[s].bytes_received)'
    <3>1. otaTarget' = otaTarget /\ ctx'[s].bytes_received = n + c.len
      BY <2>3, <2>7
    <3>2. SUFFICES ASSUME NEW i \in 0 .. ctx'[s].bytes_received - 1
                   PROVE  slotData'[otaTarget'][i] # Erased
      BY <3>1 DEF Written, Erased
    <3>3. i \in 0 .. n + c.len - 1
      BY <2>1, <2>5, <3>1
    <3>4. slotData'[otaTarget][i] # Erased
      BY <2>6, <3>3, Zenon
    <3> QED
      BY <3>1, <3>4
  <2>11. \A t \in Sessions : Busy(t)' => Written(otaTarget, ctx[t].bytes_received)'
    BY <2>7, <2>8, <2>10 DEF Engaged, Busy
  <2>12. \A t \in Sessions : pc'[t] # "idle" => Complete(otaTarget)'
    BY <2>8, <2>9 DEF Engaged
  <2> QED
    BY <2>2, <2>3, <2>4, <2>11, <2>12 DEF BootInv
<1>7. ASSUME NEW s \in Sessions, Abort(s) PROVE BootInv'
  <2>1. ctx'[s].state = "ERROR" /\ \A t \in Sessions \ {s} : ctx'[t] = ctx[t]
    BY <1>7, <1>t DEF Abort, Context
  <2> QED
    BY <1>1, <1>7, <2>1 DEF Abort, flashVars, Busy
<1>8. ASSUME NEW s \in Sessions, NEW ok \in BackendResults, EndFlash(s, ok)
      PROVE BootInv'
  <2>1. \A t \in Sessions : Busy(t) => t = s
    BY <1>8 DEF EndFlash, OwnInv, Engaged
  <2>2. ctx'[s].state \in {"COMPLETE", "ERROR"} /\ \A t \in Sessions \ {s} : ctx'[t] = ctx[t]
    BY <1>8, <1>t DEF EndFlash, Context
  <2>3. \A t \in Sessions : ~Busy(t)'
    BY <2>1, <2>2 DEF Busy
  <2>4. \A t \in Sessions : pc'[t] # "idle" => pc[t] # "idle"
    BY <1>8, <1>t DEF EndFlash
  <2>5. /\ UNCHANGED << slotData, bootFlag, bootPartition, originalBoot, otaTarget, flashed >>
        /\ otaInProgress' = FALSE
    BY <1>8 DEF EndFlash, OtaEnd
  <2> QED
    BY <2>3, <2>4, <2>5 DEF BootInv, Complete
<1>9. ASSUME NEW s \in Sessions, SetPending(s) PROVE BootInv'
  BY <1>1, <1>9, <1>t DEF SetPending, flashVars, Busy
<1>10. ASSUME NEW s \in Sessions, NEW ok \in BootResults, SwitchBoot(s, ok)
       PROVE BootInv'
  <2>1. ~otaInProgress /\ Complete(otaTarget) /\ \A t \in Sessions : ~Busy(t)
    BY <1>10 DEF SwitchBoot, OwnInv, BootInv
  <2>2. /\ UNCHANGED << slotData, originalBoot, otaTarget, otaInProgress, flashed, ctx >>
        /\ \/ UNCHANGED << bootFlag, bootPartition >>
           \/ bootFlag' = otaTarget /\ bootPartition' = otaTarget
    BY <1>10 DEF SwitchBoot, SetBoot, MoveBoot
  <2>3. \A t \in Sessions : pc'[t] # "idle" => pc[t] # "idle"
    BY <1>10, <1>t DEF SwitchBoot
  <2> QED
    BY <2>1, <2>2, <2>3 DEF BootInv, Complete, Busy
<1>11. ASSUME NEW ok \in BootResults, SelfCheckFails(ok) PROVE BootInv'
  <2>1. /\ UNCHANGED << slotData, originalBoot, otaTarget, otaInProgress, flashed, ctx, pc >>
        /\ \/ UNCHANGED << bootFlag, bootPartition >>
           \/ bootFlag' = originalBoot /\ bootPartition' = originalBoot
    BY <1>11 DEF SelfCheckFails, Rollback, MoveBoot
  <2> QED
    BY <2>1 DEF BootInv, Complete, Written, Busy
<1>12. ASSUME Restart PROVE BootInv'
  <2>1. \A s \in Sessions : ctx'[s].state = "IDLE" /\ pc'[s] = "idle"
    BY <1>12 DEF Restart, Zeroed
  <2>2. /\ UNCHANGED << slotData, bootFlag, flashed >>
        /\ bootPartition' = SlotA /\ originalBoot' = SlotA /\ otaInProgress' = FALSE
        /\ bootFlag = SlotA
    BY <1>12 DEF Restart, FlashRestart
  <2> QED
    BY <2>1, <2>2 DEF BootInv, Complete, Busy
<1>13. ASSUME \/ \E id \in Identity : Provision(id)
              \/ SelfCheckPasses
              \/ UNCHANGED vars
       PROVE BootInv'
  BY <1>1, <1>13 DEF Provision, SelfCheckPasses, vars, flashVars, Busy
<1> QED
  BY <1>2, <1>3, <1>4, <1>5, <1>6, <1>7, <1>8, <1>9, <1>10, <1>11, <1>12, <1>13
     DEF Next, Tail, SelfCheck

(* Whatever flash failures, aborts, rollbacks and power losses happen, the *)
(* slot the boot loader starts holds a fully written image, until the      *)
(* device restarts from slot B: flash_partition_init() sets the variables  *)
(* of flash_partition.c at every restart, and they are then wrong.         *)
THEOREM BootImageAlwaysComplete == Spec => []BootImageComplete
<1> DEFINE Inv == misread \/ BootInv
<1>1. Inv => BootImageComplete
  BY DEF BootInv, BootImageComplete
<1>2. Init => Inv
  BY InitBoot
<1>3. TypeOK /\ OwnInv /\ Inv /\ [Next]_vars => Inv'
  <2>1. misread /\ [Next]_vars => misread'
    BY MisreadStays
  <2> QED
    BY <2>1, NextBoot
<1> QED
  BY <1>1, <1>2, <1>3, TypeCorrect, OwnInvariant, PTL DEF Spec

-----------------------------------------------------------------------------
(***************************************************************************)
(* The strengthening behind ConfirmedImageBoots, for a boot switch and a   *)
(* self-check that do not fail.  Between set_pending_version() and         *)
(* set_boot() the pending version is the one in the slot being switched    *)
(* to; at any other time it is the one in the slot that boots.  A restart  *)
(* in between is harmless because it discards the pending version.         *)
(***************************************************************************)
ConfInv ==
  /\ stored.identity = identity /\ stored.provisioned = provisioned
  /\ ~provisioned => pending = NoVersion /\ bootFlag = SlotA
  /\ \A s \in Sessions : Engaged(s) => provisioned
  /\ HasPending /\ (\A s \in Sessions : pc[s] # "set_boot") =>
       bootFlag = bootPartition /\ flashed[bootFlag].version = pending
  /\ \A s \in Sessions : pc[s] = "set_boot" => flashed[otaTarget].version = pending

LEMMA InitConf == Init => ConfInv
<1> SUFFICES ASSUME Init PROVE ConfInv
  OBVIOUS
<1>1. \A s \in Sessions : pc[s] = "idle" /\ ctx[s].state = "IDLE"
  BY DEF Init, Zeroed
<1>2. IdentityInit /\ bootFlag = SlotA
  BY DEF Init, FlashInit
<1> QED
  BY <1>1, <1>2 DEF ConfInv, IdentityInit, HasPending, Engaged, Busy

LEMMA NextConf ==
  ASSUME BootResults = {TRUE}, SelfCheckResults = {TRUE}
  PROVE  TypeOK /\ OwnInv /\ ConfInv /\ [Next]_vars =>
           /\ ConfInv'
           /\ [identity'.fw_version # identity.fw_version =>
                flashed'[bootFlag'].version = identity'.fw_version]_vars
<1> DEFINE Step == identity'.fw_version # identity.fw_version =>
                     flashed'[bootFlag'].version = identity'.fw_version
<1> SUFFICES ASSUME TypeOK, OwnInv, ConfInv, [Next]_vars PROVE ConfInv' /\ Step
  OBVIOUS
<1>t. /\ ctx \in [Sessions -> Context]
      /\ pc \in [Sessions -> {"idle", "end", "set_pending", "set_boot"}]
      /\ flashed \in [Slots -> [version : Versions, size : 0 .. SlotSize]]
      /\ {bootFlag, bootPartition, originalBoot, otaTarget} \subseteq Slots
      /\ identity \in Identity \union {Blank}
      /\ provisioned => identity \in Identity
  BY DEF TypeOK, FlashTypeOK, IdentityTypeOK
(* Steps that neither touch the identity nor move the boot slot. *)
<1>1. ASSUME UNCHANGED << identityVars, bootFlag, bootPartition, otaTarget, flashed >>,
             \A s \in Sessions : Engaged(s)' => Engaged(s),
             \A s \in Sessions : pc'[s] = "set_boot" <=> pc[s] = "set_boot"
      PROVE ConfInv' /\ Step
  BY <1>1 DEF ConfInv, identityVars, HasPending
<1>2. ASSUME NEW s \in Sessions, NEW m \in Manifest,
             \/ BeginIncompatible(s, m)
             \/ BeginBadSize(s, m)
             \/ BeginRefused(s, m)
      PROVE ConfInv' /\ Step
  <2>1. Zeroed("ERROR").state = "ERROR" /\ Accepted(m, "ERROR").state = "ERROR"
    BY DEF Zeroed, Accepted
  <2>2. ctx'[s].state = "ERROR" /\ \A t \in Sessions \ {s} : ctx'[t] = ctx[t]
    BY <1>2, <1>t, <2>1 DEF BeginIncompatible, BeginBadSize, BeginRefused
  <2>3. UNCHANGED << flashVars, identityVars, pc, flashed >>
    BY <1>2 DEF BeginIncompatible, BeginBadSize, BeginRefused, OtaBeginRefused
  <2> QED
    BY <1>1, <2>2, <2>3 DEF flashVars, Busy, Engaged
<1>3. ASSUME NEW s \in Sessions, NEW m \in Manifest, NEW ok \in BackendResults,
             Begin(s, m, ok)
      PROVE ConfInv' /\ Step
  <2>1. Quiet /\ provisioned /\ UNCHANGED << identityVars, bootFlag, bootPartition, pc >>
    BY <1>3 DEF Begin, OtaBegin
  <2>2. Other(bootPartition) \in Slots /\ Other(bootPartition) # bootPartition
    BY <1>t DEF Other, Slots, SlotA, SlotB
  <2>3. flashed'[bootPartition] = flashed[bootPartition]
    BY <1>3, <1>t, <2>2 DEF Begin, OtaBegin
  <2>4. HasPending => bootFlag = bootPartition /\ flashed[bootFlag].version = pending
    BY <2>1 DEF ConfInv, Quiet
  <2> QED
    BY <2>1, <2>3, <2>4 DEF ConfInv, identityVars, HasPending, Quiet
<1>4. ASSUME NEW s \in Sessions, NEW c \in Chunk, RejectChunk(s, c)
      PROVE ConfInv' /\ Step
  <2>1. \A t \in Sessions : ctx'[t].state = ctx[t].state
    BY <1>4, <1>t DEF RejectChunk, Context
  <2>2. UNCHANGED << flashVars, identityVars, pc, flashed >>
    BY <1>4 DEF RejectChunk
  <2> QED
    BY <1>1, <2>1, <2>2 DEF flashVars, Busy, Engaged
<1>5. ASSUME NEW s \in Sessions,
             (\E c \in Chunk : WriteFails(s, c)) \/ Abort(s)
      PROVE ConfInv' /\ Step
  <2>1. ctx'[s].state = "ERROR" /\ \A t \in Sessions \ {s} : ctx'[t] = ctx[t]
    BY <1>5, <1>t DEF WriteFails, Abort, Context
  <2>2. UNCHANGED << flashVars, identityVars, pc, flashed >>
    BY <1>5 DEF WriteFails, Abort
  <2> QED
    BY <1>1, <2>1, <2>2 DEF flashVars, Busy, Engaged
<1>6. ASSUME NEW s \in Sessions, NEW c \in Chunk, AcceptChunk(s, c)
      PROVE ConfInv' /\ Step
  <2>1. Engaged(s) /\ pc[s] = "idle"
    BY <1>6 DEF AcceptChunk, Engaged, Busy, Quiet
  <2>2. \A t \in Sessions \ {s} : ctx'[t] = ctx[t] /\ pc'[t] = pc[t]
    BY <1>6, <1>t DEF AcceptChunk, Context
  <2>3. pc'[s] \in {"idle", "end"}
    BY <1>6, <1>t, <2>1 DEF AcceptChunk
  <2>4. UNCHANGED << identityVars, bootFlag, bootPartition, otaTarget, flashed >>
    BY <1>6 DEF AcceptChunk, OtaWrite
  <2> QED
    BY <1>1, <2>1, <2>2, <2>3, <2>4 DEF Engaged, Busy
<1>7. ASSUME NEW s \in Sessions, NEW ok \in BackendResults, EndFlash(s, ok)
      PROVE ConfInv' /\ Step
  <2>1. Engaged(s) /\ pc[s] = "end"
    BY <1>7 DEF EndFlash, Engaged
  <2>2. \A t \in Sessions \ {s} : ctx'[t] = ctx[t] /\ pc'[t] = pc[t]
    BY <1>7, <1>t DEF EndFlash, Context
  <2>3. pc'[s] \in {"idle", "set_pending"}
    BY <1>7, <1>t DEF EndFlash
  <2>4. UNCHANGED << identityVars, bootFlag, bootPartition, otaTarget, flashed >>
    BY <1>7 DEF EndFlash, OtaEnd
  <2> QED
    BY <1>1, <2>1, <2>2, <2>3, <2>4 DEF Engaged, Busy
<1>8. ASSUME NEW s \in Sessions, SetPending(s) PROVE ConfInv' /\ Step
  <2>1. pc[s] = "set_pending" /\ Engaged(s) /\ provisioned
    BY <1>8 DEF SetPending, Engaged, ConfInv
  <2>2. flashed[otaTarget].version = ctx[s].version
    <3>1. flashed[otaTarget] = [version |-> ctx[s].version, size |-> ctx[s].image_size]
      BY <2>1 DEF OwnInv
    <3> QED
      BY <3>1
  <2>3. /\ pending' = ctx[s].version /\ UNCHANGED << identity, provisioned, flashed, ctx >>
        /\ UNCHANGED << bootFlag, bootPartition, otaTarget >>
        /\ stored'.identity = identity' /\ stored'.provisioned = provisioned'
    <3>1. /\ pending' = ctx[s].version /\ UNCHANGED << identity, provisioned >>
          /\ Persist
      BY <1>8, <2>1, Zenon DEF SetPending, SetPendingVersion
    <3>2. UNCHANGED << flashed, ctx, bootFlag, bootPartition, otaTarget >>
      BY <1>8 DEF SetPending, flashVars
    <3> QED
      BY <3>1, <3>2 DEF Persist
  <2>4. pc'[s] = "set_boot" /\ \A t \in Sessions \ {s} : pc'[t] = pc[t]
    BY <1>8, <1>t DEF SetPending
  <2>5. \A t \in Sessions : Engaged(t)' => Engaged(t)
    BY <2>1, <2>3, <2>4 DEF Engaged, Busy
  <2> QED
    BY <2>1, <2>2, <2>3, <2>4, <2>5 DEF ConfInv
<1>9. ASSUME NEW s \in Sessions, NEW ok \in BootResults, SwitchBoot(s, ok)
      PROVE ConfInv' /\ Step
  <2>1. Engaged(s) /\ provisioned /\ flashed[otaTarget].version = pending
    BY <1>9 DEF SwitchBoot, Engaged, ConfInv
  <2>2. /\ bootFlag' = otaTarget /\ bootPartition' = otaTarget
        /\ UNCHANGED << identityVars, flashed, ctx, otaTarget >>
    BY <1>9 DEF SwitchBoot, SetBoot, MoveBoot
  <2>3. pc'[s] = "idle" /\ \A t \in Sessions \ {s} : pc'[t] = pc[t]
    BY <1>9, <1>t DEF SwitchBoot
  <2>4. \A t \in Sessions : Engaged(t)' => Engaged(t)
    BY <2>1, <2>2, <2>3 DEF Engaged, Busy
  <2>5. \A t \in Sessions : pc'[t] = "set_boot" => pc[t] = "set_boot"
    BY <2>3
  <2> QED
    BY <2>1, <2>2, <2>4, <2>5 DEF ConfInv, identityVars, HasPending
<1>10. ASSUME SelfCheckPasses PROVE ConfInv' /\ Step
  <2>1. /\ HasPending /\ Quiet /\ UNCHANGED << flashVars, ctx, pc, flashed, provisioned >>
        /\ pending' = NoVersion
        /\ identity' = [identity EXCEPT !.fw_version = pending]
        /\ stored'.identity = identity' /\ stored'.provisioned = provisioned'
    BY <1>10 DEF SelfCheckPasses, ConfirmBoot, Persist
  <2>2. provisioned /\ identity'.fw_version = pending
    BY <1>t, <2>1 DEF HasPending, Identity
  <2>3. flashed[bootFlag].version = pending
    BY <2>1 DEF ConfInv, Quiet
  <2>4. \A t \in Sessions : Engaged(t)' => Engaged(t)
    BY <2>1 DEF Engaged, Busy
  <2> QED
    BY <2>1, <2>2, <2>3, <2>4 DEF ConfInv, flashVars, HasPending, Quiet
<1>11. ASSUME Restart PROVE ConfInv' /\ Step
  <2>1. \A s \in Sessions : ctx'[s].state = "IDLE" /\ pc'[s] = "idle"
    BY <1>11 DEF Restart, Zeroed
  <2>2. /\ identity' = identity /\ provisioned' = provisioned /\ pending' = NoVersion
        /\ UNCHANGED << bootFlag, flashed >>
    BY <1>11 DEF Restart, IdentityRestart, FlashRestart, ConfInv
  <2>3. stored'.identity = stored.identity /\ stored'.provisioned = stored.provisioned
    BY <1>11 DEF Restart, TypeOK, IdentityRestart, IdentityTypeOK
  <2> QED
    BY <2>1, <2>2, <2>3 DEF ConfInv, HasPending, Engaged, Busy
<1>12. ASSUME NEW id \in Identity, Provision(id) PROVE ConfInv' /\ Step
  <2>1. /\ ~provisioned /\ provisioned' /\ identity' = id
        /\ UNCHANGED << flashVars, ctx, pc, flashed, pending >>
        /\ stored'.identity = identity' /\ stored'.provisioned = provisioned'
        /\ id.fw_version = flashed[SlotA].version /\ Quiet
    BY <1>12 DEF Provision, SetIdentity, Persist
  <2> QED
    BY <2>1 DEF ConfInv, HasPending, flashVars, Quiet
<1>13. CASE UNCHANGED vars
  BY <1>1, <1>13 DEF vars, flashVars, Engaged, Busy
<1>14. ~(FALSE \in SelfCheckResults)
  OBVIOUS
<1> QED
  BY <1>2, <1>3, <1>4, <1>5, <1>6, <1>7, <1>8, <1>9, <1>10, <1>11, <1>12, <1>13, <1>14
     DEF Next, Tail, SelfCheck

(* The self-check confirms a version only if its image is in the slot that *)
(* boots, wherever a power loss hits the end of a transfer and whatever    *)
(* begin, write or end fails, provided that set_boot_partition() and the   *)
(* self-check report no failure.                                           *)
THEOREM ConfirmedVersionBoots ==
  ASSUME BootResults = {TRUE}, SelfCheckResults = {TRUE}
  PROVE  Spec => ConfirmedImageBoots
<1>1. Init => ConfInv
  BY InitConf
<1>2. TypeOK /\ OwnInv /\ ConfInv /\ [Next]_vars =>
        /\ ConfInv'
        /\ [identity'.fw_version # identity.fw_version =>
             flashed'[bootFlag'].version = identity'.fw_version]_vars
  BY NextConf
<1> QED
  BY <1>1, <1>2, TypeCorrect, OwnInvariant, PTL DEF Spec, ConfirmedImageBoots

-----------------------------------------------------------------------------
(***************************************************************************)
(* The statistics.  What StatsAddUp says of one context is preserved by    *)
(* every change of that context, given that a context in the tail is still *)
(* in VERIFY: one that an abort had put into ERROR could hold a chunk      *)
(* counted neither way and become COMPLETE with it.                        *)
(***************************************************************************)
AddsUp(x) ==
  /\ x.received - x.accepted - x.rejected \in
       (IF x.state = "ERROR" THEN {0, 1} ELSE {0})
  /\ x.bytes_written = x.bytes_received
  /\ x.accepted = x.next_sequence
  /\ x.retries <= x.rejected

LEMMA FreshAddsUp ==
  ASSUME NEW m \in Manifest, NEW state \in States
  PROVE  AddsUp(Zeroed(state)) /\ AddsUp(Accepted(m, state))
BY DEF AddsUp, Zeroed, Accepted

(* A context may always fail, and one that did not may end in any state. *)
LEMMA StateAddsUp ==
  ASSUME NEW x \in Context, AddsUp(x), NEW state \in States,
         state = "ERROR" \/ x.state # "ERROR"
  PROVE  AddsUp([x EXCEPT !.state = state])
BY DEF AddsUp, Context

LEMMA NextStats == TypeOK /\ OwnInv /\ StatsAddUp /\ [Next]_vars => StatsAddUp'
<1> SUFFICES ASSUME TypeOK, OwnInv, StatsAddUp, [Next]_vars PROVE StatsAddUp'
  OBVIOUS
<1>t. ctx \in [Sessions -> Context] /\ \A s \in Sessions : AddsUp(ctx[s])
  BY DEF TypeOK, StatsAddUp, AddsUp
<1>s. {"ERROR", "TRANSFER", "IDLE", "COMPLETE"} \subseteq States
  BY DEF States
<1>1. ASSUME NEW s \in Sessions, NEW x, AddsUp(x), ctx' = [ctx EXCEPT ![s] = x]
      PROVE  StatsAddUp'
  <2>1. \A t \in Sessions : AddsUp(ctx'[t])
    BY <1>1, <1>t
  <2> QED
    BY <2>1 DEF StatsAddUp, AddsUp
<1>2. ASSUME NEW s \in Sessions, NEW m \in Manifest,
             \/ BeginIncompatible(s, m)
             \/ BeginBadSize(s, m)
             \/ BeginRefused(s, m)
             \/ \E ok \in BackendResults : Begin(s, m, ok)
      PROVE  StatsAddUp'
  <2>1. \E state \in States : \/ ctx' = [ctx EXCEPT ![s] = Zeroed(state)]
                              \/ ctx' = [ctx EXCEPT ![s] = Accepted(m, state)]
    BY <1>2, <1>s DEF BeginIncompatible, BeginBadSize, BeginRefused, Begin
  <2> QED
    BY <1>1, <2>1, FreshAddsUp
<1>3. ASSUME NEW s \in Sessions, NEW state \in States,
             ctx' = [ctx EXCEPT ![s].state = state],
             state = "ERROR" \/ ctx[s].state # "ERROR"
      PROVE  StatsAddUp'
  <2>1. AddsUp([ctx[s] EXCEPT !.state = state])
    BY <1>3, <1>t, StateAddsUp
  <2>2. ctx' = [ctx EXCEPT ![s] = [ctx[s] EXCEPT !.state = state]]
    BY <1>3, <1>t
  <2> QED
    BY <1>1, <2>1, <2>2
<1>4. ASSUME NEW s \in Sessions, NEW c \in Chunk, RejectChunk(s, c) PROVE StatsAddUp'
  <2> DEFINE x == [ctx[s] EXCEPT !.received = @ + 1, !.rejected = @ + 1,
                     !.retries = IF SequenceOk(ctx[s], c) THEN @ ELSE @ + 1]
  <2>1. ctx' = [ctx EXCEPT ![s] = x]
    BY <1>4, <1>t DEF RejectChunk
  <2>2. AddsUp(x)
    BY <1>4, <1>t DEF RejectChunk, AddsUp, Context
  <2> QED
    BY <1>1, <2>1, <2>2
<1>5. ASSUME NEW s \in Sessions, NEW c \in Chunk, WriteFails(s, c) PROVE StatsAddUp'
  <2> DEFINE x == [ctx[s] EXCEPT !.received = @ + 1, !.state = "ERROR"]
  <2>1. ctx' = [ctx EXCEPT ![s] = x]
    BY <1>5, <1>t DEF WriteFails
  <2>2. AddsUp(x)
    BY <1>5, <1>t DEF WriteFails, AddsUp, Context
  <2> QED
    BY <1>1, <2>1, <2>2
<1>6. ASSUME NEW s \in Sessions, NEW c \in Chunk, AcceptChunk(s, c) PROVE StatsAddUp'
  <2> DEFINE last == ctx[s].bytes_received + c.len >= ctx[s].image_size
             x == [ctx[s] EXCEPT !.received = @ + 1, !.accepted = @ + 1,
                     !.next_sequence = @ + 1, !.bytes_received = @ + c.len,
                     !.bytes_written = @ + c.len, !.state = IF last THEN "VERIFY" ELSE @]
  <2>1. ctx' = [ctx EXCEPT ![s] = x]
    BY <1>6, <1>t DEF AcceptChunk
  <2>2. AddsUp(x)
    BY <1>6, <1>t DEF AcceptChunk, AddsUp, Context
  <2> QED
    BY <1>1, <2>1, <2>2
<1>7. ASSUME NEW s \in Sessions, Abort(s) PROVE StatsAddUp'
  BY <1>3, <1>7, <1>s DEF Abort
<1>8. ASSUME NEW s \in Sessions, NEW ok \in BackendResults, EndFlash(s, ok)
      PROVE  StatsAddUp'
  <2>1. ctx[s].state = "VERIFY"
    BY <1>8 DEF EndFlash, OwnInv
  <2> QED
    BY <1>3, <1>8, <1>s, <2>1 DEF EndFlash
<1>9. ASSUME UNCHANGED ctx PROVE StatsAddUp'
  BY <1>9 DEF StatsAddUp
<1>10. CASE Restart
  <2>1. \A s \in Sessions : AddsUp(ctx'[s])
    BY <1>10 DEF Restart, AddsUp, Zeroed
  <2> QED
    BY <2>1 DEF StatsAddUp, AddsUp
<1>11. CASE \/ \E id \in Identity : Provision(id)
            \/ \E s \in Sessions : SetPending(s) \/ \E ok \in BootResults : SwitchBoot(s, ok)
            \/ SelfCheck
            \/ UNCHANGED vars
  BY <1>9, <1>11 DEF Provision, SetPending, SwitchBoot, SelfCheck, SelfCheckPasses,
     SelfCheckFails, vars
<1> QED
  BY <1>2, <1>4, <1>5, <1>6, <1>7, <1>8, <1>10, <1>11 DEF Next, Tail

(* The statistics of ota_session.c account for every chunk, whatever       *)
(* rejections, flash failures, aborts and restarts a context lives         *)
(* through, for any number of contexts.                                    *)
THEOREM StatisticsAddUp == Spec => []StatsAddUp
<1>1. Init => StatsAddUp
  BY DEF Init, StatsAddUp, Zeroed
<1> QED
  BY <1>1, NextStats, TypeCorrect, OwnInvariant, PTL DEF Spec
=============================================================================
