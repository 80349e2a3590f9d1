--------------------------- MODULE DeviceIdentity ---------------------------
(***************************************************************************)
(* The device identity of firmware/shared/device_identity.c: provisioned   *)
(* once, with a confirmed firmware version and a pending one, both written *)
(* through to nonvolatile storage.  The device is modelled with a storage  *)
(* backend registered and a save() and load() that succeed.                *)
(***************************************************************************)
EXTENDS Naturals

CONSTANTS
  Domains,   \* DomainProfileId_t values in use
  Variants,  \* hw_variant_id values in use
  Versions   \* firmware versions, positive numbers

ASSUME IdentityAssumption == Versions \subseteq Nat \ {0}

VARIABLES
  identity,     \* s_identity: domain, hardware variant and confirmed version
  provisioned,  \* s_provisioned
  pending,      \* s_fw_version_pending
  stored        \* what save() last wrote: identity, provisioned, pending

identityVars == << identity, provisioned, pending, stored >>

NoVersion == 0   \* DEVICE_ID_NO_VERSION

Identity == [domain : Domains, hw : Variants, fw_version : Versions]

(* A device that was never provisioned: the zeroed DeviceIdentity_t. *)
Blank == [domain |-> 0, hw |-> 0, fw_version |-> 0]

IdentityTypeOK ==
  /\ identity \in Identity \union {Blank}
  /\ provisioned \in BOOLEAN
  /\ pending \in Versions \union {NoVersion}
  /\ stored \in [identity : Identity \union {Blank}, provisioned : BOOLEAN,
                 pending : Versions \union {NoVersion}]
  /\ provisioned => identity \in Identity
  /\ stored.provisioned => stored.identity \in Identity

IdentityInit ==
  /\ identity = Blank
  /\ provisioned = FALSE
  /\ pending = NoVersion
  /\ stored = [identity |-> Blank, provisioned |-> FALSE, pending |-> NoVersion]

(* identity_persist(): the last call of every operation that writes. *)
Persist == stored' = [identity |-> identity', provisioned |-> provisioned',
                      pending |-> pending']

(* device_identity_set(): factory provisioning, accepted once. *)
SetIdentity(id) ==
  /\ ~provisioned
  /\ identity' = id
  /\ provisioned' = TRUE
  /\ UNCHANGED pending
  /\ Persist

(* device_identity_set_pending_version(). *)
SetPendingVersion(version) ==
  IF provisioned
    THEN /\ pending' = version
         /\ UNCHANGED << identity, provisioned >>
         /\ Persist
    ELSE UNCHANGED identityVars

(* device_identity_has_pending_version(). *)
HasPending == provisioned /\ pending # NoVersion

(* device_identity_confirm_boot() with a version pending. *)
ConfirmBoot ==
  /\ HasPending
  /\ identity' = [identity EXCEPT !.fw_version = pending]
  /\ pending' = NoVersion
  /\ UNCHANGED provisioned
  /\ Persist

(* Mutant of IdentityRestart: the pending version survives the restart. *)
IdentityRestartKeepsPending ==
  /\ identity' = stored.identity
  /\ provisioned' = stored.provisioned
  /\ pending' = stored.pending
  /\ UNCHANGED stored

(***************************************************************************)
(* device_identity_init() on a restart: RAM is rebuilt from storage, and a *)
(* pending version found there is discarded and erased from storage.       *)
(***************************************************************************)
IdentityRestart ==
  /\ identity' = stored.identity
  /\ provisioned' = stored.provisioned
  /\ pending' = NoVersion
  /\ stored' = [stored EXCEPT !.pending = NoVersion]
=============================================================================
