------------------------- MODULE TelemetryPipeline --------------------------
(***************************************************************************)
(* From a reading at the gateway to the hub's historian: the batch         *)
(* forwarder and its LoRa link (firmware/gateway/batch_forwarder.c,        *)
(* firmware/shared/lora_handler.c) and the hub's verified ingestion        *)
(* (firmware/gateway/gateway_auth.c, firmware/hub/ingestion_handler.c).    *)
(*                                                                         *)
(* The gateway runs one loop: while batch_forwarder_flush() waits in       *)
(* lora_send() no reading is taken, but the hub keeps polling.  The radio  *)
(* is external; Radio names what is assumed of it:                         *)
(*   "prompt"  packets may be lost; an ACK does not outlive the send that  *)
(*             it could answer, and what a send that gave up left on the   *)
(*             air does not arrive later;                                  *)
(*   "late"    the same without these promises.                           *)
(***************************************************************************)
EXTENDS GatewayCache

CONSTANTS
  BatchMax,    \* BATCH_MAX_ENTRIES
  MaxRetries,  \* LORA_MAX_RETRIES
  SeqMod,      \* 2^32, the range of the batch sequence number
  LoraMod,     \* 2^8, the range of g_tx_seq
  MaxAir,      \* bound: packets on their way to the hub
  TrackerMax,  \* EDGE_NODE_TRACKER_MAX
  Expiry,      \* EDGE_NODE_ATTEST_EXPIRY_MS
  MaxTime,     \* bound: the hub's clock
  Valid,       \* values the profile's validateSensorReading() accepts
  Radio,       \* "prompt" or "late"
  NoValue      \* no value of a key yet

ASSUME PipelineAssumption ==
  /\ BatchMax \in Nat \ {0} /\ MaxRetries \in Nat
  /\ SeqMod \in Nat \ {0} /\ LoraMod \in Nat \ (0 .. 2)
  /\ MaxAir \in Nat \ {0} /\ TrackerMax \in Nat
  /\ Expiry \in Nat /\ MaxTime \in Nat
  /\ Valid \subseteq Values
  /\ Radio \in {"prompt", "late"}
  /\ NoValue \notin Values

VARIABLES
  gwState,     \* GatewayAuthContext_t.state
  txSeq,       \* GatewayAuthContext_t.tx_sequence
  loraSeq,     \* g_tx_seq
  sending,     \* the flush in progress: frame, attempt and radio state
  air,         \* packets on their way to the hub
  acks,        \* g_tx_seq of the ACKs on their way to the gateway
  hubAuth,     \* GatewayGatewayTracker_t.authenticated
  lastSeq,     \* last_sequence, NoSeq until sequence_initialized
  trust,       \* EdgeNodeTracker_t: attested_at_ms of the nodes with an entry
  hubValue,    \* the value of each key last passed to the historian
  got,         \* history: the value of each key last taken from the radio
  refused,     \* history: the keys whose last value was not processed
  now          \* the hub's clock

linkVars == << sending, air, acks, loraSeq >>
hubVars == << hubAuth, lastSeq, hubValue, got, refused >>
vars == << cacheVars, gwState, txSeq, linkVars, hubVars, trust, now >>

NoSeq == -1
Idle == [state |-> "JOINED", entries |-> << >>, attempt |-> 0]

Entries == UNION {[K -> Values] : K \in SUBSET Keys}
Packet == [lora : 0 .. LoraMod - 1, seq : 0 .. SeqMod - 1, entries : Entries]

(* Both ends and the air between them have their types; the tracker of     *)
(* edge_tracker_attest() stays within EDGE_NODE_TRACKER_MAX.               *)
TypeOK ==
  /\ CacheTypeOK
  /\ gwState \in {"IDLE", "AUTHENTICATED", "FAILED"}
  /\ txSeq \in 0 .. SeqMod - 1 /\ loraSeq \in 0 .. LoraMod - 1
  /\ sending \in [state : {"JOINED", "TX_BUSY", "WAIT_ACK"}, entries : Entries,
                  attempt : 0 .. MaxRetries]
  /\ air \in Seq(Packet) /\ Len(air) <= MaxAir
  /\ acks \subseteq 0 .. LoraMod - 1
  /\ hubAuth \in BOOLEAN
  /\ lastSeq \in {NoSeq} \union 0 .. SeqMod - 1
  /\ \E N \in SUBSET Nodes : Cardinality(N) <= TrackerMax /\ trust \in [N -> 0 .. MaxTime]
  /\ hubValue \in [Keys -> Valid \union {NoValue}]
  /\ got \in [Keys -> Values \union {NoValue}]
  /\ refused \subseteq Keys
  /\ now \in 0 .. MaxTime

Init ==
  /\ CacheInit
  /\ gwState = "IDLE" /\ txSeq = 0 /\ loraSeq = 0
  /\ sending = Idle /\ air = << >> /\ acks = {}
  /\ hubAuth = FALSE /\ lastSeq = NoSeq
  /\ trust = << >>
  /\ hubValue = [k \in Keys |-> NoValue] /\ got = hubValue /\ refused = {}
  /\ now = 0

-----------------------------------------------------------------------------
(* The gateway. *)

GatewayIdle == sending.state = "JOINED"

TakeReading(k, v) ==
  /\ GatewayIdle /\ Reading(k, v)
  /\ UNCHANGED << gwState, txSeq, linkVars, hubVars, trust, now >>

Configure(m, t) ==
  /\ GatewayIdle /\ SetThreshold(m, t)
  /\ UNCHANGED << gwState, txSeq, linkVars, hubVars, trust, now >>

(* gateway_set_state(): the hub's attestation of the gateway ended. *)
SetState(s) ==
  /\ GatewayIdle /\ gwState' = s
  /\ UNCHANGED << cacheVars, txSeq, linkVars, hubVars, trust, now >>

(* batch_forwarder_flush() up to the call of the send function. *)
FlushBegin ==
  /\ GatewayIdle
  /\ gwState = "AUTHENTICATED" /\ dirty # {}
  /\ sending' = [state |-> "TX_BUSY", attempt |-> 0,
                 entries |-> [k \in FirstDirty(BatchMax) |-> value[k]]]
  /\ UNCHANGED << cacheVars, gwState, txSeq, loraSeq, air, acks, hubVars, trust, now >>

(* The packet of the flush in progress; a retry rebuilds the same one. *)
CurrentPacket == [lora |-> loraSeq, seq |-> txSeq, entries |-> sending.entries]

(* What the radio may do with a packet handed to it. *)
Transmitted ==
  {air} \union (IF Len(air) < MaxAir THEN {Append(air, CurrentPacket)} ELSE {})

(* One attempt of lora_send(). *)
Transmit ==
  /\ sending.state = "TX_BUSY"
  /\ air' \in Transmitted
  /\ sending' = [sending EXCEPT !.state = "WAIT_ACK"]
  /\ UNCHANGED << cacheVars, gwState, txSeq, loraSeq, acks, hubVars, trust, now >>

(* The wait for the ACK can succeed. *)
AckSeen == loraSeq \in acks

(* The ACKs that can still arrive after the one waited for. *)
AcksLeft == IF Radio = "late" THEN acks \ {loraSeq} ELSE {}

(* The ACK came: lora_send() returns LORA_OK, the flags of the batch are   *)
(* cleared and both sequence numbers advance.                              *)
Acknowledged ==
  /\ sending.state = "WAIT_ACK" /\ AckSeen
  /\ ClearDirty(DOMAIN sending.entries)
  /\ txSeq' = (txSeq + 1) % SeqMod
  /\ loraSeq' = (loraSeq + 1) % LoraMod
  /\ acks' = AcksLeft
  /\ sending' = Idle
  /\ UNCHANGED << gwState, air, hubVars, trust, now >>

(* No ACK within LORA_ACK_TIMEOUT_MS, and attempts are left. *)
Retry ==
  /\ sending.state = "WAIT_ACK" /\ sending.attempt < MaxRetries
  /\ sending' = [sending EXCEPT !.state = "TX_BUSY", !.attempt = @ + 1]
  /\ UNCHANGED << cacheVars, gwState, txSeq, loraSeq, air, acks, hubVars, trust, now >>

(* What is still on the air when the gateway stops waiting. *)
Abandon ==
  IF Radio = "prompt" THEN air' = << >> /\ acks' = {} ELSE UNCHANGED << air, acks >>

(* Mutant of GiveUp: the batch of a failed send counts as forwarded. *)
GiveUpClears ==
  /\ sending.state = "WAIT_ACK" /\ sending.attempt = MaxRetries
  /\ ClearDirty(DOMAIN sending.entries)
  /\ sending' = Idle /\ Abandon
  /\ UNCHANGED << gwState, txSeq, loraSeq, hubVars, trust, now >>

(* Mutant of GiveUp: the number of a failed batch is not used again. *)
GiveUpAdvances ==
  /\ sending.state = "WAIT_ACK" /\ sending.attempt = MaxRetries
  /\ txSeq' = (txSeq + 1) % SeqMod
  /\ sending' = Idle /\ Abandon
  /\ UNCHANGED << cacheVars, gwState, loraSeq, hubVars, trust, now >>

(* LORA_ERR_ACK_TIMEOUT: the entries stay dirty for the next flush. *)
GiveUp ==
  /\ sending.state = "WAIT_ACK" /\ sending.attempt = MaxRetries
  /\ sending' = Idle /\ Abandon
  /\ UNCHANGED << cacheVars, gwState, txSeq, loraSeq, hubVars, trust, now >>

(* LORA_ERR_SEND_FAILED: the radio refuses the packet, no attempt is left. *)
SendFails ==
  /\ sending.state = "TX_BUSY"
  /\ sending' = Idle /\ Abandon
  /\ UNCHANGED << cacheVars, gwState, txSeq, loraSeq, hubVars, trust, now >>

(* The gateway starts again: none of its state is persistent. *)
GatewayRestart ==
  /\ CacheRestart
  /\ gwState' = "IDLE" /\ txSeq' = 0 /\ loraSeq' = 0
  /\ sending' = Idle /\ Abandon
  /\ UNCHANGED << hubVars, trust, now >>

-----------------------------------------------------------------------------
(* The hub. *)

(* The Gateway's attestation at the hub sets tracker.authenticated. *)
AuthenticateGateway ==
  /\ hubAuth' = TRUE
  /\ UNCHANGED << cacheVars, gwState, txSeq, linkVars, lastSeq, hubValue,
                  got, refused, trust, now >>

(* Mutant of Attest: a full tracker takes another node. *)
AttestUnbounded(n) ==
  /\ trust' = [m \in DOMAIN trust \union {n} |-> IF m = n THEN now ELSE trust[m]]
  /\ UNCHANGED << cacheVars, gwState, txSeq, linkVars, hubVars, now >>

(* edge_tracker_attest(), after attestation_verify() succeeded. *)
Attest(n) ==
  /\ n \in DOMAIN trust \/ Cardinality(DOMAIN trust) < TrackerMax
  /\ trust' = [m \in DOMAIN trust \union {n} |-> IF m = n THEN now ELSE trust[m]]
  /\ UNCHANGED << cacheVars, gwState, txSeq, linkVars, hubVars, now >>

(* edge_tracker_is_trusted(); gateway_ingest_frame() passes 0 for the      *)
(* time, which turns the expiry off.                                       *)
IsTrusted(n, current_ms) ==
  /\ n \in DOMAIN trust
  /\ current_ms > 0 /\ Expiry > 0 => current_ms - trust[n] <= Expiry

(* The entries of a frame that reach the historian. *)
Processed(entries) ==
  {k \in DOMAIN entries : hubAuth /\ IsTrusted(k[1], 0) /\ entries[k] \in Valid}

(* The ACKs after the hub took a packet: sent and received, or not. *)
AcksAfter(p) == {acks, acks \union {p.lora}}

(* gateway_ingest_frame() and the entry loop of ingestion_handler_poll():  *)
(* nothing before authentication; then the sequence number is kept, in     *)
(* order or not, and each entry of a trusted node validated and stored.    *)
Ingest(p) ==
  /\ lastSeq' = IF hubAuth THEN p.seq ELSE lastSeq
  /\ hubValue' = [k \in Keys |-> IF k \in Processed(p.entries) THEN p.entries[k] ELSE hubValue[k]]

(* ingestion_handler_poll() finds a packet. *)
Poll ==
  /\ air # << >>
  /\ LET p == Head(air) IN
       /\ Ingest(p)
       /\ got' = [k \in Keys |-> IF k \in DOMAIN p.entries THEN p.entries[k] ELSE got[k]]
       /\ refused' = (refused \ DOMAIN p.entries)
                       \union (DOMAIN p.entries \ Processed(p.entries))
       /\ acks' \in AcksAfter(p)
  /\ air' = Tail(air)
  /\ UNCHANGED << cacheVars, gwState, txSeq, loraSeq, sending, hubAuth, trust, now >>

Tick ==
  /\ now < MaxTime /\ now' = now + 1
  /\ UNCHANGED << cacheVars, gwState, txSeq, linkVars, hubVars, trust >>

Next ==
  \/ \E k \in Keys, v \in Values : TakeReading(k, v)
  \/ \E m \in Metrics, t \in Thresholds : Configure(m, t)
  \/ \E s \in {"AUTHENTICATED", "FAILED"} : SetState(s)
  \/ FlushBegin \/ Transmit \/ Acknowledged \/ Retry \/ GiveUp \/ SendFails
  \/ GatewayRestart
  \/ AuthenticateGateway \/ Poll
  \/ \E n \in Nodes : Attest(n)
  \/ Tick

Spec == Init /\ [][Next]_vars

(* A packet reaches the hub's radio; the hub's ACK reaches a gateway that  *)
(* is listening for it.                                                    *)
PacketArrives == Transmit /\ air' # air
AckArrives == sending.state = "WAIT_ACK" /\ Poll /\ acks' # acks

(* Both loops keep running, and a link that is tried again and again is    *)
(* not dead: neither every packet nor every ACK is lost.                   *)
FairSpec ==
  /\ Spec
  /\ WF_vars(FlushBegin) /\ WF_vars(Transmit) /\ WF_vars(Retry \/ GiveUp)
  /\ WF_vars(Poll)
  /\ SF_vars(PacketArrives) /\ SF_vars(AckArrives) /\ SF_vars(Acknowledged)

-----------------------------------------------------------------------------
(* "Dirty flags are cleared ONLY on confirmed successful send": the value  *)
(* of an entry that is not dirty is the last one the hub took off the      *)
(* radio for it.                                                           *)
CleanIsReceived == \A k \in Cached \ dirty : got[k] = value[k]

(* The delta filter, the cache, the link and the ingestion together: when  *)
(* an entry is not dirty and the hub did not refuse it, what the hub holds *)
(* is within the threshold of the gateway's latest reading.                *)
HubTracksReadings ==
  \A k \in Cached \ (dirty \union refused) :
    hubValue[k] # NoValue /\ Distance(hubValue[k], latest[k].value) <= latest[k].slack

(* gateway_verify_frame() only logs a number out of order.  Stop and wait  *)
(* makes the numbers the hub accepts go up one by one all the same, but    *)
(* for repetitions and a gateway that starts again at 0.                   *)
SequenceInOrder ==
  [][lastSeq # NoSeq => lastSeq' \in {lastSeq, (lastSeq + 1) % SeqMod, 0}]_vars

(* The dirty entries that cache_get_dirty() meets before the one of k. *)
Ahead(k) == {order[i] : i \in {j \in DOMAIN order : order[j] \in dirty /\
                                 \E h \in DOMAIN order : order[h] = k /\ j < h}}

(* A flush forwards what it has room for: an entry that is dirty with less *)
(* than a batch of dirty entries in front of it is forwarded, unless the   *)
(* gateway loses its authentication or readings fill the batch with        *)
(* entries in front of it first.  stateful_cache.c:113 scans from slot 0   *)
(* at every flush, so readings that keep a batch of earlier entries dirty  *)
(* hold back a later entry for ever; nothing else does, neither failed     *)
(* sends nor what becomes dirty behind it.                                 *)
DirtyIsForwarded ==
  \A k \in Keys :
    k \in dirty /\ Cardinality(Ahead(k)) < BatchMax
      ~> \/ k \notin dirty
         \/ Cardinality(Ahead(k)) >= BatchMax
         \/ gwState # "AUTHENTICATED"
=============================================================================
