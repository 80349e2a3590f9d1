# TLA+ verification of the generic IoT platform

Modules, TLC runs and TLAPS proofs for the firmware under `src/firmware`. All
paths below are relative to `src/`, those of C files mostly to `src/firmware/`.

## 1. Inventory

The platform has three tiers of firmware and a small cloud tier. Each tier is a
single loop without threads; the concurrency is between devices, between a
device and its power supply, and between a device and its clock.

| Component | State | Operations | Hard because |
|---|---|---|---|
| `shared/ota_session.c` | per context: state, manifest, bytes and chunk counters | begin, process_chunk, abort, boot_self_check | chunks are repeated, reordered and delayed; contexts share one flash; three nonvolatile writes end a transfer |
| `shared/flash_partition.c` | two slots, boot flag, the write in progress | init, ota_begin/write/end, set_boot, rollback | power loss; callbacks that fail |
| `shared/device_identity.c` | identity, pending version; persisted copy | init, set, set_pending_version, confirm_boot | the pending version must outlive the restart it is for |
| `shared/ota_manifest.c` | none | compatibility_check | checked once, used much later |
| `shared/replay_protection.c` | per node: highest nonce, 64-bit bitmap, last time | check, reset_node, reset_all | reordering, jumps past the window, full table |
| `gateway/delta_filter.c`, `gateway/stateful_cache.c` | thresholds; entries with value and dirty flag | evaluate, write, get_dirty, clear_dirty | slow drift; full table; order of the dirty entries |
| `gateway/batch_forwarder.c`, `shared/lora_handler.c` | batch sequence, link sequence, radio state | flush; send with retries | lost packets and ACKs, late answers, retries |
| `gateway/gateway_auth.c` | gateway state; last sequence; attested nodes | verify, ingest, attest | partial refusal of a batch, full tracker, restarts of one side |
| `hub/ingestion_handler.c`, `shared/sensor_validation.c`, `shared/rule_engine_core.c` | rolling history of a metric; rule results | poll: two gates, historian record, rules | index of a ring that fills and wraps; stuck and silent sensors; two rules for one actuator |
| `hub/historian.c` | ring, count, write index, pending records, flash copy | write, flush, evict, init, read | power loss in a flush, wrap of the ring, clock that restarts |
| `shared/attestation.c`, `edge/edge_attestation.c` | key table; challenge; authentication state | register, challenge, respond, verify | a relay that delays and repeats; restarts of either side |
| `edge/edge_node.c`, `edge/edge_config.c` | configuration and its stored copy | set, load, read_and_send | what survives a restart, a save that fails |
| `shared/safety_monitor.c`, `shared/time_source.c` | state, last heartbeat, tracked rules; clock source | heartbeat, check, trigger_failsafe | a wall clock that jumps; latching |
| `shared/fault_tree.c` | level of every fault, system level | report, clear | the level depends on the history of reports |
| `edge/power_state.c` | power state | evaluate | latching, thresholds |
| `profiles/*` | rule tables, bounds, the compressor's last stop | lookups; short_cycle record and check | a clock that went back |
| `shared/net_resilience.c` | offline queue, pressure, backoff, last publish | enqueue, dequeue, update, can_publish, reconnect | full ring, wrap of a 32-bit clock, stale pressure |
| `shared/audit_log.c` | ring of chained entries, 8-bit index; stored copy | add, init, get_entries, verify_chain | wrap of ring and index, the chain's anchor, a save that fails unseen |
| `hub/config_portal.c` | accounts, stored accounts, sessions | add, remove, change role, authenticate, write, logout | stale sessions, last admin, failing saves |
| MQTT client, configuration engine, transport encryption, verified boot, canary, RS-485, Zigbee, diagnostics, cloud | see section 6 and `PROJECT.json` | | |

Interactions. `ota_session` calls the flash, the identity and the manifest check
directly and owns the order of their nonvolatile writes. A reading enters the
gateway, passes the delta filter into the cache, and is batched, signed and sent
over LoRa; the hub polls its radio, verifies the frame and its nodes, passes
each value through the profile's check and the sensor validation, hands it to
the historian, which buffers it for flash, and evaluates the profile's rules. An
edge node answers the hub's challenge through the gateway before it sends.
The configuration portal logs every operation to the audit log. The safety
monitor and the compressor's protection read the same clock. The supervisors,
`net_resilience.c`, `replay_check()` and the edge node have no caller in the
repository but tests: their models take the calls in any order.

What makes each part correct, in a sentence:

- update: whatever fails, the slot that boots holds a whole image (as the code
  stands, up to a restart from slot B), and the version that is confirmed is the
  one that boots;
- replay protection: no nonce is accepted twice;
- pipeline: a value that the gateway no longer considers dirty has reached the
  hub, and the hub is never further from the sensor than the threshold;
- ingestion: what the history holds is the newest readings, a stuck sensor is
  cut off, a working one is not locked out, and no reading commands an actuator
  both ways;
- historian: what is read back is the newest records, in order, and only old
  records disappear (or, as the code stands, ones stamped ahead of the clock);
- attestation: a trusted node has answered a fresh challenge with a registered
  key, and a node sends only after it has answered one;
- supervision: an override stays, a missing heartbeat is reported, the
  degradation covers every standing fault, the compressor keeps its delay;
- uplink: the offline queue is a bounded FIFO, and publishes keep their distance;
- portal and audit log: accounts stay manageable, and the log holds the newest
  events in order.

## 2. Modules

| Module | Code | State |
|---|---|---|
| `FlashPartition` | `flash_partition.c` | content and state of both slots, the backend's boot flag and what the file believes it is, the write in progress; every callback may fail (`BackendResults`; `BootResults` for set_boot) |
| `DeviceIdentity` | `device_identity.c` | identity in RAM and in storage, pending version |
| `OtaUpdate` | `ota_session.c`, `ota_manifest.c`, composing the two above | one context per member of `Sessions`; any chunk may arrive at any time |
| `AcceptOnce` | what `replay_check()` promises | the set of accepted nonces of each node |
| `ReplayProtection` | `replay_protection.c`, refining `AcceptOnce` | table with highest nonce, bitmap as a set of distances, time |
| `GatewayCache` | `delta_filter.c`, `stateful_cache.c` | thresholds, entry order, values, dirty keys, and the latest reading as history |
| `TelemetryPipeline` | `batch_forwarder.c`, `lora_handler.c` (`lora_send`), `gateway_auth.c`, `ingestion_handler.c`, over `GatewayCache` | the flush in progress, packets and ACKs on the air, the hub's trackers and values |
| `Profiles` | rule tables, bounds and reading checks under `profiles/` | none: data, values in tenths |
| `SensorGate` | `sensor_validation.c` | none: the history as a record, the three checks and the recording as operators |
| `RecentLog` | what the rolling history promises | the readings added, and the newest of them |
| `HubIngestion` | `ingestion_handler.c`, `rule_engine_core.c`, over `Profiles` and `SensorGate`, refining `RecentLog` | one metric: its history, the entries left of the frame in hand, the records handed to the historian, the rule results |
| `Historian` | `historian.c` | ring, indices, pending set, flash copy, the flush in progress |
| `EdgeNode` | `edge_attestation.c`, `edge_config.c`, `edge_node.c` | per node: authentication, key, configuration and its stored copy |
| `EdgeTrust` | `attestation.c`, tracker of `gateway_auth.c`, over `EdgeNode` | key table, trust table, pending challenges |
| `SafetyMonitor` | `safety_monitor.c`, `time_source.c` | state, last heartbeat, tracked rules, true time and the source of the clock |
| `ShortCycle` | short-cycle protection in `hvac_rules.c`, over `SafetyMonitor`'s clock | last stop, whether it is tracked, whether the clock is reliable |
| `FaultTree` | `fault_tree.c` | active faults and their levels, system level |
| `PowerState` | `power_state.c` | power state, worst voltage as history |
| `Supervision` | composes the four above | |
| `BoundedFifo` | what the offline queue promises | a sequence and the overflow flag |
| `NetResilience` | `net_resilience.c`, refining `BoundedFifo` | ring, connection and pressure, backoff, last publish, true time and a clock that wraps |
| `AuditLog` | `audit_log.c` | entries, write index, failure count, key; the log of the last successful `save()`; the events recorded as history |
| `ConfigPortal` | `config_portal.c`, over `AuditLog` | roles of the active users and the slot high-water mark, the stored copy, sessions held by callers, session slots in use |
| `...Proofs` | | theorems, see section 4 |
| `MC...` | | symmetry sets, and sets and operators that a cfg cannot write |

Three abstract specifications are implemented by a ring or a bitmap:
`AcceptOnce` by the replay window, `BoundedFifo` by the offline queue
(`Queued`, the slots from `head` on), `RecentLog` by the rolling history
(`Held`, the slots up to `index`). Each refinement is a property of a run and a
theorem.

Granularity. A handler is one action, with three exceptions. (1) The end of a
transfer is three steps, `EndFlash`, `SetPending` and `SwitchBoot`, and a flush
of the historian is one `AppendRecord` per record: each is a nonvolatile write
and power may fail in between. No other operation of the same device runs between
them. (2) `lora_send()` is split where it waits for the radio, since the hub
polls meanwhile; the gateway, a single loop, takes no reading until it returns.
(3) The loop of `ingestion_handler_poll()` takes one step per entry of the frame.
Definitions whose comment starts with "Mutant of" are not part of any
specification: each is a plausible error in the definition it names, kept so
that the property it breaks can be seen to fail.

Data. A byte of a slot is the version of the image it was cut from; a chunk is
its sequence number, offset, length and version; a bitmap is the set of
distances it marks; a frame is the record it decodes to; encryption is whether
a slot of flash decrypts; a chain HMAC is the sequence of the events it covers;
the HMAC of a response is the pair of key and challenge; a battery reading is
one of the voltages the thresholds tell apart; heap readings are their levels.
HMACs of gateway frames match (keys agree, frames are not altered on the
way); a flipped frame is a lost one. Variables marked "history" are no part of
the code: they remember what a property compares with (the true time of a
heartbeat, the readings that were added). Steps read none of them but `proofs`,
which is also what the relay can deliver, and those that number events.

## 3. Runs

| Run | Result | Question |
|---|---|---|
| `ota_faults` | pass, 0.8M states | two contexts, flash and self-check failures, stale chunks, aborts, power losses: `BootImageComplete`, `TransferOwnsSlot` |
| `ota_delivery` | pass, 0.1M states | one context, rejected chunks, a set_boot that works: `StatsAddUp`, `ConfirmedImageBoots`, and `TransferTerminates` under fairness |
| `ota_confirm` | violation | an image that booted and is not confirmed is pending (`UnconfirmedImageIsPending`) |
| `replay_window` | pass | `WindowExact`, and the refinement `AcceptedAtMostOnce` |
| `pipeline_batches` | pass, 2.1M states | `CleanIsReceived`, `HubTracksReadings`, `SequenceInOrder` |
| `pipeline_live` | pass, 0.3M states | `DirtyIsForwarded` under fairness |
| `historian_ring` | pass, 3.7M states | `RingHoldsRecent`, `EvictsOnlyOld` |
| `portal_accounts` | pass, 2.2M states | `AdminRemains`, `LogHoldsNewest`, `VerifiesUntilFull` |
| `hub_gates` | pass | `StuckIsRefused`, `DriftBounded`, `NoLockOut`, `NoConflictingCommands`, and the refinement `HistoryIsRecentLog` |
| `supervision` | pass, 3.6M states | `DegradedEnough`, `OverrideLatched`, `SilenceIsReported`, `PowerTracksWorst`, `RestartDelayed` |
| `uplink` | pass | `BackoffExact`, `NoPublishOnOldReport`, `PublishSpacing`, and the refinement `QueueIsFifo` |
| `edge_trust` | pass | `TrustedWasProven`, `SentAfterProof` |

Bounds and why they suffice:

- OTA: images of up to two units in slots of three, and chunks of up to two (a
  third is offered and refused), so that a transfer has one or two chunks, a
  chunk can overshoot the announced image, and a slot is longer than an image;
  two versions, so that upgrade, refusal and a stale chunk differ; two contexts,
  interchangeable, so that one can disturb the other. `MaxRejects` bounds the
  rejected chunks a session lives to count; nothing else grows without end. It is
  0 in `ota_faults`, where two contexts are enough states already: a rejection
  changes counters only, and `ota_delivery` has two of them.
- Replay: a window of three and jumps of up to four, so that jumps
  shorter than, equal to and longer than the window all happen; three senders
  for two entries of the table.
- Pipeline: two nodes, a batch smaller than the set of dirty entries, a link
  sequence number that wraps at 4 instead of 256 (`LoraMod` must exceed 2: over
  a radio that drops what is late, at most two numbers are in use at a time);
  one node too many for the tracker; for `DirtyIsForwarded` a batch of one and a
  cache of two (22 and 1024 in the code), so that an entry can be left behind
  flush after flush; values 0..2 with threshold 1, so that
  drift by steps below the threshold adds up to more than it.
- Historian: a ring of three records and a pending limit of two, so that wrap,
  batch flush, age and capacity eviction all happen together; a clock that restarts
  and wraps at 5, with six units of time and an age limit of two, so that records
  are evicted for their age before and after a restart, and for a stamp ahead of
  the clock after a restart or the wrap; `TimeMod` is far above the clock, as 2^64 is above 2^32, so that only a negative age is
  large.
- Portal: two accounts for three names, two session slots, a timeout shorter than
  the clock's bound, so that sessions outlive roles and expire; seven events with
  a ring of three and an index that wraps at six, so that both wrap, and saves
  that are lost anywhere in between.
- Hub gates: the real tables of the profiles; five metrics that between them
  have bounds and none, one rule and two, and both kinds of comparison; a value
  on both sides of every limit of a rule and at the limits of the bounds; gaps of
  0, 1 and the stuck timeout, so that the timeout is met exactly and passed; a
  history of two instead of 16 entries and up to four entries (`MaxWork`), so
  that the ring fills and wraps. A behaviour ends at that bound, so deadlock is
  not checked.
- Supervision: three faults, with their rows of the real matrix, for two slots; a
  limit of two deadlines, a delay of three and a fallback of
  two with four units of time, so that each is missed, met and passed; a skew of
  one between the two clocks; one slot for two rules.
- Uplink: a ring of three with two records, so that every head meets every
  count; a clock that wraps at 6 with eight units of time; a cap of 5 that is
  no power-of-two multiple of the base, reached by the third failure.
- Edge: two nodes that share a key, so that a response can be taken for the
  other's; one entry in the trust table; two challenges and one restart of each
  node, any number of restarts of the hub. Larger values are the theorems' part.

Three properties name the situation in which the code does not keep them, and hold
in every other; the runs reach that situation:

- `BootImageComplete` ends at a restart from slot B (`misread`, a history variable
  that is set there and never cleared). Without `~misread`, TLC refutes it under
  the constants of `OtaConfirm.cfg` (finding 2).
- `EvictsOnlyOld` excepts records stamped ahead of the clock by an earlier boot or
  before `millis()` wrapped (`AheadOfClock`, finding 5). Restarts and wraps that
  leave the stamp behind the clock are covered: a record then looks younger than
  it is, never older.
- `DirtyIsForwarded` is about an entry with room in the next batch (`Ahead`).
  Without that condition TLC refutes it under the constants of `PipelineLive.cfg`:
  readings that keep the first entry dirty starve the second (finding 6).

`LogHoldsNewest` speaks of the events *recorded*: those loaded at the last restart
and those logged since. A `save()` that fails unseen before a restart takes the
events after the last good one away (finding 14), and what the property adds is
that nothing older is lost, repeated or out of order. It ends when the 8-bit index
wraps, `VerifiesUntilFull` when an entry is overwritten.

Where a pass depends on an assumption, the same module without it gives a
counterexample or says why not:

- Slots and boot flag survive a restart, as with a real backend; the in-memory
  one of `flash_partition.c` erases them in `flash_partition_init()`.
- `ConfirmedImageBoots` needs a set_boot callback and self-checks that succeed: the
  result of `flash_partition_set_boot()` is not looked at (`ota_session.c:169`).
  `BootResults` and `SelfCheckResults` of `OtaDelivery.cfg` say so; begin, write
  and end may fail.
- `CleanIsReceived` needs a radio that drops what is late; `Radio = "late"` in
  `PipelineBatches.cfg` is the other one (finding 3).
- `RingHoldsRecent` has power fail only between flushes; `CrashInFlush = TRUE` in
  `HistorianRing.cfg` is the other reading (finding 4). `append()` succeeds in both
  (`AppendResults`).
- `load()` of the audit log returns what the last successful `save()` was given,
  or a blank log before the first.
- `HistoryWired = TRUE` in `HubGates.cfg`: `hub/main.c` leaves the lookup NULL,
  and the second gate is then off. The time of a poll only grows there: the
  branches for a clock that went back (`sensor_validation.c:68`, `:85`), where both
  checks pass, are not taken, although `millis()` wraps.
- `TrustedWasProven` has a relay that loses, repeats, delays and misdelivers but
  alters nothing. The HMAC (`attestation.c:79-92`) does not cover `responder_id`, by
  which the key is looked up (`attestation.c:114`). Computing an HMAC does not
  fail; `attestation.c:39` zeroes the output if it does.
- `SilenceIsReported` and `RestartDelayed` have some clock: with "NONE" among
  the `Sources`, time stands still and nothing is late.

### Fairness

- `TransferTerminates`: weak fairness of the steps that end a transfer (the
  handler runs to its end) and of the delivery of the chunk a session waits for
  (`NeededChunk`; the broker repeats a chunk until it is taken). Nothing is
  assumed of aborts, restarts or bad chunks, which are bounded.
- `DirtyIsForwarded`: weak fairness of the two polling loops and of the timeout
  of `lora_send()`; strong fairness of the arrival of a packet, of the arrival
  of an ACK while the gateway waits, and of taking it: a link that is tried
  again and again is not dead. Without it nothing can be promised of a radio.

The other components have no loop of their own in the repository, so there is no
scheduling to justify fairness and no liveness property is stated for them.

## 4. Proofs

For every value of the constants (sizes, windows, versions, sets of nodes and
contexts) that satisfies the named assumptions of the modules. Each invariant
below is inductive; where the property alone is not, the reason is given.

- `OtaUpdateProofs`
  - `TypeCorrect`: `Spec => []TypeOK`. The interesting part is that no write
    leaves the slot.
  - `TransferOwnership`: `Spec => []TransferOwnsSlot`, from `OwnInv`. A context
    that is transferring holds the flash write, which needs that nothing but its
    own end releases the flag.
  - `BootImageAlwaysComplete`: `Spec => []BootImageComplete`, with no assumption on
    callbacks or restarts, from `~misread => BootInv`: the flag agrees with the
    variable, the write in progress targets the slot that does not boot, its bytes
    below the session's count are written, and the slots that set_boot and
    rollback can move to are complete. `BootImageComplete` alone says nothing of the
    slot the flag moves to next. A restart from slot A resets the variables to what
    is then true; one from slot B sets `misread`, which stays (`MisreadStays`).
  - `ConfirmedVersionBoots`, assuming that the set_boot callback and self-checks
    succeed, from `ConfInv`: once the boot flag was switched, the image it points
    to has the pending version; before that the slot just written has it.
  - `StatisticsAddUp`: `Spec => []StatsAddUp`, an invariant of one context at a
    time (`AddsUp`) that every handler keeps for its own context.
- `ReplayProtectionProofs`
  - `ReplayTypeCorrect`, `BitmapIsExact` from `WindowInv` (types, exactness of
    the bitmap for every node with an entry, and the shape of idle entries);
  - `AtMostOnce`: the refinement of `AcceptOnce`, step by step from `WindowInv`.
- `ConfigPortalProofs`
  - `LastAdminStays`: `Spec => AdminRemains`, from `PortalInv`. The step property
    is about restarts too, so the invariant has to say what storage holds: no
    accounts, or an admin among them (`StorageFollows`), although `save()` may have
    failed any number of times; and that an admin's session is only around
    while some admin is (`AdminSessionHasAdmin`), because sessions are not
    checked against the accounts.
  - `AuditLogHoldsNewest` and `AuditChainVerifies`, from `AuditInv`: the log in RAM
    and the one in storage are both well placed and chained (`LogInv`), since a
    restart makes the second the first and a failed save lets it fall behind by
    any number of events. Until the write index wraps, the `k`-th event recorded
    is in slot `(k - 1) % LogCapacity` (`Placed`), and until an entry is
    overwritten each entry's HMAC extends its predecessor's by its own event
    (`Chained`). The two properties speak of the entries that are read back; the
    invariant also has to speak of the next slot to be written, for every
    capacity, hence a few lemmas about `%`.
  - `PortalTypeCorrect`: `Spec => []TypeOK`, with `Limits` (slots in use and
    counters stay within their tables).
- `TelemetryPipelineProofs`
  - `TypeCorrect`, from `TypeInv`, which adds that every metric with a cached
    key has a threshold.
  - `CleanValuesReceived` and `SequenceIsInOrder`, assuming `Radio = "prompt"`,
    from `LinkInv`. Clearing the dirty flags is right because the ACK answers a
    packet of this very send, which needs a picture of the air: every packet on it
    belongs to the send in progress or repeats the batch acknowledged before, the
    repeats come first, and all repeats are of one batch (`AirInv`); the entries
    of a flush keep flag and value while it runs (`BatchInv`); an ACK with the
    number waited for means that the hub holds those values (`AckInv`); and the
    hub's last number is the sender's, the one before it, or the sender has
    restarted (`SeqInv`). `LoraMod > 2` is used to tell a repeat from a packet of the
    send in progress.
  - `HubIsNearSensor`, from `LinkInv` and `TrackInv`: the cached value is within
    the threshold of the reading (`NearReading`), and what the hub took and did
    not refuse is what it stored (`Stored`).
- `HubProofs`, about `HubIngestion` and `Historian`
  - `HistoryRefines`: the ring implements `RecentLog`, from `HistInv` with
    `HoldsNewest`: slot for slot, the ring is the tail of what was added, whether
    it is filling, full or just reset.
  - `DriftIsBounded`, from the same invariant: the entry a reading is compared
    with is the oldest one once the ring is full.
  - `StuckSensorRefused` and `GatesReopen`, from `GateInv`: the readings behind
    the gates are in the order of time and within the bounds, `last_value` and
    `last_change_ms` are those of the run of equal readings that ends now
    (`RunInv`), and no run so far is too long (`RunsShort`). For `NoLockOut` the
    distance of two values within the bounds is at most their width, whichever
    entry the rate check compares with, since that entry is no newer than the last.
  - `CommandsConsistent`, from `FiredInv`: every result is the command of a rule
    that triggered (`EvaluateIssues`, by induction on the loop of
    `rule_engine_evaluate()`), and the tables of the four profiles have no two rules
    that one value, whatever it is, makes command an actuator both ways
    (`TableSafe`). The run has a value on either side of every limit; the theorem
    has them all.
  - `HubTypeCorrect`: `Spec => []TypeOK`.
  - `HistorianTypeCorrect`: `HistorianSpec => []HistorianTypeOK`, with failing
    appends and power failures within a flush.
  - `RestartKeepsRecent`, assuming `FlushSafe` (appends succeed, power does not fail
    within a flush), from `StoreInv`: record `k` is in slot `(k - 1) % Capacity` of
    the RAM ring and, once appended, of the flash copy (`Holds`); the pending records
    are the last ones of the log and start where `s_pending_start` says
    (`PendingInv`); what is durable is the log without those not yet appended
    (`DurableInv`); and the metadata in flash is that of the durable records, or,
    within a flush, already that of the whole ring (`PlaceInv`), which is why a
    power failure there is finding 4. `RingHoldsRecent` says nothing of flash, from
    which the ring is loaded at the next start.
  - `EvictionIsByAge`: `HistorianSpec => EvictsOnlyOld` for a clock that restarts and
    wraps, failing appends and power failures within a flush, from `DatedInv`: a
    record written since the last start carries the clock of that moment, and an
    older one was written by then (`Dated`). The difference of two readings of a
    wrapping clock is at most the time between them (`ModElapsed`), so an age that is
    not negative is never overstated (`AgeIsTrue`); what is removed is a prefix of
    records that look too old (`EvictionIs`).
- `NetResilienceProofs`
  - `TypeCorrect`; `OfflineQueueIsFifo`, the refinement of `BoundedFifo`, with a
    lemma each for enqueue and dequeue; `PublishNeedsReport`, from
    `PressureOfReport` (the pressure is the last report's);
    `PublishesAreSpaced`, from `DifferenceBounded`: the unsigned difference of
    the wrapping clock never overstates the time since the last publish;
    `BackoffIsExact`: `Spec => []BackoffExact`, where a delay once cut off stays at
    the cap because the powers of two grow.
- `SupervisionProofs`, component by component (a step of the composition is
  first reduced to a step of one of them)
  - `TypeCorrect`; `DegradesEnough`, from `FaultInv`, for every matrix whose rows
    are monotone (`FaultAssumption`): the level a fault was given at its report is
    at least its row's first and at most the system's;
    `OverrideStays`, from `MonitorInv`; `PowerIsWorst`, from `PowerInv`;
  - `SilenceFoundOut` and `RestartIsDelayed`, assuming `"NONE" \notin Sources`,
    from `BeatInv` and `OffInv`: the stamp was taken from one of the two clocks, and
    for an unbroken source the difference of the stamps is true time.
- `EdgeTrustProofs`
  - `TypeCorrect`, with finite tables; `TrustIsProven`, from `ProvenInv`: a pending
    challenge was sent in this run of the hub, and an active key was registered in
    it; `FramesFollowProof`, from `AnsweredInv`: an authenticated node has answered
    in this boot.

Induction. Two definitions are recursive functions: the loop of
`rule_engine_evaluate()` (`Evaluate`) and the powers of two of `BackoffExact`.
The library's induction theorems take a predicate as a parameter, which the
provers cannot instantiate; a set can take its place. `LeastNatural` (a set of
naturals has a least element, from `WFMin` and `NatLessThanWellFounded`) gives
`SetInduction`, and that gives the existence of the recursive function
(`FiniteRecursion`, and `PowersExist` for the powers of two) from which its
equations follow.

Only model-checked: the two liveness properties `TransferTerminates` and
`DirtyIsForwarded` (the prover does not reason about fairness or ENABLED). Every
other property of a passing run is a theorem. A theorem with an ASSUME holds
under the same reading of the environment as its run, and section 3 says what
happens without it.

## 5. Where code and comments disagree

Each of these is a finding in `PROJECT.json` with the text it quotes. The first
has a run of its own, 2 to 6 are reproduced as section 3 says; for the others the
property named states what the code does do.

1. `device_identity_init()` discards the pending version at the restart that
   the update needs (`device_identity.c:66`), so the self-check described in
   `ota_session.h:196-198` never has anything to confirm (`ota_confirm`).
2. `flash_partition_init()` takes slot A to be the one that boots
   (`flash_partition.c:127`), so the second update erases the image that boots.
3. The link's sequence number is used again after a send that gave up
   (`lora_handler.c:491`), so a late ACK clears the flag of another value.
4. Every append of a flush carries the final metadata (`historian.c:202`).
5. The age of a record with a later timestamp than the clock is huge
   (`historian.c:248`).
6. A flush takes the lowest indices first (`stateful_cache.c:113`), 22 of up to 1024
   entries, so it does not "Collect all dirty entries" (`batch_forwarder.h:15`) and
   later ones can starve: `DirtyIsForwarded`.
7. The rate check compares with the oldest entry of a full history, not "the most
   recent" (`sensor_validation.c:60`): `DriftBounded`.
8. Every rule that compares ABOVE commands ON (`rule_engine_core.c:70`), where
   the tables' comments want an actuator stopped.
9. `safety_monitor_check()` reports an emergency and triggers nothing
   (`safety_monitor.c:92`): `SilenceIsReported`.
10. Clearing the worst of several faults recovers at once (`fault_tree.c:110`):
    `DegradedEnough`.
11. There is no `power_state_wake()` (`power_state.c:57`): `PowerTracksWorst`.
12. A full offline queue refuses the new record, where the test's name has it
    drop the oldest (`net_resilience.c:28`): `QueueIsFifo`.
13. A node counts as authenticated once it has answered, whether or not the hub
    accepts the answer (`edge_attestation.c:68`): `SentAfterProof`.
14. "Persist to storage after every write" (`audit_log.c:124`) does not look at the
    result of `save()` (`audit_log.c:36`): `LogHoldsNewest`.

Others, met while modelling and visible in the modules or in the code left out:

Update, replay protection, pipeline

- `ota_session.c:193` and `ota_session.h:180`: the flash state "is cleaned up by
  the backend on next begin()"; `flash_partition.c:149` refuses that begin, since
  an aborted transfer leaves `s_ota_in_progress` set until a restart.
- `ota_session.h:151` "On final chunk: verifies integrity"; no hash is computed
  at `ota_session.c:160-163`.
- `ota_session.c:110` bounds a chunk by the largest image, not by the announced
  size (`ota_session.h:54`).
- `ota_manifest.c:26` rejects downgrades at begin only.
- `ota_session.c:246` rolls back to a slot that a later begin may have erased
  (`flash_partition.c:151`).
- `replay_protection.c:82`: a node silent for longer than the drift limit is
  refused from then on (`replay_protection.h:69`). After the 32-bit nonce wraps,
  the next one is far behind the highest and refused (`replay_protection.c:86`).
- `gateway_auth.c:164` logs a repeated number as a gap (`gateway_auth.h:33`);
  `gateway_auth.c:250` checks the trust at time 0, so the expiry of
  `gateway_auth.h:91-93` never applies on this path.
- `delta_filter.c:87`: a NaN as the first reading makes every later comparison
  false, and the metric is suppressed for good.
- `lora_handler.h:180-181` an automatic ACK that `lora_receive()` does not send;
  the model takes the ACK from the radio.

Hub

- `hub/main.c:237` leaves `history_lookup` NULL, so rate and stuck checks do not run
  in the built hub; `hub/main.c` does not call `historian_set_key()` or
  `historian_set_storage()` either.
- The results of the rules are counted and dropped (`ingestion_handler.c:153-161`):
  no actuator is driven.
- A history is "for a single metric on a single node" (`sensor_validation.h:55`), but
  the lookup is by metric alone, so nodes would share one.
- `sensor_validation.c:86`: a history starts with `last_value` 0 and `last_change_ms`
  0, so a sensor that reads 0 from the start is never found stuck.
- `agriculture_rules.c:104` accepts no negative value, where
  `agriculture_validation_bounds.c:45` admits temperatures down to -40.
- `historian.h:89-90`: the 60-second timer; it runs only after a first flush
  (`historian.c:224`). A record whose `append()` fails is dropped from the pending
  set and not tried again (`historian.c:203`).
- `audit_log.h:101`: `audit_log_verify_chain()` returns "false if tampering
  detected"; it also does so once an entry was overwritten, because it starts
  from zeros (`audit_log.c:176`). After 256 events the 8-bit index is 0 and the
  log counts as empty (`audit_log.c:122`).
- `config_portal.h:41` "Maximum concurrent sessions": `config_portal_logout()`
  clears the caller's copy (`config_portal.c:422`), so slots are never freed, and
  expired sessions do not free theirs. `last_active_ms` is never refreshed: the
  idle timeout runs from the login.
- `config_portal.c:240-242` has the last-admin safeguard keep the portal
  manageable; a first account with the technician's role, as in the tests, leaves
  it without an admin from the start.

Supervision, edge and uplink

- Before the first heartbeat the watchdog compares the wall clock itself with two
  deadlines (`safety_monitor.c:83`): with NTP time it is an emergency at once, with no
  clock never.
- `hvac_rules.c:229`: after the clock went back a restart is blocked until the
  clock passes the recorded stop again, and from then on the shorter fallback delay
  applies to every later stop, since nothing but a reset clears
  `clock_unreliable`. A reboot forgets the stop, and the compressor may start at once.
- `water_failsafe.c:87` "HOLD_LAST for 60s, then DE_ENERGIZE": the table says
  HOLD_LAST and a timeout, and no code makes the transition.
- `attestation.c:104`: the drift check compares the challenge's timestamp with the
  copy the node echoes, so a response may be arbitrarily late.
- `attestation.c:58`, `actuator_failsafe.c:36` and `config_engine.c:27` test for a full
  table before they look for the entry to update: a full table refuses updates.
- `config_engine.c:54-68`: activating an unknown profile deactivates the active
  one and reports NOT_FOUND.
- `mqtt_client.c:104`: an error event sets a state that only a later event of the
  library leaves; after a reconnect the subscriptions of `g_subscriptions` are
  not sent again.

## 6. Not modelled

One by one in `PROJECT.json`. Of the repository's implementation lines about four
fifths are the vendored mbed TLS under `lib/mbedtls`, which is not this program's
logic and stays out, so the share of all lines that the modules stand for is
small; they stand for about a third of the lines outside it. Of the firmware:

- cryptographic wrappers and verdicts (transport encryption, firmware integrity,
  verified boot): what they promise is the primitive's; what is left is a
  comparison or one increment;
- state with one sequential caller, where no order of steps is in question: the
  configuration engine, the canary rollout, diagnostics, tamper detection, the JTAG
  fuse, the power budget, the actuators' fail-safe table;
- the MQTT client, whose behaviour is that of an external library;
- RS-485 framing and the Zigbee radio, with the structure of the LoRa link;
- the LoRa join handshake; the wrap of the 32-bit nonce; NaN readings; failures
  of the identity's `save()` and `load()` and of the audit log's `load()`;
  statistics other than those of an update session; formatting, topics and names;
- start-up code and the cloud tier (an in-memory store and a line writer).

Out of the prover's reach: liveness under fairness.

## 7. What is left

1. Properties for the hazards that have none: a way back after an aborted
   transfer, the return of a session slot, a silent node's return. Each fails as the
   code stands, and section 5 lists them.
2. What still holds where a theorem's assumption does not: the historian after a
   power failure within a flush, the confirmed version with a
   `flash_partition_set_boot()` that fails.
3. The canary rollout, once something calls it.
