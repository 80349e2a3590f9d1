------------------------------ MODULE Historian -----------------------------
(***************************************************************************)
(* The hub's record store, firmware/hub/historian.c: a ring of encrypted   *)
(* records in RAM, written to flash in batches, with eviction by age and   *)
(* by capacity, and power failures that leave only what is in flash.       *)
(*                                                                         *)
(* A record is its number, the timestamp it carries and, as history, the   *)
(* true time it was written at.  Blank is a slot that never held a record: *)
(* it does not decrypt.  The key is set and a storage backend registered   *)
(* before historian_init().                                                *)
(***************************************************************************)
EXTENDS Integers, Sequences

CONSTANTS
  Capacity,       \* HISTORIAN_CAPACITY
  PendingMax,     \* HISTORIAN_PENDING_MAX
  MaxAge,         \* HISTORIAN_30_DAY_MS
  FlushInterval,  \* HISTORIAN_FLUSH_INTERVAL_MS
  TimeMod,        \* 2^64, the range of a timestamp difference
  MaxTime,        \* bound: true time
  MaxWrites,      \* bound: records written
  ClockMod,       \* 2^32, the range of millis()
  CrashInFlush,   \* whether power may fail between two appends
  AppendResults   \* what the storage's append() may return

ASSUME HistorianAssumption ==
  /\ Capacity \in Nat \ {0} /\ PendingMax \in 1 .. Capacity
  /\ MaxAge \in Nat /\ FlushInterval \in Nat \ {0}
  /\ MaxTime \in Nat /\ MaxWrites \in Nat /\ TimeMod \in Nat
  /\ ClockMod \in Nat \ {0} /\ TimeMod > ClockMod + MaxAge
  /\ CrashInFlush \in BOOLEAN /\ AppendResults \subseteq BOOLEAN

VARIABLES
  ring, writeIndex, count,      \* s_ring, s_write_index, s_count
  pendingStart, pendingCount,   \* s_pending_start, s_pending_count
  lastFlush,                    \* s_last_flush_ms
  flushing,                     \* next i of the loop of historian_flush()
  flash, flashIndex, flashCount,\* records and metadata in storage
  time, started,                \* true time; when the hub last started
  log,                          \* history: the records written, on this hub
  durable                       \* history: the records appended to flash

ramVars == << ring, writeIndex, count, pendingStart, pendingCount, lastFlush >>
flashVars == << flash, flashIndex, flashCount, durable >>
historianVars == << ramVars, flushing, flashVars, time, started, log >>

Blank == [id |-> 0, ts |-> 0, at |-> 0]
NotFlushing == -1
Slots == 0 .. Capacity - 1
StoredRecord == [id : 0 .. MaxWrites, ts : 0 .. ClockMod - 1, at : 0 .. MaxTime]

(* The variables have their types; between two calls fewer records are    *)
(* pending than HISTORIAN_PENDING_MAX, so that a power failure costs no    *)
(* more.                                                                   *)
HistorianTypeOK ==
  /\ ring \in [Slots -> StoredRecord] /\ flash \in [Slots -> StoredRecord]
  /\ writeIndex \in Slots /\ flashIndex \in Slots
  /\ count \in 0 .. Capacity /\ flashCount \in 0 .. Capacity
  /\ pendingStart \in Slots /\ pendingCount \in 0 .. PendingMax
  /\ flushing = NotFlushing => pendingCount < PendingMax
  /\ lastFlush \in 0 .. ClockMod - 1
  /\ flushing \in NotFlushing .. PendingMax
  /\ time \in 0 .. MaxTime /\ started \in 0 .. time
  /\ log \in Seq(StoredRecord) /\ durable \in Seq(StoredRecord)

HistorianInit ==
  /\ ring = [s \in Slots |-> Blank] /\ flash = ring
  /\ writeIndex = 0 /\ count = 0 /\ flashIndex = 0 /\ flashCount = 0
  /\ pendingStart = 0 /\ pendingCount = 0 /\ lastFlush = 0
  /\ flushing = NotFlushing
  /\ time = 0 /\ started = 0
  /\ log = << >> /\ durable = << >>

(* The timestamp ingestion_handler_poll() is called with: millis(), which  *)
(* starts again at every boot and wraps.  The first poll after a boot is   *)
(* not at 0, one after a wrap may be.                                      *)
Clock == (1 + time - started) % ClockMod

(* The records of a ring, oldest first: what historian_read() returns. *)
Contents(slots, index, n) ==
  [j \in 1 .. n |-> slots[(index - n + j - 1) % Capacity]]

(* Mutant of TooOld: the record at the limit is evicted with the old ones. *)
TooOldAtLimit(r, current_ms) ==
  \/ r = Blank
  \/ current_ms > 0 /\ r.ts > 0 /\ (current_ms - r.ts) % TimeMod >= MaxAge

(* The test of the age loop of historian_evict(), in 64-bit arithmetic; a  *)
(* slot that does not decrypt is evicted too.                              *)
TooOld(r, current_ms) ==
  \/ r = Blank
  \/ current_ms > 0 /\ r.ts > 0 /\ (current_ms - r.ts) % TimeMod > MaxAge

(* historian_evict(): leading records that are too old, then the oldest if *)
(* the ring is full.                                                       *)
AfterEviction(current_ms) ==
  LET held == Contents(ring, writeIndex, count)
      old == {j \in 0 .. count : \A i \in 1 .. j : TooOld(held[i], current_ms)}
      leading == CHOOSE j \in old : \A i \in old : i <= j
      left == count - leading
  IN IF left = Capacity THEN Capacity - 1 ELSE left

(* Mutant of FlushDue: the buffer may reach its limit. *)
FlushDueLate(pending, current_ms) ==
  \/ pending > PendingMax
  \/ lastFlush > 0 /\ (current_ms - lastFlush) % TimeMod >= FlushInterval

(* The conditions of historian_auto_flush(), in 64-bit arithmetic. *)
FlushDue(pending, current_ms) ==
  \/ pending >= PendingMax
  \/ lastFlush > 0 /\ (current_ms - lastFlush) % TimeMod >= FlushInterval

(* Mutant of Write: a wrapped index starts the ring at slot 1. *)
WriteWraps ==
  /\ flushing = NotFlushing /\ Len(log) < MaxWrites
  /\ LET r == [id |-> Len(log) + 1, ts |-> Clock, at |-> time]
     IN /\ ring' = [ring EXCEPT ![writeIndex] = r]
        /\ log' = Append(log, r)
  /\ writeIndex' = IF writeIndex + 1 < Capacity THEN writeIndex + 1 ELSE 1 % Capacity
  /\ count' = AfterEviction(Clock) + 1
  /\ pendingStart' = IF pendingCount = 0 THEN writeIndex ELSE pendingStart
  /\ pendingCount' = pendingCount + 1
  /\ flushing' = IF FlushDue(pendingCount + 1, Clock) THEN 0 ELSE NotFlushing
  /\ UNCHANGED << lastFlush, flashVars, time, started >>

(* historian_write(), up to the flush it may start. *)
Write ==
  /\ flushing = NotFlushing /\ Len(log) < MaxWrites
  /\ LET r == [id |-> Len(log) + 1, ts |-> Clock, at |-> time]
     IN /\ ring' = [ring EXCEPT ![writeIndex] = r]
        /\ log' = Append(log, r)
  /\ writeIndex' = (writeIndex + 1) % Capacity
  /\ count' = AfterEviction(Clock) + 1
  /\ pendingStart' = IF pendingCount = 0 THEN writeIndex ELSE pendingStart
  /\ pendingCount' = pendingCount + 1
  /\ flushing' = IF FlushDue(pendingCount + 1, Clock) THEN 0 ELSE NotFlushing
  /\ UNCHANGED << lastFlush, flashVars, time, started >>

(* historian_flush() called from outside. *)
FlushCall ==
  /\ flushing = NotFlushing /\ pendingCount > 0
  /\ flushing' = 0
  /\ UNCHANGED << ramVars, flashVars, time, started, log >>

(* One append: the record, and the count and index of the whole ring.  A   *)
(* failed one is counted in the statistics, and the loop goes on.          *)
AppendRecord(ok) ==
  /\ flushing \in 0 .. pendingCount - 1
  /\ LET pos == (pendingStart + flushing) % Capacity
     IN IF ok
          THEN /\ flash' = [flash EXCEPT ![pos] = ring[pos]]
               /\ durable' = Append(durable, ring[pos])
               /\ flashCount' = count /\ flashIndex' = writeIndex
          ELSE UNCHANGED flashVars
  /\ flushing' = flushing + 1
  /\ UNCHANGED << ramVars, time, started, log >>

(* The end of historian_flush(). *)
FlushEnd ==
  /\ flushing = pendingCount
  /\ pendingCount' = 0 /\ pendingStart' = 0 /\ lastFlush' = Clock
  /\ flushing' = NotFlushing
  /\ UNCHANGED << ring, writeIndex, count, flashVars, time, started, log >>

(* Power fails; historian_init() loads what is in flash. *)
PowerFails ==
  /\ flushing = NotFlushing \/ CrashInFlush
  /\ ring' = flash /\ count' = flashCount /\ writeIndex' = flashIndex
  /\ pendingStart' = 0 /\ pendingCount' = 0 /\ lastFlush' = 0
  /\ flushing' = NotFlushing
  /\ started' = time /\ log' = durable
  /\ UNCHANGED << flashVars, time >>

Tick ==
  /\ flushing = NotFlushing /\ time < MaxTime /\ time' = time + 1
  /\ UNCHANGED << ramVars, flushing, flashVars, started, log >>

HistorianNext ==
  \/ Write \/ FlushCall \/ FlushEnd \/ PowerFails \/ Tick
  \/ \E ok \in AppendResults : AppendRecord(ok)

HistorianSpec == HistorianInit /\ [][HistorianNext]_historianVars

-----------------------------------------------------------------------------
(* Every record historian_read() returns is one that was written, in the   *)
(* order of writing and without a hole up to the newest; after a power     *)
(* failure, up to the newest that reached flash: only pending records are  *)
(* lost.                                                                   *)
RingHoldsRecent ==
  /\ count <= Len(log)
  /\ Contents(ring, writeIndex, count) = SubSeq(log, Len(log) - count + 1, Len(log))

(* The record was stamped by a boot that is over, or before millis()       *)
(* wrapped, and its stamp is ahead of the clock.                           *)
AheadOfClock(r) ==
  r.ts > Clock /\ (r.at <= started \/ 1 + time - started >= ClockMod)

(* "Evict by age: remove leading records older than 30 days"               *)
(* (historian.c:238).  What historian_write() evicts is that old in true   *)
(* time, or does not decrypt, or is the oldest one of a full ring, or its  *)
(* stamp is ahead of the clock after a restart or a wrap: its unsigned age *)
(* (historian.c:248) is then huge, however new it is.  No other restart or *)
(* wrap makes a record look older than it is.                              *)
EvictsOnlyOld ==
  [][Write =>
       \A j \in 1 .. count + 1 - count' :
         LET r == Contents(ring, writeIndex, count)[j]
         IN \/ time - r.at > MaxAge
            \/ r = Blank
            \/ count = Capacity /\ j = 1
            \/ AheadOfClock(r)]_historianVars
=============================================================================
