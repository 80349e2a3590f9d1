--------------------------- MODULE NetResilience ----------------------------
(***************************************************************************)
(* The cloud uplink of firmware/shared/net_resilience.c: the offline queue *)
(* (a ring), the backpressure level, the publish rate limit and the        *)
(* reconnect backoff.  No code under firmware/ calls it: the calls come in *)
(* any order, with a clock that wraps.  A publish is external: the caller  *)
(* asks can_publish() and reports it.                                      *)
(***************************************************************************)
EXTENDS Integers, Sequences

CONSTANTS
  Records,      \* what the queue may hold
  Capacity,     \* OFFLINE_QUEUE_MAX_RECORDS
  BaseDelay,    \* RECONNECT_BASE_DELAY_MS
  MaxDelay,     \* RECONNECT_MAX_DELAY_MS
  Rate,         \* cloud_publish_rate_ms: 0, or what the caller has set
  DefaultRate,  \* the interval without one: 1000 ms
  ClockMod,     \* 2^32
  MaxAttempts,  \* bound: failed reconnects in a row
  MaxTime       \* bound: true time

ASSUME NetAssumption ==
  /\ Capacity \in Nat \ {0} /\ Records # {}
  /\ BaseDelay \in Nat \ {0} /\ MaxDelay \in Nat /\ BaseDelay <= MaxDelay
  /\ Rate \in Nat /\ DefaultRate \in Nat /\ ClockMod \in Nat \ {0}
  /\ MaxAttempts \in Nat /\ MaxTime \in Nat

VARIABLES
  ring, head, count, overflow,  \* OfflineQueue_t; tail is never used
  connected,                    \* cloud_connected
  pressure,
  attempt, delay, waiting,      \* ReconnectStrategy_t; next_retry_ms is never used
  lastPublish,                  \* last_publish_ms
  time, clock,                  \* true time, and now_ms
  published,                    \* history: true time of the last publish, -1 before
  report                        \* history: the last update_connection()

vars == << ring, head, count, overflow, connected, pressure, attempt, delay, waiting,
           lastPublish, time, clock, published, report >>

queueVars == << ring, head, count, overflow >>
linkVars == << connected, pressure, report >>
backoffVars == << attempt, delay, waiting >>
publishVars == << lastPublish, published >>
clockVars == << time, clock >>

Slots == 0 .. Capacity - 1

(* i modulo Capacity, for an i below twice the Capacity. *)
Slot(i) == IF i < Capacity THEN i ELSE i - Capacity

(* The heap readings update_connection() tells apart, and their level. *)
HeapLevels == {"OK", "MODERATE", "HIGH", "CRITICAL"}

-----------------------------------------------------------------------------

(* net_resilience_init(); a slot never written holds any record. *)
Init ==
  /\ \E r \in Records : ring = [i \in Slots |-> r]
  /\ head = 0 /\ count = 0 /\ overflow = FALSE
  /\ connected = TRUE /\ pressure = "OK" /\ report = << TRUE, "OK" >>
  /\ attempt = 0 /\ delay = BaseDelay /\ waiting = FALSE
  /\ lastPublish = 0 /\ time = 0 /\ clock = 0 /\ published = -1

(* Mutant of Enqueue: the record goes behind the slot count names. *)
EnqueueAtCount(r) ==
  /\ count < Capacity
  /\ ring' = [ring EXCEPT ![count] = r]
  /\ count' = count + 1
  /\ UNCHANGED << head, overflow, linkVars, backoffVars, publishVars, clockVars >>

(* net_resilience_enqueue() of a queue with room. *)
Enqueue(r) ==
  /\ count < Capacity
  /\ ring' = [ring EXCEPT ![Slot(head + count)] = r]
  /\ count' = count + 1
  /\ UNCHANGED << head, overflow, linkVars, backoffVars, publishVars, clockVars >>

(* net_resilience_enqueue() of a full queue: the new record is dropped. *)
EnqueueFull ==
  /\ count >= Capacity
  /\ overflow' = TRUE
  /\ UNCHANGED << ring, head, count, linkVars, backoffVars, publishVars, clockVars >>

(* net_resilience_dequeue() *)
Dequeue ==
  /\ count > 0
  /\ head' = Slot(head + 1)
  /\ count' = count - 1
  /\ UNCHANGED << ring, overflow, linkVars, backoffVars, publishVars, clockVars >>

(* net_resilience_update_connection() with a heap at one of the levels. *)
UpdateConnection(c, heap) ==
  /\ connected' = c
  /\ pressure' = IF c THEN heap ELSE "HIGH"
  /\ report' = << c, heap >>
  /\ UNCHANGED << queueVars, backoffVars, publishVars, clockVars >>

(* Mutant of SinceLastPublish: the distance of the two clock values. *)
SinceLastPublishSigned ==
  IF clock >= lastPublish THEN clock - lastPublish ELSE lastPublish - clock

(* now_ms - last_publish_ms, unsigned *)
SinceLastPublish ==
  IF clock >= lastPublish THEN clock - lastPublish ELSE clock - lastPublish + ClockMod

(* The minimum interval at the current level. *)
MinInterval ==
  IF Rate = 0 THEN DefaultRate ELSE IF pressure = "MODERATE" THEN 4 * Rate ELSE Rate

(* net_resilience_can_publish() *)
CanPublish ==
  /\ connected
  /\ pressure \in {"OK", "MODERATE"}
  /\ SinceLastPublish >= MinInterval

(* A publish, when it is allowed, and net_resilience_report_publish(). *)
Publish ==
  /\ CanPublish
  /\ lastPublish' = clock /\ published' = time
  /\ UNCHANGED << queueVars, linkVars, backoffVars, clockVars >>

(* Mutant of ReconnectFail: the cap is applied before the doubling. *)
ReconnectFailCapsFirst ==
  /\ attempt < MaxAttempts
  /\ attempt' = attempt + 1
  /\ delay' = 2 * (IF delay > MaxDelay THEN MaxDelay ELSE delay)
  /\ waiting' = TRUE
  /\ UNCHANGED << queueVars, linkVars, publishVars, clockVars >>

(* net_resilience_report_reconnect_fail() *)
ReconnectFail ==
  /\ attempt < MaxAttempts
  /\ attempt' = attempt + 1
  /\ delay' = IF 2 * delay > MaxDelay THEN MaxDelay ELSE 2 * delay
  /\ waiting' = TRUE
  /\ UNCHANGED << queueVars, linkVars, publishVars, clockVars >>

(* Mutant of ReconnectSuccess: the delay is kept. *)
ReconnectSuccessKeeps ==
  /\ attempt' = 0 /\ waiting' = FALSE
  /\ connected' = TRUE
  /\ UNCHANGED << queueVars, delay, pressure, report, publishVars, clockVars >>

(* Mutant of ReconnectSuccess: the level is reset with the link. *)
ReconnectSuccessRelieves ==
  /\ attempt' = 0 /\ delay' = BaseDelay /\ waiting' = FALSE
  /\ connected' = TRUE /\ pressure' = "OK"
  /\ UNCHANGED << queueVars, report, publishVars, clockVars >>

(* net_resilience_report_reconnect_success(): the pressure is left as it   *)
(* is until the next update_connection().                                  *)
ReconnectSuccess ==
  /\ attempt' = 0 /\ delay' = BaseDelay /\ waiting' = FALSE
  /\ connected' = TRUE
  /\ UNCHANGED << queueVars, pressure, report, publishVars, clockVars >>

(* Time passes; the 32-bit clock wraps. *)
Tick ==
  /\ time < MaxTime
  /\ time' = time + 1
  /\ clock' = IF clock + 1 < ClockMod THEN clock + 1 ELSE 0
  /\ UNCHANGED << queueVars, linkVars, backoffVars, publishVars >>

Next ==
  \/ \E r \in Records : Enqueue(r)
  \/ EnqueueFull \/ Dequeue
  \/ \E c \in BOOLEAN, heap \in HeapLevels : UpdateConnection(c, heap)
  \/ Publish
  \/ ReconnectFail \/ ReconnectSuccess
  \/ Tick

Spec == Init /\ [][Next]_vars

-----------------------------------------------------------------------------

(* The variables have their types. *)
TypeOK ==
  /\ ring \in [Slots -> Records]
  /\ head \in Slots /\ count \in 0 .. Capacity
  /\ overflow \in BOOLEAN /\ connected \in BOOLEAN /\ waiting \in BOOLEAN
  /\ pressure \in HeapLevels /\ report \in BOOLEAN \X HeapLevels
  /\ attempt \in 0 .. MaxAttempts /\ delay \in BaseDelay .. MaxDelay
  /\ time \in 0 .. MaxTime /\ clock \in 0 .. ClockMod - 1
  /\ lastPublish \in 0 .. ClockMod - 1 /\ published \in -1 .. time

(* The n records of a ring from position h on. *)
Contents(records, h, n) == [i \in 1 .. n |-> records[Slot(h + i - 1)]]

(* What the ring holds, oldest record first. *)
Queued == Contents(ring, head, count)

(* The offline queue implements a bounded FIFO: whatever the positions of  *)
(* head in the ring, no record that was accepted is lost, overwritten or   *)
(* reordered, and a refusal is remembered.                                 *)
Fifo == INSTANCE BoundedFifo WITH queue <- Queued, refused <- overflow

QueueIsFifo == Fifo!Spec

(* 2 to the n. *)
PowerOfTwo[n \in 0 .. MaxAttempts] == IF n = 0 THEN 1 ELSE 2 * PowerOfTwo[n - 1]

(* The reconnect delay is the base times two to the number of failures in  *)
(* a row, capped, and the base again after a success.                      *)
BackoffExact ==
  LET exact == BaseDelay * PowerOfTwo[attempt]
  IN delay = IF exact > MaxDelay THEN MaxDelay ELSE exact

(* Two publishes are at least the interval of the current level apart in   *)
(* true time, although the difference of two 32-bit clock values wraps.    *)
PublishSpacing ==
  [][published' # published /\ published >= 0 => time - published >= MinInterval]_vars

(* A reconnect alone never lets publishing resume on an old memory         *)
(* reading: while can_publish() says yes, the last update_connection() had *)
(* found the link up and the heap not short.                               *)
NoPublishOnOldReport ==
  CanPublish => report[1] /\ report[2] \in {"OK", "MODERATE"}
=============================================================================
