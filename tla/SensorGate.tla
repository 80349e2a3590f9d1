----------------------------- MODULE SensorGate -----------------------------
(***************************************************************************)
(* The plausibility gate of firmware/shared/sensor_validation.c: what      *)
(* sensorValidate() decides of a reading and what the rolling history of a *)
(* metric remembers of the readings that passed.  Values are integers and  *)
(* time is in seconds: a rate is compared by cross-multiplication.  The    *)
(* flag initialised is count > 0.                                          *)
(***************************************************************************)
EXTENDS Integers, Sequences

CONSTANT HistorySize   \* SENSOR_HISTORY_SIZE

ASSUME GateAssumption == HistorySize \in Nat \ {0}

(* A SensorValidationBounds_t; cross_check_node_id is not used. *)
Bounds(lo, hi, rate, stuck) == [lo |-> lo, hi |-> hi, rate |-> rate, stuck |-> stuck]

(* SensorHistory_t as sensor_history_reset() leaves it: all zero. *)
EmptyHistory ==
  [ring    |-> [i \in 0 .. HistorySize - 1 |-> [value |-> 0, at |-> 0]],
   index   |-> 0,   \* write_index
   count   |-> 0,
   last    |-> 0,   \* last_value
   changed |-> 0]   \* last_change_ms

(* The slot after i; the remainder modulo SENSOR_HISTORY_SIZE. *)
NextSlot(i) == IF i + 1 < HistorySize THEN i + 1 ELSE 0

(* Mutant of Record: the write position wraps one slot late. *)
RecordWrapsLate(h, v, t) ==
  [ring    |-> [h.ring EXCEPT ![h.index] = [value |-> v, at |-> t]],
   index   |-> IF h.index < HistorySize THEN h.index + 1 ELSE 0,
   count   |-> IF h.count < HistorySize THEN h.count + 1 ELSE h.count,
   last    |-> v,
   changed |-> IF v # h.last THEN t ELSE h.changed]

(* Mutant of Record: every reading counts as a change. *)
RecordChanges(h, v, t) ==
  [ring    |-> [h.ring EXCEPT ![h.index] = [value |-> v, at |-> t]],
   index   |-> NextSlot(h.index),
   count   |-> IF h.count < HistorySize THEN h.count + 1 ELSE h.count,
   last    |-> v,
   changed |-> t]

(* sensor_history_record() *)
Record(h, v, t) ==
  [ring    |-> [h.ring EXCEPT ![h.index] = [value |-> v, at |-> t]],
   index   |-> NextSlot(h.index),
   count   |-> IF h.count < HistorySize THEN h.count + 1 ELSE h.count,
   last    |-> v,
   changed |-> IF v # h.last THEN t ELSE h.changed]

(* What the history holds, oldest first. *)
Held(h) ==
  [j \in 1 .. h.count |->
     h.ring[IF h.index - h.count + j - 1 >= 0 THEN h.index - h.count + j - 1
            ELSE h.index - h.count + j - 1 + HistorySize]]

Distance(v, w) == IF v > w THEN v - w ELSE w - v

(* The entry the rate of change is taken against: in a ring that is full   *)
(* the one at write_index, which is the oldest.                            *)
Compared(h) == h.ring[IF h.count >= HistorySize THEN h.index ELSE h.count - 1]

(* Mutant of RateExceeded: the reading is compared with the first slot. *)
RateExceededFirst(h, b, v, t) ==
  LET p == h.ring[0]
  IN b.rate > 0 /\ t > p.at /\ p.at > 0 /\ Distance(v, p.value) > b.rate * (t - p.at)

(* Check 2: the rate of change. *)
RateExceeded(h, b, v, t) ==
  LET p == Compared(h)
  IN b.rate > 0 /\ t > p.at /\ p.at > 0 /\ Distance(v, p.value) > b.rate * (t - p.at)

(* Mutant of Stuck: any reading is stuck once the timeout has passed. *)
StuckAnyValue(h, b, v, t) ==
  b.stuck > 0 /\ h.changed > 0 /\ t - h.changed > b.stuck

(* Check 3: the value has not changed for too long. *)
Stuck(h, b, v, t) ==
  b.stuck > 0 /\ v = h.last /\ h.changed > 0 /\ t - h.changed > b.stuck

(* sensorValidate() returns SENSOR_VALID; without a history only the range *)
(* is checked.                                                             *)
SensorValid(h, b, v, t) ==
  /\ v \in b.lo .. b.hi
  /\ h.count > 0 => ~RateExceeded(h, b, v, t) /\ ~Stuck(h, b, v, t)
=============================================================================
