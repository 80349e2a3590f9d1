---------------------------- MODULE HubIngestion ----------------------------
(***************************************************************************)
(* The hub's ingestion path, firmware/hub/ingestion_handler.c, behind      *)
(* gateway_ingest_frame(): the two validation gates, the historian record  *)
(* and the rule evaluation of every entry of a frame, on a hub built with  *)
(* one of the four profiles.  The metrics of a profile share nothing but   *)
(* the statistics and the audit log, where a refusal leaves an event (see  *)
(* AuditLog): both are left out here, so a behaviour follows one metric.   *)
(* The historian's own state is in Historian; here it is the sequence of   *)
(* records handed to historian_write().                                    *)
(***************************************************************************)
EXTENDS Profiles

CONSTANTS
  Followed,       \* the pairs <<profile, metric>> a behaviour may follow
  Gaps(_, _),     \* seconds between two polls, for a profile and a metric
  Samples(_, _),  \* values a frame may hold, for a profile and a metric
  HistoryWired,   \* history_lookup is set
  MaxActions,     \* RULE_ENGINE_MAX_ACTIONS
  MaxFrame,       \* INGESTION_HANDLER_MAX_ENTRIES
  MaxWork         \* bound: entries handed over, and polls that hand over none

ASSUME HubAssumption ==
  /\ \A f \in Followed :
       f = <<f[1], f[2]>> /\ f[1] \in ProfileIds /\ f[2] \in Metrics(f[1])
  /\ \A f \in Followed : Gaps(f[1], f[2]) \subseteq Nat
  /\ \A f \in Followed : Samples(f[1], f[2]) \subseteq Int
  /\ HistoryWired \in BOOLEAN
  /\ MaxActions \in Nat /\ MaxFrame \in Nat /\ MaxWork \in Nat

VARIABLES
  profile, metric,  \* what this behaviour follows
  work,             \* entries handed over so far, and polls that had none
  now,              \* current_ms of the last poll, in seconds
  left,             \* entries of the frame in hand still to be processed
  hist,             \* the SensorHistory_t history_lookup() returns
  stored,           \* records handed to historian_write() since the history
                    \* was last reset, oldest first
  fired             \* results[] of the last rule_engine_evaluate()

vars == <<profile, metric, work, now, left, hist, stored, fired>>

-----------------------------------------------------------------------------

(* A rule triggers on a reading. *)
Triggered(r, m, v) ==
  /\ r.metric = m
  /\ IF r.comparison = "BELOW" THEN v < r.threshold ELSE v >= r.threshold

(* The command of a rule that triggered: the side of the threshold the     *)
(* reading is on.                                                          *)
Command(r, v) ==
  [actuator |-> r.actuator, state |-> IF v >= r.threshold THEN "ON" ELSE "OFF"]

(* rule_engine_evaluate(): the commands of the first MaxActions rules that *)
(* trigger, in the order of the table; results[k] is what the first k      *)
(* turns of its loop leave.                                                *)
Evaluate(p, m, v) ==
  LET rules == Profiles[p].rules
      results[k \in 0 .. Len(rules)] ==
        IF k = 0 THEN << >>
        ELSE IF Triggered(rules[k], m, v) /\ Len(results[k - 1]) < MaxActions
               THEN Append(results[k - 1], Command(rules[k], v))
               ELSE results[k - 1]
  IN results[Len(rules)]

(* bounds_lookup() and history_lookup() both answer for the metric. *)
Gated == HistoryWired /\ metric \in DOMAIN Profiles[profile].bounds

MetricBounds == Profiles[profile].bounds[metric]

(* Both gates let the reading pass. *)
Accepts(v) ==
  /\ VtableValid(profile, metric, v)
  /\ Gated => SensorValid(hist, MetricBounds, v, now)

-----------------------------------------------------------------------------

Init ==
  /\ \E f \in Followed : profile = f[1] /\ metric = f[2]
  /\ work = 0
  /\ now = 1
  /\ left = 0
  /\ hist = EmptyHistory
  /\ stored = << >>
  /\ fired = << >>

(* ingestion_handler_poll() up to its loop: n entries to process, none     *)
(* when the radio has no frame or gateway_ingest_frame() refuses it.       *)
Poll(gap, n) ==
  /\ left = 0
  /\ work' = work + (IF n = 0 THEN 1 ELSE n)
  /\ work' <= MaxWork
  /\ now' = now + gap
  /\ left' = n
  /\ UNCHANGED <<profile, metric, hist, stored, fired>>

(* Mutant of RejectEntry: what a gate refuses is still remembered. *)
RejectEntryRecords(v) ==
  /\ left > 0
  /\ ~Accepts(v)
  /\ left' = left - 1
  /\ hist' = IF Gated THEN Record(hist, v, now) ELSE hist
  /\ UNCHANGED <<profile, metric, work, now, stored, fired>>

(* A turn of the loop whose entry a gate refuses: the results of the       *)
(* previous evaluation are out of scope.                                   *)
RejectEntry(v) ==
  /\ left > 0
  /\ ~Accepts(v)
  /\ left' = left - 1
  /\ fired' = << >>
  /\ UNCHANGED <<profile, metric, work, now, hist, stored>>

(* A turn of the loop whose entry passes both gates: it is remembered,     *)
(* stored and evaluated.                                                   *)
AcceptEntry(v) ==
  /\ left > 0
  /\ Accepts(v)
  /\ left' = left - 1
  /\ hist' = IF Gated THEN Record(hist, v, now) ELSE hist
  /\ stored' = Append(stored, [value |-> v, at |-> now])
  /\ fired' = Evaluate(profile, metric, v)
  /\ UNCHANGED <<profile, metric, work, now>>

(* sensor_history_reset() of the metric's history, between two polls. *)
ResetHistory ==
  /\ left = 0
  /\ hist' = EmptyHistory
  /\ stored' = << >>
  /\ UNCHANGED <<profile, metric, work, now, left, fired>>

Next ==
  \/ \E gap \in Gaps(profile, metric), n \in 0 .. MaxFrame : Poll(gap, n)
  \/ \E v \in Samples(profile, metric) : RejectEntry(v) \/ AcceptEntry(v)
  \/ ResetHistory

Spec == Init /\ [][Next]_vars

-----------------------------------------------------------------------------

Reading == [value : Int, at : Nat]

History ==
  [ring : [0 .. HistorySize - 1 -> Reading], index : 0 .. HistorySize - 1,
   count : 0 .. HistorySize, last : Int, changed : Nat]

(* The variables have their types, and the ring's counters fit the ring. *)
TypeOK ==
  /\ <<profile, metric>> \in Followed
  /\ work \in 0 .. MaxWork
  /\ now \in Nat \ {0}
  /\ left \in 0 .. MaxFrame
  /\ hist \in History
  /\ stored \in Seq(Reading)
  /\ fired \in Seq([actuator : Profiles[profile].actuators, state : {"ON", "OFF"}])

(* The rolling history implements a log of the newest HistorySize readings *)
(* that passed: sensor_history_record() overwrites the oldest one whatever *)
(* the write index, and a refused reading leaves no trace.                 *)
Recent == INSTANCE RecentLog
  WITH Size <- HistorySize, log <- Held(hist), added <- IF Gated THEN stored ELSE << >>

HistoryIsRecentLog == Recent!Spec

(* The place in stored where the run of equal readings that ends at j      *)
(* began.                                                                  *)
RunStart(j) ==
  CHOOSE i \in 1 .. j :
    /\ \A k \in i .. j : stored[k].value = stored[j].value
    /\ i = 1 \/ stored[i - 1].value # stored[j].value

(* A sensor that keeps repeating one value is cut off: no run of equal     *)
(* readings that pass the gates lasts longer than stuck_timeout_sec.  The  *)
(* exception is the code's: a run of zeros from the very first reading     *)
(* never sets last_change_ms, as last_value starts at zero.                *)
StuckIsRefused ==
  Gated /\ MetricBounds.stuck > 0 =>
    \A j \in DOMAIN stored :
      \/ stored[j].at - stored[RunStart(j)].at <= MetricBounds.stuck
      \/ RunStart(j) = 1 /\ stored[j].value = 0

(* What the rate check really bounds: a reading against the one            *)
(* SENSOR_HISTORY_SIZE before it, or against its predecessor while the     *)
(* ring is filling.  (The comment "Find the most recent entry." promises   *)
(* the predecessor always.)                                                *)
DriftBounded ==
  Gated =>
    \A j \in 2 .. Len(stored) :
      LET i == IF j > HistorySize THEN j - HistorySize ELSE j - 1
      IN stored[j].at > stored[i].at =>
           Distance(stored[j].value, stored[i].value)
             <= MetricBounds.rate * (stored[j].at - stored[i].at)

(* The gates cannot lock a working sensor out: once the silence since the  *)
(* last reading that passed allows the full range at max_rate_of_change,   *)
(* every other value within the range of both gates passes.                *)
NoLockOut ==
  Gated /\ stored # << >> =>
    LET e == stored[Len(stored)]
    IN \A v \in Samples(profile, metric) :
         /\ VtableValid(profile, metric, v)
         /\ v \in MetricBounds.lo .. MetricBounds.hi
         /\ v # e.value
         /\ MetricBounds.hi - MetricBounds.lo <= MetricBounds.rate * (now - e.at)
         => Accepts(v)

(* One reading never makes rule_engine_evaluate() command an actuator both *)
(* ways.                                                                   *)
NoConflictingCommands ==
  \A i, j \in DOMAIN fired :
    fired[i].actuator = fired[j].actuator => fired[i].state = fired[j].state
=============================================================================
