------------------------ MODULE NetResilienceProofs -------------------------
(***************************************************************************)
(* Proofs about NetResilience, for every capacity, delay, rate and range   *)
(* of the clock: the offline queue implements BoundedFifo, the clock       *)
(* difference net_resilience_can_publish() looks at never overstates the   *)
(* time since the last publish, and the backoff is exact.                  *)
(***************************************************************************)
EXTENDS NetResilience, WellFoundedInduction, TLAPS

USE NetAssumption

(* The type invariant is inductive. *)
LEMMA TypeInit == Init => TypeOK
<1> SUFFICES ASSUME Init PROVE TypeOK
  OBVIOUS
<1>1. ring \in [Slots -> Records]
  BY DEF Init
<1>2. overflow \in BOOLEAN /\ connected \in BOOLEAN /\ waiting \in BOOLEAN
  BY Zenon DEF Init
<1>3. pressure \in HeapLevels /\ report \in BOOLEAN \X HeapLevels
  BY Zenon DEF Init, HeapLevels
<1>4. /\ head \in Slots /\ count \in 0 .. Capacity
      /\ attempt \in 0 .. MaxAttempts /\ delay \in BaseDelay .. MaxDelay
      /\ time \in 0 .. MaxTime /\ clock \in 0 .. ClockMod - 1
      /\ lastPublish \in 0 .. ClockMod - 1 /\ published \in -1 .. time
  BY DEF Init, Slots
<1>5. QED
  BY <1>1, <1>2, <1>3, <1>4 DEF TypeOK

LEMMA TypeStep == TypeOK /\ [Next]_vars => TypeOK'
<1> SUFFICES ASSUME TypeOK, [Next]_vars PROVE TypeOK'
  OBVIOUS
<1> USE DEF TypeOK, Slots, HeapLevels, queueVars, linkVars, backoffVars, publishVars, clockVars
<1>1. ASSUME NEW r \in Records, Enqueue(r) PROVE TypeOK'
  BY <1>1 DEF Enqueue, Slot
<1>2. CASE EnqueueFull
  BY <1>2 DEF EnqueueFull
<1>3. CASE Dequeue
  BY <1>3 DEF Dequeue, Slot
<1>4. ASSUME NEW c \in BOOLEAN, NEW heap \in HeapLevels, UpdateConnection(c, heap)
      PROVE  TypeOK'
  <2>1. connected' \in BOOLEAN /\ report' \in BOOLEAN \X HeapLevels
    BY <1>4, Zenon DEF UpdateConnection
  <2>2. pressure' \in HeapLevels
    BY <1>4 DEF UpdateConnection
  <2>3. UNCHANGED << queueVars, backoffVars, publishVars, clockVars >>
    BY <1>4 DEF UpdateConnection
  <2>4. QED
    BY <2>1, <2>2, <2>3
<1>5. CASE Publish
  BY <1>5 DEF Publish
<1>6. CASE ReconnectFail
  BY <1>6 DEF ReconnectFail
<1>7. CASE ReconnectSuccess
  <2>1. connected' \in BOOLEAN /\ waiting' \in BOOLEAN
    BY <1>7, Zenon DEF ReconnectSuccess
  <2>2. attempt' \in 0 .. MaxAttempts /\ delay' \in BaseDelay .. MaxDelay
    BY <1>7 DEF ReconnectSuccess
  <2>3. UNCHANGED << queueVars, pressure, report, publishVars, clockVars >>
    BY <1>7 DEF ReconnectSuccess
  <2>4. QED
    BY <2>1, <2>2, <2>3
<1>8. CASE Tick
  BY <1>8 DEF Tick
<1>9. CASE UNCHANGED vars
  BY <1>9 DEF vars
<1>10. QED
  BY <1>1, <1>2, <1>3, <1>4, <1>5, <1>6, <1>7, <1>8, <1>9 DEF Next

(* Every index, counter and level of a NetResilienceContext_t stays in its *)
(* range.                                                                  *)
THEOREM TypeCorrect == Spec => []TypeOK
BY TypeInit, TypeStep, PTL DEF Spec

-----------------------------------------------------------------------------

(* The offline queue. *)

LEMMA SlotInRing ==
  ASSUME NEW i \in 0 .. 2 * Capacity - 1
  PROVE  Slot(i) \in Slots
BY DEF Slot, Slots

(* What a ring holds is a sequence of its count of records. *)
LEMMA QueuedIsSeq ==
  ASSUME NEW f \in [Slots -> Records], NEW h \in Slots, NEW n \in 0 .. Capacity
  PROVE  Contents(f, h, n) \in Seq(Records) /\ Len(Contents(f, h, n)) = n
<1>1. \A i \in 1 .. n : Slot(h + i - 1) \in Slots
  BY SlotInRing DEF Slots
<1>2. Contents(f, h, n) \in [1 .. n -> Records]
  BY <1>1 DEF Contents
<1>3. QED
  BY <1>2

(* Two slots of the ring that are less than a round apart are different. *)
LEMMA SlotsDiffer ==
  ASSUME NEW h \in Slots, NEW i \in 0 .. Capacity - 1, NEW j \in 0 .. Capacity - 1, i # j
  PROVE  Slot(h + i) # Slot(h + j)
BY DEF Slot, Slots

LEMMA EnqueuePuts ==
  ASSUME TypeOK, TypeOK', NEW r \in Records, Enqueue(r)
  PROVE  Fifo!Put
<1> USE DEF TypeOK
<1>1. Queued \in Seq(Records) /\ Len(Queued) = count
  BY QueuedIsSeq DEF Queued
<1>2. Queued' \in Seq(Records) /\ Len(Queued') = count'
  <2>1. ring' \in [Slots -> Records] /\ head' \in Slots /\ count' \in 0 .. Capacity
    OBVIOUS
  <2>2. Queued' = Contents(ring', head', count')
    BY DEF Queued
  <2>3. QED
    BY <2>1, <2>2, QueuedIsSeq
<1>3. count' = count + 1 /\ head' = head /\ count < Capacity
  BY DEF Enqueue
<1>4. ASSUME NEW i \in 1 .. count PROVE Queued'[i] = Queued[i]
  <2>1. Slot(head + i - 1) # Slot(head + count)
    <3>1. i - 1 \in 0 .. Capacity - 1 /\ count \in 0 .. Capacity - 1 /\ i - 1 # count
      BY <1>3
    <3>2. QED
      BY <3>1, SlotsDiffer, head + (i - 1) = head + i - 1 DEF Slots
  <2>2. Slot(head + i - 1) \in Slots
    BY <1>3, SlotInRing DEF Slots
  <2>3. ring'[Slot(head + i - 1)] = ring[Slot(head + i - 1)]
    BY <2>1, <2>2 DEF Enqueue
  <2>4. QED
    BY <1>3, <2>3 DEF Queued, Contents
<1>5. Queued'[count + 1] = r
  <2>1. Slot(head + count) \in Slots
    BY <1>3, SlotInRing, SMTT(30) DEF Slots
  <2>2. ring'[Slot(head + count)] = r
    BY <2>1 DEF Enqueue
  <2>3. Queued'[count + 1] = ring'[Slot(head + (count + 1) - 1)]
    BY <1>3 DEF Queued, Contents
  <2>4. QED
    BY <2>2, <2>3, head + (count + 1) - 1 = head + count DEF Slots
<1>6. Append(Queued, r) \in Seq(Records) /\ Len(Append(Queued, r)) = count + 1
  BY <1>1, SMTT(30)
<1>7. Queued' = Append(Queued, r)
  <2>1. \A i \in 1 .. count + 1 : Queued'[i] = Append(Queued, r)[i]
    BY <1>1, <1>4, <1>5, SMTT(30)
  <2>2. QED
    BY <1>2, <1>3, <1>6, <2>1, SMTT(30)
<1>8. Queued' # << >>
  BY <1>2, <1>3
<1>9. Queued'[Len(Queued')] = r
  BY <1>2, <1>3, <1>5
<1>10. overflow' = overflow
  BY DEF Enqueue
<1>11. QED
  BY <1>1, <1>3, <1>7, <1>8, <1>9, <1>10 DEF Fifo!Put

LEMMA DequeueGets ==
  ASSUME TypeOK, TypeOK', Dequeue
  PROVE  Fifo!Get
<1> USE DEF TypeOK
<1>1. Queued \in Seq(Records) /\ Len(Queued) = count
  BY QueuedIsSeq DEF Queued
<1>2. Queued' \in Seq(Records) /\ Len(Queued') = count'
  <2>1. ring' \in [Slots -> Records] /\ head' \in Slots /\ count' \in 0 .. Capacity
    OBVIOUS
  <2>2. Queued' = Contents(ring', head', count')
    BY DEF Queued
  <2>3. QED
    BY <2>1, <2>2, QueuedIsSeq
<1>3. count' = count - 1 /\ count > 0 /\ head' = Slot(head + 1) /\ ring' = ring
  BY DEF Dequeue
<1>4. ASSUME NEW i \in 1 .. count - 1 PROVE Queued'[i] = Queued[i + 1]
  <2>1. Slot(Slot(head + 1) + i - 1) = Slot(head + (i + 1) - 1)
    BY SMTT(30) DEF Slot, Slots
  <2>2. Queued'[i] = ring[Slot(Slot(head + 1) + i - 1)]
    BY <1>3 DEF Queued, Contents
  <2>3. Queued[i + 1] = ring[Slot(head + (i + 1) - 1)]
    BY <1>3 DEF Queued, Contents
  <2>4. QED
    BY <2>1, <2>2, <2>3
<1>5. Queued # << >>
  BY <1>1, <1>3
<1>6. Tail(Queued) \in Seq(Records) /\ Len(Tail(Queued)) = count - 1
  BY <1>1, <1>5
<1>7. Queued' = Tail(Queued)
  <2>1. \A i \in 1 .. count - 1 : Queued'[i] = Tail(Queued)[i]
    BY <1>1, <1>4, <1>5, SMTT(30)
  <2>2. QED
    BY <1>2, <1>3, <1>6, <2>1
<1>8. overflow' = overflow
  BY DEF Dequeue
<1>9. QED
  BY <1>5, <1>7, <1>8 DEF Fifo!Get

LEMMA FifoInit == Init => Fifo!Init
<1> SUFFICES ASSUME Init PROVE Queued = << >> /\ overflow = FALSE
  BY DEF Fifo!Init
<1>1. TypeOK
  BY TypeInit
<1>2. Queued \in Seq(Records) /\ Len(Queued) = 0
  BY <1>1, QueuedIsSeq DEF Queued, TypeOK, Init
<1>3. QED
  BY <1>2 DEF Init

LEMMA FifoStep == TypeOK /\ TypeOK' /\ [Next]_vars => [Fifo!Next]_<< Queued, overflow >>
<1> SUFFICES ASSUME TypeOK, TypeOK', [Next]_vars
             PROVE  Fifo!Next \/ UNCHANGED << Queued, overflow >>
  OBVIOUS
<1>1. ASSUME NEW r \in Records, Enqueue(r) PROVE Fifo!Next
  BY <1>1, EnqueuePuts DEF Fifo!Next
<1>2. CASE Dequeue
  BY <1>2, DequeueGets DEF Fifo!Next
<1>3. CASE EnqueueFull
  <2>1. Len(Queued) = count
    BY QueuedIsSeq DEF Queued, TypeOK
  <2>2. count = Capacity
    BY <1>3 DEF EnqueueFull, TypeOK
  <2>3. Queued' = Queued
    BY <1>3 DEF EnqueueFull, Queued
  <2>4. QED
    BY <1>3, <2>1, <2>2, <2>3 DEF EnqueueFull, Fifo!Next, Fifo!Refuse
<1>4. CASE UNCHANGED queueVars
  BY <1>4 DEF queueVars, Queued
<1>5. QED
  BY <1>1, <1>2, <1>3, <1>4
     DEF Next, UpdateConnection, Publish, ReconnectFail, ReconnectSuccess, Tick, vars, queueVars

(* The refinement: every record net_resilience_enqueue() accepted leaves   *)
(* through net_resilience_dequeue() once, in order, wherever the head of   *)
(* the ring is.                                                            *)
THEOREM OfflineQueueIsFifo == Spec => QueueIsFifo
<1>1. Spec => []TypeOK
  BY TypeCorrect
<1>2. QED
  BY <1>1, FifoInit, FifoStep, PTL DEF Spec, QueueIsFifo, Fifo!Spec

-----------------------------------------------------------------------------

(* The pressure level is what the last update_connection() made of its     *)
(* readings.                                                               *)
PressureOfReport == pressure = IF report[1] THEN report[2] ELSE "HIGH"

LEMMA PressureStep ==
  TypeOK /\ PressureOfReport /\ [Next]_vars => PressureOfReport'
<1> SUFFICES ASSUME TypeOK, PressureOfReport, [Next]_vars PROVE PressureOfReport'
  OBVIOUS
<1>1. ASSUME NEW c \in BOOLEAN, NEW heap \in HeapLevels, UpdateConnection(c, heap)
      PROVE  PressureOfReport'
  <2>1. report'[1] = c /\ report'[2] = heap
    BY <1>1 DEF UpdateConnection
  <2>2. pressure' = IF c THEN heap ELSE "HIGH"
    BY <1>1 DEF UpdateConnection
  <2>3. QED
    BY <2>1, <2>2 DEF PressureOfReport
<1>2. CASE UNCHANGED << pressure, report >>
  BY <1>2 DEF PressureOfReport
<1>3. QED
  BY <1>1, <1>2
     DEF Next, Enqueue, EnqueueFull, Dequeue, Publish, ReconnectFail, ReconnectSuccess,
         Tick, vars, linkVars

(* net_resilience_report_reconnect_success() sets cloud_connected and      *)
(* leaves the pressure: publishing stays off until the next reading.       *)
THEOREM PublishNeedsReport == Spec => []NoPublishOnOldReport
<1>1. Init => PressureOfReport
  BY DEF Init, PressureOfReport
<1>2. TypeOK /\ PressureOfReport => NoPublishOnOldReport
  BY DEF TypeOK, PressureOfReport, NoPublishOnOldReport, CanPublish
<1>3. Spec => []TypeOK
  BY TypeCorrect
<1>4. QED
  BY <1>1, <1>2, <1>3, PressureStep, PTL DEF Spec

-----------------------------------------------------------------------------

(* The clock difference never overstates the time since the last publish:  *)
(* it is that time modulo ClockMod, of which only the bound is needed.     *)
DifferenceBounded == published >= 0 => SinceLastPublish <= time - published

LEMMA DifferenceStep ==
  TypeOK /\ DifferenceBounded /\ [Next]_vars => DifferenceBounded'
<1> SUFFICES ASSUME TypeOK, DifferenceBounded, [Next]_vars PROVE DifferenceBounded'
  OBVIOUS
<1> USE DEF TypeOK, DifferenceBounded, SinceLastPublish
<1>1. CASE Tick
  BY <1>1 DEF Tick, publishVars
<1>2. CASE Publish
  BY <1>2 DEF Publish, clockVars
<1>3. CASE UNCHANGED << clockVars, publishVars >>
  BY <1>3 DEF clockVars, publishVars
<1>4. QED
  BY <1>1, <1>2, <1>3
     DEF Next, Enqueue, EnqueueFull, Dequeue, UpdateConnection, ReconnectFail,
         ReconnectSuccess, vars, clockVars, publishVars

LEMMA SpacingStep ==
  TypeOK /\ DifferenceBounded /\ [Next]_vars
    => [published' # published /\ published >= 0 => time - published >= MinInterval]_vars
<1> SUFFICES ASSUME TypeOK, DifferenceBounded, [Next]_vars,
                    published' # published, published >= 0
             PROVE  time - published >= MinInterval
  OBVIOUS
<1>1. Publish
  BY DEF Next, Enqueue, EnqueueFull, Dequeue, UpdateConnection, ReconnectFail,
         ReconnectSuccess, Tick, vars, publishVars
<1>2. SinceLastPublish >= MinInterval
  BY <1>1 DEF Publish, CanPublish
<1>3. SinceLastPublish \in Int /\ MinInterval \in Int /\ time \in Int /\ published \in Int
  BY DEF TypeOK, SinceLastPublish, MinInterval
<1>4. QED
  BY <1>2, <1>3 DEF DifferenceBounded

(* Publishes are spaced by the rate limit in true time, however often the  *)
(* 32-bit clock wraps: net_resilience_can_publish().                       *)
THEOREM PublishesAreSpaced == Spec => PublishSpacing
<1>1. Init => DifferenceBounded
  BY DEF Init, DifferenceBounded
<1>2. Spec => []TypeOK
  BY TypeCorrect
<1>3. QED
  BY <1>1, <1>2, DifferenceStep, SpacingStep, PTL DEF Spec, PublishSpacing

-----------------------------------------------------------------------------

(* f is the table of the powers of two up to n. *)
IsPowers(f, n) ==
  /\ f \in [0 .. n -> Nat \ {0}]
  /\ f[0] = 1
  /\ \A k \in 1 .. n : f[k] = 2 * f[k - 1]

(* There is one for every n: a least n without one would have one for      *)
(* n - 1, which one more entry completes.                                  *)
LEMMA PowersExist ==
  ASSUME NEW n \in Nat
  PROVE  \E f : IsPowers(f, n)
<1> DEFINE T == {m \in Nat : ~\E f : IsPowers(f, m)}
<1> SUFFICES ASSUME T # {} PROVE FALSE
  OBVIOUS
<1>1. PICK m \in T : \A k \in T : ~(<<k, m>> \in OpToRel(<, Nat))
  BY NatLessThanWellFounded, WFMin, Zenon
<1>2. \A k \in T : ~(k < m)
  BY <1>1, Zenon DEF OpToRel
<1>3. IsPowers([i \in 0 .. 0 |-> 1], 0)
  BY DEF IsPowers
<1>4. m # 0 /\ m - 1 \in Nat
  BY <1>3
<1>5. m - 1 \notin T
  BY <1>2, <1>4
<1>6. PICK f : IsPowers(f, m - 1)
  BY <1>4, <1>5
<1> DEFINE g == [i \in 0 .. m |-> IF i = m THEN 2 * f[m - 1] ELSE f[i]]
<1>7. f \in [0 .. m - 1 -> Nat \ {0}] /\ f[0] = 1 /\ \A k \in 1 .. m - 1 : f[k] = 2 * f[k - 1]
  BY <1>6 DEF IsPowers
<1>8. g \in [0 .. m -> Nat \ {0}] /\ g[0] = 1
  BY <1>4, <1>7
<1>9. ASSUME NEW k \in 1 .. m PROVE g[k] = 2 * g[k - 1]
  <2>1. g[k - 1] = f[k - 1]
    BY <1>4
  <2>2. CASE k = m
    BY <1>4, <2>1, <2>2
  <2>3. CASE k # m
    BY <1>4, <1>7, <2>1, <2>3
  <2>4. QED
    BY <2>2, <2>3
<1> HIDE DEF g
<1>10. IsPowers(g, m)
  BY <1>8, <1>9 DEF IsPowers
<1>11. QED
  BY <1>10

(* Two such tables agree, so the recursive definition is one. *)
LEMMA PowersUnique ==
  ASSUME NEW n \in Nat, NEW f, NEW g, IsPowers(f, n),
         g = [k \in 0 .. n |-> IF k = 0 THEN 1 ELSE 2 * g[k - 1]]
  PROVE  g = f
<1>1. f \in [0 .. n -> Nat \ {0}] /\ f[0] = 1 /\ \A k \in 1 .. n : f[k] = 2 * f[k - 1]
  BY DEF IsPowers
<1>2. DOMAIN g = 0 .. n /\ g[0] = 1 /\ \A k \in 1 .. n : g[k] = 2 * g[k - 1]
  OBVIOUS
<1> DEFINE T == {k \in 0 .. n : g[k] # f[k]}
<1>3. T = {}
  <2> SUFFICES ASSUME T # {} PROVE FALSE
    OBVIOUS
  <2>1. T \subseteq Nat
    OBVIOUS
  <2>2. PICK m \in T : \A k \in T : ~(<<k, m>> \in OpToRel(<, Nat))
    BY <2>1, NatLessThanWellFounded, WFMin, Zenon
  <2>3. \A k \in T : ~(k < m)
    BY <2>1, <2>2, Zenon DEF OpToRel
  <2>4. m \in 1 .. n /\ m - 1 \in 0 .. n /\ m - 1 < m
    BY <1>1, <1>2
  <2>5. g[m - 1] = f[m - 1]
    BY <2>3, <2>4
  <2>6. QED
    BY <1>1, <1>2, <2>4, <2>5
<1>4. \A k \in 0 .. n : g[k] = f[k]
  BY <1>3
<1>5. g = [k \in 0 .. n |-> g[k]] /\ f = [k \in 0 .. n |-> f[k]]
  BY <1>1
<1>6. QED
  BY <1>4, <1>5

LEMMA PowerOfTwoIs == IsPowers(PowerOfTwo, MaxAttempts)
<1> DEFINE n == MaxAttempts
<1>1. PICK f : IsPowers(f, n)
  BY PowersExist
<1>2. f = [k \in 0 .. n |-> IF k = 0 THEN 1 ELSE 2 * f[k - 1]]
  BY <1>1 DEF IsPowers
<1>3. PowerOfTwo = [k \in 0 .. n |-> IF k = 0 THEN 1 ELSE 2 * PowerOfTwo[k - 1]]
  BY <1>2, Zenon DEF PowerOfTwo
<1>4. PowerOfTwo = f
  BY <1>1, <1>3, PowersUnique
<1>5. QED
  BY <1>1, <1>4

LEMMA BackoffStep == TypeOK /\ BackoffExact /\ [Next]_vars => BackoffExact'
<1> SUFFICES ASSUME TypeOK, BackoffExact, [Next]_vars PROVE BackoffExact'
  OBVIOUS
<1> DEFINE Exact(k) == BaseDelay * PowerOfTwo[k]
<1>0. /\ PowerOfTwo \in [0 .. MaxAttempts -> Nat \ {0}] /\ PowerOfTwo[0] = 1
      /\ \A k \in 1 .. MaxAttempts : PowerOfTwo[k] = 2 * PowerOfTwo[k - 1]
  BY PowerOfTwoIs DEF IsPowers
<1>1. CASE ReconnectFail
  <2>1. /\ attempt \in Nat /\ attempt < MaxAttempts /\ attempt' = attempt + 1
        /\ delay' = IF 2 * delay > MaxDelay THEN MaxDelay ELSE 2 * delay
    BY <1>1 DEF ReconnectFail, TypeOK
  <2>2. attempt + 1 \in 1 .. MaxAttempts /\ attempt \in 0 .. MaxAttempts /\ attempt + 1 - 1 = attempt
    BY <2>1
  <2>3. PowerOfTwo[attempt + 1] = 2 * PowerOfTwo[attempt] /\ PowerOfTwo[attempt] \in Nat
    BY <1>0, <2>2
  <2>4. Exact(attempt + 1) = 2 * Exact(attempt) /\ Exact(attempt) \in Nat
    BY <2>3
  <2>5. delay = IF Exact(attempt) > MaxDelay THEN MaxDelay ELSE Exact(attempt)
    BY DEF BackoffExact
  <2> HIDE DEF Exact
  <2>6. delay' = IF Exact(attempt + 1) > MaxDelay THEN MaxDelay ELSE Exact(attempt + 1)
    BY <2>1, <2>4, <2>5
  <2>7. QED
    BY <2>1, <2>6 DEF BackoffExact, Exact
<1>2. CASE ReconnectSuccess
  <2>1. attempt' = 0 /\ delay' = BaseDelay
    BY <1>2 DEF ReconnectSuccess
  <2>2. BaseDelay * PowerOfTwo[0] = BaseDelay
    BY <1>0
  <2>3. QED
    BY <2>1, <2>2 DEF BackoffExact
<1>3. CASE UNCHANGED << attempt, delay >>
  BY <1>3 DEF BackoffExact
<1>4. QED
  BY <1>1, <1>2, <1>3
     DEF Next, Enqueue, EnqueueFull, Dequeue, UpdateConnection, Publish, Tick, vars,
         backoffVars

(* net_resilience_report_reconnect_fail() doubles the delay from the base  *)
(* up to the cap, exactly, for every base, cap and number of failures.     *)
THEOREM BackoffIsExact == Spec => []BackoffExact
<1>1. Init => BackoffExact
  <2> SUFFICES ASSUME Init PROVE BackoffExact
    OBVIOUS
  <2>1. attempt = 0 /\ delay = BaseDelay
    BY DEF Init
  <2>2. BaseDelay * PowerOfTwo[0] = BaseDelay
    BY PowerOfTwoIs DEF IsPowers
  <2>3. QED
    BY <2>1, <2>2 DEF BackoffExact
<1>2. Spec => []TypeOK
  BY TypeCorrect
<1>3. QED
  BY <1>1, <1>2, BackoffStep, PTL DEF Spec
=============================================================================
