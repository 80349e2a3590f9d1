------------------------------ MODULE HubProofs ------------------------------
(***************************************************************************)
(* Proofs about the hub's data path, for every size of the history and of  *)
(* the ring, every gap between two polls and every sequence of readings.   *)
(* HubIngestion: the rolling history of a metric implements RecentLog, the *)
(* gates cut off a stuck sensor and no other, and the rules do not         *)
(* contradict each other.  Historian: what is read back is what was        *)
(* written last, and only old records are evicted.                         *)
(***************************************************************************)
EXTENDS HubIngestion, Historian, SequenceTheorems, WellFoundedInduction, TLAPS

USE GateAssumption

(* The slot of the j-th oldest entry of a ring. *)
Place(index, held, j) ==
  IF index - held + j - 1 >= 0 THEN index - held + j - 1
  ELSE index - held + j - 1 + HistorySize

Position(h, j) == Place(h.index, h.count, j)

LEMMA PlaceOfNewest ==
  ASSUME NEW i \in 0 .. HistorySize - 1, NEW n \in 1 .. HistorySize
  PROVE  Place(NextSlot(i), n, n) = i
BY DEF Place, NextSlot

LEMMA PlaceWhileFilling ==
  ASSUME NEW i \in 0 .. HistorySize - 1, NEW n \in 0 .. HistorySize - 1, NEW j \in 1 .. n
  PROVE  Place(NextSlot(i), n + 1, j) = Place(i, n, j) /\ Place(i, n, j) # i
BY DEF Place, NextSlot

LEMMA PlaceWhenFull ==
  ASSUME NEW i \in 0 .. HistorySize - 1, NEW j \in 1 .. HistorySize - 1
  PROVE  /\ Place(NextSlot(i), HistorySize, j) = Place(i, HistorySize, j + 1)
         /\ Place(i, HistorySize, j + 1) # i
BY DEF Place, NextSlot

(* The history h holds the newest readings of s, and its write index is    *)
(* its count while it is filling.                                          *)
HoldsNewest(h, s) ==
  /\ h.count = IF Len(s) < HistorySize THEN Len(s) ELSE HistorySize
  /\ h.count < HistorySize => h.index = h.count
  /\ \A j \in 1 .. h.count : h.ring[Position(h, j)] = s[Len(s) - h.count + j]

LEMMA EmptyHoldsNewest == EmptyHistory \in History /\ HoldsNewest(EmptyHistory, << >>)
<1>1. [value |-> 0, at |-> 0] \in Reading
  BY DEF Reading
<1>2. EmptyHistory \in History
  BY <1>1 DEF EmptyHistory, History
<1>3. EmptyHistory.count = 0 /\ EmptyHistory.index = 0
  BY DEF EmptyHistory
<1>4. QED
  BY <1>2, <1>3 DEF HoldsNewest

LEMMA PositionInRing ==
  ASSUME NEW h \in History, NEW j \in 1 .. h.count
  PROVE  Position(h, j) \in 0 .. HistorySize - 1
<1>1. h.index \in 0 .. HistorySize - 1 /\ h.count \in 0 .. HistorySize
  BY DEF History
<1>2. QED
  BY <1>1 DEF Position, Place

(* sensor_history_record() adds the reading at the end and drops the       *)
(* oldest one of a ring that is full.                                      *)
LEMMA RecordHoldsNewest ==
  ASSUME NEW h \in History, NEW s \in Seq(Reading), HoldsNewest(h, s),
         NEW v \in Int, NEW t \in Nat
  PROVE  /\ Record(h, v, t) \in History
         /\ HoldsNewest(Record(h, v, t), Append(s, [value |-> v, at |-> t]))
<1> DEFINE e == [value |-> v, at |-> t]
           g == Record(h, v, t)
           q == Append(s, e)
<1>1. e \in Reading
  BY DEF Reading
<1>2. /\ h.index \in 0 .. HistorySize - 1 /\ h.count \in 0 .. HistorySize
      /\ h.ring \in [0 .. HistorySize - 1 -> Reading] /\ h.last \in Int /\ h.changed \in Nat
  BY DEF History
<1>3. /\ g.ring = [h.ring EXCEPT ![h.index] = e]
      /\ g.index = NextSlot(h.index)
      /\ g.count = IF h.count < HistorySize THEN h.count + 1 ELSE h.count
  BY DEF Record
<1>4. g \in History
  <2>1. g.ring \in [0 .. HistorySize - 1 -> Reading]
    BY <1>1, <1>2, <1>3
  <2>2. g.index \in 0 .. HistorySize - 1 /\ g.count \in 0 .. HistorySize
    BY <1>2, <1>3, SMTT(30) DEF NextSlot
  <2>3. g.last \in Int /\ g.changed \in Nat
    BY <1>2 DEF Record
  <2>4. g = [ring |-> g.ring, index |-> g.index, count |-> g.count,
             last |-> g.last, changed |-> g.changed]
    BY DEF Record
  <2> HIDE DEF g
  <2>5. QED
    BY <2>1, <2>2, <2>3, <2>4 DEF History
<1>5. q \in Seq(Reading) /\ Len(q) = Len(s) + 1 /\ Len(s) \in Nat
  BY <1>1
<1>6. \A i \in 1 .. Len(q) : q[i] = IF i = Len(s) + 1 THEN e ELSE s[i]
  BY <1>1, <1>5
<1> HIDE DEF e, g, q
<1>7. /\ g.count = IF Len(q) < HistorySize THEN Len(q) ELSE HistorySize
      /\ g.count < HistorySize => g.index = g.count
  BY <1>2, <1>3, <1>5 DEF HoldsNewest, NextSlot
<1>8. ASSUME NEW j \in 1 .. g.count
      PROVE  g.ring[Position(g, j)] = q[Len(q) - g.count + j]
  <2>1. CASE j = g.count
    <3>1. Position(g, j) = h.index
      <4>1. g.count \in 1 .. HistorySize
        BY <1>2, <1>3
      <4>2. QED
        BY <1>2, <1>3, <2>1, <4>1, PlaceOfNewest DEF Position
    <3>2. Len(q) - g.count + j = Len(s) + 1
      <4>1. g.count \in Int
        BY <1>2, <1>3
      <4>2. QED
        BY <1>5, <2>1, <4>1
    <3>3. q[Len(s) + 1] = e
      BY <1>5, <1>6
    <3>4. g.ring[h.index] = e
      BY <1>2, <1>3
    <3>5. QED
      BY <3>1, <3>2, <3>3, <3>4
  <2>2. CASE j # g.count
    <3> DEFINE i == IF h.count < HistorySize THEN j ELSE j + 1
    <3>1. i \in 1 .. h.count
      BY <1>2, <1>3, <2>2
    <3>2. Position(g, j) = Position(h, i) /\ Position(h, i) # h.index
      <4>1. CASE h.count < HistorySize
        <5>1. g.count = h.count + 1 /\ h.count \in 0 .. HistorySize - 1 /\ j \in 1 .. h.count
          BY <1>2, <1>3, <2>2, <4>1
        <5>2. QED
          BY <1>2, <1>3, <4>1, <5>1, PlaceWhileFilling DEF Position
      <4>2. CASE h.count = HistorySize
        <5>1. g.count = HistorySize /\ j \in 1 .. HistorySize - 1
          BY <1>2, <1>3, <2>2, <4>2
        <5>2. QED
          BY <1>2, <1>3, <4>2, <5>1, PlaceWhenFull DEF Position
      <4>3. QED
        BY <1>2, <4>1, <4>2
    <3>3. Len(q) - g.count + j = Len(s) - h.count + i
      <4>1. Len(q) = Len(s) + 1 /\ Len(s) \in Int /\ h.count \in Int /\ j \in Int
        BY <1>2, <1>3, <1>5
      <4>2. CASE h.count < HistorySize
        <5>1. g.count = h.count + 1 /\ i = j
          BY <1>3, <4>2
        <5> HIDE DEF i
        <5>2. QED
          BY <4>1, <5>1, SMTT(30)
      <4>3. CASE ~(h.count < HistorySize)
        <5>1. g.count = h.count /\ i = j + 1
          BY <1>3, <4>3
        <5> HIDE DEF i
        <5>2. QED
          BY <4>1, <5>1
      <4>4. QED
        BY <4>2, <4>3
    <3>4. Len(s) - h.count + i \in 1 .. Len(s)
      BY <1>2, <1>5, <3>1 DEF HoldsNewest
    <3> HIDE DEF i
    <3>5. q[Len(s) - h.count + i] = s[Len(s) - h.count + i]
      BY <1>5, <1>6, <3>4
    <3>6. Position(h, i) \in 0 .. HistorySize - 1
      BY <3>1, PositionInRing
    <3>7. g.ring[Position(h, i)] = h.ring[Position(h, i)]
      BY <1>2, <1>3, <3>2, <3>6
    <3>8. h.ring[Position(h, i)] = s[Len(s) - h.count + i]
      BY <3>1 DEF HoldsNewest
    <3>9. QED
      BY <3>2, <3>3, <3>5, <3>7, <3>8
  <2>3. QED
    BY <2>1, <2>2
<1>9. HoldsNewest(g, q)
  BY <1>7, <1>8 DEF HoldsNewest
<1>10. QED
  BY <1>4, <1>9 DEF e, g, q

(* What such a history holds is RecentLog's log. *)
LEMMA HeldIsNewest ==
  ASSUME NEW h \in History, NEW s \in Seq(Reading), HoldsNewest(h, s)
  PROVE  Held(h) = Recent!Newest(s)
<1>1. h.count \in 0 .. HistorySize /\ Len(s) \in Nat
  BY DEF History
<1> DEFINE m == IF Len(s) > HistorySize THEN Len(s) - HistorySize + 1 ELSE 1
<1>2. h.count = IF Len(s) < HistorySize THEN Len(s) ELSE HistorySize
  BY DEF HoldsNewest
<1>2a. m \in 1 .. Len(s) + 1 /\ m = Len(s) - h.count + 1 /\ Len(s) - m + 1 = h.count
  <2>1. \A n \in Nat : \A c \in Int :
          c = (IF n < HistorySize THEN n ELSE HistorySize) =>
            LET k == IF n > HistorySize THEN n - HistorySize + 1 ELSE 1
            IN  k \in 1 .. n + 1 /\ k = n - c + 1 /\ n - k + 1 = c
    OBVIOUS
  <2>2. h.count \in Int
    BY <1>1
  <2>3. QED
    BY <1>1, <1>2, <2>1, <2>2
<1>3. Recent!Newest(s) = SubSeq(s, m, Len(s))
  BY DEF Recent!Newest
<1> HIDE DEF m
<1>4. /\ SubSeq(s, m, Len(s)) \in Seq(Reading)
      /\ Len(SubSeq(s, m, Len(s))) = h.count
      /\ \A j \in 1 .. h.count : SubSeq(s, m, Len(s))[j] = s[m + j - 1]
  <2>1. \A k \in m .. Len(s) : s[k] \in Reading
    BY <1>1, <1>2a
  <2>2. m \in Int /\ Len(s) \in Int
    BY <1>1, <1>2a
  <2>3. /\ SubSeq(s, m, Len(s)) \in Seq(Reading)
        /\ Len(SubSeq(s, m, Len(s))) = IF m <= Len(s) THEN Len(s) - m + 1 ELSE 0
        /\ \A k \in 1 .. Len(s) - m + 1 : SubSeq(s, m, Len(s))[k] = s[m + k - 1]
    BY <2>1, <2>2, SubSeqProperties
  <2>4. m <= Len(s) \/ h.count = 0
    BY <1>1, <1>2a
  <2>5. QED
    BY <1>2a, <2>3, <2>4
<1>5. \A j \in 1 .. h.count : Position(h, j) \in 0 .. HistorySize - 1
  BY PositionInRing
<1>6. Held(h) = [j \in 1 .. h.count |-> h.ring[Position(h, j)]]
  BY DEF Held, Position, Place
<1>7. Held(h) \in Seq(Reading) /\ Len(Held(h)) = h.count
  <2>1. h.ring \in [0 .. HistorySize - 1 -> Reading]
    BY DEF History
  <2>2. Held(h) \in [1 .. h.count -> Reading]
    BY <1>5, <1>6, <2>1
  <2>3. QED
    BY <1>1, <2>2
<1>8. \A j \in 1 .. h.count : Held(h)[j] = SubSeq(s, m, Len(s))[j]
  <2> TAKE j \in 1 .. h.count
  <2>1. Held(h)[j] = s[Len(s) - h.count + j]
    BY <1>6 DEF HoldsNewest
  <2>2. m + j - 1 = Len(s) - h.count + j
    BY <1>1, <1>2a, SMTT(30)
  <2>3. QED
    BY <1>4, <2>1, <2>2
<1> DEFINE newest == SubSeq(s, m, Len(s))
<1>9. /\ newest \in Seq(Reading) /\ Len(Held(h)) = Len(newest)
      /\ \A j \in 1 .. Len(Held(h)) : Held(h)[j] = newest[j]
  BY <1>4, <1>7, <1>8
<1> HIDE DEF newest
<1>10. Held(h) = newest
  BY <1>7, <1>9, SeqEqual
<1>11. QED
  BY <1>3, <1>10 DEF newest

-----------------------------------------------------------------------------

(* The readings added to the history of the followed metric. *)
Added == IF Gated THEN stored ELSE << >>

HistInv ==
  /\ \E f \in Followed : profile = f[1] /\ metric = f[2]
  /\ now \in Nat \ {0}
  /\ hist \in History
  /\ stored \in Seq(Reading)
  /\ \A j \in DOMAIN stored : stored[j].at > 0
  /\ HoldsNewest(hist, Added)

LEMMA HistInit == Init => HistInv
<1> SUFFICES ASSUME Init PROVE HistInv
  OBVIOUS
<1>1. hist = EmptyHistory /\ stored = << >> /\ now = 1
  BY DEF Init
<1>2. Added = << >>
  BY <1>1 DEF Added
<1>3. \E f \in Followed : profile = f[1] /\ metric = f[2]
  BY DEF Init
<1>4. QED
  BY <1>1, <1>2, <1>3, EmptyHoldsNewest DEF HistInv

LEMMA GatedUnchanged ==
  ASSUME UNCHANGED << profile, metric >>
  PROVE  Gated' = Gated
BY DEF Gated

LEMMA AcceptStep ==
  ASSUME HistInv, NEW v \in Int, AcceptEntry(v)
  PROVE  /\ HistInv'
         /\ Gated => Added' = Append(Added, [value |-> v, at |-> now])
         /\ ~Gated => UNCHANGED << hist, Added >>
<1> DEFINE e == [value |-> v, at |-> now]
<1>1. /\ hist' = IF Gated THEN Record(hist, v, now) ELSE hist
      /\ stored' = Append(stored, e)
      /\ UNCHANGED << profile, metric, now >>
  BY DEF AcceptEntry
<1>2. e \in Reading /\ e.at > 0
  BY DEF HistInv, Reading
<1>3. Gated' = Gated
  BY <1>1, GatedUnchanged
<1> HIDE DEF e
<1>4. stored' \in Seq(Reading) /\ \A j \in DOMAIN stored' : stored'[j].at > 0
  <2>1. stored \in Seq(Reading)
    BY DEF HistInv
  <2>2. \A j \in DOMAIN stored' : (j \in DOMAIN stored /\ stored'[j] = stored[j]) \/ stored'[j] = e
    BY <1>1, <1>2, <2>1
  <2>3. QED
    BY <1>1, <1>2, <2>1, <2>2 DEF HistInv
<1>5. CASE Gated
  <2>1. Added = stored /\ Added' = Append(stored, e)
    BY <1>1, <1>3, <1>5 DEF Added
  <2>2. hist' = Record(hist, v, now)
    BY <1>1, <1>5
  <2>3. hist' \in History /\ HoldsNewest(hist', Append(stored, e))
    BY <2>1, <2>2, RecordHoldsNewest DEF HistInv, e
  <2>4. HistInv'
    BY <1>1, <1>4, <2>1, <2>3 DEF HistInv
  <2>5. QED
    BY <1>5, <2>1, <2>4 DEF e
<1>6. CASE ~Gated
  <2>1. hist' = hist /\ Added = << >> /\ Added' = << >>
    BY <1>1, <1>3, <1>6 DEF Added
  <2>2. QED
    BY <1>1, <1>4, <1>6, <2>1 DEF HistInv
<1>7. QED
  BY <1>5, <1>6

LEMMA ResetStep ==
  ASSUME HistInv, ResetHistory
  PROVE  HistInv' /\ Added' = << >>
<1>1. hist' = EmptyHistory /\ stored' = << >> /\ UNCHANGED << profile, metric, now >>
  BY DEF ResetHistory
<1>2. Added' = << >>
  BY <1>1 DEF Added
<1>3. QED
  BY <1>1, <1>2, EmptyHoldsNewest DEF HistInv

(* A step of the hub, as the history sees it. *)
LEMMA HistCases ==
  ASSUME HistInv, [Next]_vars
  PROVE  \/ \E v \in Int : AcceptEntry(v)
         \/ ResetHistory
         \/ UNCHANGED << profile, metric, hist, stored >> /\ now' \in Nat \ {0} /\ now' >= now
<1>1. PICK f \in Followed : profile = f[1] /\ metric = f[2]
  BY DEF HistInv
<1>2. Gaps(profile, metric) \subseteq Nat /\ Samples(profile, metric) \subseteq Int
  BY <1>1, HubAssumption
<1>3. ASSUME NEW gap \in Gaps(profile, metric), NEW n \in 0 .. MaxFrame, Poll(gap, n)
      PROVE  UNCHANGED << profile, metric, hist, stored >> /\ now' \in Nat \ {0} /\ now' >= now
  <2>1. gap \in Nat
    BY <1>2
  <2>2. QED
    BY <1>3, <2>1 DEF Poll, HistInv
<1>4. ASSUME NEW v \in Samples(profile, metric), RejectEntry(v)
      PROVE  UNCHANGED << profile, metric, hist, stored >> /\ now' \in Nat \ {0} /\ now' >= now
  BY <1>4 DEF RejectEntry, HistInv
<1>5. CASE UNCHANGED vars
  BY <1>5 DEF vars, HistInv
<1>6. ASSUME NEW v \in Samples(profile, metric), AcceptEntry(v)
      PROVE  \E w \in Int : AcceptEntry(w)
  BY <1>2, <1>6
<1>7. QED
  BY <1>3, <1>4, <1>5, <1>6 DEF Next

LEMMA HistStep == HistInv /\ [Next]_vars => HistInv'
<1> SUFFICES ASSUME HistInv, [Next]_vars PROVE HistInv'
  OBVIOUS
<1>1. CASE UNCHANGED << profile, metric, hist, stored >> /\ now' \in Nat \ {0} /\ now' >= now
  BY <1>1 DEF HistInv, Added, Gated
<1>2. QED
  BY <1>1, AcceptStep, ResetStep, HistCases

LEMMA HistCorrect == Spec => []HistInv
BY HistInit, HistStep, PTL DEF Spec

LEMMA LogInit == Init => Recent!Init
<1> SUFFICES ASSUME Init PROVE Added = << >> /\ Held(hist) = << >>
  BY DEF Recent!Init, Added
<1>1. hist = EmptyHistory /\ Added = << >>
  BY DEF Init, Added
<1>2. QED
  BY <1>1 DEF Held, EmptyHistory

LEMMA LogStep ==
  HistInv /\ HistInv' /\ [Next]_vars => [Recent!Next]_<< Added, Held(hist) >>
<1> SUFFICES ASSUME HistInv, HistInv', [Next]_vars
             PROVE  Recent!Next \/ UNCHANGED << Added, Held(hist) >>
  OBVIOUS
<1>0. Held(hist') = Recent!Newest(Added')
  <2>1. hist' \in History /\ Added' \in Seq(Reading) /\ HoldsNewest(hist', Added')
    BY DEF HistInv, Added
  <2>2. QED
    BY <2>1, HeldIsNewest
<1>1. ASSUME NEW v \in Int, AcceptEntry(v)
      PROVE  Recent!Next \/ UNCHANGED << Added, Held(hist) >>
  <2> DEFINE e == [value |-> v, at |-> now]
  <2>1. CASE Gated
    <3>1. Added' = Append(Added, e) /\ Added \in Seq(Reading) /\ e \in Reading
      BY <1>1, <2>1, AcceptStep DEF HistInv, Added, Reading
    <3> HIDE DEF e
    <3>2. Added' # << >> /\ Added'[Len(Added')] = e
      BY <3>1
    <3>3. QED
      BY <1>0, <3>1, <3>2 DEF Recent!Next, Recent!Add, Added
  <2>2. CASE ~Gated
    <3>1. UNCHANGED << hist, Added >>
      BY <1>1, <2>2, AcceptStep
    <3>2. Held(hist)' = Held(hist)
      BY <3>1 DEF Held
    <3>3. QED
      BY <3>1, <3>2
  <2>3. QED
    BY <2>1, <2>2
<1>2. CASE ResetHistory
  <2>1. Added' = << >>
    BY <1>2, ResetStep
  <2>2. hist' = EmptyHistory
    BY <1>2 DEF ResetHistory
  <2>3. Held(hist)' = << >>
    BY <2>2 DEF Held, EmptyHistory
  <2>4. QED
    BY <2>1, <2>3 DEF Recent!Next, Recent!Reset, Added
<1>3. CASE UNCHANGED << profile, metric, hist, stored >>
  BY <1>3 DEF Added, Gated, Held
<1>4. QED
  BY <1>1, <1>2, <1>3, HistCases

(* The refinement: the ring of sensor_history_record() is a log of the     *)
(* newest readings that passed, for every SENSOR_HISTORY_SIZE and however  *)
(* often the write index wraps.                                            *)
THEOREM HistoryRefines == Spec => HistoryIsRecentLog
<1>1. HistInv /\ HistInv' /\ [Next]_vars
        => [Recent!Next]_<< IF Gated THEN stored ELSE << >>, Held(hist) >>
  BY LogStep DEF Added
<1>2. QED
  BY <1>1, HistCorrect, LogInit, PTL DEF Spec, HistoryIsRecentLog, Recent!Spec

-----------------------------------------------------------------------------

(* Every bound of the four profiles has a range, a rate and a timeout. *)
BoundsOK(b) == b.lo \in Int /\ b.hi \in Int /\ b.rate \in Nat \ {0} /\ b.stuck \in Nat

LEMMA AllBoundsOK ==
  ASSUME NEW p \in ProfileIds, NEW m \in DOMAIN Profiles[p].bounds
  PROVE  BoundsOK(Profiles[p].bounds[m])
<1>1. p \in {"HOME", "AGRICULTURE", "HVAC", "WATER_TREATMENT"}
  BY DEF ProfileIds, Profiles
<1>2. \A k \in DOMAIN HomeBounds : BoundsOK(HomeBounds[k])
  BY DEF HomeBounds, Bounds, BoundsOK
<1>3. \A k \in DOMAIN AgricultureBounds : BoundsOK(AgricultureBounds[k])
  BY DEF AgricultureBounds, Bounds, BoundsOK
<1>4. \A k \in DOMAIN HvacBounds : BoundsOK(HvacBounds[k])
  BY DEF HvacBounds, Bounds, BoundsOK
<1>5. \A k \in DOMAIN WaterBounds : BoundsOK(WaterBounds[k])
  BY DEF WaterBounds, Bounds, BoundsOK
<1>6. /\ p = "HOME" => Profiles[p].bounds = HomeBounds
      /\ p = "AGRICULTURE" => Profiles[p].bounds = AgricultureBounds
      /\ p = "HVAC" => Profiles[p].bounds = HvacBounds
      /\ p = "WATER_TREATMENT" => Profiles[p].bounds = WaterBounds
  BY DEF Profiles
<1>7. QED
  BY <1>1, <1>2, <1>3, <1>4, <1>5, <1>6

LEMMA GatedBounds ==
  ASSUME HistInv, Gated
  PROVE  BoundsOK(MetricBounds)
<1>1. profile \in ProfileIds
  BY HubAssumption DEF HistInv
<1>2. metric \in DOMAIN Profiles[profile].bounds
  BY DEF Gated
<1>3. QED
  BY <1>1, <1>2, AllBoundsOK DEF MetricBounds

(* The entry the rate is taken against is the one SENSOR_HISTORY_SIZE      *)
(* before the new reading, or its predecessor while the ring is filling.   *)
LEMMA ComparedIs ==
  ASSUME NEW h \in History, NEW s \in Seq(Reading), HoldsNewest(h, s), h.count > 0
  PROVE  /\ Len(s) > 0
         /\ Compared(h) = s[IF Len(s) + 1 > HistorySize THEN Len(s) + 1 - HistorySize
                            ELSE Len(s)]
<1>1. /\ h.index \in 0 .. HistorySize - 1 /\ h.count \in 0 .. HistorySize
      /\ Len(s) \in Nat
  BY DEF History
<1>2. /\ h.count = IF Len(s) < HistorySize THEN Len(s) ELSE HistorySize
      /\ h.count < HistorySize => h.index = h.count
      /\ \A j \in 1 .. h.count : h.ring[Place(h.index, h.count, j)] = s[Len(s) - h.count + j]
  BY DEF HoldsNewest, Position
<1>3. Len(s) > 0
  BY <1>1, <1>2
<1>4. CASE h.count = HistorySize
  <2>1. Place(h.index, HistorySize, 1) = h.index
    <3>1. \A i \in 0 .. HistorySize - 1 : Place(i, HistorySize, 1) = i
      BY DEF Place
    <3>2. QED
      BY <1>1, <3>1
  <2>2. Compared(h) = h.ring[h.index]
    BY <1>4 DEF Compared
  <2>3. h.ring[h.index] = s[Len(s) - HistorySize + 1]
    <3>1. 1 \in 1 .. h.count
      BY <1>4
    <3>2. QED
      BY <1>2, <1>4, <2>1, <3>1
  <2>4. \A n \in Nat : n - HistorySize + 1 = n + 1 - HistorySize
    OBVIOUS
  <2>5. Len(s) + 1 > HistorySize
    BY <1>1, <1>2, <1>4
  <2>6. QED
    BY <1>1, <1>3, <2>2, <2>3, <2>4, <2>5
<1>5. CASE h.count < HistorySize
  <2>1. h.index = h.count /\ h.count = Len(s) /\ ~(Len(s) + 1 > HistorySize)
    BY <1>1, <1>2, <1>5
  <2>2. Place(h.index, h.count, h.count) = h.count - 1
    <3>1. \A i \in 1 .. HistorySize : Place(i, i, i) = i - 1
      BY DEF Place
    <3>2. h.count \in 1 .. HistorySize
      BY <1>1
    <3>3. QED
      BY <2>1, <3>1, <3>2
  <2>3. Compared(h) = h.ring[h.count - 1]
    BY <1>1, <1>5 DEF Compared
  <2>4. h.ring[h.count - 1] = s[Len(s) - h.count + h.count]
    <3>1. h.count \in 1 .. h.count
      BY <1>1
    <3>2. QED
      BY <1>2, <2>2, <3>1
  <2>5. Len(s) - h.count + h.count = Len(s)
    BY <1>1
  <2>6. QED
    BY <1>3, <2>1, <2>3, <2>4, <2>5
<1>6. QED
  BY <1>1, <1>4, <1>5

(* Two readings of which the second is within a rate of the first. *)
RateKept(p, q, rate) ==
  q.at > p.at => Distance(q.value, p.value) <= rate * (q.at - p.at)

(* The j-th reading of s and the one the rate check compared it with. *)
Reference(j) == IF j > HistorySize THEN j - HistorySize ELSE j - 1

WithinRate(s, j, rate) == RateKept(s[Reference(j)], s[j], rate)

LEMMA DriftAccept ==
  ASSUME HistInv, DriftBounded, Gated, NEW v \in Int, AcceptEntry(v)
  PROVE  \A j \in 2 .. Len(stored') : WithinRate(stored', j, MetricBounds.rate)
<1> DEFINE e == [value |-> v, at |-> now]
           rate == MetricBounds.rate
           n == Len(stored)
<1>1. /\ stored' = Append(stored, e) /\ stored \in Seq(Reading) /\ e \in Reading
      /\ SensorValid(hist, MetricBounds, v, now)
  BY DEF AcceptEntry, Accepts, HistInv, Reading
<1>2. rate \in Nat \ {0}
  BY GatedBounds DEF BoundsOK
<1>3. e.value = v /\ e.at = now
  OBVIOUS
<1> HIDE DEF e, rate
<1>4. n \in Nat /\ Len(stored') = n + 1 /\ stored'[n + 1] = e
  BY <1>1
<1>5. \A i \in 1 .. n : stored'[i] = stored[i]
  BY <1>1
<1> HIDE DEF n
<1>6. ASSUME NEW j \in 2 .. n PROVE WithinRate(stored', j, rate)
  <2> DEFINE i == Reference(j)
  <2>1. i \in 1 .. n /\ j \in 1 .. n
    BY <1>4 DEF Reference
  <2>2. stored'[i] = stored[i] /\ stored'[j] = stored[j]
    BY <1>5, <2>1
  <2>3. WithinRate(stored, j, rate)
    BY DEF DriftBounded, WithinRate, RateKept, Reference, rate, n
  <2>4. QED
    BY <2>2, <2>3 DEF WithinRate
<1>7. ASSUME n + 1 >= 2 PROVE WithinRate(stored', n + 1, rate)
  <2> DEFINE i == IF n + 1 > HistorySize THEN n + 1 - HistorySize ELSE n
  <2>1. hist \in History /\ HoldsNewest(hist, stored)
    BY DEF HistInv, Added
  <2>2. hist.count > 0
    BY <1>4, <1>7, <2>1 DEF HoldsNewest, n
  <2>3. Compared(hist) = stored[i]
    BY <1>1, <2>1, <2>2, ComparedIs DEF n
  <2>4. i \in 1 .. n
    BY <1>4, <1>7
  <2>5. Reference(n + 1) = i
    BY <1>4 DEF Reference
  <2> HIDE DEF i
  <2>6. ~RateExceeded(hist, MetricBounds, v, now)
    BY <1>1, <2>2 DEF SensorValid
  <2>7. stored[i] \in Reading /\ stored[i].at > 0
    BY <1>1, <2>4 DEF HistInv, n
  <2>8. stored[i].at \in Nat /\ stored[i].value \in Int /\ now \in Nat
    BY <2>7 DEF Reading, HistInv
  <2>9. now > stored[i].at => Distance(v, stored[i].value) <= rate * (now - stored[i].at)
    <3>1. Distance(v, stored[i].value) \in Int
      BY <2>8 DEF Distance
    <3>2. rate * (now - stored[i].at) \in Int
      BY <1>2, <2>8
    <3>3. now > stored[i].at => ~(Distance(v, stored[i].value) > rate * (now - stored[i].at))
      BY <1>2, <2>3, <2>6, <2>7 DEF RateExceeded, rate
    <3>4. QED
      BY <3>1, <3>2, <3>3
  <2>10. stored'[i] = stored[i] /\ stored'[n + 1] = e
    BY <1>4, <1>5, <2>4
  <2>11. RateKept(stored[i], e, rate)
    BY <1>3, <2>9 DEF RateKept
  <2>12. QED
    BY <2>5, <2>10, <2>11 DEF WithinRate
<1>8. QED
  BY <1>4, <1>6, <1>7 DEF rate

LEMMA DriftStep == HistInv /\ DriftBounded /\ [Next]_vars => DriftBounded'
<1> SUFFICES ASSUME HistInv, DriftBounded, [Next]_vars PROVE DriftBounded'
  OBVIOUS
<1>1. ASSUME NEW v \in Int, AcceptEntry(v) PROVE DriftBounded'
  <2>1. Gated' = Gated /\ MetricBounds' = MetricBounds
    BY <1>1 DEF AcceptEntry, Gated, MetricBounds
  <2>2. CASE Gated
    <3>1. \A j \in 2 .. Len(stored') : WithinRate(stored', j, MetricBounds.rate)
      BY <1>1, <2>2, DriftAccept
    <3>2. QED
      BY <2>1, <3>1 DEF DriftBounded, WithinRate, RateKept, Reference
  <2>3. CASE ~Gated
    BY <2>1, <2>3 DEF DriftBounded
  <2>4. QED
    BY <2>2, <2>3
<1>2. CASE ResetHistory
  <2>1. stored' = << >>
    BY <1>2 DEF ResetHistory
  <2>2. QED
    BY <2>1 DEF DriftBounded
<1>3. CASE UNCHANGED << profile, metric, hist, stored >>
  BY <1>3 DEF DriftBounded, Gated, MetricBounds
<1>4. QED
  BY <1>1, <1>2, <1>3, HistCases

(* The rate check of sensorValidate() bounds the drift over a window of    *)
(* SENSOR_HISTORY_SIZE readings, with the bounds of all four profiles.     *)
THEOREM DriftIsBounded == Spec => []DriftBounded
<1>1. Init => DriftBounded
  BY DEF Init, DriftBounded
<1>2. QED
  BY <1>1, HistCorrect, DriftStep, PTL DEF Spec

-----------------------------------------------------------------------------
(***************************************************************************)
(* Induction over the natural numbers, with a set in the place of the      *)
(* predicate, and the recursive functions it justifies.                    *)
(***************************************************************************)

LEMMA LeastNatural ==
  ASSUME NEW T, T \subseteq Nat, T # {}
  PROVE  \E m \in T : \A k \in T : m <= k
<1>1. PICK m \in T : \A k \in T : ~(<<k, m>> \in OpToRel(<, Nat))
  BY NatLessThanWellFounded, WFMin, Zenon
<1>2. \A k \in T : ~(k < m)
  BY <1>1, Zenon DEF OpToRel
<1>3. QED
  BY <1>2

LEMMA SetInduction ==
  ASSUME NEW P, 0 \in P, \A n \in Nat : n \in P => n + 1 \in P
  PROVE  Nat \subseteq P
<1> SUFFICES ASSUME Nat \ P # {} PROVE FALSE
  OBVIOUS
<1>1. PICK m \in Nat \ P : \A k \in Nat \ P : m <= k
  BY LeastNatural
<1>2. m # 0 /\ m - 1 \in Nat
  BY <1>1
<1>3. m - 1 \in P
  BY <1>1, <1>2
<1>4. QED
  BY <1>1, <1>2, <1>3

(* f is the function on 0 .. n defined by its value at 0 and a step. *)
IsRecursion(f, n, S, start, step) ==
  /\ f \in [0 .. n -> S]
  /\ f[0] = start
  /\ \A k \in 1 .. n : f[k] = step[k][f[k - 1]]

LEMMA FiniteRecursion ==
  ASSUME NEW n \in Nat, NEW S, NEW start \in S, NEW step \in [Nat -> [S -> S]]
  PROVE  \E f : IsRecursion(f, n, S, start, step)
<1> DEFINE P == {m \in Nat : \E f : IsRecursion(f, m, S, start, step)}
<1>1. 0 \in P
  <2>1. IsRecursion([i \in 0 .. 0 |-> start], 0, S, start, step)
    BY DEF IsRecursion
  <2>2. QED
    BY <2>1
<1>2. ASSUME NEW m \in Nat, m \in P PROVE m + 1 \in P
  <2>1. PICK f : IsRecursion(f, m, S, start, step)
    BY <1>2
  <2> DEFINE g == [i \in 0 .. m + 1 |-> IF i = m + 1 THEN step[m + 1][f[m]] ELSE f[i]]
  <2>2. f \in [0 .. m -> S] /\ f[0] = start /\ \A k \in 1 .. m : f[k] = step[k][f[k - 1]]
    BY <2>1 DEF IsRecursion
  <2>3. m + 1 \in Nat /\ f[m] \in S /\ step[m + 1][f[m]] \in S
    BY <2>2
  <2>4. g \in [0 .. m + 1 -> S] /\ g[0] = start
    BY <2>2, <2>3
  <2>5. ASSUME NEW k \in 1 .. m + 1 PROVE g[k] = step[k][g[k - 1]]
    <3>1. g[k - 1] = f[k - 1]
      OBVIOUS
    <3>2. CASE k = m + 1
      BY <3>1, <3>2
    <3>3. CASE k # m + 1
      BY <2>2, <3>1, <3>3
    <3>4. QED
      BY <3>2, <3>3
  <2> HIDE DEF g
  <2>6. IsRecursion(g, m + 1, S, start, step)
    BY <2>4, <2>5 DEF IsRecursion
  <2>7. QED
    BY <2>3, <2>6
<1>3. n \in P
  <2> HIDE DEF P
  <2>1. QED
    BY <1>1, <1>2, SetInduction
<1>4. QED
  BY <1>3

-----------------------------------------------------------------------------
(* The rule engine. *)

Commands(p) == [actuator : Profiles[p].actuators, state : {"ON", "OFF"}]

(* The commands rule_engine_evaluate() may put in results[]. *)
Issued(p, m, v) ==
  {Command(Profiles[p].rules[i], v) :
     i \in {k \in DOMAIN Profiles[p].rules : Triggered(Profiles[p].rules[k], m, v)}}

(* Every one of its results is the command of a rule that triggered. *)
LEMMA EvaluateIssues ==
  ASSUME NEW p, NEW m, NEW v, NEW R, Profiles[p].rules \in Seq(R)
  PROVE  Evaluate(p, m, v) \in Seq(Issued(p, m, v))
<1> DEFINE rules == Profiles[p].rules
           n == Len(rules)
           C == Issued(p, m, v)
           turn(k, s) == IF Triggered(rules[k], m, v) /\ Len(s) < MaxActions
                         THEN Append(s, Command(rules[k], v)) ELSE s
           results[k \in 0 .. n] ==
             IF k = 0 THEN << >>
             ELSE IF Triggered(rules[k], m, v) /\ Len(results[k - 1]) < MaxActions
                    THEN Append(results[k - 1], Command(rules[k], v))
                    ELSE results[k - 1]
<1>1. Evaluate(p, m, v) = results[n]
  BY Zenon DEF Evaluate
<1>2. n \in Nat /\ DOMAIN rules = 1 .. n
  OBVIOUS
<1>3. ASSUME NEW k \in 1 .. n, NEW s \in Seq(C) PROVE turn(k, s) \in Seq(C)
  <2>1. Triggered(rules[k], m, v) => Command(rules[k], v) \in C
    BY <1>2 DEF Issued
  <2> HIDE DEF C
  <2>2. QED
    BY <2>1
<1> HIDE DEF rules, C, n
<1> DEFINE step == [k \in Nat |-> [s \in Seq(C) |-> IF k \in 1 .. n THEN turn(k, s) ELSE s]]
<1>4. step \in [Nat -> [Seq(C) -> Seq(C)]]
  <2> HIDE DEF turn
  <2>1. QED
    BY <1>3
<1>5. \A k \in 1 .. n, s \in Seq(C) : step[k][s] = turn(k, s)
  <2> HIDE DEF turn
  <2>1. QED
    BY <1>2
<1> HIDE DEF step
<1>6. PICK f \in [0 .. n -> Seq(C)] :
        f[0] = << >> /\ \A k \in 1 .. n : f[k] = step[k][f[k - 1]]
  <2>1. << >> \in Seq(C)
    OBVIOUS
  <2>2. \E f : IsRecursion(f, n, Seq(C), << >>, step)
    BY <1>2, <1>4, <2>1, FiniteRecursion, Zenon
  <2>3. QED
    BY <2>2, Zenon DEF IsRecursion
<1>7. f = [k \in 0 .. n |-> IF k = 0 THEN << >> ELSE turn(k, f[k - 1])]
  <2> HIDE DEF turn
  <2>1. ASSUME NEW k \in 1 .. n PROVE f[k - 1] \in Seq(C) /\ f[k] = turn(k, f[k - 1])
    <3>1. k - 1 \in 0 .. n
      BY <1>2
    <3>2. f[k - 1] \in Seq(C)
      BY <3>1
    <3>3. QED
      BY <1>5, <1>6, <3>2
  <2>2. QED
    BY <1>2, <1>6, <2>1
<1>8. results = [k \in 0 .. n |-> IF k = 0 THEN << >> ELSE turn(k, results[k - 1])]
  BY <1>7, Zenon
<1> HIDE DEF results, turn
<1>9. results[0] = << >> /\ \A k \in 1 .. n : results[k] = turn(k, results[k - 1])
  BY <1>2, <1>8
<1>10. results \in [0 .. n -> Seq(C)]
  <2> DEFINE P == {k \in Nat : k \in 0 .. n => results[k] \in Seq(C)}
  <2>0. << >> \in Seq(C)
    OBVIOUS
  <2>1. 0 \in P
    BY <1>9, <2>0, Zenon
  <2>2. ASSUME NEW k \in Nat, k \in P PROVE k + 1 \in P
    <3> SUFFICES ASSUME k + 1 \in 0 .. n PROVE results[k + 1] \in Seq(C)
      OBVIOUS
    <3>1. results[k] \in Seq(C) /\ k + 1 \in 1 .. n /\ k + 1 - 1 = k
      BY <1>2, <2>2
    <3>2. results[k + 1] = turn(k + 1, results[k])
      BY <1>9, <3>1
    <3>3. QED
      BY <1>3, <3>1, <3>2
  <2> HIDE DEF P
  <2>3. Nat \subseteq P
    BY <2>1, <2>2, SetInduction
  <2>4. \A k \in 0 .. n : results[k] \in Seq(C)
    BY <1>2, <2>3 DEF P
  <2>5. QED
    BY <1>8, <2>4
<1>11. QED
  BY <1>1, <1>2, <1>10 DEF C

(* What the proof needs of a rule table: its rules command actuators of    *)
(* the profile, and two rules of one metric that command the same actuator *)
(* compare on the same side, or their limits do not overlap.               *)
TableSafe(rules, actuators) ==
  /\ \A i \in DOMAIN rules : rules[i].threshold \in Int /\ rules[i].actuator \in actuators
  /\ \A i, k \in DOMAIN rules :
       rules[i].metric = rules[k].metric /\ rules[i].actuator = rules[k].actuator =>
         \/ rules[i].comparison = "BELOW" /\ rules[k].comparison = "BELOW"
         \/ rules[i].comparison # "BELOW" /\ rules[k].comparison # "BELOW"
         \/ /\ rules[i].comparison = "BELOW" /\ rules[k].comparison # "BELOW"
            /\ rules[i].threshold <= rules[k].threshold
         \/ /\ rules[k].comparison = "BELOW" /\ rules[i].comparison # "BELOW"
            /\ rules[k].threshold <= rules[i].threshold

LEMMA TablesSafe ==
  ASSUME NEW p \in ProfileIds
  PROVE  /\ TableSafe(Profiles[p].rules, Profiles[p].actuators)
         /\ \E R : Profiles[p].rules \in Seq(R)
<1>1. p \in {"HOME", "AGRICULTURE", "HVAC", "WATER_TREATMENT"}
  BY DEF ProfileIds, Profiles
<1>2. CASE p = "HOME"
  <2>1. Profiles[p].rules = HomeRules /\ Profiles[p].actuators = HomeActuators
    BY <1>2 DEF Profiles
  <2>2. TableSafe(HomeRules, HomeActuators)
    BY DEF TableSafe, HomeRules, HomeActuators, Rule
  <2>3. HomeRules \in Seq({HomeRules[i] : i \in 1 .. 3})
    BY DEF HomeRules
  <2>4. QED
    BY <2>1, <2>2, <2>3
<1>3. CASE p = "AGRICULTURE"
  <2>1. /\ Profiles[p].rules = AgricultureRules
        /\ Profiles[p].actuators = AgricultureActuators
    BY <1>3 DEF Profiles
  <2>2. TableSafe(AgricultureRules, AgricultureActuators)
    BY DEF TableSafe, AgricultureRules, AgricultureActuators, Rule
  <2>3. AgricultureRules \in Seq({AgricultureRules[i] : i \in 1 .. 3})
    BY DEF AgricultureRules
  <2>4. QED
    BY <2>1, <2>2, <2>3
<1>4. CASE p = "HVAC"
  <2>1. Profiles[p].rules = HvacRules /\ Profiles[p].actuators = HvacActuators
    BY <1>4 DEF Profiles
  <2>2. TableSafe(HvacRules, HvacActuators)
    BY DEF TableSafe, HvacRules, HvacActuators, Rule
  <2>3. HvacRules \in Seq({HvacRules[i] : i \in 1 .. 3})
    BY DEF HvacRules
  <2>4. QED
    BY <2>1, <2>2, <2>3
<1>5. CASE p = "WATER_TREATMENT"
  <2>1. Profiles[p].rules = WaterRules /\ Profiles[p].actuators = WaterActuators
    BY <1>5 DEF Profiles
  <2>2. TableSafe(WaterRules, WaterActuators)
    BY DEF TableSafe, WaterRules, WaterActuators, Rule
  <2>3. WaterRules \in Seq({WaterRules[i] : i \in 1 .. 4})
    BY DEF WaterRules
  <2>4. QED
    BY <2>1, <2>2, <2>3
<1>6. QED
  BY <1>1, <1>2, <1>3, <1>4, <1>5

LEMMA IssuedConsistent ==
  ASSUME NEW p \in ProfileIds, NEW m, NEW v \in Int,
         NEW c \in Issued(p, m, v), NEW d \in Issued(p, m, v)
  PROVE  c \in Commands(p) /\ (c.actuator = d.actuator => c.state = d.state)
<1> DEFINE rules == Profiles[p].rules
<1>1. PICK i \in DOMAIN rules : Triggered(rules[i], m, v) /\ c = Command(rules[i], v)
  BY DEF Issued
<1>2. PICK k \in DOMAIN rules : Triggered(rules[k], m, v) /\ d = Command(rules[k], v)
  BY DEF Issued
<1>3. TableSafe(rules, Profiles[p].actuators)
  BY TablesSafe
<1> HIDE DEF rules
<1>4. /\ rules[i].threshold \in Int /\ rules[i].actuator \in Profiles[p].actuators
      /\ rules[k].threshold \in Int
  BY <1>3 DEF TableSafe
<1>5. c \in Commands(p)
  BY <1>1, <1>4 DEF Commands, Command
<1>6. ASSUME c.actuator = d.actuator PROVE c.state = d.state
  <2>1. rules[i].metric = rules[k].metric /\ rules[i].actuator = rules[k].actuator
    BY <1>1, <1>2, <1>6 DEF Triggered, Command
  <2>2. (v >= rules[i].threshold) <=> (v >= rules[k].threshold)
    BY <1>1, <1>2, <1>3, <1>4, <2>1 DEF TableSafe, Triggered
  <2>3. QED
    BY <1>1, <1>2, <2>2 DEF Command
<1>7. QED
  BY <1>5, <1>6

(* The results of the last evaluation. *)
FiredInv == fired \in Seq(Commands(profile)) /\ NoConflictingCommands

LEMMA FiredAccept ==
  ASSUME HistInv, NEW v \in Int, AcceptEntry(v)
  PROVE  FiredInv'
<1> DEFINE C == Issued(profile, metric, v)
<1>1. profile \in ProfileIds
  BY HubAssumption DEF HistInv
<1>2. fired' = Evaluate(profile, metric, v) /\ profile' = profile
  BY DEF AcceptEntry
<1>3. fired' \in Seq(C)
  <2>1. PICK R : Profiles[profile].rules \in Seq(R)
    BY <1>1, TablesSafe
  <2>2. QED
    BY <1>2, <2>1, EvaluateIssues, Zenon
<1> HIDE DEF C
<1>4. \A c, d \in C :
        c \in Commands(profile) /\ (c.actuator = d.actuator => c.state = d.state)
  BY <1>1, IssuedConsistent DEF C
<1>5. fired' \in Seq(Commands(profile))
  BY <1>3, <1>4
<1>6. NoConflictingCommands'
  BY <1>3, <1>4 DEF NoConflictingCommands
<1>7. QED
  BY <1>2, <1>5, <1>6 DEF FiredInv, Commands

LEMMA FiredStep == HistInv /\ FiredInv /\ [Next]_vars => FiredInv'
<1> SUFFICES ASSUME HistInv, FiredInv, [Next]_vars PROVE FiredInv'
  OBVIOUS
<1>1. Samples(profile, metric) \subseteq Int
  BY HubAssumption DEF HistInv
<1>2. ASSUME UNCHANGED << profile, fired >> PROVE FiredInv'
  BY <1>2 DEF FiredInv, Commands, NoConflictingCommands
<1>3. ASSUME NEW v \in Samples(profile, metric), RejectEntry(v) PROVE FiredInv'
  BY <1>3 DEF RejectEntry, FiredInv, NoConflictingCommands
<1>4. ASSUME NEW v \in Samples(profile, metric), AcceptEntry(v) PROVE FiredInv'
  BY <1>1, <1>4, FiredAccept
<1>5. CASE \E gap \in Gaps(profile, metric), n \in 0 .. MaxFrame : Poll(gap, n)
  BY <1>2, <1>5 DEF Poll
<1>6. CASE ResetHistory \/ UNCHANGED vars
  BY <1>2, <1>6 DEF ResetHistory, vars
<1>7. QED
  BY <1>3, <1>4, <1>5, <1>6 DEF Next

LEMMA FiredInit == Init => FiredInv
BY DEF Init, FiredInv, NoConflictingCommands

(* With the rule tables of all four profiles one reading, of any value,    *)
(* never makes rule_engine_evaluate() command an actuator both ways.       *)
THEOREM CommandsConsistent == Spec => []NoConflictingCommands
<1>1. FiredInv => NoConflictingCommands
  BY DEF FiredInv
<1>2. QED
  BY <1>1, HistCorrect, FiredInit, FiredStep, PTL DEF Spec

-----------------------------------------------------------------------------
(* The stuck check. *)

(* The run of equal readings of s that ends at j begins at i. *)
Run(s, i, j) ==
  /\ i \in 1 .. j
  /\ \A k \in i .. j : s[k].value = s[j].value
  /\ i = 1 \/ s[i - 1].value # s[j].value

(* Every reading ends a run, and last_change_ms is the time at which the   *)
(* current run began, or still zero in the run of zeros that the code does *)
(* not see begin.                                                          *)
RunInv(s, h) ==
  /\ \A j \in 1 .. Len(s) : \E i \in 1 .. j : Run(s, i, j)
  /\ Len(s) = 0 => h.last = 0 /\ h.changed = 0
  /\ Len(s) > 0 =>
       /\ h.last = s[Len(s)].value
       /\ \A i \in 1 .. Len(s) : Run(s, i, Len(s)) =>
            h.changed = s[i].at \/ (i = 1 /\ h.last = 0 /\ h.changed = 0)

(* A run between i and j is short enough, or is the one of zeros. *)
ShortRun(s, i, j, stuck) ==
  s[j].at - s[i].at <= stuck \/ (i = 1 /\ s[j].value = 0)

RunsShort(s, stuck) ==
  \A j \in 1 .. Len(s) : \A i \in 1 .. j : Run(s, i, j) => ShortRun(s, i, j, stuck)

(* One more reading leaves the runs behind it alone and continues the last *)
(* one, or begins a run of its own.                                        *)
LEMMA RunAppend ==
  ASSUME NEW s \in Seq(Reading), NEW e \in Reading
  PROVE  LET q == Append(s, e)
             n == Len(s)
         IN  /\ \A j \in 1 .. n : \A i \in 1 .. j : Run(q, i, j) <=> Run(s, i, j)
             /\ n > 0 /\ e.value = s[n].value =>
                  \A i \in 1 .. n + 1 : Run(q, i, n + 1) <=> i \in 1 .. n /\ Run(s, i, n)
             /\ n = 0 \/ e.value # s[n].value =>
                  \A i \in 1 .. n + 1 : Run(q, i, n + 1) <=> i = n + 1
<1> DEFINE q == Append(s, e)
           n == Len(s)
<1>1. n \in Nat /\ Len(q) = n + 1 /\ q[n + 1] = e /\ \A i \in 1 .. n : q[i] = s[i]
  OBVIOUS
<1> HIDE DEF q, n
<1>2. ASSUME NEW j \in 1 .. n, NEW i \in 1 .. j PROVE Run(q, i, j) <=> Run(s, i, j)
  <2>1. \A k \in i .. j : q[k] = s[k]
    BY <1>1
  <2>2. i # 1 => q[i - 1] = s[i - 1]
    BY <1>1
  <2>3. q[j] = s[j]
    BY <1>1
  <2>4. QED
    BY <2>1, <2>2, <2>3 DEF Run
<1>3. ASSUME n > 0, e.value = s[n].value, NEW i \in 1 .. n + 1
      PROVE  Run(q, i, n + 1) <=> i \in 1 .. n /\ Run(s, i, n)
  <2>1. q[n] = s[n]
    BY <1>1, <1>3
  <2>2. CASE i = n + 1
    <3>1. i # 1 /\ q[i - 1].value = q[n + 1].value
      BY <1>1, <1>3, <2>1, <2>2
    <3>2. QED
      BY <1>1, <2>2, <3>1 DEF Run
  <2>3. CASE i \in 1 .. n
    <3>1. i # 1 => q[i - 1] = s[i - 1]
      BY <1>1, <2>3
    <3>2. (\A k \in i .. n + 1 : q[k].value = e.value) <=> (\A k \in i .. n : s[k].value = e.value)
      BY <1>1, <2>3
    <3>3. i \in 1 .. n + 1
      OBVIOUS
    <3>4. QED
      BY <1>1, <1>3, <2>3, <3>1, <3>2, <3>3 DEF Run
  <2>4. QED
    BY <1>1, <2>2, <2>3
<1>4. ASSUME n = 0 \/ e.value # s[n].value, NEW i \in 1 .. n + 1
      PROVE  Run(q, i, n + 1) <=> i = n + 1
  <2>1. CASE i = n + 1
    <3>1. \A k \in i .. n + 1 : k = n + 1
      BY <1>1, <2>1
    <3>2. i = 1 \/ q[i - 1].value # e.value
      BY <1>1, <1>4, <2>1
    <3>3. QED
      BY <1>1, <2>1, <3>1, <3>2 DEF Run
  <2>2. CASE i # n + 1
    <3>1. n \in i .. n + 1 /\ n \in 1 .. n /\ n # 0
      BY <1>1, <2>2
    <3>2. q[n].value # q[n + 1].value
      BY <1>1, <1>4, <3>1
    <3>3. QED
      BY <2>2, <3>1, <3>2 DEF Run
  <2>3. QED
    BY <2>1, <2>2
<1>5. QED
  BY <1>2, <1>3, <1>4 DEF q, n

(* sensor_history_record() keeps RunInv, and what sensorValidate() lets    *)
(* pass keeps the runs short.                                              *)
LEMMA RunRecord ==
  ASSUME NEW s \in Seq(Reading), NEW h \in History, RunInv(s, h),
         NEW v \in Int, NEW t \in Nat
  PROVE  RunInv(Append(s, [value |-> v, at |-> t]), Record(h, v, t))
<1> DEFINE e == [value |-> v, at |-> t]
           q == Append(s, e)
           n == Len(s)
           g == Record(h, v, t)
<1>1. e \in Reading /\ e.value = v /\ e.at = t
  BY DEF Reading
<1>2. g.last = v /\ g.changed = IF v # h.last THEN t ELSE h.changed
  BY DEF Record
<1> HIDE DEF e, g
<1>3. n \in Nat /\ Len(q) = n + 1 /\ q[n + 1] = e /\ \A i \in 1 .. n : q[i] = s[i]
  BY <1>1
<1>4. \A j \in 1 .. n : \A i \in 1 .. j : Run(q, i, j) <=> Run(s, i, j)
  BY <1>1, RunAppend
<1>5. n > 0 /\ e.value = s[n].value =>
        \A i \in 1 .. n + 1 : Run(q, i, n + 1) <=> i \in 1 .. n /\ Run(s, i, n)
  BY <1>1, RunAppend
<1>6. n = 0 \/ e.value # s[n].value => \A i \in 1 .. n + 1 : Run(q, i, n + 1) <=> i = n + 1
  BY <1>1, RunAppend
<1>7. /\ \A j \in 1 .. n : \E i \in 1 .. j : Run(s, i, j)
      /\ n = 0 => h.last = 0 /\ h.changed = 0
      /\ n > 0 =>
           /\ h.last = s[n].value
           /\ \A i \in 1 .. n : Run(s, i, n) =>
                h.changed = s[i].at \/ (i = 1 /\ h.last = 0 /\ h.changed = 0)
  BY DEF RunInv
<1> HIDE DEF q, n
<1>8. \A j \in 1 .. n + 1 : \E i \in 1 .. j : Run(q, i, j)
  <2> TAKE j \in 1 .. n + 1
  <2>1. CASE j \in 1 .. n
    BY <1>4, <1>7, <2>1
  <2>2. CASE j = n + 1 /\ n > 0 /\ e.value = s[n].value
    <3>1. n \in 1 .. n
      BY <1>3, <2>2
    <3>2. PICK i \in 1 .. n : Run(s, i, n)
      BY <1>7, <3>1
    <3>3. i \in 1 .. n + 1
      BY <1>3
    <3>4. QED
      BY <1>5, <2>2, <3>2, <3>3
  <2>3. CASE j = n + 1 /\ (n = 0 \/ e.value # s[n].value)
    <3>1. n + 1 \in 1 .. n + 1
      BY <1>3
    <3>2. QED
      BY <1>6, <2>3, <3>1
  <2>4. QED
    BY <1>3, <2>1, <2>2, <2>3
<1>9. ASSUME NEW i \in 1 .. n + 1, Run(q, i, n + 1)
      PROVE  g.changed = q[i].at \/ (i = 1 /\ g.last = 0 /\ g.changed = 0)
  <2>1. CASE n > 0 /\ e.value = s[n].value
    <3>1. i \in 1 .. n /\ Run(s, i, n)
      BY <1>5, <1>9, <2>1
    <3>2. g.changed = h.changed /\ g.last = h.last
      BY <1>1, <1>2, <1>7, <2>1
    <3>3. QED
      BY <1>3, <1>7, <2>1, <3>1, <3>2
  <2>2. CASE n > 0 /\ e.value # s[n].value
    <3>1. i = n + 1 /\ g.changed = t
      BY <1>1, <1>2, <1>6, <1>7, <1>9, <2>2
    <3>2. QED
      BY <1>1, <1>3, <3>1
  <2>3. CASE n = 0
    <3>1. i = 1
      BY <1>9, <2>3
    <3>2. QED
      BY <1>1, <1>2, <1>3, <1>7, <2>3, <3>1
  <2>4. QED
    BY <1>3, <2>1, <2>2, <2>3
<1>10. RunInv(q, g)
  <2>1. g.last = q[Len(q)].value
    BY <1>1, <1>2, <1>3
  <2>2. QED
    BY <1>3, <1>8, <1>9, <2>1 DEF RunInv
<1>11. QED
  BY <1>10 DEF q, e, g

LEMMA ShortRunRecord ==
  ASSUME NEW s \in Seq(Reading), NEW h \in History, RunInv(s, h),
         NEW v \in Int, NEW t \in Nat, NEW b, b.stuck \in Nat \ {0},
         RunsShort(s, b.stuck), \A i \in 1 .. Len(s) : s[i].at > 0,
         Len(s) > 0 => ~Stuck(h, b, v, t)
  PROVE  RunsShort(Append(s, [value |-> v, at |-> t]), b.stuck)
<1> DEFINE e == [value |-> v, at |-> t]
           q == Append(s, e)
           n == Len(s)
<1>1. e \in Reading /\ e.value = v /\ e.at = t
  BY DEF Reading
<1> HIDE DEF e
<1>3. n \in Nat /\ Len(q) = n + 1 /\ q[n + 1] = e /\ \A i \in 1 .. n : q[i] = s[i]
  BY <1>1
<1>4. \A j \in 1 .. n : \A i \in 1 .. j : Run(q, i, j) <=> Run(s, i, j)
  BY <1>1, RunAppend
<1>5. n > 0 /\ e.value = s[n].value =>
        \A i \in 1 .. n + 1 : Run(q, i, n + 1) <=> i \in 1 .. n /\ Run(s, i, n)
  BY <1>1, RunAppend
<1>6. n = 0 \/ e.value # s[n].value => \A i \in 1 .. n + 1 : Run(q, i, n + 1) <=> i = n + 1
  BY <1>1, RunAppend
<1>7. n > 0 =>
        /\ h.last = s[n].value
        /\ \A i \in 1 .. n : Run(s, i, n) =>
             h.changed = s[i].at \/ (i = 1 /\ h.last = 0 /\ h.changed = 0)
  BY DEF RunInv
<1>8. \A i \in 1 .. n : s[i].at > 0
  OBVIOUS
<1>8a. \A i \in 1 .. n : s[i].at \in Nat
  <2>1. \A i \in 1 .. n : s[i] \in Reading
    OBVIOUS
  <2>2. QED
    BY <2>1 DEF Reading
<1>9. ASSUME NEW j \in 1 .. n, NEW i \in 1 .. j, Run(q, i, j)
      PROVE  ShortRun(q, i, j, b.stuck)
  <2>1. i \in 1 .. n /\ q[i] = s[i] /\ q[j] = s[j]
    BY <1>3
  <2>2. ShortRun(s, i, j, b.stuck)
    BY <1>4, <1>9 DEF RunsShort
  <2>3. QED
    BY <2>1, <2>2 DEF ShortRun
<1>10. ASSUME NEW i \in 1 .. n + 1, Run(q, i, n + 1)
       PROVE  ShortRun(q, i, n + 1, b.stuck)
  <2> HIDE DEF q
  <2>1. CASE n > 0 /\ e.value = s[n].value
    <3>1. i \in 1 .. n /\ Run(s, i, n)
      BY <1>5, <1>10, <2>1
    <3> HIDE DEF n
    <3>2. v = h.last /\ q[i] = s[i] /\ q[n + 1] = e
      BY <1>1, <1>3, <1>7, <2>1, <3>1
    <3>3. CASE h.changed = s[i].at
      <4>1. ~(t - h.changed > b.stuck)
        BY <1>8, <2>1, <3>1, <3>2, <3>3 DEF Stuck, n
      <4>2. t - s[i].at <= b.stuck
        BY <1>8a, <3>1, <3>3, <4>1
      <4>3. QED
        BY <1>1, <3>2, <4>2 DEF ShortRun
    <3>4. CASE i = 1 /\ h.last = 0
      BY <1>1, <3>2, <3>4 DEF ShortRun
    <3>5. QED
      BY <1>7, <2>1, <3>1, <3>3, <3>4
  <2>2. CASE n = 0 \/ e.value # s[n].value
    <3>1. i = n + 1
      BY <1>6, <1>10, <2>2
    <3>2. QED
      BY <1>1, <1>3, <3>1 DEF ShortRun
  <2>3. QED
    BY <1>3, <2>1, <2>2
<1>11. RunsShort(q, b.stuck)
  <2> HIDE DEF q, n
  <2>1. ASSUME NEW j \in 1 .. n + 1, NEW i \in 1 .. j, Run(q, i, j)
        PROVE  ShortRun(q, i, j, b.stuck)
    <3>1. CASE j = n + 1
      BY <1>10, <2>1, <3>1
    <3>2. CASE j # n + 1
      <4>1. j \in 1 .. n
        BY <1>3, <3>2
      <4>2. QED
        BY <1>9, <2>1, <4>1
    <3>3. QED
      BY <3>1, <3>2
  <2>2. QED
    BY <1>3, <2>1 DEF RunsShort
<1>12. QED
  BY <1>11 DEF e

(* The readings behind the gates: in the order of time, none of the        *)
(* future, all within the bounds, in runs that the history knows of.       *)
GateInv ==
  /\ \A i \in DOMAIN stored : stored[i].at <= now
  /\ \A i, j \in DOMAIN stored : i <= j => stored[i].at <= stored[j].at
  /\ Gated =>
       /\ \A i \in DOMAIN stored : stored[i].value \in MetricBounds.lo .. MetricBounds.hi
       /\ RunInv(stored, hist)
       /\ MetricBounds.stuck > 0 => RunsShort(stored, MetricBounds.stuck)

LEMMA EmptyRuns == RunInv(<< >>, EmptyHistory) /\ \A k : RunsShort(<< >>, k)
BY DEF RunInv, RunsShort, EmptyHistory

LEMMA GateInit == Init => GateInv
<1> SUFFICES ASSUME Init PROVE GateInv
  OBVIOUS
<1>1. stored = << >> /\ hist = EmptyHistory
  BY DEF Init
<1>2. QED
  BY <1>1, EmptyRuns DEF GateInv

LEMMA GateAccept ==
  ASSUME HistInv, GateInv, NEW v \in Int, AcceptEntry(v)
  PROVE  GateInv'
<1> DEFINE e == [value |-> v, at |-> now]
           n == Len(stored)
<1>1. /\ hist' = IF Gated THEN Record(hist, v, now) ELSE hist
      /\ stored' = Append(stored, e)
      /\ UNCHANGED << profile, metric, now >>
      /\ Gated => SensorValid(hist, MetricBounds, v, now)
  BY DEF AcceptEntry, Accepts
<1>2. /\ stored \in Seq(Reading) /\ now \in Nat /\ e \in Reading
      /\ e.value = v /\ e.at = now
  BY DEF HistInv, Reading
<1>3. Gated' = Gated /\ MetricBounds' = MetricBounds
  BY <1>1 DEF Gated, MetricBounds
<1> HIDE DEF e
<1>4. /\ n \in Nat /\ DOMAIN stored = 1 .. n /\ DOMAIN stored' = 1 .. n + 1
      /\ stored'[n + 1] = e /\ \A i \in 1 .. n : stored'[i] = stored[i]
  BY <1>1, <1>2
<1>5. \A i \in DOMAIN stored' : stored'[i].at <= now'
  <2>1. \A i \in 1 .. n : stored[i].at <= now
    BY <1>4 DEF GateInv
  <2> HIDE DEF n
  <2>2. QED
    BY <1>1, <1>2, <1>4, <2>1
<1>6. \A i, j \in DOMAIN stored' : i <= j => stored'[i].at <= stored'[j].at
  <2>1. /\ \A i \in 1 .. n : stored[i].at <= now
        /\ \A i, j \in 1 .. n : i <= j => stored[i].at <= stored[j].at
    BY <1>4 DEF GateInv
  <2> HIDE DEF n
  <2>2. QED
    BY <1>2, <1>4, <2>1
<1>7. ASSUME Gated
      PROVE  /\ \A i \in DOMAIN stored' :
                  stored'[i].value \in MetricBounds.lo .. MetricBounds.hi
             /\ RunInv(stored', hist')
             /\ MetricBounds.stuck > 0 => RunsShort(stored', MetricBounds.stuck)
  <2>1. /\ \A i \in 1 .. n : stored[i].value \in MetricBounds.lo .. MetricBounds.hi
        /\ RunInv(stored, hist)
        /\ MetricBounds.stuck > 0 => RunsShort(stored, MetricBounds.stuck)
        /\ hist \in History /\ HoldsNewest(hist, stored)
        /\ \A i \in 1 .. n : stored[i].at > 0
    BY <1>4, <1>7 DEF GateInv, HistInv, Added
  <2>2. v \in MetricBounds.lo .. MetricBounds.hi
    BY <1>1, <1>7 DEF SensorValid
  <2>3. BoundsOK(MetricBounds)
    BY <1>7, GatedBounds
  <2>4. RunInv(stored', hist')
    BY <1>1, <1>2, <1>7, <2>1, RunRecord DEF e
  <2>5. ASSUME MetricBounds.stuck > 0 PROVE RunsShort(stored', MetricBounds.stuck)
    <3>1. MetricBounds.stuck \in Nat \ {0}
      BY <2>3, <2>5 DEF BoundsOK
    <3>2. n > 0 => hist.count > 0
      BY <1>4, <2>1 DEF HoldsNewest
    <3>3. n > 0 => ~Stuck(hist, MetricBounds, v, now)
      BY <1>1, <1>7, <3>2 DEF SensorValid
    <3>4. QED
      BY <1>1, <1>2, <2>1, <2>5, <3>1, <3>3, ShortRunRecord DEF e
  <2>6. \A i \in DOMAIN stored' : stored'[i].value \in MetricBounds.lo .. MetricBounds.hi
    <3> HIDE DEF n
    <3>1. \A i \in 1 .. n + 1 : i \in 1 .. n \/ i = n + 1
      BY <1>4
    <3>2. QED
      BY <1>2, <1>4, <2>1, <2>2, <3>1
  <2>7. QED
    BY <2>4, <2>5, <2>6
<1>8. QED
  BY <1>3, <1>5, <1>6, <1>7 DEF GateInv

LEMMA GateStep == HistInv /\ GateInv /\ [Next]_vars => GateInv'
<1> SUFFICES ASSUME HistInv, GateInv, [Next]_vars PROVE GateInv'
  OBVIOUS
<1>1. CASE ResetHistory
  <2>1. stored' = << >> /\ hist' = EmptyHistory
    BY <1>1 DEF ResetHistory
  <2>2. QED
    BY <2>1, EmptyRuns DEF GateInv
<1>2. CASE UNCHANGED << profile, metric, hist, stored >> /\ now' \in Nat \ {0} /\ now' >= now
  <2>1. Gated' = Gated /\ MetricBounds' = MetricBounds
    BY <1>2 DEF Gated, MetricBounds
  <2>2. \A i \in DOMAIN stored : stored[i] \in Reading
    BY DEF HistInv
  <2>3. \A i \in DOMAIN stored : stored[i].at \in Nat
    BY <2>2 DEF Reading
  <2>4. \A i \in DOMAIN stored' : stored'[i].at <= now'
    BY <1>2, <2>3 DEF GateInv, HistInv
  <2>5. QED
    BY <1>2, <2>1, <2>4 DEF GateInv
<1>3. QED
  BY <1>1, <1>2, GateAccept, HistCases

LEMMA GateCorrect == Spec => []GateInv
BY HistCorrect, GateInit, GateStep, PTL DEF Spec

(* A sensor that repeats one value is cut off after stuck_timeout_sec, for *)
(* every history size, timing of polls and sequence of readings.           *)
THEOREM StuckSensorRefused == Spec => []StuckIsRefused
<1>1. HistInv /\ GateInv => StuckIsRefused
  <2> SUFFICES ASSUME HistInv, GateInv, Gated, MetricBounds.stuck > 0,
                      NEW j \in DOMAIN stored
               PROVE  \/ stored[j].at - stored[RunStart(j)].at <= MetricBounds.stuck
                      \/ RunStart(j) = 1 /\ stored[j].value = 0
    BY DEF StuckIsRefused
  <2>1. j \in 1 .. Len(stored)
    BY DEF HistInv
  <2>2. \E i \in 1 .. j : Run(stored, i, j)
    BY <2>1 DEF GateInv, RunInv
  <2>3. RunStart(j) \in 1 .. j /\ Run(stored, RunStart(j), j)
    BY <2>2 DEF RunStart, Run
  <2>4. ShortRun(stored, RunStart(j), j, MetricBounds.stuck)
    BY <2>1, <2>3 DEF GateInv, RunsShort
  <2>5. QED
    BY <2>4 DEF ShortRun
<1>2. QED
  BY <1>1, HistCorrect, GateCorrect, PTL

-----------------------------------------------------------------------------
(* The rate check against an entry that is older than the last reading     *)
(* allows at least as much.                                                *)
LEMMA OlderAllowsMore ==
  ASSUME NEW rate \in Nat, NEW t \in Nat, NEW a \in Nat, NEW b \in Nat,
         a <= b
  PROVE  rate * (t - b) <= rate * (t - a)
<1>1. rate * (t - a) = rate * (t - b) + rate * (b - a)
  OBVIOUS
<1>2. rate * (b - a) >= 0
  OBVIOUS
<1>3. rate * (t - b) \in Int /\ rate * (b - a) \in Int
  OBVIOUS
<1>4. QED
  BY <1>1, <1>2, <1>3

LEMMA NotLockedOut ==
  ASSUME HistInv, GateInv, Gated, stored # << >>, NEW v \in Int,
         VtableValid(profile, metric, v), v \in MetricBounds.lo .. MetricBounds.hi,
         v # stored[Len(stored)].value,
         MetricBounds.hi - MetricBounds.lo
           <= MetricBounds.rate * (now - stored[Len(stored)].at)
  PROVE  Accepts(v)
<1> DEFINE n == Len(stored)
           e == stored[n]
           i == IF n + 1 > HistorySize THEN n + 1 - HistorySize ELSE n
           p == stored[i]
           lo == MetricBounds.lo
           hi == MetricBounds.hi
           rate == MetricBounds.rate
<1>1. /\ stored \in Seq(Reading) /\ n \in Nat \ {0} /\ DOMAIN stored = 1 .. n
      /\ now \in Nat /\ hist \in History /\ HoldsNewest(hist, stored)
  BY DEF HistInv, Added
<1>2. lo \in Int /\ hi \in Int /\ rate \in Nat \ {0}
  BY GatedBounds DEF BoundsOK
<1>3. hist.count > 0
  BY <1>1 DEF HoldsNewest
<1>4. Compared(hist) = p /\ i \in 1 .. n
  BY <1>1, <1>3, ComparedIs
<1> HIDE DEF n, i
<1>5. p \in Reading /\ e \in Reading /\ n \in 1 .. n /\ i <= n
  BY <1>1, <1>4
<1>6. p.at <= e.at /\ p.value \in lo .. hi /\ hist.last = e.value
  <2>1. RunInv(stored, hist)
    BY DEF GateInv
  <2>2. hist.last = e.value
    BY <1>1, <2>1 DEF RunInv, n
  <2>3. QED
    BY <1>1, <1>4, <1>5, <2>2 DEF GateInv
<1>7. p.at \in Nat /\ e.at \in Nat
  BY <1>5 DEF Reading
<1> HIDE DEF e, p
<1>8. ~RateExceeded(hist, MetricBounds, v, now)
  <2>1. Distance(v, p.value) <= hi - lo /\ Distance(v, p.value) \in Int
    BY <1>2, <1>6 DEF Distance
  <2>2. hi - lo <= rate * (now - e.at)
    BY DEF e, n
  <2>3. rate * (now - e.at) <= rate * (now - p.at)
    BY <1>1, <1>2, <1>6, <1>7, OlderAllowsMore
  <2>4. rate * (now - e.at) \in Int /\ rate * (now - p.at) \in Int
    BY <1>1, <1>2, <1>7
  <2>5. ~(Distance(v, p.value) > rate * (now - p.at))
    <3> HIDE DEF hi, lo, rate
    <3>1. QED
      BY <1>2, <2>1, <2>2, <2>3, <2>4
  <2>6. QED
    BY <1>4, <2>5 DEF RateExceeded
<1>9. ~Stuck(hist, MetricBounds, v, now)
  BY <1>6 DEF Stuck, e, n
<1>10. QED
  BY <1>8, <1>9 DEF Accepts, SensorValid

(* The gates never lock a working sensor out for good, with the bounds of  *)
(* all four profiles and for every history size: after a silence that      *)
(* allows the full range, any other value of the range passes.             *)
THEOREM GatesReopen == Spec => []NoLockOut
<1>1. HistInv /\ GateInv => NoLockOut
  <2> SUFFICES ASSUME HistInv, GateInv, Gated, stored # << >>,
                      NEW v \in Samples(profile, metric),
                      VtableValid(profile, metric, v),
                      v \in MetricBounds.lo .. MetricBounds.hi,
                      v # stored[Len(stored)].value,
                      MetricBounds.hi - MetricBounds.lo
                        <= MetricBounds.rate * (now - stored[Len(stored)].at)
               PROVE  Accepts(v)
    BY Zenon DEF NoLockOut
  <2>1. v \in Int
    BY HubAssumption DEF HistInv
  <2>2. QED
    BY <2>1, NotLockedOut
<1>2. QED
  BY <1>1, HistCorrect, GateCorrect, PTL

-----------------------------------------------------------------------------
FrameInv == << profile, metric >> \in Followed /\ work \in 0 .. MaxWork /\ left \in 0 .. MaxFrame

LEMMA FrameStep == FrameInv /\ [Next]_vars => FrameInv'
<1> SUFFICES ASSUME FrameInv, [Next]_vars PROVE FrameInv'
  OBVIOUS
<1>0. /\ << profile, metric >> \in Followed /\ work \in 0 .. MaxWork
      /\ left \in 0 .. MaxFrame /\ MaxWork \in Nat /\ MaxFrame \in Nat
  BY HubAssumption DEF FrameInv
<1>1. ASSUME NEW gap \in Gaps(profile, metric), NEW n \in 0 .. MaxFrame, Poll(gap, n)
      PROVE  FrameInv'
  <2>1. work' = work + (IF n = 0 THEN 1 ELSE n) /\ work' <= MaxWork
    BY <1>1 DEF Poll
  <2>2. work' \in 0 .. MaxWork
    BY <1>0, <2>1
  <2>3. QED
    BY <1>0, <1>1, <2>2 DEF Poll, FrameInv
<1>2. ASSUME NEW v, RejectEntry(v) \/ AcceptEntry(v) PROVE FrameInv'
  <2>1. left > 0 /\ left' = left - 1 /\ UNCHANGED << profile, metric, work >>
    BY <1>2 DEF RejectEntry, AcceptEntry
  <2>2. left' \in 0 .. MaxFrame
    BY <1>0, <2>1
  <2>3. QED
    BY <1>0, <2>1, <2>2 DEF FrameInv
<1>3. CASE ResetHistory \/ UNCHANGED vars
  BY <1>0, <1>3 DEF ResetHistory, vars, FrameInv
<1>4. QED
  BY <1>1, <1>2, <1>3 DEF Next

(* The hub's variables have their types for any constants; results[] holds *)
(* commands for actuators the profile has.                                 *)
THEOREM HubTypeCorrect == Spec => []TypeOK
<1>1. Init => FrameInv
  <2> SUFFICES ASSUME Init PROVE FrameInv
    OBVIOUS
  <2>1. work = 0 /\ left = 0 /\ \E f \in Followed : profile = f[1] /\ metric = f[2]
    BY DEF Init
  <2>2. QED
    BY <2>1, HubAssumption DEF FrameInv
<1>2. HistInv /\ FrameInv /\ FiredInv => TypeOK
  BY DEF TypeOK, HistInv, FrameInv, FiredInv, Commands
<1>3. QED
  BY <1>1, <1>2, HistCorrect, FrameStep, FiredInit, FiredStep, PTL DEF Spec

-----------------------------------------------------------------------------
(***************************************************************************)
(* The historian.                                                          *)
(***************************************************************************)

LEMMA ModBelow ==
  ASSUME NEW n \in Nat \ {0}, NEW x \in 0 .. n - 1
  PROVE  x % n = x
OBVIOUS

LEMMA ModRange ==
  ASSUME NEW n \in Nat \ {0}, NEW x \in Int
  PROVE  x % n \in 0 .. n - 1
OBVIOUS

LEMMA ModUnique ==
  ASSUME NEW n \in Nat \ {0}, NEW q \in Int, NEW r \in 0 .. n - 1
  PROVE  (n * q + r) % n = r
<1> DEFINE x == n * q + r
           k == x \div n
           m == x % n
<1>1. x \in Int /\ k \in Int /\ m \in 0 .. n - 1 /\ x = n * k + m
  OBVIOUS
<1> HIDE DEF k, m
<1>2. n * (q - k) = m - r
  BY <1>1
<1>3. ~(q - k >= 1)
  <2> SUFFICES ASSUME q - k >= 1 PROVE n * (q - k) >= n
    BY <1>1, <1>2
  <2>1. QED
    BY <1>1
<1>4. ~(q - k <= -1)
  <2> SUFFICES ASSUME q - k <= -1 PROVE n * (q - k) <= -n
    BY <1>1, <1>2
  <2>1. QED
    BY <1>1
<1>5. q = k
  BY <1>1, <1>3, <1>4
<1>6. QED
  BY <1>1, <1>5 DEF m

(* An index may be reduced before something is added to it. *)
LEMMA ModAdd ==
  ASSUME NEW n \in Nat \ {0}, NEW x \in Int, NEW d \in Int
  PROVE  ((x % n) + d) % n = (x + d) % n
<1> DEFINE q == x \div n
           r == x % n
           k == (r + d) \div n
           m == (r + d) % n
<1>1. q \in Int /\ r \in 0 .. n - 1 /\ x = n * q + r
  OBVIOUS
<1> HIDE DEF q, r
<1>2. k \in Int /\ m \in 0 .. n - 1 /\ r + d = n * k + m
  BY <1>1
<1> HIDE DEF k, m
<1>3. q + k \in Int /\ x + d = n * (q + k) + m
  BY <1>1, <1>2
<1>4. (n * (q + k) + m) % n = m
  BY <1>2, <1>3, ModUnique
<1>5. QED
  BY <1>3, <1>4 DEF m, r

(* Two indices less than n apart are different slots. *)
LEMMA ModDiffers ==
  ASSUME NEW n \in Nat \ {0}, NEW x \in Int, NEW d \in 1 .. n - 1
  PROVE  (x + d) % n # x % n
<1> DEFINE q == x \div n
           r == x % n
<1>1. q \in Int /\ r \in 0 .. n - 1 /\ x = n * q + r
  OBVIOUS
<1> HIDE DEF q, r
<1>2. CASE r + d < n
  <2>1. r + d \in 0 .. n - 1 /\ x + d = n * q + (r + d)
    BY <1>1, <1>2
  <2>2. (n * q + (r + d)) % n = r + d
    BY <1>1, <2>1, ModUnique
  <2>3. QED
    BY <1>1, <2>1, <2>2 DEF r
<1>3. CASE r + d >= n
  <2>1. r + d - n \in 0 .. n - 1 /\ q + 1 \in Int /\ x + d = n * (q + 1) + (r + d - n)
    BY <1>1, <1>3
  <2>2. (n * (q + 1) + (r + d - n)) % n = r + d - n
    BY <1>1, <2>1, ModUnique
  <2>3. QED
    BY <1>1, <2>1, <2>2 DEF r
<1>4. QED
  BY <1>1, <1>2, <1>3

(* What the age loop of historian_evict() removes is the longest prefix    *)
(* that is too old.                                                        *)
Leading(held, n, current_ms) ==
  {j \in 0 .. n : \A i \in 1 .. j : TooOld(held[i], current_ms)}

LEMMA EvictionIs ==
  ASSUME count \in 0 .. Capacity, NEW ms
  PROVE  \E leading \in Leading(Contents(ring, writeIndex, count), count, ms) :
           AfterEviction(ms) =
             IF count - leading = Capacity THEN Capacity - 1 ELSE count - leading
<1> USE HistorianAssumption
<1> DEFINE old == Leading(Contents(ring, writeIndex, count), count, ms)
           T == {d \in 0 .. count : count - d \in old}
<1>1. 0 \in old /\ old \subseteq 0 .. count
  BY DEF Leading
<1>2. count \in T /\ T \subseteq Nat
  BY <1>1
<1> HIDE DEF old
<1>3. PICK d \in T : \A k \in T : d <= k
  <2> HIDE DEF T
  <2>1. T # {}
    BY <1>2
  <2>2. QED
    BY <1>2, <2>1, LeastNatural
<1>4. count - d \in old /\ \A i \in old : i <= count - d
  <2>1. count - d \in old /\ d \in Nat
    OBVIOUS
  <2>2. ASSUME NEW i \in old PROVE i <= count - d
    <3>1. i \in 0 .. count /\ count - (count - i) = i
      BY <1>1
    <3>2. count - i \in T
      BY <1>1, <3>1
    <3> HIDE DEF T
    <3>3. d <= count - i
      BY <1>3, <3>2
    <3>4. QED
      BY <2>1, <3>1, <3>3
  <2>3. QED
    BY <2>1, <2>2
<1> DEFINE leading == CHOOSE j \in old : \A i \in old : i <= j
<1>5. leading \in old
  BY <1>4
<1>6. AfterEviction(ms) = IF count - leading = Capacity THEN Capacity - 1 ELSE count - leading
  BY Zenon DEF AfterEviction, old, Leading
<1> HIDE DEF leading
<1>7. QED
  BY <1>5, <1>6 DEF old

LEMMA EvictionLeavesRoom ==
  ASSUME count \in 0 .. Capacity, NEW ms
  PROVE  AfterEviction(ms) \in 0 .. Capacity - 1 /\ AfterEviction(ms) <= count
<1>1. PICK leading \in Leading(Contents(ring, writeIndex, count), count, ms) :
        AfterEviction(ms) = IF count - leading = Capacity THEN Capacity - 1 ELSE count - leading
  BY EvictionIs
<1>2. leading \in 0 .. count
  BY DEF Leading
<1>3. QED
  BY <1>1, <1>2, HistorianAssumption

LEMMA ClockInRange ==
  ASSUME time \in 0 .. MaxTime, started \in 0 .. time
  PROVE  Clock \in 0 .. ClockMod - 1
<1> USE HistorianAssumption
<1>1. 1 + time - started \in Int
  OBVIOUS
<1>2. QED
  BY <1>1, ModRange DEF Clock

LEMMA HistorianTypeInit == HistorianInit => HistorianTypeOK
<1> SUFFICES ASSUME HistorianInit PROVE HistorianTypeOK
  OBVIOUS
<1> USE HistorianAssumption
<1>1. Blank \in StoredRecord
  BY DEF Blank, StoredRecord
<1>2. ring \in [Slots -> StoredRecord] /\ flash \in [Slots -> StoredRecord]
  BY <1>1 DEF HistorianInit
<1>3. log = << >> /\ durable = << >>
  BY DEF HistorianInit
<1>4. log \in Seq(StoredRecord) /\ durable \in Seq(StoredRecord)
  BY <1>3
<1>5. QED
  BY <1>2, <1>4 DEF HistorianInit, HistorianTypeOK, Slots, NotFlushing

LEMMA HistorianTypeWrite == HistorianTypeOK /\ Write => HistorianTypeOK'
<1> SUFFICES ASSUME HistorianTypeOK, Write PROVE HistorianTypeOK'
  OBVIOUS
<1> USE HistorianAssumption
<1> DEFINE e == [id |-> Len(log) + 1, ts |-> Clock, at |-> time]
<1>1. /\ flushing = NotFlushing /\ Len(log) < MaxWrites
      /\ ring' = [ring EXCEPT ![writeIndex] = e] /\ log' = Append(log, e)
      /\ writeIndex' = (writeIndex + 1) % Capacity
      /\ count' = AfterEviction(Clock) + 1
      /\ pendingStart' = (IF pendingCount = 0 THEN writeIndex ELSE pendingStart)
      /\ pendingCount' = pendingCount + 1
      /\ flushing' = (IF FlushDue(pendingCount + 1, Clock) THEN 0 ELSE NotFlushing)
      /\ UNCHANGED << lastFlush, flashVars, time, started >>
  BY Zenon DEF Write
<1>2. e \in StoredRecord
  <2>1. Clock \in 0 .. ClockMod - 1 /\ time \in 0 .. MaxTime
    BY ClockInRange DEF HistorianTypeOK
  <2>2. Len(log) + 1 \in 0 .. MaxWrites
    BY <1>1 DEF HistorianTypeOK
  <2>3. QED
    BY <2>1, <2>2 DEF StoredRecord
<1> HIDE DEF e
<1>3. ring' \in [Slots -> StoredRecord] /\ log' \in Seq(StoredRecord)
  BY <1>1, <1>2 DEF HistorianTypeOK
<1>4. writeIndex' \in Slots /\ pendingStart' \in Slots
  <2>1. writeIndex + 1 \in Int /\ writeIndex \in Slots /\ pendingStart \in Slots
    BY DEF HistorianTypeOK, Slots
  <2>2. (writeIndex + 1) % Capacity \in Slots
    BY <2>1, ModRange DEF Slots
  <2>3. QED
    BY <1>1, <2>1, <2>2
<1>5. count' \in 0 .. Capacity
  <2>1. AfterEviction(Clock) \in 0 .. Capacity - 1
    BY EvictionLeavesRoom DEF HistorianTypeOK
  <2>2. QED
    BY <1>1, <2>1
<1>6. /\ pendingCount' \in 0 .. PendingMax /\ flushing' \in NotFlushing .. PendingMax
      /\ flushing' = NotFlushing => pendingCount' < PendingMax
  <2>1. pendingCount \in 0 .. PendingMax /\ pendingCount < PendingMax
    BY <1>1 DEF HistorianTypeOK
  <2>2. ~FlushDue(pendingCount + 1, Clock) => pendingCount + 1 < PendingMax
    BY <2>1 DEF FlushDue
  <2>3. QED
    BY <1>1, <2>1, <2>2 DEF NotFlushing
<1>7. QED
  BY <1>1, <1>3, <1>4, <1>5, <1>6 DEF HistorianTypeOK, flashVars

LEMMA HistorianTypeAppend ==
  ASSUME HistorianTypeOK, NEW ok \in AppendResults, AppendRecord(ok)
  PROVE  HistorianTypeOK'
<1> USE HistorianAssumption
<1> DEFINE pos == (pendingStart + flushing) % Capacity
<1>1. /\ flushing \in 0 .. pendingCount - 1 /\ flushing' = flushing + 1
      /\ UNCHANGED << ramVars, time, started, log >>
      /\ \/ /\ flash' = [flash EXCEPT ![pos] = ring[pos]]
            /\ durable' = Append(durable, ring[pos])
            /\ flashCount' = count /\ flashIndex' = writeIndex
         \/ UNCHANGED flashVars
  BY Zenon DEF AppendRecord
<1>2. pos \in Slots
  <2>1. pendingStart + flushing \in Int
    BY <1>1 DEF HistorianTypeOK, Slots
  <2>2. QED
    BY <2>1, ModRange DEF Slots
<1>3. ring[pos] \in StoredRecord
  BY <1>2 DEF HistorianTypeOK
<1> HIDE DEF pos
<1>4. /\ flash' \in [Slots -> StoredRecord] /\ durable' \in Seq(StoredRecord)
      /\ flashCount' \in 0 .. Capacity /\ flashIndex' \in Slots
  <2>1. /\ flash \in [Slots -> StoredRecord] /\ durable \in Seq(StoredRecord)
        /\ flashCount \in 0 .. Capacity /\ flashIndex \in Slots
        /\ count \in 0 .. Capacity /\ writeIndex \in Slots
    BY DEF HistorianTypeOK
  <2>2. CASE UNCHANGED flashVars
    BY <2>1, <2>2 DEF flashVars
  <2>3. CASE ~UNCHANGED flashVars
    <3>1. /\ flash' = [flash EXCEPT ![pos] = ring[pos]]
          /\ durable' = Append(durable, ring[pos])
          /\ flashCount' = count /\ flashIndex' = writeIndex
      BY <1>1, <2>3
    <3>2. flash' \in [Slots -> StoredRecord]
      BY <1>3, <2>1, <3>1
    <3>3. durable' \in Seq(StoredRecord)
      BY <1>3, <2>1, <3>1
    <3>4. QED
      BY <2>1, <3>1, <3>2, <3>3
  <2>4. QED
    BY <2>2, <2>3
<1>5. flushing' \in NotFlushing .. PendingMax /\ flushing' # NotFlushing
  BY <1>1 DEF HistorianTypeOK, NotFlushing
<1>6. QED
  BY <1>1, <1>4, <1>5 DEF HistorianTypeOK, ramVars

LEMMA HistorianTypeStep ==
  HistorianTypeOK /\ [HistorianNext]_historianVars => HistorianTypeOK'
<1> SUFFICES ASSUME HistorianTypeOK, [HistorianNext]_historianVars PROVE HistorianTypeOK'
  OBVIOUS
<1> USE HistorianAssumption
<1>1. CASE FlushCall
  BY <1>1 DEF FlushCall, HistorianTypeOK, ramVars, flashVars, NotFlushing
<1>2. CASE FlushEnd
  <2>1. Clock \in 0 .. ClockMod - 1
    BY ClockInRange DEF HistorianTypeOK
  <2>2. QED
    BY <1>2, <2>1 DEF FlushEnd, HistorianTypeOK, flashVars, NotFlushing, Slots
<1>3. CASE PowerFails
  BY <1>3 DEF PowerFails, HistorianTypeOK, flashVars, NotFlushing, Slots
<1>4. CASE Tick
  BY <1>4 DEF Tick, HistorianTypeOK, ramVars, flashVars
<1>5. CASE UNCHANGED historianVars
  BY <1>5 DEF historianVars, HistorianTypeOK, ramVars, flashVars
<1>6. QED
  BY <1>1, <1>2, <1>3, <1>4, <1>5, HistorianTypeWrite, HistorianTypeAppend DEF HistorianNext

(* The historian's types hold whatever power failures and failed appends   *)
(* there are: no index leaves the ring, and between two calls fewer        *)
(* records are pending than HISTORIAN_PENDING_MAX.                         *)
THEOREM HistorianTypeCorrect == HistorianSpec => []HistorianTypeOK
BY HistorianTypeInit, HistorianTypeStep, PTL DEF HistorianSpec

-----------------------------------------------------------------------------
(* Slot (k - 1) % Capacity holds the k-th record of s, for the newest      *)
(* Capacity records of s.                                                  *)
Holds(slots, s) ==
  \A k \in 1 .. Len(s) : k > Len(s) - Capacity => slots[(k - 1) % Capacity] = s[k]

LEMMA HoldsAppend ==
  ASSUME NEW slots \in [Slots -> StoredRecord], NEW s \in Seq(StoredRecord),
         Holds(slots, s), NEW r \in StoredRecord
  PROVE  Holds([slots EXCEPT ![Len(s) % Capacity] = r], Append(s, r))
<1> USE HistorianAssumption
<1> DEFINE after == [slots EXCEPT ![Len(s) % Capacity] = r]
           longer == Append(s, r)
<1>1. /\ Len(longer) = Len(s) + 1 /\ longer[Len(s) + 1] = r
      /\ Len(s) \in Nat /\ \A k \in 1 .. Len(s) : longer[k] = s[k]
  OBVIOUS
<1> HIDE DEF after, longer
<1> SUFFICES \A k \in 1 .. Len(s) + 1 :
               k > Len(s) + 1 - Capacity => after[(k - 1) % Capacity] = longer[k]
  <2> SUFFICES Holds(after, longer)
    BY DEF after, longer
  <2>1. QED
    BY <1>1 DEF Holds
<1> TAKE k \in 1 .. Len(s) + 1
<1> HAVE k > Len(s) + 1 - Capacity
<1>2. k - 1 \in Int /\ Len(s) \in Int
  BY <1>1
<1>3. (k - 1) % Capacity \in Slots /\ Len(s) % Capacity \in Slots
  BY <1>2, ModRange DEF Slots
<1>4. CASE k = Len(s) + 1
  <2>1. (k - 1) % Capacity = Len(s) % Capacity
    BY <1>1, <1>4
  <2>2. QED
    BY <1>1, <1>3, <1>4, <2>1 DEF after
<1>5. CASE k <= Len(s)
  <2> DEFINE d == Len(s) - (k - 1)
  <2>1. d \in 1 .. Capacity - 1 /\ (k - 1) + d = Len(s)
    BY <1>1, <1>5
  <2> HIDE DEF d
  <2>2. ((k - 1) + d) % Capacity # (k - 1) % Capacity
    BY <1>2, <2>1, ModDiffers
  <2>3. slots[(k - 1) % Capacity] = s[k] /\ longer[k] = s[k]
    BY <1>1, <1>5 DEF Holds
  <2>4. after[(k - 1) % Capacity] = slots[(k - 1) % Capacity]
    BY <1>3, <2>1, <2>2 DEF after
  <2>5. QED
    BY <2>3, <2>4
<1>6. QED
  BY <1>1, <1>4, <1>5

(* How many of the pending records the flush in progress has appended. *)
Flushed == IF flushing > 0 THEN flushing ELSE 0

PendingInv ==
  /\ pendingCount <= Len(log)
  /\ flushing # NotFlushing => pendingCount > 0 /\ flushing <= pendingCount
  /\ pendingCount > 0 => pendingStart = (Len(log) - pendingCount) % Capacity

PlaceInv ==
  /\ writeIndex = Len(log) % Capacity /\ count <= Len(log)
  /\ IF flushing > 0 THEN flashCount = count /\ flashIndex = writeIndex
     ELSE flashCount <= Len(durable) /\ flashIndex = Len(durable) % Capacity

DurableInv ==
  /\ Len(durable) = Len(log) - pendingCount + Flushed
  /\ \A k \in 1 .. Len(durable) : durable[k] = log[k]

(* Records go to their slots, in RAM and in flash, and what is in flash is *)
(* what was written except the pending records not yet appended.           *)
StoreInv ==
  /\ PendingInv /\ PlaceInv /\ DurableInv
  /\ Holds(ring, log) /\ Holds(flash, durable)

(* Every append succeeds and power does not fail within a flush. *)
FlushSafe == ~CrashInFlush /\ AppendResults \subseteq {TRUE}

LEMMA StoreInit == HistorianInit => StoreInv
<1> SUFFICES ASSUME HistorianInit PROVE StoreInv
  OBVIOUS
<1> USE HistorianAssumption
<1>1. Len(log) = 0 /\ Len(durable) = 0
  BY DEF HistorianInit
<1>2. 0 % Capacity = 0
  BY ModBelow
<1>3. PendingInv /\ PlaceInv /\ DurableInv
  BY <1>1, <1>2 DEF HistorianInit, PendingInv, PlaceInv, DurableInv, Flushed, NotFlushing
<1>4. Holds(ring, log) /\ Holds(flash, durable)
  BY <1>1 DEF Holds
<1>5. QED
  BY <1>3, <1>4 DEF StoreInv

LEMMA StoreWrite == HistorianTypeOK /\ StoreInv /\ Write => StoreInv'
<1> SUFFICES ASSUME HistorianTypeOK, StoreInv, Write PROVE StoreInv'
  OBVIOUS
<1> USE HistorianAssumption
<1> DEFINE e == [id |-> Len(log) + 1, ts |-> Clock, at |-> time]
<1>1. /\ flushing = NotFlushing /\ Len(log) < MaxWrites
      /\ ring' = [ring EXCEPT ![writeIndex] = e] /\ log' = Append(log, e)
      /\ writeIndex' = (writeIndex + 1) % Capacity
      /\ count' = AfterEviction(Clock) + 1
      /\ pendingStart' = (IF pendingCount = 0 THEN writeIndex ELSE pendingStart)
      /\ pendingCount' = pendingCount + 1
      /\ flushing' \in {0, NotFlushing}
      /\ UNCHANGED << lastFlush, flash, flashIndex, flashCount, durable, time, started >>
  BY Zenon DEF Write, flashVars
<1>2. /\ ring \in [Slots -> StoredRecord] /\ log \in Seq(StoredRecord)
      /\ durable \in Seq(StoredRecord)
      /\ pendingCount \in Nat /\ count \in 0 .. Capacity /\ Len(log) \in Nat
      /\ Len(durable) \in Nat /\ flashCount \in Nat
  BY DEF HistorianTypeOK
<1>3. e \in StoredRecord
  <2>1. Clock \in 0 .. ClockMod - 1 /\ time \in 0 .. MaxTime
    BY ClockInRange DEF HistorianTypeOK
  <2>2. Len(log) + 1 \in 0 .. MaxWrites
    BY <1>1, <1>2
  <2>3. QED
    BY <2>1, <2>2 DEF StoredRecord
<1> HIDE DEF e
<1>4. Len(log') = Len(log) + 1 /\ \A k \in 1 .. Len(log) : log'[k] = log[k]
  BY <1>1, <1>2, <1>3
<1>5. writeIndex' = Len(log') % Capacity
  <2>1. Len(log) \in Int /\ 1 \in Int
    BY <1>2
  <2>2. ((Len(log) % Capacity) + 1) % Capacity = (Len(log) + 1) % Capacity
    BY <2>1, ModAdd
  <2>3. writeIndex = Len(log) % Capacity
    BY DEF StoreInv, PlaceInv
  <2>4. QED
    BY <1>1, <1>4, <2>2, <2>3
<1>6. PendingInv'
  <2>1. pendingCount' > 0 /\ pendingCount' <= Len(log')
        /\ Len(log') - pendingCount' = Len(log) - pendingCount
    BY <1>1, <1>2, <1>4 DEF StoreInv, PendingInv
  <2>2. pendingStart' = (Len(log) - pendingCount) % Capacity
    <3>1. CASE pendingCount = 0
      BY <1>1, <1>2, <3>1 DEF StoreInv, PlaceInv
    <3>2. CASE pendingCount # 0
      BY <1>1, <1>2, <3>2 DEF StoreInv, PendingInv
    <3>3. QED
      BY <3>1, <3>2
  <2>3. flushing' <= pendingCount'
    BY <1>1, <1>2 DEF NotFlushing
  <2>4. QED
    BY <2>1, <2>2, <2>3 DEF PendingInv
<1>7. PlaceInv'
  <2>1. AfterEviction(Clock) \in Int /\ AfterEviction(Clock) <= count
    BY <1>2, EvictionLeavesRoom
  <2>2. count' <= Len(log')
    BY <1>1, <1>2, <1>4, <2>1 DEF StoreInv, PlaceInv
  <2>3. ~(flushing' > 0) /\ ~(flushing > 0)
    BY <1>1 DEF NotFlushing
  <2>4. flashCount' <= Len(durable') /\ flashIndex' = Len(durable') % Capacity
    BY <1>1, <2>3 DEF StoreInv, PlaceInv
  <2>5. QED
    BY <1>5, <2>2, <2>3, <2>4 DEF PlaceInv
<1>8. DurableInv'
  <2>1. Flushed = 0 /\ Flushed' = 0
    BY <1>1 DEF Flushed, NotFlushing
  <2>2. Len(durable) = Len(log) - pendingCount
    BY <1>2, <2>1 DEF StoreInv, DurableInv
  <2>3. Len(durable') = Len(log') - pendingCount' + Flushed'
    BY <1>1, <1>2, <1>4, <2>1, <2>2
  <2>4. ASSUME NEW k \in 1 .. Len(durable) PROVE durable'[k] = log'[k]
    <3>1. k \in 1 .. Len(log)
      BY <1>2, <2>2
    <3>2. durable[k] = log[k]
      BY DEF StoreInv, DurableInv
    <3>3. QED
      BY <1>1, <1>4, <3>1, <3>2
  <2>5. QED
    BY <1>1, <2>3, <2>4 DEF DurableInv
<1>9. Holds(ring', log')
  <2>1. writeIndex = Len(log) % Capacity /\ Holds(ring, log)
    BY DEF StoreInv, PlaceInv
  <2>2. Holds([ring EXCEPT ![Len(log) % Capacity] = e], Append(log, e))
    BY <1>2, <1>3, <2>1, HoldsAppend
  <2>3. QED
    BY <1>1, <2>1, <2>2
<1>10. Holds(flash', durable')
  BY <1>1 DEF StoreInv
<1>11. QED
  BY <1>6, <1>7, <1>8, <1>9, <1>10 DEF StoreInv, Holds

LEMMA StoreAppend == HistorianTypeOK /\ StoreInv /\ AppendRecord(TRUE) => StoreInv'
<1> SUFFICES ASSUME HistorianTypeOK, StoreInv, AppendRecord(TRUE) PROVE StoreInv'
  OBVIOUS
<1> USE HistorianAssumption
<1> DEFINE pos == (pendingStart + flushing) % Capacity
<1>1. /\ flushing \in 0 .. pendingCount - 1 /\ flushing' = flushing + 1
      /\ UNCHANGED << ring, writeIndex, count, pendingStart, pendingCount, log >>
      /\ flash' = [flash EXCEPT ![pos] = ring[pos]]
      /\ durable' = Append(durable, ring[pos])
      /\ flashCount' = count /\ flashIndex' = writeIndex
  BY Zenon DEF AppendRecord, ramVars
<1> HIDE DEF pos
<1>2. /\ flash \in [Slots -> StoredRecord] /\ log \in Seq(StoredRecord)
      /\ durable \in Seq(StoredRecord)
      /\ pendingCount \in 0 .. PendingMax /\ Len(log) \in Nat /\ Len(durable) \in Nat
  BY DEF HistorianTypeOK
<1>3. Len(durable) = Len(log) - pendingCount + flushing
  BY <1>1, <1>2 DEF StoreInv, DurableInv, Flushed
<1>4. pos = Len(durable) % Capacity
  <2>1. pendingStart = (Len(log) - pendingCount) % Capacity
    BY <1>1, <1>2 DEF StoreInv, PendingInv
  <2>2. Len(log) - pendingCount \in Int /\ flushing \in Int
    BY <1>1, <1>2
  <2>3. (((Len(log) - pendingCount) % Capacity) + flushing) % Capacity
          = (Len(log) - pendingCount + flushing) % Capacity
    BY <2>2, ModAdd
  <2>4. QED
    BY <1>3, <2>1, <2>3 DEF pos
<1> DEFINE k == Len(durable) + 1
<1>5. k \in 1 .. Len(log) /\ k > Len(log) - Capacity /\ k - 1 = Len(durable)
  BY <1>1, <1>2, <1>3
<1>6. ring[pos] = log[k] /\ ring[pos] \in StoredRecord
  <2>1. ring[(k - 1) % Capacity] = log[k]
    <3> HIDE DEF k
    <3>1. QED
      BY <1>5 DEF StoreInv, Holds
  <2>2. log[k] \in StoredRecord
    BY <1>2, <1>5
  <2>3. QED
    BY <1>4, <1>5, <2>1, <2>2
<1>7. Len(durable') = Len(durable) + 1 /\ durable'[k] = log[k]
      /\ \A i \in 1 .. Len(durable) : durable'[i] = durable[i]
  BY <1>1, <1>2, <1>6
<1>8. PendingInv'
  BY <1>1, <1>2 DEF StoreInv, PendingInv, NotFlushing
<1>9. PlaceInv'
  BY <1>1 DEF StoreInv, PlaceInv
<1>10. DurableInv'
  <2>1. Flushed' = flushing + 1
    BY <1>1 DEF Flushed
  <2>2. Len(durable') = Len(log') - pendingCount' + Flushed'
    BY <1>1, <1>2, <1>3, <1>7, <2>1
  <2>3. ASSUME NEW i \in 1 .. Len(durable') PROVE durable'[i] = log'[i]
    <3>1. CASE i = k
      BY <1>1, <1>7, <3>1
    <3>2. CASE i # k
      <4>1. i \in 1 .. Len(durable)
        BY <1>2, <1>7, <3>2
      <4>2. QED
        BY <1>1, <1>7, <4>1 DEF StoreInv, DurableInv
    <3>3. QED
      BY <3>1, <3>2
  <2>4. QED
    BY <2>2, <2>3 DEF DurableInv
<1>11. Holds(flash', durable')
  <2>1. Holds(flash, durable)
    BY DEF StoreInv
  <2>2. Holds([flash EXCEPT ![Len(durable) % Capacity] = ring[pos]], Append(durable, ring[pos]))
    BY <1>2, <1>6, <2>1, HoldsAppend
  <2>3. QED
    BY <1>1, <1>4, <2>2
<1>12. Holds(ring', log')
  BY <1>1 DEF StoreInv
<1>13. QED
  BY <1>8, <1>9, <1>10, <1>11, <1>12 DEF StoreInv, Holds

LEMMA StoreStep ==
  ASSUME FlushSafe, HistorianTypeOK, StoreInv, [HistorianNext]_historianVars
  PROVE  StoreInv'
<1> USE HistorianAssumption
<1>0. /\ flushing \in Int /\ pendingCount \in Nat /\ Len(log) \in Nat
      /\ Len(durable) \in Nat /\ count \in Nat /\ flashCount \in Nat
  BY DEF HistorianTypeOK, NotFlushing
<1>1. CASE FlushCall
  <2>1. /\ flushing = NotFlushing /\ pendingCount > 0 /\ flushing' = 0
        /\ UNCHANGED << ramVars, flashVars, log >>
    BY <1>1 DEF FlushCall
  <2>2. PendingInv' /\ PlaceInv' /\ DurableInv'
    <3>1. PendingInv'
      BY <1>0, <2>1, SMTT(30) DEF StoreInv, PendingInv, NotFlushing, ramVars, flashVars
    <3>2. PlaceInv'
      BY <1>0, <2>1, SMTT(30) DEF StoreInv, PlaceInv, NotFlushing, ramVars, flashVars
    <3>3. DurableInv'
      BY <1>0, <2>1, SMTT(30) DEF StoreInv, DurableInv, Flushed, NotFlushing, ramVars, flashVars
    <3>4. QED
      BY <3>1, <3>2, <3>3
  <2>3. QED
    BY <2>1, <2>2 DEF StoreInv, Holds, ramVars, flashVars
<1>2. CASE FlushEnd
  <2>1. /\ flushing = pendingCount /\ pendingCount' = 0 /\ flushing' = NotFlushing
        /\ UNCHANGED << ring, writeIndex, count, flashVars, log >>
    BY <1>2 DEF FlushEnd
  <2>2. flushing > 0
    BY <1>0, <2>1 DEF StoreInv, PendingInv, NotFlushing
  <2>3. Len(durable) = Len(log)
    BY <1>0, <2>1, <2>2 DEF StoreInv, DurableInv, Flushed
  <2>4. PendingInv' /\ PlaceInv' /\ DurableInv'
    BY <1>0, <2>1, <2>2, <2>3 DEF StoreInv, PendingInv, PlaceInv, DurableInv, Flushed,
                                  NotFlushing, flashVars
  <2>5. QED
    BY <2>1, <2>4 DEF StoreInv, Holds, flashVars
<1>3. CASE PowerFails
  <2>1. /\ flushing = NotFlushing /\ ring' = flash /\ count' = flashCount
        /\ writeIndex' = flashIndex /\ pendingCount' = 0 /\ flushing' = NotFlushing
        /\ log' = durable /\ UNCHANGED flashVars
    BY <1>3 DEF PowerFails, FlushSafe
  <2>2. PendingInv' /\ PlaceInv' /\ DurableInv'
    <3>1. PendingInv'
      BY <1>0, <2>1, SMTT(30) DEF StoreInv, PendingInv, NotFlushing, flashVars
    <3>2. PlaceInv'
      BY <1>0, <2>1, SMTT(30) DEF StoreInv, PlaceInv, NotFlushing, flashVars
    <3>3. DurableInv'
      BY <1>0, <2>1, SMTT(30) DEF StoreInv, DurableInv, Flushed, NotFlushing, flashVars
    <3>4. QED
      BY <3>1, <3>2, <3>3
  <2>3. QED
    BY <2>1, <2>2 DEF StoreInv, Holds, flashVars
<1>4. CASE Tick \/ UNCHANGED historianVars
  <2>1. UNCHANGED << ramVars, flushing, flashVars, log >>
    BY <1>4 DEF Tick, historianVars
  <2>2. QED
    BY <2>1 DEF StoreInv, PendingInv, PlaceInv, DurableInv, Flushed, Holds, ramVars, flashVars
<1>5. ASSUME NEW ok \in AppendResults, AppendRecord(ok) PROVE StoreInv'
  <2>1. ok = TRUE
    BY DEF FlushSafe
  <2>2. QED
    BY <1>5, <2>1, StoreAppend
<1>6. QED
  BY <1>1, <1>2, <1>3, <1>4, <1>5, StoreWrite DEF HistorianNext

LEMMA StoreCorrect ==
  ASSUME FlushSafe
  PROVE  HistorianSpec => [](HistorianTypeOK /\ StoreInv)
BY HistorianTypeInit, HistorianTypeStep, StoreInit, StoreStep, PTL DEF HistorianSpec

(* What historian_read() returns is the end of what was written. *)
LEMMA ReadReturns ==
  ASSUME HistorianTypeOK, StoreInv, NEW j \in 1 .. count
  PROVE  /\ Len(log) - count + j \in 1 .. Len(log)
         /\ Contents(ring, writeIndex, count)[j] = log[Len(log) - count + j]
<1> USE HistorianAssumption
<1> DEFINE k == Len(log) - count + j
           d == j - count - 1
<1>1. count \in 0 .. Capacity /\ Len(log) \in Nat /\ count <= Len(log)
  BY DEF HistorianTypeOK, StoreInv, PlaceInv
<1>2. /\ k \in 1 .. Len(log) /\ k > Len(log) - Capacity
      /\ Len(log) \in Int /\ d \in Int /\ k - 1 = Len(log) + d
  BY <1>1
<1>3. writeIndex = Len(log) % Capacity /\ writeIndex \in Int
  BY DEF HistorianTypeOK, StoreInv, PlaceInv, Slots
<1>4. writeIndex - count + j - 1 = writeIndex + d
  BY <1>1, <1>3
<1>5. Contents(ring, writeIndex, count)[j] = ring[(writeIndex - count + j - 1) % Capacity]
  BY DEF Contents
<1> HIDE DEF k, d
<1>6. ((Len(log) % Capacity) + d) % Capacity = (Len(log) + d) % Capacity
  BY <1>2, ModAdd
<1>7. ring[(k - 1) % Capacity] = log[k]
  BY <1>2 DEF StoreInv, Holds
<1>8. QED
  BY <1>2, <1>3, <1>4, <1>5, <1>6, <1>7 DEF k

(* If appends succeed and power fails between flushes only, the records    *)
(* historian_read() returns are the newest written, in order and without a *)
(* hole, however often the hub restarted from flash.                       *)
THEOREM RestartKeepsRecent ==
  ASSUME FlushSafe
  PROVE  HistorianSpec => []RingHoldsRecent
<1>1. HistorianTypeOK /\ StoreInv => RingHoldsRecent
  <2> SUFFICES ASSUME HistorianTypeOK, StoreInv PROVE RingHoldsRecent
    OBVIOUS
  <2> DEFINE m == Len(log) - count + 1
             held == Contents(ring, writeIndex, count)
             newest == SubSeq(log, m, Len(log))
  <2>1. /\ count \in Nat /\ Len(log) \in Nat /\ count <= Len(log)
        /\ log \in Seq(StoredRecord)
    BY HistorianAssumption DEF HistorianTypeOK, StoreInv, PlaceInv
  <2>2. /\ m \in Int /\ Len(log) \in Int /\ m \in 1 .. Len(log) + 1
        /\ Len(log) - m + 1 = count
    BY <2>1
  <2>3. \A k \in m .. Len(log) : log[k] \in StoredRecord
    BY <2>1, <2>2
  <2>4. \A j \in 1 .. count :
          Len(log) - count + j \in 1 .. Len(log) /\ held[j] = log[Len(log) - count + j]
    BY ReadReturns
  <2>5. \A j \in 1 .. count : m + j - 1 = Len(log) - count + j
    BY <2>1
  <2>6. held \in Seq(StoredRecord) /\ Len(held) = count
    <3>1. held = [j \in 1 .. count |-> held[j]]
      BY DEF Contents
    <3> HIDE DEF held
    <3>2. \A j \in 1 .. count : held[j] \in StoredRecord
      <4> TAKE j \in 1 .. count
      <4>1. Len(log) - count + j \in 1 .. Len(log) /\ held[j] = log[Len(log) - count + j]
        BY <2>4
      <4>2. log[Len(log) - count + j] \in StoredRecord
        BY <2>1, <4>1
      <4>3. QED
        BY <4>1, <4>2
    <3>3. held \in [1 .. count -> StoredRecord]
      BY <3>1, <3>2
    <3>4. QED
      BY <2>1, <3>3
  <2> HIDE DEF m, held
  <2>7. /\ newest \in Seq(StoredRecord)
        /\ Len(newest) = IF m <= Len(log) THEN Len(log) - m + 1 ELSE 0
        /\ \A k \in 1 .. Len(log) - m + 1 : newest[k] = log[m + k - 1]
    BY <2>2, <2>3, SubSeqProperties
  <2> HIDE DEF newest
  <2>8. Len(newest) = count
    BY <2>1, <2>2, <2>7
  <2>9. \A j \in 1 .. count : newest[j] = held[j]
    <3> TAKE j \in 1 .. count
    <3>1. newest[j] = log[m + j - 1]
      BY <2>2, <2>7
    <3>2. QED
      BY <3>1, <2>4, <2>5
  <2>10. held = newest
    <3>1. Len(held) = Len(newest) /\ \A j \in 1 .. Len(held) : held[j] = newest[j]
      BY <2>6, <2>8, <2>9
    <3>2. QED
      BY <2>6, <2>7, <3>1, SeqEqual
  <2>11. QED
    BY <2>1, <2>10 DEF RingHoldsRecent, held, newest, m
<1>2. QED
  BY <1>1, StoreCorrect, PTL

-----------------------------------------------------------------------------
LEMMA ModAtMost ==
  ASSUME NEW n \in Nat \ {0}, NEW x \in Nat
  PROVE  x % n <= x
<1>1. CASE x < n
  BY <1>1, ModBelow
<1>2. CASE x >= n
  <2>1. x % n \in 0 .. n - 1
    BY ModRange
  <2>2. QED
    BY <1>2, <2>1
<1>3. QED
  BY <1>1, <1>2

(* Two readings of a clock that wraps differ by no more than the time      *)
(* between them, unless the later one is the smaller.                      *)
LEMMA ModElapsed ==
  ASSUME NEW n \in Nat \ {0}, NEW x \in Nat, NEW d \in Nat
  PROVE  (x + d) % n <= (x % n) + d
<1>0. x \in Int /\ d \in Int
  OBVIOUS
<1>1. x % n \in Nat
  BY <1>0, ModRange
<1> DEFINE r == x % n
<1>2. (r + d) % n = (x + d) % n
  BY <1>0, ModAdd
<1> HIDE DEF r
<1>3. (r + d) % n <= r + d
  BY <1>1, ModAtMost DEF r
<1>4. QED
  BY <1>2, <1>3 DEF r

(* A record written since the hub last started carries the clock of that   *)
(* moment; one that an earlier boot wrote was written by then.             *)
Dated(r) ==
  /\ r.at <= time
  /\ r.at > started => r.ts = (1 + r.at - started) % ClockMod

DatedInv == \A s \in Slots : Dated(ring[s]) /\ Dated(flash[s])

LEMMA DatedInit == HistorianInit => DatedInv
<1> SUFFICES ASSUME HistorianInit PROVE DatedInv
  OBVIOUS
<1>1. Dated(Blank)
  BY DEF HistorianInit, Dated, Blank
<1>2. QED
  BY <1>1 DEF HistorianInit, DatedInv

LEMMA DatedStep ==
  ASSUME HistorianTypeOK, DatedInv, [HistorianNext]_historianVars
  PROVE  DatedInv'
<1> USE HistorianAssumption
<1>0. /\ ring \in [Slots -> StoredRecord] /\ flash \in [Slots -> StoredRecord]
      /\ time \in Nat /\ started \in Nat
  BY DEF HistorianTypeOK
<1>1. ASSUME UNCHANGED << time, started >>,
             \A s \in Slots : Dated(ring'[s]) /\ Dated(flash'[s])
      PROVE  DatedInv'
  BY <1>1 DEF DatedInv, Dated
<1>2. CASE Write
  <2> DEFINE e == [id |-> Len(log) + 1, ts |-> Clock, at |-> time]
  <2>1. /\ ring' = [ring EXCEPT ![writeIndex] = e]
        /\ UNCHANGED << flash, time, started >>
    BY Zenon, <1>2 DEF Write, flashVars
  <2>2. e.at = time /\ e.ts = Clock
    OBVIOUS
  <2> HIDE DEF e
  <2>3. Dated(e)
    BY <1>0, <2>2 DEF Dated, Clock
  <2>4. QED
    BY <1>0, <1>1, <2>1, <2>3 DEF DatedInv
<1>3. ASSUME NEW ok, AppendRecord(ok) PROVE DatedInv'
  <2> DEFINE pos == (pendingStart + flushing) % Capacity
  <2>1. /\ UNCHANGED << ring, time, started >>
        /\ flash' = [flash EXCEPT ![pos] = ring[pos]] \/ flash' = flash
    BY Zenon, <1>3 DEF AppendRecord, ramVars, flashVars
  <2>2. pos \in Slots
    <3>1. pendingStart + flushing \in Int
      BY DEF HistorianTypeOK, Slots, NotFlushing
    <3>2. QED
      BY <3>1, ModRange DEF Slots
  <2> HIDE DEF pos
  <2>3. QED
    BY <1>0, <1>1, <2>1, <2>2 DEF DatedInv
<1>4. CASE PowerFails
  <2>1. ring' = flash /\ flash' = flash /\ started' = time /\ time' = time
    BY <1>4 DEF PowerFails, flashVars
  <2>2. ASSUME NEW s \in Slots PROVE flash[s].at \in Int /\ flash[s].at <= time
    <3>1. flash[s] \in StoredRecord
      BY <1>0
    <3>2. QED
      BY <3>1 DEF StoredRecord, DatedInv, Dated
  <2>3. QED
    BY <1>0, <2>1, <2>2 DEF DatedInv, Dated
<1>5. CASE Tick
  <2>1. ring' = ring /\ flash' = flash /\ started' = started /\ time' = time + 1
    BY <1>5 DEF Tick, ramVars, flashVars
  <2>2. ASSUME NEW s \in Slots
        PROVE  /\ ring[s].at \in Int /\ ring[s].at <= time
               /\ flash[s].at \in Int /\ flash[s].at <= time
    <3>1. ring[s] \in StoredRecord /\ flash[s] \in StoredRecord
      BY <1>0
    <3>2. ring[s].at \in Int /\ flash[s].at \in Int
      BY <3>1 DEF StoredRecord
    <3>3. QED
      BY <3>2 DEF DatedInv, Dated
  <2>3. QED
    BY <1>0, <2>1, <2>2 DEF DatedInv, Dated
<1>6. CASE UNCHANGED << ring, flash, time, started >>
  BY <1>6 DEF DatedInv, Dated
<1>7. FlushCall \/ FlushEnd \/ UNCHANGED historianVars => UNCHANGED << ring, flash, time, started >>
  BY DEF FlushCall, FlushEnd, historianVars, ramVars, flashVars
<1>8. QED
  BY <1>2, <1>3, <1>4, <1>5, <1>6, <1>7 DEF HistorianNext

(* A record the age loop removes is as old as it looks: the difference of  *)
(* the stamps is no more than the true age, or the stamp is ahead of the   *)
(* clock.                                                                  *)
LEMMA AgeIsTrue ==
  ASSUME HistorianTypeOK, NEW r \in StoredRecord, Dated(r), TooOld(r, Clock)
  PROVE  time - r.at > MaxAge \/ r = Blank \/ AheadOfClock(r)
<1> USE HistorianAssumption
<1> SUFFICES ASSUME r # Blank, ~AheadOfClock(r) PROVE time - r.at > MaxAge
  OBVIOUS
<1>0. /\ time \in Nat /\ started \in 0 .. time
      /\ r.at \in Nat /\ r.ts \in 0 .. ClockMod - 1 /\ r.at <= time
  BY DEF HistorianTypeOK, StoredRecord, Dated
<1>1. Clock \in 0 .. ClockMod - 1
  BY ClockInRange DEF HistorianTypeOK
<1>2. Clock > 0 /\ r.ts > 0 /\ (Clock - r.ts) % TimeMod > MaxAge
  BY DEF TooOld
<1> DEFINE x == 1 + r.at - started
           d == time - r.at
<1>3. d \in Nat /\ 1 + time - started = x + d /\ 1 + time - started \in Nat
  BY <1>0
<1>4. r.ts <= Clock
  <2> SUFFICES ASSUME r.ts > Clock PROVE FALSE
    BY <1>0, <1>1
  <2>1. r.at > started /\ 1 + time - started < ClockMod
    BY <1>0 DEF AheadOfClock
  <2>2. x \in 0 .. ClockMod - 1 /\ 1 + time - started \in 0 .. ClockMod - 1
    BY <1>0, <2>1
  <2>3. r.ts = x /\ Clock = 1 + time - started
    BY <2>1, <2>2, ModBelow DEF Dated, Clock
  <2>4. QED
    BY <1>0, <1>3, <2>3
<1>5. Clock - r.ts \in 0 .. TimeMod - 1 /\ TimeMod \in Nat \ {0}
  BY <1>0, <1>1, <1>4
<1>6. (Clock - r.ts) % TimeMod = Clock - r.ts
  BY <1>5, ModBelow
<1>7. Clock - r.ts <= d
  <2>1. CASE r.at > started
    <3>1. x \in Nat /\ r.ts = x % ClockMod /\ Clock = (x + d) % ClockMod
      BY <1>0, <1>3, <2>1 DEF Dated, Clock
    <3> HIDE DEF x, d
    <3>2. (x + d) % ClockMod <= (x % ClockMod) + d
      BY <1>3, <3>1, ModElapsed
    <3>3. QED
      BY <1>0, <1>1, <1>3, <3>1, <3>2
  <2>2. CASE r.at <= started
    <3>1. (1 + time - started) % ClockMod <= 1 + time - started
      BY <1>3, ModAtMost
    <3>2. Clock <= 1 + time - started
      BY <3>1 DEF Clock
    <3>3. QED
      BY <1>0, <1>1, <1>2, <2>2, <3>2
  <2>3. QED
    BY <1>0, <2>1, <2>2
<1>8. QED
  BY <1>0, <1>1, <1>2, <1>3, <1>6, <1>7

(* What a write removes from the ring is older than 30 days in true time,  *)
(* or does not decrypt, or is the oldest one of a full ring, or carries a  *)
(* stamp ahead of the clock, for a clock that starts again at every boot   *)
(* and wraps as millis() does, and whatever appends and flushes fail.      *)
THEOREM EvictionIsByAge == HistorianSpec => EvictsOnlyOld
<1> USE HistorianAssumption
<1> DEFINE Evicted(r, j) ==
             \/ time - r.at > MaxAge
             \/ r = Blank
             \/ count = Capacity /\ j = 1
             \/ AheadOfClock(r)
           Evicts == Write => \A j \in 1 .. count + 1 - count' :
                       Evicted(Contents(ring, writeIndex, count)[j], j)
<1>1. ASSUME HistorianTypeOK, DatedInv, Write, NEW j \in 1 .. count + 1 - count'
      PROVE  Evicted(Contents(ring, writeIndex, count)[j], j)
  <2> DEFINE held == Contents(ring, writeIndex, count)
             pos == (writeIndex - count + j - 1) % Capacity
  <2>2. /\ count \in 0 .. Capacity /\ writeIndex \in Int
        /\ ring \in [Slots -> StoredRecord]
    BY <1>1 DEF HistorianTypeOK, Slots
  <2>3. count' = AfterEviction(Clock) + 1
    BY <1>1 DEF Write
  <2>4. PICK leading \in Leading(held, count, Clock) :
          AfterEviction(Clock)
            = IF count - leading = Capacity THEN Capacity - 1 ELSE count - leading
    BY <2>2, EvictionIs
  <2>5. leading \in 0 .. count /\ \A i \in 1 .. leading : TooOld(held[i], Clock)
    BY DEF Leading
  <2>6. CASE count - leading = Capacity
    <3>1. leading = 0 /\ count = Capacity /\ count' = Capacity
      BY <2>2, <2>3, <2>4, <2>5, <2>6
    <3>2. j = 1
      BY <2>2, <3>1
    <3>3. QED
      BY <3>1, <3>2
  <2>7. CASE count - leading # Capacity
    <3>1. j \in 1 .. leading /\ j \in 1 .. count
      BY <2>2, <2>3, <2>4, <2>5, <2>7
    <3>2. TooOld(held[j], Clock)
      BY <2>5, <3>1
    <3>3. held[j] = ring[pos]
      BY <3>1 DEF Contents
    <3>4. pos \in Slots
      <4>1. writeIndex - count + j - 1 \in Int
        BY <2>2, <3>1
      <4>2. QED
        BY <4>1, ModRange DEF Slots
    <3> HIDE DEF held, pos
    <3>5. ring[pos] \in StoredRecord /\ Dated(ring[pos])
      BY <1>1, <2>2, <3>4 DEF DatedInv
    <3>6. time - held[j].at > MaxAge \/ held[j] = Blank \/ AheadOfClock(held[j])
      BY <1>1, <3>2, <3>3, <3>5, AgeIsTrue
    <3>7. QED
      BY <3>6 DEF held
  <2>8. QED
    BY <2>6, <2>7
<1>2. HistorianTypeOK /\ DatedInv /\ [HistorianNext]_historianVars => [Evicts]_historianVars
  BY <1>1
<1>3. HistorianTypeOK /\ DatedInv /\ [HistorianNext]_historianVars => DatedInv'
  BY DatedStep
<1> HIDE DEF Evicts
<1>4. HistorianSpec => [][Evicts]_historianVars
  BY <1>2, <1>3, DatedInit, HistorianTypeCorrect, PTL DEF HistorianSpec
<1>5. QED
  BY <1>4 DEF EvictsOnlyOld, Evicts
=============================================================================
