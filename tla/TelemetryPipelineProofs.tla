---------------------- MODULE TelemetryPipelineProofs -----------------------
(***************************************************************************)
(* Proofs about TelemetryPipeline, for every set of nodes, metrics and     *)
(* values, every size of the cache, the batches and the sequence numbers,  *)
(* and a radio that drops what a send that gave up left on the air.        *)
(***************************************************************************)
EXTENDS TelemetryPipeline, FiniteSetTheorems, TLAPS

USE CacheAssumption, PipelineAssumption

LEMMA ModRange ==
  ASSUME NEW m \in Nat \ {0}, NEW x \in Int
  PROVE  x % m \in 0 .. m - 1
OBVIOUS

(* The part of TypeOK that the cache actions change. *)
LEMMA CacheUnchanged ==
  ASSUME CacheTypeOK, UNCHANGED cacheVars
  PROVE  CacheTypeOK' /\ Cached' = Cached
BY DEF CacheTypeOK, cacheVars, Cached

LEMMA CacheFacts ==
  ASSUME CacheTypeOK
  PROVE  /\ Cached \subseteq Keys
         /\ \A x \in Cached : value[x] \in Values
         /\ \A x \in Cached : latest[x] \in [value : Values, slack : Thresholds]
BY DEF CacheTypeOK, Cached

LEMMA CachedAfterAppend ==
  ASSUME CacheTypeOK, NEW k \in Keys, order' = Append(order, k)
  PROVE  Cached' = Cached \union {k} /\ order' \in Seq(Keys) /\ Len(order') = Len(order) + 1
<1>1. order \in Seq(Keys)
  BY DEF CacheTypeOK
<1>2. /\ DOMAIN order' = 1 .. Len(order) + 1 /\ DOMAIN order = 1 .. Len(order)
      /\ \A i \in 1 .. Len(order) : order'[i] = order[i]
      /\ order'[Len(order) + 1] = k /\ Len(order) \in Nat
      /\ order' \in Seq(Keys) /\ Len(order') = Len(order) + 1
  BY <1>1
<1>3. Cached' = Cached \union {k}
  <2>1. ASSUME NEW x \in Cached' PROVE x \in Cached \union {k}
    BY <1>2, <2>1 DEF Cached
  <2>2. ASSUME NEW x \in Cached PROVE x \in Cached'
    BY <1>2, <2>2 DEF Cached
  <2>3. k \in Cached'
    <3>1. Len(order) + 1 \in DOMAIN order'
      BY <1>2
    <3>2. QED
      BY <1>2, <3>1 DEF Cached
  <2>4. QED
    BY <2>1, <2>2, <2>3
<1>4. QED
  BY <1>2, <1>3

(* A cached key has a threshold: its metric was configured before the      *)
(* first reading, and only a restart forgets either.                       *)
Configured == \A k \in Cached : k[2] \in DOMAIN threshold

LEMMA KeyMetric ==
  ASSUME NEW k \in Keys PROVE k[2] \in Metrics
BY DEF Keys

LEMMA ThresholdFacts ==
  ASSUME CacheTypeOK
  PROVE  /\ DOMAIN threshold \subseteq Metrics
         /\ threshold \in [DOMAIN threshold -> Thresholds]
         /\ \A m \in DOMAIN threshold : threshold[m] \in Thresholds
BY DEF CacheTypeOK

(* What a reading does to the cache: the entry keeps its value, when the   *)
(* reading is within the threshold of it, or takes the reading and is      *)
(* dirty if that changed it.                                               *)
LEMMA ReadingCases ==
  ASSUME CacheTypeOK, Configured, NEW k \in Keys, NEW v \in Values, Reading(k, v)
  PROVE  /\ CacheTypeOK' /\ Configured'
         /\ threshold' = threshold /\ threshold[k[2]] \in Thresholds
         /\ Cached' = Cached \union {k}
         /\ \A x \in Cached \ {k} : value'[x] = value[x] /\ latest'[x] = latest[x]
         /\ latest'[k] = [value |-> v, slack |-> threshold[k[2]]]
         /\ dirty \subseteq dirty' /\ dirty' \subseteq dirty \union {k}
         /\ k \notin Cached => k \in dirty'
         /\ k \notin dirty' => value'[k] = value[k]
         /\ value'[k] = v \/ (k \in Cached /\ ~Exceeds(k, v) /\ value'[k] = value[k])
<1>1. threshold' = threshold
  BY DEF Reading
<1>2. k[2] \in DOMAIN threshold /\ threshold[k[2]] \in Thresholds
  <2>1. k[2] \in DOMAIN threshold
    BY DEF Reading, FirstRead, Configured
  <2>2. QED
    BY <2>1, ThresholdFacts
<1>3. latest' = [x \in Cached' |->
                  IF x = k THEN [value |-> v, slack |-> threshold[k[2]]] ELSE latest[x]]
  BY DEF Reading
<1>4. CASE FirstRead(k) /\ AllocEntry(k, v)
  <2>1. Cached' = Cached \union {k} /\ order' \in Seq(Keys) /\ Len(order') = Len(order) + 1
    BY <1>4, CachedAfterAppend DEF AllocEntry
  <2>2. Len(order') <= CacheSize
    <3>1. Len(order) \in Nat /\ Len(order) < CacheSize
      BY <1>4 DEF AllocEntry, CacheTypeOK
    <3>2. QED
      BY <2>1, <3>1
  <2>3. value' = [x \in Cached \union {k} |-> IF x = k THEN v ELSE value[x]]
        /\ dirty' = dirty \union {k} /\ k \notin Cached
    BY <1>4 DEF AllocEntry, FirstRead
  <2>4. value' \in [Cached' -> Values]
    BY <2>1, <2>3, CacheFacts
  <2>5. latest' \in [Cached' -> [value : Values, slack : Thresholds]]
    BY <2>1, <1>2, <1>3, CacheFacts
  <2>6. CacheTypeOK'
    BY <1>1, <2>1, <2>2, <2>3, <2>4, <2>5 DEF CacheTypeOK
  <2>7. Configured'
    BY <1>1, <1>2, <2>1 DEF Configured
  <2>8. QED
    BY <1>1, <1>2, <1>3, <2>1, <2>3, <2>6, <2>7
<1>5. CASE k \in Cached /\ Exceeds(k, v) /\ UpdateEntry(k, v)
  <2>1. order' = order /\ Cached' = Cached /\ Cached' = Cached \union {k}
    BY <1>5 DEF UpdateEntry, Cached
  <2>2. value' = [value EXCEPT ![k] = v]
        /\ dirty' = IF v = value[k] THEN dirty ELSE dirty \union {k}
    BY <1>5 DEF UpdateEntry
  <2>3. value \in [Cached -> Values]
    BY DEF CacheTypeOK
  <2>4. value' \in [Cached' -> Values]
    BY <2>1, <2>2, <2>3
  <2>5. latest' \in [Cached' -> [value : Values, slack : Thresholds]]
    BY <2>1, <1>2, <1>3, CacheFacts
  <2>6. CacheTypeOK'
    BY <1>1, <1>5, <2>1, <2>2, <2>4, <2>5 DEF CacheTypeOK
  <2>7. Configured'
    BY <1>1, <2>1 DEF Configured
  <2>8. QED
    BY <1>1, <1>2, <1>3, <1>5, <2>1, <2>2, <2>3, <2>6, <2>7
<1>6. CASE k \in Cached /\ ~Exceeds(k, v) /\ UNCHANGED << order, value, dirty >>
  <2>1. order' = order /\ Cached' = Cached /\ Cached' = Cached \union {k}
    BY <1>6 DEF Cached
  <2>5. latest' \in [Cached' -> [value : Values, slack : Thresholds]]
    BY <2>1, <1>2, <1>3, CacheFacts
  <2>6. CacheTypeOK'
    BY <1>1, <1>6, <2>1, <2>5 DEF CacheTypeOK
  <2>7. Configured'
    BY <1>1, <2>1 DEF Configured
  <2>8. QED
    BY <1>1, <1>2, <1>3, <1>6, <2>1, <2>6, <2>7
<1>7. QED
  BY <1>4, <1>5, <1>6 DEF Reading

LEMMA SetThresholdType ==
  ASSUME CacheTypeOK, Configured, NEW m \in Metrics, NEW t \in Thresholds, SetThreshold(m, t)
  PROVE  CacheTypeOK' /\ Configured' /\ Cached' = Cached
<1>1. UNCHANGED << order, value, dirty, latest >> /\ Cached' = Cached
  BY DEF SetThreshold, Cached
<1>2. threshold' \in [DOMAIN threshold \union {m} -> Thresholds]
  BY ThresholdFacts DEF SetThreshold
<1>3. DOMAIN threshold \union {m} \in SUBSET Metrics
  BY ThresholdFacts
<1>4. CacheTypeOK'
  BY <1>1, <1>2, <1>3 DEF CacheTypeOK
<1>5. Configured'
  BY <1>1, <1>2 DEF Configured
<1>6. QED
  BY <1>1, <1>4, <1>5

LEMMA CacheInitType ==
  /\ CacheInit => CacheTypeOK /\ Configured /\ Cached = {}
  /\ CacheRestart => CacheTypeOK' /\ Configured' /\ Cached' = {}
<1>1. ASSUME CacheInit PROVE CacheTypeOK /\ Configured /\ Cached = {}
  <2>1. Cached = {}
    BY <1>1 DEF CacheInit, Cached
  <2>2. threshold \in [{} -> Thresholds] /\ {} \in SUBSET Metrics
    BY <1>1 DEF CacheInit
  <2>3. order \in Seq(Keys) /\ Len(order) <= CacheSize
    BY <1>1 DEF CacheInit
  <2>4. value \in [Cached -> Values] /\ latest \in [Cached -> [value : Values, slack : Thresholds]]
    BY <1>1, <2>1 DEF CacheInit
  <2>5. QED
    BY <1>1, <2>1, <2>2, <2>3, <2>4 DEF CacheInit, CacheTypeOK, Configured
<1>2. ASSUME CacheRestart PROVE CacheTypeOK' /\ Configured' /\ Cached' = {}
  <2>1. Cached' = {}
    BY <1>2 DEF CacheRestart, Cached
  <2>2. threshold' \in [{} -> Thresholds] /\ {} \in SUBSET Metrics
    BY <1>2 DEF CacheRestart
  <2>3. order' \in Seq(Keys) /\ Len(order') <= CacheSize
    BY <1>2 DEF CacheRestart
  <2>4. value' \in [Cached' -> Values] /\ latest' \in [Cached' -> [value : Values, slack : Thresholds]]
    BY <1>2, <2>1 DEF CacheRestart
  <2>5. QED
    BY <1>2, <2>1, <2>2, <2>3, <2>4 DEF CacheRestart, CacheTypeOK, Configured
<1>3. QED
  BY <1>1, <1>2

LEMMA ClearDirtyType ==
  ASSUME CacheTypeOK, Configured, NEW K, ClearDirty(K)
  PROVE  CacheTypeOK' /\ Configured' /\ Cached' = Cached
<1>1. Cached' = Cached
  BY DEF ClearDirty, Cached
<1>2. QED
  BY <1>1 DEF ClearDirty, CacheTypeOK, Configured

-----------------------------------------------------------------------------
(* Type correctness. *)

LinkTypeOK ==
  /\ txSeq \in 0 .. SeqMod - 1 /\ loraSeq \in 0 .. LoraMod - 1
  /\ sending \in [state : {"JOINED", "TX_BUSY", "WAIT_ACK"}, entries : Entries,
                  attempt : 0 .. MaxRetries]
  /\ air \in Seq(Packet) /\ Len(air) <= MaxAir
  /\ acks \subseteq 0 .. LoraMod - 1

HubTypeOK ==
  /\ hubAuth \in BOOLEAN
  /\ lastSeq \in {NoSeq} \union 0 .. SeqMod - 1
  /\ hubValue \in [Keys -> Valid \union {NoValue}]
  /\ got \in [Keys -> Values \union {NoValue}]
  /\ refused \subseteq Keys

TrustTypeOK ==
  /\ now \in 0 .. MaxTime
  /\ DOMAIN trust \subseteq Nodes /\ trust \in [DOMAIN trust -> 0 .. MaxTime]
  /\ IsFiniteSet(DOMAIN trust) /\ Cardinality(DOMAIN trust) <= TrackerMax

(* TypeOK by the parts that the actions change, with the finiteness that   *)
(* the bound on the tracker needs.                                         *)
TypeInv ==
  /\ CacheTypeOK /\ Configured
  /\ gwState \in {"IDLE", "AUTHENTICATED", "FAILED"}
  /\ LinkTypeOK /\ HubTypeOK /\ TrustTypeOK

LEMMA TypeInvImplies == TypeInv => TypeOK
BY DEF TypeInv, TypeOK, LinkTypeOK, HubTypeOK, TrustTypeOK

LEMMA EntriesFacts ==
  ASSUME NEW e \in Entries
  PROVE  DOMAIN e \subseteq Keys /\ \A k \in DOMAIN e : e[k] \in Values
BY DEF Entries

LEMMA IdleType == Idle \in [state : {"JOINED", "TX_BUSY", "WAIT_ACK"}, entries : Entries,
                            attempt : 0 .. MaxRetries]
<1>1. << >> \in [{} -> Values] /\ {} \in SUBSET Keys
  OBVIOUS
<1>2. << >> \in Entries
  BY <1>1 DEF Entries
<1>3. QED
  BY <1>2 DEF Idle

LEMMA FirstDirtyFacts ==
  ASSUME NEW max PROVE FirstDirty(max) \subseteq dirty
BY DEF FirstDirty

LEMMA BatchType ==
  ASSUME CacheTypeOK
  PROVE  [k \in FirstDirty(BatchMax) |-> value[k]] \in Entries
<1>1. FirstDirty(BatchMax) \subseteq Cached /\ FirstDirty(BatchMax) \in SUBSET Keys
  BY FirstDirtyFacts, CacheFacts DEF CacheTypeOK
<1>2. [k \in FirstDirty(BatchMax) |-> value[k]] \in [FirstDirty(BatchMax) -> Values]
  BY <1>1, CacheFacts
<1>3. QED
  BY <1>1, <1>2 DEF Entries

LEMMA NextSeqType ==
  ASSUME LinkTypeOK
  PROVE  (txSeq + 1) % SeqMod \in 0 .. SeqMod - 1 /\ (loraSeq + 1) % LoraMod \in 0 .. LoraMod - 1
<1>1. txSeq + 1 \in Int /\ loraSeq + 1 \in Int
  BY DEF LinkTypeOK
<1>2. SeqMod \in Nat \ {0} /\ LoraMod \in Nat \ {0}
  OBVIOUS
<1>3. QED
  BY <1>1, <1>2, ModRange

LEMMA AbandonType ==
  ASSUME air \in Seq(Packet), Len(air) <= MaxAir, acks \subseteq 0 .. LoraMod - 1, Abandon
  PROVE  air' \in Seq(Packet) /\ Len(air') <= MaxAir /\ acks' \subseteq 0 .. LoraMod - 1
<1>1. << >> \in Seq(Packet) /\ Len(<< >>) = 0 /\ 0 <= MaxAir
  OBVIOUS
<1>2. CASE Radio = "prompt"
  <2>1. air' = << >> /\ acks' = {}
    BY <1>2 DEF Abandon
  <2>2. QED
    BY <1>1, <2>1
<1>3. CASE Radio # "prompt"
  <2>1. air' = air /\ acks' = acks
    BY <1>3 DEF Abandon
  <2>2. QED
    BY <2>1
<1>4. QED
  BY <1>2, <1>3

(* A packet handed to the radio joins the end of the queue, or is lost. *)
LEMMA TransmittedFacts ==
  ASSUME LinkTypeOK, air' \in Transmitted
  PROVE  /\ air' \in Seq(Packet) /\ Len(air') <= MaxAir
         /\ \/ air' = air
            \/ /\ DOMAIN air' = DOMAIN air \union {Len(air) + 1}
               /\ air'[Len(air) + 1] = CurrentPacket
               /\ DOMAIN air = 1 .. Len(air) /\ Len(air) \in Nat
               /\ \A i \in DOMAIN air : air'[i] = air[i]
<1>1. CurrentPacket \in Packet
  BY DEF CurrentPacket, Packet, LinkTypeOK
<1>2. CASE air' = air
  BY <1>2 DEF LinkTypeOK
<1>3. CASE Len(air) < MaxAir /\ air' = Append(air, CurrentPacket)
  <2>1. air \in Seq(Packet) /\ Len(air) \in Nat
    BY DEF LinkTypeOK
  <2>2. Len(air') = Len(air) + 1 /\ air' \in Seq(Packet)
    BY <1>1, <1>3, <2>1
  <2>3. \A i \in 1 .. Len(air) : air'[i] = air[i]
    BY <1>1, <1>3, <2>1
  <2>4. air'[Len(air) + 1] = CurrentPacket
    BY <1>1, <1>3, <2>1
  <2>5. DOMAIN air = 1 .. Len(air) /\ DOMAIN air' = 1 .. Len(air) + 1
    BY <2>1, <2>2
  <2>6. DOMAIN air' = DOMAIN air \union {Len(air) + 1} /\ Len(air') <= MaxAir
    BY <1>3, <2>1, <2>2, <2>5
  <2>7. QED
    BY <2>1, <2>2, <2>3, <2>4, <2>5, <2>6
<1>4. QED
  BY <1>2, <1>3 DEF Transmitted

(* Taking the head off leaves the others in order. *)
LEMMA TailFacts ==
  ASSUME LinkTypeOK, air # << >>, air' = Tail(air)
  PROVE  /\ air' \in Seq(Packet) /\ Len(air') <= MaxAir
         /\ 1 \in DOMAIN air /\ Head(air) = air[1] /\ Head(air) \in Packet
         /\ \A i \in DOMAIN air' : i + 1 \in DOMAIN air /\ i + 1 > 1 /\ i \in Nat /\ air'[i] = air[i + 1]
<1>1. air \in Seq(Packet) /\ Len(air) \in Nat /\ Len(air) <= MaxAir
  BY DEF LinkTypeOK
<1>2. Len(air) # 0
  BY <1>1
<1>3. Len(air') = Len(air) - 1 /\ air' \in Seq(Packet)
  BY <1>1, <1>2
<1>4. \A i \in 1 .. Len(air) - 1 : air'[i] = air[i + 1]
  BY <1>1, <1>2
<1>5. DOMAIN air = 1 .. Len(air) /\ DOMAIN air' = 1 .. Len(air) - 1
  BY <1>1, <1>3
<1>6. 1 \in DOMAIN air /\ Head(air) = air[1] /\ Head(air) \in Packet
  BY <1>1, <1>2, <1>5
<1>7. QED
  BY <1>1, <1>2, <1>3, <1>4, <1>5, <1>6

(* Adding an element to a finite set with room for it, or a member of it. *)
LEMMA BoundedUnion ==
  ASSUME NEW S, NEW x, NEW limit \in Nat, IsFiniteSet(S), Cardinality(S) <= limit,
         x \in S \/ Cardinality(S) < limit
  PROVE  IsFiniteSet(S \union {x}) /\ Cardinality(S \union {x}) <= limit
<1>1. CASE x \in S
  <2>1. S \union {x} = S
    BY <1>1
  <2>2. QED
    BY <2>1
<1>2. CASE x \notin S
  <2>1. IsFiniteSet(S \union {x}) /\ Cardinality(S \union {x}) = Cardinality(S) + 1
    BY <1>2, FS_AddElement
  <2>2. Cardinality(S) \in Nat
    BY FS_CardinalityType
  <2>3. QED
    BY <1>2, <2>1, <2>2
<1>3. QED
  BY <1>1, <1>2

LEMMA TypeInit == Init => TypeInv
<1> SUFFICES ASSUME Init PROVE TypeInv
  OBVIOUS
<1>1. CacheTypeOK /\ Configured
  BY CacheInitType DEF Init
<1>2. LinkTypeOK
  BY IdleType DEF Init, LinkTypeOK
<1>3. HubTypeOK
  BY DEF Init, HubTypeOK
<1>4. TrustTypeOK
  <2>1. DOMAIN trust = {} /\ trust \in [{} -> 0 .. MaxTime]
    BY DEF Init
  <2>2. IsFiniteSet({}) /\ Cardinality({}) = 0
    BY FS_EmptySet
  <2>3. QED
    BY <2>1, <2>2 DEF Init, TrustTypeOK
<1>5. QED
  BY <1>1, <1>2, <1>3, <1>4 DEF Init, TypeInv

(* What the hub takes from a packet. *)
LEMMA PollType ==
  ASSUME TypeInv, Poll
  PROVE  LinkTypeOK' /\ HubTypeOK'
<1>1. LinkTypeOK /\ HubTypeOK
  BY DEF TypeInv
<1> DEFINE p == Head(air)
<1>2. air' = Tail(air) /\ air # << >>
  BY DEF Poll
<1>3. p \in Packet /\ air' \in Seq(Packet) /\ Len(air') <= MaxAir
  BY <1>1, <1>2, TailFacts
<1>4. p.lora \in 0 .. LoraMod - 1 /\ p.seq \in 0 .. SeqMod - 1 /\ p.entries \in Entries
  BY <1>3 DEF Packet
<1>5. /\ Ingest(p)
      /\ got' = [k \in Keys |-> IF k \in DOMAIN p.entries THEN p.entries[k] ELSE got[k]]
      /\ refused' = (refused \ DOMAIN p.entries)
                      \union (DOMAIN p.entries \ Processed(p.entries))
      /\ acks' \in AcksAfter(p)
      /\ UNCHANGED << txSeq, loraSeq, sending, hubAuth >>
  BY DEF Poll
<1> HIDE DEF p
<1>6. DOMAIN p.entries \subseteq Keys /\ \A k \in DOMAIN p.entries : p.entries[k] \in Values
  BY <1>4, EntriesFacts
<1>7. LinkTypeOK'
  <2>1. acks' \subseteq 0 .. LoraMod - 1
    BY <1>1, <1>4, <1>5 DEF AcksAfter, LinkTypeOK
  <2>2. QED
    BY <1>1, <1>3, <1>5, <2>1 DEF LinkTypeOK
<1>8. HubTypeOK'
  <2>1. lastSeq' \in {NoSeq} \union 0 .. SeqMod - 1
    BY <1>1, <1>4, <1>5 DEF Ingest, HubTypeOK
  <2>2. hubValue' \in [Keys -> Valid \union {NoValue}]
    BY <1>1, <1>5 DEF Ingest, HubTypeOK, Processed
  <2>3. got' \in [Keys -> Values \union {NoValue}]
    BY <1>1, <1>5, <1>6 DEF HubTypeOK
  <2>4. refused' \subseteq Keys
    BY <1>1, <1>5, <1>6 DEF HubTypeOK
  <2>5. hubAuth' \in BOOLEAN
    BY <1>1, <1>5 DEF HubTypeOK
  <2>6. QED
    BY <2>1, <2>2, <2>3, <2>4, <2>5 DEF HubTypeOK
<1>9. QED
  BY <1>7, <1>8

LEMMA TypeNext == TypeInv /\ [Next]_vars => TypeInv'
<1> SUFFICES ASSUME TypeInv, [Next]_vars PROVE TypeInv'
  OBVIOUS
<1>a. /\ CacheTypeOK /\ Configured /\ gwState \in {"IDLE", "AUTHENTICATED", "FAILED"}
      /\ LinkTypeOK /\ HubTypeOK /\ TrustTypeOK
  BY DEF TypeInv
<1>b. ASSUME UNCHANGED cacheVars PROVE CacheTypeOK' /\ Configured'
  BY <1>a, <1>b, CacheUnchanged DEF Configured, cacheVars
<1>c. ASSUME UNCHANGED << txSeq, linkVars >> PROVE LinkTypeOK'
  BY <1>a, <1>c DEF linkVars, LinkTypeOK
<1>d. ASSUME UNCHANGED hubVars PROVE HubTypeOK'
  BY <1>a, <1>d DEF hubVars, HubTypeOK
<1>e. ASSUME UNCHANGED << trust, now >> PROVE TrustTypeOK'
  BY <1>a, <1>e DEF TrustTypeOK
<1>1. ASSUME NEW k \in Keys, NEW v \in Values, TakeReading(k, v) PROVE TypeInv'
  <2>1. CacheTypeOK' /\ Configured'
    BY <1>a, <1>1, ReadingCases DEF TakeReading
  <2>2. QED
    BY <1>a, <1>c, <1>d, <1>e, <1>1, <2>1 DEF TakeReading, TypeInv
<1>2. ASSUME NEW m \in Metrics, NEW t \in Thresholds, Configure(m, t) PROVE TypeInv'
  <2>1. CacheTypeOK' /\ Configured'
    BY <1>a, <1>2, SetThresholdType DEF Configure
  <2>2. QED
    BY <1>a, <1>c, <1>d, <1>e, <1>2, <2>1 DEF Configure, TypeInv
<1>3. ASSUME NEW s \in {"AUTHENTICATED", "FAILED"}, SetState(s) PROVE TypeInv'
  BY <1>a, <1>b, <1>c, <1>d, <1>e, <1>3 DEF SetState, TypeInv
<1>4. CASE FlushBegin
  <2>1. LinkTypeOK'
    BY <1>a, <1>4, BatchType DEF FlushBegin, LinkTypeOK
  <2>2. QED
    BY <1>a, <1>b, <1>d, <1>e, <1>4, <2>1 DEF FlushBegin, TypeInv
<1>5. CASE Transmit
  <2>1. sending' \in [state : {"JOINED", "TX_BUSY", "WAIT_ACK"}, entries : Entries,
                     attempt : 0 .. MaxRetries]
    BY <1>a, <1>5 DEF Transmit, LinkTypeOK
  <2>2. air' \in Seq(Packet) /\ Len(air') <= MaxAir
    BY <1>a, <1>5, TransmittedFacts DEF Transmit
  <2>3. LinkTypeOK'
    BY <1>a, <1>5, <2>1, <2>2 DEF Transmit, LinkTypeOK
  <2>4. QED
    BY <1>a, <1>b, <1>d, <1>e, <1>5, <2>3 DEF Transmit, TypeInv
<1>6. CASE Acknowledged
  <2>1. CacheTypeOK' /\ Configured'
    BY <1>a, <1>6, ClearDirtyType DEF Acknowledged
  <2>2. acks' \subseteq 0 .. LoraMod - 1
    BY <1>a, <1>6 DEF Acknowledged, AcksLeft, LinkTypeOK
  <2>3. LinkTypeOK'
    BY <1>a, <1>6, <2>2, NextSeqType, IdleType DEF Acknowledged, LinkTypeOK
  <2>4. QED
    BY <1>a, <1>d, <1>e, <1>6, <2>1, <2>3 DEF Acknowledged, TypeInv
<1>7. CASE Retry
  <2>1. sending.attempt \in 0 .. MaxRetries /\ sending.attempt < MaxRetries
    BY <1>a, <1>7 DEF Retry, LinkTypeOK
  <2>2. sending.attempt + 1 \in 0 .. MaxRetries
    BY <2>1
  <2>3. LinkTypeOK'
    BY <1>a, <1>7, <2>2 DEF Retry, LinkTypeOK
  <2>4. QED
    BY <1>a, <1>b, <1>d, <1>e, <1>7, <2>3 DEF Retry, TypeInv
<1>8. CASE GiveUp
  <2>1. LinkTypeOK'
    BY <1>a, <1>8, AbandonType, IdleType DEF GiveUp, LinkTypeOK
  <2>2. QED
    BY <1>a, <1>b, <1>d, <1>e, <1>8, <2>1 DEF GiveUp, TypeInv
<1>9. CASE SendFails
  <2>1. LinkTypeOK'
    BY <1>a, <1>9, AbandonType, IdleType DEF SendFails, LinkTypeOK
  <2>2. QED
    BY <1>a, <1>b, <1>d, <1>e, <1>9, <2>1 DEF SendFails, TypeInv
<1>10. CASE GatewayRestart
  <2>1. CacheTypeOK' /\ Configured'
    BY <1>10, CacheInitType DEF GatewayRestart
  <2>2. LinkTypeOK'
    BY <1>a, <1>10, AbandonType, IdleType DEF GatewayRestart, LinkTypeOK
  <2>3. QED
    BY <1>a, <1>d, <1>e, <1>10, <2>1, <2>2 DEF GatewayRestart, TypeInv
<1>11. CASE AuthenticateGateway
  <2>1. HubTypeOK'
    BY <1>a, <1>11 DEF AuthenticateGateway, HubTypeOK
  <2>2. QED
    BY <1>a, <1>b, <1>c, <1>e, <1>11, <2>1 DEF AuthenticateGateway, TypeInv
<1>12. CASE Poll
  <2>1. LinkTypeOK' /\ HubTypeOK'
    BY <1>12, PollType
  <2>2. QED
    BY <1>a, <1>b, <1>e, <1>12, <2>1 DEF Poll, TypeInv
<1>13. ASSUME NEW n \in Nodes, Attest(n) PROVE TypeInv'
  <2>1. trust' = [m \in DOMAIN trust \union {n} |-> IF m = n THEN now ELSE trust[m]]
        /\ now' = now
    BY <1>13 DEF Attest
  <2>2. DOMAIN trust' = DOMAIN trust \union {n}
    BY <2>1
  <2>3. trust' \in [DOMAIN trust \union {n} -> 0 .. MaxTime]
    BY <1>a, <2>1 DEF TrustTypeOK
  <2>4. IsFiniteSet(DOMAIN trust \union {n}) /\ Cardinality(DOMAIN trust \union {n}) <= TrackerMax
    BY <1>a, <1>13, BoundedUnion DEF Attest, TrustTypeOK
  <2>5. TrustTypeOK'
    BY <1>a, <2>1, <2>2, <2>3, <2>4 DEF TrustTypeOK
  <2>6. QED
    BY <1>a, <1>b, <1>c, <1>d, <1>13, <2>5 DEF Attest, TypeInv
<1>14. CASE Tick
  <2>1. TrustTypeOK'
    BY <1>a, <1>14 DEF Tick, TrustTypeOK
  <2>2. QED
    BY <1>a, <1>b, <1>c, <1>d, <1>14, <2>1 DEF Tick, TypeInv
<1>15. CASE UNCHANGED vars
  BY <1>a, <1>b, <1>c, <1>d, <1>e, <1>15 DEF vars, TypeInv
<1>16. QED
  BY <1>1, <1>2, <1>3, <1>4, <1>5, <1>6, <1>7, <1>8, <1>9, <1>10, <1>11, <1>12, <1>13,
     <1>14, <1>15 DEF Next

(* The state of both ends keeps its types, the packets on the air and the  *)
(* bounded table of edge_tracker_attest() included.                        *)
THEOREM TypeCorrect == Spec => []TypeOK
<1>1. Spec => []TypeInv
  BY TypeInit, TypeNext, PTL DEF Spec
<1>2. QED
  BY <1>1, TypeInvImplies, PTL

-----------------------------------------------------------------------------
(* Stop and wait.  With a radio that does not deliver what a send that     *)
(* gave up left behind, a packet on the air is of the send in progress or  *)
(* of the one acknowledged before it.                                      *)

Sending == sending.state # "JOINED"

(* The packet of the send in progress. *)
IsCurrent(p) == Sending /\ p.lora = loraSeq /\ p.seq = txSeq /\ p.entries = sending.entries

(* A packet of the send before: it repeats what was received already. *)
IsRepeat(p) ==
  /\ p.lora # loraSeq /\ txSeq = (p.seq + 1) % SeqMod
  /\ \A k \in DOMAIN p.entries : k \in Cached \ dirty => p.entries[k] = value[k]
  /\ lastSeq # NoSeq => lastSeq = p.seq

(* Repeats come before packets of the send in progress; all repeats are    *)
(* of one batch.                                                           *)
AirInv ==
  /\ \A i \in DOMAIN air : IsCurrent(air[i]) \/ IsRepeat(air[i])
  /\ \A i, j \in DOMAIN air : i < j /\ air[i].lora = loraSeq => air[j].lora = loraSeq
  /\ \A i, j \in DOMAIN air :
       air[i].lora # loraSeq /\ air[j].lora # loraSeq => air[i].seq = air[j].seq

(* The entries of a flush keep their dirty flags and values while it runs. *)
BatchInv ==
  Sending => \A k \in DOMAIN sending.entries : k \in dirty /\ sending.entries[k] = value[k]

(* The ACK waited for was sent for a packet of this send. *)
AckInv ==
  loraSeq \in acks =>
    /\ Sending
    /\ \A i \in DOMAIN air : air[i].lora = loraSeq
    /\ \A k \in DOMAIN sending.entries : got[k] = sending.entries[k]
    /\ lastSeq # NoSeq => lastSeq = txSeq

SeqInv ==
  lastSeq # NoSeq =>
    hubAuth /\ (lastSeq = txSeq \/ txSeq = (lastSeq + 1) % SeqMod \/ txSeq = 0)

LinkInv == AirInv /\ BatchInv /\ AckInv /\ SeqInv /\ CleanIsReceived

LEMMA NextDiffers ==
  ASSUME NEW m \in Nat \ (0 .. 2), NEW x \in 0 .. m - 1
  PROVE  (x + 1) % m # x
OBVIOUS

LEMMA LinkInit == Init => LinkInv
<1> SUFFICES ASSUME Init PROVE LinkInv
  OBVIOUS
<1>1. Cached = {} /\ DOMAIN air = {} /\ acks = {} /\ lastSeq = NoSeq /\ sending.state = "JOINED"
  BY CacheInitType DEF Init, Idle
<1>2. QED
  BY <1>1 DEF LinkInv, AirInv, BatchInv, AckInv, SeqInv, CleanIsReceived, Sending

(* A step that leaves the link and the hub alone, with the gateway idle:   *)
(* it may change values, but only of entries that are dirty afterwards.    *)
LEMMA LinkIdleStep ==
  ASSUME TypeInv, LinkInv, GatewayIdle, UNCHANGED << txSeq, linkVars, hubVars >>,
         \A k \in Cached' \ dirty' : k \in Cached \ dirty /\ value'[k] = value[k]
  PROVE  LinkInv'
<1>1. ~Sending /\ ~Sending'
  BY DEF GatewayIdle, Sending, linkVars
<1>2. AirInv'
  BY <1>1 DEF LinkInv, AirInv, IsCurrent, IsRepeat, linkVars, hubVars
<1>3. BatchInv'
  BY <1>1 DEF BatchInv
<1>4. AckInv'
  BY <1>1 DEF LinkInv, AckInv, linkVars
<1>5. SeqInv'
  BY DEF LinkInv, SeqInv, hubVars
<1>6. CleanIsReceived'
  BY DEF LinkInv, CleanIsReceived, hubVars
<1>7. QED
  BY <1>2, <1>3, <1>4, <1>5, <1>6 DEF LinkInv

(* A step that changes nothing the invariant speaks of, but hubAuth. *)
LEMMA LinkOtherStep ==
  ASSUME TypeInv, LinkInv, UNCHANGED << cacheVars, txSeq, linkVars, lastSeq, got >>,
         hubAuth => hubAuth'
  PROVE  LinkInv'
<1>1. Cached' = Cached /\ dirty' = dirty /\ value' = value
  BY DEF Cached, cacheVars
<1>2. AirInv'
  BY <1>1 DEF LinkInv, AirInv, IsCurrent, IsRepeat, Sending, linkVars
<1>3. BatchInv' /\ AckInv' /\ SeqInv'
  BY <1>1 DEF LinkInv, BatchInv, AckInv, SeqInv, Sending, linkVars
<1>4. CleanIsReceived'
  BY <1>1 DEF LinkInv, CleanIsReceived
<1>5. QED
  BY <1>2, <1>3, <1>4 DEF LinkInv

(* The send ends without an ACK: what it left on the air is gone. *)
LEMMA LinkAbandonStep ==
  ASSUME TypeInv, LinkInv, Radio = "prompt", Abandon, sending' = Idle,
         UNCHANGED << cacheVars, txSeq, loraSeq, hubVars >>
  PROVE  LinkInv'
<1>1. DOMAIN air' = {} /\ acks' = {} /\ ~Sending'
  BY DEF Abandon, Idle, Sending
<1>2. Cached' = Cached /\ dirty' = dirty /\ value' = value
  BY DEF Cached, cacheVars
<1>3. AirInv' /\ BatchInv' /\ AckInv'
  BY <1>1 DEF AirInv, BatchInv, AckInv
<1>4. SeqInv' /\ CleanIsReceived'
  BY <1>2 DEF LinkInv, SeqInv, CleanIsReceived, hubVars
<1>5. QED
  BY <1>3, <1>4 DEF LinkInv

LEMMA LinkFlushBegin ==
  ASSUME TypeInv, LinkInv, FlushBegin PROVE LinkInv'
<1>1. /\ ~Sending /\ Sending'
      /\ sending'.entries = [k \in FirstDirty(BatchMax) |-> value[k]]
      /\ UNCHANGED << cacheVars, txSeq, loraSeq, air, acks, hubVars >>
  BY DEF FlushBegin, GatewayIdle, Sending
<1>2. Cached' = Cached /\ dirty' = dirty /\ value' = value
  BY <1>1 DEF Cached, cacheVars
<1>3. AirInv'
  BY <1>1, <1>2 DEF LinkInv, AirInv, IsCurrent, IsRepeat, hubVars
<1>4. BatchInv'
  BY <1>1, <1>2, FirstDirtyFacts DEF BatchInv
<1>5. AckInv'
  BY <1>1 DEF LinkInv, AckInv
<1>6. SeqInv' /\ CleanIsReceived'
  BY <1>1, <1>2 DEF LinkInv, SeqInv, CleanIsReceived, hubVars
<1>7. QED
  BY <1>3, <1>4, <1>5, <1>6 DEF LinkInv

LEMMA LinkRetry ==
  ASSUME TypeInv, LinkInv, Retry PROVE LinkInv'
<1>1. /\ Sending /\ Sending' /\ sending'.entries = sending.entries
      /\ UNCHANGED << cacheVars, txSeq, loraSeq, air, acks, hubVars >>
  BY DEF Retry, Sending, TypeInv, LinkTypeOK
<1>2. Cached' = Cached /\ dirty' = dirty /\ value' = value
  BY <1>1 DEF Cached, cacheVars
<1>3. AirInv'
  BY <1>1, <1>2 DEF LinkInv, AirInv, IsCurrent, IsRepeat, hubVars
<1>4. BatchInv' /\ AckInv'
  BY <1>1, <1>2 DEF LinkInv, BatchInv, AckInv, hubVars
<1>5. SeqInv' /\ CleanIsReceived'
  BY <1>1, <1>2 DEF LinkInv, SeqInv, CleanIsReceived, hubVars
<1>6. QED
  BY <1>3, <1>4, <1>5 DEF LinkInv

LEMMA LinkTransmit ==
  ASSUME TypeInv, LinkInv, Transmit PROVE LinkInv'
<1>1. /\ Sending /\ Sending' /\ sending'.entries = sending.entries
      /\ air' \in Transmitted
      /\ UNCHANGED << cacheVars, txSeq, loraSeq, acks, hubVars >>
  BY DEF Transmit, Sending, TypeInv, LinkTypeOK
<1>2. Cached' = Cached /\ dirty' = dirty /\ value' = value
  BY <1>1 DEF Cached, cacheVars
<1>3. BatchInv' /\ SeqInv' /\ CleanIsReceived'
  BY <1>1, <1>2 DEF LinkInv, BatchInv, SeqInv, CleanIsReceived, hubVars
<1>4. CASE air' = air
  <2>1. AirInv' /\ AckInv'
    BY <1>1, <1>2, <1>4 DEF LinkInv, AirInv, AckInv, IsCurrent, IsRepeat, hubVars
  <2>2. QED
    BY <1>3, <2>1 DEF LinkInv
<1>5. CASE air' # air
  <2>0. PICK n \in Nat : n = Len(air) + 1
    BY DEF TypeInv, LinkTypeOK
  <2>1. /\ DOMAIN air' = DOMAIN air \union {n} /\ air'[n] = CurrentPacket
        /\ \A i \in DOMAIN air : air'[i] = air[i] /\ i \in Nat /\ i < n
        /\ n \notin DOMAIN air /\ n \in Nat
    <3>1. /\ DOMAIN air' = DOMAIN air \union {n}
          /\ air'[n] = CurrentPacket
          /\ DOMAIN air = 1 .. Len(air) /\ Len(air) \in Nat
          /\ \A i \in DOMAIN air : air'[i] = air[i]
      BY <1>1, <1>5, <2>0, TransmittedFacts DEF TypeInv
    <3>2. QED
      BY <2>0, <3>1
  <2>2. /\ CurrentPacket.lora = loraSeq /\ CurrentPacket.seq = txSeq
        /\ CurrentPacket.entries = sending.entries
    BY DEF CurrentPacket
  <2>3. \A i \in DOMAIN air' : IsCurrent(air[i])' \/ IsRepeat(air[i])'
    <3>1. ASSUME NEW i \in DOMAIN air PROVE IsCurrent(air[i])' \/ IsRepeat(air[i])'
      BY <1>1, <1>2, <2>1 DEF LinkInv, AirInv, IsCurrent, IsRepeat, hubVars
    <3>2. IsCurrent(air[n])'
      BY <1>1, <2>1, <2>2 DEF IsCurrent
    <3>3. QED
      BY <2>1, <3>1, <3>2
  <2>4. \A i, j \in DOMAIN air' : i < j /\ air'[i].lora = loraSeq' => air'[j].lora = loraSeq'
    <3>1. SUFFICES ASSUME NEW i \in DOMAIN air', NEW j \in DOMAIN air', i < j,
                          air'[i].lora = loraSeq
                   PROVE  air'[j].lora = loraSeq
      BY <1>1
    <3>2. CASE j = n
      BY <2>1, <2>2, <3>2
    <3>3. CASE j \in DOMAIN air
      <4>1. i \in DOMAIN air
        BY <2>1, <3>1, <3>3
      <4>2. QED
        BY <2>1, <3>1, <3>3, <4>1 DEF LinkInv, AirInv
    <3>4. QED
      BY <2>1, <3>2, <3>3
  <2>5. \A i, j \in DOMAIN air' :
          air'[i].lora # loraSeq' /\ air'[j].lora # loraSeq' => air'[i].seq = air'[j].seq
    BY <1>1, <2>1, <2>2 DEF LinkInv, AirInv
  <2>6. AirInv'
    BY <2>3, <2>4, <2>5 DEF AirInv
  <2>7. AckInv'
    BY <1>1, <2>1, <2>2 DEF LinkInv, AckInv, hubVars
  <2>8. QED
    BY <1>3, <2>6, <2>7 DEF LinkInv
<1>6. QED
  BY <1>4, <1>5

LEMMA LinkAcknowledged ==
  ASSUME TypeInv, LinkInv, Radio = "prompt", Acknowledged PROVE LinkInv'
<1>1. /\ Sending /\ loraSeq \in acks /\ acks' = {} /\ ~Sending'
      /\ dirty' = dirty \ DOMAIN sending.entries /\ value' = value /\ order' = order
      /\ txSeq' = (txSeq + 1) % SeqMod /\ loraSeq' = (loraSeq + 1) % LoraMod
      /\ UNCHANGED << air, hubVars >>
  BY DEF Acknowledged, AckSeen, AcksLeft, ClearDirty, Idle, Sending
<1>2. loraSeq' # loraSeq
  BY <1>1, NextDiffers DEF TypeInv, LinkTypeOK
<1>3. Cached' = Cached
  BY <1>1 DEF Cached
<1>4. /\ \A i \in DOMAIN air : air[i].lora = loraSeq
      /\ \A k \in DOMAIN sending.entries : got[k] = sending.entries[k]
      /\ lastSeq # NoSeq => lastSeq = txSeq
  BY <1>1 DEF LinkInv, AckInv
<1>5. \A k \in DOMAIN sending.entries : sending.entries[k] = value[k]
  BY <1>1 DEF LinkInv, BatchInv
<1>6. \A i \in DOMAIN air : IsCurrent(air[i])
  BY <1>4 DEF LinkInv, AirInv, IsRepeat
<1>7. \A i \in DOMAIN air' : IsRepeat(air[i])'
  BY <1>1, <1>2, <1>4, <1>5, <1>6 DEF IsCurrent, IsRepeat, hubVars
<1>8. AirInv'
  <2>1. \A i, j \in DOMAIN air' : air'[i].lora # loraSeq' /\ air'[i].seq = air'[j].seq
    BY <1>1, <1>2, <1>4, <1>6 DEF IsCurrent
  <2>2. QED
    BY <1>7, <2>1 DEF AirInv
<1>9. BatchInv' /\ AckInv'
  BY <1>1 DEF BatchInv, AckInv
<1>10. SeqInv'
  BY <1>1, <1>4 DEF LinkInv, SeqInv, hubVars
<1>11. CleanIsReceived'
  <2>1. ASSUME NEW k \in Cached' \ dirty' PROVE got'[k] = value'[k]
    <3>1. CASE k \in DOMAIN sending.entries
      BY <1>1, <1>4, <1>5, <3>1 DEF hubVars
    <3>2. CASE k \notin DOMAIN sending.entries
      BY <1>1, <1>3, <2>1, <3>2 DEF LinkInv, CleanIsReceived, hubVars
    <3>3. QED
      BY <3>1, <3>2
  <2>2. QED
    BY <2>1 DEF CleanIsReceived
<1>12. QED
  BY <1>8, <1>9, <1>10, <1>11 DEF LinkInv

LEMMA LinkPoll ==
  ASSUME TypeInv, LinkInv, Poll PROVE LinkInv'
<1> DEFINE p == Head(air)
<1>1. /\ air # << >> /\ air' = Tail(air)
      /\ lastSeq' = IF hubAuth THEN p.seq ELSE lastSeq
      /\ got' = [k \in Keys |-> IF k \in DOMAIN p.entries THEN p.entries[k] ELSE got[k]]
      /\ acks' = acks \/ acks' = acks \union {p.lora}
      /\ UNCHANGED << cacheVars, txSeq, loraSeq, sending, hubAuth >>
  BY DEF Poll, Ingest, AcksAfter
<1>2. /\ 1 \in DOMAIN air /\ p = air[1] /\ p \in Packet
      /\ \A i \in DOMAIN air' : i + 1 \in DOMAIN air /\ i + 1 > 1 /\ i \in Nat /\ air'[i] = air[i + 1]
  BY <1>1, TailFacts DEF TypeInv
<1> HIDE DEF p
<1>3. IsCurrent(p) \/ IsRepeat(p)
  BY <1>2 DEF LinkInv, AirInv
<1>4. Cached' = Cached /\ dirty' = dirty /\ value' = value /\ (Sending' <=> Sending)
  BY <1>1 DEF Cached, cacheVars, Sending
<1>5. Cached \subseteq Keys /\ (Sending => DOMAIN sending.entries \subseteq Keys)
  BY CacheFacts, EntriesFacts DEF TypeInv, LinkTypeOK
<1>6. lastSeq' # NoSeq => hubAuth /\ lastSeq' = p.seq
  BY <1>1 DEF LinkInv, SeqInv
<1>7. BatchInv'
  BY <1>1, <1>4 DEF LinkInv, BatchInv
<1>8. CleanIsReceived'
  <2>1. ASSUME NEW k \in Cached \ dirty PROVE got'[k] = value[k]
    <3>1. CASE k \in DOMAIN p.entries
      <4>1. ~IsCurrent(p)
        BY <2>1, <3>1 DEF LinkInv, BatchInv, IsCurrent
      <4>2. p.entries[k] = value[k]
        BY <1>3, <2>1, <3>1, <4>1 DEF IsRepeat
      <4>3. QED
        BY <1>1, <1>5, <2>1, <3>1, <4>2
    <3>2. CASE k \notin DOMAIN p.entries
      BY <1>1, <1>5, <2>1, <3>2 DEF LinkInv, CleanIsReceived
    <3>3. QED
      BY <3>1, <3>2
  <2>2. QED
    BY <1>4, <2>1 DEF CleanIsReceived
<1>9. CASE IsCurrent(p)
  <2>1. p.lora = loraSeq /\ p.seq = txSeq /\ p.entries = sending.entries /\ Sending
    BY <1>9 DEF IsCurrent
  <2>2. \A i \in DOMAIN air' : air'[i].lora = loraSeq
    <3>1. ASSUME NEW i \in DOMAIN air' PROVE air'[i].lora = loraSeq
      <4>1. i + 1 \in DOMAIN air /\ 1 < i + 1 /\ air'[i] = air[i + 1]
        BY <1>2, <3>1
      <4>2. QED
        BY <1>2, <2>1, <4>1 DEF LinkInv, AirInv
    <3>2. QED
      BY <3>1
  <2>3. \A i \in DOMAIN air' : IsCurrent(air[i])'
    BY <1>1, <1>2, <1>4, <2>2 DEF LinkInv, AirInv, IsCurrent, IsRepeat
  <2>4. AirInv'
    BY <1>1, <2>2, <2>3 DEF AirInv
  <2>5. \A k \in DOMAIN sending.entries : got'[k] = sending.entries[k]
    BY <1>1, <1>5, <2>1
  <2>6. AckInv'
    BY <1>1, <1>4, <1>6, <2>1, <2>2, <2>5 DEF AckInv
  <2>7. SeqInv'
    BY <1>1, <1>6, <2>1 DEF SeqInv
  <2>8. QED
    BY <1>7, <1>8, <2>4, <2>6, <2>7 DEF LinkInv
<1>10. CASE IsRepeat(p)
  <2>1. p.lora # loraSeq /\ (lastSeq # NoSeq => lastSeq = p.seq)
    BY <1>10 DEF IsRepeat
  <2>2. loraSeq \notin acks
    BY <1>2, <2>1 DEF LinkInv, AckInv
  <2>3. loraSeq' \notin acks'
    BY <1>1, <2>1, <2>2
  <2>4. AckInv'
    BY <2>3 DEF AckInv
  <2>5. \A i \in DOMAIN air' : IsCurrent(air[i])' \/ IsRepeat(air[i])'
    <3>1. SUFFICES ASSUME NEW i \in DOMAIN air' PROVE IsCurrent(air[i])' \/ IsRepeat(air[i])'
      OBVIOUS
    <3>2. i + 1 \in DOMAIN air /\ air'[i] = air[i + 1]
      BY <1>2
    <3>3. CASE IsCurrent(air[i + 1])
      BY <1>1, <1>4, <3>2, <3>3 DEF IsCurrent
    <3>4. CASE IsRepeat(air[i + 1])
      <4>1. air[i + 1].seq = p.seq
        BY <1>2, <2>1, <3>2, <3>4 DEF LinkInv, AirInv, IsRepeat
      <4>2. QED
        BY <1>1, <1>4, <1>6, <3>2, <3>4, <4>1 DEF IsRepeat
    <3>5. QED
      BY <3>2, <3>3, <3>4 DEF LinkInv, AirInv
  <2>6. \A i, j \in DOMAIN air' : i < j /\ air'[i].lora = loraSeq' => air'[j].lora = loraSeq'
    <3>1. SUFFICES ASSUME NEW i \in DOMAIN air', NEW j \in DOMAIN air', i < j,
                          air'[i].lora = loraSeq
                   PROVE  air'[j].lora = loraSeq
      BY <1>1
    <3>2. i + 1 \in DOMAIN air /\ j + 1 \in DOMAIN air /\ i + 1 < j + 1
          /\ air'[i] = air[i + 1] /\ air'[j] = air[j + 1]
      BY <1>2, <3>1
    <3>3. QED
      BY <3>1, <3>2 DEF LinkInv, AirInv
  <2>7. \A i, j \in DOMAIN air' :
          air'[i].lora # loraSeq' /\ air'[j].lora # loraSeq' => air'[i].seq = air'[j].seq
    BY <1>1, <1>2 DEF LinkInv, AirInv
  <2>8. AirInv'
    BY <2>5, <2>6, <2>7 DEF AirInv
  <2>9. SeqInv'
    BY <1>1, <1>6, <1>10 DEF SeqInv, IsRepeat
  <2>10. QED
    BY <1>7, <1>8, <2>4, <2>8, <2>9 DEF LinkInv
<1>11. QED
  BY <1>3, <1>9, <1>10

LEMMA LinkRestart ==
  ASSUME TypeInv, LinkInv, Radio = "prompt", GatewayRestart PROVE LinkInv'
<1>1. DOMAIN air' = {} /\ acks' = {} /\ ~Sending' /\ txSeq' = 0 /\ UNCHANGED hubVars
  BY DEF GatewayRestart, Abandon, Idle, Sending
<1>2. Cached' = {}
  BY CacheInitType DEF GatewayRestart
<1>3. QED
  BY <1>1, <1>2 DEF LinkInv, AirInv, BatchInv, AckInv, SeqInv, CleanIsReceived, hubVars

LEMMA LinkNext ==
  ASSUME TypeInv, LinkInv, Radio = "prompt", [Next]_vars PROVE LinkInv'
<1>1. ASSUME NEW k \in Keys, NEW v \in Values, TakeReading(k, v) PROVE LinkInv'
  <2>1. CacheTypeOK /\ Configured /\ Reading(k, v)
    BY <1>1 DEF TypeInv, TakeReading
  <2>2. \A x \in Cached' \ dirty' : x \in Cached \ dirty /\ value'[x] = value[x]
    <3>1. /\ Cached' = Cached \union {k} /\ dirty \subseteq dirty'
          /\ \A x \in Cached \ {k} : value'[x] = value[x]
          /\ k \notin Cached => k \in dirty'
          /\ k \notin dirty' => value'[k] = value[k]
      BY <2>1, ReadingCases
    <3>2. QED
      BY <3>1
  <2>3. QED
    BY <1>1, <2>2, LinkIdleStep DEF TakeReading
<1>2. ASSUME NEW m \in Metrics, NEW t \in Thresholds, Configure(m, t) PROVE LinkInv'
  <2>1. \A x \in Cached' \ dirty' : x \in Cached \ dirty /\ value'[x] = value[x]
    BY <1>2 DEF Configure, SetThreshold, Cached
  <2>2. QED
    BY <1>2, <2>1, LinkIdleStep DEF Configure
<1>3. ASSUME NEW s \in {"AUTHENTICATED", "FAILED"}, SetState(s) PROVE LinkInv'
  BY <1>3, LinkOtherStep DEF SetState, hubVars
<1>4. CASE FlushBegin
  BY <1>4, LinkFlushBegin
<1>5. CASE Transmit
  BY <1>5, LinkTransmit
<1>6. CASE Acknowledged
  BY <1>6, LinkAcknowledged
<1>7. CASE Retry
  BY <1>7, LinkRetry
<1>8. CASE GiveUp
  BY <1>8, LinkAbandonStep DEF GiveUp
<1>9. CASE SendFails
  BY <1>9, LinkAbandonStep DEF SendFails
<1>10. CASE GatewayRestart
  BY <1>10, LinkRestart
<1>11. CASE AuthenticateGateway
  BY <1>11, LinkOtherStep DEF AuthenticateGateway
<1>12. CASE Poll
  BY <1>12, LinkPoll
<1>13. ASSUME NEW n \in Nodes, Attest(n) PROVE LinkInv'
  BY <1>13, LinkOtherStep DEF Attest, hubVars
<1>14. CASE Tick
  BY <1>14, LinkOtherStep DEF Tick, hubVars
<1>15. CASE UNCHANGED vars
  BY <1>15, LinkOtherStep DEF vars, hubVars
<1>16. QED
  BY <1>1, <1>2, <1>3, <1>4, <1>5, <1>6, <1>7, <1>8, <1>9, <1>10, <1>11, <1>12, <1>13,
     <1>14, <1>15 DEF Next

LEMMA LinkAlways ==
  ASSUME Radio = "prompt" PROVE Spec => [](TypeInv /\ LinkInv)
<1>1. Init => TypeInv /\ LinkInv
  BY TypeInit, LinkInit
<1>2. TypeInv /\ LinkInv /\ [Next]_vars => (TypeInv /\ LinkInv)'
  BY TypeNext, LinkNext
<1>3. QED
  BY <1>1, <1>2, PTL DEF Spec

(* batch_forwarder_flush() clears dirty flags only for values the hub has  *)
(* taken: a repeated packet of an earlier batch never overwrites a value   *)
(* that counts as forwarded, and no ACK of an earlier send is taken for    *)
(* one of this send.                                                       *)
THEOREM CleanValuesReceived ==
  ASSUME Radio = "prompt" PROVE Spec => []CleanIsReceived
<1>1. TypeInv /\ LinkInv => CleanIsReceived
  BY DEF LinkInv
<1>2. QED
  BY <1>1, LinkAlways, PTL

LEMMA SequenceStep ==
  ASSUME TypeInv, LinkInv, [Next]_vars
  PROVE  [lastSeq # NoSeq => lastSeq' \in {lastSeq, (lastSeq + 1) % SeqMod, 0}]_vars
<1>1. CASE Poll
  <2> DEFINE p == Head(air)
  <2>1. air # << >> /\ air' = Tail(air) /\ lastSeq' = IF hubAuth THEN p.seq ELSE lastSeq
    BY <1>1 DEF Poll, Ingest
  <2>2. IsCurrent(p) \/ IsRepeat(p)
    BY <2>1, TailFacts DEF TypeInv, LinkInv, AirInv
  <2> HIDE DEF p
  <2>3. QED
    BY <2>1, <2>2 DEF LinkInv, SeqInv, IsCurrent, IsRepeat
<1>2. CASE ~Poll
  <2>1. lastSeq' = lastSeq
    BY <1>2 DEF Next, TakeReading, Configure, SetState, FlushBegin, Transmit, Acknowledged,
                Retry, GiveUp, SendFails, GatewayRestart, AuthenticateGateway, Attest, Tick,
                hubVars, vars
  <2>2. QED
    BY <2>1
<1>3. QED
  BY <1>1, <1>2

(* gateway_verify_frame() has no sequence error to log while the gateway   *)
(* stays up: the numbers it keeps repeat or go up by one.                  *)
THEOREM SequenceIsInOrder ==
  ASSUME Radio = "prompt" PROVE Spec => SequenceInOrder
<1>1. TypeInv /\ LinkInv /\ [Next]_vars
        => [lastSeq # NoSeq => lastSeq' \in {lastSeq, (lastSeq + 1) % SeqMod, 0}]_vars
  BY SequenceStep
<1>2. QED
  BY <1>1, LinkAlways, PTL DEF Spec, SequenceInOrder

-----------------------------------------------------------------------------
(* How far the hub can be from the sensor. *)

(* The value in the cache is within the threshold of the latest reading.   *)
NearReading == \A k \in Cached : Distance(value[k], latest[k].value) <= latest[k].slack

(* A value taken and not refused is the one the historian was given. *)
Stored == \A k \in Keys \ refused : got[k] # NoValue => hubValue[k] = got[k]

TrackInv == NearReading /\ Stored

LEMMA DistanceFacts ==
  ASSUME NEW v \in Int, NEW w \in Int
  PROVE  Distance(v, w) = Distance(w, v) /\ Distance(v, v) = 0 /\ Distance(v, w) \in Nat
BY DEF Distance

LEMMA NearReadingStep ==
  ASSUME TypeInv, NearReading, NEW k \in Keys, NEW v \in Values, Reading(k, v)
  PROVE  NearReading'
<1>1. CacheTypeOK /\ Configured
  BY DEF TypeInv
<1>2. /\ threshold[k[2]] \in Thresholds
      /\ Cached' = Cached \union {k}
      /\ \A x \in Cached \ {k} : value'[x] = value[x] /\ latest'[x] = latest[x]
      /\ latest'[k] = [value |-> v, slack |-> threshold[k[2]]]
      /\ value'[k] = v \/ (k \in Cached /\ ~Exceeds(k, v) /\ value'[k] = value[k])
  BY <1>1, ReadingCases
<1>3. latest'[k].value = v /\ latest'[k].slack = threshold[k[2]]
  BY <1>2
<1>4. v \in Int /\ threshold[k[2]] \in Nat
  BY <1>2
<1>5. Distance(value'[k], v) <= threshold[k[2]]
  <2>1. CASE value'[k] = v
    BY <1>4, <2>1, DistanceFacts
  <2>2. CASE k \in Cached /\ ~Exceeds(k, v) /\ value'[k] = value[k]
    <3>1. value[k] \in Int
      BY <1>1, <2>2, CacheFacts
    <3>2. ~(Distance(v, value[k]) > threshold[k[2]])
      BY <2>2 DEF Exceeds
    <3>3. Distance(v, value[k]) \in Nat /\ Distance(v, value[k]) = Distance(value[k], v)
      BY <1>4, <3>1, DistanceFacts
    <3>4. QED
      BY <1>4, <2>2, <3>2, <3>3
  <2>3. QED
    BY <1>2, <2>1, <2>2
<1>6. ASSUME NEW x \in Cached' PROVE Distance(value'[x], latest'[x].value) <= latest'[x].slack
  BY <1>2, <1>3, <1>5, <1>6 DEF NearReading
<1>7. QED
  BY <1>6 DEF NearReading, Distance

LEMMA StoredStep ==
  ASSUME TypeInv, Stored, Poll PROVE Stored'
<1> DEFINE p == Head(air)
<1>1. /\ air # << >> /\ air' = Tail(air)
      /\ hubValue' = [k \in Keys |-> IF k \in Processed(p.entries) THEN p.entries[k] ELSE hubValue[k]]
      /\ got' = [k \in Keys |-> IF k \in DOMAIN p.entries THEN p.entries[k] ELSE got[k]]
      /\ refused' = (refused \ DOMAIN p.entries)
                      \union (DOMAIN p.entries \ Processed(p.entries))
  BY DEF Poll, Ingest
<1> HIDE DEF p
<1>2. Processed(p.entries) \subseteq DOMAIN p.entries
  BY DEF Processed
<1>3. ASSUME NEW k \in Keys, k \notin refused', got'[k] # NoValue PROVE hubValue'[k] = got'[k]
  <2>1. CASE k \in DOMAIN p.entries
    BY <1>1, <1>3, <2>1
  <2>2. CASE k \notin DOMAIN p.entries
    BY <1>1, <1>2, <1>3, <2>2 DEF Stored
  <2>3. QED
    BY <2>1, <2>2
<1>4. QED
  BY <1>3 DEF Stored, Keys

LEMMA TrackNext == TypeInv /\ TrackInv /\ [Next]_vars => TrackInv'
<1> SUFFICES ASSUME TypeInv, TrackInv, [Next]_vars PROVE TrackInv'
  OBVIOUS
<1>a. NearReading /\ Stored
  BY DEF TrackInv
<1>b. ASSUME UNCHANGED << order, value, latest >> PROVE NearReading'
  BY <1>a, <1>b DEF NearReading, Cached
<1>c. ASSUME UNCHANGED << hubValue, got, refused >> PROVE Stored'
  BY <1>a, <1>c DEF Stored
<1>1. CASE Poll
  BY <1>a, <1>b, <1>1, StoredStep DEF Poll, cacheVars, TrackInv
<1>2. ASSUME NEW k \in Keys, NEW v \in Values, TakeReading(k, v) PROVE TrackInv'
  BY <1>a, <1>c, <1>2, NearReadingStep DEF TakeReading, hubVars, TrackInv
<1>3. CASE GatewayRestart
  <2>1. Cached' = {}
    BY <1>3, CacheInitType DEF GatewayRestart
  <2>2. QED
    BY <1>c, <1>3, <2>1 DEF GatewayRestart, hubVars, TrackInv, NearReading
<1>4. CASE /\ ~Poll /\ ~GatewayRestart
           /\ ~\E k \in Keys, v \in Values : TakeReading(k, v)
  <2>1. UNCHANGED << order, value, latest, hubValue, got, refused >>
    BY <1>4 DEF Next, Configure, SetState, FlushBegin, Transmit, Acknowledged,
                Retry, GiveUp, SendFails, AuthenticateGateway, Attest, Tick,
                SetThreshold, ClearDirty, hubVars, cacheVars, vars
  <2>2. QED
    BY <1>b, <1>c, <2>1 DEF TrackInv
<1>5. QED
  BY <1>1, <1>2, <1>3, <1>4

(* The delta filter, the cache, the forwarder, the link and the hub's      *)
(* ingestion together keep the hub within one threshold of the sensor, for *)
(* every clean entry that was not refused.                                 *)
THEOREM HubIsNearSensor ==
  ASSUME Radio = "prompt" PROVE Spec => []HubTracksReadings
<1>1. Init => TrackInv
  <2>1. ASSUME Init PROVE TrackInv
    <3>1. Cached = {}
      BY <2>1, CacheInitType DEF Init
    <3>2. QED
      BY <2>1, <3>1 DEF Init, TrackInv, NearReading, Stored
  <2>2. QED
    BY <2>1
<1>2. Spec => [](TypeInv /\ LinkInv /\ TrackInv)
  BY <1>1, TrackNext, LinkAlways, PTL DEF Spec
<1>3. TypeInv /\ LinkInv /\ TrackInv => HubTracksReadings
  <2> SUFFICES ASSUME TypeInv, LinkInv, TrackInv, NEW k \in Cached \ (dirty \union refused)
               PROVE  /\ hubValue[k] # NoValue
                      /\ Distance(hubValue[k], latest[k].value) <= latest[k].slack
    BY DEF HubTracksReadings
  <2>1. got[k] = value[k] /\ k \in Keys /\ value[k] \in Values
    BY CacheFacts DEF TypeInv, LinkInv, CleanIsReceived
  <2>2. hubValue[k] = value[k] /\ value[k] # NoValue
    BY <2>1 DEF TrackInv, Stored
  <2>3. QED
    BY <2>2 DEF TrackInv, NearReading
<1>4. QED
  BY <1>2, <1>3, PTL
=============================================================================
