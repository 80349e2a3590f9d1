---------------------------- MODULE GatewayCache ----------------------------
(***************************************************************************)
(* The fog tier's memory: firmware/gateway/delta_filter.c in front of      *)
(* firmware/gateway/stateful_cache.c.  An array of entries that is only    *)
(* appended to is the sequence of their keys, in order of allocation, with *)
(* one value and one dirty flag per key.                                   *)
(***************************************************************************)
EXTENDS Integers, Sequences, FiniteSets

CONSTANTS
  Nodes,       \* edge nodes
  Metrics,     \* metric identifiers
  Values,      \* readings, as integers: only their distance matters
  Thresholds,  \* values delta_filter_set_threshold() is called with
  CacheSize    \* GATEWAY_MAX_NODES * GATEWAY_MAX_METRICS

ASSUME CacheAssumption ==
  /\ Values \subseteq Int
  /\ Thresholds \subseteq Nat
  /\ CacheSize \in Nat

VARIABLES
  threshold,   \* s_thresholds, of the metrics configured
  order,       \* keys of s_entries[0 .. s_entry_count - 1]
  value,       \* their values
  dirty,       \* the keys whose dirty flag is set
  latest       \* history: of each cached key, the reading last evaluated and
               \* the threshold it was evaluated with

cacheVars == << threshold, order, value, dirty, latest >>

Keys == Nodes \X Metrics
Cached == {order[i] : i \in DOMAIN order}

CacheTypeOK ==
  /\ \E M \in SUBSET Metrics : threshold \in [M -> Thresholds]
  /\ order \in Seq(Keys) /\ Len(order) <= CacheSize
  /\ value \in [Cached -> Values]
  /\ dirty \subseteq Cached
  /\ latest \in [Cached -> [value : Values, slack : Thresholds]]

Distance(v, w) == IF v > w THEN v - w ELSE w - v

(* cache_init(), delta_filter_init(): the memory of a gateway that starts. *)
CacheInit ==
  /\ threshold = << >> /\ order = << >> /\ value = << >> /\ dirty = {}
  /\ latest = << >>

CacheRestart ==
  /\ threshold' = << >> /\ order' = << >> /\ value' = << >> /\ dirty' = {}
  /\ latest' = << >>

(* delta_filter_set_threshold() *)
SetThreshold(m, t) ==
  /\ threshold' = [x \in DOMAIN threshold \union {m} |->
                     IF x = m THEN t ELSE threshold[x]]
  /\ UNCHANGED << order, value, dirty, latest >>

(* Mutant of Exceeds: compared with the reading before, cached or not. *)
ExceedsPrevious(k, v) == Distance(v, latest[k].value) > threshold[k[2]]

(* delta_filter_evaluate(): the reading against the value in the cache. *)
FirstRead(k) == k[2] \in DOMAIN threshold /\ k \notin Cached
Exceeds(k, v) == Distance(v, value[k]) > threshold[k[2]]

(* cache_write() of a key without an entry, if there is room for one. *)
AllocEntry(k, v) ==
  /\ Len(order) < CacheSize
  /\ order' = Append(order, k)
  /\ value' = [x \in Cached \union {k} |-> IF x = k THEN v ELSE value[x]]
  /\ dirty' = dirty \union {k}

(* cache_write() of a key with an entry: dirty when the value differs. *)
UpdateEntry(k, v) ==
  /\ dirty' = IF v = value[k] THEN dirty ELSE dirty \union {k}
  /\ value' = [value EXCEPT ![k] = v]
  /\ UNCHANGED order

(* An edge frame reaches the gateway: it is evaluated, then cached unless  *)
(* suppressed.  A metric without threshold is dropped.                     *)
Reading(k, v) ==
  /\ \/ FirstRead(k) /\ AllocEntry(k, v)
     \/ k \in Cached /\ Exceeds(k, v) /\ UpdateEntry(k, v)
     \/ k \in Cached /\ ~Exceeds(k, v) /\ UNCHANGED << order, value, dirty >>
  /\ latest' = [x \in Cached' |->
                  IF x = k THEN [value |-> v, slack |-> threshold[k[2]]]
                  ELSE latest[x]]
  /\ UNCHANGED threshold

(* Mutant of FirstDirty: the limit is put on the index of the scan. *)
FirstDirtyIndexed(max) ==
  {order[i] : i \in {j \in DOMAIN order : order[j] \in dirty /\ j <= max}}

(* cache_get_dirty(): the first max dirty entries, in order of allocation. *)
FirstDirty(max) ==
  {order[i] : i \in {j \in DOMAIN order :
     /\ order[j] \in dirty
     /\ Cardinality({h \in 1 .. j - 1 : order[h] \in dirty}) < max}}

(* cache_clear_dirty() of every entry of a batch. *)
ClearDirty(K) == dirty' = dirty \ K /\ UNCHANGED << threshold, order, value, latest >>
=============================================================================
