-------------------------- MODULE ReplayProtection --------------------------
(***************************************************************************)
(* The nonce and timestamp window of firmware/shared/replay_protection.c.  *)
(* The table of at most MaxNodes entries is the set of tracked nodes with  *)
(* one value per field; bit i of the bitmap is the member i of "seen".     *)
(* A frame that is not accepted changes nothing.                           *)
(***************************************************************************)
EXTENDS Integers, FiniteSets

CONSTANTS
  Nodes,     \* senders
  MaxNodes,  \* REPLAY_MAX_NODES
  Window,    \* REPLAY_WINDOW_SIZE
  MaxDrift,  \* REPLAY_MAX_DRIFT_MS
  MaxNonce,  \* bound: the largest nonce a sender uses
  MaxTime    \* bound: the clock

ASSUME ReplayAssumption ==
  /\ Window \in Nat \ {0}
  /\ MaxNodes \in Nat /\ MaxDrift \in Nat /\ MaxNonce \in Nat /\ MaxTime \in Nat

VARIABLES
  tracked,   \* nodes with an initialised entry
  highest,   \* highest_nonce
  stamp,     \* highest_timestamp_ms
  seen,      \* bitmap
  now,       \* the senders' clock
  accepted,  \* history: nonces accepted since the node's last reset
  passed     \* history: how many frames were accepted since then

vars == << tracked, highest, stamp, seen, now, accepted, passed >>

Nonces == 0 .. MaxNonce
Times == 0 .. MaxTime
Bits == 0 .. Window - 1

(* The variables have their types: the bitmaps fit the window.             *)
TypeOK ==
  /\ tracked \in SUBSET Nodes
  /\ highest \in [Nodes -> Nonces]
  /\ stamp \in [Nodes -> Times]
  /\ seen \in [Nodes -> SUBSET Bits]
  /\ now \in Times
  /\ accepted \in [Nodes -> SUBSET Nonces]
  /\ passed \in [Nodes -> Nat]

Init ==
  /\ tracked = {}
  /\ highest = [n \in Nodes |-> 0]
  /\ stamp = [n \in Nodes |-> 0]
  /\ seen = [n \in Nodes |-> {}]
  /\ now = 0
  /\ accepted = [n \in Nodes |-> {}]
  /\ passed = [n \in Nodes |-> 0]

(* find_or_alloc_node() finds or has room for the node. *)
HasEntry(n) == n \in tracked \/ Cardinality(tracked) < MaxNodes

(* The test for the first frame of a node. *)
IsFirst(n) == highest[n] = 0 /\ seen[n] = {}

(* The timestamp drift check, against the newest frame accepted. *)
InDrift(n, t) == t - stamp[n] <= MaxDrift /\ stamp[n] - t <= MaxDrift

(* Mutant of Shifted: the bitmap is kept when the jump leaves the window. *)
ShiftedKeep(bits, shift) ==
  {0} \union {d \in Bits : d - (shift % Window) \in bits}

(* The bitmap after the window moved ahead by shift, bit 0 marked. *)
Shifted(bits, shift) ==
  IF shift < Window THEN {0} \union {d \in Bits : d - shift \in bits} ELSE {0}

(* REPLAY_OK: the caller gets the frame. *)
Passes(n, k) ==
  /\ accepted' = [accepted EXCEPT ![n] = @ \union {k}]
  /\ passed' = [passed EXCEPT ![n] = @ + 1]

CheckFirst(n, k, t) ==
  /\ HasEntry(n) /\ IsFirst(n)
  /\ tracked' = tracked \union {n}
  /\ highest' = [highest EXCEPT ![n] = k]
  /\ stamp' = [stamp EXCEPT ![n] = t]
  /\ seen' = [seen EXCEPT ![n] = {0}]
  /\ Passes(n, k)
  /\ UNCHANGED now

CheckAhead(n, k, t) ==
  /\ HasEntry(n) /\ ~IsFirst(n) /\ InDrift(n, t)
  /\ k > highest[n]
  /\ highest' = [highest EXCEPT ![n] = k]
  /\ stamp' = [stamp EXCEPT ![n] = t]
  /\ seen' = [seen EXCEPT ![n] = Shifted(@, k - highest[n])]
  /\ Passes(n, k)
  /\ UNCHANGED << tracked, now >>

(* Mutant of InWindow: one nonce too many counts as unseen. *)
InWindowWide(n, k) ==
  highest[n] - k <= Window /\ highest[n] - k \notin seen[n]

(* The nonce is behind the highest one, in the window and unseen. *)
InWindow(n, k) ==
  highest[n] - k < Window /\ highest[n] - k \notin seen[n]

CheckBehind(n, k, t) ==
  /\ HasEntry(n) /\ ~IsFirst(n) /\ InDrift(n, t)
  /\ k <= highest[n] /\ InWindow(n, k)
  /\ seen' = [seen EXCEPT ![n] = @ \union {highest[n] - k}]
  /\ Passes(n, k)
  /\ UNCHANGED << tracked, highest, stamp, now >>

(* replay_check(): frames arrive late, repeated and out of order. *)
Check == \E n \in Nodes, k \in Nonces, t \in 0 .. now :
  CheckFirst(n, k, t) \/ CheckAhead(n, k, t) \/ CheckBehind(n, k, t)

(* The entries of N are cleared: replay_reset_node(), replay_reset_all(). *)
Reset(N) ==
  /\ tracked' = tracked \ N
  /\ highest' = [n \in Nodes |-> IF n \in N THEN 0 ELSE highest[n]]
  /\ stamp' = [n \in Nodes |-> IF n \in N THEN 0 ELSE stamp[n]]
  /\ seen' = [n \in Nodes |-> IF n \in N THEN {} ELSE seen[n]]
  /\ accepted' = [n \in Nodes |-> IF n \in N THEN {} ELSE accepted[n]]
  /\ passed' = [n \in Nodes |-> IF n \in N THEN 0 ELSE passed[n]]
  /\ UNCHANGED now

Tick ==
  /\ now < MaxTime /\ now' = now + 1
  /\ UNCHANGED << tracked, highest, stamp, seen, accepted, passed >>

Next ==
  \/ Check
  \/ \E n \in Nodes : Reset({n})
  \/ Reset(Nodes)
  \/ Tick

Spec == Init /\ [][Next]_vars

-----------------------------------------------------------------------------
(* The window implements the promise: no retransmission, reordering or     *)
(* jump of the nonce makes replay_check() accept a nonce twice.            *)
Promise == INSTANCE AcceptOnce WITH accepted <- accepted, passed <- passed
AcceptedAtMostOnce == Promise!Spec

(* The bitmap says exactly which of the last Window nonces were accepted,  *)
(* so a fresh one in the window is never taken for a duplicate, and a node *)
(* with an entry never passes for one that has sent nothing.               *)
WindowExact ==
  \A n \in Nodes :
    /\ n \in tracked <=> highest[n] \in accepted[n]
    /\ \A k \in accepted[n] : k <= highest[n]
    /\ \A d \in Bits : d \in seen[n] <=> highest[n] - d \in accepted[n]
=============================================================================
