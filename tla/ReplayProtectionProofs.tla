----------------------- MODULE ReplayProtectionProofs -----------------------
(***************************************************************************)
(* For every table size, window size, drift bound and nonce range: the     *)
(* bitmap of replay_protection.c is exact, and replay_check() accepts a    *)
(* nonce at most once between two resets of its node.                      *)
(***************************************************************************)
EXTENDS ReplayProtection, TLAPS

(* An entry that is not in use is all zero, and nothing was accepted. *)
IdleEntries ==
  \A n \in Nodes \ tracked : highest[n] = 0 /\ seen[n] = {} /\ accepted[n] = {}

WindowInv == TypeOK /\ WindowExact /\ IdleEntries

(* A node that passes for new has no accepted nonce: an entry in use has   *)
(* at least bit 0 set.                                                     *)
LEMMA FirstIsFresh ==
  ASSUME WindowInv, NEW n \in Nodes, IsFirst(n)
  PROVE  n \notin tracked /\ accepted[n] = {}
<1>1. 0 \in Bits BY ReplayAssumption DEF Bits
<1>2. highest[n] - 0 = highest[n] BY DEF WindowInv, TypeOK, Nonces
<1>3. n \notin tracked BY <1>1, <1>2 DEF WindowInv, WindowExact, IsFirst
<1> QED BY <1>3 DEF WindowInv, IdleEntries

(* A nonce that replay_check() accepts was not accepted before. *)
LEMMA AcceptedIsFresh ==
  ASSUME WindowInv, NEW n \in Nodes, NEW k \in Nonces,
         \/ IsFirst(n)
         \/ k > highest[n]
         \/ k <= highest[n] /\ InWindow(n, k)
  PROVE  k \notin accepted[n]
<1>1. CASE IsFirst(n) BY <1>1, FirstIsFresh
<1>2. CASE k > highest[n]
  BY <1>2 DEF WindowInv, WindowExact, TypeOK, Nonces
<1>3. CASE k <= highest[n] /\ InWindow(n, k)
  <2>1. highest[n] \in Int /\ k \in Int
    BY ReplayAssumption DEF WindowInv, TypeOK, Nonces
  <2>2. highest[n] - k \in Bits
    BY <1>3, <2>1, ReplayAssumption DEF InWindow, Bits
  <2>3. highest[n] - (highest[n] - k) = k BY <2>1
  <2> QED BY <1>3, <2>2, <2>3 DEF WindowInv, WindowExact, InWindow
<1> QED BY <1>1, <1>2, <1>3

LEMMA InitWindow == Init => WindowInv
BY ReplayAssumption DEF Init, WindowInv, TypeOK, WindowExact, IdleEntries,
  Nonces, Times, Bits

(* What the three accepting branches have in common. *)
LEMMA FirstStep ==
  ASSUME WindowInv, NEW n \in Nodes, NEW k \in Nonces, NEW t \in 0 .. now,
         CheckFirst(n, k, t)
  PROVE  WindowInv'
<1> USE ReplayAssumption
<1>0. n \notin tracked /\ accepted[n] = {} BY FirstIsFresh DEF CheckFirst
<1>1. TypeOK'
  BY DEF WindowInv, TypeOK, CheckFirst, Passes, Nonces, Times, Bits
<1>2. WindowExact'
  <2> SUFFICES ASSUME NEW m \in Nodes
               PROVE  /\ m \in tracked' <=> highest'[m] \in accepted'[m]
                      /\ \A j \in accepted'[m] : j <= highest'[m]
                      /\ \A d \in Bits : d \in seen'[m] <=> highest'[m] - d \in accepted'[m]
    BY DEF WindowExact
  <2>1. CASE m = n
    <3>1. highest'[m] = k /\ accepted'[m] = {k} /\ seen'[m] = {0} /\ m \in tracked'
      BY <1>0, <2>1 DEF CheckFirst, Passes, WindowInv, TypeOK
    <3> QED BY <3>1 DEF Nonces, Bits
  <2>2. CASE m # n
    <3>1. /\ highest'[m] = highest[m] /\ accepted'[m] = accepted[m]
          /\ seen'[m] = seen[m] /\ (m \in tracked' <=> m \in tracked)
      BY <2>2 DEF CheckFirst, Passes, WindowInv, TypeOK
    <3> QED BY <3>1 DEF WindowInv, WindowExact
  <2> QED BY <2>1, <2>2
<1>3. IdleEntries'
  BY DEF WindowInv, TypeOK, IdleEntries, CheckFirst, Passes
<1> QED BY <1>1, <1>2, <1>3 DEF WindowInv

(* The shifted bitmap is exact for the new highest nonce. *)
LEMMA ShiftExact ==
  ASSUME WindowInv, NEW n \in Nodes, NEW k \in Nonces, k > highest[n],
         NEW d \in Bits
  PROVE  d \in Shifted(seen[n], k - highest[n]) <=> k - d \in accepted[n] \union {k}
<1> DEFINE h == highest[n]
           s == k - h
<1>0. /\ h \in Nat /\ k \in Nat /\ s \in Nat /\ s > 0 /\ d \in Nat /\ d < Window
      /\ accepted[n] \in SUBSET Nonces
  BY ReplayAssumption DEF WindowInv, TypeOK, Nonces, Bits
<1>1. \A j \in accepted[n] : j <= h BY DEF WindowInv, WindowExact
<1>2. \A b \in Bits : b \in seen[n] <=> h - b \in accepted[n]
  BY DEF WindowInv, WindowExact
<1>3. seen[n] \in SUBSET Bits BY DEF WindowInv, TypeOK
<1>4. CASE s < Window
  <2>1. d \in Shifted(seen[n], s) <=> d = 0 \/ d - s \in seen[n]
    BY <1>4 DEF Shifted
  <2>2. CASE d = 0 BY <1>0, <2>1, <2>2
  <2>3. CASE d > 0 /\ d < s
    <3>1. d - s \notin Bits BY <1>0, <2>3 DEF Bits
    <3>2. k - d > h /\ k - d # k BY <1>0, <2>3
    <3> QED BY <2>1, <2>3, <1>3, <3>1, <3>2, <1>1, <1>0
  <2>4. CASE d > 0 /\ d >= s
    <3>1. d - s \in Bits BY <1>0, <2>4, ReplayAssumption DEF Bits
    <3>2. h - (d - s) = k - d /\ k - d # k BY <1>0, <2>4
    <3> QED BY <2>1, <2>4, <3>1, <3>2, <1>2, <1>0
  <2> QED BY <1>0, <2>2, <2>3, <2>4
<1>5. CASE ~(s < Window)
  <2>1. d \in Shifted(seen[n], s) <=> d = 0 BY <1>5 DEF Shifted
  <2>2. CASE d = 0 BY <1>0, <2>1, <2>2
  <2>3. CASE d > 0
    <3>1. s >= Window /\ k - d > h /\ k - d # k
      BY <1>0, <1>5, <2>3, ReplayAssumption
    <3> QED BY <2>1, <2>3, <3>1, <1>1, <1>0
  <2> QED BY <1>0, <2>2, <2>3
<1> QED BY <1>4, <1>5

LEMMA AheadStep ==
  ASSUME WindowInv, NEW n \in Nodes, NEW k \in Nonces, NEW t \in 0 .. now,
         CheckAhead(n, k, t)
  PROVE  WindowInv'
<1> USE ReplayAssumption
<1>0. k > highest[n] BY DEF CheckAhead
<1>1. n \in tracked
  <2>1. ~(highest[n] = 0 /\ seen[n] = {}) BY DEF CheckAhead, IsFirst
  <2> QED BY <2>1 DEF WindowInv, IdleEntries
<1>2. TypeOK'
  <2>1. Shifted(seen[n], k - highest[n]) \in SUBSET Bits
    <3>1. 0 \in Bits BY DEF Bits
    <3> QED BY <3>1 DEF Shifted
  <2> QED BY <2>1 DEF WindowInv, TypeOK, CheckAhead, Passes, Nonces, Times
<1>3. WindowExact'
  <2> SUFFICES ASSUME NEW m \in Nodes
               PROVE  /\ m \in tracked' <=> highest'[m] \in accepted'[m]
                      /\ \A j \in accepted'[m] : j <= highest'[m]
                      /\ \A d \in Bits : d \in seen'[m] <=> highest'[m] - d \in accepted'[m]
    BY DEF WindowExact
  <2>1. CASE m = n
    <3>1. /\ highest'[m] = k /\ accepted'[m] = accepted[n] \union {k}
          /\ seen'[m] = Shifted(seen[n], k - highest[n]) /\ m \in tracked'
      BY <1>1, <2>1 DEF CheckAhead, Passes, WindowInv, TypeOK
    <3>2. \A j \in accepted[n] : j <= k
      <4>1. \A j \in accepted[n] : j <= highest[n] /\ j \in Nonces
        BY DEF WindowInv, WindowExact, TypeOK
      <4>2. highest[n] \in Nonces BY DEF WindowInv, TypeOK
      <4> QED BY <4>1, <4>2, <1>0 DEF Nonces
    <3>3. \A d \in Bits : d \in seen'[m] <=> highest'[m] - d \in accepted'[m]
      BY <3>1, <1>0, ShiftExact
    <3>4. k <= k BY DEF Nonces
    <3> QED BY <3>1, <3>2, <3>3, <3>4
  <2>2. CASE m # n
    <3>1. /\ highest'[m] = highest[m] /\ accepted'[m] = accepted[m]
          /\ seen'[m] = seen[m] /\ (m \in tracked' <=> m \in tracked)
      BY <2>2 DEF CheckAhead, Passes, WindowInv, TypeOK
    <3> QED BY <3>1 DEF WindowInv, WindowExact
  <2> QED BY <2>1, <2>2
<1>4. IdleEntries'
  BY <1>1 DEF WindowInv, TypeOK, IdleEntries, CheckAhead, Passes
<1> QED BY <1>2, <1>3, <1>4 DEF WindowInv

LEMMA BehindStep ==
  ASSUME WindowInv, NEW n \in Nodes, NEW k \in Nonces, NEW t \in 0 .. now,
         CheckBehind(n, k, t)
  PROVE  WindowInv'
<1> USE ReplayAssumption
<1> DEFINE h == highest[n]
           b == h - k
<1>0. h \in Nat /\ k \in Nat /\ k <= h /\ b \in Bits
  BY DEF WindowInv, TypeOK, Nonces, CheckBehind, InWindow, Bits
<1>1. n \in tracked
  <2>1. ~(highest[n] = 0 /\ seen[n] = {}) BY DEF CheckBehind, IsFirst
  <2> QED BY <2>1 DEF WindowInv, IdleEntries
<1>2. TypeOK'
  BY <1>0 DEF WindowInv, TypeOK, CheckBehind, Passes, Nonces, Times
<1>3. WindowExact'
  <2> SUFFICES ASSUME NEW m \in Nodes
               PROVE  /\ m \in tracked' <=> highest'[m] \in accepted'[m]
                      /\ \A j \in accepted'[m] : j <= highest'[m]
                      /\ \A d \in Bits : d \in seen'[m] <=> highest'[m] - d \in accepted'[m]
    BY DEF WindowExact
  <2>1. CASE m = n
    <3>1. /\ highest'[m] = h /\ accepted'[m] = accepted[n] \union {k}
          /\ seen'[m] = seen[n] \union {b} /\ m \in tracked'
      BY <1>1, <2>1 DEF CheckBehind, Passes, WindowInv, TypeOK
    <3>2. \A d \in Bits : d = b <=> h - d = k BY <1>0 DEF Bits
    <3> QED BY <3>1, <3>2, <1>0, <1>1 DEF WindowInv, WindowExact
  <2>2. CASE m # n
    <3>1. /\ highest'[m] = highest[m] /\ accepted'[m] = accepted[m]
          /\ seen'[m] = seen[m] /\ (m \in tracked' <=> m \in tracked)
      BY <2>2 DEF CheckBehind, Passes, WindowInv, TypeOK
    <3> QED BY <3>1 DEF WindowInv, WindowExact
  <2> QED BY <2>1, <2>2
<1>4. IdleEntries'
  BY <1>1 DEF WindowInv, TypeOK, IdleEntries, CheckBehind, Passes
<1> QED BY <1>2, <1>3, <1>4 DEF WindowInv

LEMMA ResetStep ==
  ASSUME WindowInv, NEW N \in SUBSET Nodes, Reset(N)
  PROVE  WindowInv'
<1> USE ReplayAssumption
<1>1. TypeOK'
  BY DEF WindowInv, TypeOK, Reset, Nonces, Times
<1>2. WindowExact'
  <2> SUFFICES ASSUME NEW m \in Nodes
               PROVE  /\ m \in tracked' <=> highest'[m] \in accepted'[m]
                      /\ \A j \in accepted'[m] : j <= highest'[m]
                      /\ \A d \in Bits : d \in seen'[m] <=> highest'[m] - d \in accepted'[m]
    BY DEF WindowExact
  <2>1. CASE m \in N BY <2>1 DEF Reset
  <2>2. CASE m \notin N
    <3>1. /\ highest'[m] = highest[m] /\ accepted'[m] = accepted[m]
          /\ seen'[m] = seen[m] /\ (m \in tracked' <=> m \in tracked)
      BY <2>2 DEF Reset
    <3> QED BY <3>1 DEF WindowInv, WindowExact
  <2> QED BY <2>1, <2>2
<1>3. IdleEntries' BY DEF WindowInv, IdleEntries, Reset
<1> QED BY <1>1, <1>2, <1>3 DEF WindowInv

LEMMA NextWindow == WindowInv /\ [Next]_vars => WindowInv'
<1> SUFFICES ASSUME WindowInv, [Next]_vars PROVE WindowInv'
  OBVIOUS
<1>1. CASE Check BY <1>1, FirstStep, AheadStep, BehindStep DEF Check
<1>2. CASE \E n \in Nodes : Reset({n})
  <2>1. PICK n \in Nodes : Reset({n}) BY <1>2
  <2>2. {n} \in SUBSET Nodes OBVIOUS
  <2> QED BY <2>1, <2>2, ResetStep
<1>3. CASE Reset(Nodes)
  <2>1. Nodes \in SUBSET Nodes OBVIOUS
  <2> QED BY <1>3, <2>1, ResetStep
<1>4. CASE Tick
  BY <1>4, ReplayAssumption DEF Tick, WindowInv, TypeOK, WindowExact, IdleEntries, Times
<1>5. CASE UNCHANGED vars
  BY <1>5 DEF vars, WindowInv, TypeOK, WindowExact, IdleEntries
<1> QED BY <1>1, <1>2, <1>3, <1>4, <1>5 DEF Next

LEMMA WindowInvariant == Spec => []WindowInv
BY InitWindow, NextWindow, PTL DEF Spec

(* The fields of every entry of the replay table keep their ranges: no bit *)
(* is marked outside the 64-bit bitmap.                                    *)
THEOREM ReplayTypeCorrect == Spec => []TypeOK
<1>1. WindowInv => TypeOK BY DEF WindowInv
<1> QED BY <1>1, WindowInvariant, PTL

(* For every window size the bitmap of replay_check() says exactly which   *)
(* of the last Window nonces were accepted.                                *)
THEOREM BitmapIsExact == Spec => []WindowExact
<1>1. WindowInv => WindowExact BY DEF WindowInv
<1> QED BY <1>1, WindowInvariant, PTL

LEMMA StepIsPromised ==
  WindowInv /\ [Next]_vars => [Promise!Next]_<< accepted, passed >>
<1> SUFFICES ASSUME WindowInv, [Next]_vars PROVE Promise!Next \/ UNCHANGED << accepted, passed >>
  OBVIOUS
<1>1. CASE Check
  <2>1. PICK n \in Nodes, k \in Nonces, t \in 0 .. now :
          CheckFirst(n, k, t) \/ CheckAhead(n, k, t) \/ CheckBehind(n, k, t)
    BY <1>1 DEF Check
  <2>2. Passes(n, k)
    BY <2>1 DEF CheckFirst, CheckAhead, CheckBehind
  <2>3. \/ IsFirst(n)
        \/ k > highest[n]
        \/ k <= highest[n] /\ InWindow(n, k)
    BY <2>1 DEF CheckFirst, CheckAhead, CheckBehind
  <2>4. k \notin accepted[n] BY <2>3, AcceptedIsFresh
  <2> QED BY <2>2, <2>4 DEF Passes, Promise!Next, Promise!Accept
<1>2. CASE \E n \in Nodes : Reset({n})
  <2>1. PICK n \in Nodes : Reset({n}) BY <1>2
  <2>2. {n} \in SUBSET Nodes OBVIOUS
  <2> QED BY <2>1, <2>2 DEF Reset, Promise!Next, Promise!Forget
<1>3. CASE Reset(Nodes)
  BY <1>3 DEF Reset, Promise!Next, Promise!Forget
<1>4. CASE Tick BY <1>4 DEF Tick
<1>5. CASE UNCHANGED vars BY <1>5 DEF vars
<1> QED BY <1>1, <1>2, <1>3, <1>4, <1>5 DEF Next

(* The window implements the abstract promise: between two resets of a     *)
(* node, replay_check() never returns REPLAY_OK twice for the same nonce,  *)
(* whatever the order, delay and repetition of the frames.                 *)
THEOREM AtMostOnce == Spec => AcceptedAtMostOnce
<1>1. Init => Promise!Init BY DEF Init, Promise!Init
<1> QED BY <1>1, StepIsPromised, WindowInvariant, PTL
        DEF Spec, Promise!Spec, AcceptedAtMostOnce
=============================================================================
