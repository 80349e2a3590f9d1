----------------------------- MODULE AcceptOnce -----------------------------
(***************************************************************************)
(* What replay protection promises: between two resets of a node, each     *)
(* frame let through carries a nonce that no frame of it carried before.   *)
(***************************************************************************)
EXTENDS Naturals

CONSTANTS Nodes, Nonces

VARIABLES
  accepted,  \* of each node: the nonces let through since its last reset
  passed     \* of each node: how many frames that were

Init ==
  /\ accepted = [n \in Nodes |-> {}]
  /\ passed = [n \in Nodes |-> 0]

Accept(n, k) ==
  /\ k \notin accepted[n]
  /\ accepted' = [accepted EXCEPT ![n] = @ \union {k}]
  /\ passed' = [passed EXCEPT ![n] = @ + 1]

Forget(N) ==
  /\ accepted' = [n \in Nodes |-> IF n \in N THEN {} ELSE accepted[n]]
  /\ passed' = [n \in Nodes |-> IF n \in N THEN 0 ELSE passed[n]]

Next ==
  \/ \E n \in Nodes, k \in Nonces : Accept(n, k)
  \/ \E N \in SUBSET Nodes : Forget(N)

Spec == Init /\ [][Next]_<< accepted, passed >>
=============================================================================
