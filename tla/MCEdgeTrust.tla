---------------------------- MODULE MCEdgeTrust -----------------------------
(* Model checking of EdgeTrust: the nodes are interchangeable. *)
EXTENDS EdgeTrust, TLC

NodeSymmetry == Permutations(Nodes)
=============================================================================
