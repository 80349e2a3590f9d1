--------------------------- MODULE MCSupervision ----------------------------
(* Model checking of Supervision: some of the faults, with their rows of   *)
(* the matrix, and a clock that counts in units of the heartbeat deadline. *)
EXTENDS Supervision

MCMatrix == [f \in Faults |-> [l \in Levels |-> DegradationMatrix[f][l + 1]]]
=============================================================================
