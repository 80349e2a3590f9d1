------------------------- MODULE MCReplayProtection -------------------------
(* Model checking of ReplayProtection with a window of a few bits; n1 .. n3 *)
(* stand for three node identifiers.                                        *)
EXTENDS ReplayProtection

CONSTANTS n1, n2, n3
=============================================================================
