--------------------------- MODULE MCConfigPortal ---------------------------
(* Model checking of ConfigPortal; user names are interchangeable. *)
EXTENDS ConfigPortal, TLC

CONSTANTS u1, u2, u3
UserSymmetry == Permutations(Users)
=============================================================================
