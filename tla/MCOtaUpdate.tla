---------------------------- MODULE MCOtaUpdate -----------------------------
(* Model checking of OtaUpdate on small images, few versions and contexts. *)
EXTENDS OtaUpdate, TLC

Symmetry == Permutations(Sessions)
=============================================================================
