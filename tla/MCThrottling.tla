---------------------------- MODULE MCThrottling ----------------------------
(* A small instance of Throttling for TLC. *)
EXTENDS Throttling, TLC

CONSTANTS m1, m2, m3, m4

MCMessage == {m1, m2, m3, m4}
Symmetry == Permutations(MCMessage)
=============================================================================
