--------------------------- MODULE MCAccessReads ---------------------------
(* Small instances of AccessReads for TLC. *)
EXTENDS AccessReads, TLC

CONSTANTS u1, t1, t2

MCUser == {u1}
MCTask == {t1, t2}
MCPeriods == {1, 2}

Symmetry == Permutations(MCTask)
=============================================================================
