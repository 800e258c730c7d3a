-------------------------- MODULE MCSubscriptions --------------------------
(* Small instances of Subscriptions for TLC. *)
EXTENDS Subscriptions, TLC

CONSTANTS u1, u2, t1, t2

MCUser == {u1, u2}
MCTask == {t1, t2}
MCPeriods == {1, 2}
MCTrialUser == {u2}

Symmetry == Permutations(MCTask)
=============================================================================
