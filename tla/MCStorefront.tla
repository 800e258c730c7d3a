---------------------------- MODULE MCStorefront ----------------------------
(* Small instances of Storefront for TLC. *)
EXTENDS Storefront, TLC

CONSTANTS u1, u2, t1, t2

OneUser == {u1}
TwoUsers == {u1, u2}
OneTask == {t1}
TwoTasks == {t1, t2}
OnePeriod == {1}
TwoPeriods == {1, 2}
NoUser == {}

Symmetry == Permutations(TwoTasks)
=============================================================================
