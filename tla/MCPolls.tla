------------------------------ MODULE MCPolls ------------------------------
(* A small instance of Polls for TLC. *)
EXTENDS Polls, TLC

CONSTANTS u1, u2, p1, p2, t1, t2

MCUser == {u1, u2}
OnePoll == {p1}
TwoPolls == {p1, p2}
MCTask == {t1, t2}

Symmetry == Permutations(MCUser) \cup Permutations(MCTask) \cup Permutations(TwoPolls)
=============================================================================
