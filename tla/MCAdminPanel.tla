---------------------------- MODULE MCAdminPanel ----------------------------
(* Small instances of AdminPanel for TLC. *)
EXTENDS AdminPanel, TLC

CONSTANTS u1, u2, m1, m2, m3

OneUser == {u1}
TwoUsers == {u1, u2}
Nobody == {}

ThreeMessages == {m1, m2, m3}

Symmetry == Permutations(Message)
=============================================================================
