------------------------- MODULE MCExpirationLoop -------------------------
(* Small instances of ExpirationLoop for TLC. *)
EXTENDS ExpirationLoop, TLC

CONSTANTS u1, u2, loop, h1

MCUser == {u1, u2}
MCTask == {loop, h1}
MCPeriods == {3}
MCOneUser == {u1}
MCNobody == {}
=============================================================================
