---------------------------- MODULE MCMpvSession ----------------------------
(* Small instances of MpvSession: the bounds are in the cfg file. *)
EXTENDS MpvSession

CONSTANTS a, b, c

MCPicks == {<<c>>}
MCSeason == [v \in {a, b, c} |-> IF v = a THEN <<b, a>> ELSE <<>>]
=============================================================================
