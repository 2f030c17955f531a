---------------------------- MODULE MCStreamCache ----------------------------
(* Model checking StreamCache.  One link, used as audio and as video, is    *)
(* followed in detail; two links of one chunk compete for a budget of one.  *)
EXTENDS StreamCache, TLC

CONSTANTS r1, r2

BothRows  == {<<"audio", "a">>, <<"video", "a">>}
AudioRows == {<<"audio", "a">>, <<"audio", "b">>}
MCSize    == [k \in Keys |-> IF Cardinality(Keys) = 1 THEN 2 ELSE 1]
MCBudget  == [c \in Classes |-> 1]
=============================================================================
