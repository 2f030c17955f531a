--------------------------- MODULE MCKeySequences ---------------------------
(* Small instance of KeySequences: "g" is bound and starts "gg" and "ga" in  *)
(* normal mode, "g" starts "ga" in an input.                               *)
EXTENDS KeySequences

MCKeys == {"g", "a"}
MCBindings ==
    [m \in Modes |-> IF m = "normal" THEN {<<"g">>, <<"g", "g">>, <<"g", "a">>}
                     ELSE {<<"g", "a">>}]
MCStepsOnce == {<<"g", "g">>}
MCJobs == (0..MaxReloads) \X (1..MaxKeys) \X Modes
MCIdOf == [j \in MCJobs |-> j[1]]
MCDelay == [j \in MCJobs |-> IF j[3] = "normal" THEN 2 ELSE 1]
MCRepeated == {}
=============================================================================
