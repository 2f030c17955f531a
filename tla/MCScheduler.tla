---------------------------- MODULE MCScheduler ----------------------------
(* Small instance of Scheduler: two one-shot jobs of one id, one of its    *)
(* own, and one repeated job.                                              *)
EXTENDS Scheduler

MCJobs == {"k1", "k2", "s", "r"}
MCIdOf == [j \in MCJobs |-> IF j \in {"k1", "k2"} THEN "key" ELSE j]
MCDelay == [j \in MCJobs |-> IF j = "s" THEN 2 ELSE 1]
MCRepeated == {"r"}
=============================================================================
