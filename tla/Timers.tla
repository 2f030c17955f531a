------------------------------- MODULE Timers -------------------------------
(***************************************************************************)
(* What the scheduler promises to the code that sets timers                *)
(* (src/core/scheduler/mod.rs: "These jobs run on a separate thread and    *)
(* are guaranteed to run after at least the specified time"):              *)
(*   - a timer rings only once it is due; a repeated one is then due again *)
(*     one interval after a moment between its due time and its ringing;   *)
(*   - a timer is given up only if its owner withdrew it (cancelled it,    *)
(*     replaced it by a timer of the same id, or stopped the scheduler);   *)
(*   - a timer that rang (and does not repeat) or that was given up never  *)
(*     comes back.                                                         *)
(***************************************************************************)
EXTENDS Naturals

CONSTANTS
    Jobs,       \* the timers ever set, each at most once
    IdOf,       \* the id a timer is set under
    Delay,      \* its delay, or its interval when it repeats
    Repeated    \* the timers that repeat

VARIABLES
    now,        \* the clock
    issued,     \* timers that were set
    due,        \* the pending timers, each with its due time
    withdrawn   \* pending timers whose owner does not want them any more

vars == <<now, issued, due, withdrawn>>

Pending == DOMAIN due

Init ==
    /\ now = 0
    /\ issued = {}
    /\ due = [j \in {} |-> 0]
    /\ withdrawn = {}

Tick ==
    /\ now' = now + 1
    /\ UNCHANGED <<issued, due, withdrawn>>

\* A one-shot timer replaces the pending timers of its id.
Set(j) ==
    /\ j \notin issued
    /\ issued' = issued \cup {j}
    /\ due' = [k \in Pending \cup {j} |-> IF k = j THEN now + Delay[j] ELSE due[k]]
    /\ withdrawn' = withdrawn \cup
         {k \in Pending : j \notin Repeated /\ IdOf[k] = IdOf[j]}
    /\ UNCHANGED now

\* The owner cancels the timers of an id, or stops the scheduler.
Withdraw(S) ==
    /\ withdrawn' = withdrawn \cup (S \cap Pending)
    /\ UNCHANGED <<now, issued, due>>

Without(S) == [k \in Pending \ S |-> due[k]]

GiveUp(S) ==
    /\ S \subseteq withdrawn
    /\ due' = Without(S)
    /\ withdrawn' = withdrawn \ S
    /\ UNCHANGED <<now, issued>>

Ring(j) ==
    /\ due[j] <= now
    /\ IF j \in Repeated
       THEN /\ \E t \in due[j]..now : due' = [due EXCEPT ![j] = t + Delay[j]]
            /\ UNCHANGED withdrawn
       ELSE /\ due' = Without({j})
            /\ withdrawn' = withdrawn \ {j}
    /\ UNCHANGED <<now, issued>>

Next ==
    \/ Tick
    \/ \E j \in Jobs : Set(j)
    \/ \E id \in {IdOf[j] : j \in Jobs} : Withdraw({j \in Pending : IdOf[j] = id})
    \/ Withdraw(Pending)
    \/ \E S \in SUBSET withdrawn : GiveUp(S)
    \/ \E j \in Pending : Ring(j)

Spec == Init /\ [][Next]_vars
=============================================================================
