------------------------------ MODULE Scheduler ------------------------------
(***************************************************************************)
(* The job scheduler of src/core/scheduler: callers put commands in an     *)
(* unbounded channel; one thread keeps the jobs in a heap ordered by due   *)
(* time and, in each round, takes one command or times out, then runs at   *)
(* most one due job and computes how long to wait next.                    *)
(*                                                                         *)
(* Time is a counter of ticks; a round of the thread and a callback may    *)
(* take any number of them.  Every job is scheduled at most once, so a     *)
(* name in Jobs is one call of schedule, schedule_replace or repeated.     *)
(***************************************************************************)
EXTENDS Naturals, Sequences

CONSTANTS
    Jobs,           \* calls of schedule, schedule_replace and repeated
    IdOf,           \* Job::id, RepeatedJob::id
    Delay,          \* the timeout or the interval asked for
    Repeated,       \* the calls of repeated
    MaxTime,        \* bound on the clock (see Tick)
    MaxCancels,     \* bound on the cancel commands sent
    Never           \* no deadline, no job

ASSUME JobsAssumption ==
    /\ Repeated \subseteq Jobs
    /\ Delay \in [Jobs -> Nat]
    /\ DOMAIN IdOf = Jobs
    /\ \A r \in Repeated : \A j \in Jobs \ {r} : IdOf[j] # IdOf[r]
ASSUME BoundsAssumption ==
    /\ MaxTime \in Nat /\ MaxCancels \in Nat
    /\ Never \notin Nat /\ Never \notin [job : Jobs, at : Nat]

VARIABLES
    now,        \* the clock (TimeProvider::now)
    issued,     \* jobs already scheduled
    cancels,    \* cancel commands sent so far
    channel,    \* add_job_tx / add_job_rx
    pc,         \* the thread: "off", "wait" (select), "turn", "run" (in a callback)
    deadline,   \* when recv(timeout) fires
    heap,       \* jobs: the BinaryHeap
    running,    \* the job popped and not finished
    sampled     \* the thread's `now` of the round that runs a job (else 0)

callers == <<issued, cancels>>
thread == <<pc, deadline, heap, running, sampled>>
vars == <<now, callers, channel, thread>>

Ids == {IdOf[j] : j \in Jobs}
Entry == [job : Jobs, at : Nat]

(* Commands *)
AddCommand(j) == [kind |-> "add", job |-> j, at |-> now + Delay[j]]
CancelCommand(id) == [kind |-> "cancel", id |-> id]
StopCommand == [kind |-> "stop"]

Init ==
    /\ now = 0
    /\ issued = {}
    /\ cancels = 0
    /\ channel = <<>>
    /\ pc = "off"
    /\ deadline = Never
    /\ heap = {}
    /\ running = Never
    /\ sampled = 0

(***************************************************************************)
(* The callers                                                             *)
(***************************************************************************)
\* stop() is waiting for the thread: it holds the scheduler exclusively.
Stopping == \E i \in DOMAIN channel : channel[i].kind = "stop"

Start ==
    /\ pc = "off"
    /\ pc' = "wait"
    /\ UNCHANGED <<now, callers, channel, deadline, heap, running, sampled>>

Schedule(j) ==
    /\ j \notin issued
    /\ ~Stopping
    /\ issued' = issued \cup {j}
    /\ channel' = Append(channel, AddCommand(j))
    /\ UNCHANGED <<now, cancels, thread>>

\* cancel() of a one-shot id, or a TaskGuard dropped: that one needs no
\* access to the scheduler and may come while it stops.
Cancel(id) ==
    /\ cancels < MaxCancels
    /\ \E j \in issued : IdOf[j] = id /\ (j \in Repeated \/ ~Stopping)
    /\ cancels' = cancels + 1
    /\ channel' = Append(channel, CancelCommand(id))
    /\ UNCHANGED <<now, issued, thread>>

\* Sends the command; the caller then waits in join until pc is "off".
Stop ==
    /\ pc # "off"
    /\ ~Stopping
    /\ channel' = Append(channel, StopCommand)
    /\ UNCHANGED <<now, callers, thread>>

(***************************************************************************)
(* The thread                                                              *)
(***************************************************************************)
\* Faulty: the jobs of the same id are not removed.
AddBeside(h, c) == h \cup {[job |-> c.job, at |-> c.at]}

Add(h, c) ==
    LET kept == IF c.job \in Repeated THEN h
                ELSE {e \in h : IdOf[e.job] # IdOf[c.job]}
    IN  kept \cup {[job |-> c.job, at |-> c.at]}

\* select_biased!: a command goes before the timeout.
Receive ==
    /\ pc = "wait"
    /\ channel # <<>>
    /\ channel' = Tail(channel)
    /\ deadline' = Never
    /\ LET c == Head(channel) IN
       \/ c.kind = "add" /\ pc' = "turn" /\ heap' = Add(heap, c)
       \/ c.kind = "cancel" /\ pc' = "turn" /\ heap' = {e \in heap : IdOf[e.job] # c.id}
       \/ c.kind = "stop" /\ pc' = "off" /\ heap' = {}
    /\ UNCHANGED <<now, callers, running, sampled>>

TimesOut ==
    /\ pc = "wait"
    /\ channel = <<>>
    /\ deadline # Never
    /\ deadline <= now
    /\ pc' = "turn"
    /\ deadline' = Never
    /\ UNCHANGED <<now, callers, channel, heap, running, sampled>>

Earliest(h) == {e \in h : \A f \in h : e.at <= f.at}

\* Faulty: the wait is cut to whole units, rounding down.
NextDeadlineCut(h, s) ==
    IF h = {} THEN Never
    ELSE LET at == (CHOOSE e \in Earliest(h) : TRUE).at
         IN  now + (IF at > s THEN at - s - 1 ELSE 0)

\* Faulty: checked_duration_since for saturating_duration_since; a job that
\* is already due sets no timeout.
NextDeadlineChecked(h, s) ==
    IF h = {} THEN Never
    ELSE LET at == (CHOOSE e \in Earliest(h) : TRUE).at
         IN  IF at > s THEN now + (at - s) ELSE Never

\* When the wait that starts now ends, for a round that sampled s.
NextDeadline(h, s) ==
    IF h = {} THEN Never
    ELSE LET at == (CHOOSE e \in Earliest(h) : TRUE).at
         IN  now + (IF at > s THEN at - s ELSE 0)

\* Faulty: the job popped is not compared with the clock.
TurnUnchecked ==
    /\ pc = "turn"
    /\ \/ \E e \in Earliest(heap) :
            /\ heap' = heap \ {e}
            /\ running' = e
            /\ sampled' = now
            /\ pc' = "run"
            /\ UNCHANGED deadline
       \/ /\ heap = {}
          /\ pc' = "wait"
          /\ deadline' = Never
          /\ UNCHANGED <<heap, running, sampled>>
    /\ UNCHANGED <<now, callers, channel>>

Turn ==
    /\ pc = "turn"
    /\ \/ \E e \in Earliest(heap) :
            /\ e.at <= now
            /\ heap' = heap \ {e}
            /\ running' = e
            /\ sampled' = now
            /\ pc' = "run"
            /\ UNCHANGED deadline
       \/ /\ \A e \in heap : e.at > now
          /\ pc' = "wait"
          /\ deadline' = NextDeadline(heap, now)
          /\ UNCHANGED <<heap, running, sampled>>
    /\ UNCHANGED <<now, callers, channel>>

\* The heap after the callback: a repeated job is due one interval after the
\* time sampled before the callback ran.
AfterRun ==
    IF running.job \in Repeated
    THEN heap \cup {[job |-> running.job, at |-> sampled + Delay[running.job]]}
    ELSE heap

\* The callback runs to its end; the rest of the round.
Run ==
    /\ pc = "run"
    /\ heap' = AfterRun
    /\ running' = Never
    /\ sampled' = 0
    /\ pc' = "wait"
    /\ deadline' = NextDeadline(AfterRun, sampled)
    /\ UNCHANGED <<now, callers, channel>>

\* Time passes; beyond the bound only while the thread waits for a one-shot
\* job or for a job that is due within it.
Tick ==
    /\ \/ now < MaxTime
       \/ pc = "wait" /\ channel = <<>> /\ deadline # Never /\ now < deadline
            /\ \E e \in heap : e.at <= MaxTime \/ e.job \notin Repeated
    /\ now' = now + 1
    /\ UNCHANGED <<callers, channel, thread>>

Thread == Receive \/ TimesOut \/ Turn \/ Run

Next ==
    \/ Start
    \/ Stop
    \/ \E j \in Jobs : Schedule(j)
    \/ \E id \in Ids : Cancel(id)
    \/ Thread
    \/ Tick

Spec == Init /\ [][Next]_vars

(***************************************************************************)
(* The thread is scheduled by the operating system and callbacks do not    *)
(* block (the rule scheduler/mod.rs states for jobs); time passes.         *)
(***************************************************************************)
FairSpec == Spec /\ WF_vars(Thread) /\ WF_vars(Tick)

(***************************************************************************)
(* The scheduler keeps the promise of Timers                               *)
(***************************************************************************)
Added == {i \in DOMAIN channel : channel[i].kind = "add"}
InHand == heap \cup (IF running = Never THEN {} ELSE {running})

PendingJobs == {e.job : e \in InHand} \cup {channel[i].job : i \in Added}

DueAt(j) ==
    IF \E e \in InHand : e.job = j
    THEN (CHOOSE e \in InHand : e.job = j).at
    ELSE channel[CHOOSE i \in Added : channel[i].job = j].at

Withdraws(c, j) ==
    \/ c.kind = "stop"
    \/ c.kind = "cancel" /\ c.id = IdOf[j]
    \/ c.kind = "add" /\ c.job \notin Repeated /\ c.job # j /\ IdOf[c.job] = IdOf[j]

\* Pending jobs with a command still to be received that takes them back.
WithdrawnJobs ==
    {e.job : e \in {e \in InHand : \E i \in DOMAIN channel : Withdraws(channel[i], e.job)}}
    \cup {channel[i].job : i \in {i \in Added :
            \E k \in DOMAIN channel : k > i /\ Withdraws(channel[k], channel[i].job)}}

T == INSTANCE Timers WITH
    due <- [j \in PendingJobs |-> DueAt(j)],
    withdrawn <- WithdrawnJobs

\* Never early, never lost unless withdrawn, never back: every step of the
\* scheduler is a step of Timers (or none).
KeepsTimers == T!Spec

TypeOK ==
    /\ now \in Nat
    /\ issued \subseteq Jobs
    /\ cancels \in 0..MaxCancels
    /\ \A i \in DOMAIN channel :
         channel[i] \in [kind : {"add"}, job : Jobs, at : Nat]
                        \cup [kind : {"cancel"}, id : Ids] \cup [kind : {"stop"}]
    /\ pc \in {"off", "wait", "turn", "run"}
    /\ deadline \in Nat \cup {Never}
    /\ heap \subseteq Entry
    /\ running \in Entry \cup {Never}
    /\ (pc = "run") = (running # Never)
    /\ sampled \in Nat

\* schedule_replace replaces: whatever the order in which schedules, cancels
\* and runs met, the thread never holds two jobs of one id.
OneJobPerId ==
    \A e, f \in InHand : IdOf[e.job] = IdOf[f.job] => e = f

\* The wait computed from the time sampled before a callback ran is never
\* too short: when it ends a job of the heap is due, and the thread waits
\* without end only with an empty heap.
WaitsForADueJob ==
    pc = "wait" =>
        /\ (deadline = Never) = (heap = {})
        /\ deadline # Never /\ deadline <= now => \E e \in heap : e.at <= now

\* A job due within the bound is run or withdrawn while the thread lives: no
\* flow of commands keeps the thread from the jobs that are due.
DueJobsRun ==
    \A j \in Jobs : \A t \in 0..MaxTime :
        (pc # "off" /\ j \in PendingJobs /\ DueAt(j) = t)
            ~> ~(j \in PendingJobs /\ DueAt(j) = t)

=============================================================================
