-------------------------- MODULE Scheduler_proofs --------------------------
(***************************************************************************)
(* What holds of Scheduler for any jobs, ids, delays and bounds: types,    *)
(* one job per id (schedule_replace), a wait that is never too short and   *)
(* never without end while a job is held, and that every step is a step of *)
(* Timers or leaves what Timers shows as it is.                            *)
(***************************************************************************)
EXTENDS Scheduler, SequenceTheorems, WellFoundedInduction, TLAPS

Command ==
    [kind : {"add"}, job : Jobs, at : Nat]
      \cup [kind : {"cancel"}, id : Ids] \cup [kind : {"stop"}]

Types ==
    /\ now \in Nat /\ sampled \in Nat /\ sampled <= now
    /\ issued \subseteq Jobs
    /\ cancels \in 0..MaxCancels
    /\ channel \in Seq(Command)
    /\ pc \in {"off", "wait", "turn", "run"}
    /\ deadline \in Nat \cup {Never}
    /\ heap \subseteq Entry
    /\ running \in Entry \cup {Never}
    /\ (pc = "run") <=> (running # Never)

\* A job is in one place: in one command, in the heap or in the callback.
AddsApart ==
    \A i, k \in Added : channel[i].job = channel[k].job => i = k

AddsAreNew ==
    \A i \in Added : \A e \in InHand : e.job # channel[i].job

RunningIsOut == running \notin heap

AllIssued ==
    /\ \A i \in Added : channel[i].job \in issued
    /\ \A e \in InHand : e.job \in issued

\* The deadline of a wait is not before every job of the heap.
WaitInv ==
    /\ pc = "off" => heap = {} /\ deadline = Never
    /\ pc = "wait" => /\ (deadline = Never) <=> (heap = {})
                      /\ deadline # Never => \E e \in heap : e.at <= deadline

Inv ==
    /\ Types
    /\ AddsApart
    /\ AddsAreNew
    /\ RunningIsOut
    /\ AllIssued
    /\ OneJobPerId
    /\ WaitInv

-----------------------------------------------------------------------------
\* A heap with a job in it has one that is due first.
LEMMA EarliestExists ==
  ASSUME NEW h \in SUBSET Entry, h # {}
  PROVE  Earliest(h) # {}
<1> DEFINE Dues == {e.at : e \in h}
<1>1. Dues \subseteq Nat /\ Dues # {}
  BY DEF Entry
<1>2. PICK x \in Dues : \A y \in Dues : ~(<<y, x>> \in OpToRel(<, Nat))
  BY <1>1, NatLessThanWellFounded, WFMin
<1>3. \A y \in Dues : x <= y
  <2> TAKE y \in Dues
  <2>1. x \in Nat /\ y \in Nat
    BY <1>1
  <2>2. ~(y < x)
    BY <1>2, <2>1 DEF OpToRel
  <2> QED
    BY <2>1, <2>2
<1>4. PICK e \in h : e.at = x
  OBVIOUS
<1>5. e \in Earliest(h)
  BY <1>3, <1>4 DEF Earliest
<1> QED
  BY <1>5

\* The wait computed from an earlier sample s ends no earlier than the first
\* job of the heap is due; there is no wait's end only without jobs.
LEMMA NextDeadlineProperties ==
  ASSUME NEW h \in SUBSET Entry, NEW s \in Nat, now \in Nat, s <= now
  PROVE  LET d == NextDeadline(h, s)
         IN  /\ d \in Nat \cup {Never}
             /\ (d = Never) <=> (h = {})
             /\ d # Never => \E e \in h : e.at <= d
<1>1. CASE h = {}
  BY <1>1 DEF NextDeadline
<1>2. CASE h # {}
  <2> DEFINE e == CHOOSE x \in Earliest(h) : TRUE
  <2>1. e \in h
    BY <1>2, EarliestExists DEF Earliest
  <2>2. e.at \in Nat
    BY <2>1 DEF Entry
  <2>3. NextDeadline(h, s) = now + (IF e.at > s THEN e.at - s ELSE 0)
    BY <1>2 DEF NextDeadline
  <2>4. NextDeadline(h, s) \in Nat /\ e.at <= NextDeadline(h, s)
    BY <2>2, <2>3
  <2> QED
    BY <1>2, <2>1, <2>4, BoundsAssumption
<1> QED
  BY <1>1, <1>2

-----------------------------------------------------------------------------
\* At first there are no jobs.
LEMMA InitInv == Init => Inv
<1> SUFFICES ASSUME Init PROVE Inv
  OBVIOUS
<1>1. channel = <<>> /\ channel \in Seq(Command)
  BY EmptySeq DEF Init
<1>2. Added = {}
  BY <1>1 DEF Added
<1>3. InHand = {}
  BY DEF Init, InHand
<1>4. Types
  BY <1>1, BoundsAssumption DEF Init, Types
<1>5. AddsApart /\ AddsAreNew /\ AllIssued /\ OneJobPerId
  BY <1>2, <1>3 DEF AddsApart, AddsAreNew, AllIssued, OneJobPerId
<1>6. RunningIsOut /\ WaitInv
  BY DEF Init, RunningIsOut, WaitInv
<1> QED
  BY <1>4, <1>5, <1>6 DEF Inv

\* What is known of a queue to which a command is appended.
LEMMA AppendCommand ==
  ASSUME channel \in Seq(Command), NEW c \in Command,
         channel' = Append(channel, c)
  PROVE  /\ channel' \in Seq(Command)
         /\ DOMAIN channel' = DOMAIN channel \cup {Len(channel) + 1}
         /\ Len(channel) + 1 \notin DOMAIN channel
         /\ \A i \in DOMAIN channel : channel'[i] = channel[i]
         /\ channel'[Len(channel) + 1] = c
<1>1. /\ Len(channel) \in Nat
      /\ DOMAIN channel = 1 .. Len(channel)
  BY LenProperties
<1>2. /\ channel' \in Seq(Command)
      /\ Len(channel') = Len(channel) + 1
      /\ \A i \in 1 .. Len(channel) : channel'[i] = channel[i]
      /\ channel'[Len(channel) + 1] = c
  BY AppendProperties
<1>3. DOMAIN channel' = 1 .. (Len(channel) + 1)
  BY <1>2, LenProperties
<1> QED
  BY <1>1, <1>2, <1>3

\* A command that adds no job leaves the jobs where they are.
LEMMA AppendOtherInv ==
  ASSUME Inv, NEW c \in Command, c.kind # "add",
         channel' = Append(channel, c), cancels' \in 0..MaxCancels,
         UNCHANGED <<now, issued, thread>>
  PROVE  Inv'
<1>1. channel \in Seq(Command)
  BY DEF Inv, Types
<1>2. /\ channel' \in Seq(Command)
      /\ Added' = Added
      /\ \A i \in Added : channel'[i] = channel[i]
  BY <1>1, AppendCommand DEF Added
<1>3. Types'
  BY <1>2 DEF Inv, Types, thread
<1>4. InHand' = InHand
  BY DEF InHand, thread
<1>5. AddsApart' /\ AddsAreNew' /\ AllIssued'
  <2>1. \A i \in Added : channel'[i].job = channel[i].job
    BY <1>2
  <2>2. AddsApart'
    <3>1. ASSUME NEW i \in Added, NEW k \in Added,
                 channel'[i].job = channel'[k].job
          PROVE  i = k
      BY <2>1, <3>1 DEF Inv, AddsApart
    <3> QED
      BY <1>2, <3>1 DEF AddsApart
  <2>3. AddsAreNew'
    BY <1>2, <1>4, <2>1 DEF Inv, AddsAreNew
  <2>4. AllIssued'
    BY <1>2, <1>4, <2>1 DEF Inv, AllIssued, thread
  <2> QED
    BY <2>2, <2>3, <2>4
<1>6. RunningIsOut' /\ OneJobPerId' /\ WaitInv'
  BY <1>4 DEF Inv, RunningIsOut, OneJobPerId, WaitInv, thread
<1> QED
  BY <1>3, <1>5, <1>6 DEF Inv

\* A job is scheduled once: its command names a job that is nowhere yet.
LEMMA ScheduleInv ==
  ASSUME Inv, NEW j \in Jobs, Schedule(j)
  PROVE  Inv'
<1> DEFINE n == Len(channel) + 1
<1>1. channel \in Seq(Command) /\ now \in Nat /\ issued \subseteq Jobs
  BY DEF Inv, Types
<1>2. AddCommand(j) \in Command
  <2>1. now + Delay[j] \in Nat
    BY <1>1, JobsAssumption
  <2> QED
    BY <2>1 DEF AddCommand, Command
<1>3. AddCommand(j).kind = "add" /\ AddCommand(j).job = j
  BY DEF AddCommand
<1>4. channel' = Append(channel, AddCommand(j)) /\ issued' = issued \cup {j}
      /\ j \notin issued /\ UNCHANGED <<now, cancels, thread>>
  BY DEF Schedule
<1>5. /\ channel' \in Seq(Command)
      /\ DOMAIN channel' = DOMAIN channel \cup {n}
      /\ n \notin DOMAIN channel
      /\ \A i \in DOMAIN channel : channel'[i] = channel[i]
      /\ channel'[n] = AddCommand(j)
  BY <1>1, <1>2, <1>4, AppendCommand
<1>6. /\ Added' = Added \cup {n}
      /\ n \notin Added
      /\ \A i \in Added : channel'[i] = channel[i]
      /\ channel'[n].job = j
  BY <1>3, <1>5 DEF Added
<1>7. InHand' = InHand
  BY <1>4 DEF InHand, thread
<1>8. Types'
  BY <1>4, <1>5 DEF Inv, Types, thread
<1>9. AddsApart'
  <2>1. \A i \in Added : channel'[i].job = channel[i].job /\ channel[i].job # j
    BY <1>4, <1>6 DEF Inv, AllIssued
  <2> QED
    BY <1>6, <2>1 DEF Inv, AddsApart
<1>10. AddsAreNew'
  BY <1>4, <1>6, <1>7 DEF Inv, AddsAreNew, AllIssued
<1>11. AllIssued'
  BY <1>4, <1>6, <1>7 DEF Inv, AllIssued
<1>12. RunningIsOut' /\ OneJobPerId' /\ WaitInv'
  BY <1>4, <1>7 DEF Inv, RunningIsOut, OneJobPerId, WaitInv, thread
<1> QED
  BY <1>8, <1>9, <1>10, <1>11, <1>12 DEF Inv

-----------------------------------------------------------------------------
\* What is known of a queue whose first command is taken.
LEMMA TailCommand ==
  ASSUME channel \in Seq(Command), channel # <<>>, channel' = Tail(channel)
  PROVE  /\ channel' \in Seq(Command)
         /\ Head(channel) \in Command /\ Head(channel) = channel[1]
         /\ 1 \in DOMAIN channel
         /\ \A i \in DOMAIN channel' :
               /\ i \in Nat \ {0}
               /\ i + 1 \in DOMAIN channel
               /\ channel'[i] = channel[i + 1]
<1>1. /\ Len(channel) \in Nat \ {0}
      /\ DOMAIN channel = 1 .. Len(channel)
  BY LenProperties, EmptySeq
<1>2. /\ channel' \in Seq(Command)
      /\ Head(channel) \in Command
      /\ Len(channel') = Len(channel) - 1
      /\ \A i \in 1 .. Len(channel') : channel'[i] = channel[i + 1]
  BY HeadTailProperties
<1>3. DOMAIN channel' = 1 .. (Len(channel) - 1)
  BY <1>2, LenProperties
<1>4. Head(channel) = channel[1]
  OBVIOUS
<1> QED
  BY <1>1, <1>2, <1>3, <1>4

\* The commands that are left add jobs of their own: neither one of the
\* heap nor the one the first command adds.
LEMMA ReceiveAdds ==
  ASSUME Inv, Receive
  PROVE  /\ channel' \in Seq(Command)
         /\ Head(channel) \in Command
         /\ AddsApart'
         /\ \A i \in Added' :
               /\ channel'[i].job \in issued
               /\ \A e \in heap : e.job # channel'[i].job
               /\ Head(channel).kind = "add" => Head(channel).job # channel'[i].job
         /\ Head(channel).kind = "add" =>
               /\ Head(channel).job \in issued
               /\ \A e \in heap : e.job # Head(channel).job
<1>1. channel \in Seq(Command) /\ channel # <<>> /\ channel' = Tail(channel)
  BY DEF Inv, Types, Receive
<1>2. /\ channel' \in Seq(Command)
      /\ Head(channel) \in Command /\ Head(channel) = channel[1]
      /\ 1 \in DOMAIN channel
      /\ \A i \in DOMAIN channel' :
            /\ i \in Nat \ {0}
            /\ i + 1 \in DOMAIN channel
            /\ channel'[i] = channel[i + 1]
  BY <1>1, TailCommand
<1>3. \A i \in Added' :
         i \in Nat \ {0} /\ i + 1 \in Added /\ channel'[i] = channel[i + 1]
  BY <1>2 DEF Added
<1>4. heap \subseteq InHand
  BY DEF InHand
<1>5. AddsApart'
  <2>1. ASSUME NEW i \in Added', NEW k \in Added',
               channel'[i].job = channel'[k].job
        PROVE  i = k
    <3>1. i + 1 = k + 1
      BY <1>3, <2>1 DEF Inv, AddsApart
    <3> QED
      BY <1>3, <3>1
  <2> QED
    BY <2>1 DEF AddsApart
<1>6. Head(channel).kind = "add" => 1 \in Added
  BY <1>2 DEF Added
<1>7. ASSUME NEW i \in Added'
      PROVE  /\ channel'[i].job \in issued
             /\ \A e \in heap : e.job # channel'[i].job
             /\ Head(channel).kind = "add" => Head(channel).job # channel'[i].job
  <2>1. i \in Nat \ {0} /\ i + 1 \in Added /\ channel'[i] = channel[i + 1]
    BY <1>3
  <2>2. channel[i + 1].job \in issued
    BY <2>1 DEF Inv, AllIssued
  <2>3. \A e \in heap : e.job # channel[i + 1].job
    BY <1>4, <2>1 DEF Inv, AddsAreNew
  <2>4. 1 \in Added => channel[1].job # channel[i + 1].job
    BY <2>1 DEF Inv, AddsApart
  <2> QED
    BY <1>2, <1>6, <2>1, <2>2, <2>3, <2>4
<1>8. Head(channel).kind = "add" =>
         /\ Head(channel).job \in issued
         /\ \A e \in heap : e.job # Head(channel).job
  BY <1>2, <1>4, <1>6 DEF Inv, AllIssued, AddsAreNew
<1> QED
  BY <1>2, <1>5, <1>7, <1>8

\* A received command: an added job is alone with its id, since a one-shot
\* job replaces the others and a repeated one has an id of its own.
LEMMA ReceiveInv ==
  ASSUME Inv, Receive
  PROVE  Inv'
<1> DEFINE c == Head(channel)
           new == [job |-> c.job, at |-> c.at]
<1>1. /\ pc = "wait" /\ running = Never /\ running' = Never
      /\ deadline' = Never /\ pc' \in {"off", "turn"}
      /\ pc' = "off" => heap' = {}
      /\ UNCHANGED <<now, callers, sampled>>
  BY DEF Inv, Types, Receive
<1>2. InHand = heap /\ InHand' = heap'
  BY <1>1 DEF InHand
<1>3. /\ c \in Command /\ channel' \in Seq(Command) /\ AddsApart'
      /\ \A i \in Added' :
               /\ channel'[i].job \in issued
               /\ \A e \in heap : e.job # channel'[i].job
               /\ c.kind = "add" => c.job # channel'[i].job
      /\ c.kind = "add" => /\ c.job \in issued
                           /\ \A e \in heap : e.job # c.job
  BY ReceiveAdds
<1>4. \/ heap' \subseteq heap
      \/ c.kind = "add" /\ heap' = Add(heap, c)
  BY DEF Receive
<1>5. c.kind = "add" => c.job \in Jobs /\ c.at \in Nat /\ new \in Entry
  BY <1>3 DEF Command, Entry
<1>6. heap' \subseteq heap \cup {new} /\ (~(heap' \subseteq heap) => c.kind = "add")
  BY <1>4 DEF Add
<1>7. heap \subseteq Entry /\ heap' \subseteq Entry
  BY <1>5, <1>6 DEF Inv, Types
<1>8. Types'
  BY <1>1, <1>3, <1>7 DEF Inv, Types, callers
<1>9. AddsAreNew' /\ AllIssued' /\ RunningIsOut'
  <2>1. \A e \in heap' : e \in heap \/ (c.kind = "add" /\ e.job = c.job)
    BY <1>6
  <2>2. AddsAreNew'
    BY <1>2, <1>3, <2>1 DEF AddsAreNew
  <2>3. \A e \in heap : e.job \in issued
    BY <1>2 DEF Inv, AllIssued
  <2>4. AllIssued'
    BY <1>1, <1>2, <1>3, <2>1, <2>3 DEF AllIssued, callers
  <2>5. RunningIsOut'
    BY <1>1, <1>7, BoundsAssumption DEF RunningIsOut, Entry
  <2> QED
    BY <2>2, <2>4, <2>5
<1>10. OneJobPerId'
  <2>1. \A e, f \in heap : IdOf[e.job] = IdOf[f.job] => e = f
    BY <1>2 DEF Inv, OneJobPerId
  <2>2. CASE heap' \subseteq heap
    BY <1>2, <2>1, <2>2 DEF OneJobPerId
  <2>3. CASE c.kind = "add" /\ heap' = Add(heap, c)
    <3>1. new.job = c.job
      OBVIOUS
    <3>2. ASSUME NEW e \in heap', e # new
          PROVE  e \in heap /\ IdOf[e.job] # IdOf[c.job]
      <4>1. CASE c.job \in Repeated
        <5>1. e \in heap
          BY <2>3, <3>2, <4>1 DEF Add
        <5>2. e.job \in Jobs \ {c.job}
          BY <1>3, <1>7, <2>3, <5>1 DEF Entry
        <5> QED
          BY <4>1, <5>1, <5>2, JobsAssumption
      <4>2. CASE c.job \notin Repeated
        BY <2>3, <3>2, <4>2 DEF Add
      <4> QED
        BY <4>1, <4>2
    <3>3. \A e, f \in heap' : IdOf[e.job] = IdOf[f.job] => e = f
      BY <2>1, <3>1, <3>2
    <3> QED
      BY <1>2, <3>3 DEF OneJobPerId
  <2> QED
    BY <1>4, <2>2, <2>3
<1>11. WaitInv'
  BY <1>1 DEF WaitInv
<1> QED
  BY <1>3, <1>8, <1>9, <1>10, <1>11 DEF Inv

-----------------------------------------------------------------------------
\* A wait that ends leads to a turn with the same jobs.
LEMMA TimesOutInv ==
  ASSUME Inv, TimesOut
  PROVE  Inv'
<1>1. /\ pc = "wait" /\ pc' = "turn" /\ deadline' = Never
      /\ UNCHANGED <<now, issued, cancels, channel, heap, running, sampled>>
  BY DEF TimesOut, callers
<1>2. InHand' = InHand /\ Added' = Added
  BY <1>1 DEF InHand, Added
<1>3. Types'
  BY <1>1 DEF Inv, Types
<1>4. AddsApart' /\ AddsAreNew' /\ AllIssued'
  BY <1>1, <1>2 DEF Inv, AddsApart, AddsAreNew, AllIssued
<1>5. RunningIsOut' /\ OneJobPerId' /\ WaitInv'
  BY <1>1, <1>2 DEF Inv, RunningIsOut, OneJobPerId, WaitInv
<1> QED
  BY <1>3, <1>4, <1>5 DEF Inv

\* A turn takes the first job out of the heap, or waits for it.
LEMMA TurnInv ==
  ASSUME Inv, Turn
  PROVE  Inv'
<1>1. /\ pc = "turn" /\ running = Never /\ now \in Nat
      /\ heap \subseteq Entry
      /\ UNCHANGED <<now, issued, cancels, channel>>
  BY DEF Inv, Types, Turn, callers
<1>2. Added' = Added
  BY <1>1 DEF Added
<1>3. CASE \E e \in Earliest(heap) :
               /\ heap' = heap \ {e}
               /\ running' = e
               /\ sampled' = now
               /\ pc' = "run"
               /\ UNCHANGED deadline
  <2>1. PICK e \in heap : /\ heap' = heap \ {e} /\ running' = e
                          /\ sampled' = now /\ pc' = "run" /\ deadline' = deadline
    BY <1>3 DEF Earliest
  <2>2. e \in Entry /\ e # Never
    BY <1>1, BoundsAssumption DEF Entry
  <2>3. InHand' = InHand
    BY <1>1, <2>1, <2>2 DEF InHand
  <2>4. Types'
    BY <1>1, <2>1, <2>2 DEF Inv, Types
  <2>5. AddsApart' /\ AddsAreNew' /\ AllIssued'
    BY <1>1, <1>2, <2>3 DEF Inv, AddsApart, AddsAreNew, AllIssued
  <2>6. RunningIsOut' /\ OneJobPerId' /\ WaitInv'
    BY <2>1, <2>3 DEF Inv, RunningIsOut, OneJobPerId, WaitInv
  <2> QED
    BY <2>4, <2>5, <2>6 DEF Inv
<1>4. CASE /\ pc' = "wait"
           /\ deadline' = NextDeadline(heap, now)
           /\ UNCHANGED <<heap, running, sampled>>
  <2>1. LET d == NextDeadline(heap, now)
        IN  /\ d \in Nat \cup {Never}
            /\ (d = Never) <=> (heap = {})
            /\ d # Never => \E e \in heap : e.at <= d
    BY <1>1, NextDeadlineProperties
  <2>2. InHand' = InHand
    BY <1>4 DEF InHand
  <2>3. Types'
    BY <1>1, <1>4, <2>1 DEF Inv, Types
  <2>4. AddsApart' /\ AddsAreNew' /\ AllIssued'
    BY <1>1, <1>2, <2>2 DEF Inv, AddsApart, AddsAreNew, AllIssued
  <2>5. RunningIsOut' /\ OneJobPerId'
    BY <1>4, <2>2 DEF Inv, RunningIsOut, OneJobPerId
  <2>6. WaitInv'
    BY <1>4, <2>1 DEF WaitInv
  <2> QED
    BY <2>3, <2>4, <2>5, <2>6 DEF Inv
<1> QED
  BY <1>3, <1>4 DEF Turn

\* After its callback a repeated job is back in the heap, where no job has
\* its id; the wait is computed from the sample taken before the callback.
LEMMA RunInv ==
  ASSUME Inv, Run
  PROVE  Inv'
<1> DEFINE again == [job |-> running.job, at |-> sampled + Delay[running.job]]
<1>1. /\ pc = "run" /\ running \in Entry /\ running # Never
      /\ heap \subseteq Entry /\ running \notin heap
      /\ sampled \in Nat /\ now \in Nat /\ sampled <= now
  BY DEF Inv, Types, RunningIsOut, Run
<1>2. /\ heap' = AfterRun /\ running' = Never /\ sampled' = 0 /\ pc' = "wait"
      /\ deadline' = NextDeadline(AfterRun, sampled)
      /\ UNCHANGED <<now, issued, cancels, channel>>
  BY DEF Run, callers
<1>3. Added' = Added
  BY <1>2 DEF Added
<1>4. again \in Entry /\ again.job = running.job
  <2>1. running.job \in Jobs
    BY <1>1 DEF Entry
  <2>2. sampled + Delay[running.job] \in Nat
    BY <1>1, <2>1, JobsAssumption
  <2> QED
    BY <2>1, <2>2 DEF Entry
<1>5. AfterRun \subseteq heap \cup {again} /\ AfterRun \in SUBSET Entry
  BY <1>1, <1>4 DEF AfterRun
<1>6. InHand = heap \cup {running} /\ InHand' = AfterRun
  BY <1>1, <1>2 DEF InHand
<1>7. LET d == NextDeadline(AfterRun, sampled)
      IN  /\ d \in Nat \cup {Never}
          /\ (d = Never) <=> (AfterRun = {})
          /\ d # Never => \E e \in AfterRun : e.at <= d
  BY <1>1, <1>5, NextDeadlineProperties
<1>8. Types'
  BY <1>1, <1>2, <1>5, <1>7 DEF Inv, Types
<1>9. \A e \in AfterRun : e \in heap \/ (e = again /\ e.job = running.job)
  BY <1>4, <1>5
<1>10. \A e \in AfterRun : \E f \in InHand : f.job = e.job
  BY <1>6, <1>9
<1>11. AddsApart'
  BY <1>2, <1>3 DEF Inv, AddsApart
<1>12. AddsAreNew'
  BY <1>2, <1>3, <1>6, <1>10 DEF Inv, AddsAreNew
<1>13. AllIssued'
  BY <1>2, <1>3, <1>6, <1>10 DEF Inv, AllIssued
<1>14. RunningIsOut'
  BY <1>2, <1>5, BoundsAssumption DEF RunningIsOut, Entry
<1>15. OneJobPerId'
  <2>1. \A e, f \in heap : IdOf[e.job] = IdOf[f.job] => e = f
    BY <1>6 DEF Inv, OneJobPerId
  <2>2. \A e \in heap : IdOf[e.job] # IdOf[running.job]
    BY <1>1, <1>6 DEF Inv, OneJobPerId
  <2>3. \A e, f \in AfterRun : IdOf[e.job] = IdOf[f.job] => e = f
    BY <1>4, <1>9, <2>1, <2>2
  <2> QED
    BY <1>6, <2>3 DEF OneJobPerId
<1>16. WaitInv'
  BY <1>2, <1>7 DEF WaitInv
<1> QED
  BY <1>8, <1>11, <1>12, <1>13, <1>14, <1>15, <1>16 DEF Inv

\* Time passes without moving a job.
LEMMA TickInv ==
  ASSUME Inv, Tick
  PROVE  Inv'
<1>1. now' = now + 1 /\ UNCHANGED <<issued, cancels, channel, pc, deadline,
                                   heap, running, sampled>>
  BY DEF Tick, callers, thread
<1>2. InHand' = InHand /\ Added' = Added
  BY <1>1 DEF InHand, Added
<1>3. Types'
  BY <1>1 DEF Inv, Types
<1>4. AddsApart' /\ AddsAreNew' /\ AllIssued'
  BY <1>1, <1>2 DEF Inv, AddsApart, AddsAreNew, AllIssued
<1>5. RunningIsOut' /\ OneJobPerId' /\ WaitInv'
  BY <1>1, <1>2 DEF Inv, RunningIsOut, OneJobPerId, WaitInv
<1> QED
  BY <1>3, <1>4, <1>5 DEF Inv

\* Starting the thread: the heap is empty, and the wait has no end.
LEMMA StartInv ==
  ASSUME Inv, Start
  PROVE  Inv'
<1>1. /\ pc = "off" /\ pc' = "wait"
      /\ UNCHANGED <<now, issued, cancels, channel, deadline, heap, running,
                     sampled>>
  BY DEF Start, callers
<1>2. InHand' = InHand /\ Added' = Added
  BY <1>1 DEF InHand, Added
<1>3. Types'
  BY <1>1 DEF Inv, Types
<1>4. AddsApart' /\ AddsAreNew' /\ AllIssued'
  BY <1>1, <1>2 DEF Inv, AddsApart, AddsAreNew, AllIssued
<1>5. RunningIsOut' /\ OneJobPerId' /\ WaitInv'
  BY <1>1, <1>2 DEF Inv, RunningIsOut, OneJobPerId, WaitInv
<1> QED
  BY <1>3, <1>4, <1>5 DEF Inv

-----------------------------------------------------------------------------
\* Every step of the callers, the thread and the clock keeps the invariant.
LEMMA NextInv == Inv /\ [Next]_vars => Inv'
<1> SUFFICES ASSUME Inv, [Next]_vars PROVE Inv'
  OBVIOUS
<1>1. CASE Start
  BY <1>1, StartInv
<1>2. CASE Stop
  <2>1. StopCommand \in Command /\ StopCommand.kind # "add"
    BY DEF StopCommand, Command
  <2>2. cancels' \in 0..MaxCancels
    BY <1>2 DEF Inv, Types, Stop, callers
  <2> QED
    BY <1>2, <2>1, <2>2, AppendOtherInv DEF Stop, callers
<1>3. ASSUME NEW j \in Jobs, Schedule(j)
      PROVE  Inv'
  BY <1>3, ScheduleInv
<1>4. ASSUME NEW id \in Ids, Cancel(id)
      PROVE  Inv'
  <2>1. CancelCommand(id) \in Command /\ CancelCommand(id).kind # "add"
    BY DEF CancelCommand, Command
  <2>2. cancels' \in 0..MaxCancels
    BY <1>4, BoundsAssumption DEF Inv, Types, Cancel
  <2> QED
    BY <1>4, <2>1, <2>2, AppendOtherInv DEF Cancel
<1>5. CASE Thread
  BY <1>5, ReceiveInv, TimesOutInv, TurnInv, RunInv DEF Thread
<1>6. CASE Tick
  BY <1>6, TickInv
<1>7. CASE UNCHANGED vars
  <2>1. InHand' = InHand /\ Added' = Added
    BY <1>7 DEF vars, thread, InHand, Added
  <2>2. Types'
    BY <1>7 DEF Inv, Types, vars, callers, thread
  <2>3. AddsApart' /\ AddsAreNew' /\ AllIssued'
    BY <1>7, <2>1 DEF Inv, AddsApart, AddsAreNew, AllIssued, vars, callers
  <2>4. RunningIsOut' /\ OneJobPerId' /\ WaitInv'
    BY <1>7, <2>1 DEF Inv, RunningIsOut, OneJobPerId, WaitInv, vars, thread
  <2> QED
    BY <2>2, <2>3, <2>4 DEF Inv
<1> QED
  BY <1>1, <1>2, <1>3, <1>4, <1>5, <1>6, <1>7 DEF Next

\* The invariant holds in every behaviour.
LEMMA Invariance == Spec => []Inv
  BY InitInv, NextInv, PTL DEF Spec

\* Every variable keeps its type (the state of core/scheduler/mod.rs).
THEOREM TypeCorrect == Spec => []TypeOK
<1>1. Inv => TypeOK
  <2> SUFFICES ASSUME Inv PROVE TypeOK
    OBVIOUS
  <2>1. \A i \in DOMAIN channel : channel[i] \in Command
    BY DEF Inv, Types
  <2> QED
    BY <2>1 DEF Inv, Types, TypeOK, Command
<1> QED
  BY <1>1, Invariance, PTL

\* schedule_replace replaces: the thread never holds two jobs of one id.
THEOREM OneJobPerIdHolds == Spec => []OneJobPerId
<1>1. Inv => OneJobPerId
  BY DEF Inv
<1> QED
  BY <1>1, Invariance, PTL

\* When the thread's wait ends a job is due, and it waits without an end
\* only when it holds no job (calculate_next_timeout).
THEOREM WaitsAreRight == Spec => []WaitsForADueJob
<1>1. Inv => WaitsForADueJob
  <2> SUFFICES ASSUME Inv, pc = "wait" PROVE
          /\ (deadline = Never) = (heap = {})
          /\ deadline # Never /\ deadline <= now => \E e \in heap : e.at <= now
    BY DEF WaitsForADueJob
  <2>1. (deadline = Never) = (heap = {})
    BY DEF Inv, WaitInv
  <2>2. ASSUME deadline # Never, deadline <= now
        PROVE  \E e \in heap : e.at <= now
    <3>1. PICK e \in heap : e.at <= deadline
      BY <2>2 DEF Inv, WaitInv
    <3>2. e.at \in Nat /\ deadline \in Nat /\ now \in Nat
      BY <2>2, <3>1 DEF Inv, Types, Entry
    <3>3. e.at <= now
      BY <2>2, <3>1, <3>2
    <3> QED
      BY <3>3
  <2> QED
    BY <2>1, <2>2
<1> QED
  BY <1>1, Invariance, PTL

-----------------------------------------------------------------------------
(* The scheduler implements Timers. A pending job and its due time are read *)
(* off the entries in hand, H, and the commands of the channel, ch.        *)

Adds(ch) == {i \in DOMAIN ch : ch[i].kind = "add"}

PendingIn(H, ch) == {e.job : e \in H} \cup {ch[i].job : i \in Adds(ch)}

DueIn(H, ch, j) ==
    IF \E e \in H : e.job = j
    THEN (CHOOSE e \in H : e.job = j).at
    ELSE ch[CHOOSE i \in Adds(ch) : ch[i].job = j].at

DuesIn(H, ch) == [j \in PendingIn(H, ch) |-> DueIn(H, ch, j)]

\* Job j is pending and due at t.
Held(H, ch, j, t) ==
    \/ \E e \in H : e.job = j /\ e.at = t
    \/ \E i \in Adds(ch) : ch[i].job = j /\ ch[i].at = t

\* Job j is pending, and a command behind it withdraws it.
Gone(H, ch, j) ==
    \/ \E e \in H : e.job = j /\ \E i \in DOMAIN ch : Withdraws(ch[i], j)
    \/ \E i \in Adds(ch) : ch[i].job = j /\ \E k \in DOMAIN ch : k > i /\ Withdraws(ch[k], j)

\* A job is in one place.
Apart(H, ch) ==
    /\ \A e, f \in H : e.job = f.job => e = f
    /\ \A i, k \in Adds(ch) : ch[i].job = ch[k].job => i = k
    /\ \A i \in Adds(ch) : \A e \in H : e.job # ch[i].job

LEMMA InvApart == Inv => Apart(InHand, channel)
BY DEF Inv, Apart, AddsApart, AddsAreNew, OneJobPerId, Adds, Added

\* The functions of Timers, told by what is held and what is gone.
LEMMA DuesAreHeld ==
  ASSUME NEW H, NEW ch, Apart(H, ch)
  PROVE  \A j, t : Held(H, ch, j, t) <=> j \in DOMAIN DuesIn(H, ch) /\ DuesIn(H, ch)[j] = t
<1> SUFFICES ASSUME NEW j, NEW t
             PROVE  Held(H, ch, j, t) <=> j \in PendingIn(H, ch) /\ DueIn(H, ch, j) = t
  BY DEF DuesIn
<1>1. CASE \E e \in H : e.job = j
  <2>1. PICK e \in H : e.job = j
    BY <1>1
  <2>2. DueIn(H, ch, j) = e.at
    BY <2>1 DEF DueIn, Apart
  <2>3. j \in PendingIn(H, ch)
    BY <2>1 DEF PendingIn
  <2>4. Held(H, ch, j, t) <=> e.at = t
    BY <2>1 DEF Held, Apart
  <2> QED
    BY <2>2, <2>3, <2>4
<1>2. CASE ~(\E e \in H : e.job = j) /\ \E i \in Adds(ch) : ch[i].job = j
  <2>1. PICK i \in Adds(ch) : ch[i].job = j
    BY <1>2
  <2>2. (CHOOSE k \in Adds(ch) : ch[k].job = j) = i
    BY <2>1 DEF Apart
  <2>3. DueIn(H, ch, j) = ch[i].at
    BY <1>2, <2>2 DEF DueIn
  <2>4. j \in PendingIn(H, ch)
    BY <2>1 DEF PendingIn
  <2>5. Held(H, ch, j, t) <=> ch[i].at = t
    BY <1>2, <2>1 DEF Held, Apart
  <2> QED
    BY <2>3, <2>4, <2>5
<1>3. CASE ~(\E e \in H : e.job = j) /\ ~(\E i \in Adds(ch) : ch[i].job = j)
  BY <1>3 DEF Held, PendingIn
<1> QED
  BY <1>1, <1>2, <1>3

LEMMA DuesAre ==
  ASSUME NEW H, NEW ch, Apart(H, ch), NEW S, NEW d, d = [j \in S |-> d[j]],
         \A j, t : Held(H, ch, j, t) <=> j \in S /\ d[j] = t
  PROVE  DuesIn(H, ch) = d
<1>1. \A j, t : j \in PendingIn(H, ch) /\ DuesIn(H, ch)[j] = t <=> j \in S /\ d[j] = t
  BY DuesAreHeld DEF DuesIn
<1>2. PendingIn(H, ch) = S
  BY <1>1
<1>3. \A j \in S : DuesIn(H, ch)[j] = d[j]
  BY <1>1, <1>2
<1>4. DuesIn(H, ch) = [j \in S |-> DuesIn(H, ch)[j]]
  BY <1>2 DEF DuesIn
<1> QED
  BY <1>3, <1>4

\* What Timers is told.
LEMMA Mapped ==
  /\ PendingJobs = PendingIn(InHand, channel)
  /\ [j \in PendingJobs |-> DueAt(j)] = DuesIn(InHand, channel)
  /\ WithdrawnJobs = {j \in PendingJobs : Gone(InHand, channel, j)}
<1>1. PendingJobs = PendingIn(InHand, channel)
  BY DEF PendingJobs, PendingIn, Added, Adds
<1>2. \A j : DueAt(j) = DueIn(InHand, channel, j)
  BY DEF DueAt, DueIn, Added, Adds
<1>3. WithdrawnJobs = {j \in PendingJobs : Gone(InHand, channel, j)}
  BY DEF WithdrawnJobs, PendingJobs, Gone, Added, Adds
<1> QED
  BY <1>1, <1>2, <1>3 DEF DuesIn

LEMMA MappedNext ==
  /\ PendingJobs' = PendingIn(InHand', channel')
  /\ [j \in PendingJobs |-> DueAt(j)]' = DuesIn(InHand', channel')
  /\ WithdrawnJobs' = {j \in PendingJobs' : Gone(InHand', channel', j)}
<1>1. PendingJobs' = PendingIn(InHand', channel')
  BY DEF PendingJobs, PendingIn, Added, Adds
<1>2. \A j : DueAt(j)' = DueIn(InHand', channel', j)
  BY DEF DueAt, DueIn, Added, Adds
<1>3. WithdrawnJobs' = {j \in PendingJobs' : Gone(InHand', channel', j)}
  BY DEF WithdrawnJobs, PendingJobs, Gone, Added, Adds
<1> QED
  BY <1>1, <1>2, <1>3 DEF DuesIn

LEMMA InvApartNext == Inv' => Apart(InHand', channel')
BY DEF Inv, Apart, AddsApart, AddsAreNew, OneJobPerId, Adds, Added

\* At first nothing is pending.
LEMMA TimersInit == Init => T!Init
<1> SUFFICES ASSUME Init PROVE T!Init
  OBVIOUS
<1>1. InHand = {} /\ channel = <<>> /\ now = 0 /\ issued = {}
  BY DEF Init, InHand
<1>2. PendingJobs = {} /\ WithdrawnJobs = {}
  BY <1>1 DEF PendingJobs, WithdrawnJobs, Added
<1>3. [j \in PendingJobs |-> DueAt(j)] = [j \in {} |-> 0]
  BY <1>2
<1> QED
  BY <1>1, <1>2, <1>3 DEF T!Init

\* A step that moves no job and no command shows nothing.
LEMMA TimersStutter ==
  ASSUME UNCHANGED <<now, issued, channel, InHand>>
  PROVE  UNCHANGED T!vars
BY Mapped, MappedNext DEF T!vars

LEMMA TimersTick ==
  ASSUME now' = now + 1, UNCHANGED <<issued, channel, InHand>>
  PROVE  T!Tick
BY Mapped, MappedNext DEF T!Tick

\* Sending a command that adds no job withdraws the jobs that it takes back.
LEMMA TimersWithdraw ==
  ASSUME Inv, Inv', NEW c \in Command, c.kind # "add",
         channel' = Append(channel, c), UNCHANGED <<now, issued, thread>>,
         NEW S, \A j \in PendingJobs : Withdraws(c, j) <=> j \in S
  PROVE  T!Withdraw(S)
<1> DEFINE n == Len(channel) + 1  H == InHand
<1>1. channel \in Seq(Command)
  BY DEF Inv, Types
<1>2. /\ DOMAIN channel' = DOMAIN channel \cup {n}
      /\ \A i \in DOMAIN channel : channel'[i] = channel[i] /\ n > i
      /\ channel'[n] = c
  BY <1>1, AppendCommand, LenProperties
<1> HIDE DEF n
<1>3. InHand' = H
  BY DEF InHand, thread
<1>4. Adds(channel') = Adds(channel) /\ Adds(channel) \subseteq DOMAIN channel
  BY <1>2 DEF Adds
<1>5. Apart(H, channel) /\ Apart(H, channel')
  BY <1>3, InvApart, InvApartNext
<1> HIDE DEF H
<1>6. \A j, t : Held(H, channel', j, t) <=> Held(H, channel, j, t)
  BY <1>2, <1>4 DEF Held
<1>7. DuesIn(H, channel') = DuesIn(H, channel)
  <2> DEFINE d == DuesIn(H, channel)
  <2>1. d = [j \in DOMAIN d |-> d[j]]
    BY DEF DuesIn
  <2>2. \A j, t : Held(H, channel', j, t) <=> j \in DOMAIN d /\ d[j] = t
    BY <1>5, <1>6, DuesAreHeld
  <2> HIDE DEF d
  <2>3. DuesIn(H, channel') = d
    BY <1>5, <2>1, <2>2, DuesAre
  <2> QED
    BY <2>3 DEF d
<1>8. PendingIn(H, channel') = PendingIn(H, channel)
  BY <1>2, <1>4 DEF PendingIn
<1>9. \A j \in PendingIn(H, channel) :
        Gone(H, channel', j) <=> Gone(H, channel, j) \/ Withdraws(c, j)
  <2> SUFFICES ASSUME NEW j \in PendingIn(H, channel)
               PROVE  Gone(H, channel', j) <=> Gone(H, channel, j) \/ Withdraws(c, j)
    OBVIOUS
  <2>1. ASSUME Gone(H, channel, j) PROVE Gone(H, channel', j)
    <3>1. CASE \E e \in H : e.job = j /\ \E i \in DOMAIN channel : Withdraws(channel[i], j)
      BY <3>1, <1>2 DEF Gone
    <3>2. CASE \E i \in Adds(channel) : channel[i].job = j
                 /\ \E k \in DOMAIN channel : k > i /\ Withdraws(channel[k], j)
      BY <3>2, <1>2, <1>4 DEF Gone
    <3> QED
      BY <2>1, <3>1, <3>2 DEF Gone
  <2>2. ASSUME Withdraws(c, j) PROVE Gone(H, channel', j)
    <3>1. CASE \E e \in H : e.job = j
      BY <3>1, <2>2, <1>2 DEF Gone
    <3>2. CASE \E i \in Adds(channel) : channel[i].job = j
      BY <3>2, <2>2, <1>2, <1>4 DEF Gone
    <3> QED
      BY <3>1, <3>2 DEF PendingIn
  <2>3. ASSUME Gone(H, channel', j), ~Withdraws(c, j) PROVE Gone(H, channel, j)
    <3>1. \A i \in DOMAIN channel' : Withdraws(channel'[i], j) =>
            i \in DOMAIN channel /\ Withdraws(channel[i], j)
      BY <2>3, <1>2
    <3>2. CASE \E e \in H : e.job = j /\ \E i \in DOMAIN channel' : Withdraws(channel'[i], j)
      BY <3>1, <3>2 DEF Gone
    <3>3. CASE \E i \in Adds(channel') : channel'[i].job = j
                 /\ \E k \in DOMAIN channel' : k > i /\ Withdraws(channel'[k], j)
      BY <3>1, <3>3, <1>2, <1>4 DEF Gone
    <3> QED
      BY <2>3, <3>2, <3>3 DEF Gone
  <2> QED
    BY <2>1, <2>2, <2>3
<1>10. /\ PendingJobs' = PendingJobs /\ PendingJobs = PendingIn(H, channel)
       /\ [j \in PendingJobs |-> DueAt(j)]' = [j \in PendingJobs |-> DueAt(j)]
  BY <1>3, <1>7, <1>8, Mapped, MappedNext DEF H
<1>11. WithdrawnJobs' = WithdrawnJobs \cup (S \cap PendingJobs)
  <2>1. WithdrawnJobs' = {j \in PendingJobs : Gone(H, channel', j)}
    BY <1>3, <1>10, MappedNext
  <2>2. WithdrawnJobs = {j \in PendingJobs : Gone(H, channel, j)}
    BY Mapped DEF H
  <2> QED
    BY <1>9, <1>10, <2>1, <2>2
<1> QED
  BY <1>10, <1>11 DEF T!Withdraw, T!Pending

\* Scheduling a job sets a timer, and withdraws those of its id.
LEMMA TimersSet ==
  ASSUME Inv, Inv', NEW j \in Jobs, Schedule(j)
  PROVE  T!Set(j)
<1> DEFINE n == Len(channel) + 1  H == InHand  c == AddCommand(j)  d == DuesIn(H, channel)
<1>1. channel \in Seq(Command) /\ now \in Nat
  BY DEF Inv, Types
<1>2. c \in Command /\ c.kind = "add" /\ c.job = j /\ c.at = now + Delay[j]
  BY <1>1, JobsAssumption DEF AddCommand, Command
<1>3. /\ channel' = Append(channel, c) /\ issued' = issued \cup {j}
      /\ j \notin issued /\ UNCHANGED <<now, cancels, thread>>
  BY DEF Schedule
<1> HIDE DEF c
<1>4. /\ DOMAIN channel' = DOMAIN channel \cup {n}
      /\ \A i \in DOMAIN channel : channel'[i] = channel[i] /\ n > i /\ ~(i > n)
      /\ channel'[n] = c /\ n \notin DOMAIN channel /\ ~(n > n)
  <2>1. \A i \in 1 .. Len(channel) : n > i /\ ~(i > n)
    BY <1>1, LenProperties
  <2>2. ~(n > n)
    BY <1>1, LenProperties
  <2> QED
    BY <1>1, <1>2, <1>3, <2>1, <2>2, AppendCommand, LenProperties
<1> HIDE DEF n
<1>5. InHand' = H
  BY <1>3 DEF InHand, thread
<1>6. Adds(channel') = Adds(channel) \cup {n} /\ Adds(channel) \subseteq DOMAIN channel
  BY <1>2, <1>4 DEF Adds
<1>7. Apart(H, channel) /\ Apart(H, channel')
  BY <1>5, InvApart, InvApartNext
<1>8. j \notin PendingIn(H, channel)
  BY <1>3 DEF Inv, AllIssued, PendingIn, Adds, Added
<1> HIDE DEF H
<1> DEFINE g == [k \in PendingIn(H, channel) \cup {j} |-> IF k = j THEN now + Delay[j] ELSE d[k]]
<1>9. DOMAIN d = PendingIn(H, channel)
  BY DEF DuesIn
<1>10. \A k, t : Held(H, channel, k, t) <=> k \in DOMAIN d /\ d[k] = t
  BY <1>7, DuesAreHeld
<1>11. \A k, t : Held(H, channel', k, t) <=> Held(H, channel, k, t) \/ (k = j /\ t = now + Delay[j])
  BY <1>2, <1>4, <1>6 DEF Held
<1> HIDE DEF d
<1>12. DuesIn(H, channel') = g
  <2>1. \A k, t : Held(H, channel', k, t) <=> k \in PendingIn(H, channel) \cup {j} /\ g[k] = t
    BY <1>8, <1>9, <1>10, <1>11
  <2>2. g = [k \in PendingIn(H, channel) \cup {j} |-> g[k]]
    OBVIOUS
  <2> HIDE DEF g
  <2> QED
    BY <1>7, <2>1, <2>2, DuesAre
<1>13. PendingIn(H, channel') = PendingIn(H, channel) \cup {j}
  BY <1>2, <1>4, <1>6 DEF PendingIn
<1>14. \A k \in PendingIn(H, channel) :
         Withdraws(c, k) <=> j \notin Repeated /\ IdOf[k] = IdOf[j]
  BY <1>2, <1>8 DEF Withdraws
<1>15. ~Gone(H, channel', j)
  <2>1. ~ \E e \in H : e.job = j
    BY <1>8 DEF PendingIn
  <2>2. ASSUME NEW i \in Adds(channel'), channel'[i].job = j,
               NEW k \in DOMAIN channel', k > i
        PROVE  FALSE
    <3>1. i = n
      BY <1>4, <1>6, <1>8, <2>2 DEF PendingIn
    <3> QED
      BY <1>4, <2>2, <3>1
  <2> QED
    BY <2>1, <2>2 DEF Gone
<1>16. \A k \in PendingIn(H, channel) :
         Gone(H, channel', k) <=> Gone(H, channel, k) \/ Withdraws(c, k)
  <2> SUFFICES ASSUME NEW k \in PendingIn(H, channel)
               PROVE  Gone(H, channel', k) <=> Gone(H, channel, k) \/ Withdraws(c, k)
    OBVIOUS
  <2>1. ASSUME Gone(H, channel, k) PROVE Gone(H, channel', k)
    <3>1. CASE \E e \in H : e.job = k /\ \E i \in DOMAIN channel : Withdraws(channel[i], k)
      BY <3>1, <1>4 DEF Gone
    <3>2. CASE \E i \in Adds(channel) : channel[i].job = k
                 /\ \E m \in DOMAIN channel : m > i /\ Withdraws(channel[m], k)
      BY <3>2, <1>4, <1>6 DEF Gone
    <3> QED
      BY <2>1, <3>1, <3>2 DEF Gone
  <2>2. ASSUME Withdraws(c, k) PROVE Gone(H, channel', k)
    <3>1. CASE \E e \in H : e.job = k
      BY <3>1, <2>2, <1>4 DEF Gone
    <3>2. CASE \E i \in Adds(channel) : channel[i].job = k
      BY <3>2, <2>2, <1>4, <1>6 DEF Gone
    <3> QED
      BY <3>1, <3>2 DEF PendingIn
  <2>3. ASSUME Gone(H, channel', k), ~Withdraws(c, k) PROVE Gone(H, channel, k)
    <3>1. \A i \in DOMAIN channel' : Withdraws(channel'[i], k) =>
            i \in DOMAIN channel /\ Withdraws(channel[i], k)
      BY <2>3, <1>4
    <3>2. CASE \E e \in H : e.job = k /\ \E i \in DOMAIN channel' : Withdraws(channel'[i], k)
      BY <3>1, <3>2 DEF Gone
    <3>3. CASE \E i \in Adds(channel') : channel'[i].job = k
                 /\ \E m \in DOMAIN channel' : m > i /\ Withdraws(channel'[m], k)
      <4>1. PICK i \in Adds(channel') : channel'[i].job = k
                 /\ \E m \in DOMAIN channel' : m > i /\ Withdraws(channel'[m], k)
        BY <3>3
      <4>2. i # n
        BY <1>2, <1>4, <1>8, <4>1
      <4> QED
        BY <1>4, <1>6, <3>1, <4>1, <4>2 DEF Gone
    <3> QED
      BY <2>3, <3>2, <3>3 DEF Gone
  <2> QED
    BY <2>1, <2>2, <2>3
<1>17. /\ PendingJobs = PendingIn(H, channel) /\ PendingJobs' = PendingJobs \cup {j}
       /\ [k \in PendingJobs |-> DueAt(k)] = d
       /\ [k \in PendingJobs |-> DueAt(k)]' = g
  BY <1>5, <1>12, <1>13, Mapped, MappedNext DEF H, d
<1>18. WithdrawnJobs' = WithdrawnJobs \cup
         {k \in PendingJobs : j \notin Repeated /\ IdOf[k] = IdOf[j]}
  <2>1. WithdrawnJobs' = {k \in PendingJobs \cup {j} : Gone(H, channel', k)}
    BY <1>5, <1>17, MappedNext
  <2>2. WithdrawnJobs = {k \in PendingJobs : Gone(H, channel, k)}
    BY Mapped DEF H
  <2> QED
    BY <1>14, <1>15, <1>16, <1>17, <2>1, <2>2
<1> QED
  BY <1>3, <1>9, <1>17, <1>18 DEF T!Set, T!Pending

\* The thread takes the first command: what it removes from the heap was
\* withdrawn by that command; a job that it adds is where it was.
LEMMA TimersGiveUp ==
  ASSUME Inv, Inv', Receive
  PROVE  \E S \in SUBSET WithdrawnJobs : T!GiveUp(S)
<1> DEFINE c == Head(channel)
           H == heap
           new == [job |-> c.job, at |-> c.at]
           S == {j \in PendingJobs : (\E e \in H : e.job = j) /\ Withdraws(c, j)}
           d == DuesIn(H, channel)
           g == [k \in PendingIn(H, channel) \ S |-> d[k]]
<1>1. /\ channel \in Seq(Command) /\ channel # <<>> /\ channel' = Tail(channel)
      /\ pc = "wait" /\ running = Never /\ running' = Never
      /\ UNCHANGED <<now, callers, sampled>>
  BY DEF Inv, Types, Receive
<1>2. /\ c \in Command /\ c = channel[1] /\ 1 \in DOMAIN channel
      /\ \A i \in DOMAIN channel' :
            i \in Nat \ {0} /\ i + 1 \in DOMAIN channel /\ channel'[i] = channel[i + 1]
  BY <1>1, TailCommand
<1>3. \A i \in DOMAIN channel : i # 1 =>
         i - 1 \in DOMAIN channel' /\ channel'[i - 1] = channel[i] /\ i \in Nat \ {0}
  <2>1. Len(channel) \in Nat /\ DOMAIN channel = 1 .. Len(channel)
    BY <1>1, LenProperties
  <2>2. /\ Len(channel') = Len(channel) - 1 /\ DOMAIN channel' = 1 .. Len(channel')
        /\ \A i \in 1 .. Len(channel') : channel'[i] = channel[i + 1]
    BY <1>1, HeadTailProperties, LenProperties
  <2> DEFINE n == Len(channel)
  <2> HIDE DEF n
  <2>3. /\ n \in Nat /\ DOMAIN channel = 1 .. n /\ DOMAIN channel' = 1 .. n - 1
        /\ \A i \in 1 .. n - 1 : channel'[i] = channel[i + 1]
    BY <2>1, <2>2 DEF n
  <2> SUFFICES ASSUME NEW i \in 1 .. n, i # 1
               PROVE  i - 1 \in 1 .. n - 1 /\ channel'[i - 1] = channel[i] /\ i \in Nat \ {0}
    BY <2>3
  <2>4. i - 1 \in 1 .. n - 1 /\ (i - 1) + 1 = i /\ i \in Nat \ {0}
    BY <2>3
  <2> QED
    BY <2>3, <2>4
<1>4. InHand = H /\ InHand' = heap'
  BY <1>1 DEF InHand
<1>5. Apart(H, channel) /\ Apart(heap', channel')
  BY <1>4, InvApart, InvApartNext
<1>6. c.kind = "add" => \A e \in H : e.job # c.job
  BY <1>1, ReceiveAdds
\* What leaves the heap is what the command withdraws.
<1>7. /\ \A e \in H : e \in heap' <=> ~Withdraws(c, e.job)
      /\ \A e \in heap' : e \in H \/ (c.kind = "add" /\ e = new)
      /\ c.kind = "add" => new \in heap'
  <2>1. CASE c.kind = "add" /\ heap' = Add(heap, c)
    <3>1. \A e \in H : Withdraws(c, e.job) <=> c.job \notin Repeated /\ IdOf[e.job] = IdOf[c.job]
      BY <1>6, <2>1 DEF Withdraws
    <3>2. \A e \in H : e # new
      BY <1>6, <2>1
    <3> HIDE DEF c
    <3>3. \A e \in H : e \in heap' <=> ~Withdraws(c, e.job)
      BY <2>1, <3>1, <3>2 DEF Add
    <3>4. \A e \in heap' : e \in H \/ e = new
      BY <2>1 DEF Add
    <3>5. new \in heap'
      BY <2>1 DEF Add
    <3> QED
      BY <2>1, <3>3, <3>4, <3>5
  <2>2. CASE c.kind = "cancel" /\ heap' = {e \in heap : IdOf[e.job] # c.id}
    BY <2>2 DEF Withdraws
  <2>3. CASE c.kind = "stop" /\ heap' = {}
    BY <2>3 DEF Withdraws
  <2> QED
    BY <2>1, <2>2, <2>3 DEF Receive
<1> HIDE DEF c, H, new, d
<1>8. \A k \in PendingIn(H, channel) : k \in S <=> (\E e \in H : e.job = k) /\ Withdraws(c, k)
  BY <1>4, Mapped
<1>9. new.job = c.job /\ new.at = c.at
  BY DEF new
<1>10. c.kind = "add" => 1 \in Adds(channel)
  BY <1>2 DEF Adds
<1>11. /\ \A i \in Adds(channel') : i \in Nat \ {0} /\ i + 1 \in Adds(channel)
                                    /\ channel'[i] = channel[i + 1]
       /\ \A i \in Adds(channel) : i # 1 => /\ i - 1 \in Adds(channel')
                                            /\ channel'[i - 1] = channel[i]
       /\ 1 \in Adds(channel) => c.kind = "add"
  BY <1>2, <1>3 DEF Adds
\* A job that is not given up is held as before.
<1>12. \A k, t : Held(heap', channel', k, t) <=> Held(H, channel, k, t) /\ k \notin S
  <2> SUFFICES ASSUME NEW k, NEW t
               PROVE  Held(heap', channel', k, t) <=> Held(H, channel, k, t) /\ k \notin S
    OBVIOUS
  <2>1. ASSUME NEW e \in heap', e.job = k, e.at = t
        PROVE  Held(H, channel, k, t) /\ k \notin S
    <3>1. CASE e \in H
      <4>1. ~Withdraws(c, k)
        BY <1>7, <2>1, <3>1
      <4> QED
        BY <2>1, <3>1, <4>1 DEF Held, S
    <3>2. CASE c.kind = "add" /\ e = new
      <4>1. channel[1].job = k /\ channel[1].at = t
        BY <1>2, <1>9, <2>1, <3>2
      <4>2. k \notin S
        BY <1>6, <1>9, <2>1, <3>2 DEF S
      <4> QED
        BY <1>10, <3>2, <4>1, <4>2 DEF Held
    <3> QED
      BY <1>7, <3>1, <3>2
  <2>2. ASSUME NEW i \in Adds(channel'), channel'[i].job = k, channel'[i].at = t
        PROVE  Held(H, channel, k, t) /\ k \notin S
    <3>1. i + 1 \in Adds(channel) /\ channel[i + 1].job = k /\ channel[i + 1].at = t
      BY <1>11, <2>2
    <3>2. \A e \in H : e.job # k
      BY <1>5, <3>1 DEF Apart
    <3> QED
      BY <3>1, <3>2 DEF Held, S
  <2>3. ASSUME NEW e \in H, e.job = k, e.at = t, k \notin S
        PROVE  Held(heap', channel', k, t)
    <3>1. k \in PendingIn(H, channel)
      BY <2>3 DEF PendingIn
    <3>2. ~Withdraws(c, k)
      BY <1>8, <2>3, <3>1
    <3> QED
      BY <1>7, <2>3, <3>2 DEF Held
  <2>4. ASSUME NEW i \in Adds(channel), channel[i].job = k, channel[i].at = t
        PROVE  Held(heap', channel', k, t)
    <3>1. CASE i = 1
      BY <1>2, <1>7, <1>9, <1>11, <2>4, <3>1 DEF Held
    <3>2. CASE i # 1
      BY <1>11, <2>4, <3>2 DEF Held
    <3> QED
      BY <3>1, <3>2
  <2> QED
    BY <2>1, <2>2, <2>3, <2>4 DEF Held
<1>13. DOMAIN d = PendingIn(H, channel)
  BY DEF d, DuesIn
<1>14. \A k, t : Held(H, channel, k, t) <=> k \in DOMAIN d /\ d[k] = t
  BY <1>5, DuesAreHeld DEF d
<1> HIDE DEF S
<1>15. DuesIn(heap', channel') = g
  <2>1. \A k, t : Held(heap', channel', k, t) <=> k \in PendingIn(H, channel) \ S /\ g[k] = t
    BY <1>12, <1>13, <1>14
  <2>2. g = [k \in PendingIn(H, channel) \ S |-> g[k]]
    OBVIOUS
  <2> HIDE DEF g
  <2> QED
    BY <1>5, <2>1, <2>2, DuesAre
<1>16. PendingIn(heap', channel') = PendingIn(H, channel) \ S
  <2>1. DOMAIN g = PendingIn(H, channel) \ S
    OBVIOUS
  <2>2. DOMAIN DuesIn(heap', channel') = PendingIn(heap', channel')
    BY DEF DuesIn
  <2> QED
    BY <1>15, <2>1, <2>2
<1>17. ASSUME NEW k \in PendingIn(H, channel), k \notin S
       PROVE  Gone(heap', channel', k) <=> Gone(H, channel, k)
  <2>1. ASSUME NEW e \in heap', e.job = k, NEW i \in DOMAIN channel', Withdraws(channel'[i], k)
        PROVE  Gone(H, channel, k)
    <3>1. i + 1 \in DOMAIN channel /\ Withdraws(channel[i + 1], k) /\ i + 1 > 1
      BY <1>2, <2>1
    <3>2. CASE e \in H
      BY <2>1, <3>1, <3>2 DEF Gone
    <3>3. CASE c.kind = "add" /\ e = new
      <4>1. 1 \in Adds(channel) /\ channel[1].job = k
        BY <1>2, <1>9, <1>10, <2>1, <3>3
      <4> QED
        BY <3>1, <4>1 DEF Gone
    <3> QED
      BY <1>7, <3>2, <3>3
  <2>2. ASSUME NEW i \in Adds(channel'), channel'[i].job = k,
               NEW m \in DOMAIN channel', m > i, Withdraws(channel'[m], k)
        PROVE  Gone(H, channel, k)
    <3>1. i + 1 \in Adds(channel) /\ channel[i + 1].job = k
      BY <1>11, <2>2
    <3>2. m + 1 \in DOMAIN channel /\ Withdraws(channel[m + 1], k) /\ m + 1 > i + 1
      BY <1>2, <1>11, <2>2
    <3> QED
      BY <3>1, <3>2 DEF Gone
  <2>3. ASSUME NEW e \in H, e.job = k, NEW i \in DOMAIN channel, Withdraws(channel[i], k)
        PROVE  Gone(heap', channel', k)
    <3>1. ~Withdraws(c, k)
      BY <1>8, <1>17, <2>3
    <3>2. e \in heap'
      BY <1>7, <2>3, <3>1
    <3>3. i # 1
      BY <1>2, <2>3, <3>1
    <3>4. i - 1 \in DOMAIN channel' /\ Withdraws(channel'[i - 1], k)
      BY <1>3, <2>3, <3>3
    <3> QED
      BY <2>3, <3>2, <3>4 DEF Gone
  <2>4. ASSUME NEW i \in Adds(channel), channel[i].job = k,
               NEW m \in DOMAIN channel, m > i, Withdraws(channel[m], k)
        PROVE  Gone(heap', channel', k)
    <3>1. i \in Nat \ {0} /\ m \in Nat \ {0}
      <4>1. Adds(channel) \subseteq DOMAIN channel /\ DOMAIN channel = 1 .. Len(channel)
            /\ Len(channel) \in Nat
        BY <1>1, LenProperties DEF Adds
      <4> QED
        BY <4>1
    <3>2. m # 1
      BY <2>4, <3>1
    <3>3. m - 1 \in DOMAIN channel' /\ Withdraws(channel'[m - 1], k)
      BY <1>3, <2>4, <3>2
    <3>4. CASE i = 1
      <4>1. new \in heap' /\ new.job = k
        BY <1>2, <1>7, <1>9, <1>11, <2>4, <3>4
      <4> QED
        BY <3>3, <4>1 DEF Gone
    <3>5. CASE i # 1
      <4>1. i - 1 \in Adds(channel') /\ channel'[i - 1].job = k /\ m - 1 > i - 1
        BY <1>11, <2>4, <3>1, <3>5
      <4> QED
        BY <3>3, <4>1 DEF Gone
    <3> QED
      BY <3>4, <3>5
  <2>5. Gone(heap', channel', k) => Gone(H, channel, k)
    BY <2>1, <2>2 DEF Gone
  <2>6. Gone(H, channel, k) => Gone(heap', channel', k)
    BY <2>3, <2>4 DEF Gone
  <2> QED
    BY <2>5, <2>6
<1>18. /\ PendingJobs = PendingIn(H, channel) /\ PendingJobs' = PendingJobs \ S
       /\ [k \in PendingJobs |-> DueAt(k)] = d
       /\ [k \in PendingJobs |-> DueAt(k)]' = g
  BY <1>4, <1>15, <1>16, Mapped, MappedNext DEF d
<1>19. WithdrawnJobs = {k \in PendingJobs : Gone(H, channel, k)}
  BY <1>4, Mapped
<1>20. S \in SUBSET WithdrawnJobs
  <2> SUFFICES ASSUME NEW k \in S PROVE k \in PendingJobs /\ Gone(H, channel, k)
    BY <1>19
  <2>1. k \in PendingJobs
    BY DEF S
  <2>2. PICK e \in H : e.job = k
    BY DEF S
  <2>3. Withdraws(channel[1], k)
    BY <1>2 DEF S
  <2> QED
    BY <1>2, <2>1, <2>2, <2>3 DEF Gone
<1>21. WithdrawnJobs' = WithdrawnJobs \ S
  <2>1. WithdrawnJobs' = {k \in PendingJobs \ S : Gone(heap', channel', k)}
    BY <1>4, <1>18, MappedNext
  <2> QED
    BY <1>17, <1>18, <1>19, <2>1
<1>22. now' = now /\ issued' = issued
  BY <1>1 DEF callers
<1>23. T!GiveUp(S)
  BY <1>13, <1>18, <1>20, <1>21, <1>22 DEF T!GiveUp, T!Without, T!Pending
<1> QED
  BY <1>20, <1>23

\* The job in the callback was due when the round sampled the time.
RunsWhenDue == running # Never => running.at <= sampled

LEMMA RunsWhenDueHolds == Spec => []RunsWhenDue
<1>1. Init => RunsWhenDue
  BY DEF Init, RunsWhenDue
<1>2. RunsWhenDue /\ [Next]_vars => RunsWhenDue'
  <2> SUFFICES ASSUME RunsWhenDue, [Next]_vars PROVE RunsWhenDue'
    OBVIOUS
  <2>1. CASE Turn
    BY <2>1 DEF Turn, RunsWhenDue
  <2>2. CASE Run
    BY <2>2 DEF Run, RunsWhenDue
  <2>3. CASE UNCHANGED <<running, sampled>>
    BY <2>3 DEF RunsWhenDue
  <2> QED
    BY <2>1, <2>2, <2>3
       DEF Next, Start, Stop, Schedule, Cancel, Thread, Receive, TimesOut, Tick, vars, thread
<1> QED
  BY <1>1, <1>2, PTL DEF Spec

\* A callback that ends is a timer that rang.
LEMMA TimersRing ==
  ASSUME Inv, Inv', RunsWhenDue, Run
  PROVE  \E j \in T!Pending : T!Ring(j)
<1> DEFINE r == running.job  H == InHand  d == DuesIn(H, channel)
           again == [job |-> r, at |-> sampled + Delay[r]]
<1>1. /\ running \in Entry /\ running # Never /\ running \notin heap /\ heap \subseteq Entry
      /\ sampled \in Nat /\ now \in Nat /\ sampled <= now /\ running.at <= sampled
  BY DEF Inv, Types, RunningIsOut, Run, RunsWhenDue
<1>2. heap' = AfterRun /\ running' = Never /\ UNCHANGED <<now, issued, channel>>
  BY DEF Run, callers
<1>3. H = heap \cup {running} /\ InHand' = AfterRun
  BY <1>1, <1>2 DEF InHand
<1>4. Apart(H, channel) /\ Apart(AfterRun, channel)
  BY <1>2, <1>3, InvApart, InvApartNext
<1>5. \A e \in heap : e.job # r
  BY <1>1, <1>3, <1>4 DEF Apart
<1>6. \A i \in Adds(channel) : channel[i].job # r
  BY <1>3, <1>4 DEF Apart
<1>7. DOMAIN d = PendingIn(H, channel)
  BY DEF DuesIn
<1>8. \A k, t : Held(H, channel, k, t) <=> k \in DOMAIN d /\ d[k] = t
  BY <1>4, DuesAreHeld
<1>9. r \in DOMAIN d /\ d[r] = running.at /\ running.at \in Nat
  <2>1. Held(H, channel, r, running.at)
    BY <1>3 DEF Held
  <2> QED
    BY <1>1, <1>8, <2>1 DEF Entry
<1>10. /\ PendingJobs = PendingIn(H, channel) /\ [k \in PendingJobs |-> DueAt(k)] = d
       /\ WithdrawnJobs = {k \in PendingJobs : Gone(H, channel, k)}
  BY Mapped
<1>11. /\ PendingJobs' = PendingIn(AfterRun, channel)
       /\ [k \in PendingJobs |-> DueAt(k)]' = DuesIn(AfterRun, channel)
       /\ WithdrawnJobs' = {k \in PendingJobs' : Gone(AfterRun, channel, k)}
  BY <1>2, <1>3, MappedNext
<1> HIDE DEF H, d
<1>12. T!Ring(r)
  <2>1. CASE r \in Repeated
    <3> DEFINE g == [d EXCEPT ![r] = sampled + Delay[r]]
    <3>1. AfterRun = heap \cup {again} /\ again.job = r /\ again.at = sampled + Delay[r]
      BY <2>1 DEF AfterRun
    <3> HIDE DEF again
    <3>2. \A k, t : Held(AfterRun, channel, k, t) <=>
                      (k # r /\ Held(H, channel, k, t)) \/ (k = r /\ t = sampled + Delay[r])
      BY <1>3, <1>5, <1>6, <3>1 DEF Held
    <3>3. \A k, t : Held(AfterRun, channel, k, t) <=> k \in DOMAIN d /\ g[k] = t
      BY <1>8, <1>9, <3>2
    <3>4. d = [k \in DOMAIN d |-> d[k]]
      BY DEF d, DuesIn
    <3>5. g = [k \in DOMAIN d |-> g[k]]
      BY <3>4
    <3>6. DuesIn(AfterRun, channel) = g
      <4> HIDE DEF g
      <4> QED
        BY <1>4, <3>3, <3>5, DuesAre
    <3>7. PendingIn(AfterRun, channel) = PendingIn(H, channel)
      BY <1>3, <3>1 DEF PendingIn
    <3>8. \A k : Gone(AfterRun, channel, k) <=> Gone(H, channel, k)
      BY <1>3, <3>1 DEF Gone
    <3>9. WithdrawnJobs' = WithdrawnJobs
      BY <1>10, <1>11, <3>7, <3>8
    <3>10. sampled \in d[r] .. now
      BY <1>1, <1>9
    <3>11. d[r] <= now
      BY <1>1, <1>9
    <3> QED
      BY <1>2, <1>10, <1>11, <2>1, <3>6, <3>9, <3>10, <3>11 DEF T!Ring
  <2>2. CASE r \notin Repeated
    <3> DEFINE g == [k \in DOMAIN d \ {r} |-> d[k]]
    <3>1. AfterRun = heap
      BY <2>2 DEF AfterRun
    <3>2. \A k, t : Held(AfterRun, channel, k, t) <=> k # r /\ Held(H, channel, k, t)
      BY <1>3, <1>5, <1>6, <3>1 DEF Held
    <3>3. \A k, t : Held(AfterRun, channel, k, t) <=> k \in DOMAIN d \ {r} /\ g[k] = t
      BY <1>8, <3>2
    <3>4. DuesIn(AfterRun, channel) = g
      <4>1. g = [k \in DOMAIN d \ {r} |-> g[k]]
        OBVIOUS
      <4> HIDE DEF g
      <4> QED
        BY <1>4, <3>3, <4>1, DuesAre
    <3>5. PendingIn(AfterRun, channel) = PendingIn(H, channel) \ {r}
      <4>1. DOMAIN g = DOMAIN d \ {r}
        OBVIOUS
      <4>2. DOMAIN DuesIn(AfterRun, channel) = PendingIn(AfterRun, channel)
        BY DEF DuesIn
      <4> QED
        BY <1>7, <3>4, <4>1, <4>2
    <3>6. \A k : k # r => (Gone(AfterRun, channel, k) <=> Gone(H, channel, k))
      BY <1>3, <3>1 DEF Gone
    <3>7. WithdrawnJobs' = WithdrawnJobs \ {r}
      BY <1>10, <1>11, <3>5, <3>6
    <3>8. d[r] <= now
      BY <1>1, <1>9
    <3> QED
      BY <1>2, <1>7, <1>10, <1>11, <2>2, <3>4, <3>7, <3>8 DEF T!Ring, T!Without, T!Pending
  <2> QED
    BY <2>1, <2>2
<1> QED
  BY <1>7, <1>9, <1>10, <1>12 DEF T!Pending

LEMMA TimersStep ==
  ASSUME Inv, Inv', RunsWhenDue, [Next]_vars
  PROVE  [T!Next]_(T!vars)
<1>1. CASE Start
  <2>1. UNCHANGED <<now, issued, channel, InHand>>
    BY <1>1 DEF Start, callers, InHand
  <2> QED
    BY <2>1, TimersStutter
<1>2. CASE Stop
  <2>1. StopCommand \in Command /\ StopCommand.kind = "stop"
    BY DEF StopCommand, Command
  <2>2. \A j \in PendingJobs : Withdraws(StopCommand, j) <=> j \in PendingJobs
    BY <2>1 DEF Withdraws
  <2>3. T!Withdraw(PendingJobs)
    BY <1>2, <2>1, <2>2, TimersWithdraw DEF Stop, callers
  <2>4. T!Pending = PendingJobs
    BY DEF T!Pending
  <2> QED
    BY <2>3, <2>4 DEF T!Next
<1>3. ASSUME NEW j \in Jobs, Schedule(j) PROVE T!Next
  BY <1>3, TimersSet DEF T!Next
<1>4. ASSUME NEW id \in Ids, Cancel(id) PROVE T!Next
  <2> DEFINE S == {j \in PendingJobs : IdOf[j] = id}
  <2>1. CancelCommand(id) \in Command /\ CancelCommand(id).kind = "cancel"
        /\ CancelCommand(id).id = id
    BY DEF CancelCommand, Command
  <2>2. \A j \in PendingJobs : Withdraws(CancelCommand(id), j) <=> j \in S
    BY <2>1 DEF Withdraws
  <2>3. T!Withdraw(S)
    BY <1>4, <2>1, <2>2, TimersWithdraw DEF Cancel
  <2>4. S = {j \in T!Pending : IdOf[j] = id}
    BY DEF T!Pending
  <2> HIDE DEF S
  <2> QED
    BY <2>3, <2>4 DEF T!Next, Ids
<1>5. CASE Receive
  BY <1>5, TimersGiveUp DEF T!Next
<1>6. CASE TimesOut
  <2>1. UNCHANGED <<now, issued, channel, InHand>>
    BY <1>6 DEF TimesOut, callers, InHand
  <2> QED
    BY <2>1, TimersStutter
<1>7. CASE Turn
  <2>1. UNCHANGED <<now, issued, channel>> /\ running = Never /\ heap \subseteq Entry
    BY <1>7 DEF Turn, callers, Inv, Types
  <2>2. InHand' = InHand
    <3>1. CASE UNCHANGED <<heap, running>>
      BY <3>1 DEF InHand
    <3>2. CASE \E e \in Earliest(heap) : heap' = heap \ {e} /\ running' = e
      <4>1. PICK e \in heap : heap' = heap \ {e} /\ running' = e
        BY <3>2 DEF Earliest
      <4>2. e # Never
        BY <2>1, BoundsAssumption DEF Entry
      <4> QED
        BY <2>1, <4>1, <4>2 DEF InHand
    <3> QED
      BY <1>7, <3>1, <3>2 DEF Turn
  <2> QED
    BY <2>1, <2>2, TimersStutter
<1>8. CASE Run
  BY <1>8, TimersRing DEF T!Next
<1>9. CASE Tick
  <2>1. now' = now + 1 /\ UNCHANGED <<issued, channel, InHand>>
    BY <1>9 DEF Tick, callers, thread, InHand
  <2> QED
    BY <2>1, TimersTick DEF T!Next
<1>10. CASE UNCHANGED vars
  <2>1. UNCHANGED <<now, issued, channel, InHand>>
    BY <1>10 DEF vars, callers, thread, InHand
  <2> QED
    BY <2>1, TimersStutter
<1> QED
  BY <1>1, <1>2, <1>3, <1>4, <1>5, <1>6, <1>7, <1>8, <1>9, <1>10 DEF Next, Thread

\* The scheduler implements Timers: no timer rings early, is lost unless its
\* owner withdrew it, or comes back (core/scheduler/mod.rs: "guaranteed to run
\* after at least the specified time").
THEOREM TimersAreKept == Spec => KeepsTimers
<1>1. Init => T!Init
  BY TimersInit
<1>2. Inv /\ Inv' /\ RunsWhenDue /\ [Next]_vars => [T!Next]_(T!vars)
  BY TimersStep
<1> QED
  BY <1>1, <1>2, Invariance, RunsWhenDueHolds, PTL DEF Spec, KeepsTimers, T!Spec
=============================================================================
