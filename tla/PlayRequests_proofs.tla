-------------------------- MODULE PlayRequests_proofs --------------------------
(***************************************************************************)
(* Plays of pasted links for any rows, entries of playlists, workers,      *)
(* plays and failures.                                                     *)
(***************************************************************************)
EXTENDS PlayRequests, FiniteSetTheorems, SequenceTheorems, TLAPS

(* What every reachable state satisfies, whatever the constants. Below, f   *)
(* is what became of MPD's song ids: f[id] is the link of the row that was  *)
(* given id, in the queue or long gone from it. Whatever names a row, and   *)
(* is not only removed by its id, names the link of that row.              *)

RowsOf(f) ==
    {r \in [id : DOMAIN f, link : Links, kind : {"link", "stream"}] : r.link = f[r.id]}

JobsOf(f) ==
    {j \in [link : Links, action : Actions, row : DOMAIN f \cup {0}, stamp : Nat] :
        /\ j.action \in {"ReplaceAndPlay", "ReplaceInPlace"} =>
             j.row # 0 /\ j.link = f[j.row]
        /\ j.action = "AddAfterCurrentAndPlay" => j.link \in Entries}

CommandsOf(f) ==
    {c \in [do : {"replace", "swap", "insert", "delete", "clear"},
            row : DOMAIN f \cup {0}, link : Links \cup {None}] :
        /\ c.do \in {"replace", "swap"} => c.row # 0 /\ c.link = f[c.row]
        /\ c.do = "insert" => c.link \in Entries}

AppsOf(f) ==
    [marks : SUBSET Nat, parsing : SUBSET Links, warmed : SUBSET Links, step : Nat,
     cached : SUBSET Links, jobs : Seq(JobsOf(f)), commands : Seq(CommandsOf(f))]

ResultsOf(f) == [job : JobsOf(f), outcome : Outcomes]

SwapsOf(f) ==
    {s \in [row : DOMAIN f, link : Links, at : {"delete", "add"}] : s.link = f[s.row]}

\* The state names rows by the ids and links that MPD gave them.
Names(f) ==
    /\ queue \in SUBSET RowsOf(f)
    /\ shown \in SUBSET RowsOf(f)
    /\ app \in AppsOf(f)
    /\ running \in [Workers -> JobsOf(f) \cup {None}]
    /\ results \in Seq(ResultsOf(f))
    /\ client # None => client \in SwapsOf(f)

Typed ==
    /\ nextId \in Nat \ {0}
    /\ IsFiniteSet(queue) /\ IsFiniteSet(shown)
    /\ playing \in Nat
    /\ generation \in Nat
    /\ \E f \in [1 .. nextId - 1 -> Links] : Names(f)

\* No play lands that was not asked for.
Clock == landed \in Nat /\ landed <= generation

\* The links there at first that no swap left or found gone.
Kempt(links) == RowLinks \ links

\* Such a link is there once at most; a swap that is about to delete its row
\* finds the row, and one that is about to add its stream is alone with the link.
SwapHolds(rows, swap, links) ==
    swap # None /\ swap.link \in links =>
        /\ swap.at = "delete" => \E r \in rows : r.id = swap.row
        /\ swap.at = "add" => \A r \in rows : r.link # swap.link

FirstLinksOnce ==
    /\ Alone(queue, Kempt(strays))
    /\ SwapHolds(queue, client, Kempt(strays))

\* No row becomes a link again: the rows of the queue that are links were shown
\* as such.
LinksAreShown == \A r \in queue : r.kind = "link" => r \in shown

\* The plays of a row that the pool was sent, runs, and has answered.
PlaysRow(j, id) == j.action = "ReplaceAndPlay" /\ j.row = id
Sent(a, id) == \E i \in DOMAIN a.jobs : PlaysRow(a.jobs[i], id)
Runs(run, w, id) == run[w] # None /\ PlaysRow(run[w], id)
Ran(run, id) == \E w \in Workers : Runs(run, w, id)
Came(res, id) == \E i \in DOMAIN res : PlaysRow(res[i].job, id)

\* Whoever is played is marked for as long as it is shown as a link.
Marked(a, rows, run, res) ==
    \A id : Sent(a, id) \/ Ran(run, id) \/ Came(res, id) => id \in a.marks \/ ~IsLink(rows, id)

\* One play of a row is under way.
Once(a, run, res) ==
    \A id :
        /\ \A i, j \in DOMAIN a.jobs : PlaysRow(a.jobs[i], id) /\ PlaysRow(a.jobs[j], id) => i = j
        /\ \A v, w \in Workers : Runs(run, v, id) /\ Runs(run, w, id) => v = w
        /\ \A i, j \in DOMAIN res : PlaysRow(res[i].job, id) /\ PlaysRow(res[j].job, id) => i = j
        /\ ~(Sent(a, id) /\ Ran(run, id))
        /\ ~(Sent(a, id) /\ Came(res, id))
        /\ ~(Ran(run, id) /\ Came(res, id))

Inv ==
    /\ Typed /\ Clock
    /\ FirstLinksOnce /\ LinksAreShown
    /\ Marked(app, shown, running, results)
    /\ Once(app, running, results)

\* The marks and the jobs fit the rows that are shown.
Steady(f, rows, run, res, a) ==
    a \in AppsOf(f) /\ Marked(a, rows, run, res) /\ Once(a, run, res)

----------------------------------------------------------------------------
(* Helpers.                                                                *)

\* A finite set has a sequence of its elements.
LEMMA SequenceOfSet ==
  ASSUME NEW S, IsFiniteSet(S)
  PROVE  SetToSeq(S) \in Seq(S)
<1> DEFINE n == Cardinality(S)
<1>1. n \in Nat /\ ExistsBijection(1 .. n, S)
  BY FS_CardinalityType
<1>2. \E g \in [1 .. n -> S] : IsInjective(g)
  <2>1. PICK g : g \in Bijection(1 .. n, S)
    BY <1>1 DEF ExistsBijection
  <2>2. g \in [1 .. n -> S] /\ \A x, y \in 1 .. n : g[x] = g[y] => x = y
    BY <2>1 DEF Bijection, Injection, IsInjective, Surjection
  <2>3. IsInjective(g)
    BY <2>2 DEF IsInjective
  <2> QED
    BY <2>2, <2>3
<1>3. SetToSeq(S) \in [1 .. n -> S]
  BY <1>2 DEF SetToSeq
<1> QED
  BY <1>1, <1>3, SeqDef

\* An app that sends no job and keeps the marks of the rows shown.
LEMMA SilentIsSteady ==
  ASSUME NEW f, NEW rows, NEW run, NEW res, NEW a, NEW b,
         Steady(f, rows, run, res, a), b \in AppsOf(f),
         b.jobs = a.jobs,
         \A id \in a.marks : IsLink(rows, id) => id \in b.marks
  PROVE  Steady(f, rows, run, res, b)
<1>1. \A id : Sent(b, id) <=> Sent(a, id)
  BY DEF Sent
<1>2. Once(b, run, res)
  BY <1>1 DEF Steady, Once
<1>3. Marked(b, rows, run, res)
  BY <1>1 DEF Steady, Marked
<1> QED
  BY <1>2, <1>3 DEF Steady

\* An app that sends jobs that are no plays.
LEMMA WarmingIsSteady ==
  ASSUME NEW f, NEW rows, NEW run, NEW res, NEW a, NEW b, NEW q \in Seq(JobsOf(f)),
         Steady(f, rows, run, res, a), b \in AppsOf(f),
         b.jobs = a.jobs \o q,
         \A i \in DOMAIN q : q[i].action # "ReplaceAndPlay",
         \A id \in a.marks : IsLink(rows, id) => id \in b.marks
  PROVE  Steady(f, rows, run, res, b)
<1> DEFINE s == a.jobs  t == b.jobs  n == Len(s)  m == Len(q)
<1>1. s \in Seq(JobsOf(f)) /\ t \in Seq(JobsOf(f))
  BY DEF Steady, AppsOf
<1>2. /\ n \in Nat /\ DOMAIN s = 1 .. n
      /\ m \in Nat /\ DOMAIN q = 1 .. m
      /\ DOMAIN t = 1 .. Len(t)
  BY <1>1, LenProperties
<1>3. /\ t = s \o q /\ Len(t) = n + m
      /\ \A i \in 1 .. n + m : t[i] = IF i <= n THEN s[i] ELSE q[i - n]
  BY <1>1, ConcatProperties
<1>4. ASSUME NEW i \in DOMAIN t, NEW id, PlaysRow(t[i], id)
      PROVE  i \in DOMAIN s /\ t[i] = s[i]
  <2> HIDE DEF s, t, n, m
  <2>1. i \in 1 .. n + m
    BY <1>2, <1>3
  <2>2. CASE i <= n
    BY <2>1, <2>2, <1>2, <1>3
  <2>3. CASE ~(i <= n)
    <3>1. i - n \in 1 .. m /\ t[i] = q[i - n]
      BY <2>1, <2>3, <1>2, <1>3
    <3> QED
      BY <3>1, <1>2, <1>4 DEF PlaysRow
  <2> QED
    BY <2>2, <2>3
<1>5. ASSUME NEW i \in DOMAIN s
      PROVE  i \in DOMAIN t /\ t[i] = s[i]
  <2> HIDE DEF s, t, n, m
  <2> QED
    BY <1>2, <1>3
<1>6. \A id : Sent(b, id) <=> Sent(a, id)
  BY <1>4, <1>5 DEF Sent
<1>7. ASSUME NEW id, NEW i \in DOMAIN t, NEW j \in DOMAIN t,
             PlaysRow(t[i], id), PlaysRow(t[j], id)
      PROVE  i = j
  <2>1. i \in DOMAIN s /\ j \in DOMAIN s /\ t[i] = s[i] /\ t[j] = s[j]
    BY <1>4, <1>7
  <2> QED
    BY <2>1, <1>7 DEF Steady, Once
<1>8. Once(b, run, res)
  BY <1>6, <1>7 DEF Steady, Once
<1>9. Marked(b, rows, run, res)
  BY <1>6 DEF Steady, Marked
<1> QED
  BY <1>8, <1>9 DEF Steady

\* An app that sends the play of a row nobody plays, and marks it.
LEMMA PlayIsSteady ==
  ASSUME NEW f, NEW rows, NEW run, NEW res, NEW a, NEW b, NEW j \in JobsOf(f), NEW row,
         Steady(f, rows, run, res, a), b \in AppsOf(f),
         b.jobs = Append(a.jobs, j),
         PlaysRow(j, row), row \notin a.marks, IsLink(rows, row), row \in b.marks,
         \A id \in a.marks : IsLink(rows, id) => id \in b.marks
  PROVE  Steady(f, rows, run, res, b)
<1> DEFINE s == a.jobs  t == b.jobs  n == Len(s)
<1>1. s \in Seq(JobsOf(f)) /\ t \in Seq(JobsOf(f))
  BY DEF Steady, AppsOf
<1>2. /\ n \in Nat /\ DOMAIN s = 1 .. n /\ DOMAIN t = 1 .. n + 1
      /\ \A i \in 1 .. n : t[i] = s[i]
      /\ t[n + 1] = j
  BY <1>1, LenProperties, AppendProperties
<1>3. ~Sent(a, row) /\ ~Ran(run, row) /\ ~Came(res, row)
  BY DEF Steady, Marked
<1>4. \A i \in DOMAIN t : i \in DOMAIN s \/ i = n + 1
  <2> HIDE DEF s, t, n
  <2> QED
    BY <1>2
<1>5. \A i \in DOMAIN s : i \in DOMAIN t /\ t[i] = s[i]
  <2> HIDE DEF s, t, n
  <2> QED
    BY <1>2
<1>6. \A id : Sent(b, id) <=> Sent(a, id) \/ id = row
  <2> TAKE id
  <2>1. ASSUME Sent(b, id) PROVE Sent(a, id) \/ id = row
    <3>1. PICK i \in DOMAIN t : PlaysRow(t[i], id)
      BY <2>1 DEF Sent
    <3>2. CASE i \in DOMAIN s
      BY <3>1, <3>2, <1>5 DEF Sent
    <3>3. CASE i = n + 1
      BY <3>1, <3>3, <1>2 DEF PlaysRow
    <3> QED
      BY <3>2, <3>3, <1>4
  <2>2. ASSUME Sent(a, id) PROVE Sent(b, id)
    BY <2>2, <1>5 DEF Sent
  <2>3. Sent(b, row)
    <3>1. n + 1 \in DOMAIN t
      <4> HIDE DEF s, t, n
      <4> QED
        BY <1>2
    <3> QED
      BY <3>1, <1>2 DEF Sent
  <2> QED
    BY <2>1, <2>2, <2>3
<1>7. ASSUME NEW id, NEW i \in DOMAIN t, NEW k \in DOMAIN t,
             PlaysRow(t[i], id), PlaysRow(t[k], id)
      PROVE  i = k
  <2>1. CASE i \in DOMAIN s /\ k \in DOMAIN s
    <3>1. PlaysRow(s[i], id) /\ PlaysRow(s[k], id)
      BY <1>5, <1>7, <2>1
    <3> QED
      BY <3>1, <2>1 DEF Steady, Once
  <2>2. CASE i = n + 1 /\ k \in DOMAIN s
    <3>1. PlaysRow(j, id) /\ PlaysRow(s[k], id)
      BY <1>2, <1>5, <1>7, <2>2
    <3>2. Sent(a, row)
      BY <3>1, <2>2 DEF Sent, PlaysRow
    <3> QED
      BY <3>2, <1>3
  <2>3. CASE i \in DOMAIN s /\ k = n + 1
    <3>1. PlaysRow(j, id) /\ PlaysRow(s[i], id)
      BY <1>2, <1>5, <1>7, <2>3
    <3>2. Sent(a, row)
      BY <3>1, <2>3 DEF Sent, PlaysRow
    <3> QED
      BY <3>2, <1>3
  <2> QED
    BY <2>1, <2>2, <2>3, <1>4
<1>8. Once(b, run, res)
  BY <1>3, <1>6, <1>7 DEF Steady, Once
<1>9. Marked(b, rows, run, res)
  BY <1>6 DEF Steady, Marked
<1> QED
  BY <1>8, <1>9 DEF Steady

\* An app that sends one job that is no play.
LEMMA RequestIsSteady ==
  ASSUME NEW f, NEW rows, NEW run, NEW res, NEW a, NEW b, NEW j \in JobsOf(f),
         Steady(f, rows, run, res, a), b \in AppsOf(f),
         b.jobs = Append(a.jobs, j),
         j.action # "ReplaceAndPlay",
         \A id \in a.marks : IsLink(rows, id) => id \in b.marks
  PROVE  Steady(f, rows, run, res, b)
<1>1. a.jobs \in Seq(JobsOf(f))
  BY DEF Steady, AppsOf
<1> DEFINE q == <<j>>
<1>2. q \in Seq(JobsOf(f)) /\ DOMAIN q = {1} /\ q[1] = j
  OBVIOUS
<1>3. b.jobs = a.jobs \o q
  BY <1>1, AppendIsConcat
<1>4. \A i \in DOMAIN q : q[i].action # "ReplaceAndPlay"
  BY <1>2
<1> HIDE DEF q
<1> QED
  BY <1>2, <1>3, <1>4, WarmingIsSteady

----------------------------------------------------------------------------
(* What the handlers make of the app.                                      *)

LEMMA AskIsSteady ==
  ASSUME NEW f, NEW rows, NEW run, NEW res, NEW a, NEW c \in CommandsOf(f),
         Steady(f, rows, run, res, a)
  PROVE  Steady(f, rows, run, res, Ask(a, c))
<1>1. a \in AppsOf(f)
  BY DEF Steady
<1>2. Append(a.commands, c) \in Seq(CommandsOf(f))
  BY <1>1, AppendProperties DEF AppsOf
<1>3. Ask(a, c) \in AppsOf(f)
  BY <1>1, <1>2 DEF Ask, AppsOf
<1>4. Ask(a, c).jobs = a.jobs /\ Ask(a, c).marks = a.marks
  BY <1>1 DEF Ask, AppsOf
<1> QED
  BY <1>3, <1>4, SilentIsSteady

\* Only the step, the cache and the parse marks change.
LEMMA NotesAreSteady ==
  ASSUME NEW f, NEW rows, NEW run, NEW res, NEW a, Steady(f, rows, run, res, a),
         NEW step \in Nat, NEW cached \in SUBSET Links, NEW parsing \in SUBSET Links
  PROVE  /\ Steady(f, rows, run, res, [a EXCEPT !.step = step])
         /\ Steady(f, rows, run, res, [a EXCEPT !.cached = cached])
         /\ Steady(f, rows, run, res, [a EXCEPT !.parsing = parsing])
<1>1. a \in AppsOf(f)
  BY DEF Steady
<1>2. ASSUME NEW b \in AppsOf(f), b.jobs = a.jobs, b.marks = a.marks
      PROVE  Steady(f, rows, run, res, b)
  BY <1>2, SilentIsSteady
<1>3. [a EXCEPT !.step = step] \in AppsOf(f) /\ [a EXCEPT !.step = step].jobs = a.jobs
      /\ [a EXCEPT !.step = step].marks = a.marks
  BY <1>1 DEF AppsOf
<1>4. [a EXCEPT !.cached = cached] \in AppsOf(f) /\ [a EXCEPT !.cached = cached].jobs = a.jobs
      /\ [a EXCEPT !.cached = cached].marks = a.marks
  BY <1>1 DEF AppsOf
<1>5. [a EXCEPT !.parsing = parsing] \in AppsOf(f) /\ [a EXCEPT !.parsing = parsing].jobs = a.jobs
      /\ [a EXCEPT !.parsing = parsing].marks = a.marks
  BY <1>1 DEF AppsOf
<1> QED
  BY <1>2, <1>3, <1>4, <1>5

\* A resolve is applied by a command that names its row and link.
LEMMA ApplyResolvedIsSteady ==
  ASSUME NEW n \in Nat, NEW f \in [1 .. n -> Links],
         NEW rows, NEW run, NEW res, NEW a, NEW j \in JobsOf(f),
         Steady(f, rows, run, res, a)
  PROVE  Steady(f, rows, run, res, ApplyResolved(a, j.action, j.row, j.link))
<1> DEFINE kept == [a EXCEPT !.cached = @ \cup {j.link}]
<1>1. j.row \in DOMAIN f \cup {0} /\ j.link \in Links /\ j.action \in Actions
  BY DEF JobsOf
<1>2. a \in AppsOf(f)
  BY DEF Steady
<1>3. Steady(f, rows, run, res, kept)
  <2>1. a.cached \cup {j.link} \in SUBSET Links
    BY <1>1, <1>2 DEF AppsOf
  <2>2. kept = [a EXCEPT !.cached = a.cached \cup {j.link}]
    BY <1>2 DEF AppsOf
  <2> QED
    BY <2>1, <2>2, NotesAreSteady, 0 \in Nat
<1> HIDE DEF kept
<1>4. CASE j.action = "ReplaceAndPlay"
  <2>1. Command("replace", j.row, j.link) \in CommandsOf(f)
    BY <1>1, <1>4 DEF Command, CommandsOf, JobsOf
  <2> DEFINE b == Ask(kept, Command("replace", j.row, j.link))
             step == IF b.step = j.row THEN 0 ELSE b.step
  <2>2. Steady(f, rows, run, res, b)
    BY <1>3, <2>1, AskIsSteady
  <2>3. b \in AppsOf(f)
    BY <2>2 DEF Steady
  <2>4. step \in Nat
    BY <2>3 DEF AppsOf
  <2>5. ApplyResolved(a, j.action, j.row, j.link) = [b EXCEPT !.step = step]
    <3>1. ApplyResolved(a, j.action, j.row, j.link)
            = [b EXCEPT !.step = IF @ = j.row THEN 0 ELSE @]
      BY <1>4 DEF ApplyResolved, kept
    <3> HIDE DEF b
    <3> QED
      BY <3>1, <2>3 DEF AppsOf
  <2> HIDE DEF b, step
  <2>6. {} \in SUBSET Links
    OBVIOUS
  <2>7. Steady(f, rows, run, res, [b EXCEPT !.step = step])
    BY <2>2, <2>4, <2>6, NotesAreSteady
  <2> QED
    BY <2>5, <2>7
<1>5. CASE j.action = "ReplaceInPlace"
  <2>1. Command("swap", j.row, j.link) \in CommandsOf(f)
    BY <1>1, <1>5 DEF Command, CommandsOf, JobsOf
  <2>2. ApplyResolved(a, j.action, j.row, j.link) = Ask(kept, Command("swap", j.row, j.link))
    BY <1>5 DEF ApplyResolved, kept
  <2> QED
    BY <1>3, <2>1, <2>2, AskIsSteady
<1>6. CASE j.action = "AddAfterCurrentAndPlay"
  <2>1. Command("insert", 0, j.link) \in CommandsOf(f)
    BY <1>1, <1>6 DEF Command, CommandsOf, JobsOf
  <2>2. ApplyResolved(a, j.action, j.row, j.link) = Ask(kept, Command("insert", 0, j.link))
    BY <1>6 DEF ApplyResolved, kept
  <2> QED
    BY <1>3, <2>1, <2>2, AskIsSteady
<1>7. CASE j.action = "PlayVideo"
  <2>1. ApplyResolved(a, j.action, j.row, j.link) = kept
    BY <1>7 DEF ApplyResolved, kept
  <2> QED
    BY <1>3, <2>1
<1> QED
  BY <1>1, <1>4, <1>5, <1>6, <1>7 DEF Actions

\* One play of a row at a time: a row whose play is under way is marked.
LEMMA ResolveEntryIsSteady ==
  ASSUME NEW n \in Nat, NEW f \in [1 .. n -> Links],
         NEW rows \in SUBSET RowsOf(f), NEW run, NEW res, NEW a,
         NEW row \in rows, IsLink(rows, row.id), NEW play \in BOOLEAN, NEW stamp \in Nat,
         Steady(f, rows, run, res, a)
  PROVE  Steady(f, rows, run, res, ResolveEntry(a, rows, row, play, stamp))
<1> DEFINE action == IF play THEN "ReplaceAndPlay" ELSE "ReplaceInPlace"
           marked == [a EXCEPT !.marks = Kept(a, rows) \cup {row.id}]
           job == Job(row.link, action, row.id, stamp)
<1>1. a \in AppsOf(f)
  BY DEF Steady
<1>2. /\ row.id \in DOMAIN f /\ row.id \in Nat /\ row.id # 0
      /\ row.link \in Links /\ row.link = f[row.id]
  BY DEF RowsOf
<1>3. IsLink(rows, row.id)
  OBVIOUS
<1>4. Kept(a, rows) \in SUBSET Nat
  BY <1>1 DEF Kept, AppsOf
<1>5. \A id \in a.marks : IsLink(rows, id) => id \in Kept(a, rows)
  BY DEF Kept
<1>6. job \in JobsOf(f) /\ job.action = action /\ job.row = row.id /\ job.link = row.link
  BY <1>2 DEF Job, JobsOf, Actions
<1>7. marked \in AppsOf(f) /\ marked.jobs = a.jobs /\ marked.marks = Kept(a, rows) \cup {row.id}
  BY <1>1, <1>2, <1>4 DEF AppsOf
<1>8. CASE Declined(a, rows, row)
  <2> DEFINE b == [a EXCEPT !.marks = Kept(a, rows)]
  <2>1. b \in AppsOf(f) /\ b.jobs = a.jobs /\ b.marks = Kept(a, rows)
    BY <1>1, <1>4 DEF AppsOf
  <2>2. ResolveEntry(a, rows, row, play, stamp) = b
    BY <1>8 DEF ResolveEntry
  <2> HIDE DEF b
  <2> QED
    BY <2>1, <2>2, <1>5, SilentIsSteady
<1>9. CASE ~Declined(a, rows, row) /\ row.link \in a.cached
  <2>1. Steady(f, rows, run, res, marked)
    <3> HIDE DEF marked
    <3> QED
      BY <1>5, <1>7, SilentIsSteady
  <2>2. ResolveEntry(a, rows, row, play, stamp) = ApplyResolved(marked, action, row.id, row.link)
    BY <1>9 DEF ResolveEntry
  <2> HIDE DEF marked, action, job
  <2>3. Steady(f, rows, run, res, ApplyResolved(marked, job.action, job.row, job.link))
    BY <1>6, <2>1, ApplyResolvedIsSteady
  <2> QED
    BY <1>6, <2>2, <2>3
<1>10. CASE ~Declined(a, rows, row) /\ row.link \notin a.cached
  <2> DEFINE b == Send(marked, job)
  <2>1. ResolveEntry(a, rows, row, play, stamp) = b
    BY <1>10 DEF ResolveEntry
  <2>2. Append(a.jobs, job) \in Seq(JobsOf(f))
    <3> HIDE DEF job
    <3> QED
      BY <1>1, <1>6, AppendProperties DEF AppsOf
  <2>3. /\ b \in AppsOf(f)
        /\ b.jobs = Append(a.jobs, job)
        /\ b.marks = Kept(a, rows) \cup {row.id}
    <3> HIDE DEF job, marked
    <3> QED
      BY <1>2, <1>6, <1>7, <2>2 DEF Send, AppsOf
  <2>4. row.id \notin a.marks
    BY <1>3, <1>5, <1>10 DEF Declined
  <2>5. \A id \in a.marks : IsLink(rows, id) => id \in b.marks
    BY <1>5, <2>3
  <2>6. row.id \in b.marks
    BY <2>3
  <2> HIDE DEF b, job, marked
  <2>7. CASE play
    <3>1. PlaysRow(job, row.id)
      BY <1>6, <2>7 DEF PlaysRow
    <3> QED
      BY <1>3, <1>6, <2>1, <2>3, <2>4, <2>5, <2>6, <3>1, PlayIsSteady
  <2>8. CASE ~play
    <3>1. job.action # "ReplaceAndPlay"
      BY <1>6, <2>8
    <3> HIDE DEF action
    <3> QED
      BY <1>6, <2>1, <2>3, <2>5, <3>1, RequestIsSteady
  <2> QED
    BY <2>7, <2>8
<1> QED
  BY <1>8, <1>9, <1>10

\* The commands and the jobs of a look ahead, one per row, name their rows.
LEMMA SwapsAreCommands ==
  ASSUME NEW n \in Nat, NEW f \in [1 .. n -> Links],
         NEW S \in SUBSET RowsOf(f), IsFiniteSet(S)
  PROVE  SetToSeq({Command("swap", r.id, r.link) : r \in S}) \in Seq(CommandsOf(f))
<1> DEFINE T == {Command("swap", r.id, r.link) : r \in S}
           g == [r \in S |-> Command("swap", r.id, r.link)]
<1>1. g \in Surjection(S, T)
  BY DEF Surjection
<1>2. IsFiniteSet(T)
  <2> HIDE DEF g, T
  <2> QED
    BY <1>1, FS_Surjection
<1>3. T \subseteq CommandsOf(f)
  BY DEF Command, CommandsOf, RowsOf
<1> HIDE DEF T
<1>4. SetToSeq(T) \in Seq(T)
  BY <1>2, SequenceOfSet
<1>5. SetToSeq(T) \in Seq(CommandsOf(f))
  BY <1>3, <1>4, SeqMonotonic
<1> QED
  BY <1>5 DEF T

LEMMA WarmsAreJobs ==
  ASSUME NEW n \in Nat, NEW f \in [1 .. n -> Links],
         NEW S \in SUBSET RowsOf(f), IsFiniteSet(S)
  PROVE  LET q == SetToSeq({Job(r.link, "ReplaceInPlace", r.id, 0) : r \in S})
         IN  q \in Seq(JobsOf(f)) /\ \A i \in DOMAIN q : q[i].action # "ReplaceAndPlay"
<1> DEFINE T == {Job(r.link, "ReplaceInPlace", r.id, 0) : r \in S}
           g == [r \in S |-> Job(r.link, "ReplaceInPlace", r.id, 0)]
           q == SetToSeq(T)
<1>1. g \in Surjection(S, T)
  BY DEF Surjection
<1>2. IsFiniteSet(T)
  <2> HIDE DEF g, T
  <2> QED
    BY <1>1, FS_Surjection
<1>3. T \subseteq JobsOf(f) /\ \A j \in T : j.action # "ReplaceAndPlay"
  BY DEF Job, JobsOf, RowsOf, Actions
<1> HIDE DEF T
<1>4. q \in Seq(T)
  BY <1>2, SequenceOfSet
<1> HIDE DEF q
<1>5. q \in Seq(JobsOf(f))
  BY <1>3, <1>4, SeqMonotonic
<1>6. \A i \in DOMAIN q : q[i] \in T
  BY <1>4, LenProperties, ElementOfSeq
<1> QED
  BY <1>3, <1>5, <1>6 DEF q, T

\* The look ahead plays nothing.
LEMMA WarmNextIsSteady ==
  ASSUME NEW n \in Nat, NEW f \in [1 .. n -> Links],
         NEW rows \in SUBSET RowsOf(f), IsFiniteSet(rows), NEW run, NEW res, NEW a,
         NEW current, Steady(f, rows, run, res, a)
  PROVE  Steady(f, rows, run, res, WarmNext(a, rows, current))
<1> DEFINE remembered == a.warmed \cap {r.link : r \in rows}
           ahead == {r \in rows \ RowOf(rows, current) :
                       r.kind = "link" /\ r.link \notin remembered}
           c == [a EXCEPT !.warmed = remembered \cup {r.link : r \in ahead}]
           swaps == SetToSeq({Command("swap", r.id, r.link) : r \in Ready(c, ahead)})
           warms == SetToSeq({Job(r.link, "ReplaceInPlace", r.id, 0) : r \in Unresolved(c, ahead)})
           b == WarmRows(c, ahead)
<1>1. a \in AppsOf(f)
  BY DEF Steady
<1>2. ahead \in SUBSET RowsOf(f) /\ IsFiniteSet(ahead)
  BY FS_Subset
<1>3. remembered \cup {r.link : r \in ahead} \in SUBSET Links
  BY <1>1, <1>2 DEF AppsOf, RowsOf
<1>4. c \in AppsOf(f) /\ c.jobs = a.jobs /\ c.marks = a.marks
  <2> HIDE DEF remembered, ahead
  <2> QED
    BY <1>1, <1>3 DEF AppsOf
<1> HIDE DEF c, ahead, remembered
<1>5. /\ Ready(c, ahead) \in SUBSET RowsOf(f) /\ IsFiniteSet(Ready(c, ahead))
      /\ Unresolved(c, ahead) \in SUBSET RowsOf(f) /\ IsFiniteSet(Unresolved(c, ahead))
  BY <1>2, FS_Subset DEF Ready, Unresolved
<1>6. swaps \in Seq(CommandsOf(f))
  BY <1>5, SwapsAreCommands
<1>7. warms \in Seq(JobsOf(f)) /\ \A i \in DOMAIN warms : warms[i].action # "ReplaceAndPlay"
  BY <1>5, WarmsAreJobs
<1>8. {r.link : r \in Unresolved(c, ahead)} \in SUBSET Links
  BY <1>5 DEF RowsOf
<1>9. /\ b = [c EXCEPT !.commands = @ \o swaps,
                       !.parsing = @ \cup {r.link : r \in Unresolved(c, ahead)},
                       !.jobs = @ \o warms]
  BY DEF WarmRows
<1> HIDE DEF b, swaps, warms
<1>10. /\ c.commands \o swaps \in Seq(CommandsOf(f))
       /\ c.jobs \o warms \in Seq(JobsOf(f))
  BY <1>4, <1>6, <1>7, ConcatProperties DEF AppsOf
<1>11. b \in AppsOf(f) /\ b.jobs = a.jobs \o warms /\ b.marks = a.marks
  BY <1>4, <1>8, <1>9, <1>10 DEF AppsOf
<1>12. Steady(f, rows, run, res, b)
  BY <1>7, <1>11, WarmingIsSteady
<1>13. WarmNext(a, rows, current) = IF RowOf(rows, current) = {} THEN a ELSE b
  BY DEF WarmNext, b, c, ahead, remembered
<1> QED
  BY <1>12, <1>13

----------------------------------------------------------------------------
(* A job goes through the pool.                                            *)

\* A worker takes the first job, and runs it or drops it.
LEMMA TakenIsSteady ==
  ASSUME NEW f, NEW rows, NEW run \in [Workers -> JobsOf(f) \cup {None}], NEW res, NEW a,
         Steady(f, rows, run, res, a), a.jobs # <<>>,
         NEW w \in Workers, run[w] = None, NEW x \in {None, Head(a.jobs)}
  PROVE  /\ [run EXCEPT ![w] = x] \in [Workers -> JobsOf(f) \cup {None}]
         /\ Steady(f, rows, [run EXCEPT ![w] = x], res, [a EXCEPT !.jobs = Tail(@)])
<1> DEFINE s == a.jobs  t == Tail(s)  b == [a EXCEPT !.jobs = Tail(@)]  n == Len(s)
           went == [run EXCEPT ![w] = x]
<1>1. a \in AppsOf(f) /\ s \in Seq(JobsOf(f)) /\ s # <<>>
  BY DEF Steady, AppsOf
<1>2. /\ Head(s) \in JobsOf(f) /\ Head(s) = s[1] /\ t \in Seq(JobsOf(f))
      /\ Len(t) = n - 1
      /\ \A i \in 1 .. Len(t) : t[i] = s[i + 1]
  BY <1>1, HeadTailProperties
<1>3. n \in Nat /\ n # 0 /\ DOMAIN s = 1 .. n /\ DOMAIN t = 1 .. n - 1
  BY <1>1, <1>2, LenProperties, EmptySeq
<1>4. b \in AppsOf(f) /\ b.jobs = t /\ b.marks = a.marks
  <2> HIDE DEF s, t
  <2>1. b = [a EXCEPT !.jobs = t]
    BY <1>1 DEF s, t, AppsOf
  <2> QED
    BY <1>1, <1>2, <2>1 DEF AppsOf
<1>5. went \in [Workers -> JobsOf(f) \cup {None}]
  BY <1>2
<1>6. /\ went[w] = x
      /\ \A v \in Workers : v # w => went[v] = run[v]
  OBVIOUS
<1>7. \A i \in DOMAIN t : i + 1 \in DOMAIN s /\ i + 1 # 1 /\ t[i] = s[i + 1]
  <2> HIDE DEF s, t, n
  <2> QED
    BY <1>2, <1>3
<1>8. 1 \in DOMAIN s
  <2> HIDE DEF s, n
  <2> QED
    BY <1>3
<1> HIDE DEF went, b, t
<1>9. \A id : Sent(b, id) => \E i \in DOMAIN s : i # 1 /\ PlaysRow(s[i], id)
  BY <1>4, <1>7 DEF Sent
<1>10. \A id : Ran(went, id) => Ran(run, id) \/ PlaysRow(s[1], id)
  BY <1>2, <1>6 DEF Ran, Runs
<1>11. \A id : \A i, j \in DOMAIN s : PlaysRow(s[i], id) /\ PlaysRow(s[j], id) => i = j
  BY DEF Steady, Once
<1>12. \A id : Sent(b, id) => Sent(a, id) /\ ~PlaysRow(s[1], id)
  BY <1>8, <1>9, <1>11 DEF Sent
<1>13. \A id : Ran(went, id) => Ran(run, id) \/ Sent(a, id)
  BY <1>8, <1>10 DEF Sent
<1>14. Marked(b, rows, went, res)
  BY <1>4, <1>12, <1>13 DEF Steady, Marked
<1>15. Once(b, went, res)
  <2> SUFFICES ASSUME NEW id
               PROVE  /\ \A i, j \in DOMAIN t : PlaysRow(t[i], id) /\ PlaysRow(t[j], id) => i = j
                      /\ \A u, v \in Workers : Runs(went, u, id) /\ Runs(went, v, id) => u = v
                      /\ \A i, j \in DOMAIN res :
                            PlaysRow(res[i].job, id) /\ PlaysRow(res[j].job, id) => i = j
                      /\ ~(Sent(b, id) /\ Ran(went, id))
                      /\ ~(Sent(b, id) /\ Came(res, id))
                      /\ ~(Ran(went, id) /\ Came(res, id))
    BY <1>4 DEF Once
  <2>1. ~(Sent(a, id) /\ Ran(run, id)) /\ ~(Sent(a, id) /\ Came(res, id))
        /\ ~(Ran(run, id) /\ Came(res, id))
    BY DEF Steady, Once
  <2>2. ASSUME NEW i \in DOMAIN t, NEW j \in DOMAIN t, PlaysRow(t[i], id), PlaysRow(t[j], id)
        PROVE  i = j
    <3>1. i + 1 = j + 1
      BY <1>7, <1>11, <2>2
    <3>2. i \in Nat /\ j \in Nat
      BY <1>3
    <3> QED
      BY <3>1, <3>2
  <2>3. ASSUME NEW u \in Workers, NEW v \in Workers,
               Runs(went, u, id), Runs(went, v, id)
        PROVE  u = v
    <3>1. CASE u # w /\ v # w
      BY <1>6, <2>3, <3>1 DEF Steady, Once, Runs
    <3>2. ASSUME NEW y \in Workers, y # w, Runs(went, y, id), Runs(went, w, id)
          PROVE  FALSE
      <4>1. Ran(run, id)
        BY <1>6, <3>2 DEF Ran, Runs
      <4>2. Sent(a, id)
        BY <1>2, <1>6, <1>8, <3>2 DEF Sent, Runs
      <4> QED
        BY <2>1, <4>1, <4>2
    <3> QED
      BY <2>3, <3>1, <3>2
  <2>4. \A i, j \in DOMAIN res : PlaysRow(res[i].job, id) /\ PlaysRow(res[j].job, id) => i = j
    BY DEF Steady, Once
  <2>5. ~(Sent(b, id) /\ Ran(went, id))
    BY <1>10, <1>12, <2>1
  <2>6. ~(Sent(b, id) /\ Came(res, id)) /\ ~(Ran(went, id) /\ Came(res, id))
    BY <1>12, <1>13, <2>1
  <2>7. \A i, j \in DOMAIN t : PlaysRow(t[i], id) /\ PlaysRow(t[j], id) => i = j
    BY <2>2
  <2>8. \A u, v \in Workers : Runs(went, u, id) /\ Runs(went, v, id) => u = v
    BY <2>3
  <2> QED
    BY <2>4, <2>5, <2>6, <2>7, <2>8, Zenon
<1> QED
  BY <1>4, <1>5, <1>14, <1>15 DEF Steady, went, b

\* A worker hands in its answer.
LEMMA FinishedIsSteady ==
  ASSUME NEW f, NEW rows, NEW run \in [Workers -> JobsOf(f) \cup {None}],
         NEW res \in Seq(ResultsOf(f)), NEW a, Steady(f, rows, run, res, a),
         NEW w \in Workers, run[w] # None, NEW outcome \in Outcomes
  PROVE  LET went == [run EXCEPT ![w] = None]
             came == Append(res, [job |-> run[w], outcome |-> outcome])
         IN  /\ went \in [Workers -> JobsOf(f) \cup {None}]
             /\ came \in Seq(ResultsOf(f))
             /\ Steady(f, rows, went, came, a)
<1> DEFINE x == [job |-> run[w], outcome |-> outcome]  n == Len(res)
           went == [run EXCEPT ![w] = None]  came == Append(res, x)
<1>1. x \in ResultsOf(f) /\ x.job = run[w]
  BY DEF ResultsOf
<1> HIDE DEF x
<1>2. came \in Seq(ResultsOf(f)) /\ Len(came) = n + 1
      /\ (\A i \in 1 .. n : came[i] = res[i]) /\ came[n + 1] = x
  BY <1>1, AppendProperties
<1>3. n \in Nat /\ DOMAIN res = 1 .. n /\ DOMAIN came = 1 .. n + 1
  BY <1>2, LenProperties
<1>4. went \in [Workers -> JobsOf(f) \cup {None}]
      /\ went[w] = None /\ \A v \in Workers : v # w => went[v] = run[v]
  OBVIOUS
<1> HIDE DEF went, came, n
<1>5. n + 1 \in DOMAIN came /\ \A i \in DOMAIN came : i = n + 1 \/ (i \in DOMAIN res /\ came[i] = res[i])
  <2>1. n + 1 \in 1 .. n + 1 /\ \A i \in 1 .. n + 1 : i = n + 1 \/ i \in 1 .. n
    BY <1>3
  <2>2. \A i \in 1 .. n + 1 : i = n + 1 \/ (i \in DOMAIN res /\ came[i] = res[i])
    BY <1>2, <1>3, <2>1
  <2> QED
    BY <1>3, <2>1, <2>2
<1>6. \A id : Ran(went, id) => \E v \in Workers : v # w /\ Runs(run, v, id)
  BY <1>4 DEF Ran, Runs
<1>7. \A id : Came(came, id) => Came(res, id) \/ PlaysRow(run[w], id)
  BY <1>1, <1>2, <1>5 DEF Came
<1>8. \A id : /\ Ran(went, id) => Ran(run, id) /\ ~PlaysRow(run[w], id)
              /\ PlaysRow(run[w], id) => Ran(run, id)
  BY <1>6 DEF Ran, Runs, Steady, Once
<1>9. Marked(a, rows, went, came)
  BY <1>7, <1>8 DEF Steady, Marked
<1>10. Once(a, went, came)
  <2> SUFFICES ASSUME NEW id
               PROVE  /\ \A i, j \in DOMAIN a.jobs :
                            PlaysRow(a.jobs[i], id) /\ PlaysRow(a.jobs[j], id) => i = j
                      /\ \A u, v \in Workers : Runs(went, u, id) /\ Runs(went, v, id) => u = v
                      /\ \A i, j \in DOMAIN came :
                            PlaysRow(came[i].job, id) /\ PlaysRow(came[j].job, id) => i = j
                      /\ ~(Sent(a, id) /\ Ran(went, id))
                      /\ ~(Sent(a, id) /\ Came(came, id))
                      /\ ~(Ran(went, id) /\ Came(came, id))
    BY DEF Once
  <2>1. ~(Sent(a, id) /\ Ran(run, id)) /\ ~(Sent(a, id) /\ Came(res, id))
        /\ ~(Ran(run, id) /\ Came(res, id))
    BY DEF Steady, Once
  <2>2. \A i, j \in DOMAIN a.jobs : PlaysRow(a.jobs[i], id) /\ PlaysRow(a.jobs[j], id) => i = j
    BY DEF Steady, Once
  <2>3. ASSUME NEW u \in Workers, NEW v \in Workers,
               Runs(went, u, id), Runs(went, v, id)
        PROVE  u = v
    <3>1. u # w /\ v # w
      BY <1>4, <2>3 DEF Runs
    <3> QED
      BY <1>4, <2>3, <3>1 DEF Steady, Once, Runs
  <2>4. ASSUME NEW i \in DOMAIN came, NEW j \in DOMAIN came,
               PlaysRow(came[i].job, id), PlaysRow(came[j].job, id)
        PROVE  i = j
    <3>1. CASE i \in DOMAIN res /\ came[i] = res[i] /\ j \in DOMAIN res /\ came[j] = res[j]
      BY <2>4, <3>1 DEF Steady, Once
    <3>2. ASSUME NEW k \in DOMAIN res, came[k] = res[k], PlaysRow(came[k].job, id),
                 PlaysRow(came[n + 1].job, id)
          PROVE  FALSE
      <4>1. Came(res, id)
        BY <3>2 DEF Came
      <4>2. PlaysRow(run[w], id)
        BY <1>1, <1>2, <3>2
      <4> QED
        BY <1>8, <2>1, <4>1, <4>2
    <3> QED
      BY <1>5, <2>4, <3>1, <3>2
  <2>5. \A u, v \in Workers : Runs(went, u, id) /\ Runs(went, v, id) => u = v
    BY <2>3
  <2>6. \A i, j \in DOMAIN came : PlaysRow(came[i].job, id) /\ PlaysRow(came[j].job, id) => i = j
    BY <2>4
  <2>7. /\ ~(Sent(a, id) /\ Ran(went, id))
        /\ ~(Sent(a, id) /\ Came(came, id))
        /\ ~(Ran(went, id) /\ Came(came, id))
    BY <1>7, <1>8, <2>1
  <2> QED
    BY <2>2, <2>5, <2>6, <2>7, Zenon
<1> QED
  BY <1>2, <1>4, <1>9, <1>10 DEF Steady, went, came, x

\* The event loop takes the first answer.
LEMMA LandedIsSteady ==
  ASSUME NEW f, NEW rows, NEW run, NEW res \in Seq(ResultsOf(f)), res # <<>>, NEW a,
         Steady(f, rows, run, res, a)
  PROVE  Tail(res) \in Seq(ResultsOf(f)) /\ Steady(f, rows, run, Tail(res), a)
<1> DEFINE t == Tail(res)
<1>1. t \in Seq(ResultsOf(f)) /\ Len(t) = Len(res) - 1
      /\ \A i \in 1 .. Len(t) : t[i] = res[i + 1]
  BY HeadTailProperties
<1>2. Len(res) \in Nat /\ Len(res) # 0 /\ DOMAIN res = 1 .. Len(res) /\ DOMAIN t = 1 .. Len(t)
  BY <1>1, LenProperties, EmptySeq
<1> HIDE DEF t
<1>3. \A i \in DOMAIN t : i \in Nat /\ i + 1 \in DOMAIN res /\ t[i] = res[i + 1]
  BY <1>1, <1>2
<1>4. \A id : Came(t, id) => Came(res, id)
  BY <1>3 DEF Came
<1>5. ASSUME NEW id, NEW i \in DOMAIN t, NEW j \in DOMAIN t,
             PlaysRow(t[i].job, id), PlaysRow(t[j].job, id)
      PROVE  i = j
  <2>1. i + 1 = j + 1
    BY <1>3, <1>5 DEF Steady, Once
  <2> QED
    BY <1>3, <2>1
<1>6. Once(a, run, t)
  BY <1>4, <1>5 DEF Steady, Once
<1>7. Marked(a, rows, run, t)
  BY <1>4 DEF Steady, Marked
<1> QED
  BY <1>1, <1>6, <1>7 DEF Steady, t

----------------------------------------------------------------------------
(* The steps keep the invariant.                                           *)

LEMMA InitInv == Init => Inv
<1> SUFFICES ASSUME Init PROVE Inv
  OBVIOUS
<1> DEFINE n == Cardinality(RowLinks)
<1>1. n \in Nat
  BY PlayConstants, FS_CardinalityType
<1>2. PICK ids \in [RowLinks -> 1 .. n] :
        /\ \A k, l \in RowLinks : ids[k] = ids[l] => k = l
        /\ queue = {[id |-> ids[l], link |-> l, kind |-> "link"] : l \in RowLinks}
  BY DEF Init
<1>3. /\ nextId = n + 1 /\ shown = queue /\ playing = 0 /\ generation = 0 /\ landed = 0
      /\ running = [w \in Workers |-> None] /\ results = <<>>
      /\ client = None
  BY DEF Init
<1>4. /\ app \in [marks : {{}}, parsing : {{}}, warmed : {{}}, step : {0},
                  cached : SUBSET RowLinks, jobs : {<<>>}, commands : {<<>>}]
  BY DEF Init
<1> HIDE DEF n, Init
<1> DEFINE linkOf == [i \in 1 .. n |-> IF \E l \in RowLinks : ids[l] = i
                                       THEN CHOOSE l \in RowLinks : ids[l] = i
                                       ELSE CHOOSE l \in Links : TRUE]
<1>5. \A l \in RowLinks : linkOf[ids[l]] = l
  BY <1>2
<1>6. IsFiniteSet(queue)
  <2> DEFINE g == [l \in RowLinks |-> [id |-> ids[l], link |-> l, kind |-> "link"]]
  <2>1. g \in Surjection(RowLinks, queue)
    BY <1>2 DEF Surjection
  <2> HIDE DEF g
  <2> QED
    BY <2>1, PlayConstants, FS_Surjection
<1>7. nextId \in Nat \ {0} /\ 1 .. nextId - 1 = 1 .. n
  BY <1>1, <1>3
<1>8. RowLinks # {} => linkOf \in [1 .. n -> Links]
  BY DEF Links
<1>9. RowLinks = {} => n = 0
  BY FS_EmptySet DEF n
<1>10. linkOf \in [1 .. n -> Links]
  <2>1. CASE RowLinks # {}
    BY <2>1, <1>8
  <2>2. CASE RowLinks = {}
    <3>1. 1 .. n = {}
      BY <2>2, <1>9
    <3> QED
      BY <3>1
  <2> QED
    BY <2>1, <2>2
<1>11. queue \in SUBSET RowsOf(linkOf)
  <2> SUFFICES ASSUME NEW l \in RowLinks
               PROVE  [id |-> ids[l], link |-> l, kind |-> "link"] \in RowsOf(linkOf)
    BY <1>2
  <2> QED
    BY <1>2, <1>5, <1>10 DEF RowsOf, Links
<1> HIDE DEF linkOf
<1>12. app \in AppsOf(linkOf) /\ app.jobs = <<>>
  <2>1. <<>> \in Seq(JobsOf(linkOf)) /\ <<>> \in Seq(CommandsOf(linkOf))
    BY EmptySeq
  <2>2. PICK cached \in SUBSET RowLinks :
          app = [marks |-> {}, parsing |-> {}, warmed |-> {}, step |-> 0,
                 cached |-> cached, jobs |-> <<>>, commands |-> <<>>]
    BY <1>4
  <2>3. cached \in SUBSET Links
    BY DEF Links
  <2> QED
    BY <2>1, <2>2, <2>3 DEF AppsOf
<1>13. Names(linkOf)
  <2>1. results \in Seq(ResultsOf(linkOf))
    BY <1>3, EmptySeq
  <2> QED
    BY <1>3, <1>11, <1>12, <2>1 DEF Names
<1>14. Typed
  BY <1>3, <1>6, <1>7, <1>10, <1>13 DEF Typed
<1>15. Clock /\ LinksAreShown
  BY <1>3 DEF Clock, LinksAreShown
<1>16. FirstLinksOnce
  BY <1>2, <1>3 DEF FirstLinksOnce, Alone, SwapHolds
<1>17. \A id : ~Sent(app, id) /\ ~Ran(running, id) /\ ~Came(results, id)
  BY <1>3, <1>12 DEF Sent, Ran, Came, Runs
<1>18. Marked(app, shown, running, results)
  BY <1>17 DEF Marked
<1>19. Once(app, running, results)
  BY <1>3, <1>12, <1>17 DEF Once, Runs
<1> QED
  BY <1>14, <1>15, <1>16, <1>18, <1>19 DEF Inv

\* A step that changes the app, and no row, job or answer outside it.
LEMMA AppOnly ==
  ASSUME Inv, UNCHANGED <<mpd, shown, running, results>>,
         playing' \in Nat, generation' \in Nat, landed' \in Nat, landed' <= generation',
         NEW f \in [1 .. nextId - 1 -> Links], Names(f),
         Steady(f, shown, running, results, app')
  PROVE  Inv'
<1>1. Names(f)'
  BY DEF Names, Steady, mpd
<1>2. Typed'
  BY <1>1 DEF Inv, Typed, mpd
<1>3. Clock' /\ FirstLinksOnce' /\ LinksAreShown'
  BY DEF Inv, Clock, FirstLinksOnce, LinksAreShown, mpd
<1>4. Marked(app', shown', running', results') /\ Once(app', running', results')
  BY DEF Steady
<1> QED
  BY <1>2, <1>3, <1>4 DEF Inv

\* What a step starts from.
LEMMA FromInv ==
  ASSUME Inv
  PROVE  /\ nextId \in Nat \ {0} /\ nextId - 1 \in Nat
         /\ IsFiniteSet(queue) /\ IsFiniteSet(shown)
         /\ playing \in Nat /\ generation \in Nat /\ landed \in Nat /\ landed <= generation
         /\ \E f \in [1 .. nextId - 1 -> Links] :
              Names(f) /\ Steady(f, shown, running, results, app)
BY DEF Inv, Typed, Clock, Names, Steady

LEMMA PlayRowKeepsInv ==
  ASSUME Inv, NEW row \in shown, PlayRow(row)
  PROVE  Inv'
<1>1. PICK f \in [1 .. nextId - 1 -> Links] :
        Names(f) /\ Steady(f, shown, running, results, app)
  BY FromInv
<1>2. /\ shown \in SUBSET RowsOf(f) /\ IsLink(shown, row.id) /\ generation' \in Nat
      /\ generation' >= generation /\ generation' = generation + 1
      /\ app' = ResolveEntry(app, shown, row, TRUE, generation')
      /\ UNCHANGED <<mpd, shown, running, results, playing, landed>>
  BY <1>1, FromInv DEF Names, IsLink, PlayRow
<1>3. Steady(f, shown, running, results, app')
  BY <1>1, <1>2, FromInv, ResolveEntryIsSteady
<1>4. playing' \in Nat /\ landed' \in Nat /\ landed' <= generation'
  BY <1>2, FromInv
<1> QED
  BY <1>1, <1>2, <1>3, <1>4, AppOnly

\* Forgetting the step is no play.
LEMMA NoStepIsSteady ==
  ASSUME NEW f, NEW rows, NEW run, NEW res, NEW a, Steady(f, rows, run, res, a),
         NEW step \in Nat
  PROVE  Steady(f, rows, run, res, [a EXCEPT !.step = step])
<1>1. {} \in SUBSET Links
  OBVIOUS
<1> QED
  BY <1>1, NotesAreSteady

LEMMA StepToKeepsInv ==
  ASSUME Inv, NEW row \in shown, StepTo(row)
  PROVE  Inv'
<1>1. PICK f \in [1 .. nextId - 1 -> Links] :
        Names(f) /\ Steady(f, shown, running, results, app)
  BY FromInv
<1>2. shown \in SUBSET RowsOf(f) /\ row \in RowsOf(f) /\ row.id \in Nat
      /\ row.kind \in {"link", "stream"}
  BY <1>1 DEF Names, RowsOf
<1>3. UNCHANGED <<mpd, shown, running, results, playing, landed>>
  BY DEF StepTo
<1>4. Steady(f, shown, running, results, app') /\ generation' \in Nat /\ generation' >= generation
  <2>1. CASE row.kind = "stream" \/ row.id = playing
    <3>1. app' = [app EXCEPT !.step = 0] /\ generation' = generation
      BY <2>1 DEF StepTo
    <3>2. Steady(f, shown, running, results, [app EXCEPT !.step = 0])
      BY <1>1, NoStepIsSteady
    <3> QED
      BY <3>1, <3>2 DEF Inv, Typed
  <2>2. CASE ~(row.kind = "stream" \/ row.id = playing)
    <3>1. /\ generation' = generation + 1
          /\ app' = IF Declined(app, shown, row)
                    THEN [ResolveEntry(app, shown, row, TRUE, generation') EXCEPT !.step = 0]
                    ELSE ResolveEntry([app EXCEPT !.step = row.id], shown, row, TRUE, generation')
      BY <2>2 DEF StepTo
    <3>2. generation' \in Nat /\ generation' >= generation
      BY <3>1, FromInv
    <3>3. IsLink(shown, row.id)
      BY <1>2, <2>2 DEF IsLink
    <3>4. ASSUME NEW a, Steady(f, shown, running, results, a)
          PROVE  Steady(f, shown, running, results, ResolveEntry(a, shown, row, TRUE, generation'))
      BY <1>2, <3>2, <3>3, <3>4, FromInv, ResolveEntryIsSteady
    <3>5. Steady(f, shown, running, results,
                 [ResolveEntry(app, shown, row, TRUE, generation') EXCEPT !.step = 0])
      BY <1>1, <3>4, NoStepIsSteady
    <3>6. Steady(f, shown, running, results,
                 ResolveEntry([app EXCEPT !.step = row.id], shown, row, TRUE, generation'))
      BY <1>1, <1>2, <3>4, NoStepIsSteady
    <3> QED
      BY <3>1, <3>2, <3>5, <3>6
  <2> QED
    BY <2>1, <2>2
<1>5. playing' \in Nat /\ landed' \in Nat /\ landed' <= generation'
  BY <1>3, <1>4, FromInv
<1> QED
  BY <1>1, <1>3, <1>4, <1>5, AppOnly

\* A play of an entry or a video names no row.
LEMMA SentIsSteady ==
  ASSUME NEW f, NEW rows, NEW run, NEW res, NEW a, Steady(f, rows, run, res, a),
         NEW link \in Entries, NEW action \in {"AddAfterCurrentAndPlay", "PlayVideo"},
         NEW stamp \in Nat
  PROVE  Steady(f, rows, run, res, [a EXCEPT !.jobs = Append(@, Job(link, action, 0, stamp))])
<1> DEFINE j == Job(link, action, 0, stamp)  b == [a EXCEPT !.jobs = Append(@, j)]
<1>1. j \in JobsOf(f) /\ j.action # "ReplaceAndPlay"
  BY DEF Job, JobsOf, Links, Actions
<1>2. a \in AppsOf(f)
  BY DEF Steady
<1> HIDE DEF j
<1>3. Append(a.jobs, j) \in Seq(JobsOf(f))
  BY <1>1, <1>2, AppendProperties DEF AppsOf
<1>4. b \in AppsOf(f) /\ b.jobs = Append(a.jobs, j) /\ b.marks = a.marks
  BY <1>2, <1>3 DEF AppsOf
<1> HIDE DEF b
<1>5. Steady(f, rows, run, res, b)
  BY <1>1, <1>4, RequestIsSteady
<1> QED
  BY <1>5 DEF b, j

LEMMA OpenEntryKeepsInv ==
  ASSUME Inv, NEW entry \in Entries, OpenEntry(entry)
  PROVE  Inv'
<1>1. PICK f \in [1 .. nextId - 1 -> Links] :
        Names(f) /\ Steady(f, shown, running, results, app)
  BY FromInv
<1>2. /\ UNCHANGED <<mpd, shown, running, results, playing, landed>>
      /\ generation' = generation + 1
      /\ app' = [app EXCEPT !.jobs = Append(@, Job(entry, "AddAfterCurrentAndPlay", 0, generation'))]
  BY DEF OpenEntry, PlayStored
<1>3. /\ playing' \in Nat /\ generation' \in Nat /\ landed' \in Nat /\ landed' <= generation'
  BY <1>2, FromInv
<1>4. Steady(f, shown, running, results, app')
  BY <1>1, <1>2, <1>3, SentIsSteady
<1> QED
  BY <1>1, <1>2, <1>3, <1>4, AppOnly

LEMMA MoveHighlightKeepsInv ==
  ASSUME Inv, NEW entry \in Entries \cup {Elsewhere}, MoveHighlight(entry)
  PROVE  Inv'
<1>1. PICK f \in [1 .. nextId - 1 -> Links] :
        Names(f) /\ Steady(f, shown, running, results, app)
  BY FromInv
<1>2. UNCHANGED <<mpd, shown, running, results, playing, landed>>
  BY DEF MoveHighlight
<1>3. Steady(f, shown, running, results, app') /\ generation' \in Nat /\ generation' >= generation
  <2>1. CASE entry = Elsewhere
    BY <1>1, <2>1, FromInv DEF MoveHighlight
  <2>2. CASE entry # Elsewhere
    <3>1. /\ generation' = generation + 2
          /\ app' = [app EXCEPT !.jobs =
                       Append(@, Job(entry, "AddAfterCurrentAndPlay", 0, generation'))]
      BY <2>2 DEF MoveHighlight, PlayStored
    <3>2. generation' \in Nat /\ generation' >= generation /\ entry \in Entries
      BY <2>2, <3>1, FromInv
    <3> QED
      BY <1>1, <3>1, <3>2, SentIsSteady
  <2> QED
    BY <2>1, <2>2
<1>4. playing' \in Nat /\ landed' \in Nat /\ landed' <= generation'
  BY <1>2, <1>3, FromInv
<1> QED
  BY <1>1, <1>2, <1>3, <1>4, AppOnly

LEMMA PlayVideoKeepsInv ==
  ASSUME Inv, NEW link \in Entries, PlayVideo(link)
  PROVE  Inv'
<1>1. PICK f \in [1 .. nextId - 1 -> Links] :
        Names(f) /\ Steady(f, shown, running, results, app)
  BY FromInv
<1>2. /\ UNCHANGED <<mpd, shown, running, results, playing, landed>>
      /\ generation' = generation + 1
      /\ app' = [app EXCEPT !.jobs = Append(@, Job(link, "PlayVideo", 0, generation'))]
  BY DEF PlayVideo
<1>3. /\ playing' \in Nat /\ generation' \in Nat /\ landed' \in Nat /\ landed' <= generation'
  BY <1>2, FromInv
<1>4. Steady(f, shown, running, results, app')
  BY <1>1, <1>2, <1>3, SentIsSteady
<1> QED
  BY <1>1, <1>2, <1>3, <1>4, AppOnly

LEMMA ClearQueueKeepsInv ==
  ASSUME Inv, ClearQueue
  PROVE  Inv'
<1>1. PICK f \in [1 .. nextId - 1 -> Links] :
        Names(f) /\ Steady(f, shown, running, results, app)
  BY FromInv
<1>2. /\ UNCHANGED <<mpd, shown, running, results, playing, landed, generation>>
      /\ app' = Ask(app, Command("clear", 0, None))
  BY DEF ClearQueue
<1>3. Command("clear", 0, None) \in CommandsOf(f)
  BY DEF Command, CommandsOf
<1>4. Steady(f, shown, running, results, app')
  BY <1>1, <1>2, <1>3, AskIsSteady
<1>5. /\ playing' \in Nat /\ generation' \in Nat /\ landed' \in Nat /\ landed' <= generation'
  BY <1>2, FromInv
<1> QED
  BY <1>1, <1>2, <1>4, <1>5, AppOnly

\* Changing the parse marks is no play.
LEMMA ParsingIsSteady ==
  ASSUME NEW f, NEW rows, NEW run, NEW res, NEW a, Steady(f, rows, run, res, a), NEW link
  PROVE  Steady(f, rows, run, res, [a EXCEPT !.parsing = @ \ {link}])
<1>1. a \in AppsOf(f)
  BY DEF Steady
<1>2. a.parsing \ {link} \in SUBSET Links
      /\ [a EXCEPT !.parsing = @ \ {link}] = [a EXCEPT !.parsing = a.parsing \ {link}]
  BY <1>1 DEF AppsOf
<1>3. {} \in SUBSET Links /\ 0 \in Nat
  OBVIOUS
<1>4. Steady(f, rows, run, res, [a EXCEPT !.parsing = a.parsing \ {link}])
  BY <1>2, <1>3, NotesAreSteady
<1> QED
  BY <1>2, <1>4

LEMMA ParseMarkExpiresKeepsInv ==
  ASSUME Inv, NEW link, ParseMarkExpires(link)
  PROVE  Inv'
<1>1. PICK f \in [1 .. nextId - 1 -> Links] :
        Names(f) /\ Steady(f, shown, running, results, app)
  BY FromInv
<1>2. /\ UNCHANGED <<mpd, shown, running, results, playing, landed, generation>>
      /\ app' = [app EXCEPT !.parsing = @ \ {link}]
  BY DEF ParseMarkExpires
<1>3. Steady(f, shown, running, results, app')
  BY <1>1, <1>2, ParsingIsSteady
<1>4. /\ playing' \in Nat /\ generation' \in Nat /\ landed' \in Nat /\ landed' <= generation'
  BY <1>2, FromInv
<1> QED
  BY <1>1, <1>2, <1>3, <1>4, AppOnly

\* A status recovers a row, resolves the current one and looks ahead.
LEMMA StatusArrivesKeepsInv ==
  ASSUME Inv, NEW current \in {0} \cup {r.id : r \in queue},
         NEW failed \in {{}} \cup {{r} : r \in shown}, StatusArrives(current, failed)
  PROVE  Inv'
<1>1. PICK f \in [1 .. nextId - 1 -> Links] :
        Names(f) /\ Steady(f, shown, running, results, app)
  BY FromInv
<1> DEFINE recovered == IF failed = {} THEN app
                        ELSE RecoverRow(app, current, CHOOSE r \in failed : TRUE)
           resolved == ResolveCurrent(recovered, current)
<1>2. /\ UNCHANGED <<mpd, shown, running, results, landed, generation>>
      /\ playing' = current
      /\ app' = WarmNext(resolved, shown, current)
  BY DEF StatusArrives
<1>3. shown \in SUBSET RowsOf(f) /\ queue \in SUBSET RowsOf(f) /\ current \in Nat
  BY <1>1 DEF Names, RowsOf
<1>4. Steady(f, shown, running, results, recovered)
  <2>1. CASE failed = {}
    BY <1>1, <2>1
  <2>2. CASE failed # {}
    <3>1. PICK r \in shown : failed = {r} /\ r.kind = "link"
      BY <2>2 DEF StatusArrives
    <3>2. (CHOOSE x \in failed : TRUE) = r
      BY <3>1
    <3>3. recovered = ResolveEntry(app, shown, r, current \in {0, r.id}, 0)
      BY <2>2, <3>2 DEF RecoverRow
    <3>4. IsLink(shown, r.id) /\ (current \in {0, r.id}) \in BOOLEAN
      BY <3>1 DEF IsLink
    <3> HIDE DEF recovered
    <3>5. Steady(f, shown, running, results, ResolveEntry(app, shown, r, current \in {0, r.id}, 0))
      BY <1>1, <1>3, <3>4, FromInv, ResolveEntryIsSteady
    <3> QED
      BY <3>3, <3>5
  <2> QED
    BY <2>1, <2>2
<1> HIDE DEF recovered
<1>5. Steady(f, shown, running, results, resolved)
  <2>1. CASE ~IsLink(shown, current)
    BY <1>4, <2>1 DEF ResolveCurrent
  <2>2. CASE IsLink(shown, current)
    <3> DEFINE r == CHOOSE x \in RowOf(shown, current) : TRUE
    <3>1. r \in shown /\ r.id = current
      BY <2>2 DEF RowOf, IsLink
    <3>2. resolved = ResolveEntry(recovered, shown, r, TRUE, 0)
      BY <2>2 DEF ResolveCurrent
    <3> HIDE DEF r
    <3>3. Steady(f, shown, running, results, ResolveEntry(recovered, shown, r, TRUE, 0))
      BY <1>3, <1>4, <2>2, <3>1, FromInv, ResolveEntryIsSteady
    <3> QED
      BY <3>2, <3>3
  <2> QED
    BY <2>1, <2>2
<1> HIDE DEF resolved
<1>6. Steady(f, shown, running, results, app')
  BY <1>2, <1>3, <1>5, FromInv, WarmNextIsSteady
<1>7. /\ playing' \in Nat /\ generation' \in Nat /\ landed' \in Nat /\ landed' <= generation'
  BY <1>2, <1>3, FromInv
<1> QED
  BY <1>1, <1>2, <1>6, <1>7, AppOnly

\* A step that moves jobs and answers, and no row.
LEMMA JobsOnly ==
  ASSUME Inv, UNCHANGED <<mpd, shown, playing, generation>>,
         landed' \in Nat, landed' <= generation',
         NEW f \in [1 .. nextId - 1 -> Links], Names(f),
         running' \in [Workers -> JobsOf(f) \cup {None}], results' \in Seq(ResultsOf(f)),
         Steady(f, shown, running', results', app')
  PROVE  Inv'
<1>1. Names(f)'
  BY DEF Names, Steady, mpd
<1>2. Typed'
  BY <1>1 DEF Inv, Typed, mpd
<1>3. Clock' /\ FirstLinksOnce' /\ LinksAreShown'
  BY DEF Inv, Clock, FirstLinksOnce, LinksAreShown, mpd
<1>4. Marked(app', shown', running', results') /\ Once(app', running', results')
  BY DEF Steady
<1> QED
  BY <1>2, <1>3, <1>4 DEF Inv

LEMMA TakeJobKeepsInv ==
  ASSUME Inv, NEW w \in Workers, TakeJob(w)
  PROVE  Inv'
<1>1. PICK f \in [1 .. nextId - 1 -> Links] :
        Names(f) /\ Steady(f, shown, running, results, app)
  BY FromInv
<1>2. PICK x \in {None, Head(app.jobs)} : running' = [running EXCEPT ![w] = x]
  BY DEF TakeJob
<1>3. /\ UNCHANGED <<mpd, shown, playing, generation, results, landed>>
      /\ running[w] = None /\ app.jobs # <<>>
      /\ app' = [app EXCEPT !.jobs = Tail(@)]
  BY DEF TakeJob
<1>4. running \in [Workers -> JobsOf(f) \cup {None}] /\ results' \in Seq(ResultsOf(f))
  BY <1>1, <1>3 DEF Names
<1>5. /\ running' \in [Workers -> JobsOf(f) \cup {None}]
      /\ Steady(f, shown, running', results, app')
  BY <1>1, <1>2, <1>3, <1>4, TakenIsSteady
<1>6. landed' \in Nat /\ landed' <= generation'
  BY <1>3, FromInv
<1> QED
  BY <1>1, <1>3, <1>4, <1>5, <1>6, JobsOnly

LEMMA FinishJobKeepsInv ==
  ASSUME Inv, NEW w \in Workers, NEW outcome \in Outcomes, FinishJob(w, outcome)
  PROVE  Inv'
<1>1. PICK f \in [1 .. nextId - 1 -> Links] :
        Names(f) /\ Steady(f, shown, running, results, app)
  BY FromInv
<1>2. /\ UNCHANGED <<mpd, shown, playing, generation, app, landed>>
      /\ running[w] # None
      /\ running' = [running EXCEPT ![w] = None]
      /\ results' = Append(results, [job |-> running[w], outcome |-> outcome])
  BY DEF FinishJob
<1>3. running \in [Workers -> JobsOf(f) \cup {None}] /\ results \in Seq(ResultsOf(f))
  BY <1>1 DEF Names
<1>4. /\ running' \in [Workers -> JobsOf(f) \cup {None}]
      /\ results' \in Seq(ResultsOf(f))
      /\ Steady(f, shown, running', results', app')
  BY <1>1, <1>2, <1>3, FinishedIsSteady
<1>5. landed' \in Nat /\ landed' <= generation'
  BY <1>2, FromInv
<1> QED
  BY <1>1, <1>2, <1>4, <1>5, JobsOnly

LEMMA DropIsSteady ==
  ASSUME NEW n \in Nat, NEW f \in [1 .. n -> Links], NEW rows, NEW run, NEW res, NEW a,
         NEW j \in JobsOf(f), NEW outcome, Steady(f, rows, run, res, a)
  PROVE  Steady(f, rows, run, res, DropUnresolvable(a, j, outcome))
<1> DEFINE step == IF j.action = "ReplaceAndPlay" /\ a.step = j.row THEN 0 ELSE a.step
           waiting == [a EXCEPT !.step = step]
<1>1. a \in AppsOf(f)
  BY DEF Steady
<1>2. step \in Nat
  BY <1>1 DEF AppsOf
<1>3. waiting = [a EXCEPT !.step = IF j.action = "ReplaceAndPlay" /\ @ = j.row THEN 0 ELSE @]
  BY <1>1 DEF AppsOf
<1> HIDE DEF step
<1>4. Steady(f, rows, run, res, waiting)
  BY <1>2, NoStepIsSteady
<1> HIDE DEF waiting
<1>5. Command("delete", j.row, None) \in CommandsOf(f)
  BY DEF Command, CommandsOf, JobsOf
<1>6. Steady(f, rows, run, res, Ask(waiting, Command("delete", j.row, None)))
  BY <1>4, <1>5, AskIsSteady
<1>7. DropUnresolvable(a, j, outcome) \in {waiting, Ask(waiting, Command("delete", j.row, None))}
  BY <1>3 DEF DropUnresolvable
<1> QED
  BY <1>4, <1>6, <1>7

LEMMA LandResultKeepsInv ==
  ASSUME Inv, LandResult
  PROVE  Inv'
<1>1. PICK f \in [1 .. nextId - 1 -> Links] :
        Names(f) /\ Steady(f, shown, running, results, app)
  BY FromInv
<1> DEFINE job == Head(results).job
           outcome == Head(results).outcome
           settled == [app EXCEPT !.parsing = @ \ {job.link}]
<1>2. /\ UNCHANGED <<mpd, shown, playing, generation, running>>
      /\ results # <<>> /\ results' = Tail(results)
  BY DEF LandResult
<1>3. \/ app' = settled /\ landed' = landed
      \/ /\ app' = ApplyResolved(settled, job.action, job.row, job.link)
         /\ landed' \in {landed, generation}
      \/ app' = DropUnresolvable(settled, job, outcome) /\ landed' = landed
  BY DEF LandResult, Superseded
<1>4. results \in Seq(ResultsOf(f)) /\ running \in [Workers -> JobsOf(f) \cup {None}]
  BY <1>1 DEF Names
<1>5. job \in JobsOf(f)
  <2>1. Head(results) \in ResultsOf(f)
    BY <1>2, <1>4, HeadTailProperties
  <2> QED
    BY <2>1 DEF ResultsOf
<1>6. results' \in Seq(ResultsOf(f)) /\ Steady(f, shown, running, results', app)
  BY <1>1, <1>2, <1>4, LandedIsSteady
<1>7. Steady(f, shown, running, results', settled)
  BY <1>6, ParsingIsSteady
<1> HIDE DEF job, outcome, settled
<1>8. /\ Steady(f, shown, running, results', ApplyResolved(settled, job.action, job.row, job.link))
      /\ Steady(f, shown, running, results', DropUnresolvable(settled, job, outcome))
  BY <1>5, <1>7, FromInv, ApplyResolvedIsSteady, DropIsSteady
<1>9. landed' \in Nat /\ landed' <= generation'
  BY <1>2, <1>3, FromInv
<1>10. Steady(f, shown, running', results', app')
  BY <1>2, <1>3, <1>7, <1>8
<1> QED
  BY <1>1, <1>2, <1>4, <1>6, <1>9, <1>10, JobsOnly

\* The rows shown change; the rows of the queue that are links were shown.
LEMMA QueueArrivesKeepsInv ==
  ASSUME Inv, QueueArrives
  PROVE  Inv'
<1>1. PICK f \in [1 .. nextId - 1 -> Links] :
        Names(f) /\ Steady(f, shown, running, results, app)
  BY FromInv
<1> DEFINE a == IF queue = {} THEN [app EXCEPT !.marks = {}, !.parsing = {}] ELSE app
<1>2. /\ UNCHANGED <<mpd, playing, generation, running, results, landed>>
      /\ shown' = queue
      /\ app' = WarmNext(a, queue, playing)
  BY DEF QueueArrives
<1>3. queue \in SUBSET RowsOf(f) /\ app \in AppsOf(f)
  BY <1>1 DEF Names
<1>4. \A id : IsLink(queue, id) => IsLink(shown, id)
  BY DEF Inv, LinksAreShown, IsLink
<1>5. Steady(f, queue, running, results, app)
  BY <1>1, <1>4 DEF Steady, Marked
<1>6. Steady(f, queue, running, results, a)
  <2>1. CASE queue = {}
    <3>1. a \in AppsOf(f) /\ a.jobs = app.jobs
      BY <1>3, <2>1 DEF AppsOf
    <3>2. \A id : ~IsLink(queue, id)
      BY <2>1 DEF IsLink
    <3> HIDE DEF a
    <3> QED
      BY <1>5, <3>1, <3>2, SilentIsSteady
  <2>2. CASE queue # {}
    BY <1>5, <2>2
  <2> QED
    BY <2>1, <2>2
<1> HIDE DEF a
<1>7. Steady(f, queue, running, results, app')
  BY <1>2, <1>3, <1>6, FromInv, WarmNextIsSteady
<1>8. Names(f)'
  BY <1>1, <1>2, <1>7 DEF Names, Steady, mpd
<1>9. Typed'
  BY <1>2, <1>8 DEF Inv, Typed, mpd
<1>10. Clock' /\ FirstLinksOnce' /\ LinksAreShown'
  BY <1>2 DEF Inv, Clock, FirstLinksOnce, LinksAreShown, mpd
<1>11. Marked(app', shown', running', results') /\ Once(app', running', results')
  BY <1>2, <1>7 DEF Steady
<1> QED
  BY <1>9, <1>10, <1>11 DEF Inv

----------------------------------------------------------------------------
(* A command reaches MPD, which may give an id to a row.                   *)

\* What was named before an id is given is named after.
LEMMA NamesGrow ==
  ASSUME NEW m \in Nat, NEW n \in Nat, m <= n,
         NEW f \in [1 .. m -> Links], NEW g \in [1 .. n -> Links],
         \A i \in 1 .. m : g[i] = f[i]
  PROVE  /\ RowsOf(f) \subseteq RowsOf(g)
         /\ JobsOf(f) \subseteq JobsOf(g)
         /\ CommandsOf(f) \subseteq CommandsOf(g)
         /\ ResultsOf(f) \subseteq ResultsOf(g)
         /\ AppsOf(f) \subseteq AppsOf(g)
         /\ SwapsOf(f) \subseteq SwapsOf(g)
<1>1. /\ 1 .. m \subseteq 1 .. n /\ 0 \notin 1 .. m
  OBVIOUS
<1>2. DOMAIN f = 1 .. m /\ DOMAIN g = 1 .. n
  OBVIOUS
<1>3. RowsOf(f) \subseteq RowsOf(g)
  BY <1>1, <1>2 DEF RowsOf
<1>4. JobsOf(f) \subseteq JobsOf(g)
  BY <1>1, <1>2 DEF JobsOf
<1>5. CommandsOf(f) \subseteq CommandsOf(g)
  BY <1>1, <1>2 DEF CommandsOf
<1>6. ResultsOf(f) \subseteq ResultsOf(g)
  BY <1>4 DEF ResultsOf
<1>7. Seq(JobsOf(f)) \subseteq Seq(JobsOf(g)) /\ Seq(CommandsOf(f)) \subseteq Seq(CommandsOf(g))
  BY <1>4, <1>5, SeqMonotonic
<1>8. AppsOf(f) \subseteq AppsOf(g)
  BY <1>7 DEF AppsOf
<1>9. SwapsOf(f) \subseteq SwapsOf(g)
  BY <1>1, <1>2 DEF SwapsOf
<1> QED
  BY <1>3, <1>4, <1>5, <1>6, <1>8, <1>9

\* What a step of the client thread leaves alone.
Settled == <<shown, playing, generation, running, results, landed>>

\* A step that takes rows away, and no more.
LEMMA FewerRows ==
  ASSUME Inv, UNCHANGED <<Settled, nextId>>, queue' \in SUBSET queue,
         NEW f \in [1 .. nextId - 1 -> Links], Names(f),
         client' # None => client' \in SwapsOf(f),
         app' \in AppsOf(f), app'.jobs = app.jobs, app'.marks = app.marks,
         FirstLinksOnce'
  PROVE  Inv'
<1>1. Steady(f, shown, running, results, app)
  BY DEF Inv, Names, Steady
<1>2. Steady(f, shown, running, results, app')
  BY <1>1, SilentIsSteady
<1>3. Names(f)'
  BY DEF Names, Settled
<1>4. IsFiniteSet(queue')
  BY FromInv, FS_Subset
<1>5. Typed'
  BY <1>3, <1>4 DEF Inv, Typed, Settled
<1>6. Clock' /\ LinksAreShown'
  BY DEF Inv, Clock, LinksAreShown, Settled
<1>7. Marked(app', shown', running', results') /\ Once(app', running', results')
  BY <1>2 DEF Steady, Settled
<1> QED
  BY <1>5, <1>6, <1>7 DEF Inv

\* A step that adds a row, with a new id.
LEMMA OneMoreRow ==
  ASSUME Inv, UNCHANGED Settled, NEW link \in Links, Add(link),
         NEW f \in [1 .. nextId - 1 -> Links], Names(f), client' = None,
         app' \in AppsOf(f), app'.jobs = app.jobs, app'.marks = app.marks,
         FirstLinksOnce'
  PROVE  Inv'
<1> DEFINE m == nextId - 1  n == nextId
           new == Added(link)
<1>1. Steady(f, shown, running, results, app)
  BY DEF Inv, Names, Steady
<1>2. Steady(f, shown, running, results, app')
  BY <1>1, SilentIsSteady
<1>3. /\ nextId \in Nat \ {0} /\ nextId' = nextId + 1 /\ queue' = queue \cup {new}
      /\ new = [id |-> nextId, link |-> link, kind |-> "stream"]
  BY FromInv DEF Add, Added
<1>4. /\ m \in Nat /\ n \in Nat /\ m <= n /\ n \notin 1 .. m /\ n \in 1 .. n
      /\ \A i \in 1 .. m : i \in 1 .. n
      /\ 1 .. nextId' - 1 = 1 .. n
  BY <1>3
<1>5. f \in [1 .. m -> Links]
  OBVIOUS
<1> HIDE DEF m, n, new
<1>6. PICK g \in [1 .. n -> Links] : (\A i \in 1 .. m : g[i] = f[i]) /\ g[n] = link
  <2> DEFINE h == [i \in 1 .. n |-> IF i \in 1 .. m THEN f[i] ELSE link]
  <2>1. h \in [1 .. n -> Links] /\ (\A i \in 1 .. m : h[i] = f[i]) /\ h[n] = link
    BY <1>4, <1>5
  <2> QED
    BY <2>1
<1>7. /\ RowsOf(f) \subseteq RowsOf(g)
      /\ JobsOf(f) \subseteq JobsOf(g)
      /\ ResultsOf(f) \subseteq ResultsOf(g)
      /\ AppsOf(f) \subseteq AppsOf(g)
  BY <1>4, <1>5, <1>6, NamesGrow
<1>8. new \in RowsOf(g)
  BY <1>3, <1>4, <1>6 DEF RowsOf, n
<1>9. Names(g)'
  <2>1. /\ queue' \in SUBSET RowsOf(g) /\ shown' \in SUBSET RowsOf(g) /\ app' \in AppsOf(g)
        /\ running' \in [Workers -> JobsOf(g) \cup {None}]
    BY <1>3, <1>7, <1>8 DEF Names, Settled
  <2>2. results' \in Seq(ResultsOf(g))
    BY <1>7, SeqMonotonic DEF Names, Settled
  <2> QED
    BY <2>1, <2>2 DEF Names
<1>10. IsFiniteSet(queue')
  BY <1>3, FromInv, FS_AddElement
<1>11. \E h \in [1 .. nextId' - 1 -> Links] : Names(h)'
  BY <1>4, <1>6, <1>9
<1>12. nextId' \in Nat \ {0}
  BY <1>3
<1>13. Typed'
  BY <1>10, <1>11, <1>12, FromInv DEF Typed, Settled
<1>14. Clock' /\ LinksAreShown'
  BY <1>3 DEF Inv, Clock, LinksAreShown, Settled
<1>15. Marked(app', shown', running', results') /\ Once(app', running', results')
  BY <1>2 DEF Steady, Settled
<1> QED
  BY <1>13, <1>14, <1>15 DEF Inv

\* What the links of the queue may do.
LinksOnlyLeave ==
    /\ Linked(queue', client') \cap Kempt(strays') \subseteq Linked(queue, client)
    /\ Alone(queue', Kempt(strays'))

\* The first command is taken off.
LEMMA TakesIsSteady ==
  ASSUME NEW f, Names(f), NEW kinds, Takes(kinds)
  PROVE  /\ Head(app.commands) \in CommandsOf(f)
         /\ app' \in AppsOf(f) /\ app'.jobs = app.jobs /\ app'.marks = app.marks
<1>1. app \in AppsOf(f) /\ app.commands \in Seq(CommandsOf(f)) /\ app.commands # <<>>
  BY DEF Names, AppsOf, Takes
<1>2. Head(app.commands) \in CommandsOf(f) /\ Tail(app.commands) \in Seq(CommandsOf(f))
  BY <1>1, HeadTailProperties
<1>3. app' = [app EXCEPT !.commands = Tail(app.commands)]
  BY <1>1 DEF Takes, AppsOf
<1> QED
  BY <1>1, <1>2, <1>3 DEF AppsOf

LEMMA StartSwapKeepsInv ==
  ASSUME Inv, NEW ok, StartSwap(ok), UNCHANGED Settled
  PROVE  Inv' /\ LinksOnlyLeave
<1>1. PICK f \in [1 .. nextId - 1 -> Links] :
        Names(f) /\ Steady(f, shown, running, results, app)
  BY FromInv
<1> DEFINE c == Head(app.commands)
<1>2. /\ Takes({"replace", "swap"}) /\ c.do \in {"replace", "swap"} /\ client = None
      /\ UNCHANGED <<queue, nextId, strays>>
      /\ client' = IF ok /\ Present(c.row) THEN [row |-> c.row, link |-> c.link, at |-> "delete"]
                   ELSE None
  BY DEF StartSwap, Takes
<1>3. /\ c \in CommandsOf(f)
      /\ app' \in AppsOf(f) /\ app'.jobs = app.jobs /\ app'.marks = app.marks
  BY <1>1, <1>2, TakesIsSteady
<1> HIDE DEF c
<1>4. client' # None => client' \in SwapsOf(f)
  BY <1>2, <1>3 DEF CommandsOf, SwapsOf, Links
<1>5. FirstLinksOnce'
  <2>1. SwapHolds(queue', client', Kempt(strays'))
    BY <1>2 DEF SwapHolds, Present, RowOf
  <2> QED
    BY <1>2, <2>1 DEF Inv, FirstLinksOnce
<1>6. Inv'
  BY <1>1, <1>2, <1>3, <1>4, <1>5, FewerRows
<1>7. LinksOnlyLeave
  BY <1>2, <1>5 DEF LinksOnlyLeave, FirstLinksOnce, Linked
<1> QED
  BY <1>6, <1>7

LEMMA DeleteRowKeepsInv ==
  ASSUME Inv, NEW ok, DeleteRow(ok), UNCHANGED Settled
  PROVE  Inv' /\ LinksOnlyLeave
<1>1. PICK f \in [1 .. nextId - 1 -> Links] :
        Names(f) /\ Steady(f, shown, running, results, app)
  BY FromInv
<1>2. /\ client # None /\ client.at = "delete"
      /\ queue' = IF ok THEN queue \ RowOf(queue, client.row) ELSE queue
      /\ strays' = IF ok THEN strays ELSE strays \cup {client.link}
      /\ client' = [client EXCEPT !.at = "add"]
      /\ UNCHANGED <<nextId, app>>
  BY DEF DeleteRow
<1>3. queue \in SUBSET RowsOf(f) /\ client \in SwapsOf(f) /\ app \in AppsOf(f)
  BY <1>1, <1>2 DEF Names
<1>4. /\ client' \in SwapsOf(f) /\ client'.at = "add"
      /\ client'.row = client.row /\ client'.link = client.link
  BY <1>2, <1>3 DEF SwapsOf
<1>5. queue' \in SUBSET queue /\ Kempt(strays') \subseteq Kempt(strays)
  BY <1>2 DEF Kempt
<1>6. Alone(queue', Kempt(strays'))
  BY <1>5 DEF Inv, FirstLinksOnce, Alone
\* The row that is deleted is the only one with the link.
<1>7. ASSUME client.link \in Kempt(strays')
      PROVE  /\ \E r \in queue : r.link = client.link
             /\ \A r \in queue' : r.link # client.link
  <2>1. ok /\ client.link \in Kempt(strays)
    BY <1>2, <1>5, <1>7 DEF Kempt
  <2>2. PICK r \in queue : r.id = client.row
    BY <1>2, <2>1 DEF Inv, FirstLinksOnce, SwapHolds
  <2>3. r.link = client.link
    BY <1>3, <2>2 DEF RowsOf, SwapsOf
  <2>4. ASSUME NEW s \in queue', s.link = client.link
        PROVE  FALSE
    <3>1. s \in queue /\ s.id # client.row
      BY <1>2, <2>1, <2>4 DEF RowOf
    <3>2. s = r
      BY <2>1, <2>3, <2>4, <3>1 DEF Inv, FirstLinksOnce, Alone
    <3> QED
      BY <2>2, <3>1, <3>2
  <2> QED
    BY <2>3, <2>4
<1>8. SwapHolds(queue', client', Kempt(strays'))
  BY <1>4, <1>7 DEF SwapHolds
<1>9. FirstLinksOnce'
  BY <1>6, <1>8 DEF FirstLinksOnce
<1>10. app' \in AppsOf(f) /\ app'.jobs = app.jobs /\ app'.marks = app.marks
  BY <1>2, <1>3
<1>11. Inv'
  BY <1>1, <1>2, <1>4, <1>5, <1>9, <1>10, FewerRows
<1>12. Linked(queue', client') \cap Kempt(strays') \subseteq Linked(queue, client)
  BY <1>4, <1>5, <1>7 DEF Linked
<1> QED
  BY <1>6, <1>11, <1>12 DEF LinksOnlyLeave

LEMMA AddRowKeepsInv ==
  ASSUME Inv, NEW ok, AddRow(ok), UNCHANGED Settled
  PROVE  Inv' /\ LinksOnlyLeave
<1>1. PICK f \in [1 .. nextId - 1 -> Links] :
        Names(f) /\ Steady(f, shown, running, results, app)
  BY FromInv
<1>2. /\ client # None /\ client.at = "add" /\ client' = None
      /\ UNCHANGED <<strays, app>>
      /\ IF ok THEN Add(client.link) ELSE UNCHANGED <<queue, nextId>>
  BY DEF AddRow
<1>3. client \in SwapsOf(f) /\ app \in AppsOf(f)
  BY <1>1, <1>2 DEF Names
<1>4. client.link \in Links
  BY <1>3 DEF SwapsOf
<1>5. app' \in AppsOf(f) /\ app'.jobs = app.jobs /\ app'.marks = app.marks
  BY <1>2, <1>3
<1>6. SwapHolds(queue', client', Kempt(strays'))
  BY <1>2 DEF SwapHolds
<1>7. CASE ok
  <2>1. /\ Add(client.link)
        /\ queue' = queue \cup {Added(client.link)} /\ Added(client.link).link = client.link
    BY <1>2, <1>7 DEF Add, Added
  <2>2. client.link \in Kempt(strays) => \A r \in queue : r.link # client.link
    BY <1>2 DEF Inv, FirstLinksOnce, SwapHolds
  <2>3. Alone(queue', Kempt(strays'))
    BY <1>2, <2>1, <2>2 DEF Inv, FirstLinksOnce, Alone
  <2>4. FirstLinksOnce'
    BY <1>6, <2>3 DEF FirstLinksOnce
  <2>5. Inv'
    BY <1>1, <1>2, <1>4, <1>5, <2>1, <2>4, OneMoreRow
  <2>6. Linked(queue', client') \subseteq Linked(queue, client)
    BY <1>2, <2>1 DEF Linked
  <2> QED
    BY <2>3, <2>5, <2>6 DEF LinksOnlyLeave
<1>8. CASE ~ok
  <2>1. UNCHANGED <<queue, nextId>>
    BY <1>2, <1>8
  <2>2. Alone(queue', Kempt(strays'))
    BY <1>2, <2>1 DEF Inv, FirstLinksOnce
  <2>3. FirstLinksOnce'
    BY <1>6, <2>2 DEF FirstLinksOnce
  <2>4. Inv'
    BY <1>1, <1>2, <1>5, <2>1, <2>3, FewerRows
  <2>5. Linked(queue', client') \subseteq Linked(queue, client)
    BY <1>2, <2>1 DEF Linked
  <2> QED
    BY <2>2, <2>4, <2>5 DEF LinksOnlyLeave
<1> QED
  BY <1>7, <1>8

LEMMA OneCallKeepsInv ==
  ASSUME Inv, NEW ok, OneCall(ok), UNCHANGED Settled
  PROVE  Inv' /\ LinksOnlyLeave
<1>1. PICK f \in [1 .. nextId - 1 -> Links] :
        Names(f) /\ Steady(f, shown, running, results, app)
  BY FromInv
<1> DEFINE c == Head(app.commands)
<1>2. /\ Takes({"insert", "delete", "clear"}) /\ client = None
      /\ UNCHANGED <<client, strays>>
      /\ \/ c.do = "insert" /\ Add(c.link)
         \/ queue' \in SUBSET queue /\ UNCHANGED nextId
  BY DEF OneCall, Takes
<1>3. /\ c \in CommandsOf(f)
      /\ app' \in AppsOf(f) /\ app'.jobs = app.jobs /\ app'.marks = app.marks
  BY <1>1, <1>2, TakesIsSteady
<1> HIDE DEF c
<1>4. SwapHolds(queue', client', Kempt(strays'))
  BY <1>2 DEF SwapHolds
<1>5. CASE c.do = "insert" /\ Add(c.link)
  <2>1. c.link \in Entries
    BY <1>3, <1>5 DEF CommandsOf
  <2>2. c.link \in Links /\ c.link \notin RowLinks
    BY <2>1, PlayConstants DEF Links
  <2>3. queue' = queue \cup {Added(c.link)} /\ Added(c.link).link = c.link
    BY <1>5 DEF Add, Added
  <2>4. Alone(queue', Kempt(strays'))
    BY <1>2, <2>2, <2>3 DEF Inv, FirstLinksOnce, Alone, Kempt
  <2>5. FirstLinksOnce'
    BY <1>4, <2>4 DEF FirstLinksOnce
  <2>6. Inv'
    BY <1>1, <1>2, <1>3, <1>5, <2>2, <2>5, OneMoreRow
  <2>7. Linked(queue', client') \cap Kempt(strays') \subseteq Linked(queue, client)
    BY <1>2, <2>2, <2>3 DEF Linked, Kempt
  <2> QED
    BY <2>4, <2>6, <2>7 DEF LinksOnlyLeave
<1>6. CASE queue' \in SUBSET queue /\ UNCHANGED nextId
  <2>1. Alone(queue', Kempt(strays'))
    BY <1>2, <1>6 DEF Inv, FirstLinksOnce, Alone
  <2>2. FirstLinksOnce'
    BY <1>4, <2>1 DEF FirstLinksOnce
  <2>3. Inv'
    BY <1>1, <1>2, <1>3, <1>6, <2>2, FewerRows
  <2>4. Linked(queue', client') \subseteq Linked(queue, client)
    BY <1>2, <1>6 DEF Linked
  <2> QED
    BY <2>1, <2>3, <2>4 DEF LinksOnlyLeave
<1> QED
  BY <1>2, <1>5, <1>6

LEMMA RunCommandKeepsInv ==
  ASSUME Inv, RunCommand
  PROVE  Inv' /\ LinksOnlyLeave
<1>1. PICK ok \in BOOLEAN : StartSwap(ok) \/ DeleteRow(ok) \/ AddRow(ok) \/ OneCall(ok)
  BY DEF RunCommand
<1>2. UNCHANGED Settled
  BY DEF RunCommand, Settled
<1> QED
  BY <1>1, <1>2, StartSwapKeepsInv, DeleteRowKeepsInv, AddRowKeepsInv, OneCallKeepsInv

LEMMA OthersRemoveKeepsInv ==
  ASSUME Inv, NEW row \in queue, OthersRemove(row)
  PROVE  Inv' /\ LinksOnlyLeave
<1>1. PICK f \in [1 .. nextId - 1 -> Links] :
        Names(f) /\ Steady(f, shown, running, results, app)
  BY FromInv
<1>2. /\ queue' = queue \ {row} /\ UNCHANGED <<nextId, client, app>> /\ UNCHANGED Settled
      /\ strays' = IF client # None /\ client.at = "delete" /\ client.row = row.id
                   THEN strays \cup {row.link} ELSE strays
  BY DEF OthersRemove, Settled
<1>3. /\ queue \in SUBSET RowsOf(f) /\ app \in AppsOf(f)
      /\ client # None => client \in SwapsOf(f)
  BY <1>1 DEF Names
<1>4. queue' \in SUBSET queue /\ Kempt(strays') \subseteq Kempt(strays)
  BY <1>2 DEF Kempt
<1>5. Alone(queue', Kempt(strays'))
  BY <1>4 DEF Inv, FirstLinksOnce, Alone
<1>6. SwapHolds(queue', client', Kempt(strays'))
  <2> SUFFICES ASSUME client # None, client.link \in Kempt(strays')
               PROVE  /\ client.at = "delete" => \E r \in queue' : r.id = client.row
                      /\ client.at = "add" => \A r \in queue' : r.link # client.link
    BY <1>2 DEF SwapHolds
  <2>1. client.link \in Kempt(strays)
    BY <1>4
  <2>2. ASSUME client.at = "delete" PROVE \E r \in queue' : r.id = client.row
    <3>1. PICK r \in queue : r.id = client.row
      BY <2>1, <2>2 DEF Inv, FirstLinksOnce, SwapHolds
    <3>2. r.link = client.link
      BY <1>3, <3>1 DEF RowsOf, SwapsOf
    <3>3. r # row
      BY <1>2, <2>2, <3>1, <3>2 DEF Kempt
    <3> QED
      BY <1>2, <3>1, <3>3
  <2>3. ASSUME client.at = "add" PROVE \A r \in queue' : r.link # client.link
    BY <1>4, <2>1, <2>3 DEF Inv, FirstLinksOnce, SwapHolds
  <2> QED
    BY <2>2, <2>3
<1>7. FirstLinksOnce'
  BY <1>5, <1>6 DEF FirstLinksOnce
<1>8. Inv'
  BY <1>1, <1>2, <1>3, <1>4, <1>7, FewerRows
<1>9. Linked(queue', client') \subseteq Linked(queue, client)
  BY <1>2, <1>4 DEF Linked
<1> QED
  BY <1>5, <1>8, <1>9 DEF LinksOnlyLeave

----------------------------------------------------------------------------
(* Theorems.                                                               *)

LEMMA NextInv == Inv /\ [Next]_vars => Inv'
<1> SUFFICES ASSUME Inv, [Next]_vars PROVE Inv'
  OBVIOUS
<1>1. ASSUME NEW row \in shown, PlayRow(row) PROVE Inv'
  BY <1>1, PlayRowKeepsInv
<1>2. ASSUME NEW row \in shown, StepTo(row) PROVE Inv'
  BY <1>2, StepToKeepsInv
<1>3. ASSUME NEW e \in Entries, OpenEntry(e) PROVE Inv'
  BY <1>3, OpenEntryKeepsInv
<1>4. ASSUME NEW e \in Entries \cup {Elsewhere}, MoveHighlight(e) PROVE Inv'
  BY <1>4, MoveHighlightKeepsInv
<1>5. ASSUME NEW l \in Entries, PlayVideo(l) PROVE Inv'
  BY <1>5, PlayVideoKeepsInv
<1>6. CASE ClearQueue
  BY <1>6, ClearQueueKeepsInv
<1>7. ASSUME NEW w \in Workers, TakeJob(w) PROVE Inv'
  BY <1>7, TakeJobKeepsInv
<1>8. ASSUME NEW w \in Workers, NEW o \in Outcomes, FinishJob(w, o) PROVE Inv'
  BY <1>8, FinishJobKeepsInv
<1>9. CASE LandResult
  BY <1>9, LandResultKeepsInv
<1>10. CASE QueueArrives
  BY <1>10, QueueArrivesKeepsInv
<1>11. CASE Reported
  <2>1. PICK current \in {0} \cup {r.id : r \in queue}, failed \in {{}} \cup {{r} : r \in shown} :
          StatusArrives(current, failed)
    BY <1>11 DEF Reported
  <2> QED
    BY <2>1, StatusArrivesKeepsInv
<1>12. ASSUME NEW l \in Links, ParseMarkExpires(l) PROVE Inv'
  BY <1>12, ParseMarkExpiresKeepsInv
<1>13. CASE RunCommand
  BY <1>13, RunCommandKeepsInv
<1>14. ASSUME NEW row \in queue, OthersRemove(row) PROVE Inv'
  BY <1>14, OthersRemoveKeepsInv
<1>15. CASE UNCHANGED vars
  BY <1>15 DEF vars, mpd, Inv, Typed, Names, Clock, FirstLinksOnce, LinksAreShown, Marked, Once,
               Sent, Ran, Runs, Came, IsLink
<1> QED
  BY <1>1, <1>2, <1>3, <1>4, <1>5, <1>6, <1>7, <1>8, <1>9, <1>10, <1>11, <1>12, <1>13, <1>14, <1>15, PlayConstants
     DEF Next, User, Pool

\* What names a row names a row that MPD had, by its link; the plays of a row
\* are marked, and one at a time.
THEOREM Invariance == Spec => []Inv
<1>1. Init => Inv
  BY InitInv
<1>2. Inv /\ [Next]_vars => Inv'
  BY NextInv
<1> QED
  BY <1>1, <1>2, PTL DEF Spec

\* A set of which all elements are equal has one at most.
LEMMA AtMostOne ==
  ASSUME NEW S, \A x, y \in S : x = y
  PROVE  /\ Cardinality(S) \in {0, 1}
         /\ S = {} => Cardinality(S) = 0
<1>1. CASE S = {}
  BY <1>1, FS_EmptySet
<1>2. CASE S # {}
  <2>1. PICK x : S = {x}
    BY <1>2
  <2> QED
    BY <1>2, <2>1, FS_Singleton
<1> QED
  BY <1>1, <1>2

LEMMA OnceIsOnce == Inv => OneResolvePerRow
<1> SUFFICES ASSUME Inv, NEW id \in Ids
             PROVE  Cardinality({i \in DOMAIN app.jobs : PlaysRow(app.jobs[i], id)})
                    + Cardinality({w \in Workers : running[w] # None /\ PlaysRow(running[w], id)})
                    + Cardinality({i \in DOMAIN results : PlaysRow(results[i].job, id)}) <= 1
  BY DEF OneResolvePerRow, PlaysRow
<1> DEFINE Jobbed == {i \in DOMAIN app.jobs : PlaysRow(app.jobs[i], id)}
           Worked == {w \in Workers : running[w] # None /\ PlaysRow(running[w], id)}
           Answered == {i \in DOMAIN results : PlaysRow(results[i].job, id)}
<1>1. /\ \A x, y \in Jobbed : x = y
      /\ \A x, y \in Worked : x = y
      /\ \A x, y \in Answered : x = y
  BY DEF Inv, Once, Runs
<1>2. /\ Jobbed # {} <=> Sent(app, id)
      /\ Worked # {} <=> Ran(running, id)
      /\ Answered # {} <=> Came(results, id)
  BY DEF Sent, Ran, Runs, Came
<1>3. /\ Jobbed = {} \/ Worked = {}
      /\ Jobbed = {} \/ Answered = {}
      /\ Worked = {} \/ Answered = {}
  BY <1>2 DEF Inv, Once
<1> HIDE DEF Jobbed, Worked, Answered
<1>4. /\ Cardinality(Jobbed) \in {0, 1} /\ (Jobbed = {} => Cardinality(Jobbed) = 0)
      /\ Cardinality(Worked) \in {0, 1} /\ (Worked = {} => Cardinality(Worked) = 0)
      /\ Cardinality(Answered) \in {0, 1} /\ (Answered = {} => Cardinality(Answered) = 0)
  BY <1>1, AtMostOne
<1>5. Cardinality(Jobbed) + Cardinality(Worked) + Cardinality(Answered) <= 1
  BY <1>3, <1>4
<1> QED
  BY <1>5 DEF Jobbed, Worked, Answered

\* The marks keep the play of a row to one resolve at a time, whoever asks.
THEOREM RowsResolveOnce == Spec => []OneResolvePerRow
<1>1. Inv => OneResolvePerRow
  BY OnceIsOnce
<1> QED
  BY <1>1, Invariance, PTL

\* A play never lands after one that was requested later.
THEOREM PlaysLandAsAsked == Spec => PlaysLandInOrder
<1>1. Inv /\ [Next]_vars => [landed' # landed => landed' > landed /\ landed' = generation]_vars
  <2> SUFFICES ASSUME Inv, Next, landed' # landed
               PROVE  landed' > landed /\ landed' = generation
    OBVIOUS
  <2>1. LandResult
    BY DEF Next, User, PlayRow, StepTo, OpenEntry, MoveHighlight, PlayVideo, ClearQueue, Pool,
           TakeJob, FinishJob, QueueArrives, Reported, StatusArrives, ParseMarkExpires, RunCommand,
           OthersRemove
  <2>2. landed' = generation
    BY <2>1 DEF LandResult, Superseded
  <2> QED
    BY <2>2, FromInv
<1> QED
  BY <1>1, Invariance, PTL DEF Spec, PlaysLandInOrder

\* No link comes back to the queue, or is there twice, whatever calls fail and
\* whatever rows others remove; but for a link that a swap left there or found
\* gone when it came to delete its row.
THEOREM LinksLeaveOnly == Spec => NoLinkReturns
<1>1. Inv /\ [Next]_vars =>
        [/\ Linked(queue', client') \cap (RowLinks \ strays') \subseteq Linked(queue, client)
         /\ Alone(queue', RowLinks \ strays')]_vars
  <2> SUFFICES ASSUME Inv, Next PROVE LinksOnlyLeave
    BY DEF LinksOnlyLeave, Kempt
  <2>1. CASE RunCommand
    BY <2>1, RunCommandKeepsInv
  <2>2. ASSUME NEW row \in queue, OthersRemove(row) PROVE LinksOnlyLeave
    BY <2>2, OthersRemoveKeepsInv
  <2>3. CASE UNCHANGED mpd
    BY <2>3 DEF mpd, LinksOnlyLeave, Inv, FirstLinksOnce
  <2>4. RunCommand \/ (\E row \in queue : OthersRemove(row)) \/ UNCHANGED mpd
    BY DEF Next, User, PlayRow, StepTo, OpenEntry, MoveHighlight, PlayVideo, ClearQueue, Pool,
           TakeJob, FinishJob, LandResult, QueueArrives, Reported, StatusArrives, ParseMarkExpires
  <2> QED
    BY <2>1, <2>2, <2>3, <2>4
<1> QED
  BY <1>1, Invariance, PTL DEF Spec, NoLinkReturns
=============================================================================
