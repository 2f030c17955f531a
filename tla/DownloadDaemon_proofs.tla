------------------------ MODULE DownloadDaemon_proofs ------------------------
(***************************************************************************)
(* The rows, the engines and the waits of the downloader daemon, for any   *)
(* torrents, commits, and number of requests and faults.                   *)
(***************************************************************************)
EXTENDS DownloadDaemon, TLAPS

MemoryType ==
    [rows : RowsType, reply : [Ids -> {"none", "url", "error"}], lost : SUBSET Ids]

\* An engine is of a torrent whose infohash is known, and is its only one.
EngineOnce(rs) ==
    \A j, e \in Jobs(rs) :
      rs[j].eng # "none" =>
        /\ rs[j].hash
        /\ rs[e].eng # "none" /\ rs[e].tor = rs[j].tor => e = j

\* A response is pending at one row.
PendOnce(rs) ==
    \A j, e \in Jobs(rs) : \A i \in Ids : i \in rs[j].pend /\ i \in rs[e].pend => e = j

Good(d) == d \in MemoryType /\ EngineOnce(d.rows) /\ PendOnce(d.rows)

Due(rs, i) == \E j \in Jobs(rs) : i \in rs[j].pend

\* What a request can count on once the daemon has taken it.
Held(d, i) == d.reply[i] # "none" \/ i \in d.lost \/ Due(d.rows, i)

\* The operations turn memory d into m, with ids as new pending responses:
\* nobody is forgotten, and no row appears or changes its torrent.
Keeps(d, m, ids) ==
    /\ Good(m)
    /\ \A j \in Jobs(m.rows) : j \in Jobs(d.rows) /\ m.rows[j].tor = d.rows[j].tor
    /\ \A i \in Ids : Held(d, i) \/ i \in ids => Held(m, i)
    /\ \A i \in Ids : Due(m.rows, i) => Due(d.rows, i) \/ i \in ids

\* No row goes either.
KeepsAll(d, m, ids) == Keeps(d, m, ids) /\ Jobs(m.rows) = Jobs(d.rows)

(***************************************************************************)
(* The operations on the daemon's memory                                   *)
(***************************************************************************)
\* A row stays what it is for: no engine appears, and every response is
\* pending or answered.
LEMMA RowChanges ==
    ASSUME NEW d, Good(d), NEW j \in Jobs(d.rows), NEW row \in RowType, NEW m \in MemoryType,
           NEW ids \in SUBSET Ids, \A i \in ids : ~Due(d.rows, i),
           m.rows = [d.rows EXCEPT ![j] = row], m.lost = d.lost,
           row.tor = d.rows[j].tor, d.rows[j].hash => row.hash,
           row.eng # "none" => d.rows[j].eng # "none",
           row.pend \subseteq d.rows[j].pend \cup ids,
           \A i \in Ids : \/ m.reply[i] # "none"
                          \/ /\ m.reply[i] = d.reply[i]
                             /\ i \in d.rows[j].pend \cup ids => i \in row.pend
    PROVE  KeepsAll(d, m, ids)
<1>1. /\ d.rows \in RowsType /\ j \in Ids /\ row # None
      /\ m.rows[j] = row /\ \A e \in Ids \ {j} : m.rows[e] = d.rows[e]
  BY ConstantsAssumption DEF Good, MemoryType, Jobs, RowsType
<1>2. Jobs(m.rows) = Jobs(d.rows)
  BY <1>1 DEF Jobs
<1>3. Good(m)
  <2>1. EngineOnce(m.rows)
    BY <1>1, <1>2 DEF Good, EngineOnce, Jobs
  <2>2. PendOnce(m.rows)
    BY <1>1, <1>2 DEF Good, PendOnce, Jobs, Due
  <2> QED
    BY <2>1, <2>2 DEF Good
<1>4. \A e \in Jobs(m.rows) : m.rows[e].tor = d.rows[e].tor
  BY <1>1 DEF Jobs
<1>5. ASSUME NEW i \in Ids, Held(d, i) \/ i \in ids PROVE Held(m, i)
  BY <1>1, <1>2, <1>5 DEF Held, Due, Jobs
<1>6. ASSUME NEW i \in Ids, Due(m.rows, i) PROVE Due(d.rows, i) \/ i \in ids
  BY <1>1, <1>2, <1>6 DEF Due, Jobs
<1> QED
  BY <1>2, <1>3, <1>4, <1>5, <1>6 DEF KeepsAll, Keeps

\* An answer is queued at a row, or given.
LEMMA AnswerOrQueueKeeps ==
    ASSUME NEW d, Good(d), NEW j \in Jobs(d.rows), NEW ids \in SUBSET Ids,
           \A i \in ids : ~Due(d.rows, i)
    PROVE  KeepsAll(d, AnswerOrQueue(d, j, ids), ids)
<1> DEFINE m == AnswerOrQueue(d, j, ids)
<1>1. d \in MemoryType /\ j \in Ids /\ d.rows[j] \in RowType
  BY DEF Good, MemoryType, Jobs, RowsType
<1>2. CASE EngineReady(d.rows[j])
  <2>1. /\ m.rows = d.rows /\ m.lost = d.lost /\ m \in MemoryType
        /\ m.reply = [i \in Ids |-> IF i \in ids THEN "url" ELSE d.reply[i]]
    BY <1>1, <1>2 DEF AnswerOrQueue, Answer, MemoryType
  <2>2. Good(m) /\ Jobs(m.rows) = Jobs(d.rows)
    BY <2>1 DEF Good
  <2>3. \A i \in Ids : Held(d, i) \/ i \in ids => Held(m, i)
    BY <2>1 DEF Held
  <2> QED
    BY <2>1, <2>2, <2>3 DEF KeepsAll, Keeps
<1>3. CASE ~EngineReady(d.rows[j])
  <2> DEFINE row == [d.rows[j] EXCEPT !.pend = @ \cup ids]
  <2>1. row \in RowType /\ row.pend = d.rows[j].pend \cup ids
        /\ row.tor = d.rows[j].tor /\ row.hash = d.rows[j].hash /\ row.eng = d.rows[j].eng
    BY <1>1 DEF RowType
  <2>2. m.rows = [d.rows EXCEPT ![j] = row] /\ m.lost = d.lost /\ m.reply = d.reply
    BY <1>1, <1>3 DEF AnswerOrQueue, MemoryType
  <2>3. m \in MemoryType
    BY <1>1, <1>3, <2>1 DEF AnswerOrQueue, MemoryType, RowsType
  <2> HIDE DEF row, m
  <2> QED
    BY <2>1, <2>2, <2>3, RowChanges DEF m
<1> QED
  BY <1>2, <1>3

\* An operation that does nothing keeps everything.
LEMMA KeepsReflexive == ASSUME NEW d, Good(d) PROVE KeepsAll(d, d, {})
  BY DEF KeepsAll, Keeps

\* Two operations in a row keep what both keep.
LEMMA KeepsThen ==
    ASSUME NEW d, NEW m, NEW n, NEW ids \in SUBSET Ids, NEW more \in SUBSET Ids,
           Keeps(d, m, ids), Keeps(m, n, more)
    PROVE  Keeps(d, n, ids \cup more)
  BY DEF Keeps

\* A row is merged with what is asked for it again.
LEMMA MergeEnqueueKeeps ==
    ASSUME NEW d, Good(d), NEW j \in Jobs(d.rows), NEW hashed \in BOOLEAN,
           NEW ids \in SUBSET Ids, \A i \in ids : ~Due(d.rows, i)
    PROVE  KeepsAll(d, MergeEnqueue(d, j, hashed, ids), ids)
<1> DEFINE row == [d.rows[j] EXCEPT !.hash = @ \/ hashed, !.eng = IF @ = "done" THEN "live" ELSE @]
           kept == IF Active(row) THEN row ELSE StartAdd(row)
           n == [d EXCEPT !.rows[j] = kept]
<1>1. d \in MemoryType /\ j \in Ids /\ d.rows[j] \in RowType
  BY DEF Good, MemoryType, Jobs, RowsType
<1>2. /\ row \in RowType /\ row.pend = d.rows[j].pend /\ row.tor = d.rows[j].tor
      /\ (d.rows[j].hash => row.hash) /\ (row.eng # "none" => d.rows[j].eng # "none")
  BY <1>1 DEF RowType
<1>3. /\ kept \in RowType /\ kept.pend = d.rows[j].pend /\ kept.tor = d.rows[j].tor
      /\ (d.rows[j].hash => kept.hash) /\ (kept.eng # "none" => d.rows[j].eng # "none")
  <2> HIDE DEF row
  <2> QED
    BY <1>2 DEF StartAdd, RowType
<1>4. MergeEnqueue(d, j, hashed, ids) = AnswerOrQueue(n, j, ids)
  BY DEF MergeEnqueue
<1>5. KeepsAll(d, n, {})
  <2> HIDE DEF kept
  <2>1. n.rows = [d.rows EXCEPT ![j] = kept] /\ n.lost = d.lost /\ n.reply = d.reply
    BY <1>1 DEF MemoryType
  <2>2. n \in MemoryType
    BY <1>1, <1>3 DEF MemoryType, RowsType
  <2> HIDE DEF n
  <2> QED
    BY <1>3, <2>1, <2>2, RowChanges
<1> HIDE DEF n
<1>6. KeepsAll(n, AnswerOrQueue(n, j, ids), ids)
  BY <1>5, AnswerOrQueueKeeps DEF KeepsAll, Keeps
<1> QED
  BY <1>4, <1>5, <1>6, KeepsThen DEF KeepsAll

\* A duplicate row goes, and its waits move to the row it duplicates.
LEMMA MergeIntoKeeps ==
    ASSUME NEW d, Good(d), NEW e \in Jobs(d.rows), NEW j \in Jobs(d.rows), e # j
    PROVE  /\ Keeps(d, MergeInto(d, e, j), {})
           /\ Jobs(MergeInto(d, e, j).rows) = Jobs(d.rows) \ {j}
<1> DEFINE pend == d.rows[j].pend
           n == MergeEnqueue(d, e, FALSE, {})
           gone == [n EXCEPT !.rows[j] = None]
           m == MergeInto(d, e, j)
<1>1. pend \in SUBSET Ids
  BY DEF Good, MemoryType, Jobs, RowsType, RowType
<1>2. KeepsAll(d, n, {})
  BY MergeEnqueueKeeps
<1>3. m = AnswerOrQueue(gone, e, pend)
  BY DEF MergeInto
<1> HIDE DEF n, m
<1>4. /\ n \in MemoryType /\ gone \in MemoryType
      /\ gone.rows = [n.rows EXCEPT ![j] = None] /\ gone.reply = n.reply /\ gone.lost = n.lost
  BY <1>2 DEF KeepsAll, Keeps, Good, MemoryType, RowsType
<1> HIDE DEF gone
<1>5. /\ Jobs(gone.rows) = Jobs(d.rows) \ {j} /\ e \in Jobs(gone.rows)
      /\ \A k \in Jobs(gone.rows) : gone.rows[k] = n.rows[k]
  BY <1>2, <1>4 DEF KeepsAll, Jobs, MemoryType, RowsType
<1>6. Good(gone)
  BY <1>2, <1>4, <1>5 DEF KeepsAll, Keeps, Good, EngineOnce, PendOnce
<1>7. \A k \in Jobs(d.rows) : n.rows[k].pend = d.rows[k].pend
  <2>1. d \in MemoryType /\ \A k \in Jobs(d.rows) : d.rows[k] \in RowType /\ k \in Ids
    BY DEF Good, MemoryType, Jobs, RowsType
  <2> QED
    BY <2>1 DEF n, MergeEnqueue, AnswerOrQueue, Answer, StartAdd, MemoryType, RowsType, RowType
<1>8. \A i \in pend : ~Due(gone.rows, i)
  BY <1>1, <1>5, <1>7 DEF Due, Good, PendOnce
<1>9. KeepsAll(gone, m, pend)
  BY <1>1, <1>3, <1>5, <1>6, <1>8, AnswerOrQueueKeeps
<1>10. \A i \in Ids : Held(n, i) => Held(gone, i) \/ i \in pend
  BY <1>2, <1>4, <1>5, <1>7 DEF Held, Due, KeepsAll
<1>11. \A i \in Ids : Due(m.rows, i) => Due(d.rows, i)
  BY <1>2, <1>5, <1>7, <1>9 DEF Due, KeepsAll, Keeps
<1>12. \A i \in Ids : Held(d, i) => Held(m, i)
  BY <1>2, <1>9, <1>10 DEF KeepsAll, Keeps
<1>13. \A k \in Jobs(m.rows) : k \in Jobs(d.rows) /\ m.rows[k].tor = d.rows[k].tor
  BY <1>2, <1>5, <1>9 DEF KeepsAll, Keeps
<1> QED
  BY <1>5, <1>9, <1>11, <1>12, <1>13 DEF KeepsAll, Keeps, m

\* Everybody who waits at a row is told, and the row forgets them.
LEMMA AnswerPendingKeeps ==
    ASSUME NEW d, Good(d), NEW j \in Jobs(d.rows), NEW what \in {"url", "error"}
    PROVE  KeepsAll(d, AnswerPending(d, j, what), {})
<1> DEFINE row == [d.rows[j] EXCEPT !.pend = {}, !.since = FALSE]
           m == AnswerPending(d, j, what)
<1>1. d \in MemoryType /\ j \in Ids /\ d.rows[j] \in RowType
  BY DEF Good, MemoryType, Jobs, RowsType
<1>2. /\ row \in RowType /\ row.pend = {} /\ row.tor = d.rows[j].tor
      /\ row.hash = d.rows[j].hash /\ row.eng = d.rows[j].eng
  BY <1>1 DEF RowType
<1>3. /\ m.rows = [d.rows EXCEPT ![j] = row] /\ m.lost = d.lost
      /\ m.reply = [i \in Ids |-> IF i \in d.rows[j].pend THEN what ELSE d.reply[i]]
  BY <1>1 DEF AnswerPending, Answer, MemoryType, RowsType
<1>4. m \in MemoryType
  BY <1>1, <1>2 DEF AnswerPending, Answer, MemoryType, RowsType
<1> HIDE DEF row, m
<1> QED
  BY <1>2, <1>3, <1>4, RowChanges DEF m

\* So is everybody who waits at a row that fails.
LEMMA FailJobKeeps ==
    ASSUME NEW d, Good(d), NEW j \in Jobs(d.rows)
    PROVE  KeepsAll(d, FailJob(d, j), {})
<1> DEFINE row == [d.rows[j] EXCEPT !.pend = {}, !.st = "failed"]
           m == FailJob(d, j)
<1>1. d \in MemoryType /\ j \in Ids /\ d.rows[j] \in RowType
  BY DEF Good, MemoryType, Jobs, RowsType
<1>2. /\ row \in RowType /\ row.pend = {} /\ row.tor = d.rows[j].tor
      /\ row.hash = d.rows[j].hash /\ row.eng = d.rows[j].eng
  BY <1>1 DEF RowType
<1>3. /\ m.rows = [d.rows EXCEPT ![j] = row] /\ m.lost = d.lost
      /\ m.reply = [i \in Ids |-> IF i \in d.rows[j].pend THEN "error" ELSE d.reply[i]]
  BY <1>1 DEF FailJob, Answer, MemoryType, RowsType
<1>4. m \in MemoryType
  BY <1>1, <1>2 DEF FailJob, Answer, MemoryType, RowsType
<1> HIDE DEF row, m
<1> QED
  BY <1>2, <1>3, <1>4, RowChanges DEF m

\* What an operation that leaves answers alone does to a row it keeps.
LEMMA MarkKeeps ==
    ASSUME NEW d, Good(d), NEW j \in Jobs(d.rows), NEW row \in RowType,
           NEW ids \in SUBSET Ids, \A i \in ids : ~Due(d.rows, i),
           row.tor = d.rows[j].tor, d.rows[j].hash => row.hash,
           row.eng # "none" => d.rows[j].eng # "none",
           row.pend = d.rows[j].pend \cup ids
    PROVE  KeepsAll(d, [d EXCEPT !.rows[j] = row], ids)
<1> DEFINE m == [d EXCEPT !.rows[j] = row]
<1>1. d \in MemoryType /\ j \in Ids
  BY DEF Good, MemoryType, Jobs, RowsType
<1>2. m \in MemoryType /\ m.rows = [d.rows EXCEPT ![j] = row] /\ m.lost = d.lost /\ m.reply = d.reply
  BY <1>1 DEF MemoryType, RowsType
<1> HIDE DEF m
<1> QED
  BY <1>2, RowChanges DEF m

\* Looking at an engine makes none.
LEMMA SightKeeps ==
    ASSUME NEW d, Good(d), NEW j \in Jobs(d.rows), NEW seen \in Sights(d.rows[j].eng)
    PROVE  KeepsAll(d, [d EXCEPT !.rows[j].eng = seen], {})
<1> DEFINE row == [d.rows[j] EXCEPT !.eng = seen]
<1>1. d.rows[j] \in RowType
  BY DEF Good, MemoryType, Jobs, RowsType
<1>2. seen \in {"none", "init", "live", "done"} /\ (seen # "none" => d.rows[j].eng # "none")
  BY <1>1 DEF Sights, Live, RowType
<1>3. /\ row \in RowType /\ row.tor = d.rows[j].tor /\ row.hash = d.rows[j].hash
      /\ row.eng = seen /\ row.pend = d.rows[j].pend
  BY <1>1, <1>2 DEF RowType
<1>4. [d EXCEPT !.rows[j].eng = seen] = [d EXCEPT !.rows[j] = row]
  OBVIOUS
<1> HIDE DEF row
<1> QED
  BY <1>2, <1>3, <1>4, MarkKeeps

\* A torrent that is ready has no engine elsewhere, so it may have one here.
LEMMA AddReadyKeeps ==
    ASSUME NEW d, Good(d), NEW j \in Jobs(d.rows),
           Duplicates(d.rows, j) = {} \/ j \in Duplicates(d.rows, j)
    PROVE  KeepsAll(d, AddReady(d, j), {})
<1> DEFINE m == AddReady(d, j)
           row == WithEngine(d.rows[j])
<1>1. d \in MemoryType /\ j \in Ids /\ d.rows \in RowsType /\ \A k \in Jobs(d.rows) : d.rows[k] \in RowType
  BY DEF Good, MemoryType, Jobs, RowsType
<1>2. /\ m \in MemoryType /\ m.reply = d.reply /\ m.lost = d.lost
      /\ \A k \in Ids \ {j} : m.rows[k] = d.rows[k]
      /\ m.rows[j] \in RowType /\ m.rows[j].hash /\ m.rows[j].eng = "init"
      /\ m.rows[j].tor = d.rows[j].tor /\ m.rows[j].pend = d.rows[j].pend
  <2>1. /\ row \in RowType /\ row.hash /\ row.eng = "init"
        /\ row.tor = d.rows[j].tor /\ row.pend = d.rows[j].pend
    BY <1>1 DEF WithEngine, RowType
  <2>2. m = [d EXCEPT !.rows[j] = row]
    BY DEF AddReady
  <2> HIDE DEF row, m
  <2> QED
    BY <1>1, <2>1, <2>2 DEF MemoryType, RowsType
<1> HIDE DEF m
<1>3. Jobs(m.rows) = Jobs(d.rows)
  BY <1>2, ConstantsAssumption DEF Jobs
<1>4. \A k \in Jobs(d.rows) \ {j} : ~(d.rows[k].eng # "none" /\ d.rows[k].tor = d.rows[j].tor)
  BY DEF Duplicates, Good, EngineOnce
<1>5. EngineOnce(m.rows)
  BY <1>2, <1>3, <1>4 DEF EngineOnce, Good, Jobs
<1>6. \A k \in Jobs(d.rows) : m.rows[k].pend = d.rows[k].pend /\ m.rows[k].tor = d.rows[k].tor
  BY <1>2 DEF Jobs
<1>7. PendOnce(m.rows) /\ \A i \in Ids : Due(m.rows, i) <=> Due(d.rows, i)
  BY <1>3, <1>6 DEF PendOnce, Good, Due
<1> QED
  BY <1>2, <1>3, <1>5, <1>6, <1>7 DEF KeepsAll, Keeps, Good, Held, m

\* Every answer of the gate is one to everybody who waits at the row.
LEMMA GateKeeps ==
    ASSUME NEW d, Good(d), NEW j \in Jobs(d.rows), NEW m \in Gate(d, j)
    PROVE  KeepsAll(d, m, {})
<1>1. m = d \/ m = AnswerPending(d, j, "url") \/ m = AnswerPending(d, j, "error")
  BY DEF Gate
<1> QED
  BY <1>1, KeepsReflexive, AnswerPendingKeeps

\* The status follows the engine.
LEMMA ProgressKeeps ==
    ASSUME NEW d, Good(d), NEW j \in Jobs(d.rows)
    PROVE  KeepsAll(d, Progress(d, j), {})
<1> DEFINE st == IF d.rows[j].eng = "done" THEN "moving"
                 ELSE IF d.rows[j].st = "moving" THEN "downloading" ELSE d.rows[j].st
           row == [d.rows[j] EXCEPT !.st = st]
<1>1. d.rows[j] \in RowType
  BY DEF Good, MemoryType, Jobs, RowsType
<1>2. /\ row \in RowType /\ row.tor = d.rows[j].tor /\ row.hash = d.rows[j].hash
      /\ row.eng = d.rows[j].eng /\ row.pend = d.rows[j].pend
  BY <1>1 DEF RowType
<1>3. Progress(d, j) = [d EXCEPT !.rows[j] = row]
  BY DEF Progress
<1> HIDE DEF row
<1> QED
  BY <1>2, <1>3, MarkKeeps

\* A move that ends takes the engine away.
LEMMA CompletedKeeps ==
    ASSUME NEW d, Good(d), NEW j \in Jobs(d.rows)
    PROVE  KeepsAll(d, Completed(d, j), {})
<1> DEFINE row == [d.rows[j] EXCEPT !.st = "completed", !.eng = "none", !.add = FALSE]
<1>1. d.rows[j] \in RowType /\ d \in MemoryType /\ j \in Ids
  BY DEF Good, MemoryType, Jobs, RowsType
<1>2. /\ row \in RowType /\ row.tor = d.rows[j].tor /\ row.hash = d.rows[j].hash
      /\ row.eng = "none" /\ row.pend = d.rows[j].pend
  BY <1>1 DEF RowType
<1>3. Completed(d, j) = [d EXCEPT !.rows[j] = row]
  BY <1>1 DEF Completed, MemoryType, RowsType
<1> HIDE DEF row
<1> QED
  BY <1>2, <1>3, MarkKeeps

(***************************************************************************)
(* The invariant                                                           *)
(***************************************************************************)
\* No rows outlive their process but those of the file, which have neither
\* engine nor pending responses; what a pass has listed is there.
Bare(rs) == \A j \in Jobs(rs) : rs[j].eng = "none" /\ rs[j].pend = {}

Process ==
    /\ pc \in {"dead", "boot"} => rows = NoRows
    /\ pc = "poll" => todo \subseteq Jobs(rows)
    /\ file # None => Bare(file.rows)
    /\ stopper # None => Bare(stopper)

\* A row is named by a request the daemon has taken, and so is a response.
Unmade(i) ==
    /\ rows[i] = None /\ ~Due(rows, i)
    /\ file # None => file.rows[i] = None
    /\ stopper # None => stopper[i] = None

Requested ==
    /\ \A i \in Ids : i \in spool \/ req[i] = None => Unmade(i)
    /\ \A i \in Ids : req[i] = None => i \notin spool \cup waiting \cup {tui, current}
    /\ tui # None => tui # current /\ tui \notin waiting
    /\ \A i \in waiting : req[i].play

\* Whoever waits, or is about to, is in the spool or held.
Kept == \A i \in Ids \cap Awaited : req[i].play => i \in spool \/ Held(Memory, i)

\* The daemon has the rows of its file, but for those stopped since, and until
\* it writes the file those merged since.
Stopped(j) == \E i \in Ids : req[i] # None /\ req[i].kind = "stop" /\ req[i].job = j
Merging == {"adds", "poll", "save"}
Has(j) ==
    \/ rows[j] # None /\ rows[j].tor = file.rows[j].tor
    \/ Stopped(j)
    \/ pc \in Merging /\ \E e \in Jobs(rows) : rows[e].tor = file.rows[j].tor
Written ==
    pc \notin {"dead", "boot"} => file \in FileType /\ \A j \in Jobs(file.rows) : Has(j)

Inv == TypeOK /\ Good(Memory) /\ Process /\ Requested /\ Kept /\ Written

\* An id is not None, and a commit is a request.
LEMMA Distinct ==
    /\ \A i \in Ids : i # None
    /\ \A r \in Commits : r \in Requests /\ r # None
<1>1. \A i \in Ids : i \in Nat
  BY ConstantsAssumption DEF Ids
<1>2. AllCommits \subseteq Requests
  BY DEF Requests
<1> QED
  BY <1>1, <1>2, ConstantsAssumption

\* A stop is a request, and no play.
LEMMA StopIsRequest ==
    \A j \in Ids : Stop(j) \in Requests /\ Stop(j) # None /\ ~Stop(j).play
<1>1. \A j \in Ids : Stop(j) \in Stops /\ Stop(j).play = FALSE
  BY DEF Stops, Stop
<1> QED
  BY <1>1, ConstantsAssumption DEF Requests

\* At first nothing was asked for.
LEMMA InitInv == Init => Inv
<1> SUFFICES ASSUME Init PROVE Inv
  OBVIOUS
<1>1. Jobs(rows) = {} /\ rows \in RowsType
  BY DEF Init, NoRows, Jobs, RowsType
<1>2. Memory \in MemoryType
  BY <1>1 DEF Init, Memory, MemoryType
<1>3. TypeOK
  <2>1. req \in [Ids -> Requests \cup {None}] /\ reply \in [Ids -> {"none", "url", "error"}]
    BY DEF Init
  <2>2. shutdown \in BOOLEAN /\ starting \in BOOLEAN
    BY Zenon DEF Init
  <2>3. faults \in 0..MaxFaults
    BY ConstantsAssumption DEF Init
  <2> QED
    BY <1>1, <2>1, <2>2, <2>3 DEF Init, TypeOK
<1>4. Good(Memory)
  BY <1>1, <1>2 DEF Good, EngineOnce, PendOnce, Memory
<1>5. Requested
  BY <1>1, Distinct DEF Init, Requested, Unmade, Due, NoRows
<1>6. Process /\ Kept /\ Written
  BY <1>1, Distinct DEF Init, Process, Kept, Awaited, Written
<1> QED
  BY <1>3, <1>4, <1>5, <1>6 DEF Inv

\* A commit is a new request, and nobody waits for it yet but its window.
LEMMA CommitKeeps == ASSUME Inv, NEW i \in Ids, NEW r \in Commits, Commit(i, r) PROVE Inv'
<1>1. r \in Requests /\ r # None /\ i # None
  BY Distinct
<1>2. TypeOK'
  BY <1>1 DEF Inv, Commit, Write, TypeOK, daemonVars
<1>3. Good(Memory)'
  BY DEF Inv, Commit, daemonVars, Memory, Good
<1>4. Process'
  BY DEF Inv, Commit, daemonVars, Process
<1>5. req[i] = None /\ req \in [Ids -> Requests \cup {None}]
  BY DEF Commit, NextId, Unwritten, Inv, TypeOK
<1>6. Requested'
  BY <1>1, <1>5 DEF Inv, Commit, Write, daemonVars, Requested, Unmade
<1>7. Kept'
  BY <1>5 DEF Inv, Commit, Write, daemonVars, Kept, Awaited, Memory
<1>8. Written'
  BY <1>5 DEF Inv, Commit, Write, daemonVars, Written, Has, Stopped
<1> QED
  BY <1>2, <1>3, <1>4, <1>6, <1>7, <1>8 DEF Inv

\* A request that plays is waited for.
LEMMA EnsureKeeps == ASSUME Inv, EnsureDaemonStarted PROVE Inv'
<1>1. TypeOK'
  BY DEF Inv, EnsureDaemonStarted, TypeOK, daemonVars
<1>2. Good(Memory)'
  BY DEF Inv, EnsureDaemonStarted, Memory, Good, daemonVars
<1>3. Process'
  BY DEF Inv, EnsureDaemonStarted, Process, daemonVars
<1>4. Requested'
  BY Distinct DEF Inv, EnsureDaemonStarted, Requested, Unmade, daemonVars
<1>5. Kept'
  BY Distinct DEF Inv, EnsureDaemonStarted, Kept, Awaited, Memory, daemonVars
<1>6. Written'
  BY DEF Inv, EnsureDaemonStarted, Written, Has, Stopped, daemonVars
<1> QED
  BY <1>1, <1>2, <1>3, <1>4, <1>5, <1>6 DEF Inv

\* A stop is no play.
LEMMA CancelKeeps == ASSUME Inv, NEW i \in Ids, CancelWait(i) PROVE Inv'
<1>1. req[i] = None /\ Stop(current) \in Requests /\ Stop(current) # None /\ ~Stop(current).play /\ current # i
  BY StopIsRequest DEF CancelWait, NextId, Unwritten, Inv, TypeOK, Requested
<1>2. TypeOK'
  BY <1>1 DEF Inv, CancelWait, TypeOK, daemonVars, Write
<1>3. Good(Memory)'
  BY DEF Inv, CancelWait, Memory, Good, daemonVars
<1>4. Process'
  BY DEF Inv, CancelWait, Process, daemonVars
<1>5. Requested'
  BY <1>1 DEF Inv, CancelWait, Requested, Unmade, TypeOK, daemonVars, Write
<1>6. Kept'
  BY DEF Inv, CancelWait, Kept, Awaited, Memory, daemonVars, Write
<1>7. Written'
  BY <1>1 DEF Inv, CancelWait, Written, Has, Stopped, daemonVars, Write
<1> QED
  BY <1>2, <1>3, <1>4, <1>5, <1>6, <1>7 DEF Inv

\* So is one from the list.
LEMMA WriteStopKeeps == ASSUME Inv, NEW i \in Ids, NEW j \in Ids, WriteStopRequest(i, j) PROVE Inv'
<1>1. req[i] = None /\ Stop(j) \in Requests /\ Stop(j) # None /\ ~Stop(j).play
  BY StopIsRequest DEF WriteStopRequest, NextId, Unwritten
<1>2. TypeOK'
  BY <1>1 DEF Inv, WriteStopRequest, TypeOK, daemonVars, clientVars, Write
<1>3. Good(Memory)'
  BY DEF Inv, WriteStopRequest, Memory, Good, daemonVars
<1>4. Process'
  BY DEF Inv, WriteStopRequest, Process, daemonVars, clientVars
<1>5. Requested'
  BY <1>1 DEF Inv, WriteStopRequest, Requested, Unmade, TypeOK, daemonVars, clientVars, Write
<1>6. Kept'
  BY DEF Inv, WriteStopRequest, Kept, Awaited, Memory, daemonVars, clientVars, Write
<1>7. Written'
  BY <1>1 DEF Inv, WriteStopRequest, Written, Has, Stopped, daemonVars, Write
<1> QED
  BY <1>2, <1>3, <1>4, <1>5, <1>6, <1>7 DEF Inv

\* Who takes a response waits no more.
LEMMA TakeKeeps == ASSUME Inv, NEW i \in Ids, TakeResponse(i) PROVE Inv'
<1>1. TypeOK'
  BY DEF Inv, TakeResponse, TypeOK, EndWait
<1>2. Good(Memory)'
  BY DEF Inv, TakeResponse, Memory, Good, MemoryType
<1>3. Process'
  BY DEF Inv, TakeResponse, Process
<1>4. Requested'
  BY Distinct DEF Inv, TakeResponse, Requested, Unmade, EndWait
<1>5. Kept'
  BY Distinct DEF Inv, TakeResponse, Kept, Requested, Awaited, Held, Memory, EndWait
<1>6. Written'
  BY DEF Inv, TakeResponse, Written, Has, Stopped
<1> QED
  BY <1>1, <1>2, <1>3, <1>4, <1>5, <1>6 DEF Inv

\* Nor does who gives up.
LEMMA GiveUpKeeps == ASSUME Inv, NEW i \in Ids, GiveUp(i) PROVE Inv'
<1>1. TypeOK'
  BY DEF Inv, GiveUp, TypeOK, EndWait, daemonVars
<1>2. Good(Memory)'
  BY DEF Inv, GiveUp, Memory, Good, daemonVars
<1>3. Process'
  BY DEF Inv, GiveUp, Process, daemonVars
<1>4. Requested'
  BY DEF Inv, GiveUp, Requested, Unmade, EndWait, daemonVars
<1>5. Kept'
  BY DEF Inv, GiveUp, Kept, Awaited, Memory, EndWait, daemonVars
<1>6. Written'
  BY DEF Inv, GiveUp, Written, Has, Stopped, daemonVars
<1> QED
  BY <1>1, <1>2, <1>3, <1>4, <1>5, <1>6 DEF Inv

\* A start changes nothing yet.
LEMMA CliStartKeeps == ASSUME Inv, CliStart PROVE Inv'
<1>1. TypeOK'
  BY DEF Inv, CliStart, TypeOK, daemonVars
<1>2. Good(Memory)'
  BY DEF Inv, CliStart, Memory, Good, daemonVars
<1>3. Process'
  BY DEF Inv, CliStart, Process, daemonVars
<1>4. Requested'
  BY DEF Inv, CliStart, Requested, Unmade, daemonVars
<1>5. Kept'
  BY DEF Inv, CliStart, Kept, Awaited, Memory, daemonVars
<1>6. Written'
  BY DEF Inv, CliStart, Written, Has, Stopped, daemonVars
<1> QED
  BY <1>1, <1>2, <1>3, <1>4, <1>5, <1>6 DEF Inv

\* A process begins without rows.
LEMMA SpawnKeeps == ASSUME Inv, SpawnDaemon PROVE Inv'
<1>1. TypeOK'
  BY DEF Inv, SpawnDaemon, TypeOK
<1>2. Good(Memory)'
  BY DEF Inv, SpawnDaemon, Memory, Good
<1>3. Process'
  BY DEF Inv, SpawnDaemon, Process
<1>4. Requested'
  BY DEF Inv, SpawnDaemon, Requested, Unmade
<1>5. Kept'
  BY DEF Inv, SpawnDaemon, Kept, Awaited, Memory
<1>6. Written'
  BY DEF Inv, SpawnDaemon, Written, Has, Stopped
<1> QED
  BY <1>1, <1>2, <1>3, <1>4, <1>5, <1>6 DEF Inv

\* A process that never ran leaves none.
LEMMA StartFailsKeeps == ASSUME Inv, StartFails PROVE Inv'
<1>1. TypeOK'
  <2>1. faults' \in 0..MaxFaults
    BY ConstantsAssumption DEF Inv, StartFails, TypeOK
  <2>2. NoRows \in RowsType /\ starting' \in BOOLEAN
    BY DEF NoRows, RowsType, StartFails
  <2> QED
    BY <2>1, <2>2 DEF Inv, StartFails, TypeOK
<1>2. Good(Memory)'
  BY DEF Inv, StartFails, Memory, Good, EngineOnce, PendOnce, Jobs, MemoryType, NoRows, RowsType
<1>3. Process'
  BY DEF Inv, StartFails, Process
<1>4. Requested'
  BY Distinct DEF Inv, StartFails, Requested, Unmade, Due, Jobs, NoRows
<1>5. Kept'
  BY Distinct DEF Inv, StartFails, Process, Kept, Requested, Awaited, Memory
<1>6. Written'
  BY DEF Inv, StartFails, Written
<1> QED
  BY <1>1, <1>2, <1>3, <1>4, <1>5, <1>6 DEF Inv

\* What is read of the file is as bare as the file.
LEMMA StopDaemonKeeps == ASSUME Inv, StopDaemon PROVE Inv'
<1>1. TypeOK'
  <2>1. faults' \in 0..MaxFaults
    BY ConstantsAssumption DEF Inv, StopDaemon, TypeOK
  <2>2. file.rows \in RowsType /\ shutdown' \in BOOLEAN
    BY DEF Inv, StopDaemon, TypeOK, Running, FileType
  <2> QED
    BY <2>1, <2>2 DEF Inv, StopDaemon, TypeOK
<1>2. Good(Memory)'
  BY DEF Inv, StopDaemon, Memory, Good
<1>3. Process'
  BY DEF Inv, StopDaemon, Process, Running
<1>4. Requested'
  BY DEF Inv, StopDaemon, Requested, Unmade, Running
<1>5. Kept'
  BY DEF Inv, StopDaemon, Kept, Awaited, Memory
<1>6. Written'
  BY DEF Inv, StopDaemon, Written, Has, Stopped
<1> QED
  BY <1>1, <1>2, <1>3, <1>4, <1>5, <1>6 DEF Inv

\* It is written when no process runs.
LEMMA WriteStoppedKeeps == ASSUME Inv, WriteStopped PROVE Inv'
<1>1. TypeOK'
  <2>1. [live |-> FALSE, rows |-> stopper] \in FileType
    BY DEF Inv, WriteStopped, TypeOK, FileType
  <2> QED
    BY <2>1 DEF Inv, WriteStopped, TypeOK
<1>2. Good(Memory)'
  BY DEF Inv, WriteStopped, Memory, Good
<1>3. Process'
  BY DEF Inv, WriteStopped, Process
<1>4. Requested'
  BY DEF Inv, WriteStopped, Requested, Unmade
<1>5. Kept'
  BY DEF Inv, WriteStopped, Kept, Awaited, Memory
<1>6. Written'
  BY DEF Inv, WriteStopped, Written
<1> QED
  BY <1>1, <1>2, <1>3, <1>4, <1>5, <1>6 DEF Inv

\* The request that asks once more is waited for instead.
LEMMA RetryKeeps == ASSUME Inv, NEW i \in Ids, NEW k \in Ids, RetryStream(i, k) PROVE Inv'
<1> DEFINE r == Stream(req[i].tor, req[i].src, TRUE)
<1>1. /\ req[k] = None /\ r \in Requests /\ r # None /\ r.play /\ i # k /\ tui = None
      /\ req' = [req EXCEPT ![k] = r] /\ spool' = spool \cup {k}
      /\ tui' = None /\ i \in waiting /\ current = i
  <2>1. req[k] = None /\ req[i] \in Requests /\ req[i].play
    BY DEF RetryStream, NextId, Unwritten, Inv, TypeOK, Requested
  <2>2. req[i].tor \in Torrents /\ req[i].src \in Sources
    BY <2>1 DEF Requests, AllCommits, Enqueues, Streams, Stops
  <2>3. r \in Streams(TRUE)
    BY <2>2 DEF Streams, Stream
  <2>4. r.play
    BY DEF Stream
  <2>5. i # k
    BY <2>1, ConstantsAssumption
  <2> QED
    BY <2>1, <2>3, <2>4, <2>5, ConstantsAssumption DEF Requests, RetryStream, Write
<1> HIDE DEF r
<1>2. TypeOK'
  BY <1>1 DEF Inv, RetryStream, TypeOK
<1>3. Good(Memory)'
  BY DEF Inv, RetryStream, Memory, Good, MemoryType
<1>4. Process'
  BY DEF Inv, RetryStream, Process
<1>5. Requested'
  BY <1>1 DEF Inv, RetryStream, Requested, Unmade, TypeOK
<1>6. Kept'
  BY <1>1, Distinct DEF Inv, RetryStream, Kept, Awaited, Held, Memory
<1>7. Written'
  BY <1>1 DEF Inv, RetryStream, Written, Has, Stopped
<1> QED
  BY <1>2, <1>3, <1>4, <1>5, <1>6, <1>7 DEF Inv

\* A row is taken from the file when no process runs.
LEMMA RemoveOfflineKeeps == ASSUME Inv, NEW j \in Ids, RemoveJobOffline(j) PROVE Inv'
<1> DEFINE left == [file.rows EXCEPT ![j] = None]
           next == [file EXCEPT !.rows = left]
<1>1. /\ file \in FileType /\ file.rows \in RowsType /\ left \in RowsType
      /\ next \in FileType /\ next.rows = left
      /\ pc = "dead" /\ pc' = "dead" /\ file' \in {None, next}
  BY DEF Inv, TypeOK, RemoveJobOffline, FileType, RowsType
<1> HIDE DEF next, left
<1>2. TypeOK'
  BY <1>1 DEF Inv, RemoveJobOffline, TypeOK, clientVars
<1>3. Good(Memory)'
  BY DEF Inv, RemoveJobOffline, Memory, Good
<1>4. Process'
  BY DEF Inv, RemoveJobOffline, Process, Bare, Jobs, clientVars
<1>5. Requested'
  BY DEF Inv, RemoveJobOffline, Requested, Unmade, clientVars
<1>6. Kept'
  BY DEF Inv, RemoveJobOffline, Kept, Awaited, Memory, clientVars
<1>7. Written'
  BY DEF Inv, RemoveJobOffline, Written
<1> QED
  BY <1>2, <1>3, <1>4, <1>5, <1>6, <1>7 DEF Inv

\* The listing takes no request.
LEMMA ListKeeps == ASSUME Inv, ListSpool PROVE Inv'
<1>1. TypeOK'
  BY DEF Inv, ListSpool, TypeOK, daemonSteps
<1>2. Good(Memory)'
  BY DEF Inv, ListSpool, Memory, Good
<1>3. Process'
  BY DEF Inv, ListSpool, Process, daemonSteps
<1>4. Requested'
  BY DEF Inv, ListSpool, Requested, Unmade, daemonSteps
<1>5. Kept'
  BY DEF Inv, ListSpool, Kept, Awaited, Memory, daemonSteps
<1>6. Written'
  BY DEF Inv, ListSpool, Written, Has, Stopped, Merging, daemonSteps
<1> QED
  BY <1>1, <1>2, <1>3, <1>4, <1>5, <1>6 DEF Inv

\* Nor does the choice to poll.
LEMMA AddsDoneKeeps == ASSUME Inv, NEW poll \in BOOLEAN, AddsDone(poll) PROVE Inv'
<1>1. TypeOK'
  BY DEF Inv, AddsDone, TypeOK, Jobs, daemonSteps
<1>2. Good(Memory)'
  BY DEF Inv, AddsDone, Memory, Good
<1>3. Process'
  BY DEF Inv, AddsDone, Process, daemonSteps
<1>4. Requested'
  BY DEF Inv, AddsDone, Requested, Unmade, daemonSteps
<1>5. Kept'
  BY DEF Inv, AddsDone, Kept, Awaited, Memory, daemonSteps
<1>6. Written'
  BY DEF Inv, AddsDone, Written, Has, Stopped, Merging, daemonSteps
<1> QED
  BY <1>1, <1>2, <1>3, <1>4, <1>5, <1>6 DEF Inv

\* What the file keeps of the rows.
LEMMA SavedIsBare ==
    ASSUME NEW rs \in RowsType
    PROVE  /\ Saved(rs) \in RowsType /\ Jobs(Saved(rs)) = Jobs(rs) /\ Bare(Saved(rs))
           /\ \A j \in Jobs(rs) : Saved(rs)[j].tor = rs[j].tor
           /\ \A i \in Ids : rs[i] = None => Saved(rs)[i] = None
<1>1. ASSUME NEW j \in Jobs(rs)
      PROVE  /\ Saved(rs)[j] \in RowType /\ Saved(rs)[j] # None
             /\ Saved(rs)[j].eng = "none" /\ Saved(rs)[j].pend = {} /\ Saved(rs)[j].tor = rs[j].tor
  <2> DEFINE row == [rs[j] EXCEPT !.eng = "none", !.add = FALSE, !.pend = {}, !.since = FALSE]
  <2>1. rs[j] \in RowType /\ Saved(rs)[j] = row
    BY DEF Saved, Jobs, RowsType
  <2>2. row \in RowType /\ row.eng = "none" /\ row.pend = {} /\ row.tor = rs[j].tor
    BY <2>1 DEF RowType
  <2> QED
    BY <2>1, <2>2, ConstantsAssumption
<1>2. \A i \in Ids : rs[i] = None => Saved(rs)[i] = None
  BY DEF Saved
<1>3. Saved(rs) = [j \in Ids |-> Saved(rs)[j]]
  BY DEF Saved
<1> QED
  BY <1>1, <1>2, <1>3 DEF RowsType, Jobs, Bare

\* The file has every row again.
LEMMA SaveKeeps == ASSUME Inv, SaveState PROVE Inv'
<1>1. /\ rows \in RowsType /\ Saved(rows) \in RowsType
      /\ Jobs(Saved(rows)) = Jobs(rows) /\ Bare(Saved(rows))
      /\ \A j \in Jobs(rows) : Saved(rows)[j].tor = rows[j].tor
      /\ \A i \in Ids : rows[i] = None => Saved(rows)[i] = None
  BY SavedIsBare DEF Inv, TypeOK
<1>2. [live |-> TRUE, rows |-> Saved(rows)] \in FileType
  BY <1>1 DEF FileType
<1>3. TypeOK'
  BY <1>2 DEF Inv, SaveState, TypeOK, daemonSteps
<1>4. Good(Memory)'
  BY DEF Inv, SaveState, Memory, Good
<1>5. Process'
  BY <1>1 DEF Inv, SaveState, Process, daemonSteps
<1>6. Requested'
  BY <1>1 DEF Inv, SaveState, Requested, Unmade, daemonSteps
<1>7. Kept'
  BY DEF Inv, SaveState, Kept, Awaited, Memory, daemonSteps
<1>8. Written'
  BY <1>2, <1>1 DEF Inv, SaveState, Written, Has, Jobs
<1> QED
  BY <1>3, <1>4, <1>5, <1>6, <1>7, <1>8 DEF Inv

\* With a process its rows and responses go; whoever waits has been dropped.
LEMMA GoneKeeps ==
    ASSUME Inv, Gone, reply' = reply
    PROVE  /\ rows' = NoRows /\ NoRows \in RowsType /\ Jobs(NoRows) = {}
           /\ abandoned' \in SUBSET Ids /\ abandoned \subseteq abandoned'
           /\ \A i \in Awaited : Due(rows, i) => i \in abandoned'
           /\ Good(Memory)'
<1>1. rows' = NoRows /\ NoRows \in RowsType /\ Jobs(NoRows) = {}
  BY DEF Gone, NoRows, RowsType, Jobs
<1>2. \A j \in Jobs(rows) : rows[j].pend \subseteq Ids
  BY DEF Inv, TypeOK, Jobs, RowsType, RowType
<1>3. abandoned' \in SUBSET Ids /\ abandoned \subseteq abandoned'
  BY <1>2 DEF Gone, Inv, TypeOK
<1>4. \A i \in Awaited : Due(rows, i) => i \in abandoned'
  BY DEF Gone, Due
<1>5. Good(Memory)'
  BY <1>1, <1>3 DEF Inv, Memory, Good, EngineOnce, PendOnce, MemoryType
<1> QED
  BY <1>1, <1>3, <1>4, <1>5

\* The process leaves its rows, or nothing when there are none.
LEMMA ExitKeeps == ASSUME Inv, Exit PROVE Inv'
<1>1. /\ rows \in RowsType /\ Saved(rows) \in RowsType
      /\ Jobs(Saved(rows)) = Jobs(rows) /\ Bare(Saved(rows))
      /\ \A j \in Jobs(rows) : Saved(rows)[j].tor = rows[j].tor
      /\ \A i \in Ids : rows[i] = None => Saved(rows)[i] = None
  BY SavedIsBare DEF Inv, TypeOK
<1>2. [live |-> FALSE, rows |-> Saved(rows)] \in FileType
  BY <1>1 DEF FileType
<1>3. /\ rows' = NoRows /\ NoRows \in RowsType /\ Jobs(NoRows) = {}
      /\ abandoned' \in SUBSET Ids /\ abandoned \subseteq abandoned'
      /\ \A i \in Awaited : Due(rows, i) => i \in abandoned'
      /\ Good(Memory)'
  BY GoneKeeps DEF Exit
<1>4. TypeOK'
  <2>1. file' \in FileType \cup {None} /\ pc' = "dead" /\ todo' = {}
    BY <1>2 DEF Exit, Gone
  <2>2. shutdown' \in BOOLEAN
    BY DEF Exit, Gone
  <2> QED
    BY <1>3, <2>1, <2>2 DEF Inv, Exit, TypeOK, daemonSteps
<1>5. Good(Memory)'
  BY <1>3
<1>6. Process'
  BY <1>1 DEF Inv, Exit, Process, daemonSteps, Gone
<1>7. Requested'
  BY <1>3, <1>1 DEF Inv, Exit, Requested, Unmade, Due, daemonSteps, NoRows
<1>8. Kept'
  BY <1>3 DEF Inv, Exit, Kept, Awaited, Held, Memory, daemonSteps
<1>9. Written'
  BY <1>2 DEF Inv, Exit, Written, Gone
<1> QED
  BY <1>4, <1>5, <1>6, <1>7, <1>8, <1>9 DEF Inv

\* A process that crashes leaves its last file.
LEMMA CrashKeeps == ASSUME Inv, Crash PROVE Inv'
<1>1. /\ file \in FileType /\ file' \in FileType /\ file'.rows = file.rows /\ file # None
      /\ pc \notin {"dead", "boot"}
  BY ConstantsAssumption DEF Crash, Inv, Written, FileType
<1>2. faults' \in 0..MaxFaults
  BY ConstantsAssumption DEF Inv, Crash, TypeOK
<1>3. /\ rows' = NoRows /\ NoRows \in RowsType /\ Jobs(NoRows) = {}
      /\ abandoned' \in SUBSET Ids /\ abandoned \subseteq abandoned'
      /\ \A i \in Awaited : Due(rows, i) => i \in abandoned'
      /\ Good(Memory)'
  BY GoneKeeps DEF Crash
<1>4. TypeOK'
  BY <1>2, <1>3, <1>1 DEF Inv, Crash, TypeOK, daemonSteps, Gone
<1>5. Good(Memory)'
  BY <1>3
<1>6. Process'
  BY <1>1 DEF Inv, Crash, Process, daemonSteps, Gone
<1>7. Requested'
  BY <1>3, <1>1 DEF Inv, Crash, Requested, Unmade, Due, daemonSteps, NoRows
<1>8. Kept'
  BY <1>3 DEF Inv, Crash, Kept, Awaited, Held, Memory, daemonSteps
<1>9. Written'
  BY DEF Inv, Crash, Written, Gone
<1> QED
  BY <1>4, <1>5, <1>6, <1>7, <1>8, <1>9 DEF Inv

(***************************************************************************)
(* The steps on the daemon's memory                                        *)
(***************************************************************************)
\* What such a step leaves alone, and the requests it takes from the spool.
Turn(taken) ==
    /\ pc \notin {"dead", "boot"} /\ pc' \in {"spool", "adds", "poll", "save"}
    /\ pc \in Merging => pc' \in Merging
    /\ pc' = "poll" => pc = "poll"
    /\ spool' = spool \ taken /\ todo' \subseteq todo /\ faults' \in 0..MaxFaults
    /\ UNCHANGED <<req, file, shutdown, stopper, starting, tui, waiting, current>>

\* What the memory has become.
LEMMA BecomeIs == ASSUME NEW m \in MemoryType, Become(m) PROVE Memory' = m
  BY DEF Become, Memory, MemoryType

\* Such a step keeps the invariant when it forgets nobody; a row that appears
\* is named by a request it took, a row that goes was merged or stopped.
LEMMA TurnKeeps ==
    ASSUME Inv, NEW m, Good(m), Become(m), NEW taken \in SUBSET Ids, Turn(taken),
           \A j \in Jobs(m.rows) : j \in taken \/ j \in Jobs(rows),
           \A j \in Jobs(rows) :
             \/ m.rows[j] # None /\ m.rows[j].tor = rows[j].tor
             \/ pc \notin Merging /\ Stopped(j)
             \/ pc' \in Merging /\ \E e \in Jobs(m.rows) : m.rows[e].tor = rows[j].tor,
           \A i \in Ids : Due(m.rows, i) => Due(rows, i) \/ i \in taken,
           \A i \in Ids \cap Awaited : Held(Memory, i) => Held(m, i),
           \A i \in taken : req[i] # None /\ (req[i].play => Held(m, i)),
           pc' = "poll" => Jobs(rows) \subseteq Jobs(m.rows)
    PROVE  Inv'
<1>1. Memory' = m /\ m \in MemoryType /\ rows' = m.rows /\ reply' = m.reply /\ abandoned' = m.lost
  BY BecomeIs DEF Good, Become
<1>2. TypeOK'
  BY <1>1 DEF Inv, TypeOK, Turn, MemoryType
<1>3. Good(Memory)'
  BY <1>1 DEF Good, EngineOnce, PendOnce, Jobs, MemoryType
<1>4. Process'
  <2>1. pc' = "poll" => todo' \subseteq Jobs(rows')
    BY <1>1 DEF Inv, Process, Turn
  <2> QED
    BY <2>1 DEF Inv, Process, Turn, Bare, Jobs
<1>5. Requested'
  BY <1>1 DEF Inv, Requested, Unmade, Turn, Due, Jobs
<1>6. Kept'
  BY <1>1 DEF Inv, Kept, Turn, Awaited, Held, Due, Jobs
<1>7. Written'
  <2>1. \A j \in Ids : Stopped(j)' <=> Stopped(j)
    BY DEF Stopped, Turn
  <2>2. \A j \in Jobs(file.rows) : j \in Ids /\ Has(j)
    BY DEF Inv, Written, Turn, Jobs
  <2>3. ASSUME NEW j \in Jobs(file.rows) PROVE Has(j)'
    <3>1. CASE rows[j] # None /\ rows[j].tor = file.rows[j].tor
      BY <1>1, <2>1, <2>2, <3>1 DEF Has, Jobs, Turn, Merging
    <3>2. CASE Stopped(j)
      BY <2>1, <2>2, <3>2 DEF Has
    <3>3. ASSUME pc \in Merging, NEW e \in Jobs(rows), rows[e].tor = file.rows[j].tor
          PROVE  Has(j)'
      <4>1. \E k \in Jobs(m.rows) : m.rows[k].tor = rows[e].tor
        BY <3>3 DEF Jobs
      <4> QED
        BY <1>1, <2>2, <3>3, <4>1 DEF Has, Jobs, Turn
    <3> QED
      BY <2>2, <3>1, <3>2, <3>3 DEF Has
  <2> QED
    BY <2>3 DEF Inv, Written, Turn, Jobs
<1> QED
  BY <1>2, <1>3, <1>4, <1>5, <1>6, <1>7 DEF Inv

\* So does an operation that keeps what it was given.
LEMMA KeepsTurn ==
    ASSUME Inv, NEW m, NEW ids \in SUBSET Ids, KeepsAll(Memory, m, ids), Become(m),
           NEW taken \in SUBSET Ids, Turn(taken), ids \subseteq taken,
           \A i \in taken : req[i] # None /\ (req[i].play => Held(m, i))
    PROVE  Inv'
<1>1. Memory.rows = rows
  BY DEF Memory
<1>2. Good(m) /\ \A j \in Jobs(rows) : j \in Jobs(m.rows) /\ m.rows[j].tor = rows[j].tor
  BY <1>1 DEF KeepsAll, Keeps
<1>3. \A j \in Jobs(rows) : m.rows[j] # None
  BY <1>2 DEF Jobs
<1>4. \A i \in Ids : Due(m.rows, i) => Due(rows, i) \/ i \in taken
  BY <1>1 DEF KeepsAll, Keeps
<1>5. \A i \in Ids : Held(Memory, i) => Held(m, i)
  BY DEF KeepsAll, Keeps
<1>6. Jobs(m.rows) = Jobs(rows)
  BY <1>1 DEF KeepsAll
<1> QED
  BY <1>2, <1>3, <1>4, <1>5, <1>6, TurnKeeps

\* A request that is processed was written, and named nothing before.
LEMMA Taken ==
    ASSUME Inv, NEW i \in Ids, ProcessSpool(i), i \in spool
    PROVE  Turn({i}) /\ Unmade(i) /\ req[i] \in Requests /\ req[i] # None
  BY DEF Inv, TypeOK, Requested, ProcessSpool, Turn, Merging, clientVars

\* An enqueue is merged into a row, or makes one.
LEMMA EnqueueKeeps ==
    ASSUME Inv, NEW i \in Ids, ProcessSpool(i), i \in spool,
           req[i].kind = "enqueue", HandleEnqueue(i, req[i])
    PROVE  Inv'
<1> DEFINE ids == IF req[i].play THEN {i} ELSE {}
<1>1. Turn({i}) /\ Unmade(i) /\ req[i] \in Requests /\ req[i] # None
  BY Taken
<1>2. req[i] \in Enqueues
  BY <1>1 DEF Requests, AllCommits, Streams, Stops
<1>3. /\ Good(Memory) /\ Memory.rows = rows /\ Memory \in MemoryType
      /\ rows \in RowsType /\ rows[i] = None /\ ~Due(rows, i)
  BY <1>1 DEF Inv, Good, Memory, Unmade, TypeOK
<1>4. ids \in SUBSET Ids /\ ids \subseteq {i}
  OBVIOUS
<1>5. ASSUME NEW j \in FindExisting(rows, req[i].tor, req[i].src),
             Become(MergeEnqueue(Memory, j, req[i].src # "file", ids))
      PROVE  Inv'
  <2> DEFINE m == MergeEnqueue(Memory, j, req[i].src # "file", ids)
  <2>1. j \in Jobs(rows)
    BY DEF FindExisting
  <2>2. KeepsAll(Memory, m, ids)
    BY <1>3, <1>4, <2>1, MergeEnqueueKeeps
  <2>3. req[i].play => Held(m, i)
    BY <2>2 DEF KeepsAll, Keeps
  <2> HIDE DEF m
  <2> QED
    BY <1>1, <1>4, <1>5, <2>2, <2>3, KeepsTurn DEF m
<1>6. ASSUME Become([Memory EXCEPT !.rows[i] = [NewRow(req[i]) EXCEPT !.pend = ids]])
      PROVE  Inv'
  <2> DEFINE row == [NewRow(req[i]) EXCEPT !.pend = ids]
             m == [Memory EXCEPT !.rows[i] = row]
  <2>1. row \in RowType /\ row.eng = "none" /\ row.pend = ids /\ row # None
    BY <1>2, <1>4, ConstantsAssumption DEF NewRow, RowType, Enqueues
  <2> HIDE DEF row
  <2>2. /\ m \in MemoryType /\ m.rows = [rows EXCEPT ![i] = row]
        /\ m.reply = reply /\ m.lost = abandoned
    BY <1>3, <2>1 DEF Memory, MemoryType, RowsType
  <2> HIDE DEF m
  <2>3. /\ Jobs(m.rows) = Jobs(rows) \cup {i} /\ m.rows[i] = row
        /\ \A k \in Jobs(rows) : k # i /\ m.rows[k] = rows[k] /\ m.rows[k] # None
    BY <1>3, <2>1, <2>2 DEF Jobs, RowsType
  <2>4. Good(m)
    <3>1. EngineOnce(m.rows)
      BY <1>3, <2>1, <2>3 DEF Good, EngineOnce
    <3>2. PendOnce(m.rows)
      BY <1>3, <1>4, <2>1, <2>3 DEF Good, PendOnce, Due
    <3> QED
      BY <2>2, <3>1, <3>2 DEF Good
  <2>5. \A k \in Ids : Due(m.rows, k) <=> Due(rows, k) \/ k \in ids
    BY <2>1, <2>3 DEF Due
  <2>6. \A k \in Ids : Held(Memory, k) \/ k \in ids => Held(m, k)
    BY <1>3, <2>2, <2>5 DEF Held, Memory
  <2> QED
    BY <1>1, <1>4, <1>6, <2>3, <2>4, <2>5, <2>6, TurnKeeps DEF m, row
<1> QED
  BY <1>5, <1>6 DEF HandleEnqueue

\* A stream is answered, or waits at the row it asks for.
LEMMA StreamKeeps ==
    ASSUME Inv, NEW i \in Ids, ProcessSpool(i), i \in spool, HandleStream(i, req[i])
    PROVE  Inv'
<1>1. Turn({i}) /\ Unmade(i) /\ req[i] # None
  BY Taken
<1>2. /\ Good(Memory) /\ Memory.rows = rows /\ Memory \in MemoryType
      /\ rows \in RowsType /\ ~Due(rows, i)
  BY <1>1 DEF Inv, Good, Memory, Unmade, TypeOK
<1>3. ASSUME NEW d, KeepsAll(Memory, d, {}), NEW what \in {"url", "error"},
             Become(Answer(d, {i}, what))
      PROVE  Inv'
  <2> DEFINE m == Answer(d, {i}, what)
  <2>1. Good(d) /\ d \in MemoryType
    BY <1>3 DEF KeepsAll, Keeps, Good
  <2>2. /\ m \in MemoryType /\ m.rows = d.rows /\ m.lost = d.lost
        /\ m.reply = [k \in Ids |-> IF k = i THEN what ELSE d.reply[k]]
    BY <2>1 DEF Answer, MemoryType
  <2> HIDE DEF m
  <2>3. Good(m) /\ \A k \in Ids : (Held(d, k) => Held(m, k)) /\ Held(m, i)
    BY <2>1, <2>2 DEF Good, Held
  <2>4. KeepsAll(Memory, m, {})
    BY <1>3, <2>2, <2>3 DEF KeepsAll, Keeps
  <2> QED
    BY <1>1, <1>3, <2>3, <2>4, KeepsTurn DEF m
<1>4. ASSUME NEW j \in FindExisting(rows, req[i].tor, req[i].src),
             NEW seen \in Sights(rows[j].eng),
             Become([[Memory EXCEPT !.rows[j].eng = seen]
                       EXCEPT !.rows[j].pend = @ \cup {i}, !.rows[j].since = TRUE])
      PROVE  Inv'
  <2> DEFINE row == [rows[j] EXCEPT !.eng = seen, !.pend = @ \cup {i}, !.since = TRUE]
             m == [Memory EXCEPT !.rows[j] = row]
  <2>1. j \in Jobs(rows) /\ rows[j] \in RowType
    BY <1>2 DEF FindExisting, Jobs, RowsType
  <2>2. seen \in {"none", "init", "live", "done"} /\ (seen # "none" => rows[j].eng # "none")
    BY <1>4, <2>1 DEF Sights, Live, RowType
  <2>3. /\ row \in RowType /\ row.tor = rows[j].tor /\ row.hash = rows[j].hash
        /\ row.eng = seen /\ row.pend = rows[j].pend \cup {i}
    BY <2>1, <2>2 DEF RowType
  <2>4. Become(m)
    BY <1>2, <1>4, <2>1 DEF Become, MemoryType, RowsType, RowType, Jobs
  <2> HIDE DEF row
  <2>5. KeepsAll(Memory, m, {i})
    BY <1>2, <2>1, <2>2, <2>3, MarkKeeps
  <2> HIDE DEF m
  <2> QED
    BY <1>1, <2>4, <2>5, KeepsTurn DEF KeepsAll, Keeps
<1>5. ASSUME NEW j \in FindExisting(rows, req[i].tor, req[i].src),
             NEW seen \in Sights(rows[j].eng)
      PROVE  KeepsAll(Memory, [Memory EXCEPT !.rows[j].eng = seen], {})
  <2>1. j \in Jobs(rows)
    BY DEF FindExisting
  <2> QED
    BY <1>2, <2>1, SightKeeps
<1>6. KeepsAll(Memory, Memory, {})
  BY <1>2, KeepsReflexive
<1> QED
  BY <1>3, <1>4, <1>5, <1>6 DEF HandleStream

\* A stop takes its row, and whoever waits there is dropped.
LEMMA StopKeeps ==
    ASSUME Inv, NEW i \in Ids, ProcessSpool(i), i \in spool,
           req[i].kind = "stop", HandleStop(req[i].job)
    PROVE  Inv'
<1> DEFINE j == req[i].job
           m == StopJob(Memory, j)
<1>1. Turn({i}) /\ req[i] # None /\ pc = "spool" /\ req[i] \in Requests
  BY Taken DEF ProcessSpool
<1>2. j \in Ids /\ ~req[i].play
  BY <1>1 DEF Requests, AllCommits, Enqueues, Streams, Stops
<1>3. /\ Good(Memory) /\ Memory.rows = rows /\ Memory \in MemoryType /\ rows \in RowsType
      /\ Stopped(j)
  BY <1>1 DEF Inv, Good, Memory, TypeOK, Stopped
<1>4. CASE rows[j] = None
  <2>1. Become(Memory)
    BY <1>4 DEF HandleStop, Become, Memory
  <2> QED
    BY <1>1, <1>2, <1>3, <2>1, KeepsReflexive, KeepsTurn
<1>5. CASE rows[j] # None
  <2>1. rows[j] \in RowType
    BY <1>2, <1>3, <1>5 DEF RowsType
  <2>2. /\ m \in MemoryType /\ m.rows = [rows EXCEPT ![j] = None] /\ m.reply = reply
        /\ m.lost = abandoned \cup (rows[j].pend \cap Awaited)
    BY <1>2, <1>3, <2>1 DEF StopJob, Memory, MemoryType, RowsType, RowType
  <2>3. Become(m)
    BY <1>5 DEF HandleStop
  <2> HIDE DEF m
  <2>4. /\ Jobs(m.rows) = Jobs(rows) \ {j}
        /\ \A k \in Jobs(rows) \ {j} : m.rows[k] = rows[k] /\ m.rows[k] # None
    BY <1>2, <1>3, <2>2 DEF Jobs, RowsType
  <2>5. Good(m)
    <3> HIDE DEF j
    <3>1. EngineOnce(m.rows)
      BY <1>3, <2>4 DEF Good, EngineOnce
    <3>2. PendOnce(m.rows)
      BY <1>3, <2>4 DEF Good, PendOnce
    <3> QED
      BY <2>2, <3>1, <3>2 DEF Good
  <2>6. \A k \in Ids : Due(m.rows, k) => Due(rows, k)
    BY <2>4 DEF Due
  <2>7. \A k \in Ids \cap Awaited : Held(Memory, k) => Held(m, k)
    BY <1>3, <2>2, <2>4 DEF Held, Due, Memory
  <2>8. pc \notin Merging /\ pc' # "poll"
    BY <1>1 DEF Merging, Turn
  <2> QED
    BY <1>1, <1>2, <1>3, <2>3, <2>4, <2>5, <2>6, <2>7, <2>8, TurnKeeps
<1> QED
  BY <1>4, <1>5

\* A file of the listing is handled and removed, or was gone already.
LEMMA ProcessKeeps == ASSUME Inv, NEW i \in Ids, ProcessSpool(i) PROVE Inv'
<1>1. CASE i \in spool
  BY <1>1, EnqueueKeeps, StreamKeeps, StopKeeps DEF ProcessSpool
<1>2. CASE i \notin spool
  <2>1. Turn({})
    BY <1>2 DEF ProcessSpool, Turn, Merging, clientVars, Inv, TypeOK
  <2>2. Become(Memory) /\ Good(Memory)
    BY <1>2 DEF ProcessSpool, Become, Memory, Inv
  <2> QED
    BY <2>1, <2>2, KeepsReflexive, KeepsTurn
<1> QED
  BY <1>1, <1>2

\* A torrent that is there gets an engine, or joins the row that has one.
LEMMA AddSucceededKeeps == ASSUME Inv, NEW j \in Ids, AddSucceeded(j) PROVE Inv'
<1>1. Good(Memory) /\ Memory.rows = rows /\ j \in Jobs(rows)
  BY DEF Inv, AddSucceeded, Memory, Jobs
<1>2. Turn({}) /\ pc' \in Merging /\ pc' # "poll"
  BY DEF AddSucceeded, Turn, daemonSteps, Merging, Inv, TypeOK
<1>3. ASSUME Duplicates(rows, j) = {} \/ j \in Duplicates(rows, j), Become(AddReady(Memory, j))
      PROVE  Inv'
  BY <1>1, <1>2, <1>3, AddReadyKeeps, KeepsTurn
<1>4. ASSUME NEW e \in Duplicates(rows, j) \ {j}, Become(MergeInto(Memory, e, j))
      PROVE  Inv'
  <2> DEFINE m == MergeInto(Memory, e, j)
  <2>1. e \in Jobs(rows) /\ e # j /\ rows[e].tor = rows[j].tor
    BY DEF Duplicates
  <2>2. Keeps(Memory, m, {}) /\ Jobs(m.rows) = Jobs(rows) \ {j}
    BY <1>1, <2>1, MergeIntoKeeps
  <2> HIDE DEF m
  <2>3. \A k \in Jobs(rows) \ {j} : m.rows[k] # None /\ m.rows[k].tor = rows[k].tor
    BY <1>1, <2>2 DEF Keeps, Jobs
  <2>4. e \in Jobs(m.rows) /\ m.rows[e].tor = rows[j].tor
    BY <2>1, <2>2, <2>3
  <2>5. /\ Good(m) /\ \A i \in Ids : Held(Memory, i) => Held(m, i)
        /\ \A i \in Ids : Due(m.rows, i) => Due(rows, i)
    BY <1>1, <2>2 DEF Keeps
  <2> QED
    BY <1>2, <1>4, <2>2, <2>3, <2>4, <2>5, TurnKeeps DEF m
<1> QED
  BY <1>3, <1>4 DEF AddSucceeded

\* Two operations in a row that take no row.
LEMMA KeepsAllThen ==
    ASSUME NEW d, NEW m, NEW n, KeepsAll(d, m, {}), KeepsAll(m, n, {})
    PROVE  KeepsAll(d, n, {})
  BY DEF KeepsAll, Keeps

\* A torrent that cannot be added fails its row.
LEMMA AddFailedKeeps == ASSUME Inv, NEW j \in Ids, AddFailed(j) PROVE Inv'
<1> DEFINE d == FailJob(Memory, j)
           row == [d.rows[j] EXCEPT !.add = FALSE]
           m == [d EXCEPT !.rows[j] = row]
<1>1. Good(Memory) /\ Memory.rows = rows /\ j \in Jobs(rows)
  BY DEF Inv, AddFailed, Memory, Jobs
<1>2. Turn({})
  BY ConstantsAssumption DEF AddFailed, Turn, daemonSteps, Merging, Inv, TypeOK
<1>3. KeepsAll(Memory, d, {})
  BY <1>1, FailJobKeeps
<1>4. Become(m)
  BY DEF AddFailed
<1> HIDE DEF d
<1>5. Good(d) /\ j \in Jobs(d.rows)
  BY <1>1, <1>3 DEF KeepsAll, Keeps
<1>6. d.rows[j] \in RowType
  BY <1>5 DEF Good, MemoryType, Jobs, RowsType
<1>7. /\ row \in RowType /\ row.tor = d.rows[j].tor /\ row.hash = d.rows[j].hash
      /\ row.eng = d.rows[j].eng /\ row.pend = d.rows[j].pend
  BY <1>6 DEF RowType
<1> HIDE DEF row
<1>8. KeepsAll(d, m, {})
  BY <1>5, <1>7, MarkKeeps
<1> HIDE DEF m
<1>9. KeepsAll(Memory, m, {})
  BY <1>3, <1>8, KeepsAllThen
<1> QED
  BY <1>2, <1>4, <1>9, KeepsTurn

\* A row whose engine was looked at, and whose responses were seen to, moves.
LEMMA TryMoveKeeps ==
    ASSUME Inv, NEW d, NEW j \in Jobs(d.rows), NEW held \in BOOLEAN,
           KeepsAll(Memory, d, {}), TryMove(d, j, held),
           faults' \in 0..MaxFaults => Turn({})
    PROVE  Inv'
<1>1. Good(d)
  BY DEF KeepsAll, Keeps
<1>2. Turn({})
  BY ConstantsAssumption DEF TryMove, Inv, TypeOK
<1>3. KeepsAll(d, Completed(d, j), {})
  BY <1>1, CompletedKeeps
<1>4. KeepsAll(d, [d EXCEPT !.rows[j].st = "failed"], {})
  <2> DEFINE row == [d.rows[j] EXCEPT !.st = "failed"]
  <2>1. d.rows[j] \in RowType
    BY <1>1 DEF Good, MemoryType, Jobs, RowsType
  <2>2. /\ row \in RowType /\ row.tor = d.rows[j].tor /\ row.hash = d.rows[j].hash
        /\ row.eng = d.rows[j].eng /\ row.pend = d.rows[j].pend
    BY <2>1 DEF RowType
  <2>3. [d EXCEPT !.rows[j].st = "failed"] = [d EXCEPT !.rows[j] = row]
    OBVIOUS
  <2> HIDE DEF row
  <2> QED
    BY <1>1, <2>2, <2>3, MarkKeeps
<1>5. \/ Become(d) \/ Become(Completed(d, j)) \/ Become([d EXCEPT !.rows[j].st = "failed"])
  BY DEF TryMove
<1>6. ASSUME NEW m, KeepsAll(d, m, {}), Become(m) PROVE Inv'
  BY <1>2, <1>6, KeepsAllThen, KeepsTurn
<1> QED
  BY <1>1, <1>3, <1>4, <1>5, <1>6, KeepsReflexive

\* What a pass listed has a row that is there until its turn.
LEMMA NextPollKeeps ==
    ASSUME Inv, NEW j \in Ids, NextPoll(j), faults' \in 0..MaxFaults
    PROVE  Turn({})
  BY DEF NextPoll, Turn, daemonSteps, Merging, Inv, TypeOK

\* The pass over a job sees its engine, its waits and its move.
LEMMA PollKeeps ==
    ASSUME Inv, NEW j \in Ids, NEW seen, NEW held \in BOOLEAN, PollJob(j, seen, held)
    PROVE  Inv'
<1> DEFINE n == [Memory EXCEPT !.rows[j].eng = seen]
<1>1. Good(Memory) /\ Memory.rows = rows /\ j \in Jobs(rows) /\ seen \in Sights(rows[j].eng)
  BY DEF Inv, Process, PollJob, NextPoll, Memory
<1>2. KeepsAll(Memory, n, {})
  BY <1>1, SightKeeps
<1>3. PICK d \in Gate(n, j) : TryMove(Progress(d, j), j, held)
  BY DEF PollJob
<1> HIDE DEF n
<1>4. Good(n) /\ j \in Jobs(n.rows)
  BY <1>1, <1>2 DEF KeepsAll, Keeps
<1>5. KeepsAll(n, d, {})
  BY <1>4, GateKeeps
<1>6. Good(d) /\ j \in Jobs(d.rows)
  BY <1>4, <1>5 DEF KeepsAll, Keeps
<1>7. KeepsAll(d, Progress(d, j), {})
  BY <1>6, ProgressKeeps
<1>8. KeepsAll(Memory, Progress(d, j), {})
  BY <1>2, <1>5, <1>7, KeepsAllThen
<1>9. j \in Jobs(Progress(d, j).rows)
  BY <1>6, <1>7 DEF KeepsAll
<1>10. faults' \in 0..MaxFaults => Turn({})
  BY NextPollKeeps DEF PollJob
<1> QED
  BY <1>3, <1>8, <1>9, <1>10, TryMoveKeeps

\* A pass that fails fails the job, or moves it, or does nothing.
LEMMA PollFailsKeeps == ASSUME Inv, NEW j \in Ids, PollFails(j) PROVE Inv'
<1> DEFINE d == FailJob(Memory, j)
           m == [d EXCEPT !.rows[j].eng = "none"]
<1>1. Good(Memory) /\ Memory.rows = rows /\ j \in Jobs(rows)
  BY DEF Inv, Process, PollFails, NextPoll, Memory
<1>2. Turn({})
  <2>1. faults' \in 0..MaxFaults
    BY ConstantsAssumption DEF PollFails, Inv, TypeOK
  <2> QED
    BY <2>1, NextPollKeeps DEF PollFails
<1>3. KeepsAll(Memory, d, {})
  BY <1>1, FailJobKeeps
<1>4. Become(m) \/ Become(Completed(Memory, j)) \/ Become(Memory)
  BY DEF PollFails
<1> HIDE DEF d
<1>5. KeepsAll(d, m, {})
  <2> DEFINE row == [d.rows[j] EXCEPT !.eng = "none"]
  <2>1. Good(d) /\ j \in Jobs(d.rows)
    BY <1>1, <1>3 DEF KeepsAll, Keeps
  <2>2. d.rows[j] \in RowType
    BY <2>1 DEF Good, MemoryType, Jobs, RowsType
  <2>3. /\ row \in RowType /\ row.tor = d.rows[j].tor /\ row.hash = d.rows[j].hash
        /\ row.eng = "none" /\ row.pend = d.rows[j].pend
    BY <2>2 DEF RowType
  <2>4. m = [d EXCEPT !.rows[j] = row]
    OBVIOUS
  <2> HIDE DEF row, m
  <2> QED
    BY <2>1, <2>3, <2>4, MarkKeeps
<1> HIDE DEF m
<1>6. KeepsAll(Memory, m, {})
  BY <1>3, <1>5, KeepsAllThen
<1>7. KeepsAll(Memory, Completed(Memory, j), {}) /\ KeepsAll(Memory, Memory, {})
  BY <1>1, CompletedKeeps, KeepsReflexive
<1> QED
  BY <1>2, <1>4, <1>6, <1>7, KeepsTurn

\* A daemon adopts the rows of the file; none has an engine or a wait yet.
LEMMA AdoptKeeps == ASSUME Inv, Adopt PROVE Inv'
<1> DEFINE found == IF file = None THEN NoRows ELSE file.rows
           adopted == [j \in Ids |-> IF found[j] # None /\ Active(found[j])
                                     THEN StartAdd(found[j]) ELSE found[j]]
<1>1. found \in RowsType /\ Bare(found)
  BY DEF Inv, TypeOK, Process, FileType, NoRows, RowsType, Bare, Jobs
<1>2. /\ rows' = adopted /\ file' = [live |-> TRUE, rows |-> Saved(adopted)]
      /\ pc = "boot" /\ pc' = "top"
      /\ UNCHANGED <<spool, req, reply, todo, shutdown, stopper, tui, waiting, current,
                     abandoned, faults>>
      /\ starting' \in BOOLEAN
  BY DEF Adopt
<1>3. \A i \in Ids : (req[i] = None \/ i \in spool) => found[i] = None
  BY DEF Inv, Requested, Unmade, NoRows
<1> HIDE DEF found
<1>4. ASSUME NEW j \in Ids
      PROVE  /\ adopted[j] = None <=> found[j] = None
             /\ adopted[j] # None => /\ adopted[j] \in RowType
                                     /\ adopted[j].eng = "none" /\ adopted[j].pend = {}
  <2>1. CASE found[j] = None
    BY <2>1
  <2>2. CASE found[j] # None
    <3>1. found[j] \in RowType /\ found[j].eng = "none" /\ found[j].pend = {}
      BY <1>1, <2>2 DEF RowsType, Bare, Jobs
    <3>2. /\ StartAdd(found[j]) \in RowType
          /\ StartAdd(found[j]).eng = "none" /\ StartAdd(found[j]).pend = {}
      BY <3>1 DEF StartAdd, RowType
    <3> QED
      BY <2>2, <3>1, <3>2, ConstantsAssumption
  <2> QED
    BY <2>1, <2>2
<1>5. adopted \in RowsType /\ Bare(adopted)
  BY <1>4 DEF RowsType, Bare, Jobs
<1>6. \A i \in Ids : (req[i] = None \/ i \in spool) => adopted[i] = None
  BY <1>3, <1>4
<1> HIDE DEF adopted
<1>7. /\ Saved(adopted) \in RowsType /\ Jobs(Saved(adopted)) = Jobs(adopted) /\ Bare(Saved(adopted))
      /\ \A j \in Jobs(adopted) : Saved(adopted)[j].tor = adopted[j].tor
      /\ \A i \in Ids : adopted[i] = None => Saved(adopted)[i] = None
  BY <1>5, SavedIsBare
<1>8. file' \in FileType /\ file'.rows = Saved(adopted)
  BY <1>2, <1>7 DEF FileType
<1>9. TypeOK'
  BY <1>2, <1>5, <1>8 DEF Inv, TypeOK
<1>10. Good(Memory)'
  <2>1. Memory' \in MemoryType /\ Memory'.rows = adopted
    BY <1>2, <1>5 DEF Inv, TypeOK, Memory, MemoryType
  <2>2. EngineOnce(adopted) /\ PendOnce(adopted)
    BY <1>5 DEF Bare, EngineOnce, PendOnce
  <2> QED
    BY <1>2, <2>1, <2>2 DEF Good, EngineOnce, PendOnce, Jobs, Memory
<1>11. Process'
  BY <1>2, <1>7, <1>8 DEF Inv, Process, Bare, Jobs
<1>12. Requested'
  BY <1>2, <1>5, <1>6, <1>7, <1>8 DEF Inv, Requested, Unmade, Due, Bare, Jobs
<1>13. Kept'
  <2>1. \A i \in Ids : ~Due(rows, i)
    BY <1>2 DEF Inv, Process, Due, NoRows, Jobs
  <2> QED
    BY <1>2, <2>1 DEF Inv, Kept, Held, Awaited, Memory
<1>14. Written'
  BY <1>2, <1>7, <1>8 DEF Written, Has, Jobs
<1> QED
  BY <1>9, <1>10, <1>11, <1>12, <1>13, <1>14 DEF Inv

\* It adopts every one of them.
LEMMA AdoptedStays ==
    ASSUME Inv, Adopt, file \in FileType, file # None, NEW j \in Ids, file.rows[j] # None
    PROVE  file' # None /\ file'.rows[j] # None
<1> DEFINE adopted == [k \in Ids |-> IF file.rows[k] # None /\ Active(file.rows[k])
                                     THEN StartAdd(file.rows[k]) ELSE file.rows[k]]
<1>1. \A k \in Ids : /\ file.rows[k] \in RowType \cup {None}
                     /\ file.rows[k] # None => StartAdd(file.rows[k]) \in RowType
  BY DEF FileType, RowsType, RowType, StartAdd
<1>2. adopted \in RowsType /\ adopted[j] # None
  BY <1>1, ConstantsAssumption DEF RowsType
<1>3. file' = [live |-> TRUE, rows |-> Saved(adopted)]
  BY DEF Adopt
<1> HIDE DEF adopted
<1>4. Saved(adopted) \in RowsType /\ Saved(adopted)[j] # None
  BY <1>2, SavedIsBare DEF Jobs
<1>5. file' \in FileType /\ file'.rows = Saved(adopted)
  BY <1>3, <1>4 DEF FileType
<1> QED
  BY <1>4, <1>5, ConstantsAssumption

\* Every step keeps the invariant.
LEMMA NextInv == Inv /\ [Next]_vars => Inv'
<1> SUFFICES ASSUME Inv, [Next]_vars PROVE Inv'
  OBVIOUS
<1>1. CASE UNCHANGED vars
  <2>1. Memory' = Memory
    BY <1>1 DEF vars, Memory
  <2> QED
    BY <1>1, <2>1 DEF vars, Inv, TypeOK, Memory, Good, EngineOnce, PendOnce, Jobs, MemoryType,
       Process, Bare, Requested, Unmade, Due, Kept, Awaited, Held, Written, Has, Stopped
<1>2. CASE Client
  BY <1>2, CommitKeeps, EnsureKeeps, CancelKeeps, WriteStopKeeps, TakeKeeps, GiveUpKeeps,
     RetryKeeps, RemoveOfflineKeeps, CliStartKeeps, SpawnKeeps, StartFailsKeeps,
     StopDaemonKeeps, WriteStoppedKeeps DEF Client
<1>3. CASE DaemonStep
  BY <1>3, AdoptKeeps, ListKeeps, SaveKeeps, ExitKeeps, ProcessKeeps, AddSucceededKeeps,
     AddFailedKeeps, PollFailsKeeps, PollKeeps, AddsDoneKeeps DEF DaemonStep
<1>4. CASE Crash
  BY <1>4, CrashKeeps
<1> QED
  BY <1>1, <1>2, <1>3, <1>4 DEF Next

\* The invariant holds in every reachable state.
LEMMA AlwaysInv == Spec => []Inv
  BY InitInv, NextInv, PTL DEF Spec

\* Every variable keeps its type.
THEOREM Types == Spec => []TypeOK
<1>1. Inv => TypeOK
  BY DEF Inv
<1> QED
  BY <1>1, AlwaysInv, PTL

\* No two rows of the daemon have an engine for one torrent (on_add_ready,
\* merge_into), so nobody else writes its cache.
THEOREM EnginesAreUnique == Spec => []OneEnginePerTorrent
<1>1. Inv => OneEnginePerTorrent
  BY DEF Inv, Good, EngineOnce, Memory, OneEnginePerTorrent
<1> QED
  BY <1>1, AlwaysInv, PTL

\* Whoever waits for a response is in the spool, answered, dropped by a stop
\* or with its process, or pending at one row (respond, pending_responses).
THEOREM WaitsAreNotForgotten == Spec => []WaitsAreKept
<1>1. Inv => WaitsAreKept
  <2> SUFFICES ASSUME Inv, NEW i \in waiting
               PROVE  \/ i \in spool \/ reply[i] # "none" \/ i \in abandoned
                      \/ \E j \in Jobs(rows) :
                           /\ i \in rows[j].pend
                           /\ \A e \in Jobs(rows) : i \in rows[e].pend => e = j
    BY DEF WaitsAreKept
  <2>1. i \in Ids \cap Awaited /\ req[i].play
    BY DEF Inv, TypeOK, Awaited, Requested
  <2>2. i \in spool \/ reply[i] # "none" \/ i \in abandoned \/ Due(rows, i)
    BY <2>1 DEF Inv, Kept, Held, Memory
  <2>3. PendOnce(rows)
    BY DEF Inv, Good, Memory
  <2> QED
    BY <2>1, <2>2, <2>3 DEF Due, PendOnce
<1> QED
  BY <1>1, AlwaysInv, PTL

\* A row leaves the file only when it was asked to, or was merged into one of
\* its torrent (write_state, remove_state, Daemon::new, `dl stop`).
THEOREM RowsAreNotLost == Spec => RowsStayOnDisk
<1> DEFINE Stays(j) ==
             \/ file' # None /\ file'.rows[j] # None
             \/ stopper # None /\ stopper' = None
             \/ Stopped(j)
             \/ /\ file' # None
                /\ \E e \in Jobs(file'.rows) : file'.rows[e].tor = file.rows[j].tor
             \/ pc = "dead" /\ ~Active(file.rows[j])
<1>1. Inv /\ [Next]_vars => (file # None => \A j \in Jobs(file.rows) : Stays(j))
  <2> SUFFICES ASSUME Inv, [Next]_vars, file # None, NEW j \in Jobs(file.rows)
               PROVE  Stays(j)
    OBVIOUS
  <2>1. /\ file \in FileType /\ rows \in RowsType /\ j \in Ids /\ file.rows[j] # None
        /\ file.rows[j] \in RowType
    BY DEF Inv, TypeOK, FileType, Jobs, RowsType
  <2>2. CASE file' = file
    BY <2>2 DEF Jobs
  <2>3. ASSUME NEW k \in Ids, RemoveJobOffline(k) PROVE Stays(j)
    <3> DEFINE left == [file.rows EXCEPT ![k] = None]
    <3>1. pc = "dead" /\ ~Active(file.rows[k])
      BY <2>3 DEF RemoveJobOffline
    <3>2. CASE j = k
      BY <3>1, <3>2
    <3>3. CASE j # k
      <4>1. left \in RowsType /\ left[j] # None /\ [file EXCEPT !.rows = left] \in FileType
        BY <2>1, <3>3 DEF RowsType, FileType
      <4>2. left # NoRows
        BY <2>1, <4>1 DEF NoRows
      <4>3. file' = [file EXCEPT !.rows = left]
        BY <2>3, <4>2 DEF RemoveJobOffline
      <4> HIDE DEF left
      <4> QED
        BY <2>1, <4>1, <4>3, ConstantsAssumption DEF FileType
    <3> QED
      BY <3>2, <3>3
  <2>4. CASE WriteStopped
    BY <2>4 DEF WriteStopped
  <2>5. CASE Adopt
    <3>1. file'.rows[j] # None /\ file' # None
      BY <2>1, <2>5, AdoptedStays
    <3> QED
      BY <3>1
  <2>6. CASE SaveState
    <3>0. /\ Saved(rows) \in RowsType /\ Jobs(Saved(rows)) = Jobs(rows)
          /\ \A e \in Jobs(rows) : Saved(rows)[e].tor = rows[e].tor
      BY <2>1, SavedIsBare
    <3>1. file' \in FileType /\ file'.rows = Saved(rows) /\ file' # None
      <4>1. file' = [live |-> TRUE, rows |-> Saved(rows)]
        BY <2>6 DEF SaveState
      <4>2. file' \in FileType /\ file'.rows = Saved(rows)
        BY <3>0, <4>1 DEF FileType
      <4> QED
        BY <4>2, ConstantsAssumption
    <3>2. Has(j)
      BY <2>6 DEF Inv, Written, SaveState
    <3> QED
      BY <2>1, <3>0, <3>1, <3>2 DEF Has, Jobs
  <2>7. CASE Exit
    <3>1. Has(j) /\ pc \notin Merging
      BY <2>7 DEF Inv, Written, Exit, Merging
    <3>2. CASE Stopped(j)
      BY <3>2
    <3>3. CASE rows[j] # None
      <4>1. rows # NoRows
        BY <2>1, <3>3 DEF NoRows
      <4>2. file' = [live |-> FALSE, rows |-> Saved(rows)]
        BY <2>7, <4>1 DEF Exit
      <4>3. Saved(rows) \in RowsType /\ Jobs(Saved(rows)) = Jobs(rows)
        BY <2>1, SavedIsBare
      <4>4. file' \in FileType /\ file'.rows = Saved(rows)
        BY <4>2, <4>3 DEF FileType
      <4> QED
        BY <2>1, <3>3, <4>3, <4>4, ConstantsAssumption DEF Jobs
    <3> QED
      BY <3>1, <3>2, <3>3 DEF Has
  <2>8. CASE Crash
    <3>1. file' \in FileType /\ file'.rows = file.rows
      BY <2>1, <2>8 DEF Crash, FileType
    <3> QED
      BY <2>1, <3>1, ConstantsAssumption
  <2>9. CASE Client /\ file' # file
    BY <2>3, <2>4, <2>9 DEF Client, Commit, EnsureDaemonStarted, CancelWait, TakeResponse,
       GiveUp,
       WriteStopRequest, RetryStream, CliStart, SpawnDaemon, StartFails, StopDaemon, daemonVars
  <2>10. CASE DaemonStep /\ file' # file
    BY <2>5, <2>6, <2>7, <2>10 DEF DaemonStep, ListSpool, ProcessSpool, AddSucceeded, AddFailed,
       PollFails, PollJob, NextPoll, AddsDone
  <2> QED
    BY <2>2, <2>8, <2>9, <2>10 DEF Next, vars
<1>2. Inv /\ [Next]_vars => [file # None => \A j \in Jobs(file.rows) : Stays(j)]_vars
  BY <1>1
<1> QED
  BY <1>2, AlwaysInv, PTL DEF Spec, RowsStayOnDisk, Stopped
=============================================================================
