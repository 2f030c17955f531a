--------------------------- MODULE DownloadDaemon ---------------------------
(***************************************************************************)
(* The torrent downloader daemon (src/core/dlctl.rs) and the processes     *)
(* that talk to it through files: the spool of requests, downloads.json    *)
(* with the rows and the pid, and one response file for each request that  *)
(* plays.  The clients are the TUI's commit path and wait window           *)
(* (src/ui/modals/paste/download.rs), the Downloads modal, `s2udio dl      *)
(* start` and `s2udio dl stop`.  A job is named by the request that made   *)
(* it: job_id and request_id stand for each other.  At most one daemon     *)
(* process exists at a time (see the README on two starts at once).        *)
(***************************************************************************)
EXTENDS Naturals, FiniteSets

CONSTANTS
    Torrents,       \* torrents, told apart by their infohash
    Commits,        \* the requests a user may commit
    MaxRequests,    \* bound on the requests written to the spool
    MaxFaults,      \* bound on crashes, failed adds, dead engines, failed
                    \* moves, failed starts and `dl stop`
    None

\* A magnet link has its infohash, a .torrent file only once it was scanned.
Sources == {"magnet", "file", "scanned"}

Enqueue(t, s, p) == [kind |-> "enqueue", tor |-> t, src |-> s, play |-> p, again |-> FALSE]
Stream(t, s, again) == [kind |-> "stream", tor |-> t, src |-> s, play |-> TRUE, again |-> again]
Stop(j) == [kind |-> "stop", job |-> j, play |-> FALSE]

Enqueues ==
    [kind : {"enqueue"}, tor : Torrents, src : Sources, play : BOOLEAN, again : {FALSE}]
Streams(again) ==
    [kind : {"stream"}, tor : Torrents, src : Sources, play : {TRUE}, again : {again}]
AllCommits == Enqueues \cup Streams(FALSE)

Ids == 1..MaxRequests

Stops == [kind : {"stop"}, job : Ids, play : {FALSE}]
Requests == AllCommits \cup Streams(TRUE) \cup Stops

\* JobRuntime: the torrent, whether the source is a magnet link, whether the
\* infohash is known, the status, the engine (none, checking its cache, live,
\* finished), an add under way, pending_responses, pending_since is set.
RowType ==
    [tor : Torrents, key : BOOLEAN, hash : BOOLEAN,
     st : {"adding", "downloading", "moving", "completed", "failed"},
     eng : {"none", "init", "live", "done"}, add : BOOLEAN, pend : SUBSET Ids, since : BOOLEAN]
RowsType == [Ids -> RowType \cup {None}]
FileType == [live : BOOLEAN, rows : RowsType]

ASSUME ConstantsAssumption ==
    /\ Commits \subseteq AllCommits
    /\ MaxRequests \in Nat /\ MaxFaults \in Nat
    /\ None \notin Nat /\ None \notin Requests
    /\ None \notin RowType /\ None \notin RowsType /\ None \notin FileType

VARIABLES
    spool,      \* dl-jobs: the requests whose file is there
    req,        \* what each request says, None until it is written
    reply,      \* dl-responses: "none", "url" or "error"
    file,       \* downloads.json: None, or its rows and whether its pid lives
    pc,         \* the daemon process, "dead" when there is none
    rows,       \* Daemon::runtimes, None where there is no such job
    todo,       \* the spool files, or jobs, the current pass has listed
    shutdown,   \* SHUTDOWN: the process has had SIGTERM
    stopper,    \* `dl stop`: None, or the rows it read before it killed
    starting,   \* a start_daemon_for_tui is under way
    tui,        \* the request whose commit has yet to look for the daemon
    waiting,    \* requests whose wait_for_response runs
    current,    \* ctx.dl_wait: the wait that has the window, or None
    abandoned,  \* requests whose pending response was dropped unanswered
    faults

vars == <<spool, req, reply, file, pc, rows, todo, shutdown, stopper, starting,
          tui, waiting, current, abandoned, faults>>

clientVars == <<stopper, starting, tui, waiting, current>>

NoRows == [j \in Ids |-> None]
Jobs(rs) == {j \in Ids : rs[j] # None}

Init ==
    /\ spool = {}
    /\ req = [i \in Ids |-> None]
    /\ reply = [i \in Ids |-> "none"]
    /\ file = None
    /\ pc = "dead" /\ rows = NoRows /\ todo = {} /\ shutdown = FALSE
    /\ stopper = None /\ starting = FALSE /\ tui = None
    /\ waiting = {} /\ current = None
    /\ abandoned = {}
    /\ faults = 0

\* daemon_running(read_state())
Running == file # None /\ file.live

(***************************************************************************)
(* Rows                                                                    *)
(***************************************************************************)
Active(row) == row.st \in {"adding", "downloading", "moving"}

\* ready_to_respond
EngineReady(row) == row.eng # "none" /\ ~row.add

\* start_add: the previous engine stays where it is.
StartAdd(row) == [row EXCEPT !.st = "adding", !.add = TRUE]

NewRow(r) ==
    [tor |-> r.tor, key |-> r.src = "magnet", hash |-> r.src # "file",
     st |-> "adding", eng |-> "none", add |-> TRUE,
     pend |-> {}, since |-> FALSE]

\* What downloads.json keeps of the rows.
Saved(rs) ==
    [j \in Ids |-> IF rs[j] = None THEN None
                   ELSE [rs[j] EXCEPT !.eng = "none", !.add = FALSE,
                                      !.pend = {}, !.since = FALSE]]

\* What the daemon may find an engine at that it last saw at eng: checking the
\* cache, live, or finished with every kept file.
Live == {"live", "done"}
Sights(eng) ==
    CASE eng = "none" -> {"none"} [] eng = "init" -> {"init"} \cup Live
      [] eng = "live" -> Live [] eng = "done" -> {"done"}

HasWork(rs) ==
    \E j \in Jobs(rs) : Active(rs[j]) \/ rs[j].add \/ rs[j].pend # {}

\* find_existing: by infohash, else by source key while the row has none.
FindExisting(rs, tor, src) ==
    LET byHash == {j \in Jobs(rs) : src # "file" /\ rs[j].hash /\ rs[j].tor = tor}
        byKey == {j \in Jobs(rs) : /\ ~rs[j].hash /\ rs[j].tor = tor
                                   /\ rs[j].key = (src = "magnet")}
    IN  IF byHash # {} THEN byHash ELSE byKey

\* Somebody waits, or is about to.
Awaited == waiting \cup {tui}

\* The daemon's memory with the files and waits it answers: operations below
\* take and give such a record.
Memory == [rows |-> rows, reply |-> reply, lost |-> abandoned]

Become(d) == rows' = d.rows /\ reply' = d.reply /\ abandoned' = d.lost

Answer(d, ids, what) ==
    [d EXCEPT !.reply = [i \in Ids |-> IF i \in ids THEN what ELSE d.reply[i]]]

\* respond, or push to pending_responses; d.rows[j] may give the answer or not.
AnswerOrQueue(d, j, ids) ==
    IF EngineReady(d.rows[j]) THEN Answer(d, ids, "url")
    ELSE [d EXCEPT !.rows[j].pend = @ \cup ids]

\* Every pending response of j is answered and forgotten.
AnswerPending(d, j, what) ==
    Answer([d EXCEPT !.rows[j].pend = {}, !.rows[j].since = FALSE], d.rows[j].pend, what)

\* Failing with pending responses leaves pending_since as it is.
FailJob(d, j) ==
    [Answer([d EXCEPT !.rows[j].pend = {}], d.rows[j].pend, "error")
       EXCEPT !.rows[j].st = "failed"]

\* Faulty: an inactive job is only marked.
MergeEnqueueMarked(d, j, hashed, ids) ==
    LET row == [d.rows[j] EXCEPT !.hash = @ \/ hashed, !.st = IF Active(d.rows[j]) THEN @ ELSE "adding"]
    IN  AnswerOrQueue([d EXCEPT !.rows[j] = row], j, ids)

\* merge_enqueue: an inactive job is added again; other files may be kept now.
MergeEnqueue(d, j, hashed, ids) ==
    LET row == [d.rows[j] EXCEPT !.hash = @ \/ hashed, !.eng = IF @ = "done" THEN "live" ELSE @]
        kept == IF Active(row) THEN row ELSE StartAdd(row)
    IN  AnswerOrQueue([d EXCEPT !.rows[j] = kept], j, ids)

\* Faulty: the waits of the duplicate go with it.
MergeIntoSilently(d, e, j) ==
    [MergeEnqueue(d, e, FALSE, {}) EXCEPT !.rows[j] = None]

\* merge_into: row j goes, its kept files and waits to row e.
MergeInto(d, e, j) ==
    LET pend == d.rows[j].pend
        merged == MergeEnqueue(d, e, FALSE, {})
    IN  AnswerOrQueue([merged EXCEPT !.rows[j] = None], e, pend)

\* stop_job: the row goes at once; whoever waits for it gets no answer.
StopJob(d, j) ==
    [d EXCEPT !.rows[j] = None, !.lost = @ \cup (d.rows[j].pend \cap Awaited)]

(***************************************************************************)
(* The clients                                                             *)
(***************************************************************************)
Unwritten == {i \in Ids : req[i] = None}

\* Request ids are used in order; the files' random names are not modelled,
\* the daemon takes them in any order.
NextId(i) == i \in Unwritten /\ \A k \in Unwritten : i <= k

Write(i, r) ==
    /\ req' = [req EXCEPT ![i] = r]
    /\ spool' = spool \cup {i}

daemonVars == <<reply, file, pc, rows, todo, shutdown, abandoned>>

\* commit_to_daemon, stream_via_daemon and stream_daemon_job: the request is
\* written before the daemon is looked for.
Commit(i, r) ==
    /\ tui = None /\ NextId(i)
    /\ Write(i, r)
    /\ tui' = i
    /\ UNCHANGED <<daemonVars, stopper, starting, waiting, current, faults>>

\* ensure_daemon_started, then the wait window for a request that plays.
EnsureDaemonStarted ==
    /\ tui # None
    /\ starting' = (starting \/ ~Running)
    /\ tui' = None
    /\ IF req[tui].play
       THEN waiting' = waiting \cup {tui} /\ current' = tui
       ELSE UNCHANGED <<waiting, current>>
    /\ UNCHANGED <<daemonVars, spool, req, stopper, faults>>

\* The wait window is closed: a stop for its request, and the watcher ends.
CancelWait(i) ==
    /\ tui = None /\ current # None /\ NextId(i)
    /\ Write(i, Stop(current))
    /\ waiting' = waiting \ {current}
    /\ current' = None
    /\ UNCHANGED <<daemonVars, stopper, starting, tui, faults>>

\* "Stop download" on an active row, "Remove from list" on another while a
\* daemon is there.
WriteStopRequest(i, j) ==
    /\ tui = None /\ NextId(i)
    /\ file # None /\ file.rows[j] # None
    /\ Active(file.rows[j]) \/ Running
    /\ Write(i, Stop(j))
    /\ UNCHANGED <<daemonVars, clientVars, faults>>

\* remove_job_offline, without a daemon or a start: see the README for the
\* start that comes between its check and its write.
RemoveJobOffline(j) ==
    /\ tui = None /\ ~starting /\ pc = "dead" /\ stopper = None
    /\ file # None /\ file.rows[j] # None /\ ~Active(file.rows[j])
    /\ LET left == [file.rows EXCEPT ![j] = None] IN
       file' = IF left = NoRows THEN None ELSE [file EXCEPT !.rows = left]
    /\ UNCHANGED <<spool, req, reply, pc, rows, todo, shutdown, abandoned, clientVars, faults>>

EndWait(i) ==
    /\ waiting' = waiting \ {i}
    /\ current' = IF current = i THEN None ELSE current

\* take_response; on_dl_wait_ready plays what the current wait was given.
TakeResponse(i) ==
    /\ i \in waiting /\ reply[i] # "none"
    /\ reply' = [reply EXCEPT ![i] = "none"]
    /\ EndWait(i)
    /\ UNCHANGED <<spool, req, file, pc, rows, todo, shutdown, abandoned, stopper, starting, tui, faults>>

\* The probe of the URL failed: retry_daemon_stream asks once more, for a job
\* that is active in the file.
RetryStream(i, k) ==
    /\ tui = None /\ current = i /\ i \in waiting /\ reply[i] = "url" /\ NextId(k)
    /\ file # None
    /\ \E j \in Jobs(file.rows) : Active(file.rows[j]) /\ file.rows[j].tor = req[i].tor
    /\ ~req[i].again
    /\ reply' = [reply EXCEPT ![i] = "none"]
    /\ Write(k, Stream(req[i].tor, req[i].src, TRUE))
    /\ waiting' = (waiting \ {i}) \cup {k}
    /\ current' = k
    /\ UNCHANGED <<file, pc, rows, todo, shutdown, abandoned, stopper, starting, tui, faults>>

\* No live daemon, 25 s after the wait began: longer than a start may take.
GiveUp(i) ==
    /\ i \in waiting /\ reply[i] = "none"
    /\ ~Running /\ ~starting /\ tui = None
    /\ EndWait(i)
    /\ UNCHANGED <<daemonVars, spool, req, stopper, starting, tui, faults>>

\* `s2udio dl start`, which starts a daemon for what it finds in the files.
CliStart ==
    /\ ~starting /\ ~Running
    /\ starting' = TRUE
    /\ UNCHANGED <<daemonVars, spool, req, stopper, tui, waiting, current, faults>>

\* start_daemon_for_tui: nothing to do, or the process is spawned.
SpawnDaemon ==
    /\ starting /\ stopper = None
    /\ IF Running
       THEN starting' = FALSE /\ UNCHANGED pc
       ELSE pc = "dead" /\ pc' = "boot" /\ UNCHANGED starting
    /\ UNCHANGED <<spool, req, reply, file, rows, todo, shutdown, stopper, tui, waiting,
                   current, abandoned, faults>>

\* No READY line: the child is killed.  on_dl_daemon_started ends the open
\* wait and takes its request back; a download-only commit stays spooled.
StartFails ==
    /\ pc = "boot" /\ faults < MaxFaults
    /\ faults' = faults + 1
    /\ pc' = "dead" /\ rows' = NoRows /\ starting' = FALSE
    /\ spool' = spool \ {current}
    /\ waiting' = waiting \ {current}
    /\ current' = None
    /\ UNCHANGED <<req, reply, file, todo, shutdown, stopper, tui, abandoned>>

\* `s2udio dl stop`: the state is read, then the process is signalled.
StopDaemon ==
    /\ stopper = None /\ Running /\ faults < MaxFaults
    /\ faults' = faults + 1
    /\ stopper' = file.rows
    /\ shutdown' = TRUE
    /\ UNCHANGED <<spool, req, reply, file, pc, rows, todo, starting, tui, waiting, current,
                   abandoned>>

\* The process is gone: what was read before it went is written.
WriteStopped ==
    /\ stopper # None /\ pc = "dead"
    /\ file' = [live |-> FALSE, rows |-> stopper]
    /\ stopper' = None
    /\ UNCHANGED <<spool, req, reply, pc, rows, todo, shutdown, starting, tui, waiting,
                   current, abandoned, faults>>

(***************************************************************************)
(* The daemon                                                              *)
(***************************************************************************)
daemonSteps == <<spool, req, stopper, starting, tui, waiting, current>>

\* Faulty: a restart forgets the rows that have ended.
AdoptActiveOnly ==
    /\ pc = "boot"
    /\ LET found == IF file = None THEN NoRows ELSE file.rows
           adopted == [j \in Ids |-> IF found[j] # None /\ Active(found[j])
                                     THEN StartAdd(found[j]) ELSE None]
       IN  rows' = adopted /\ file' = [live |-> TRUE, rows |-> Saved(adopted)]
    /\ pc' = "top" /\ starting' = FALSE
    /\ UNCHANGED <<spool, req, reply, todo, shutdown, stopper, tui, waiting, current,
                   abandoned, faults>>

\* Daemon::new, then run: the rows of a daemon that died are added again, the
\* file has the new pid, READY is printed.
Adopt ==
    /\ pc = "boot"
    /\ LET found == IF file = None THEN NoRows ELSE file.rows
           adopted == [j \in Ids |-> IF found[j] # None /\ Active(found[j])
                                     THEN StartAdd(found[j]) ELSE found[j]]
       IN  /\ rows' = adopted
           /\ file' = [live |-> TRUE, rows |-> Saved(adopted)]
    /\ pc' = "top"
    /\ starting' = FALSE
    /\ UNCHANGED <<spool, req, reply, todo, shutdown, stopper, tui, waiting, current,
                   abandoned, faults>>

\* The top of the loop, and the listing of process_spool.
ListSpool ==
    /\ pc = "top"
    /\ todo' = IF shutdown THEN {} ELSE spool
    /\ pc' = IF shutdown THEN "exit" ELSE IF spool = {} THEN "adds" ELSE "spool"
    /\ UNCHANGED <<daemonSteps, reply, file, rows, shutdown, abandoned, faults>>

HandleEnqueue(i, r) ==
    LET found == FindExisting(rows, r.tor, r.src)
        ids == IF r.play THEN {i} ELSE {}
    IN  \/ \E j \in found : Become(MergeEnqueue(Memory, j, r.src # "file", ids))
        \/ /\ found = {}
           /\ Become([Memory EXCEPT !.rows[i] = [NewRow(r) EXCEPT !.pend = ids]])

\* Answered at once by an engine that is live; queued while the job is at work.
HandleStream(i, r) ==
    LET found == FindExisting(rows, r.tor, r.src) IN
    \/ found = {} /\ Become(Answer(Memory, {i}, "error"))
    \/ \E j \in found : \E seen \in Sights(rows[j].eng) :
         LET d == [Memory EXCEPT !.rows[j].eng = seen] IN
         IF EngineReady(d.rows[j]) /\ seen \in Live
         THEN Become(Answer(d, {i}, "url"))
         ELSE IF Active(rows[j]) \/ rows[j].add
              THEN Become([d EXCEPT !.rows[j].pend = @ \cup {i}, !.rows[j].since = TRUE])
              ELSE Become(Answer(d, {i}, "error"))

\* Stop and Remove: without such a job nothing happens.
HandleStop(j) ==
    IF rows[j] = None THEN UNCHANGED <<rows, reply, abandoned>>
    ELSE Become(StopJob(Memory, j))

\* One file of the listing: handle_request, then the file is removed.
ProcessSpool(i) ==
    /\ pc = "spool" /\ i \in todo
    /\ todo' = todo \ {i}
    /\ pc' = IF todo' = {} THEN "adds" ELSE "spool"
    /\ spool' = spool \ {i}
    /\ IF i \notin spool THEN UNCHANGED <<rows, reply, abandoned>>
       ELSE \/ req[i].kind = "enqueue" /\ HandleEnqueue(i, req[i])
            \/ req[i].kind = "stream" /\ HandleStream(i, req[i])
            \/ req[i].kind = "stop" /\ HandleStop(req[i].job)
    /\ UNCHANGED <<req, file, shutdown, clientVars, faults>>

\* Faulty: a row whose own infohash was unknown is not compared.
DuplicatesByOwnHash(rs, j) ==
    {e \in Jobs(rs) : rs[j].hash /\ rs[e].hash /\ rs[e].tor = rs[j].tor /\ rs[e].eng # "none"}

\* Another row with the engine of row j's torrent.
Duplicates(rs, j) ==
    {e \in Jobs(rs) : rs[e].hash /\ rs[e].tor = rs[j].tor /\ rs[e].eng # "none"}

WithEngine(row) ==
    [row EXCEPT !.hash = TRUE, !.eng = "init", !.add = FALSE, !.st = "downloading",
                !.since = @ \/ row.pend # {}]

\* on_add_ready: a duplicate is merged, else the row takes the new engine.
AddReady(d, j) ==
    [d EXCEPT !.rows[j] = WithEngine(@)]

\* resume_adds finds the outcome of an add thread.
AddSucceeded(j) ==
    /\ pc = "adds" /\ rows[j] # None /\ rows[j].add
    /\ LET others == Duplicates(rows, j) IN
       \/ (others = {} \/ j \in others) /\ Become(AddReady(Memory, j))
       \/ \E e \in others \ {j} : Become(MergeInto(Memory, e, j))
    /\ UNCHANGED <<daemonSteps, file, pc, todo, shutdown, faults>>

AddFailed(j) ==
    /\ pc = "adds" /\ rows[j] # None /\ rows[j].add
    /\ faults < MaxFaults
    /\ faults' = faults + 1
    /\ Become([FailJob(Memory, j) EXCEPT !.rows[j].add = FALSE])
    /\ UNCHANGED <<daemonSteps, file, pc, todo, shutdown>>

\* poll_jobs runs in this iteration when a second has passed since the last.
AddsDone(poll) ==
    /\ pc = "adds"
    /\ todo' = IF poll THEN {j \in Jobs(rows) : rows[j].eng # "none"} ELSE {}
    /\ pc' = IF todo' = {} THEN "save" ELSE "poll"
    /\ UNCHANGED <<daemonSteps, reply, file, rows, shutdown, abandoned, faults>>

\* Whether the responses are ready: the torrent is live, and the first file
\* of each has data, which it has once the torrent is finished.
PendingReady(eng) == {r \in BOOLEAN : (r => eng \in Live) /\ (eng = "done" => r)}

\* pending_gate: answered, left to wait, or out of time.
Gate(d, j) ==
    LET row == d.rows[j] IN
    IF row.pend = {} THEN {d}
    ELSE UNION {IF r THEN {AnswerPending(d, j, "url")}
                ELSE {d} \cup (IF row.since THEN {AnswerPending(d, j, "error")} ELSE {})
                : r \in PendingReady(row.eng)}

\* Finished with every kept file: moving; not any more: downloading.
Progress(d, j) ==
    [d EXCEPT !.rows[j].st = IF d.rows[j].eng = "done" THEN "moving"
                             ELSE IF @ = "moving" THEN "downloading" ELSE @]

Completed(d, j) ==
    [d EXCEPT !.rows[j].st = "completed", !.rows[j].eng = "none", !.rows[j].add = FALSE]

\* try_move: held while the TUI streams the job, else it succeeds or fails.
TryMove(d, j, held) ==
    IF d.rows[j].st # "moving" \/ held THEN Become(d) /\ UNCHANGED faults
    ELSE \/ Become(Completed(d, j)) /\ UNCHANGED faults
         \/ /\ faults < MaxFaults /\ faults' = faults + 1
            /\ Become([d EXCEPT !.rows[j].st = "failed"])

NextPoll(j) ==
    /\ pc = "poll" /\ j \in todo
    /\ todo' = todo \ {j}
    /\ pc' = IF todo' = {} THEN "save" ELSE "poll"
    /\ UNCHANGED <<daemonSteps, file, shutdown>>

\* Faulty: the move comes before the responses.
PollJobMoveFirst(j, seen, held) ==
    /\ NextPoll(j)
    /\ seen \in Sights(rows[j].eng)
    /\ LET d == [Memory EXCEPT !.rows[j].eng = seen] IN
       IF seen = "done" /\ ~held THEN TryMove(Progress(d, j), j, held)
       ELSE \E g \in Gate(d, j) : TryMove(Progress(g, j), j, held)

\* The pass over one job whose engine gives its stats.
PollJob(j, seen, held) ==
    /\ NextPoll(j)
    /\ seen \in Sights(rows[j].eng)
    /\ \E d \in Gate([Memory EXCEPT !.rows[j].eng = seen], j) :
         TryMove(Progress(d, j), j, held)

\* The engine is dead, or does not answer: then only a due move goes on.
PollFails(j) ==
    /\ NextPoll(j)
    /\ faults < MaxFaults
    /\ faults' = faults + 1
    /\ \/ Become([FailJob(Memory, j) EXCEPT !.rows[j].eng = "none"])
       \/ Become(IF rows[j].st = "moving" THEN Completed(Memory, j) ELSE Memory)

\* write_state, and the end of the loop.
SaveState ==
    /\ pc = "save"
    /\ file' = [live |-> TRUE, rows |-> Saved(rows)]
    /\ pc' = IF HasWork(rows) THEN "top" ELSE "exit"
    /\ UNCHANGED <<daemonSteps, reply, rows, todo, shutdown, abandoned, faults>>

\* The process ends, and with it the engines and the responses due.
Gone ==
    /\ pc' = "dead" /\ rows' = NoRows /\ todo' = {} /\ shutdown' = FALSE
    /\ abandoned' = abandoned \cup (Awaited \cap UNION {rows[j].pend : j \in Jobs(rows)})

\* Without rows the file is removed, unless the daemon was told to stop.
Exit ==
    /\ pc = "exit"
    /\ file' = IF ~shutdown /\ rows = NoRows THEN None
               ELSE [live |-> FALSE, rows |-> Saved(rows)]
    /\ Gone
    /\ UNCHANGED <<daemonSteps, reply, faults>>

\* A crash, or the SIGKILL of a `dl stop` that has waited long enough.
Crash ==
    /\ pc \notin {"dead", "boot"}
    /\ \/ faults < MaxFaults /\ faults' = faults + 1
       \/ stopper # None /\ UNCHANGED faults
    /\ file' = [file EXCEPT !.live = FALSE]
    /\ Gone
    /\ UNCHANGED <<daemonSteps, reply>>

(***************************************************************************)
Client ==
    \/ \E i \in Ids, r \in Commits : Commit(i, r)
    \/ EnsureDaemonStarted
    \/ \E i \in Ids : CancelWait(i) \/ TakeResponse(i) \/ GiveUp(i)
    \/ \E i, j \in Ids : WriteStopRequest(i, j) \/ RetryStream(i, j)
    \/ \E j \in Ids : RemoveJobOffline(j)
    \/ CliStart \/ SpawnDaemon \/ StartFails \/ StopDaemon \/ WriteStopped

DaemonStep ==
    \/ Adopt \/ ListSpool \/ SaveState \/ Exit
    \/ \E i \in Ids :
         \/ ProcessSpool(i) \/ AddSucceeded(i) \/ AddFailed(i) \/ PollFails(i)
         \/ \E seen \in Live \cup {"init"}, held \in BOOLEAN : PollJob(i, seen, held)
    \/ \E poll \in BOOLEAN : AddsDone(poll)

Next == Client \/ DaemonStep \/ Crash

Spec == Init /\ [][Next]_vars

\* The daemon's loop goes on and polls again and again; what a client has
\* begun it goes on with; adds end, the peers deliver and streams end.
Fairness ==
    /\ WF_vars(DaemonStep) /\ SF_vars(AddsDone(TRUE))
    /\ \A j \in Ids : SF_vars(AddSucceeded(j)) /\ SF_vars(PollJob(j, "done", FALSE))
    /\ WF_vars(EnsureDaemonStarted) /\ WF_vars(SpawnDaemon) /\ WF_vars(WriteStopped)
    /\ \A i \in Ids : WF_vars(TakeResponse(i)) /\ WF_vars(GiveUp(i))

FairSpec == Spec /\ Fairness

(***************************************************************************)
(* Properties                                                              *)
(***************************************************************************)
TypeOK ==
    /\ spool \subseteq Ids /\ todo \subseteq Ids
    /\ waiting \subseteq Ids /\ abandoned \subseteq Ids
    /\ reply \in [Ids -> {"none", "url", "error"}]
    /\ pc \in {"dead", "boot", "top", "spool", "adds", "poll", "save", "exit"}
    /\ rows \in RowsType
    /\ req \in [Ids -> Requests \cup {None}]
    /\ file \in FileType \cup {None}
    /\ stopper \in RowsType \cup {None}
    /\ shutdown \in BOOLEAN /\ starting \in BOOLEAN
    /\ tui \in Ids \cup {None} /\ current \in Ids \cup {None}
    /\ faults \in 0..MaxFaults

\* Two engines never write the cache of one torrent: no two rows of the
\* daemon have an engine for the same infohash, whatever the commits knew of
\* it when they were made, and whatever was merged, failed or revived since.
OneEnginePerTorrent ==
    \A j, e \in Jobs(rows) :
      rows[j].eng # "none" /\ rows[e].eng # "none" /\ rows[j].tor = rows[e].tor => j = e

\* A wait is never forgotten by a living daemon: what the daemon took from
\* the spool and has not answered is a pending response of one row, unless
\* its row was stopped or an earlier process died with it.
WaitsAreKept ==
    \A i \in waiting :
      \/ i \in spool \/ reply[i] # "none" \/ i \in abandoned
      \/ \E j \in Jobs(rows) : /\ i \in rows[j].pend
                               /\ \A e \in Jobs(rows) : i \in rows[e].pend => e = j

\* A row leaves downloads.json only when it is asked to, when it turns out to
\* be another row's torrent, or when `dl stop` writes what it had read: a
\* daemon that crashes, restarts, or ends loses no row it had written.
RowsStayOnDisk ==
    [][file # None =>
         \A j \in Jobs(file.rows) :
           \/ file' # None /\ file'.rows[j] # None
           \/ stopper # None /\ stopper' = None
           \/ \E i \in Ids : req[i] # None /\ req[i].kind = "stop" /\ req[i].job = j
           \/ /\ file' # None
              /\ \E e \in Jobs(file'.rows) : file'.rows[e].tor = file.rows[j].tor
           \/ pc = "dead" /\ ~Active(file.rows[j])]_vars

\* The daemon brings every download to an end: an active row gets complete,
\* fails, is stopped, or the process ends.
DownloadsEnd ==
    \A j \in Ids : (pc = "top" /\ rows[j] # None /\ Active(rows[j]))
                     ~> (pc = "dead" \/ rows[j] = None \/ ~Active(rows[j]))

\* A response that waits for an engine is answered: with URLs, or with the
\* error of the 60 s, whichever engine or row it was handed on to.
PendingIsAnswered ==
    \A i, j \in Ids : (rows[j] # None /\ i \in rows[j].pend /\ rows[j].st = "downloading")
                     ~> (pc = "dead" \/ reply[i] # "none" \/ i \in abandoned \/ i \notin waiting)

\* dlctl.rs:4 "must COMPLETE even when the TUI exits": a commit in the spool
\* is taken up.
CommitsAreTaken == \A i \in Ids : i \in spool ~> i \notin spool

\* dlctl.rs:899 "`None` = nothing waiting": the clock runs for a wait.
ClockMeansWaiting == \A j \in Jobs(rows) : rows[j].since => rows[j].pend # {}

\* dlctl.rs:31 the move is "deferred while the TUI is streaming": no engine
\* is moved away from a URL that its player has yet to take.
MoveSparesThePlayer ==
    [][\A j \in Jobs(rows) :
         rows[j].st # "completed" /\ rows'[j] # None /\ rows'[j].st = "completed"
           => ~\E i \in waiting : reply'[i] = "url" /\ req[i].tor = rows[j].tor]_vars
=============================================================================
