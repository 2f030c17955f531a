------------------------------ MODULE Caretaker ------------------------------
(***************************************************************************)
(* The daemon's queue caretaker: core/daemon/caretaker.rs, driven by       *)
(* watcher_loop and poll_once of core/daemon/server.rs.  While no TUI is   *)
(* attached it resolves the web links of the next few rows of MPD's queue  *)
(* and swaps each row for its stream, with three calls to MPD that anybody *)
(* else may come between: read the queue, delete the row, add the stream   *)
(* where the row was.                                                      *)
(*                                                                         *)
(* A row is an id, the link it came from and what its file is: the link    *)
(* itself, a stream that answers, or one that needs another resolve.  What *)
(* a resolve yields, the proxy registration and the yt-info.json entry are *)
(* not told apart.                                                         *)
(***************************************************************************)
EXTENDS Naturals, Sequences, SequencesExt, FiniteSets

CONSTANTS
    Links,          \* web links
    NoSong,         \* MPD has no current song
    Window,         \* LOOK_AHEAD_WINDOW
    Before,         \* the links in the queue when the first daemon starts
    MaxRows,        \* bound on the rows people add to the queue
    MaxEvents       \* bound on edits, ends of the daemon, drops of streams and
                    \* disturbed swaps together

ASSUME CaretakerAssumption ==
    /\ NoSong \notin Nat
    /\ Window \in Nat \ {0}
    /\ Before \in Seq(Links) /\ IsInjective(Before)
    /\ MaxRows \in Nat /\ MaxEvents \in Nat

VARIABLES
    queue,      \* MPD's queue: a sequence of rows
    current,    \* the id of MPD's current song, or NoSong
    pc,         \* where the daemon's watcher thread is
    todo,       \* warm_queue: the candidates left
    row,        \* resolve_and_swap: the row being prepared
    position,   \* resolve_and_swap: where the row was when the queue was re-read
    warmed,     \* WarmState.warmed
    failures,   \* WarmState.failures
    tui,        \* whether a TUI runs
    attached,   \* State.attached: whether the running TUI holds a connection
    wanted,     \* history: the links of the queue as people left them, kept
                \* until a swap is disturbed
    late,       \* history: rows taken out since the TUI attached that runs
    fresh,      \* history: the links warmed since the last poll
    missed,     \* history: the links that needed a resolve while fresh, and
                \* at every poll since
    disturbed,  \* history: how often a swap met an edit, a refusal or an end
    events      \* edits, ends and drops so far

daemonVars == <<pc, todo, row, position, warmed, failures>>
history == <<wanted, late, fresh, missed, disturbed>>
vars == <<queue, current, daemonVars, tui, attached,
          history, events>>

Files == {"link", "stream", "stale"}
Row(id, link, file) == [id |-> id, link |-> link, file |-> file]
NoRow == Row(0, CHOOSE l \in Links : TRUE, "stream")

LinksOf(q) == [i \in DOMAIN q |-> q[i].link]
Ids(q) == {q[i].id : i \in DOMAIN q}
IndexOf(id) == CHOOSE i \in DOMAIN queue : queue[i].id = id

\* The id MPD gives to the next row.  Ids are only compared: one that nobody
\* remembers any more is as good as one never given.
NewId ==
    LET known == Ids(queue) \union Ids(todo) \union {row.id}
    IN  Min((1 .. Len(queue) + Len(todo) + 2) \ known)

Swapping == pc \in {"delete", "add"}

\* row_link: a link, or a stream whose fill failed, was evicted or is of
\* another run's proxy
NeedsResolve(r) == r.file # "stream"
LinksToResolve == {queue[i].link : i \in {j \in DOMAIN queue : NeedsResolve(queue[j])}}

Init ==
    /\ queue = [i \in DOMAIN Before |-> Row(i, Before[i], "link")]
    /\ current = NoSong
    /\ pc = "poll"
    /\ todo = <<>>
    /\ row = NoRow
    /\ position = 0
    /\ warmed = {}
    /\ failures = {}
    /\ tui = FALSE
    /\ attached = FALSE
    /\ wanted = Before
    /\ late = 0
    /\ fresh = {}
    /\ missed = {}
    /\ disturbed = 0
    /\ events = 0

-----------------------------------------------------------------------------
\* MPD

\* Taking the current song out makes MPD go on with the row that follows.
CurrentWithout(i) ==
    IF queue[i].id # current THEN current
    ELSE IF i < Len(queue) THEN queue[i + 1].id ELSE NoSong

\* The song ends, or somebody presses next or play.
MpdAdvances ==
    /\ queue # <<>>
    /\ current' = IF current = NoSong THEN queue[1].id
                  ELSE LET i == IndexOf(current)
                       IN  IF i < Len(queue) THEN queue[i + 1].id ELSE NoSong
    /\ UNCHANGED <<queue, daemonVars, tui, attached, history, events>>

-----------------------------------------------------------------------------
\* People: the TUI, another MPD client

Bounded == events + disturbed < MaxEvents

Disturbs ==
    /\ Bounded
    /\ disturbed' = disturbed + 1
    /\ wanted' = <<>>

\* A change of the rows by somebody else, after which people want links.
Rearranged(links) ==
    IF Swapping THEN Disturbs
    ELSE /\ wanted' = IF disturbed = 0 THEN links ELSE <<>>
         /\ UNCHANGED disturbed

Edits(links) ==
    /\ Bounded
    /\ events' = events + 1
    /\ Rearranged(links)

\* History: a row of the link needs a resolve.
Misses(link) ==
    /\ missed' = missed \union ({link} \intersect fresh)
    /\ UNCHANGED fresh

AddRow(link) ==
    /\ Len(queue) < MaxRows
    /\ Edits(Append(wanted, link))
    /\ queue' = Append(queue, Row(NewId, link, "link"))
    /\ Misses(link)
    /\ UNCHANGED <<current, daemonVars, tui, attached, late>>

RemoveRow(i) ==
    /\ Edits(RemoveAt(wanted, i))
    /\ current' = CurrentWithout(i)
    /\ queue' = RemoveAt(queue, i)
    /\ UNCHANGED <<daemonVars, tui, attached, late, fresh, missed>>

MoveToFront(i) ==
    /\ Edits(<<wanted[i]>> \o RemoveAt(wanted, i))
    /\ i > 1
    /\ queue' = <<queue[i]>> \o RemoveAt(queue, i)
    /\ UNCHANGED <<current, daemonVars, tui, attached, late, fresh,
                   missed>>

\* ensure_running has brought a daemon up; stream_cache::init_client
\* attaches to it, and to no later one.
TuiStarts ==
    /\ ~tui
    /\ pc # "off"
    /\ tui' = TRUE
    /\ attached' = TRUE
    /\ late' = 0
    /\ UNCHANGED <<queue, current, daemonVars, wanted, fresh, missed,
                   disturbed, events>>

\* The kernel closes the held connection with the process.
TuiExits ==
    /\ tui
    /\ tui' = FALSE
    /\ attached' = FALSE
    /\ late' = 0
    /\ UNCHANGED <<queue, current, daemonVars, wanted, fresh, missed,
                   disturbed, events>>

\* The TUI's own look ahead swaps a row: the row gets another id.
TuiSwaps(i) ==
    /\ tui
    /\ NeedsResolve(queue[i])
    /\ Rearranged(wanted)
    /\ queue' = [queue EXCEPT ![i] = Row(NewId, queue[i].link, "stream")]
    /\ current' = IF queue[i].id = current THEN NewId ELSE current
    /\ UNCHANGED <<daemonVars, tui, attached, late, fresh, missed, events>>

-----------------------------------------------------------------------------
\* The proxy

\* needs_upstream_refresh: the fill of a stream gives up or is evicted.
StreamDrops(i) ==
    /\ pc # "off"
    /\ queue[i].file = "stream"
    /\ Bounded
    /\ events' = events + 1
    /\ queue' = [queue EXCEPT ![i].file = "stale"]
    /\ Misses(queue[i].link)
    /\ UNCHANGED <<current, daemonVars, tui, attached, wanted, late,
                   disturbed>>

\* A player reads it again, or the same path is registered and filled anew.
StreamAnswersAgain(i) ==
    /\ pc # "off"
    /\ queue[i].file = "stale"
    /\ queue' = [queue EXCEPT ![i].file = "stream"]
    /\ UNCHANGED <<current, daemonVars, tui, attached, history, events>>

-----------------------------------------------------------------------------
\* The watcher thread

\* Up to Window rows: MPD's pick, then the rows after the current song.
Candidates(pick) ==
    LET first == IF pick = NoSong THEN <<>> ELSE <<queue[IndexOf(pick)]>>
        after == IF current = NoSong THEN <<>>
                 ELSE SubSeq(queue, IndexOf(current) + 1, Len(queue))
        all   == first \o IF pick \in Ids(after)
                          THEN RemoveAt(after, IndexOf(pick) - IndexOf(current))
                          ELSE after
    IN  IF Len(all) <= Window THEN all ELSE SubSeq(all, 1, Window)

\* Faulty: a link is never forgotten.
RememberedForEver == warmed

Remembered == warmed \intersect LinksToResolve

\* poll_once and the beginning of warm_queue: FAILURE_BACKOFF has passed for
\* the links in over, nextsongid is pick.
Poll ==
    /\ pc = "poll"
    /\ ~attached
    /\ queue # <<>>
    /\ \E over \in {{}, failures} : failures' = failures \ over
    /\ warmed' = Remembered
    /\ \E pick \in Ids(queue) \union {NoSong} : todo' = Candidates(pick)
    /\ pc' = "choose"
    /\ fresh' = {}
    /\ missed' = missed \intersect LinksToResolve
    /\ UNCHANGED <<queue, current, row, position, tui, attached, wanted,
                   late, disturbed, events>>

\* Faulty: the TUIs are counted once for all candidates.
StandsDownLater == FALSE

StandsDown == attached

WorthResolving(r) ==
    NeedsResolve(r) /\ r.link \notin warmed /\ r.link \notin failures

\* The loop over the candidates, up to the next one that is resolved.
Choose ==
    /\ pc = "choose"
    /\ IF todo = <<>> \/ StandsDown
         THEN /\ pc' = "poll"
              /\ todo' = <<>>
              /\ UNCHANGED row
         ELSE /\ todo' = Tail(todo)
              /\ IF WorthResolving(Head(todo))
                   THEN pc' = "resolve" /\ row' = Head(todo)
                   ELSE UNCHANGED <<pc, row>>
    /\ UNCHANGED <<queue, current, position, warmed, failures, tui,
                   attached, history, events>>

\* resolve_and_swap returns to warm_queue.
Returns == pc' = "choose" /\ row' = NoRow /\ position' = 0

BacksOff ==
    /\ failures' = failures \union {row.link}
    /\ Returns

\* yt-dlp, or the saved resolve; then proxy_url, preload and save_yt_info.
Resolves ==
    /\ pc = "resolve"
    /\ pc' = "reread"
    /\ UNCHANGED <<queue, current, todo, row, position, warmed,
                   failures, tui, attached, history, events>>

ResolveFails ==
    /\ pc = "resolve"
    /\ BacksOff
    /\ UNCHANGED <<queue, current, todo, warmed, tui, attached,
                   history, events>>

\* Faulty: the place the row had when it was chosen.
PlaceOfRowBefore == IF row.id > Len(queue) THEN Len(queue) ELSE row.id

PlaceOfRow == IndexOf(row.id)

Warmed ==
    /\ warmed' = warmed \union {row.link}
    /\ fresh' = fresh \union {row.link}
    /\ missed' = missed \union ({row.link} \intersect LinksToResolve)
    /\ Returns

\* playlist_info again: a row that has gone counts as warmed.
Rereads ==
    /\ pc = "reread"
    /\ IF row.id \in Ids(queue)
         THEN /\ position' = PlaceOfRow
              /\ pc' = "delete"
              /\ UNCHANGED <<row, warmed, fresh, missed>>
         ELSE Warmed
    /\ UNCHANGED <<queue, current, todo, failures, tui, attached, wanted,
                   late, disturbed, events>>

\* delete_id: that the row may be gone is ignored.
Deletes ==
    /\ pc = "delete"
    /\ IF row.id \in Ids(queue)
         THEN LET i == IndexOf(row.id)
              IN  /\ current' = CurrentWithout(i)
                  /\ queue' = RemoveAt(queue, i)
         ELSE UNCHANGED <<current, queue>>
    /\ late' = IF attached THEN late + 1 ELSE late
    /\ pc' = "add"
    /\ UNCHANGED <<todo, row, position, warmed, failures, tui,
                   attached, wanted, fresh, missed, disturbed, events>>

\* add_id at the place the row had
Adds ==
    /\ pc = "add"
    /\ position <= Len(queue) + 1
    /\ queue' = InsertAt(queue, position, Row(NewId, row.link, "stream"))
    /\ Warmed
    /\ UNCHANGED <<current, todo, failures, tui, attached, wanted, late,
                   disturbed, events>>

\* MPD refuses: the queue has become too short, the stream cannot be added,
\* or the connection broke.
AddFails ==
    /\ pc = "add"
    /\ \/ Disturbs
       \/ position > Len(queue) + 1 /\ UNCHANGED <<disturbed, wanted>>
    /\ BacksOff
    /\ UNCHANGED <<queue, current, todo, warmed, tui, attached, late,
                   fresh, missed, events>>

\* The daemon ends: it does not wait for the watcher thread.
DaemonEnds ==
    /\ pc # "off"
    /\ Bounded
    /\ IF pc = "add" THEN Disturbs ELSE UNCHANGED <<disturbed, wanted>>
    /\ events' = events + 1
    /\ pc' = "off"
    /\ todo' = <<>>
    /\ row' = NoRow
    /\ position' = 0
    /\ warmed' = {}
    /\ failures' = {}
    /\ attached' = FALSE
    /\ fresh' = {}
    /\ missed' = {}
    /\ UNCHANGED <<queue, current, tui, late>>

\* A daemon comes up: of the streams in the queue answer those whose files the
\* one before had completed, and none if it has another port.
DaemonStarts ==
    /\ pc = "off"
    /\ pc' = "poll"
    /\ \E lost \in SUBSET {i \in DOMAIN queue : queue[i].file = "stream"} :
          queue' = [i \in DOMAIN queue |->
                       IF i \in lost THEN [queue[i] EXCEPT !.file = "stale"]
                       ELSE queue[i]]
    /\ UNCHANGED <<current, todo, row, position, warmed, failures,
                   tui, attached, history, events>>

-----------------------------------------------------------------------------
WatcherStep ==
    \/ Poll \/ Choose \/ Resolves \/ ResolveFails
    \/ Rereads \/ Deletes \/ Adds \/ AddFails

Next ==
    \/ MpdAdvances
    \/ \E l \in Links : AddRow(l)
    \/ \E i \in DOMAIN queue : RemoveRow(i) \/ MoveToFront(i) \/ TuiSwaps(i)
                               \/ StreamDrops(i) \/ StreamAnswersAgain(i)
    \/ TuiStarts \/ TuiExits
    \/ WatcherStep
    \/ DaemonEnds \/ DaemonStarts

Spec == Init /\ [][Next]_vars

\* The watcher polls every POLL_INTERVAL and each of its calls returns.
FairSpec == Spec /\ WF_vars(WatcherStep)

-----------------------------------------------------------------------------
\* "A row is swapped in place" (caretaker.rs, line 7): whatever people and
\* MPD do while a link is resolved, and however often the daemon restarts,
\* the queue holds the links people left in it, in their order, whenever the
\* caretaker is not between its two calls; unless one of its swaps has met an
\* edit, a refusal or the end of the daemon, which the code does not undo.
QueueIsAsLeft == pc # "add" /\ disturbed = 0 => LinksOf(queue) = wanted

\* From the moment a TUI attaches the caretaker takes at most one row out of
\* the queue: the one whose resolve was running.
OneLateSwap == late <= 1

InWindow(link) ==
    \E i \in DOMAIN queue :
       /\ queue[i].link = link
       /\ NeedsResolve(queue[i])
       /\ current # NoSong
       /\ IndexOf(current) < i /\ i < IndexOf(current) + Window

\* "the daemon keeps the queue's look-ahead window resolved" (caretaker.rs,
\* line 3) and "a re-added link is resolved again instead of being skipped
\* forever" (line 68): a row behind the current one does not stay there in need
\* of a resolve for ever while the daemon runs, no TUI does and no attempt at
\* it fails.  Links, not rows, are remembered as warmed, so that the code skips
\* a link that needs another resolve, for a twin of its row, a row added again
\* or a stream that drops, before the poll that follows its swap: `missed`.
WindowIsResolved ==
    \A l \in Links :
       InWindow(l) ~> \/ ~InWindow(l) \/ l \in failures \/ l \in missed
                      \/ tui \/ pc = "off"
=============================================================================
