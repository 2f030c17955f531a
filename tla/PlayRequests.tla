---------------------------- MODULE PlayRequests ----------------------------
(***************************************************************************)
(* Playing a row that is still a pasted link: the play-request generation  *)
(* (src/shared/ytdlp/play_request.rs), the pool of yt-dlp resolve workers  *)
(* (src/core/work.rs), what the event loop does with a result              *)
(* (src/core/event_loop/work_done.rs, src/ui/modals/paste/resolve.rs), and *)
(* everyone who asks: a row of the queue, the next-track step, an entry of *)
(* a stored playlist, a video, the look ahead and the recovery after MPD   *)
(* failed to open a row.                                                   *)
(*                                                                         *)
(* MPD is its queue only. What it plays is free: a status names any row,   *)
(* so the commands that only move playback (stop, next, play of a row that *)
(* is ready) leave no trace here. A swap is three requests to MPD, each of *)
(* which may fail, and other clients of MPD may remove rows at any time.   *)
(***************************************************************************)
EXTENDS Naturals, FiniteSets, SequencesExt

CONSTANTS
    RowLinks,       \* links of the rows first in MPD's queue
    Entries,        \* stream entries of the open stored playlist
    Chosen,         \* those of them that are opened, or played as videos
    Workers,        \* RESOLVE_WORKERS
    MaxRequests,    \* bound on the generation a request is made at
    MaxFailures,    \* bound on resolves and calls to MPD that fail
    None, Elsewhere

ASSUME PlayConstants ==
    /\ RowLinks \cap Entries = {} /\ Chosen \subseteq Entries
    /\ IsFiniteSet(RowLinks)
    /\ MaxRequests \in Nat /\ MaxFailures \in Nat

VARIABLES
    queue,          \* MPD's queue: rows with id, link and kind
    nextId,         \* MPD's next song id
    client,         \* the swap the client thread is in the middle of, or None
    strays,         \* history: links whose row a swap did not take out itself
    shown,          \* ctx.queue: the queue as last reported
    playing,        \* ctx.status: the song playing as last reported, 0 if stopped
    generation,     \* GENERATION
    app,            \* the marks of Ctx that resolves move, and what was sent
    running,        \* the job each worker of the pool is running
    results,        \* YtStreamsResolved events in the loop's queue
    pendingPlay,    \* ctx.pending_play
    landed,         \* history: generation of the last play applied
    failures        \* failed resolves and calls so far

mpd == <<queue, nextId, client, strays>>
vars == <<mpd, shown, playing, generation, app, running, results, pendingPlay,
          landed, failures>>

Links == RowLinks \cup Entries
\* A row takes a second id when it is swapped, and another each time its link
\* was left there; an entry adds one per play.
Ids == 1..(2 * Cardinality(RowLinks) + MaxRequests + MaxFailures)
Rows == [id : Ids, link : Links, kind : {"link", "stream"}]
Actions == {"ReplaceAndPlay", "ReplaceInPlace", "AddAfterCurrentAndPlay", "PlayVideo"}
\* row = 0: no row is named; stamp = 0: not a play request.
Jobs == [link : Links, action : Actions, row : Ids \cup {0}, stamp : 0..MaxRequests + 1]
Outcomes == {"ok", "transient", "permanent"}
Commands == [do : {"replace", "swap", "insert", "delete", "clear"},
             row : Ids \cup {0}, link : Links \cup {None}]

Job(link, action, row, stamp) ==
    [link |-> link, action |-> action, row |-> row, stamp |-> stamp]
Command(do, row, link) == [do |-> do, row |-> row, link |-> link]

RowOf(rows, id) == {r \in rows : r.id = id}
IsLink(rows, id) == \E r \in rows : r.id = id /\ r.kind = "link"

Init ==
    /\ \E ids \in [RowLinks -> 1..Cardinality(RowLinks)] :
         /\ \A k, l \in RowLinks : ids[k] = ids[l] => k = l
         /\ queue = {[id |-> ids[l], link |-> l, kind |-> "link"] : l \in RowLinks}
    /\ nextId = Cardinality(RowLinks) + 1
    /\ client = None
    /\ strays = {}
    /\ shown = queue
    /\ playing = 0
    /\ generation = 0
    /\ app \in [marks : {{}}, parsing : {{}}, warmed : {{}}, step : {0},
                cached : SUBSET RowLinks, jobs : {<<>>}, commands : {<<>>}]
    /\ running = [w \in Workers |-> None]
    /\ results = <<>>
    /\ pendingPlay = None
    /\ landed = 0
    /\ failures = 0

(***************************************************************************)
(* What a handler does to the marks, as functions of the record app        *)
(***************************************************************************)
Send(a, job) == [a EXCEPT !.parsing = @ \cup {job.link}, !.jobs = Append(@, job)]
Ask(a, command) == [a EXCEPT !.commands = Append(@, command)]

\* apply_resolved_streams: the resolve is kept for reuse, then the queue is
\* changed by a command that looks the row up again when it runs.
ApplyResolved(a, action, row, link) ==
    LET kept == [a EXCEPT !.cached = @ \cup {link}] IN
    CASE action = "ReplaceAndPlay" ->
           [Ask(kept, Command("replace", row, link)) EXCEPT !.step = IF @ = row THEN 0 ELSE @]
      [] action = "ReplaceInPlace" -> Ask(kept, Command("swap", row, link))
      [] action = "AddAfterCurrentAndPlay" -> Ask(kept, Command("insert", 0, link))
      [] action = "PlayVideo" -> kept

\* Faulty: the marks are thrown away with every request.
KeptNone(a, rows) == {}

\* resolve_queue_entry_with: one request per row, remembered by a mark that
\* goes when the row does.
Kept(a, rows) == {id \in a.marks : IsLink(rows, id)}
Declined(a, rows, row) == row.id \in Kept(a, rows)

ResolveEntry(a, rows, row, play, stamp) ==
    LET action == IF play THEN "ReplaceAndPlay" ELSE "ReplaceInPlace"
        marked == [a EXCEPT !.marks = Kept(a, rows) \cup {row.id}]
    IN  IF Declined(a, rows, row) THEN [a EXCEPT !.marks = Kept(a, rows)]
        ELSE IF row.link \in a.cached THEN ApplyResolved(marked, action, row.id, row.link)
        ELSE Send(marked, Job(row.link, action, row.id, stamp))

\* warm_row: a row that is resolved is swapped at once; one whose link is being
\* resolved is left to that.
Ready(a, rows) == {r \in rows : r.link \in a.cached}
Unresolved(a, rows) == {r \in rows : r.link \notin a.cached \cup a.parsing}

WarmRows(a, rows) ==
    [a EXCEPT
       !.commands = @ \o SetToSeq({Command("swap", r.id, r.link) : r \in Ready(a, rows)}),
       !.parsing = @ \cup {r.link : r \in Unresolved(a, rows)},
       !.jobs = @ \o SetToSeq({Job(r.link, "ReplaceInPlace", r.id, 0) : r \in Unresolved(a, rows)})]

\* warm_next_queue_link: the links that are not remembered are warmed, and
\* remembered. The window is every row but the current one.
WarmNext(a, rows, current) ==
    IF RowOf(rows, current) = {} THEN a
    ELSE LET remembered == a.warmed \cap {r.link : r \in rows}
             ahead == {r \in rows \ RowOf(rows, current) :
                         r.kind = "link" /\ r.link \notin remembered}
         IN  WarmRows([a EXCEPT !.warmed = remembered \cup {r.link : r \in ahead}], ahead)

(***************************************************************************)
(* The user                                                                *)
(***************************************************************************)
\* play_queue_song: a row that is ready is MPD's business; a link is stamped
\* (play_tagged_queue_entry) and resolved.
PlayRow(row) ==
    /\ row.kind = "link"
    /\ generation < MaxRequests
    /\ generation' = generation + 1
    /\ app' = ResolveEntry(app, shown, row, TRUE, generation')
    /\ UNCHANGED <<mpd, shown, playing, running, results, pendingPlay, landed, failures>>

\* next_track_resolving: the target is the row MPD says comes next.
StepTo(row) ==
    /\ IF row.kind = "stream" \/ row.id = playing
       THEN /\ app' = [app EXCEPT !.step = 0]
            /\ UNCHANGED generation
       ELSE /\ app.step # row.id
            /\ generation < MaxRequests
            /\ generation' = generation + 1
            /\ app' = IF Declined(app, shown, row)
                      THEN [ResolveEntry(app, shown, row, TRUE, generation') EXCEPT !.step = 0]
                      ELSE ResolveEntry([app EXCEPT !.step = row.id], shown, row, TRUE, generation')
    /\ UNCHANGED <<mpd, shown, playing, running, results, pendingPlay, landed, failures>>

\* play_stored_stream_entry.
PlayStored(entry, stamp) ==
    /\ pendingPlay' = [generation |-> stamp, entry |-> entry]
    /\ app' = [app EXCEPT !.jobs = Append(@, Job(entry, "AddAfterCurrentAndPlay", 0, stamp))]

\* PlaylistsPane::open: nothing to do for the entry already pending.
OpenEntry(entry) ==
    /\ IF pendingPlay = None THEN TRUE ELSE pendingPlay.entry # entry
    /\ generation < MaxRequests
    /\ generation' = generation + 1
    /\ PlayStored(entry, generation')
    /\ UNCHANGED <<mpd, shown, playing, running, results, landed, failures>>

\* follow_pending_play: the highlight is on another row of the playlist.
MoveHighlight(entry) ==
    /\ pendingPlay # None /\ pendingPlay.entry # entry
    /\ IF entry = Elsewhere
       THEN /\ generation < MaxRequests
            /\ generation' = generation + 1
            /\ pendingPlay' = None
            /\ UNCHANGED app
       ELSE /\ generation < MaxRequests
            /\ generation' = generation + 2
            /\ PlayStored(entry, generation')
    /\ UNCHANGED <<mpd, shown, playing, running, results, landed, failures>>

\* play_video_now, stream_yt_row: a play that touches no queue.
PlayVideo(link) ==
    /\ generation < MaxRequests
    /\ generation' = generation + 1
    /\ app' = [app EXCEPT !.jobs = Append(@, Job(link, "PlayVideo", 0, generation'))]
    /\ UNCHANGED <<mpd, shown, playing, running, results, pendingPlay, landed, failures>>

ClearQueue ==
    /\ shown # {}
    /\ \A i \in DOMAIN app.commands : app.commands[i].do # "clear"
    /\ app' = Ask(app, Command("clear", 0, None))
    /\ UNCHANGED <<mpd, shown, playing, generation, running, results, pendingPlay,
                   landed, failures>>

(***************************************************************************)
(* The pool of resolve workers                                             *)
(***************************************************************************)
\* A worker takes a job; one that was superseded while it waited is not run.
TakeJob(w) ==
    /\ running[w] = None /\ app.jobs # <<>>
    /\ LET job == Head(app.jobs) IN
         running' = [running EXCEPT ![w] =
                       IF job.stamp # 0 /\ job.stamp # generation THEN None ELSE job]
    /\ app' = [app EXCEPT !.jobs = Tail(@)]
    /\ UNCHANGED <<mpd, shown, playing, generation, results, pendingPlay, landed, failures>>

FinishJob(w, outcome) ==
    /\ running[w] # None
    /\ outcome # "ok" => failures < MaxFailures
    /\ failures' = IF outcome = "ok" THEN failures ELSE failures + 1
    /\ results' = Append(results, [job |-> running[w], outcome |-> outcome])
    /\ running' = [running EXCEPT ![w] = None]
    /\ UNCHANGED <<mpd, shown, playing, generation, app, pendingPlay, landed>>

(***************************************************************************)
(* The event loop                                                          *)
(***************************************************************************)
ForgetPending(stamp) ==
    IF pendingPlay = None THEN None
    ELSE IF pendingPlay.generation = stamp THEN None ELSE pendingPlay

\* Faulty: only the pool looks at the generation.
SupersededInPool(stamp) == FALSE

\* Faulty: a resolve without a stamp counts as an old one.
SupersededUnstamped(stamp) == stamp # generation

Superseded(stamp) == stamp # 0 /\ stamp # generation

\* drop_unresolvable_queue_entry: the step stops waiting, and a row that can
\* never play is removed.
DropUnresolvable(a, job, outcome) ==
    LET waiting == [a EXCEPT !.step = IF job.action = "ReplaceAndPlay" /\ @ = job.row THEN 0 ELSE @]
    IN  IF outcome = "permanent" /\ job.row # 0 /\ RowOf(shown, job.row) # {}
        THEN Ask(waiting, Command("delete", job.row, None))
        ELSE waiting

LandResult ==
    /\ results # <<>>
    /\ LET job == Head(results).job
           outcome == Head(results).outcome
           settled == [app EXCEPT !.parsing = @ \ {job.link}]
       IN  /\ pendingPlay' = IF job.stamp = 0 THEN pendingPlay ELSE ForgetPending(job.stamp)
           /\ IF Superseded(job.stamp)
              THEN /\ app' = settled
                   /\ UNCHANGED landed
              ELSE IF outcome = "ok"
              THEN /\ app' = ApplyResolved(settled, job.action, job.row, job.link)
                   /\ landed' = IF job.stamp = 0 THEN landed ELSE job.stamp
              ELSE /\ app' = DropUnresolvable(settled, job, outcome)
                   /\ UNCHANGED landed
    /\ results' = Tail(results)
    /\ UNCHANGED <<mpd, shown, playing, generation, running, failures>>

\* handle_queue_update.
QueueArrives ==
    /\ client = None
    /\ shown # queue
    /\ shown' = queue
    /\ app' = WarmNext(IF queue = {} THEN [app EXCEPT !.marks = {}, !.parsing = {}] ELSE app,
                       queue, playing)
    /\ UNCHANGED <<mpd, playing, generation, running, results, pendingPlay, landed, failures>>

\* handle_mpd_error: the row MPD could not open is resolved, and played if
\* MPD is stuck on it; the budget may be spent.
RecoverRow(a, current, row) ==
    ResolveEntry(a, shown, row, current \in {0, row.id}, 0)

\* resolve_current_song.
ResolveCurrent(a, current) ==
    IF IsLink(shown, current)
    THEN ResolveEntry(a, shown, CHOOSE r \in RowOf(shown, current) : TRUE, TRUE, 0)
    ELSE a

\* The status part of handle_mpd_command_finished: recovery, then the current
\* song, then the look ahead. A status may name a row not shown yet.
StatusArrives(current, failed) ==
    /\ failed = {} \/ \E r \in failed : r \in shown /\ r.kind = "link"
    /\ playing' = current
    /\ LET recovered == IF failed = {} THEN app
                        ELSE RecoverRow(app, current, CHOOSE r \in failed : TRUE)
       IN  app' = WarmNext(ResolveCurrent(recovered, current), shown, current)
    /\ <<playing, app>>' # <<playing, app>>
    /\ UNCHANGED <<mpd, shown, generation, running, results, pendingPlay, landed, failures>>

\* A parse mark is ignored once it is PENDING_YT_LINK_MAX_AGE old.
ParseMarkExpires(link) ==
    /\ link \in app.parsing
    /\ app' = [app EXCEPT !.parsing = @ \ {link}]
    /\ UNCHANGED <<mpd, shown, playing, generation, running, results, pendingPlay,
                   landed, failures>>

(***************************************************************************)
(* The client thread runs the commands against MPD, one at a time, and     *)
(* reads the queue between two of them                                     *)
(***************************************************************************)
\* A failed call ends the command, unless its error is ignored.
Answers(ok) ==
    /\ ok \/ failures < MaxFailures
    /\ failures' = IF ok THEN failures ELSE failures + 1

\* The thread takes the first command, which is one of these.
Takes(kinds) ==
    /\ client = None
    /\ app.commands # <<>> /\ Head(app.commands).do \in kinds
    /\ app' = [app EXCEPT !.commands = Tail(@)]

Added(link) == [id |-> nextId, link |-> link, kind |-> "stream"]

Add(link) ==
    /\ queue' = queue \cup {Added(link)}
    /\ nextId' = nextId + 1

\* Faulty: the command trusts the row id it was sent with.
PresentUnchecked(id) == TRUE

Present(id) == RowOf(queue, id) # {}

\* playlist_info: a row that is gone is not added again.
StartSwap(ok) ==
    /\ Takes({"replace", "swap"})
    /\ LET c == Head(app.commands) IN
         client' = IF ok /\ Present(c.row) THEN [row |-> c.row, link |-> c.link, at |-> "delete"]
                   ELSE None
    /\ UNCHANGED <<queue, nextId, strays>>

\* delete_id, whose error is ignored: the link is then left beside its stream.
DeleteRow(ok) ==
    /\ client # None /\ client.at = "delete"
    /\ queue' = IF ok THEN queue \ RowOf(queue, client.row) ELSE queue
    /\ strays' = IF ok THEN strays ELSE strays \cup {client.link}
    /\ client' = [client EXCEPT !.at = "add"]
    /\ UNCHANGED <<nextId, app>>

\* add_id; the play_id that may follow moves no row.
AddRow(ok) ==
    /\ client # None /\ client.at = "add"
    /\ IF ok THEN Add(client.link) ELSE UNCHANGED <<queue, nextId>>
    /\ client' = None
    /\ UNCHANGED <<strays, app>>

\* The commands of one call that moves rows.
OneCall(ok) ==
    /\ Takes({"insert", "delete", "clear"})
    /\ LET c == Head(app.commands) IN
         IF ok /\ c.do = "insert" THEN Add(c.link)
         ELSE /\ queue' = CASE ok /\ c.do = "delete" -> queue \ RowOf(queue, c.row)
                            [] ok /\ c.do = "clear" -> {}
                            [] OTHER -> queue
              /\ UNCHANGED nextId
    /\ UNCHANGED <<client, strays>>

RunCommand ==
    /\ \E ok \in BOOLEAN : Answers(ok) /\ (StartSwap(ok) \/ DeleteRow(ok) \/ AddRow(ok) \/ OneCall(ok))
    /\ UNCHANGED <<shown, playing, generation, running, results, pendingPlay, landed>>

\* Another client of MPD removes a row that is still a link, maybe the one being
\* swapped; nobody looks for a stream that is gone.
OthersRemove(row) ==
    /\ row.kind = "link"
    /\ queue' = queue \ {row}
    /\ strays' = IF client # None /\ client.at = "delete" /\ client.row = row.id
                 THEN strays \cup {row.link} ELSE strays
    /\ UNCHANGED <<nextId, client, shown, playing, generation, app, running, results, pendingPlay,
                   landed, failures>>

----------------------------------------------------------------------------
User ==
    \/ \E row \in shown : PlayRow(row) \/ StepTo(row)
    \/ \E e \in Chosen : OpenEntry(e)
    \/ \E e \in Entries \cup {Elsewhere} : MoveHighlight(e)
    \/ \E l \in Chosen : PlayVideo(l)
    \/ ClearQueue

Pool(w) == TakeJob(w) \/ \E o \in Outcomes : FinishJob(w, o)

Reported ==
    \E current \in {0} \cup {r.id : r \in queue} :
      \E failed \in {{}} \cup {{r} : r \in shown} : StatusArrives(current, failed)

Next ==
    \/ User
    \/ \E w \in Workers : Pool(w)
    \/ LandResult
    \/ QueueArrives
    \/ Reported
    \/ \E l \in Links : ParseMarkExpires(l)
    \/ RunCommand
    \/ \E row \in queue : OthersRemove(row)

Spec == Init /\ [][Next]_vars

\* The pool, the event loop and the client thread keep running; users, MPD's
\* playback and the clock owe nothing.
Fairness ==
    /\ \A w \in Workers : WF_vars(Pool(w))
    /\ WF_vars(LandResult)
    /\ WF_vars(QueueArrives)
    /\ WF_vars(RunCommand)

FairSpec == Spec /\ Fairness

----------------------------------------------------------------------------
InSeq(s) == {s[i] : i \in DOMAIN s}
InFlight ==
    InSeq(app.jobs) \cup {running[w] : w \in {v \in Workers : running[v] # None}}
    \cup {r.job : r \in InSeq(results)}

\* Plays take effect in the order they were asked for: two workers finish in
\* any order, but a play never lands after one requested later
\* (play_request.rs 9-14, is_superseded_play).
PlaysLandInOrder == [][landed' # landed => landed' > landed /\ landed' = generation]_vars

\* A row of the queue is swapped for its stream once, and one the user or
\* another client removed never comes back: the links of the queue, and the one
\* a swap has taken out of it, only leave, whatever the look ahead, a play and
\* the recovery have under way for the same row (replacement_target). But for
\* the links that a swap left or found gone at its delete, as it adds the stream
\* all the same (resolve.rs 892, 972).
Linked(rows, swap) ==
    {r.link : r \in rows}
    \cup (IF swap # None /\ swap.at = "add" THEN {swap.link} ELSE {})

Alone(rows, links) == \A r, s \in rows : r.link = s.link /\ r.link \in links => r = s

NoLinkReturns ==
    [][/\ Linked(queue', client') \cap (RowLinks \ strays') \subseteq Linked(queue, client)
       /\ Alone(queue', RowLinks \ strays')]_vars

\* The marks keep the play of a row to one resolve at a time, wherever the
\* requests come from (ctx.pending_stream_resolve).
OneResolvePerRow ==
    LET PlayOf(j, id) == j.action = "ReplaceAndPlay" /\ j.row = id IN
    \A id \in Ids :
      Cardinality({i \in DOMAIN app.jobs : PlayOf(app.jobs[i], id)})
      + Cardinality({w \in Workers : running[w] # None /\ PlayOf(running[w], id)})
      + Cardinality({i \in DOMAIN results : PlayOf(results[i].job, id)}) <= 1

\* The look ahead is nobody's play: however many plays supersede one another
\* meanwhile, a row it is resolving stops being a link (play_request.rs 16-18),
\* unless a resolve failed: nobody owes a failed one another try.
WarmedRowsSettle ==
    \A l \in RowLinks :
      (\E j \in InFlight : j.link = l /\ j.action = "ReplaceInPlace")
        ~> failures > 0 \/ ~\E r \in queue : r.link = l /\ r.kind = "link"
=============================================================================
