# s2udio in TLA+

s2udio is a terminal client for the music player MPD: it plays the local
library, web streams (through yt-dlp and a caching proxy of its own), radio,
Jellyfin and torrents. This directory holds TLA+ specifications of its
concurrent core, the TLC configurations that check them on small instances, and
TLAPS proofs of the properties that matter most for every instance. Paths such
as `core/client.rs` are relative to `src/src/`.

 1. [The system](#1-the-system)
 2. [The specifications](#2-the-specifications)
 3. [The runs](#3-the-runs)
 4. [What is proved](#4-what-is-proved)
 5. [Where the code does not do what its comments say](#5-where-the-code-does-not-do-what-its-comments-say)
 6. [Plan](#6-plan)

Checking: `tlc -config X.cfg MCModule` for the pairs in section 3, and
`tlapm X_proofs.tla` for the eight proof modules.

## 1. The system

One process runs the TUI. Its main thread is the *event loop*: it takes
`AppEvent`s from one unbounded channel, changes `Ctx` and draws. Around it run
the MPD client threads, the work thread and the resolve pool, the scheduler,
the input thread, watchers, and the threads of the stream proxy. A second,
detached process, the *daemon*, owns the proxy when it is up, and prepares the
queue while no TUI runs. A third one downloads torrents. MPD, mpv, yt-dlp and
rqbit are external programs.

| Component | State | Operations | Talks to | What is hard |
|---|---|---|---|---|
| MPD client task (`core/client.rs`, `mpd/`) | one connection, `HEALTHY`, a batch of requests | idle, run a request, hand the connection over, reconnect | the event loop, by channels; MPD, by a stream | two threads share one connection by passing it through a channel; time-outs, late answers, reconnects |
| Stream proxy (`core/stream_cache.rs`) | registrations, index of entries, running fills, users per key, cache files | register, preload, serve, fill, evict, restart | MPD and mpv by HTTP; upstream servers | many readers of a file that is being written, retried, evicted; crashes |
| Scheduler (`core/scheduler/`) | a channel of commands, a heap of jobs | schedule, replace, repeat, cancel, stop | callbacks into every component | commands race with jobs that fall due |
| Key sequences (`shared/keys/`, `ui/input/`) | a buffer of keys, a timer id, the input mode | a key, a time-out, a new configuration | the scheduler; the event loop's own queue | the time-out, the keys and what they mean share one queue |
| yt-dlp downloads (`shared/ytdlp/manager.rs`) | the list of downloads | queue, cancel, requeue, remove, answer | the work thread; context menus | nothing polls: a waiting item must be woken up |
| Play requests and resolve pool (`core/work.rs`, `ui/modals/paste/`, `ui/panes/queue/play.rs`, …) | the play generation, marks of rows that resolve, the pending play, the pending step | play a row, an entry or a video; step; look ahead; recover; apply a result | the pool, MPD's queue | two workers finish in any order; the queue changes meanwhile |
| Daemon life cycle (`core/daemon/mod.rs`, `server.rs`) | the socket path, the stop flag | start, probe, bind, serve, stop, signal | TUIs and command lines | several processes, one path; crashes |
| Daemon caretaker (`core/daemon/caretaker.rs`) | what was warmed, what failed | poll, resolve, swap a row | MPD's queue, the proxy | a swap is three calls between other people's edits |
| Torrent downloader daemon (`core/dlctl.rs`, `ui/modals/paste/download.rs`) | rows with their engines and the waits due; `downloads.json`, a spool of requests, response files | commit, stream, stop, remove; add, merge, answer, move; start, stop, adopt | TUIs and command lines by files, rqbit by HTTP | files as messages between processes that come and go; one torrent under several names |
| mpv session (`core/mpv.rs`, `core/event_loop/mpv.rs`, `ui/panes/jellyfin/play.rs`) | the session, the polling state, the launcher threads, resume questions | play, switch, poll, follow, ask, report, reattach | mpv by a socket, Jellyfin by HTTP jobs | players that outlive the session, messages that name no player, answers that come late |

Each of these is correct when

- *client task*: the connection has one owner; a request meets a clean
  connection and gets its own answer; every request comes to one outcome, in
  order; every loss leads to a reconnect;
- *proxy*: one writer per file; what is indexed as complete is whole; what is
  served as whole is whole; what is in use is not evicted; requests and fills end;
- *scheduler*: a job runs not early, once, unless it was withdrawn, and does run;
- *key sequences*: no half sequence hangs, no typed text is lost by the resolver;
- *downloads*: an item shown as running is under way, one that waits is started;
- *play requests*: plays land in the order they were asked for, a row is
  swapped once and does not come back, no row is resolved twice at once;
- *daemon*: the daemon that holds the socket can be reached, a crash does not
  keep the next one out, whoever waits is told;
- *caretaker*: a swap leaves the queue as people left it, the look-ahead window
  is resolved, and a TUI that attaches is left alone;
- *downloader daemon*: one engine writes the cache of one torrent, no wait and no
  row is forgotten, every download and every wait comes to an end;
- *mpv session*: it ends with its player, spawns no report after a stop, and asks
  about a video once.

The remaining parts are not modelled: the instance lock (one `flock`: the kernel
is the protocol), the files of resume positions and resolved links (read, changed
and written back without a lock: what is lost is plain), temporary plays (see 5),
the control sockets (one command per connection, a socket name
per pid), the daemon's quick-access terminal, autostart and D-Bus glue (the
desktop decides), configuration, theming and the file watchers (parsing), lyrics,
radio and what is left of Jellyfin (HTTP requests with one answer), images (escape sequences the
terminal interprets), directory stacks and lists (sequential data structures with
unit tests), panes, modals and widgets (drawing, but for the places where they
start a play or keep a menu or a question), the memory watchdog and logging (observers), the
command line, helper scripts, and the vendored crossterm. `PROJECT.json` lists
each with its files and the reason.

## 2. The specifications

| Module | Models | Extends |
|---|---|---|
| `MpdClientTask` | `core/client.rs`, the exchange of `mpd/proto_client.rs`, submission in `ctx.rs` | |
| `StreamCache` | `core/stream_cache.rs` | |
| `Timers` | what the scheduler promises (abstract) | |
| `Scheduler` | `core/scheduler/` | implements `Timers` (`KeepsTimers`) |
| `KeySequences` | `shared/keys/key_resolver.rs`, its part of the event loop, `Ui::handle_insert_mode` | `Scheduler`: the two run composed |
| `YtDlpDownloads` | `shared/ytdlp/manager.rs`, the work thread, the downloads menu | |
| `PlayRequests` | `play_request.rs`, the resolve pool, `resolve.rs`, `warm.rs`, `queue/play.rs`, the handlers of results, queue and status | |
| `DaemonSocket` | `core/daemon/mod.rs`, `server.rs` | |
| `Caretaker` | `core/daemon/caretaker.rs`, `watcher_loop` | |
| `DownloadDaemon` | `core/dlctl.rs` and its clients in `ui/modals/paste/download.rs`, `ui/modals/downloads.rs` | |
| `MpvSession` | `core/mpv.rs`, `core/event_loop/mpv.rs`, `ui/panes/jellyfin/play.rs` | |
| `X_proofs` | theorems about `MpdClientTask`, `StreamCache`, `Scheduler`, `PlayRequests`, `DaemonSocket`, `Caretaker`, `DownloadDaemon`, `MpvSession` | `X`, `TLAPS` |
| `MCX` | the finite instances | `X` |

Definitions carry the names of the code where TLA+ allows it, and
`PROJECT.json` maps each to its lines. Definitions under a comment that begins
with "faulty" are not part of the specification: each is what an action or a
helper would be after a plausible mistake, kept beside the right one so that
every property can be shown to notice one.

**MpdClientTask.** Three threads, one program counter each: `main` (the
reconnect loop), `idle` and `work`. The connection, `Client`, is a token: it is
in the channel `client_return` (`slot`) or held by the thread whose counter says
so, and `ClientDropGuard` is `IdleBreak`. The confirmations go over channels of
capacity zero: `…Confirms…` actions are rendezvous, enabled when a sender and a
receiver are both there, and their time-outs are steps of their own. `health!`
is a test before an operation and a step of its own, so `HEALTHY` may change
between the test and what follows. The stream is `inbox`, the responses not yet
read: a time-out leaves the response to come (`Late`), a lost stream or a command
to an idling MPD breaks the link, a reconnect starts with an empty one. The closure
of a request is a sequence of exchanges (`Steps`), each with an error that ends it
(`?`) or one it ignores (`let _ =`); a command gets the status as a last exchange
whose error is ignored. The loop sees, and answers by a reconnect, only the time-out
that a closure returns: after one that was ignored (`ignored`) the closure goes on
over the same stream, and that answer is read by the next exchange or by the idle
thread, whole or in part (`Garbled`). Queries with a `replace_id` are
skipped as in `should_skip_request`. Bounds: `NRequests` requests (with their
kind, steps and `replace_id`), `MaxFaults` broken connections, `MaxTimeouts` late
answers. `StartupFaults` lets the connection break while main waits for the
first confirmation, `IdleTimeout` is whether `mpd_idle_read_timeout_ms` is set. Not
modelled: what requests mean (so the steps of a closure do not depend on what it
reads), panics, and a half-open connection.

**StreamCache.** Every step is one critical section of `Inner` or of a fill's
progress, or one file operation. A body is its length in chunks. Fill threads
carry their registration and path along, retry from byte 0 (`FillFails`),
index the entry before they publish it, and evict when they end (`Evicted`,
within the saving step as in `enforce_budget`). A request begins when its head is
parsed and goes through `lookup`, `check`, disk or fill, streaming, and `Leave`.
What it writes to its player is a step of its own (`AtWrite`, `Writes`), beside what
the thread decides by itself (`Works`): the player may leave there, or stop reading.
`Restart` forgets registrations, fills and requests and restores the
index as it was last saved. `astray` is a history of the keys that the proxy does
not keep apart: those whose URL names another class than their entry (a link used
as audio and as video, a video evicted while its URL is in use), and those that an
index behind an eviction brings back as complete. Reductions: the order of last use stands for
`last_used` seconds, the upstream serves the same bytes on every fetch, unannounced
bodies end whole when their fill does, HTTP syntax and the choice of the port
are left out, and nothing is saved after the last crash, as nothing will read it.

**Timers, Scheduler.** The channel of commands, the thread's wait, the heap,
the callback and the time sampled before it (`sampled`). Time is a count of
ticks that may pass between any two steps. `Timers` says what callers may rely
on: a job rings when due and not before, at most once per schedule, unless it
was withdrawn. The refinement maps the jobs in the channel, in the heap and in
hand to the pending timers, and those that a command still in the channel will
take back to the withdrawn ones.

**KeySequences.** Extends `Scheduler`: the resolver's timers are jobs. Keys,
`KeyTimeout`, and what the resolver makes of keys (`ActionResolved`,
`InsertModeFlush`) are events of one queue. The tries are the set of bound
sequences per mode. A bound sequence flushed in an input may close it. Bounds:
keys, clicks and reloads. Not modelled: `Quit`, the capture of keys by the
key-remapping view (they do not reach the resolver), repeat coalescing beyond
the actions that ignore a held key.

**YtDlpDownloads.** The list, the work channel, the request being run, the
answers, and a context menu that was built from the state it saw when it
opened. Bounds: `MaxItems`, `MaxRetries`. A download is abstracted to its state
and result; playlists are one or two items added at once.

**PlayRequests.** One record `app` holds what the event loop keeps: jobs sent,
commands sent, marks, the parse marks, the step, what the look ahead did and the
cached links. The user may play a row, step, play a playlist entry, play a
video, move the highlight, and clear the queue; MPD reports its queue and its
status when it likes. `Workers` take jobs in order and finish in any order, a
superseded job being skipped (`TakeJob`) or dropped (`LandResult`). Replacing a
row is one command to the client thread, and three requests to MPD: the queue is
read and the row looked up (`StartSwap`, `Present`), the row is deleted
(`DeleteRow`), the stream added (`AddRow`). Each may fail, which ends the command,
but for the delete, whose error is ignored; in between other clients of MPD may
remove rows that are links (`OthersRemove`). `strays` is a history of the links whose
row the delete of their swap left or found gone. Reductions: MPD is its queue, the
status and what plays are free; rows that other clients add are left out;
the work channel and the pool's queue are one FIFO; rows whose stream URL has
expired take the same path as links and are not told apart; the cache does not
expire; links of rows and of playlist entries are different; the throttle of the
look ahead and the recovery's budget are nondeterministic. Left out: temporary
plays, pasted batches, metadata warms of a selected row.

**DaemonSocket.** Daemons go through `serve()`: probe the path, remove it when
nobody answers, bind, listen, serve, leave. `bind(2)` and `listen(2)` are two
steps as in the system library: a path that is bound and not listening refuses
connections. Starters are TUIs, `daemon start`, `daemon qat` and the login unit,
all through `ensure_running`; `ByHand` adds `daemon serve`; a stopper asks,
polls, sends SIGTERM and SIGKILL. A crash leaves the path. Nothing keeps starts
apart; `crowded` records the daemons whose start overlapped another's. Assumed of the
time-outs: a start is faster than `START_TIMEOUT`, a main-loop turn faster than
`STOP_TIMEOUT`, unless another daemon answers.

**Caretaker.** The queue of MPD is a sequence of rows (id, link, and whether the
file is the link, a stream that answers or a stale one); anybody may add, remove
or move rows, a stream drops (its fill gives up or is evicted) or answers again, MPD advances,
a TUI attaches, swaps rows itself and exits. The watcher thread polls, chooses, resolves, re-reads, deletes and
adds, each call to MPD a step. A daemon may end at any of them and come back, after which any of the streams may be stale: incomplete fills do not
survive, and on another port none answers. `disturbed` counts
the edits, refusals and ends that meet a swap between its delete and its add;
`wanted` is the order of links people left. `fresh` and `missed` tell the links
warmed since the last poll, and those that needed another resolve while they were:
the code keeps them in `warmed` and skips them (section 5). `MaxEvents` bounds
edits, restarts, drops and disturbed swaps together. Row ids are reused once nobody remembers them. Fresh and saved resolves are not told apart, a lost MPD
connection is a refusal, and the expiry of the back-off is nondeterministic.

**DownloadDaemon.** The spool (`spool`, `req`), the response files (`reply`),
`downloads.json` (`file`: its rows and whether its pid lives), and one daemon
process with its program counter: `top`, one step per spool file, one per add
that came back, one per job of the poll, `save`, `exit`. A row keeps what the
handlers branch on: source key or infohash known, status, engine (none, checking,
live, done), an add under way, the responses due and whether their clock runs. An
engine moves on when somebody looks (`Sights`). Clients commit and then look for a
daemon, wait, cancel, retry once, give up, stop, and remove rows of a daemon that
is gone; `dl start` and `dl stop` are processes of their own. A crash or `dl stop`
may come at any step. Reductions: a job and the request that made it share one
name; the spool is taken in any order (its names are random); which files are
kept, tokens, sections of a stream and the text of errors are left out; the
streaming marker is a choice (`held`); the 60 s of `pending_gate` may be over at
any poll, the 25 s of a wait only when no daemon lives. The offline removal is one
step and two daemons are never started at once: both are hazards of the code
(`dlctl.rs:610`, `:709`) that the model does not enter. A TUI that exits is a wait
nobody ends. Bounds: `MaxRequests` spool files, `MaxFaults` faults of any kind.

**MpvSession.** A launch is a record of a thread (`spawn`, `wait`, `heal`, `done`)
and the player it spawned, with its list, place, socket and whether it is far
enough to be worth a report or a question. The event loop takes messages from a
queue and polls; `session` is `ctx.mpv`, `tracker` is `MpvState`. `play` is
which reports were spawned under the current PlaySessionId; each is a request on a
thread of its own (`spawn_jellyfin_report`), and those threads are not modelled.
`owed` records the videos launched after a question and `dropped` those whose
answer was lost before they started: `pending_resume` is one slot. People pick lists, play and switch,
answer questions or put them away; Jellyfin answers in any order and as late as it
likes; a restart keeps the players and nothing else. Reductions: `far` stands for
the thresholds of reports (seconds) and the poll sees it change at any time; mpv
may advance, exit or open its socket whenever it likes; confirmations act at
once; the socket is the one of the player's pid (mpvSockets.lua); titles, art,
chapters, start offsets, the volume, the tracker helper and MPD (which pauses for
mpv and takes over from it) are left out, and so is the question the Home pane
asks in place of the library. Bounds: `MaxLaunches` players, `MaxUses` picks and
restarts, `MaxEvents` messages the event loop lags behind its own polls.

## 3. The runs

TLC finishes each in under three minutes with two workers, one after the
other. A pass shows the properties on that instance; a line on why the instance
is large enough follows.

| Run | Module, cfg | Properties |
|---|---|---|
| `client` | `MCMpdClientTask`, `MpdClientTask` | `OneClient` `CleanExchange` `NoMixedAnswers` `ConfirmationsMatch` `SkippedIsReplaced` `SettledInOrder` `HealthyAgainAfterBothEnd` `UnhealthyReconnects` `RequestsSettle` |
| `stream` | `MCStreamCache`, `StreamCache` | `CompleteEntryIsWhole` `ServedIsWhole` `CutOffOnlyByFailure` `RequestsEnd` `FillsEnd` |
| `stream_evict` | `MCStreamCache`, `StreamCacheEvict` | `ActiveCountsUsers` `UsedIsNotEvicted` |
| `scheduler` | `MCScheduler`, `Scheduler` | `OneJobPerId` `WaitsForADueJob` `KeepsTimers` `DueJobsRun` |
| `key_sequences` | `MCKeySequences`, `KeySequences` | `TypedTextIsKept` `SequencesEnd` |
| `ytdlp_downloads` | `MCYtDlpDownloads`, `YtDlpDownloads` | `WaitingEnds` |
| `play` | `MCPlayRequests`, `PlayRequests` | `OneResolvePerRow` `PlaysLandInOrder` `NoLinkReturns` `WarmedRowsSettle` |
| `daemon` | `MCDaemonSocket`, `DaemonSocket` | `HolderIsReachable` `OnlyTheLivingTurnAway` |
| `daemon_two_starts` | `MCDaemonSocket`, `DaemonSocketTwoStarts` | `OneDaemon` (violated) |
| `caretaker` | `MCCaretaker`, `Caretaker` | `QueueIsAsLeft` `OneLateSwap` `WindowIsResolved` |
| `downloads` | `MCDownloadDaemon`, `DownloadDaemon` | `OneEnginePerTorrent` `WaitsAreKept` `RowsStayOnDisk` `DownloadsEnd` `PendingIsAnswered` |
| `mpv` | `MCMpvSession`, `MpvSession` | `NothingSpawnedAfterStop` `AskedOnce` `DeadSessionEnds` |

- **client** — three requests: two status polls that replace each other around a
  command whose first exchange may fail unheard and whose second may not; two
  faults, so a second connection may break as well; two late answers, so one
  ignored and one returned. One batch can then hold a query that is skipped, the
  command and the query that replaces it, and an answer left by the command can
  meet its own next exchange, the next request and the idle thread. 328 000 states.
- **stream** — one key of two chunks, as audio and as video, two fill attempts, two
  fills in memory at a time, one request at a time whose thread may meet either of
  them, preloads and registrations at any time, upstreams with and without a length,
  one crash. Two fills are what a wrong second writer needs; two attempts what a
  rewritten file needs; two classes a fill that writes another file than the request
  opens. 850 000 states with liveness, two and a half minutes.
- **stream_evict** — two keys of one chunk, a budget of one chunk: every end of
  a fill may evict the other key, which a request may be using.
- **scheduler** — two one-shot jobs of one id (a replace), one of another id and
  a repeated one, one cancel, any number of stops and starts, two ticks.
- **key_sequences** — three keys from {g, a} with `g`, `gg`, `ga` bound in normal
  mode (so `g` is ambiguous) and `ga` in an input, one reload, one click, two
  ticks. The longest sequence has two keys; the third follows or breaks it.
- **ytdlp_downloads** — three downloads so that one waits behind another that
  is requeued, one retry.
- **play** — one row with a link and two playlist entries, of which the user opens
  one and may move the highlight to the other (`Chosen`), two requests, two
  workers, one failing resolve or call to MPD, removals by other clients at any
  time. A race for a row needs two asking for it: two plays, or a play and the look
  ahead; an order is broken by two plays, of which the first resolves last.
  746 000 states with liveness, a minute and a half.
- **daemon** — three daemons, two starters and a stopper, two crashes anywhere,
  starts that overlap in any way; 4.3 million small states, half a minute.
  **daemon_two_starts** asks whether two daemons ever answer at once, and they do.
- **caretaker** — two rows, a window of two, two edits, drops, restarts or
  disturbances of a swap: a row is removed and added again, a stream drops and
  the daemon restarts. 1.37 million states, a bit over a minute.
- **downloads** — one torrent, committed as a magnet to play, as a file to keep,
  and streamed; two requests of any of these kinds or a stop, one fault. Two rows
  of one torrent need two commits, a merge one of them by file. 86 000 states with
  liveness. With `Spec`, `MaxRequests = 3` and the safety properties only (two
  commits and a stop between them) TLC passes 2.4 million states in a minute.
- **mpv** — two players, a video that is in a season with another, one that is
  alone, and a list without Jellyfin; two picks or restarts. The first player can
  be left, overtaken and outlived, and a pending answer dropped. 1.6 million states,
  two and a half minutes.

Deadlock is checked in `stream` and `stream_evict`. Elsewhere the system may
really stop: bounded keys, edits, requests, starts and retries run out, a
scheduler that was stopped has nothing left to do, and the client task can hang
(see 5).

*Fairness.* Threads are scheduled: weak fairness of each thread's steps.
`select!` of crossbeam picks at random among ready branches, so a branch that is
ready again and again is taken: strong fairness for `WorkRequest` only. MPD comes
back after an outage (`ServerReturns`): while it is away no request can end. Clocks
advance (`Tick`). A fill thread of the proxy goes on, as the calls to its upstream have
time-outs; a request thread does where its player has no part in it (`Works`), while
nothing makes a player read or close its connection. Resolves and downloads end, with success or failure: they are
child processes whose end the code awaits. The downloader daemon's loop goes round,
and as its poll runs once a second, it polls again and again (strong fairness of
`AddsDone(TRUE)`); an add ends by its own time-out, and a torrent is complete one
day (strong fairness of `AddSucceeded` and of a poll that finds it done): `DownloadsEnd`
says that the daemon adds nothing that keeps it from ending. The event loop of a
video takes its messages, its 100 ms timer fires, the grace passes, and launcher
threads go on; players, people and Jellyfin owe nothing. Nobody is made to submit,
start, stop, edit, press, crash or attach, and the read time-out of the idle
thread, which is off by default, is never relied upon.

Every property is also checked against a mutated definition: `PROJECT.json`
lists for each property one plausible mistake that TLC then finds violating it.

## 4. What is proved

With TLAPS, for every value of the constants that satisfies the ASSUME of the
module (natural-number bounds; `Kind`, `Steps` and `ReplaceId` any functions; the delays
any naturals; any sets of daemons, starters, keys, entries and workers; finite sets
of request threads and of links). Every safety property that section 3 finds to hold
is proved, but `TypedTextIsKept`, and no theorem has a hypothesis beyond that ASSUME: where the
code does not keep a property, the property names the exception by a history variable, and
section 5 has the place.

- `MpdClientTask_proofs`. `TokenInv` says for every control state where the
  client is and in which phase the two other threads can be; it is inductive by
  itself and gives `OneClient`. `TypeOK` is proved in three parts (control,
  requests, connection), the part about requests with the phases in which a
  request is current. `Handover` adds that at most one confirmation is pending,
  for whom, and in which health; with `TokenInv` it is inductive and gives
  `ConfirmationsMatch`, `RunsHealthy` and the action property
  `HealthyAgainAfterBothEnd`. `Wire` says what is unread on the stream in each
  phase, given `TokenInv` and `Handover`: all of it while no time-out was ignored on
  the connection, and after that only that an MPD told to stop idling is not told to
  idle before the request is through. It gives `CleanExchange` and
  `NoMixedAnswers`, for any closures.
  `QueueInv` is about the order of requests: those that wait are the current one,
  the batch and the channel, in ascending order (`InLine`), what was submitted is a
  prefix, and nothing is left of a batch when the next request is taken
  (`BatchIsDone`). With the two properties it is inductive: it gives
  `SettledInOrder` and, as a query is skipped only for one further back in the
  batch, `SkippedIsReplaced`, for any requests, faults and time-outs.
- `StreamCache_proofs`. `Inv`: a live fill is the one `Inner.fills` names for its
  key and no other (`Paired`), a fill has what it looked up (`LookedUp`), a request
  has a fill from when it waits for one (`Held`), and `active` counts the requests
  and the fill of a key (`Counted`). It gives `ActiveCountsUsers` and, with the
  choice of what to evict, the action property `UsedIsNotEvicted`. Three more parts
  are about whole bodies. `Whole`: a key's files are no longer than the body, the one
  of a complete entry is whole, and what the saved index calls complete is, or was
  evicted since. `Filling`: a fill that fetches has an incomplete key, has written
  what its file holds, and that is the file of the key's class; one that publishes
  has it all. `Serves`: a request reads the file of its key's class, one that goes to
  the disk has a complete entry, one that streams is not at the end of the body. They
  need that a key in use keeps its class (`Stays`), which follows from the count of
  users and `UsedIsNotEvicted`. They give `CompleteEntryIsWhole`, `ServedIsWhole` and
  `CutOffOnlyByFailure` for any keys, classes, budgets and restarts, and without a
  hypothesis: what the code fails at `stream_cache.rs:786` and `:866` (section 5) is
  excepted key by key (`astray`).
- `Scheduler_proofs`. The invariant says that a job is in one place (one
  command, the heap or the callback), that entries are of issued jobs, and how
  the wait relates to the earliest entry: the sampled time is never later than
  now. It gives `TypeOK`, `OneJobPerId` and `WaitsForADueJob`. Two lemmas state
  what `Earliest` and `NextDeadline` return for any finite or infinite heap of
  natural times. The refinement `KeepsTimers` is proved step by step: jobs in the
  channel, the heap and the callback are pending timers, and those a command
  behind them takes back are withdrawn (`Held`, `Gone`). The owner's steps map to
  `Set` and `Withdraw`, a command that is received to `GiveUp` or a stutter, a job
  that ran to `Ring`. That it rings when due needs `RunsWhenDue`: the callback's
  entry was due when time was sampled.
- `PlayRequests_proofs`. The invariant has a witness, a function from MPD's song
  ids to links: everything that names a row, whether it is the queue, the queue
  shown, a job, a result, a command or the swap in progress, names it with the link
  that function gives it. So an answer that comes late finds its own row or none. A
  link of the start that is no stray is in the queue once at most, a swap that is
  about to delete finds its row, and one that is about to add is alone with its link
  (`FirstLinksOnce`, `SwapHolds`), no row becomes a link again (`LinksAreShown`), a play that lands was asked for (`Clock`), a row
  whose play is under way is marked while it is shown as a link (`Marked`), and
  there is one such play (`Once`). Gives `OneResolvePerRow`, `PlaysLandInOrder` and
  `NoLinkReturns` for any rows, entries, workers, requests, failures and removals.
- `DaemonSocket_proofs`. While a daemon that is not `crowded` starts, no other
  does; a daemon that has taken the path for stale (`pc = "remove"`) meets only
  crowded ones that serve, since one that started alone either still starts, which
  crowds both, or held the path and answered the probe. So nobody but a daemon that
  lost its own path and is then stopped (`StrayLeft`) takes the path from one that
  started alone. Gives `HolderIsReachable` and `OnlyTheLivingTurnAway` with no
  assumption on starts.
- `Caretaker_proofs`. The count of rows taken out under a TUI is at most one,
  and while it is one the thread is at a point from which it returns to the
  test of `attached` before it can delete again. Gives `OneLateSwap` for every
  queue, window and number of events. `QueueInv`: ids in the queue are unique
  (a new one is free by the pigeonhole principle), an id the caretaker has read
  still stands for the link it had, and, as long as no swap was disturbed, the
  place read is the place of the row, and between delete and add the queue
  is what people left without that place (`Placed`). Gives `QueueIsAsLeft`, with
  lemmas on what `RemoveAt` and `InsertAt` do to the order of links.
- `MpvSession_proofs`. After a stop no session lasts and no position is left
  that a report needs, so the next report comes with a session, and a
  PlaySessionId, of its own; while an answer of Jellyfin is awaited, what people
  were asked about is at most the video they were asked about last, but for dropped
  answers, and the answer for a video yet to start is the one pending, or dropped.
  Gives `NothingSpawnedAfterStop` and `AskedOnce` for any videos, lists, seasons and
  bounds.
- `DownloadDaemon_proofs`. Each operation on the daemon's memory (merge, answer,
  fail, add, poll, move) is shown once to keep three things: a row with an engine
  knows its infohash and is the only one of its torrent; a response is pending at
  one row; nobody who is pending, answered or dropped stops being one of these.
  The invariant adds what ties the memory to the files: a row or a response is
  named by a request that has left the spool, the rows of the file are bare, a
  pass polls only rows that are there, and a living daemon has every row of its
  file but those stopped, or, until it writes the file, merged. Gives `TypeOK`,
  `OneEnginePerTorrent`, `WaitsAreKept` and the action property `RowsStayOnDisk`
  for any torrents, commits, requests and faults. `ConstantsAssumption` says that
  `None` is no number, request, row or file.

Only model-checked:
- liveness (`~>`, fairness and ENABLED are out of the prover's reach):
  `UnhealthyReconnects`, `RequestsSettle`, `RequestsEnd`, `FillsEnd`, `DueJobsRun`,
  `SequencesEnd`, `WaitingEnds`, `WarmedRowsSettle`, `WindowIsResolved`,
  `DownloadsEnd`, `PendingIsAnswered`, `DeadSessionEnds`;
- `TypedTextIsKept`: the text on its way is picked out of the queue of events and
  concatenated by recursion over it, and what a recursive definition computes for
  every queue needs induction over data, which the installed provers do not do;
- that the mutated definitions are wrong.

Some theorems state invariants that no run repeats: `RunsHealthy` of the client
and the type invariants. `WarmRows` of `PlayRequests` is written without a fold
for the proofs: the loop of `warm_next_queue_link` visits the rows in some order,
and what it leaves is a union and two sequences.

## 5. Where the code does not do what its comments say

Modelling led to the places below. The models follow the code; properties that
these places would violate are stated with the exception named, or the constant
that leads there is off. `daemon_two_starts` shows the one that is a run; the
others were found by reading the code for its model, and TLC confirmed them on
the models of this directory or on variants with one more history variable.

*Client task.*
- `core/client.rs:168`: main waits for the first confirmation without a
  time-out. When `set_read_timeout` or `enter_idle` fails before it (123-126),
  the idle thread ends, `HEALTHY` is false and nobody reconnects, although line
  49 says "Trying to end threads and reconnect". `Hung` is this state,
  `StartupFaults` leads there, `UnhealthyReconnects` and `RequestsSettle` except it.
- `core/client.rs:376`: the error of the status after a command is swallowed, and
  closures swallow errors half-way: `let _ = client.delete_id` in
  `ui/modals/paste/resolve.rs:472`, `:892`, `:972`,
  `let _ = client.add_tag_id` in `warm.rs:564`, `ctx.rs:997`, `status.rs:195-204`.
  When it was a time-out, the loop, which reconnects on one (239), does not hear of
  it, and the response stays on the stream for the next exchange, of the closure or
  of another request, or for the idle thread: answers are off by one until the next
  reconnect. `CleanExchange` and `NoMixedAnswers` except such a connection.

*Stream proxy.*
- `core/stream_cache.rs:866`: the index on disk lags behind an eviction. A
  request for the evicted key truncates the file; if the process dies before the
  next `save_manifest`, `start` restores the entry as complete (506-508).
  `CompleteEntryIsWhole` excepts such a key (`astray`).
- `core/stream_cache.rs:478`: a key without an entry needs a refresh even while it is
  being read, which 400-401 say it never does; it happens after an eviction.
- `core/stream_cache.rs:786`: `class_of` is Audio for a key without an entry: the
  fill of an evicted video row writes another file than its requests open. So does
  the fill of a link that is used as audio and as video: `register` keeps the class
  of the entry that is there, the URL names the other. Its requests find no file, or
  one that a fill of the other class left. The properties except these keys.
- `core/stream_cache.rs:886`: the connections of players have no time-outs. A paused
  player holds its thread in a write, and its key in use, for as long as it likes;
  `RequestsEnd` excepts just that.
- `core/stream_cache.rs:707`: a fill that fails sets `failed` on the entry though
  `register` has stored a new upstream since (550-551 say it gets a chance).

*Key sequences.*
- `key_resolver.rs:100`: the cancel of a timer does not recall a `KeyTimeout` that
  is already in the queue; it ends the sequence the next key has just prolonged.
- `ui/mod.rs:1262`: an `InsertModeFlush` behind an event that closes the input
  finds none, and its keys go neither to the input nor to the bindings.

*Downloads.*
- `manager.rs:222`: a requeued earlier item is found before the running one, so two
  items are shown as downloading (206: "Only ever download one at a time").
- `ui/modals/downloads.rs:501`: the menu keeps the actions of the state it was
  built for: its Cancel may turn a completed download into a cancelled one.

*Play requests.*
- `resolve.rs:892`, `:972`: the error of the delete is ignored and the stream is added
  all the same. When the delete failed, the link stays in the queue beside its
  stream, and a later resolve of it adds another; when another client removed the row
  after the queue was read, the track comes back (968-969: "never append a stray
  copy"). `NoLinkReturns` excepts such a link (`strays`).
- `resolve.rs:217`: a mark is pruned only when its row leaves the queue. A resolve
  that is skipped, dropped or fails leaves it, and later requests are declined,
  against 446-447 ("that retry can succeed").
- `core/work.rs:131`: a job skipped in the pool sends no result, so
  `ctx.pending_play` stays (`ctx.rs:53`: cleared "whichever way it goes"); the
  next move of the highlight cancels whatever play is current.
- `resolve.rs:135`: a second press on a row that resolves takes a new generation
  before the mark declines it: the resolve under way is dropped and nothing plays.
- `work_done.rs:50`: a superseded step leaves `pending_next_step` set, the state
  that `resolve.rs:453-456` warns of.
- `queue/play.rs:91`: a ready row plays without a generation, so an earlier resolve
  lands afterwards and takes over.

*Daemon.*
- `server.rs:140`: probe, removal and bind are separate, and a path that is bound
  and not yet listening refuses connections. Two daemons started at once both
  serve, one without a path (`mod.rs:159`: "Idempotent and safe to call from
  every TUI start"). The instance lock (`main.rs:395`) keeps TUIs apart; it does
  not cover `s2udio daemon start`, the login unit and `daemon qat`. When the one
  without a path was asked to stop before it lost it, it removes on its way out the
  path of whichever daemon holds it by then (`server.rs:183`), also of one that
  was started alone; `HolderIsReachable` excepts just these.
- `mod.rs:162`: a daemon that was asked to stop answers pings for up to 200 ms:
  `ensure_running` starts nothing and returns true, and the daemon goes.
- `mod.rs:360`: `stop` polls whether any daemon answers, so SIGTERM and SIGKILL
  may go to the pid of one that has left.

*Caretaker.*
- `caretaker.rs:112`: what was warmed is remembered by link: the second of two rows
  with one link, a link removed and added again while it resolves, and a link whose
  preload fails before the next poll are skipped, the last for as long as its row
  needs a resolve. `WindowIsResolved` excepts these (`missed`) and no others.
- `caretaker.rs:187`: `attached` is not read again after the resolve, and a TUI
  attaches only at its start, so it does not hold back a later daemon.
- `caretaker.rs:187-188`: delete, then add. A row another client removed in between
  comes back; a row whose add is refused, or whose daemon ends between the two
  (`serve` does not wait for the watcher thread), is gone.

*Downloader daemon.* `DownloadDaemon` states the first three; they are in no cfg.
Added to `DownloadDaemon.cfg` as an INVARIANT (`ClockMeansWaiting`) or PROPERTY,
TLC finds each violated.
- `dlctl.rs:990`, `CommitsAreTaken`: a commit that is spooled after the last
  listing of the spool finds the pid alive, so no daemon is started, and the daemon
  ends; line 4 says a download "must COMPLETE even when the TUI exits". The next
  start takes it up.
- `dlctl.rs:1396` and `:1769`, `ClockMeansWaiting`: a failure clears the responses
  due and not `pending_since` (899: "`None` = nothing waiting"); a wait on the
  revived row may time out at once.
- `dlctl.rs:1877`, `MoveSparesThePlayer`: a torrent that is complete when it comes
  live is answered with URLs and moved, its engine dropped, in the same pass; the
  marker that would hold the move back is written when the player starts.
- `dlctl.rs:1270-1299`: a merge answers through any engine, without the test for a
  live torrent that a stream request makes (1171-1207).
- `dlctl.rs:795`: `dl stop` writes back the rows it read before it signalled the
  daemon, over what the daemon wrote when it left.
- `dlctl.rs:1107`: a crash between the removal of a spool file and the next
  `write_state` loses the job. `:1085`: a stop may be taken before its commit.

*mpv session.* `MpvSession` states the first four; added to `MpvSession.cfg` as
PROPERTIES, TLC finds each violated.
- `core/mpv.rs:1605`, `HealthyIsKept`: `MpvSessionEnded` names no player. `maybe_heal`
  may take a while between the exit and the message, which then ends the session of
  the player launched meanwhile. Likewise the end of the first of two players.
- `event_loop/mpv.rs:887`, `AskedAboutItsItem`: the fetch is compared with the item
  fetched last, not with the item of the answer, so after a change and back, or from
  one item to the next, an old answer is taken for the new item (878-880).
- `event_loop/mpv.rs:1116`, `SeeksItsOwnVideo`: Continue on a question that was left
  open seeks the video that plays now.
- `core/mpv.rs:283`, `ReattachedItemIsPlaying`: without a fresh state file the item
  is that of the first entry of the player's list.
- `event_loop/mpv.rs:391`: `session_since` is reset by a poll without a session; as
  the timer goes with the session, `MPV_START_GRACE` does not cover a second video.
- `event_loop/mpv.rs:287`: a report is spawned on a thread of its own, and nothing
  orders these. A progress report that is due when the poll finds the next item or
  the session ends may reach Jellyfin after the stop, under the same PlaySessionId.
  `NothingSpawnedAfterStop` is about the order in which they are spawned.
- `event_loop/mpv.rs:347`, `:1018`: one answer is pending at a time. The end of a
  session clears it and the next start takes it, whichever video that is about, and
  so do an advance and another answer: the person who answered before the launch is
  then asked again, behind the video (1013-1015 says not). `AskedOnce` excepts just
  the videos whose answer was `dropped`.
- `play.rs:50-84`: a switch without a socket changes the item and loads nothing.
  `core/mpv.rs:1115`: a pick without a socket launches a second player.

*Temporary plays.*
- `ui/tree_browser.rs:553`: `cleanup_temp_play` of one pane clears `ctx.temp_play_id`,
  which may name the row of another; that row then stays in the queue (618-632 say
  it goes).

## 6. Plan

Order of work, the most important first.

1. *Prove.* The client's `SettledInOrder` as the order of
   commands that `Takes` of `PlayRequests` assumes. `TypedTextIsKept` in a
   form without recursion.
2. *Compose.* Caretaker and StreamCache: a swapped row is one the proxy can serve,
   also after a restart on another port. PlayRequests over MpdClientTask's order of
   commands, which `Takes` assumes and `SettledInOrder` shows. MpvSession with
   the exclusion of MPD.
3. *Check more.* Two keys with a crash in `StreamCache` (the steps need to be
   coarser for that), whether whoever waits for a daemon is told, and two downloader
   daemons started at once.
