------------------------------ MODULE MpvSession ------------------------------
(***************************************************************************)
(* Videos in mpv: the session the TUI keeps about the player it launched   *)
(* (core/mpv.rs, core/event_loop/mpv.rs, the play path of                  *)
(* ui/panes/jellyfin/play.rs).                                             *)
(*                                                                         *)
(* A launch is a thread and the player it spawns: the thread tells the     *)
(* event loop that the session started, waits for the player to exit and   *)
(* tells it that the session ended.  The event loop handles one message at *)
(* a time, polls the player's socket every 100 ms while a session lasts,   *)
(* follows the player to the next video of its list, asks where to resume  *)
(* and spawns a thread for each report to Jellyfin.  The player outlives   *)
(* the TUI; the next TUI finds it by its socket.                           *)
(*                                                                         *)
(* Those threads and their requests are not modelled: nothing orders them, *)
(* so what is said of reports is said of the order they are spawned in.    *)
(*                                                                         *)
(* A position is past the thresholds of the code (far) or not.  MPD, which *)
(* gives way to mpv and takes over from it, is left out, and so are titles, *)
(* posters, chapters, start offsets of pasted links and what               *)
(* video-resume.json holds: it may know a position of any video.           *)
(***************************************************************************)
EXTENDS Naturals, Sequences, FiniteSets

CONSTANTS
    Videos,       \* what a playlist entry plays
    Items,        \* the videos that are Jellyfin items
    Picks,        \* the lists people pick
    Season,       \* video -> the list of its season, or <<>> when it has none
    StaleLimit,   \* failed polls after which a session is given up
    MaxLaunches,  \* bound on the players launched
    MaxUses,      \* bound on what people ask for and the restarts of the TUI
    MaxEvents,    \* bound on the messages the event loop lags behind
    None

ASSUME MpvSessionAssumption ==
    /\ Items \subseteq Videos /\ None \notin Videos
    /\ \A list \in Picks : list \in Seq(Videos) /\ list # <<>>
    /\ \A v \in Videos : Season[v] = <<>> \/ \E i \in DOMAIN Season[v] : Season[v][i] = v
    /\ StaleLimit \in Nat \ {0} /\ MaxLaunches \in Nat /\ MaxUses \in Nat
    /\ MaxEvents \in Nat \ {0}

VARIABLES
    session,    \* ctx.mpv
    tracker,    \* MpvState of the event loop
    launches,   \* the launcher threads and the players they spawned
    launched,   \* LAUNCHED_MPV_PID: the launch whose pid it holds, or 0
    events,     \* messages to the event loop
    asking,     \* resume questions on the screen, the uppermost first
    resumes,    \* FetchJellyfinResume jobs under way: their items
    seasons,    \* FetchJellyfinSeason jobs under way: the videos
    asked,      \* history: the videos asked about since the last start, advance or end
    repeated,   \* history: the videos asked about twice, but for dropped ones
    owed,       \* history: the videos launched after a question, not started since
    dropped,    \* history: the videos whose answer was dropped before they started
    uses        \* picks and restarts so far

questions == <<asking, asked, repeated, owed, dropped>>
jobs == <<resumes, seasons>>
vars == <<session, tracker, launches, launched, events, questions, jobs, uses>>

At(list, i) == IF i \in DOMAIN list THEN list[i] ELSE None
ItemOf(v) == IF v \in Items THEN v ELSE None

NoSession ==
    [active |-> FALSE, socket |-> 0, item |-> None, pos |-> FALSE, list |-> <<>>, at |-> 0,
     seek |-> None, prompted |-> None, fetch |-> None, answer |-> <<>>, waiting |-> <<>>]

NewTracker ==
    [since |-> "none", ticks |-> 0, item |-> None, started |-> FALSE, play |-> "", pos |-> FALSE]

Unused == [thread |-> "unused", alive |-> FALSE, up |-> FALSE,
           list |-> <<>>, at |-> 0, far |-> FALSE]

Started(v) == [type |-> "Started", video |-> v]
ItemChanged(v) == [type |-> "ItemChanged", video |-> v]
Ended == [type |-> "Ended"]

Init ==
    /\ session = NoSession
    /\ tracker = NewTracker
    /\ launches = [i \in 1..MaxLaunches |-> Unused]
    /\ launched = 0
    /\ events = <<>>
    /\ asking = <<>> /\ resumes = {} /\ seasons = {}
    /\ asked = {} /\ repeated = {} /\ owed = {} /\ dropped = {}
    /\ uses = 0

----------------------------------------------------------------------------
(* The players.                                                            *)

Playing(i) == At(launches[i].list, launches[i].at)
Reachable == {i \in DOMAIN launches : launches[i].alive /\ launches[i].up}

\* mpv_socket: the player launched last, when it answers, else any that does.
MpvSocket == IF launched \in Reachable THEN {launched} ELSE Reachable

Loaded(player, list, at) == [player EXCEPT !.list = list, !.at = at, !.far = FALSE]

\* The socket is up some time after the player runs; the video goes on; the
\* next one of the list begins; the player exits, at the end or before.
SocketUp(i) ==
    /\ launches[i].alive /\ ~launches[i].up
    /\ launches' = [launches EXCEPT ![i].up = TRUE]
    /\ UNCHANGED <<session, tracker, launched, events, uses, questions, jobs>>

PlaysOn(i) ==
    /\ launches[i].alive /\ ~launches[i].far
    /\ launches' = [launches EXCEPT ![i].far = TRUE]
    /\ UNCHANGED <<session, tracker, launched, events, uses, questions, jobs>>

Advances(i) ==
    /\ launches[i].alive /\ launches[i].at < Len(launches[i].list)
    /\ launches' = [launches EXCEPT ![i] = Loaded(@, @.list, @.at + 1)]
    /\ UNCHANGED <<session, tracker, launched, events, uses, questions, jobs>>

Exits(i) ==
    /\ launches[i].alive
    /\ launches' = [launches EXCEPT ![i] = [Unused EXCEPT !.thread = launches[i].thread]]
    /\ UNCHANGED <<session, tracker, launched, events, uses, questions, jobs>>

----------------------------------------------------------------------------
(* The launcher thread of run_mpv_playlist.                                *)

Launchable == {i \in DOMAIN launches : launches[i].thread = "unused"}
NextLaunch == CHOOSE i \in Launchable : \A j \in Launchable : i <= j
CanLaunch == Launchable # {}

\* run_mpv_playlist: the list is recorded at once, the thread does the rest.
Recorded(s, list, at) == [s EXCEPT !.list = list, !.at = at]
RunPlaylist(list, at) ==
    /\ CanLaunch
    /\ launches' = [launches EXCEPT ![NextLaunch] =
                        [Loaded(@, list, at) EXCEPT !.thread = "spawn"]]

Spawn(i) ==
    /\ launches[i].thread = "spawn"
    /\ launches' = [launches EXCEPT ![i].thread = "wait", ![i].alive = TRUE]
    /\ launched' = i
    /\ events' = Append(events, Started(Playing(i)))
    /\ UNCHANGED <<session, tracker, uses, questions, jobs>>

SpawnFails(i) ==
    /\ launches[i].thread = "spawn"
    /\ launches' = [launches EXCEPT ![i] = [Unused EXCEPT !.thread = "done"]]
    /\ UNCHANGED <<session, tracker, launched, events, uses, questions, jobs>>

\* Between the exit and the message lies maybe_heal, which restarts a service.
Reap(i) ==
    /\ launches[i].thread = "wait" /\ ~launches[i].alive
    /\ launches' = [launches EXCEPT ![i].thread = "heal"]
    /\ launched' = 0
    /\ UNCHANGED <<session, tracker, events, uses, questions, jobs>>

SayEnded(i) ==
    /\ launches[i].thread = "heal"
    /\ launches' = [launches EXCEPT ![i] = [Unused EXCEPT !.thread = "done"]]
    /\ events' = Append(events, Ended)
    /\ UNCHANGED <<session, tracker, launched, uses, questions, jobs>>

----------------------------------------------------------------------------
(* What people ask for.                                                    *)

Uses == uses < MaxUses /\ uses' = uses + 1

\* play_video_entries and play_video_entries_at, without the launch: a running
\* player is switched to the list, or the list waits for its socket.
Switch(list, at, waits) ==
    LET s == session.socket IN
    /\ launches' = IF s = 0 THEN launches ELSE [launches EXCEPT ![s] = Loaded(@, list, at)]
    /\ session' = [Recorded(session, list, at) EXCEPT
                     !.waiting = IF waits THEN list ELSE @]
    /\ events' = Append(events, ItemChanged(list[at]))

SocketIsDead == session.socket # 0 /\ session.socket \notin Reachable

PlayEntries(list) ==
    /\ Uses
    /\ IF ~session.active \/ SocketIsDead
          THEN /\ RunPlaylist(list, 1)
               /\ session' = Recorded(session, list, 1)
               /\ UNCHANGED events
          ELSE Switch(list, 1, session.socket = 0)
    /\ UNCHANGED <<tracker, launched, questions, jobs>>

\* Without a socket a second player is launched and the session is switched as well.
PlayEntriesAt(list, at) ==
    /\ Uses
    /\ CASE ~session.active \/ SocketIsDead ->
               /\ RunPlaylist(list, at)
               /\ session' = Recorded(session, list, at)
               /\ UNCHANGED events
         [] session.active /\ session.socket = 0 ->
               /\ RunPlaylist(list, at)
               /\ session' = Recorded(session, list, at)
               /\ events' = Append(events, ItemChanged(list[at]))
         [] OTHER -> Switch(list, at, FALSE)
    /\ UNCHANGED <<tracker, launched, questions, jobs>>

\* launch_video
LaunchVideo(s, v) ==
    IF Season[v] # <<>>
      THEN /\ seasons' = seasons \cup {v}
           /\ session' = s
           /\ UNCHANGED launches
      ELSE /\ RunPlaylist(<<v>>, 1)
           /\ session' = Recorded(s, <<v>>, 1)
           /\ UNCHANGED seasons

\* play_video and start_video with no session: a saved position is asked about
\* before the player is launched, unless the answer is there already.
StartVideo(v, saved) ==
    /\ Uses
    /\ ~session.active /\ asking = <<>>
    /\ IF saved /\ ~(session.answer # <<>> /\ session.answer[1] = v)
          THEN /\ asking' = <<[video |-> v, before |-> TRUE]>>
               /\ UNCHANGED <<session, launches, seasons>>
          ELSE LaunchVideo(session, v) /\ UNCHANGED asking
    /\ UNCHANGED <<tracker, launched, events, resumes, asked, repeated, owed, dropped>>

\* play_video with a session, confirmed: the video again from its start, or
\* another one in place of it (in the player's list, or in place of an entry).
PlayAgain(v) ==
    /\ Uses
    /\ session.active /\ asking = <<>> /\ session.item = v /\ session.socket \in Reachable
    /\ launches' = [launches EXCEPT ![session.socket].far = FALSE]
    /\ UNCHANGED <<session, tracker, launched, events, questions, jobs>>

PlayInstead(v) ==
    LET s == session.socket
        places == {k \in DOMAIN session.list : session.list[k] = v}
        first == CHOOSE k \in places : \A j \in places : k <= j
        player == launches[s]
    IN
    /\ Uses
    /\ session.active /\ asking = <<>> /\ session.item # v
    /\ launches' =
         CASE s \notin Reachable -> launches
           [] s \in Reachable /\ places # {} ->
                [launches EXCEPT ![s] =
                    IF first \in DOMAIN @.list THEN Loaded(@, @.list, first) ELSE @]
           [] OTHER ->
                [launches EXCEPT ![s] = Loaded(@, [@.list EXCEPT ![player.at] = v], @.at)]
    /\ seasons' = IF (places = {} \/ s = 0) /\ Season[v] # <<>> THEN seasons \cup {v} ELSE seasons
    /\ events' = Append(events, ItemChanged(v))
    /\ UNCHANGED <<session, tracker, launched, resumes, questions>>

----------------------------------------------------------------------------
(* Questions and what comes back from Jellyfin.                            *)

\* prompt_video_resume, for a saved position of v (None: nothing to offer).
\* `before` is what people were asked about since the video began.
Ask(s, v, before) ==
    LET asks == v # None /\ s.prompted # v IN
    /\ session' = IF asks THEN [s EXCEPT !.prompted = v] ELSE s
    /\ asking' = IF asks THEN <<[video |-> v, before |-> FALSE]>> \o asking ELSE asking
    /\ asked' = IF asks THEN before \cup {v} ELSE before
    /\ repeated' = IF asks THEN repeated \cup ((before \cap {v}) \ dropped) ELSE repeated

\* prompt_local_resume: video-resume.json may have a position for the video.
Remembered(v, kept) == IF kept THEN v ELSE None

\* current_entry_key
EntryKey(s) == IF At(s.list, s.at) # None THEN At(s.list, s.at) ELSE s.item

JfResume(v, saved) ==
    /\ v \in resumes
    /\ resumes' = resumes \ {v}
    /\ IF session.active /\ session.fetch = session.item
          THEN LET s == [session EXCEPT !.fetch = None] IN
               /\ Ask(s, IF s.item = None THEN None
                         ELSE IF saved = "server" THEN s.item
                         ELSE Remembered(EntryKey(s), saved = "here"),
                      asked)
               /\ UNCHANGED <<owed, dropped>>
          ELSE UNCHANGED <<session, questions>>
    /\ UNCHANGED <<tracker, launches, launched, events, seasons, uses>>

PlaceOf(v) == CHOOSE i \in DOMAIN Season[v] : Season[v][i] = v
Rotated(list, i) == SubSeq(list, i, Len(list)) \o SubSeq(list, 1, i - 1)

JfSeason(v) ==
    LET list == Rotated(Season[v], PlaceOf(v)) IN
    /\ v \in seasons
    /\ seasons' = seasons \ {v}
    /\ IF session.active
          THEN /\ launches' = IF session.socket \notin Reachable THEN launches
                              ELSE [launches EXCEPT ![session.socket] =
                                      [Loaded(@, list, 1) EXCEPT !.far = session.pos]]
               /\ session' = Recorded(session, list, 1)
          ELSE /\ RunPlaylist(Season[v], PlaceOf(v))
               /\ session' = Recorded(session, Season[v], PlaceOf(v))
    /\ UNCHANGED <<tracker, launched, events, resumes, uses, questions>>

\* The one answer that waits for its video to start.
Pending == IF session.answer = <<>> THEN {} ELSE {session.answer[1]}

\* History: the answer is overwritten, taken or cleared, in vain unless it is
\* about v.  It is kept in mind until the video starts, and while it plays.
DroppedUnless(v) == dropped \cup (Pending \ {v})

\* The uppermost question is answered or put away.
Answer(go) ==
    LET v == Head(asking).video
        s == [session EXCEPT !.answer = <<v, go>>]
    IN
    /\ asking # <<>>
    /\ asking' = Tail(asking)
    /\ IF Head(asking).before
          THEN /\ LaunchVideo(s, v)
               /\ owed' = owed \cup {v}
               /\ dropped' = DroppedUnless(v)
          ELSE /\ session' = [session EXCEPT !.seek = IF go THEN v ELSE None]
               /\ UNCHANGED <<launches, seasons, owed, dropped>>
    /\ UNCHANGED <<tracker, launched, events, resumes, asked, repeated, uses>>

Dismiss ==
    /\ asking # <<>>
    /\ asking' = Tail(asking)
    /\ UNCHANGED <<session, tracker, launches, launched, events, asked, repeated, owed,
                   dropped, uses, jobs>>

----------------------------------------------------------------------------
(* The event loop.                                                         *)

\* Which reports were spawned under a PlaySessionId: "" for the empty one, which
\* no playback has, then "new", "open", "stopped", and "late" after the stop.
ReportSpawned(play, stop) ==
    CASE play = "" -> ""
      [] play \in {"stopped", "late"} -> "late"
      [] OTHER -> IF stop THEN "stopped" ELSE "open"

\* apply_pending_resume: the answer given before the launch, if it is about
\* the video that starts.
Applies(s) == s.answer # <<>> /\ s.item # None /\ s.answer[1] = s.item

\* Faulty: the question may be asked again.
WithAnswerUnmarked(s) ==
    [s EXCEPT !.answer = <<>>,
              !.seek = IF Applies(s) /\ s.answer[2] THEN s.item ELSE None]

WithAnswer(s) ==
    [s EXCEPT !.answer = <<>>,
              !.seek = IF Applies(s) /\ s.answer[2] THEN s.item ELSE None,
              !.prompted = IF Applies(s) THEN s.item ELSE None]

\* session_started
SessionStarted(v, kept) ==
    LET item == ItemOf(v)
        s == [session EXCEPT !.active = TRUE, !.socket = 0, !.item = item, !.pos = FALSE,
                             !.seek = None, !.prompted = None, !.waiting = <<>>,
                             !.fetch = item]
        before == owed \cap {item}
        listed == \E k \in DOMAIN s.list : s.list[k] = v
    IN
    /\ tracker' = [tracker EXCEPT !.ticks = 0, !.item = None, !.started = FALSE,
                                  !.play = "new", !.pos = FALSE]
    /\ resumes' = IF item # None THEN resumes \cup {item} ELSE resumes
    /\ Ask(WithAnswer(s), IF item = None /\ listed THEN Remembered(v, kept) ELSE None, before)
    /\ owed' = owed \ {item}
    /\ dropped' = DroppedUnless(item) \cap owed
    /\ UNCHANGED <<launches, seasons>>

\* A stop is reported with a position worth it, the last one seen.
Passed == tracker.pos \/ session.pos

\* session_ended.  A poll that was queued behind the message resets the clock;
\* usually none is, the timer goes with the session.
SessionEnded ==
    /\ \E late \in BOOLEAN :
         tracker' = [tracker EXCEPT !.item = None, !.started = FALSE, !.pos = FALSE,
                                    !.play = IF session.item # None /\ Passed
                                               THEN ReportSpawned(@, TRUE) ELSE @,
                                    !.since = IF late THEN "none" ELSE @,
                                    !.ticks = IF late THEN 0 ELSE @]
    /\ session' = NoSession
    /\ dropped' = (dropped \cup Pending) \cap owed
    /\ asked' = {}
    /\ UNCHANGED <<launches, asking, repeated, owed, jobs>>

\* UiAppEvent::MpvItemChanged
SessionItemChanged(v) ==
    /\ session' = [session EXCEPT !.item = ItemOf(v), !.seek = None]
    /\ UNCHANGED <<tracker, launches, questions, jobs>>

Handle ==
    /\ events # <<>>
    /\ events' = Tail(events)
    /\ CASE Head(events).type = "Started" ->
                \E kept \in BOOLEAN : SessionStarted(Head(events).video, kept)
         [] Head(events).type = "ItemChanged" -> SessionItemChanged(Head(events).video)
         [] OTHER -> SessionEnded
    /\ UNCHANGED <<launched, uses>>

\* Faulty: every poll counts from nothing.
FailedAfresh(ticks) == 0

Failed(ticks) == IF ticks = StaleLimit THEN ticks ELSE ticks + 1

\* poll, when nobody answers on a socket: after the grace a few failures end
\* the session.
PollDead ==
    LET ticks == Failed(tracker.ticks) IN
    /\ session.active /\ MpvSocket = {} /\ Len(events) < MaxEvents
    /\ IF tracker.since = "old"
          THEN /\ tracker' = [tracker EXCEPT !.ticks = ticks]
               /\ events' = IF ticks = StaleLimit THEN Append(events, Ended) ELSE events
          ELSE /\ tracker' = [tracker EXCEPT !.since = "young"]
               /\ UNCHANGED events
    /\ UNCHANGED <<session, launches, launched, uses, questions, jobs>>

\* MPV_START_GRACE is over.
GraceEnds ==
    /\ tracker.since = "young"
    /\ tracker' = [tracker EXCEPT !.since = "old"]
    /\ UNCHANGED <<session, launches, launched, events, uses, questions, jobs>>

\* recorded_entry_for_mpv_pos: the entry of the recorded list at the player's
\* position, unless both are items and differ.
RecordedEntry(s, i) ==
    LET e == At(s.list, launches[i].at)
        other == e \in Items /\ Playing(i) \in Items /\ e # Playing(i)
    IN IF other THEN None ELSE e

\* The player is at another entry of a list of the recorded length.
Follows(s, i) ==
    /\ Len(s.list) = Len(launches[i].list) /\ s.at # launches[i].at
    /\ RecordedEntry(s, i) # None

Follow(s, i) ==
    LET item == ItemOf(RecordedEntry(s, i)) IN
    [s EXCEPT !.at = launches[i].at, !.item = item, !.seek = None, !.prompted = None,
              !.fetch = item, !.answer = <<>>]

\* The item reported against changes: the one left is finalized, and another
\* PlaySessionId is made.
ItemLeft(s) == tracker.item # s.item
Finalized == IF tracker.item # None /\ tracker.pos
               THEN ReportSpawned(tracker.play, TRUE) ELSE tracker.play

\* Faulty: the reports of the next item carry the id of the one that ended.
AfterLeavingSameId == Finalized

AfterLeaving == IF Finalized = "late" THEN "late" ELSE "new"

\* apply_pending_resume_seek: nothing while the entry opens, then the seek is
\* sent until it landed or is given up.
Sought(s) == {s, [s EXCEPT !.seek = None]}

\* poll of a player that answers; a report is due every ten seconds and when
\* the player is paused.
PollLive(i, due, kept) ==
    LET here == [session EXCEPT !.socket = i, !.pos = launches[i].far]
        follows == Follows(here, i)
        now == IF follows THEN Follow(here, i) ELSE here
        left == ItemLeft(now)
        started == tracker.started /\ ~follows /\ ~(left /\ tracker.item # None)
        play == IF left THEN AfterLeaving ELSE tracker.play
        loads == now.waiting # <<>>
        reports == due /\ now.item # None /\ (~started \/ (now.pos /\ ~loads))
    IN
    /\ session.active /\ i \in MpvSocket
    /\ tracker' = [tracker EXCEPT
         !.since = IF @ = "none" THEN "young" ELSE @, !.ticks = 0, !.item = now.item,
         !.play = IF reports THEN ReportSpawned(play, FALSE) ELSE play, !.pos = now.pos,
         !.started = started \/ (due /\ now.item # None)]
    /\ launches' = IF loads THEN [launches EXCEPT ![i] = Loaded(@, now.waiting, 1)] ELSE launches
    /\ \E s \in Sought(now) :
         Ask([s EXCEPT !.waiting = <<>>, !.pos = @ /\ ~loads],
             IF follows /\ now.item = None THEN Remembered(EntryKey(now), kept) ELSE None,
             IF follows THEN {} ELSE asked)
    /\ dropped' = IF follows THEN (dropped \cup Pending) \cap owed ELSE dropped
    /\ resumes' = IF follows /\ now.item # None THEN resumes \cup {now.item} ELSE resumes
    /\ UNCHANGED <<launched, events, seasons, owed, uses>>

\* The TUI ends and another one starts: init and detect_mpv_session.  What the
\* player plays is known from the state file while the tracker (external) keeps
\* it fresh, else from the player's list and its first entry.
Reattached(i, fresh) ==
    [NoSession EXCEPT
       !.active = TRUE, !.socket = i, !.list = launches[i].list, !.at = launches[i].at,
       !.pos = launches[i].far,
       !.item = ItemOf(IF fresh THEN Playing(i) ELSE launches[i].list[1])]

Restart ==
    /\ Uses
    /\ launches' = [i \in DOMAIN launches |->
          IF launches[i].thread = "unused" THEN launches[i]
          ELSE IF launches[i].alive THEN [launches[i] EXCEPT !.thread = "done"]
          ELSE [Unused EXCEPT !.thread = "done"]]
    /\ launched' = 0
    /\ events' = <<>> /\ asking' = <<>> /\ resumes' = {} /\ seasons' = {}
    /\ asked' = {} /\ owed' = {} /\ dropped' = {}
    /\ \/ Reachable = {} /\ session' = NoSession /\ tracker' = NewTracker
       \/ \E i \in Reachable, fresh \in BOOLEAN :
            /\ session' = Reattached(i, fresh)
            /\ tracker' = [NewTracker EXCEPT !.started = TRUE]
    /\ UNCHANGED repeated

Player(i) == SocketUp(i) \/ PlaysOn(i) \/ Advances(i) \/ Exits(i)
Launcher(i) == Spawn(i) \/ SpawnFails(i) \/ Reap(i) \/ SayEnded(i)

People ==
    \/ \E list \in Picks :
         PlayEntries(list) \/ \E at \in DOMAIN list : PlayEntriesAt(list, at)
    \/ \E v \in Items :
         PlayAgain(v) \/ PlayInstead(v) \/ \E saved \in BOOLEAN : StartVideo(v, saved)
    \/ Dismiss \/ \E go \in BOOLEAN : Answer(go)

Jellyfin ==
    \E v \in Items :
       JfSeason(v) \/ \E saved \in {"server", "here", "nowhere"} : JfResume(v, saved)

Poll ==
    \/ PollDead
    \/ \E i \in MpvSocket, due \in BOOLEAN, kept \in BOOLEAN : PollLive(i, due, kept)

Next ==
    \/ \E i \in DOMAIN launches : Player(i) \/ Launcher(i)
    \/ People \/ Jellyfin \/ Handle \/ Poll \/ GraceEnds \/ Restart

Spec == Init /\ [][Next]_vars

\* Threads go on, the event loop takes its messages, and the timer of the poll
\* fires, which finds no player when none is there.  Players and people owe
\* nothing.
FairSpec ==
    /\ Spec
    /\ WF_vars(Handle) /\ WF_vars(PollDead) /\ WF_vars(GraceEnds)
    /\ \A i \in 1..MaxLaunches : WF_vars(Launcher(i))

----------------------------------------------------------------------------
(* Properties.                                                             *)

\* A session whose player is gone ends, whoever launched the player: this
\* TUI's launcher thread or, after a restart, nobody (PollDead).
DeadSessionEnds ==
    (session.active /\ \A i \in DOMAIN launches : ~launches[i].alive)
        ~> (~session.active \/ \E i \in DOMAIN launches : launches[i].alive)

\* No report is spawned under a PlaySessionId after its stop, and one stop is:
\* advances, switches, a second player and a restart each come with an id of
\* their own in time.  What Jellyfin gets first is another matter: each report
\* is a request on a thread of its own.
NothingSpawnedAfterStop == tracker.play # "late"

\* From the start of a video, or since the player came to it, people are asked
\* about it once: a question answered before the launch is not repeated when
\* Jellyfin's answer comes after the next start of that video.  Except that one
\* answer is kept, and whichever session starts or ends next, an advance or
\* another answer drops it (`dropped`); then the code asks again.
AskedOnce == repeated = {}

----------------------------------------------------------------------------
(* What comments of the code promise and the code does not keep; no run    *)
(* checks these, the README says what TLC finds.                           *)

\* "a healthy session was torn down ... while the video kept playing"
\* (event_loop/mpv.rs:736-742, of an earlier version).  The end of one player
\* ends the session of another that answers.
HealthyIsKept == [][Handle /\ session.active /\ ~session'.active => Reachable = {}]_vars

\* "a fetch that lost a race with a playlist advance must not prompt for the
\* wrong entry" (event_loop/mpv.rs:878-880).  The answer's own item is not
\* looked at.
AskedAboutItsItem ==
    [][\A v \in Items : JfResume(v, "server") /\ asking' # asking => Head(asking').video = v]_vars

\* "an answer asked about one item must never seek another"
\* (event_loop/mpv.rs:1186).  A question may be answered after the video changed.
SeeksItsOwnVideo == [][Poll => session'.seek \in {None, session'.item}]_vars

\* "a stale one from an older session cannot feed a wrong item id into the new
\* session" (core/mpv.rs:214-215).  Without a fresh file the id is that of the
\* first entry of the player's list, wherever the player is in it.
ReattachedItemIsPlaying ==
    [][Restart => \A i \in Reachable :
         session'.socket = i => session'.item = ItemOf(Playing(i))]_vars

=============================================================================
