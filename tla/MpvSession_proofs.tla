-------------------------- MODULE MpvSession_proofs --------------------------
(***************************************************************************)
(* What the mpv session reports and asks, for any videos, lists, seasons,  *)
(* and number of players, picks and restarts.                              *)
(***************************************************************************)
EXTENDS MpvSession, TLAPS

\* The fields of the two records, which the steps update one by one.
Fields ==
    /\ DOMAIN session = {"active", "socket", "item", "pos", "list", "at", "seek",
                         "prompted", "fetch", "answer", "waiting"}
    /\ DOMAIN tracker = {"since", "ticks", "item", "started", "play", "pos"}

\* After a stop no session lasts and no position is left that a report needs:
\* the next one comes with a session that brings its own id.
StopIsLast ==
    /\ tracker.play # "late"
    /\ tracker.play = "stopped" => ~session.active /\ ~tracker.pos /\ ~session.pos

\* While an answer of Jellyfin is awaited, what people were asked about is the
\* video they were last asked about, but for dropped answers; and an answer for a
\* video that is yet to start is the one kept, or was dropped.
AskedLast ==
    /\ repeated = {}
    /\ session.fetch # None => asked \subseteq {session.prompted} \cup dropped
    /\ owed \subseteq Pending \cup dropped

Inv == Fields /\ StopIsLast /\ AskedLast

\* A step that leaves alone what the invariant is about.
Quiet ==
    /\ DOMAIN session' = DOMAIN session
    /\ session'.active = session.active /\ session'.pos = session.pos
    /\ session'.fetch = session.fetch /\ session'.prompted = session.prompted
    /\ DOMAIN tracker' = DOMAIN tracker
    /\ tracker'.play = tracker.play /\ tracker'.pos = tracker.pos
    /\ session'.answer = session.answer
    /\ UNCHANGED <<asked, repeated, owed, dropped>>

LEMMA QuietKeeps == Inv /\ Quiet => Inv'
  BY DEF Inv, Quiet, Fields, StopIsLast, AskedLast, Pending

\* The fields of a session and a tracker that know nothing.
LEMMA NothingKnown ==
    /\ DOMAIN NoSession = {"active", "socket", "item", "pos", "list", "at", "seek",
                           "prompted", "fetch", "answer", "waiting"}
    /\ DOMAIN NewTracker = {"since", "ticks", "item", "started", "play", "pos"}
    /\ NoSession.fetch = None /\ NewTracker.play = ""
  BY DEF NoSession, NewTracker

\* At first there is no session.
LEMMA InitInv == Init => Inv
<1> SUFFICES ASSUME Init PROVE Inv
  OBVIOUS
<1>1. session = NoSession /\ tracker = NewTracker /\ repeated = {} /\ owed = {}
  BY DEF Init
<1> QED
  BY <1>1, NothingKnown DEF Inv, Fields, StopIsLast, AskedLast

\* What Ask leaves of the session s it is given.
LEMMA AskKeeps ==
    ASSUME NEW s, {"active", "pos", "fetch", "prompted", "answer"} \subseteq DOMAIN s,
           NEW v, NEW before, Ask(s, v, before)
    PROVE  /\ DOMAIN session' = DOMAIN s
           /\ session'.active = s.active /\ session'.pos = s.pos
           /\ session'.fetch = s.fetch /\ session'.answer = s.answer
  BY DEF Ask

\* A question is new when those asked before are at most the last one.
LEMMA AskIsNew ==
    ASSUME NEW s, {"active", "pos", "fetch", "prompted"} \subseteq DOMAIN s,
           NEW v, NEW before, Ask(s, v, before),
           repeated = {}, before \subseteq {s.prompted} \cup dropped \/ v = None
    PROVE  /\ repeated' = {}
           /\ v = None => asked' = before /\ session'.prompted = s.prompted
  BY DEF Ask

\* An answer is kept in place of the one before.
LEMMA AnswerKeeps == ASSUME Inv, NEW go \in BOOLEAN, Answer(go) PROVE Inv'
<1> USE DEF Inv, Fields
<1> DEFINE v == Head(asking).video
           s == [session EXCEPT !.answer = <<v, go>>]
<1>1. CASE Head(asking).before
  <2>1. /\ LaunchVideo(s, v) /\ owed' = owed \cup {v}
        /\ dropped' = dropped \cup (Pending \ {v})
        /\ UNCHANGED <<tracker, asked, repeated>>
    BY <1>1 DEF Answer, DroppedUnless
  <2>2. /\ DOMAIN s = DOMAIN session /\ s.answer = <<v, go>>
        /\ s.active = session.active /\ s.pos = session.pos
        /\ s.fetch = session.fetch /\ s.prompted = session.prompted
    OBVIOUS
  <2> HIDE DEF s, v
  <2>3. /\ DOMAIN session' = DOMAIN session /\ session'.answer = <<v, go>>
        /\ session'.active = session.active /\ session'.pos = session.pos
        /\ session'.fetch = session.fetch /\ session'.prompted = session.prompted
    BY <2>1, <2>2 DEF LaunchVideo, Recorded
  <2>4. Pending' = {v}
    BY <2>3 DEF Pending
  <2>5. owed' \subseteq Pending' \cup dropped'
    BY <2>1, <2>4 DEF AskedLast
  <2> QED
    BY <2>1, <2>3, <2>5 DEF StopIsLast, AskedLast
<1>2. CASE ~Head(asking).before
  <2>1. Quiet
    BY <1>2 DEF Answer, Quiet
  <2> QED
    BY <2>1, QuietKeeps
<1> QED
  BY <1>1, <1>2

\* What people ask for changes lists, players and questions.
LEMMA PeopleKeep == Inv /\ People => Inv'
<1> SUFFICES ASSUME Inv, People, \A go \in BOOLEAN : ~Answer(go) PROVE Quiet
  BY QuietKeeps, AnswerKeeps
<1> USE DEF Inv, Fields, questions, jobs
<1>1. ASSUME NEW list \in Picks, PlayEntries(list)
      PROVE  Quiet
  BY <1>1 DEF PlayEntries, Quiet, Switch, Recorded
<1>2. ASSUME NEW list \in Picks, NEW at \in DOMAIN list, PlayEntriesAt(list, at)
      PROVE  Quiet
  BY <1>2 DEF PlayEntriesAt, Quiet, Switch, Recorded
<1>3. ASSUME NEW v \in Items, PlayAgain(v) \/ PlayInstead(v)
      PROVE  Quiet
  BY <1>3 DEF PlayAgain, PlayInstead, Quiet
<1>4. ASSUME NEW v \in Items, NEW saved \in BOOLEAN, StartVideo(v, saved)
      PROVE  Quiet
  BY <1>4 DEF StartVideo, LaunchVideo, Quiet, Recorded
<1>5. CASE Dismiss
  BY <1>5 DEF Dismiss, Quiet
<1> QED
  BY <1>1, <1>2, <1>3, <1>4, <1>5 DEF People

\* A season changes the list; a position is asked about when it is the first
\* answer since the video began, and then none is awaited any more.
LEMMA JellyfinKeeps == Inv /\ Jellyfin => Inv'
<1> SUFFICES ASSUME Inv, Jellyfin PROVE Inv'
  OBVIOUS
<1>1. ASSUME NEW v \in Items, JfSeason(v)
      PROVE  Inv'
  <2>1. Quiet
    BY <1>1 DEF JfSeason, Quiet, Recorded, Inv, Fields, questions, jobs
  <2> QED
    BY <2>1, QuietKeeps
<1>2. ASSUME NEW v \in Items, NEW saved \in {"server", "here", "nowhere"}, JfResume(v, saved)
      PROVE  Inv'
  <2>1. CASE session.active /\ session.fetch = session.item
    <3> DEFINE s == [session EXCEPT !.fetch = None]
               w == IF s.item = None THEN None
                    ELSE IF saved = "server" THEN s.item
                    ELSE Remembered(EntryKey(s), saved = "here")
    <3>1. Ask(s, w, asked) /\ UNCHANGED <<tracker, owed, dropped>>
      BY <1>2, <2>1 DEF JfResume
    <3>2. /\ DOMAIN s = DOMAIN session /\ s.prompted = session.prompted
          /\ s.active = session.active /\ s.pos = session.pos /\ s.fetch = None
          /\ s.item = session.item /\ s.answer = session.answer
      BY DEF Inv, Fields
    <3>3. asked \subseteq {s.prompted} \cup dropped \/ w = None
      BY <2>1, <3>2 DEF Inv, AskedLast
    <3> HIDE DEF s, w
    <3>4. /\ DOMAIN session' = DOMAIN s
          /\ session'.active = s.active /\ session'.pos = s.pos
          /\ session'.fetch = s.fetch /\ session'.answer = s.answer
      BY <3>1, <3>2, AskKeeps DEF Inv, Fields
    <3>5. repeated' = {}
      BY <3>1, <3>2, <3>3, AskIsNew DEF Inv, Fields, AskedLast
    <3> QED
      BY <3>1, <3>2, <3>4, <3>5 DEF Inv, Fields, StopIsLast, AskedLast, Pending
  <2>2. CASE ~(session.active /\ session.fetch = session.item)
    <3>1. Quiet
      BY <1>2, <2>2 DEF JfResume, Quiet, questions
    <3> QED
      BY <3>1, QuietKeeps
  <2> QED
    BY <2>1, <2>2
<1> QED
  BY <1>1, <1>2 DEF Jellyfin

\* A session starts with an id of its own, and people who answered before the
\* launch are not asked again; it ends with the one stop.
LEMMA HandleKeeps == Inv /\ Handle => Inv'
<1> SUFFICES ASSUME Inv, Handle PROVE Inv'
  OBVIOUS
<1>1. ASSUME NEW v, NEW kept \in BOOLEAN, SessionStarted(v, kept)
      PROVE  Inv'
  <2> DEFINE item == ItemOf(v)
             s == [session EXCEPT !.active = TRUE, !.socket = 0, !.item = item, !.pos = FALSE,
                                  !.seek = None, !.prompted = None, !.waiting = <<>>,
                                  !.fetch = item]
             before == owed \cap {item}
             listed == \E k \in DOMAIN s.list : s.list[k] = v
             w == IF item = None /\ listed THEN Remembered(v, kept) ELSE None
  <2>1. /\ Ask(WithAnswer(s), w, before)
        /\ owed' = owed \ {item}
        /\ dropped' = (dropped \cup (Pending \ {item})) \cap owed
    BY <1>1 DEF SessionStarted, DroppedUnless
  <2>2. /\ DOMAIN tracker' = DOMAIN tracker
        /\ tracker'.play = "new"
    BY <1>1 DEF SessionStarted, Inv, Fields
  <2>3. /\ DOMAIN s = DOMAIN session /\ s.fetch = item /\ s.item = item
        /\ s.answer = session.answer
    BY DEF Inv, Fields
  <2> HIDE DEF s
  <2>4. /\ DOMAIN WithAnswer(s) = DOMAIN session
        /\ WithAnswer(s).fetch = item
        /\ WithAnswer(s).answer = <<>>
        /\ WithAnswer(s).prompted = IF Applies(s) THEN item ELSE None
    BY <2>3 DEF WithAnswer, Inv, Fields
  <2>5. before \subseteq {WithAnswer(s).prompted} \cup dropped
    BY <2>3, <2>4 DEF Applies, Pending, Inv, AskedLast
  <2>6. item # None => w = None
    OBVIOUS
  <2>12. before \subseteq owed
    OBVIOUS
  <2> HIDE DEF w, before, item
  <2>7. /\ DOMAIN session' = DOMAIN session
        /\ session'.fetch = item /\ session'.answer = <<>>
    BY <2>1, <2>4, AskKeeps DEF Inv, Fields
  <2>8. /\ repeated' = {}
        /\ w = None => asked' = before /\ session'.prompted = WithAnswer(s).prompted
    BY <2>1, <2>4, <2>5, AskIsNew DEF Inv, Fields, AskedLast
  <2>9. owed' \subseteq dropped'
    BY <2>1 DEF Inv, AskedLast
  <2>10. before \subseteq {WithAnswer(s).prompted} \cup dropped'
    BY <2>1, <2>5, <2>12
  <2> QED
    BY <2>2, <2>6, <2>7, <2>8, <2>9, <2>10 DEF Inv, Fields, StopIsLast, AskedLast
<1>2. ASSUME NEW v, SessionItemChanged(v)
      PROVE  Inv'
  <2>1. Quiet
    BY <1>2 DEF SessionItemChanged, Quiet, Inv, Fields, questions
  <2> QED
    BY <2>1, QuietKeeps
<1>3. CASE SessionEnded
  <2>1. /\ DOMAIN tracker' = DOMAIN tracker /\ tracker'.pos = FALSE
        /\ tracker'.play = IF session.item # None /\ Passed
                             THEN ReportSpawned(tracker.play, TRUE) ELSE tracker.play
        /\ session' = NoSession
        /\ repeated' = repeated /\ owed' = owed
        /\ dropped' = (dropped \cup Pending) \cap owed
    BY <1>3 DEF SessionEnded, Inv, Fields
  <2>2. tracker'.play # "late"
    BY <2>1 DEF Passed, ReportSpawned, Inv, StopIsLast
  <2> QED
    BY <2>1, <2>2 DEF NoSession, Inv, Fields, StopIsLast, AskedLast
<1> QED
  BY <1>1, <1>2, <1>3 DEF Handle

\* A poll finds a session that lasts, so the id it reports under has no stop
\* yet; the item it leaves is stopped under that id, the next has another.
LEMMA PollKeeps == Inv /\ Poll => Inv'
<1> SUFFICES ASSUME Inv, Poll PROVE Inv'
  OBVIOUS
<1>1. CASE PollDead
  <2>1. Quiet
    BY <1>1 DEF PollDead, Quiet, Inv, Fields, questions
  <2> QED
    BY <2>1, QuietKeeps
<1>2. ASSUME NEW i \in MpvSocket, NEW due \in BOOLEAN, NEW kept \in BOOLEAN,
             PollLive(i, due, kept)
      PROVE  Inv'
  <2> DEFINE here == [session EXCEPT !.socket = i, !.pos = launches[i].far]
             follows == Follows(here, i)
             now == IF follows THEN Follow(here, i) ELSE here
             left == ItemLeft(now)
             started == tracker.started /\ ~follows /\ ~(left /\ tracker.item # None)
             play == IF left THEN AfterLeaving ELSE tracker.play
             loads == now.waiting # <<>>
             reports == due /\ now.item # None /\ (~started \/ (now.pos /\ ~loads))
             w == IF follows /\ now.item = None THEN Remembered(EntryKey(now), kept) ELSE None
             before == IF follows THEN {} ELSE asked
  <2>1. PICK s \in Sought(now) : Ask([s EXCEPT !.waiting = <<>>, !.pos = @ /\ ~loads], w, before)
    BY <1>2 DEF PollLive
  <2>14. /\ owed' = owed
         /\ dropped' = IF follows THEN (dropped \cup Pending) \cap owed ELSE dropped
    BY <1>2 DEF PollLive
  <2>2. /\ DOMAIN tracker' = DOMAIN tracker
        /\ tracker'.play = IF reports THEN ReportSpawned(play, FALSE) ELSE play
        /\ session.active
    BY <1>2 DEF PollLive, Inv, Fields
  <2>3. /\ DOMAIN here = DOMAIN session
        /\ here.fetch = session.fetch /\ here.prompted = session.prompted
        /\ here.answer = session.answer
    BY DEF Inv, Fields
  <2> HIDE DEF here
  <2>4. /\ DOMAIN now = DOMAIN session
        /\ follows => now.fetch = now.item
        /\ ~follows => /\ now.fetch = session.fetch /\ now.prompted = session.prompted
                       /\ now.answer = session.answer
    BY <2>3 DEF Follow, Inv, Fields
  <2>5. play \notin {"stopped", "late"}
    BY <2>2 DEF AfterLeaving, Finalized, ReportSpawned, Inv, StopIsLast
  <2>6. tracker'.play \notin {"stopped", "late"}
    BY <2>2, <2>5 DEF ReportSpawned
  <2> HIDE DEF now, follows
  <2> DEFINE t == [s EXCEPT !.waiting = <<>>, !.pos = @ /\ ~loads]
  <2>7. /\ DOMAIN t = DOMAIN session /\ t.fetch = now.fetch /\ t.prompted = now.prompted
        /\ t.answer = now.answer
    BY <2>1, <2>4 DEF Sought, Inv, Fields
  <2>8. now.fetch # None => w = None
    BY <2>4
  <2>9. before \subseteq {now.prompted} \cup dropped \/ w = None
    BY <2>4 DEF Inv, AskedLast
  <2>10. Ask(t, w, before)
    BY <2>1
  <2> HIDE DEF t, w
  <2>11. /\ DOMAIN session' = DOMAIN session
         /\ session'.fetch = now.fetch /\ session'.answer = now.answer
    BY <2>10, <2>7, AskKeeps DEF Inv, Fields
  <2>12. /\ repeated' = {}
         /\ w = None => asked' = before /\ session'.prompted = now.prompted
    BY <2>10, <2>7, <2>9, AskIsNew DEF Inv, Fields, AskedLast
  <2>13. now.fetch # None => before \subseteq {now.prompted} \cup dropped'
    BY <2>4, <2>14 DEF Inv, AskedLast
  <2>15. owed' \subseteq Pending' \cup dropped'
    BY <2>4, <2>11, <2>14 DEF Pending, Inv, AskedLast
  <2> QED
    BY <2>2, <2>6, <2>8, <2>11, <2>12, <2>13, <2>15 DEF Inv, Fields, StopIsLast, AskedLast
<1> QED
  BY <1>1, <1>2 DEF Poll

\* Every step keeps the invariant.
LEMMA NextInv == Inv /\ [Next]_vars => Inv'
<1> SUFFICES ASSUME Inv, [Next]_vars PROVE Inv'
  OBVIOUS
<1>1. ASSUME NEW i \in DOMAIN launches, Player(i) \/ Launcher(i)
      PROVE  Inv'
  <2>1. Quiet
    BY <1>1 DEF Player, Launcher, SocketUp, PlaysOn, Advances, Exits, Spawn, SpawnFails,
                Reap, SayEnded, Quiet, questions
  <2> QED
    BY <2>1, QuietKeeps
<1>2. CASE GraceEnds
  <2>1. Quiet
    BY <1>2 DEF GraceEnds, Quiet, Inv, Fields, questions
  <2> QED
    BY <2>1, QuietKeeps
<1>3. CASE Restart
  <2>1. /\ asked' = {} /\ owed' = {} /\ repeated' = repeated
        /\ DOMAIN tracker' = DOMAIN NewTracker /\ tracker'.play = NewTracker.play
    <3>1. tracker' \in {NewTracker, [NewTracker EXCEPT !.started = TRUE]}
      BY <1>3 DEF Restart
    <3> QED
      BY <1>3, <3>1, NothingKnown DEF Restart
  <2>2. DOMAIN session' = DOMAIN session
    BY <1>3, NothingKnown DEF Restart, Reattached, Inv, Fields
  <2> QED
    BY <2>1, <2>2, NothingKnown DEF Inv, Fields, StopIsLast, AskedLast
<1>4. CASE UNCHANGED vars
  <2>1. Quiet
    BY <1>4 DEF vars, Quiet, questions
  <2> QED
    BY <2>1, QuietKeeps
<1> QED
  BY <1>1, <1>2, <1>3, <1>4, PeopleKeep, JellyfinKeeps, HandleKeeps, PollKeeps DEF Next

\* No report is spawned under a PlaySessionId after its stop (session_started,
\* session_ended and the item change of poll).
THEOREM StopsAreSpawnedLast == Spec => []NothingSpawnedAfterStop
<1>1. Inv => NothingSpawnedAfterStop
  BY DEF Inv, StopIsLast, NothingSpawnedAfterStop
<1> QED
  BY <1>1, InitInv, NextInv, PTL DEF Spec

\* Nobody is asked twice about a video since it started or the player came to
\* it, counting the question answered before its launch, unless that answer was
\* dropped (apply_pending_resume, resume_prompted_for, resume_fetch_item).
THEOREM QuestionsAreNotRepeated == Spec => []AskedOnce
<1>1. Inv => AskedOnce
  BY DEF Inv, AskedLast, AskedOnce
<1> QED
  BY <1>1, InitInv, NextInv, PTL DEF Spec
=============================================================================
