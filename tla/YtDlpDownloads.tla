--------------------------- MODULE YtDlpDownloads ---------------------------
(***************************************************************************)
(* The yt-dlp download list: YtDlpManager (src/shared/ytdlp/manager.rs) on *)
(* the main thread, the single work thread that runs the downloads         *)
(* (src/core/work.rs) and answers through the queue of application events, *)
(* and the context menu of the list (src/ui/modals/downloads.rs), whose    *)
(* items are fixed when it opens and chosen later.                         *)
(***************************************************************************)
EXTENDS Naturals, Sequences, FiniteSets

CONSTANTS
    MaxItems,       \* bound on the downloads queued
    MaxRetries,     \* bound on Retry and Requeue chosen
    None

ASSUME BoundsAssumption ==
    MaxItems \in Nat /\ MaxRetries \in Nat /\ None \notin Nat

VARIABLES
    count,      \* ids given out so far: DownloadId grows with every call
    state,      \* YtDlpManager::queue, by id
    menu,       \* the context menu open: an item and the state it was made for
    work,       \* requests in the channel to the work thread
    working,    \* the download the work thread is running
    answers,    \* WorkDone events for downloads, in the loop's queue
    retries     \* Retry and Requeue chosen so far

vars == <<count, state, menu, work, working, answers, retries>>

Ids == 1..MaxItems
Results == {"completed", "already", "failed"}
Active == {"queued", "downloading"}
Ended == Results \cup {"canceled"}

Init ==
    /\ count = 0
    /\ state = [i \in Ids |-> "absent"]
    /\ menu = None
    /\ work = <<>>
    /\ working = None
    /\ answers = <<>>
    /\ retries = 0

(***************************************************************************)
(* The manager                                                             *)
(***************************************************************************)
\* download_next: the first active item in id order decides; it is started
\* if it waits.
FirstActive(st) == {i \in Ids : st[i] \in Active /\ \A j \in 1..(i - 1) : st[j] \notin Active}

DownloadNext(st) ==
    LET next == {i \in FirstActive(st) : st[i] = "queued"} IN
    \/ /\ next = {}
       /\ state' = st
       /\ UNCHANGED work
    \/ \E i \in next :
         /\ state' = [st EXCEPT ![i] = "downloading"]
         /\ work' = Append(work, i)

\* queue_stream_download, or a playlist: queue_download_many, then
\* download_next.
QueueDownloads(n) ==
    /\ count + n <= MaxItems
    /\ count' = count + n
    /\ DownloadNext([i \in Ids |-> IF i \in (count + 1)..(count + n) THEN "queued" ELSE state[i]])
    /\ UNCHANGED <<menu, working, answers, retries>>

\* Faulty: a download that failed does not start the next.
HandleDownloadedOk ==
    /\ answers # <<>>
    /\ LET a == Head(answers)
           st == IF state[a.id] = "absent" THEN state ELSE [state EXCEPT ![a.id] = a.result]
       IN  IF a.result = "failed"
           THEN state' = st /\ UNCHANGED work
           ELSE DownloadNext(st)
    /\ answers' = Tail(answers)
    /\ UNCHANGED <<count, menu, working, retries>>

\* The loop handles YtDlpDownloaded: resolve_download, then download_next.
HandleDownloaded ==
    /\ answers # <<>>
    /\ LET a == Head(answers) IN
       DownloadNext(IF state[a.id] = "absent" THEN state
                    ELSE [state EXCEPT ![a.id] = a.result])
    /\ answers' = Tail(answers)
    /\ UNCHANGED <<count, menu, working, retries>>

(***************************************************************************)
(* The context menu                                                        *)
(***************************************************************************)
OpenMenu(i) ==
    /\ menu = None
    /\ state[i] # "absent"
    /\ menu' = [id |-> i, shown |-> state[i]]
    /\ UNCHANGED <<count, state, work, working, answers, retries>>

\* The items of the menu that change nothing here, or leaving it.
CloseMenu ==
    /\ menu # None
    /\ menu' = None
    /\ UNCHANGED <<count, state, work, working, answers, retries>>

InList == state[menu.id] # "absent"

CancelDownload ==
    /\ menu # None /\ menu.shown \in Active
    /\ state' = IF InList THEN [state EXCEPT ![menu.id] = "canceled"] ELSE state
    /\ menu' = None
    /\ UNCHANGED <<count, work, working, answers, retries>>

\* Retry and Requeue.
Redownload ==
    /\ menu # None /\ menu.shown \in {"failed", "canceled"}
    /\ retries < MaxRetries
    /\ retries' = retries + 1
    /\ DownloadNext(IF InList THEN [state EXCEPT ![menu.id] = "queued"] ELSE state)
    /\ menu' = None
    /\ UNCHANGED <<count, working, answers>>

\* Only the list is changed: the file stays, a running download goes on.
Remove ==
    /\ menu # None /\ menu.shown \in Ended
    /\ state' = [state EXCEPT ![menu.id] = "absent"]
    /\ menu' = None
    /\ UNCHANGED <<count, work, working, answers, retries>>

(***************************************************************************)
(* The work thread: one request at a time, each answered                   *)
(***************************************************************************)
TakeRequest ==
    /\ working = None
    /\ work # <<>>
    /\ working' = Head(work)
    /\ work' = Tail(work)
    /\ UNCHANGED <<count, state, menu, answers, retries>>

EndRequest(result) ==
    /\ working # None
    /\ answers' = Append(answers, [id |-> working, result |-> result])
    /\ working' = None
    /\ UNCHANGED <<count, state, menu, work, retries>>

Worker == TakeRequest \/ \E r \in Results : EndRequest(r)

Next ==
    \/ \E n \in 1..2 : QueueDownloads(n)
    \/ HandleDownloaded
    \/ \E i \in Ids : OpenMenu(i)
    \/ CloseMenu
    \/ CancelDownload
    \/ Redownload
    \/ Remove
    \/ Worker

Spec == Init /\ [][Next]_vars

\* The loop handles its events; the work thread takes its requests and
\* yt-dlp comes to an end.
FairSpec == Spec /\ WF_vars(HandleDownloaded) /\ WF_vars(Worker)

(***************************************************************************)
(* Properties                                                              *)
(***************************************************************************)
\* An item that waits is started, cancelled or removed in the end.
WaitingEnds == \A i \in Ids : state[i] = "queued" ~> state[i] # "queued"
=============================================================================
