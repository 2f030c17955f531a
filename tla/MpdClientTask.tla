--------------------------- MODULE MpdClientTask ---------------------------
(***************************************************************************)
(* The MPD client task (src/src/core/client.rs): one connection to MPD,    *)
(* passed as a token between three threads.                                *)
(*                                                                         *)
(*   main   owns the reconnect loop and starts the two others;             *)
(*   idle   keeps MPD in its `idle` command and forwards what MPD reports; *)
(*   work   takes requests of the application, interrupts the idle thread  *)
(*          with `noidle`, and runs the requests on the connection.        *)
(*                                                                         *)
(* The token travels through client_return, a channel of capacity one      *)
(* (`slot`), and each hand-over is confirmed over client_received, a       *)
(* rendezvous channel that both sides use in both directions.  A send on   *)
(* it and the matching receive are one joint step of two threads.          *)
(*                                                                         *)
(* A program counter names what its thread does next.  The health! macro   *)
(* reads HEALTHY and only then runs its operation: where the operation     *)
(* blocks, the check and the wait are two program counters ("confirm" is   *)
(* about to check, "confirming" waits), so that a thread that is already   *)
(* waiting does not notice that another thread gave up.                    *)
(***************************************************************************)
EXTENDS Naturals, Sequences

CONSTANTS
    NRequests,      \* requests the application submits, in order 1..NRequests
    Kind,           \* request -> "query", "command" or "sync"
    Steps,          \* request -> the exchanges of its closure, in order: one whose
                    \* error ends the closure (`?`) is a "must", one whose error
                    \* is ignored (`let _ =`) a "may"
    ReplaceId,      \* request -> its replace_id (with id and target); 0 for none
    MaxFaults,      \* bound: connections lost
    MaxTimeouts,    \* bound: responses later than mpd_read_timeout, writes
                    \* longer than mpd_write_timeout
    StartupFaults,  \* may a connection break while main waits for the idle thread
    IdleTimeout     \* is mpd_idle_read_timeout_ms configured

Requests == 1 .. NRequests

ASSUME ClientConstants ==
    /\ NRequests \in Nat
    /\ Kind \in [Requests -> {"query", "command", "sync"}]
    /\ Steps \in [Requests -> Seq({"must", "may"}) \ {<<>>}]
    /\ ReplaceId \in [Requests -> Nat]
    /\ MaxFaults \in Nat /\ MaxTimeouts \in Nat
    /\ StartupFaults \in BOOLEAN /\ IdleTimeout \in BOOLEAN

VARIABLES
    healthy,    \* HEALTHY
    first,      \* first_loop
    mainPc, idlePc, workPc,
    slot,       \* what client_return holds: the "client", or "empty"
    rx,         \* request_rx: requests submitted, not yet received
    buffer,     \* the requests the work thread has taken, oldest first
    current,    \* the request it is running, 0 for none
    step,       \* the exchange of that request it is at, 0 for none
    status,     \* request -> what became of it
    ui,         \* the last of LostConnection / Reconnected sent to the event loop
    link,       \* the stream of the client: "ok" or "broken"
    mode,       \* what MPD does on it: awaits a "command" or sits in "idle"
    inbox,      \* responses MPD has sent on it and nobody has read, oldest first
    ignored,    \* history: was a time-out ignored since it was opened
    crossed,    \* history: has a request read a response not its own since then
    server,     \* can MPD be reached by a new connection
    faults, timeouts

task == <<healthy, first, mainPc, idlePc, workPc, slot>>
run  == <<current, step>>
work == <<rx, buffer, run, status>>
conn == <<link, mode, inbox, ignored, crossed>>
env  == <<server, faults, timeouts>>
vars == <<healthy, first, mainPc, idlePc, workPc, slot,
          rx, buffer, current, step, status, ui,
          link, mode, inbox, ignored, crossed, server, faults, timeouts>>

\* The exchanges of a request; those of a command end in the status that
\* refreshes the interface, any error of which only means that there is none.
Exchanges(r) == IF Kind[r] = "command" THEN Append(Steps[r], "may") ELSE Steps[r]

\* Responses on the wire: the answer to idle, and to an exchange of a request.
IdleResponse == <<0, 0>>
Responses == {IdleResponse} \cup (Requests \X (Nat \ {0}))

Pending == {"unsent", "sent"}
Outcomes == {"answered", "failed", "dropped", "skipped"}

MainPcs == {"start", "take", "check", "awaitIdle", "join", "giveBack", "lost"}
IdlePcs == {"off", "take", "taking", "enter", "confirm", "confirming",
            "read", "await", "awaiting", "done"}
WorkPcs == {"off", "select", "passing", "passed", "noidle", "take", "taking",
            "confirm", "confirming", "handle", "pop", "execute", "reconnect",
            "release", "await", "awaiting", "ending", "done"}

Init ==
    /\ healthy = TRUE /\ first = TRUE
    /\ mainPc = "start" /\ idlePc = "off" /\ workPc = "off"
    /\ slot = "client"
    /\ rx = <<>> /\ buffer = <<>> /\ current = 0 /\ step = 0
    /\ status = [r \in Requests |-> "unsent"]
    /\ ui = "connected"
    /\ link = "ok" /\ mode = "command" /\ inbox = <<>> /\ ignored = FALSE /\ crossed = FALSE
    /\ server = "up" /\ faults = 0 /\ timeouts = 0

Elements(s) == {s[i] : i \in DOMAIN s}

\* The requests in rs, none of which has an outcome yet, come to the outcome o.
Settle(rs, o) == status' = [r \in Requests |-> IF r \in rs THEN o ELSE status[r]]

----------------------------------------------------------------------------
(* The application, MPD and the network.                                   *)

\* Ctx::query, Ctx::command and Ctx::query_sync append to an unbounded channel.
Submit(r) ==
    /\ status[r] = "unsent"
    /\ \A q \in Requests : q < r => status[q] # "unsent"
    /\ rx' = Append(rx, r)
    /\ status' = [status EXCEPT ![r] = "sent"]
    /\ UNCHANGED <<task, buffer, run, ui, conn, env>>

\* MPD reports a change to an idling client.
MpdEvent ==
    /\ link = "ok" /\ mode = "idle"
    /\ mode' = "command"
    /\ inbox' = Append(inbox, IdleResponse)
    /\ UNCHANGED <<task, work, ui, link, ignored, crossed, env>>

\* The connection breaks; MPD itself may be gone with it.  What MPD had sent
\* can still be read.  Without StartupFaults this spares the time in which main
\* waits for the first confirmation of the idle thread.
LinkBreaks ==
    /\ link = "ok" /\ faults < MaxFaults
    /\ StartupFaults \/ (~first /\ mainPc # "awaitIdle")
    /\ link' = "broken"
    /\ faults' = faults + 1
    /\ server' \in {"up", "down"}
    /\ UNCHANGED <<task, work, ui, mode, inbox, ignored, crossed, timeouts>>

ServerReturns ==
    /\ server = "down"
    /\ server' = "up"
    /\ UNCHANGED <<task, work, ui, conn, faults, timeouts>>

----------------------------------------------------------------------------
(* The rendezvous on client_received: the partners of a confirmation.      *)

WorkSends == workPc \in {"passing", "confirming"}
WorkAwaits == workPc = "awaiting"
IdleSends == idlePc = "confirming"
IdleAwaits == idlePc = "awaiting"

\* The idle thread confirms that MPD idles, to main or to the work thread.
IdleConfirmsToMain ==
    /\ IdleSends /\ mainPc = "awaitIdle"
    /\ idlePc' = "read"
    /\ mainPc' = "join"
    /\ workPc' = "select"
    /\ UNCHANGED <<healthy, first, slot, work, ui, conn, env>>

IdleConfirmsToWork ==
    /\ IdleSends /\ WorkAwaits
    /\ idlePc' = "read"
    /\ workPc' = "select"
    /\ UNCHANGED <<healthy, first, mainPc, slot, work, ui, conn, env>>

\* The work thread confirms that it took the client the idle thread returned.
WorkConfirms ==
    /\ WorkSends /\ IdleAwaits
    /\ idlePc' = "take"
    /\ workPc' = IF workPc = "passing" THEN "passed" ELSE "handle"
    /\ UNCHANGED <<healthy, first, mainPc, slot, work, ui, conn, env>>

----------------------------------------------------------------------------
(* The main thread.                                                        *)

MainStart ==
    /\ mainPc = "start"
    /\ healthy' = TRUE
    /\ mainPc' = "take"
    /\ UNCHANGED <<first, idlePc, workPc, slot, work, ui, conn, env>>

MainTake ==
    /\ mainPc = "take" /\ slot = "client"
    /\ slot' = "empty"
    /\ mainPc' = "check"
    /\ UNCHANGED <<healthy, first, idlePc, workPc, work, ui, conn, env>>

\* The socket and the read buffer of the client are replaced (Client::reconnect).
NewConnection ==
    /\ link' = "ok" /\ mode' = "command" /\ inbox' = <<>>
    /\ ignored' = FALSE /\ crossed' = FALSE

\* The idle thread starts and the client is offered to it.
StartIdle ==
    /\ idlePc' = "take"
    /\ slot' = "client"
    /\ mainPc' = "awaitIdle"

MainFirstCheck ==
    /\ mainPc = "check" /\ first
    /\ first' = FALSE
    /\ StartIdle
    /\ UNCHANGED <<healthy, workPc, work, ui, conn, env>>

MainReconnect ==
    /\ mainPc = "check" /\ ~first /\ server = "up"
    /\ NewConnection
    /\ Settle(Elements(rx), "dropped")
    /\ rx' = <<>>
    /\ ui' = "connected"
    /\ StartIdle
    /\ UNCHANGED <<healthy, first, workPc, buffer, run, env>>

MainReconnectFails ==
    /\ mainPc = "check" /\ ~first /\ server = "down"
    /\ mainPc' = "giveBack"
    /\ UNCHANGED <<healthy, first, idlePc, workPc, slot, work, ui, conn, env>>

MainGiveBack ==
    /\ mainPc = "giveBack" /\ slot = "empty"
    /\ slot' = "client"
    /\ mainPc' = "lost"
    /\ UNCHANGED <<healthy, first, idlePc, workPc, work, ui, conn, env>>

MainJoinsWorkOnly ==   \* faulty: the idle thread is not joined
    /\ mainPc = "join" /\ workPc = "done"
    /\ mainPc' = "lost"
    /\ UNCHANGED <<healthy, first, idlePc, workPc, slot, work, ui, conn, env>>

MainJoin ==
    /\ mainPc = "join" /\ idlePc = "done" /\ workPc = "done"
    /\ mainPc' = "lost"
    /\ UNCHANGED <<healthy, first, idlePc, workPc, slot, work, ui, conn, env>>

\* LostConnection, then a second of sleep.
MainLost ==
    /\ mainPc = "lost"
    /\ ui' = "lost"
    /\ mainPc' = "start"
    /\ UNCHANGED <<healthy, first, idlePc, workPc, slot, work, conn, env>>

----------------------------------------------------------------------------
(* The idle thread.  It holds the client from "enter" to "read"; leaving    *)
(* the loop there drops the guard, which returns the client.               *)

IdleBreakLeaks == idlePc' = "done" /\ UNCHANGED slot   \* faulty: no drop guard

IdleBreak == idlePc' = "done" /\ slot' = "client"

IdleTake ==
    /\ idlePc = "take"
    /\ idlePc' = IF healthy THEN "taking" ELSE "done"
    /\ UNCHANGED <<healthy, first, mainPc, workPc, slot, work, ui, conn, env>>

IdleTaken ==
    /\ idlePc = "taking" /\ slot = "client"
    /\ slot' = "empty"
    /\ idlePc' = "enter"
    /\ UNCHANGED <<healthy, first, mainPc, workPc, work, ui, conn, env>>

\* A write to a socket whose peer is gone fails, or is taken by the kernel
\* and the loss shows at the next read.  An MPD that still idles, because the
\* thread took another response for the answer to idle, closes the connection.
IdleEnter ==
    /\ idlePc = "enter" /\ healthy
    /\ mode' = IF link = "ok" THEN "idle" ELSE mode
    /\ link' = IF mode = "idle" THEN "broken" ELSE link
    /\ idlePc' = "confirm"
    /\ UNCHANGED <<healthy, first, mainPc, workPc, slot, work, ui, inbox, ignored, crossed, env>>

IdleEnterFails ==
    /\ idlePc = "enter" /\ (~healthy \/ link = "broken")
    /\ healthy' = FALSE
    /\ IdleBreak
    /\ UNCHANGED <<first, mainPc, workPc, work, ui, conn, env>>

IdleConfirm ==
    /\ idlePc = "confirm" /\ healthy
    /\ idlePc' = "confirming"
    /\ UNCHANGED <<healthy, first, mainPc, workPc, slot, work, ui, conn, env>>

IdleConfirmUnhealthy ==
    /\ idlePc = "confirm" /\ ~healthy
    /\ IdleBreak
    /\ UNCHANGED <<healthy, first, mainPc, workPc, work, ui, conn, env>>

\* Three seconds without a receiver.
IdleConfirmTimeout ==
    /\ IdleSends /\ ~WorkAwaits /\ mainPc # "awaitIdle"
    /\ healthy' = FALSE
    /\ IdleBreak
    /\ UNCHANGED <<first, mainPc, workPc, work, ui, conn, env>>

\* The response to idle, its events sent to the event loop, the client returned.
\* A plain OK that another exchange left unread reads as an answer with no event.
IdleRead ==
    /\ idlePc = "read" /\ inbox # <<>>
    /\ inbox' = Tail(inbox)
    /\ slot' = "client"
    /\ idlePc' = "await"
    /\ UNCHANGED <<healthy, first, mainPc, workPc, work, ui, link, mode, ignored, crossed, env>>

\* The stream ended, or what came is no answer to idle.
IdleReadFails ==
    /\ idlePc = "read"
    /\ IF inbox = <<>> THEN link = "broken" ELSE Head(inbox) # IdleResponse
    /\ healthy' = FALSE
    /\ IdleBreak
    /\ UNCHANGED <<first, mainPc, workPc, work, ui, conn, env>>

\* A read timeout only ends the thread when another one has given up.
IdleReadTimesOut ==
    /\ idlePc = "read" /\ IdleTimeout /\ inbox = <<>> /\ ~healthy
    /\ IdleBreak
    /\ UNCHANGED <<healthy, first, mainPc, workPc, work, ui, conn, env>>

IdleAwait ==
    /\ idlePc = "await"
    /\ idlePc' = IF healthy THEN "awaiting" ELSE "done"
    /\ UNCHANGED <<healthy, first, mainPc, workPc, slot, work, ui, conn, env>>

IdleAwaitTimeout ==
    /\ IdleAwaits /\ ~WorkSends
    /\ healthy' = FALSE
    /\ idlePc' = "done"
    /\ UNCHANGED <<first, mainPc, workPc, slot, work, ui, conn, env>>

----------------------------------------------------------------------------
(* The work thread.  It holds the client at "passing" and "passed", and     *)
(* from "confirm" to "release".                                            *)

\* select!, the request branch: an unhealthy task loses the request received.
WorkRequest ==
    /\ workPc = "select" /\ rx # <<>>
    /\ rx' = Tail(rx)
    /\ IF healthy
       THEN /\ buffer' = Append(buffer, Head(rx))
            /\ workPc' = "noidle"
            /\ UNCHANGED status
       ELSE /\ Settle({Head(rx)}, "dropped")
            /\ workPc' = "ending"
            /\ UNCHANGED buffer
    /\ UNCHANGED <<healthy, first, mainPc, idlePc, slot, run, ui, conn, env>>

\* select!, the other branch: the idle thread returned the client unasked.
WorkClient ==
    /\ workPc = "select" /\ slot = "client"
    /\ slot' = IF healthy THEN "empty" ELSE "client"
    /\ workPc' = IF healthy THEN "passing" ELSE "ending"
    /\ UNCHANGED <<healthy, first, mainPc, idlePc, work, ui, conn, env>>

WorkPass ==
    /\ workPc = "passed"
    /\ slot' = "client"
    /\ workPc' = "await"
    /\ UNCHANGED <<healthy, first, mainPc, idlePc, work, ui, conn, env>>

\* `noidle` is written beside the idle thread, through the cloned stream.  MPD
\* ignores it when it is not idling.
WorkNoidleSkipped ==   \* faulty: nothing is written
    /\ workPc = "noidle" /\ healthy
    /\ workPc' = "take"
    /\ UNCHANGED <<healthy, first, mainPc, idlePc, slot, work, ui, conn, env>>

WorkNoidle ==
    /\ workPc = "noidle" /\ healthy
    /\ IF link = "ok" /\ mode = "idle"
       THEN mode' = "command" /\ inbox' = Append(inbox, IdleResponse)
       ELSE UNCHANGED <<mode, inbox>>
    /\ workPc' = "take"
    /\ UNCHANGED <<healthy, first, mainPc, idlePc, slot, work, ui, link, ignored, crossed, env>>

WorkNoidleFails ==
    /\ workPc = "noidle" /\ (~healthy \/ link = "broken")
    /\ healthy' = FALSE
    /\ workPc' = "ending"
    /\ UNCHANGED <<first, mainPc, idlePc, slot, work, ui, conn, env>>

\* MPD does not drain its socket: the write fails after mpd_write_timeout.
WorkNoidleTimesOut ==
    /\ workPc = "noidle" /\ healthy /\ link = "ok" /\ timeouts < MaxTimeouts
    /\ timeouts' = timeouts + 1
    /\ healthy' = FALSE
    /\ workPc' = "ending"
    /\ UNCHANGED <<first, mainPc, idlePc, slot, work, ui, conn, server, faults>>

WorkTake ==
    /\ workPc = "take"
    /\ workPc' = IF healthy THEN "taking" ELSE "ending"
    /\ UNCHANGED <<healthy, first, mainPc, idlePc, slot, work, ui, conn, env>>

WorkTaken ==
    /\ workPc = "taking" /\ slot = "client"
    /\ slot' = "empty"
    /\ workPc' = "confirm"
    /\ UNCHANGED <<healthy, first, mainPc, idlePc, work, ui, conn, env>>

WorkConfirmSkipped ==   \* faulty: the idle thread is not told
    /\ workPc = "confirm" /\ healthy
    /\ workPc' = "handle"
    /\ UNCHANGED <<healthy, first, mainPc, idlePc, slot, work, ui, conn, env>>

WorkConfirm ==
    /\ workPc = "confirm" /\ healthy
    /\ workPc' = "confirming"
    /\ UNCHANGED <<healthy, first, mainPc, idlePc, slot, work, ui, conn, env>>

WorkConfirmUnhealthy ==
    /\ workPc = "confirm" /\ ~healthy
    /\ slot' = "client"
    /\ workPc' = "ending"
    /\ UNCHANGED <<healthy, first, mainPc, idlePc, work, ui, conn, env>>

WorkConfirmTimeout ==
    /\ WorkSends /\ ~IdleAwaits
    /\ healthy' = FALSE
    /\ slot' = "client"
    /\ workPc' = "ending"
    /\ UNCHANGED <<first, mainPc, idlePc, work, ui, conn, env>>

\* The read timeout of requests is set; the batch starts.
WorkHandle ==
    /\ workPc = "handle"
    /\ slot' = IF healthy THEN "empty" ELSE "client"
    /\ workPc' = IF healthy THEN "pop" ELSE "ending"
    /\ UNCHANGED <<healthy, first, mainPc, idlePc, work, ui, conn, env>>

\* MpdQuery::should_be_skipped and should_skip_request.
ShouldSkip(r, later) ==
    /\ Kind[r] = "query" /\ ReplaceId[r] # 0
    /\ \E i \in DOMAIN later :
          Kind[later[i]] = "query" /\ ReplaceId[later[i]] = ReplaceId[r]

\* handle_client_request calls the closure of the request.
Start(r) == current' = r /\ step' = 1 /\ workPc' = "execute"

\* One turn of the batch: the oldest request is taken, and all that have
\* arrived meanwhile join the batch before the duplicates are looked for.
WorkPopLooksAtItself ==   \* faulty: the duplicate test sees the request itself
    /\ workPc = "pop" /\ buffer # <<>>
    /\ buffer' = Tail(buffer) \o rx
    /\ rx' = <<>>
    /\ IF ShouldSkip(Head(buffer), buffer \o rx)
       THEN Settle({Head(buffer)}, "skipped") /\ UNCHANGED <<workPc, run>>
       ELSE Start(Head(buffer)) /\ UNCHANGED status
    /\ UNCHANGED <<healthy, first, mainPc, idlePc, slot, ui, conn, env>>

WorkPopTakesNewest ==   \* faulty: requests that join the batch overtake it
    /\ workPc = "pop" /\ buffer # <<>>
    /\ rx' = <<>>
    /\ LET next == Head(rx \o buffer)
           rest == Tail(rx \o buffer)
       IN  /\ buffer' = rest
           /\ IF ShouldSkip(next, rest)
              THEN Settle({next}, "skipped") /\ UNCHANGED <<workPc, run>>
              ELSE Start(next) /\ UNCHANGED status
    /\ UNCHANGED <<healthy, first, mainPc, idlePc, slot, ui, conn, env>>

WorkPop ==
    /\ workPc = "pop" /\ buffer # <<>>
    /\ buffer' = Tail(buffer) \o rx
    /\ rx' = <<>>
    /\ IF ShouldSkip(Head(buffer), Tail(buffer) \o rx)
       THEN Settle({Head(buffer)}, "skipped") /\ UNCHANGED <<workPc, run>>
       ELSE Start(Head(buffer)) /\ UNCHANGED status
    /\ UNCHANGED <<healthy, first, mainPc, idlePc, slot, ui, conn, env>>

WorkPopEmpty ==
    /\ workPc = "pop" /\ buffer = <<>>
    /\ workPc' = "release"
    /\ UNCHANGED <<healthy, first, mainPc, idlePc, slot, work, ui, conn, env>>

\* One exchange with MPD: it is written, MPD answers with Own, and the oldest
\* unread response is read.  A command to an idling MPD makes it close the
\* connection.
Own == <<current, step>>
Sent == Append(inbox, Own)
CanExchange == link = "ok" /\ mode = "command"

\* The oldest response is read whole.
Answered ==
    /\ CanExchange
    /\ inbox' = Tail(Sent)
    /\ crossed' = (crossed \/ Head(Sent) # Own)
    /\ UNCHANGED <<link, mode>>

\* The oldest response is that of another exchange and does not parse as the one
\* expected: what the reader holds is thrown away (clear_read_buf), and what had
\* not reached it yet stays unread.
Garbled ==
    /\ CanExchange /\ Head(Sent) # Own
    /\ \E n \in 1 .. Len(Sent) + 1 : inbox' = SubSeq(Sent, n, Len(Sent))
    /\ crossed' = TRUE
    /\ UNCHANGED <<link, mode>>

Refused ==
    /\ link = "broken" \/ mode = "idle"
    /\ link' = "broken"
    /\ UNCHANGED <<mode, inbox, crossed>>

\* The response comes too late and stays unread.
Late ==
    /\ CanExchange /\ timeouts < MaxTimeouts
    /\ inbox' = Sent
    /\ timeouts' = timeouts + 1
    /\ UNCHANGED <<link, mode, crossed, server, faults>>

\* The request has its outcome; the result goes to the event loop.
Finish(o) ==
    /\ Settle({current}, o)
    /\ current' = 0 /\ step' = 0
    /\ workPc' = "pop"
    /\ UNCHANGED <<healthy, first, mainPc, idlePc, slot, rx, buffer, ui>>

\* The closure goes on to its next exchange, on the same connection.
GoOn ==
    IF step < Len(Exchanges(current))
    THEN /\ step' = step + 1
         /\ UNCHANGED <<task, rx, buffer, current, status, ui>>
    ELSE Finish("answered")

IsIgnored == Exchanges(current)[step] = "may"

WorkAnswered ==
    /\ workPc = "execute"
    /\ Answered
    /\ GoOn
    /\ UNCHANGED <<ignored, env>>

\* MPD refuses the command, the response is unreadable or the connection is gone:
\* the error is the result, or the closure ignores it.
WorkRequestFails ==
    /\ workPc = "execute"
    /\ Answered \/ Garbled \/ Refused
    /\ IF IsIgnored THEN GoOn ELSE Finish("failed")
    /\ UNCHANGED <<ignored, env>>

WorkRequestTimesOutGoesOn ==   \* faulty: a timeout is treated as any error
    /\ workPc = "execute" /\ ~IsIgnored
    /\ Late
    /\ Finish("failed")
    /\ UNCHANGED ignored

\* No answer within mpd_read_timeout, and the closure returns the error: nothing
\* is sent to the event loop.
WorkRequestTimesOut ==
    /\ workPc = "execute" /\ ~IsIgnored
    /\ Late
    /\ Settle({current}, "dropped")
    /\ current' = 0 /\ step' = 0
    /\ workPc' = "reconnect"
    /\ UNCHANGED <<healthy, first, mainPc, idlePc, slot, rx, buffer, ui, ignored>>

\* No answer within mpd_read_timeout, and the closure ignores that as any other
\* error: the loop does not hear of it and the late answer stays ahead of the next.
WorkTimeoutIsIgnored ==
    /\ workPc = "execute" /\ IsIgnored
    /\ Late
    /\ ignored' = TRUE
    /\ GoOn

WorkReconnectKeepsReader ==   \* faulty: only the write half is replaced
    /\ workPc = "reconnect" /\ server = "up"
    /\ link' = "ok" /\ mode' = "command" /\ ignored' = FALSE /\ crossed' = FALSE
    /\ workPc' = "pop"
    /\ UNCHANGED <<healthy, first, mainPc, idlePc, slot, work, ui, inbox, env>>

WorkReconnect ==
    /\ workPc = "reconnect" /\ server = "up"
    /\ NewConnection
    /\ workPc' = "pop"
    /\ UNCHANGED <<healthy, first, mainPc, idlePc, slot, work, ui, env>>

\* The break of health! leaves the batch, not the loop of the thread.
WorkReconnectFails ==
    /\ workPc = "reconnect" /\ server = "down"
    /\ healthy' = FALSE
    /\ workPc' = "release"
    /\ UNCHANGED <<first, mainPc, idlePc, slot, work, ui, conn, env>>

WorkRelease ==
    /\ workPc = "release"
    /\ slot' = "client"
    /\ workPc' = "await"
    /\ UNCHANGED <<healthy, first, mainPc, idlePc, work, ui, conn, env>>

WorkAwait ==
    /\ workPc = "await"
    /\ workPc' = IF healthy THEN "awaiting" ELSE "ending"
    /\ UNCHANGED <<healthy, first, mainPc, idlePc, slot, work, ui, conn, env>>

WorkAwaitTimeout ==
    /\ WorkAwaits /\ ~IdleSends
    /\ healthy' = FALSE
    /\ workPc' = "ending"
    /\ UNCHANGED <<first, mainPc, idlePc, slot, work, ui, conn, env>>

\* The thread gives up: it shuts the stream down for the idle thread to notice,
\* and what is left of the batch goes with it.
WorkEndKeepsStream ==   \* faulty: the stream is not shut down
    /\ workPc = "ending"
    /\ healthy' = FALSE
    /\ Settle(Elements(buffer), "dropped")
    /\ buffer' = <<>>
    /\ workPc' = "done"
    /\ UNCHANGED <<first, mainPc, idlePc, slot, rx, run, ui, conn, env>>

WorkEnd ==
    /\ workPc = "ending"
    /\ healthy' = FALSE
    /\ link' = "broken"
    /\ Settle(Elements(buffer), "dropped")
    /\ buffer' = <<>>
    /\ workPc' = "done"
    /\ UNCHANGED <<first, mainPc, idlePc, slot, rx, run, ui, mode, inbox, ignored, crossed, env>>

----------------------------------------------------------------------------
Environment == (\E r \in Requests : Submit(r)) \/ MpdEvent \/ LinkBreaks

Rendezvous == IdleConfirmsToMain \/ IdleConfirmsToWork \/ WorkConfirms

MainNext ==
    \/ MainStart \/ MainTake \/ MainFirstCheck \/ MainReconnect
    \/ MainReconnectFails \/ MainGiveBack \/ MainJoin \/ MainLost

IdleSteps ==
    \/ IdleTake \/ IdleTaken \/ IdleEnter \/ IdleEnterFails
    \/ IdleConfirm \/ IdleConfirmUnhealthy \/ IdleConfirmTimeout
    \/ IdleRead \/ IdleReadFails
    \/ IdleAwait \/ IdleAwaitTimeout

IdleNext == IdleSteps \/ IdleReadTimesOut

WorkExchange ==
    \/ WorkAnswered \/ WorkRequestFails \/ WorkRequestTimesOut \/ WorkTimeoutIsIgnored
    \/ WorkReconnect \/ WorkReconnectFails

WorkNext ==
    \/ WorkRequest \/ WorkClient \/ WorkPass
    \/ WorkNoidle \/ WorkNoidleFails \/ WorkNoidleTimesOut
    \/ WorkTake \/ WorkTaken
    \/ WorkConfirm \/ WorkConfirmUnhealthy \/ WorkConfirmTimeout
    \/ WorkHandle \/ WorkPop \/ WorkPopEmpty \/ WorkExchange
    \/ WorkRelease \/ WorkAwait \/ WorkAwaitTimeout \/ WorkEnd

Next == Environment \/ ServerReturns \/ Rendezvous \/ MainNext \/ IdleNext \/ WorkNext

(***************************************************************************)
(* Every thread is scheduled, a rendezvous with both partners ready        *)
(* happens, and MPD comes back after an outage.  select! chooses at random *)
(* among the branches that are ready, so a request that is ready again and *)
(* again is taken: strong fairness.  Nothing makes the application submit, *)
(* MPD report a change or the connection break, and no read of the idle    *)
(* thread need time out: mpd_idle_read_timeout_ms is not set by default.   *)
(***************************************************************************)
Fairness ==
    /\ WF_vars(MainNext) /\ WF_vars(IdleSteps) /\ WF_vars(WorkNext)
    /\ WF_vars(Rendezvous) /\ WF_vars(ServerReturns)
    /\ SF_vars(WorkRequest)

Spec == Init /\ [][Next]_vars /\ Fairness

----------------------------------------------------------------------------
ControlType ==
    /\ healthy \in BOOLEAN /\ first \in BOOLEAN /\ slot \in {"client", "empty"}
    /\ mainPc \in MainPcs /\ idlePc \in IdlePcs /\ workPc \in WorkPcs

RequestType ==
    /\ rx \in Seq(Requests) /\ buffer \in Seq(Requests)
    /\ current \in Requests \cup {0}
    /\ current # 0 <=> workPc = "execute"
    /\ IF current = 0 THEN step = 0 ELSE step \in 1 .. Len(Exchanges(current))
    /\ status \in [Requests -> Pending \cup Outcomes]

ConnType ==
    /\ ui \in {"connected", "lost"}
    /\ link \in {"ok", "broken"} /\ mode \in {"command", "idle"}
    /\ inbox \in Seq(Responses) /\ ignored \in BOOLEAN /\ crossed \in BOOLEAN
    /\ server \in {"up", "down"}
    /\ faults \in 0 .. MaxFaults /\ timeouts \in 0 .. MaxTimeouts

TypeOK == ControlType /\ RequestType /\ ConnType

MainHolds == mainPc \in {"check", "giveBack"}
IdleHolds == idlePc \in {"enter", "confirm", "confirming", "read"}
WorkHolds == workPc \in {"passing", "passed", "confirm", "confirming", "handle", "pop",
                         "execute", "reconnect", "release"}

\* The client is in exactly one place: no two threads use the connection at
\* once, it is never lost on an error path, and the guard that returns it
\* never finds the channel of capacity one full (ClientDropGuard).
OneClient ==
    /\ slot = "client" \/ MainHolds \/ IdleHolds \/ WorkHolds
    /\ slot = "client" => ~MainHolds /\ ~IdleHolds /\ ~WorkHolds
    /\ MainHolds => ~IdleHolds /\ ~WorkHolds
    /\ IdleHolds => ~WorkHolds

\* A command is sent only while MPD awaits one, and it meets nothing unread unless
\* a closure ignored a time-out on this connection: MPD closes a connection that
\* gets a command while it idles, and an unread response would be taken for the
\* answer.  A time-out that a closure returns never leaves its answer behind.
CleanExchange ==
    workPc = "execute" /\ link = "ok" => mode = "command" /\ (~ignored => inbox = <<>>)

\* A request reads the response to another exchange only on a connection on which
\* a closure has ignored a time-out; a reconnect ends it.
NoMixedAnswers == crossed => ignored

\* A confirmation has one possible receiver and one sender, although one
\* channel carries those of three threads.
ConfirmationsMatch ==
    /\ ~(IdleSends /\ WorkSends)
    /\ ~(WorkAwaits /\ (IdleAwaits \/ mainPc = "awaitIdle"))
    /\ mainPc = "awaitIdle" => workPc \in {"off", "done"}

\* A request runs on MPD only in a healthy task, so that its result is not
\* computed and then thrown away by the health check before the send.
RunsHealthy == workPc = "execute" => healthy

\* A query is left out only for a later query with the same replace_id, and the
\* chain of replacements ends in one that was not left out.
SkippedIsReplaced ==
    \A r \in Requests : status[r] = "skipped" =>
        \E q \in Requests : /\ q > r /\ ReplaceId[q] = ReplaceId[r]
                            /\ status[q] \notin {"skipped", "unsent"}

\* Requests come to their outcomes in the order of their submission, across
\* the channel, the batch and the errors.
SettledInOrder ==
    \A q, r \in Requests : q < r /\ status[r] \in Outcomes => status[q] \in Outcomes

\* HEALTHY is set again only when both threads of the lost connection ended:
\* neither can go on with the connection of the other one's successor.
HealthyAgainAfterBothEnd ==
    [][~healthy /\ healthy' => /\ idlePc \in {"off", "done"}
                               /\ workPc \in {"off", "done"}]_vars

\* The idle thread ended before its first confirmation: main waits for it
\* without a timeout and nobody is left to send it (client.rs:168).
Hung == mainPc = "awaitIdle" /\ idlePc = "done"

\* A task that turned unhealthy winds both threads down and tries to reconnect,
\* unless main hangs for the first confirmation of an idle thread that failed.
UnhealthyReconnects == ~healthy ~> mainPc = "start" \/ Hung

\* A submitted request comes to an outcome: a caller of query_sync, which waits
\* for its answer without a timeout, is not left waiting, except by that hang.
RequestsSettle == \A r \in Requests : status[r] = "sent" ~> status[r] \in Outcomes \/ Hung

=============================================================================
