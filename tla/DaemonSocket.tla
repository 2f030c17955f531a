---------------------------- MODULE DaemonSocket ----------------------------
(***************************************************************************)
(* How daemons come and go: core/daemon/mod.rs (ensure_running, stop) and  *)
(* the beginning and the end of core/daemon/server.rs (serve).  The only   *)
(* thing that keeps daemons apart is one socket path in the file system:   *)
(* a starting daemon looks whether somebody answers on it, removes it when *)
(* nobody does, and binds it; a daemon that was asked to stop removes the  *)
(* path, whatever it names by then.                                        *)
(*                                                                         *)
(* A process that crashes leaves its path behind; UnixListener::bind makes *)
(* the path in one system call and listens in the next, so a path may name *)
(* a daemon that does not answer yet.                                      *)
(***************************************************************************)
EXTENDS Naturals, FiniteSets

CONSTANTS
    Daemons,            \* processes that may run `daemon serve`
    Starters,           \* TUIs and `daemon start` calls
    NoOne,              \* neither a daemon nor anybody's socket
    MaxCrashes,         \* bound on daemon processes that die unasked
    ByHand              \* whether `daemon serve` is also run without asking first

ASSUME DaemonSocketAssumption ==
    /\ NoOne \notin Daemons
    /\ MaxCrashes \in Nat
    /\ ByHand \in BOOLEAN

VARIABLES
    pc,         \* daemon -> where it is in serve()
    asked,      \* the daemons whose stop flag is set
    path,       \* the daemon whose socket the path names, or NoOne
    starter,    \* starter -> where it is in ensure_running()
    child,      \* starter -> the daemon it spawned, or NoOne
    stopper,    \* where `daemon stop` is
    target,     \* the daemon whose pid `daemon stop` was given, or NoOne
    met,        \* history: the daemons that were answered when they looked
    died,       \* the daemons that crashed or were signalled
    crowded     \* history: the daemons whose start and another's overlapped

vars == <<pc, asked, path, starter, child, stopper, target, met, died, crowded>>

Starting == {"exists", "connect", "remove", "bind", "listen"}

Alive(d) == pc[d] \in Starting \union {"serve"}

\* A connection to the path is answered: the accept thread runs until the
\* process ends, so a daemon that was asked to stop still answers.
Answers(d) == pc[d] = "serve"
IsRunning == path \in Daemons /\ Answers(path)

Init ==
    /\ pc = [d \in Daemons |-> "unborn"]
    /\ asked = {}
    /\ path = NoOne
    /\ starter = [s \in Starters |-> "idle"]
    /\ child = [s \in Starters |-> NoOne]
    /\ stopper = "idle"
    /\ target = NoOne
    /\ met = {}
    /\ died = {}
    /\ crowded = {}

-----------------------------------------------------------------------------
\* Starting: ensure_running()

\* Nothing keeps starts apart: two processes may be between their spawn and
\* their first accept at once.
IsBorn(d) ==
    LET others == {e \in Daemons : pc[e] \in Starting}
    IN  /\ pc[d] = "unborn"
        /\ pc' = [pc EXCEPT ![d] = "exists"]
        /\ crowded' = IF others = {} THEN crowded ELSE crowded \union others \union {d}

\* is_running() before anything is spawned
AskFirst(s) ==
    /\ starter[s] = "idle"
    /\ starter' = [starter EXCEPT ![s] = IF IsRunning THEN "up" ELSE "spawn"]
    /\ UNCHANGED <<pc, asked, path, child, stopper, target, met, died, crowded>>

Spawn(s) ==
    /\ starter[s] = "spawn"
    /\ \E d \in Daemons :
          /\ IsBorn(d)
          /\ child' = [child EXCEPT ![s] = d]
    /\ starter' = [starter EXCEPT ![s] = "wait"]
    /\ UNCHANGED <<asked, path, stopper, target, met, died>>

\* One of the 100 ms polls finds the socket answering, whoever answers.
FindsItUp(s) ==
    /\ starter[s] = "wait"
    /\ IsRunning
    /\ starter' = [starter EXCEPT ![s] = "up"]
    /\ UNCHANGED <<pc, asked, path, child, stopper, target, met, died, crowded>>

\* START_TIMEOUT passes.  It is long beside a start: the starter gives up
\* only when the daemon it spawned will not come up any more.
GivesUp(s) ==
    /\ starter[s] = "wait"
    /\ ~IsRunning
    /\ pc[child[s]] = "gone"
    /\ starter' = [starter EXCEPT ![s] = "failed"]
    /\ UNCHANGED <<pc, asked, path, child, stopper, target, met, died, crowded>>

\* A process may call ensure_running() again: the next TUI, the next login.
StartAgain(s) ==
    /\ starter[s] \in {"up", "failed"}
    /\ \E d \in Daemons : pc[d] = "unborn"
    /\ starter' = [starter EXCEPT ![s] = "idle"]
    /\ child' = [child EXCEPT ![s] = NoOne]
    /\ UNCHANGED <<pc, asked, path, stopper, target, met, died, crowded>>

\* `s2udio daemon serve` by hand: nobody asks first.
ServeByHand(d) ==
    /\ ByHand
    /\ IsBorn(d)
    /\ UNCHANGED <<asked, path, starter, child, stopper, target, met, died>>

-----------------------------------------------------------------------------
\* The daemon: serve()

LooksForPath(d) ==
    /\ pc[d] = "exists"
    /\ pc' = [pc EXCEPT ![d] = IF path = NoOne THEN "bind" ELSE "connect"]
    /\ UNCHANGED <<asked, path, starter, child, stopper, target, met, died,
                   crowded>>

\* Faulty: removes the path without minding the answer.
AfterProbeRemoves == "remove"

\* Faulty: any path counts as somebody's.
AfterProbeKeeps == "bind"

\* What a refused connection leads to: the path is taken for a crashed
\* daemon's.  An answered one is left alone, and the bind will fail.
AfterProbe == IF IsRunning THEN "bind" ELSE "remove"

TriesToConnect(d) ==
    /\ pc[d] = "connect"
    /\ pc' = [pc EXCEPT ![d] = AfterProbe]
    /\ met' = IF IsRunning THEN met \union {d} ELSE met
    /\ UNCHANGED <<asked, path, starter, child, stopper, target, died, crowded>>

RemovesStale(d) ==
    /\ pc[d] = "remove"
    /\ path' = NoOne
    /\ pc' = [pc EXCEPT ![d] = "bind"]
    /\ UNCHANGED <<asked, starter, child, stopper, target, met, died, crowded>>

\* bind(2): an existing path is an error, and the process ends with it.
Binds(d) ==
    /\ pc[d] = "bind"
    /\ IF path = NoOne
         THEN /\ path' = d
              /\ pc' = [pc EXCEPT ![d] = "listen"]
         ELSE /\ pc' = [pc EXCEPT ![d] = "gone"]
              /\ UNCHANGED path
    /\ UNCHANGED <<asked, starter, child, stopper, target, met, died, crowded>>

Listens(d) ==
    /\ pc[d] = "listen"
    /\ pc' = [pc EXCEPT ![d] = "serve"]
    /\ UNCHANGED <<asked, path, starter, child, stopper, target, met, died,
                   crowded>>

\* The main loop sees the stop flag, removes the path and returns.
Leaves(d) ==
    /\ pc[d] = "serve"
    /\ d \in asked
    /\ path' = NoOne
    /\ pc' = [pc EXCEPT ![d] = "gone"]
    /\ UNCHANGED <<asked, starter, child, stopper, target, met, died, crowded>>

\* The process ends where it is and leaves the path as it is.
Dies(d) ==
    /\ pc' = [pc EXCEPT ![d] = "gone"]
    /\ died' = died \union {d}

\* A panic, SIGKILL, or the logout that takes the process down.
Crashes(d) ==
    /\ Alive(d)
    /\ Cardinality(died) < MaxCrashes
    /\ Dies(d)
    /\ UNCHANGED <<asked, path, starter, child, stopper, target, met, crowded>>

-----------------------------------------------------------------------------
\* Stopping: stop()

\* ping: the pid of whoever answers now
AsksWho ==
    /\ stopper \in {"idle", "done"}
    /\ IsRunning
    /\ target' = path
    /\ stopper' = "ask"
    /\ UNCHANGED <<pc, asked, path, starter, child, met, died, crowded>>

AfterRequest == IF IsRunning THEN asked \union {path} ELSE asked

\* The stop request goes over a connection of its own; when nobody answers
\* it is lost and the result ignored.
AsksToStop ==
    /\ stopper = "ask"
    /\ asked' = AfterRequest
    /\ stopper' = "wait"
    /\ UNCHANGED <<pc, path, starter, child, target, met, died, crowded>>

FindsItStopped ==
    /\ stopper \in {"wait", "term"}
    /\ ~IsRunning
    /\ stopper' = "done"
    /\ UNCHANGED <<pc, asked, path, starter, child, target, met, died, crowded>>

Signalled(d) == IF Alive(d) THEN Dies(d) ELSE UNCHANGED <<pc, died>>

\* STOP_TIMEOUT passes with the socket answering at every poll.  It is
\* twenty-five turns of the daemon's main loop, so a daemon that was asked
\* is gone by then: what answers is another one.
SendsTerm ==
    /\ stopper = "wait"
    /\ IsRunning
    /\ path \notin asked
    /\ target \in asked => ~Alive(target)
    /\ Signalled(target)
    /\ stopper' = "term"
    /\ UNCHANGED <<asked, path, starter, child, target, met, crowded>>

\* Still answered 1.5 s later: SIGKILL, and the command says it failed.
SendsKill ==
    /\ stopper = "term"
    /\ IsRunning
    /\ Signalled(target)
    /\ stopper' = "done"
    /\ UNCHANGED <<asked, path, starter, child, target, met, crowded>>

-----------------------------------------------------------------------------
StarterStep(s) == AskFirst(s) \/ Spawn(s) \/ FindsItUp(s) \/ GivesUp(s)

DaemonStep(d) ==
    \/ LooksForPath(d) \/ TriesToConnect(d) \/ RemovesStale(d)
    \/ Binds(d) \/ Listens(d) \/ Leaves(d)

Next ==
    \/ \E s \in Starters : StarterStep(s) \/ StartAgain(s)
    \/ \E d \in Daemons : DaemonStep(d) \/ ServeByHand(d) \/ Crashes(d)
    \/ AsksWho \/ AsksToStop \/ FindsItStopped \/ SendsTerm \/ SendsKill

Spec == Init /\ [][Next]_vars

-----------------------------------------------------------------------------
\* "One detached per-user process owns the stream buffer proxy"
\* (core/daemon/mod.rs, line 3): two daemons never serve at once.
OneDaemon == \A d, e \in Daemons : Answers(d) /\ Answers(e) => d = e

\* A daemon that was started with another one leaves as it was asked: it may
\* have lost its path before, and then removes somebody else's.
StrayLeft == \E d \in crowded : d \in asked /\ pc[d] = "gone"

\* A daemon that holds the socket can be reached over the path, so that it
\* is found by the next TUI and can be stopped, whatever starts, stops and
\* crashes around it.  serve() does not ensure it for daemons that start
\* together (OneDaemon); one that was started alone loses its path to nobody,
\* not to daemons that start together later either, but to one of an earlier
\* such pair that is stopped.
HolderIsReachable ==
    \A d \in Daemons \ crowded :
       pc[d] \in {"listen", "serve"} => path = d \/ StrayLeft

\* A path that a crashed daemon left behind never keeps the next one from
\* coming up: a daemon that ends although nobody stopped or killed it was
\* answered by another when it looked, or started together with another.
OnlyTheLivingTurnAway ==
    \A d \in Daemons :
       pc[d] = "gone" => d \in met \union asked \union died \union crowded

=============================================================================
