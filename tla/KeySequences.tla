---------------------------- MODULE KeySequences ----------------------------
(***************************************************************************)
(* Key sequences (src/shared/keys/key_resolver.rs) driven by the event     *)
(* loop (src/core/event_loop/mod.rs) and timed by the Scheduler.           *)
(*                                                                         *)
(* The keys pressed, the timeouts of a sequence, and what the resolver     *)
(* makes of them (actions, text for an input) all travel through ONE queue *)
(* of application events; the buffer and the input mode belong to the      *)
(* loop; the timer fires on the scheduler's thread and puts a KeyTimeout,  *)
(* which carries no identity, behind what is already queued.               *)
(***************************************************************************)
EXTENDS Scheduler, FiniteSets
LOCAL INSTANCE SequencesExt

CONSTANTS
    Keys,
    Bindings,       \* the key sequences bound in each mode: the tries
    StepsOnce,      \* bound sequences whose action ignores a held key
    MaxKeys,        \* bound on the keys pressed
    MaxReloads,     \* bound on the changes of configuration
    MaxClicks       \* bound on the mouse events

Modes == {"normal", "insert"}

ASSUME BindingsAssumption ==
    /\ Bindings \in [Modes -> SUBSET Seq(Keys)]
    /\ <<>> \notin Bindings["normal"] \cup Bindings["insert"]
    /\ StepsOnce \subseteq Bindings["normal"]
    /\ MaxKeys \in Nat /\ MaxReloads \in Nat /\ MaxClicks \in Nat

\* Timers of the n-th key sequence prolonged, in a mode, by a resolver: the
\* resolver's timeout_id is their id.
ASSUME TimersAssumption ==
    /\ Jobs = (0..MaxReloads) \X (1..MaxKeys) \X Modes
    /\ Repeated = {}
    /\ \A j \in Jobs : IdOf[j] = j[1]

VARIABLES
    mode,       \* ctx.input.mode()
    buffer,     \* KeyResolver::buffer
    resolver,   \* the resolvers replaced so far (KeyResolver::timeout_id)
    events,     \* the queue of application events
    pressed,    \* keys pressed so far
    clicks      \* mouse events so far

inputs == <<pressed, clicks>>
loop == <<mode, buffer, resolver>>
keyVars == <<inputs, loop, events>>
allVars == <<vars, keyVars>>

(* Events *)
KeyEvent(k) == [kind |-> "key", key |-> k]
Timeout == [kind |-> "timeout"]
Action(keys) == [kind |-> "action", keys |-> keys]
Flush(bound, keys) == [kind |-> "flush", bound |-> bound, keys |-> keys]
Reload == [kind |-> "reload"]
Click == [kind |-> "click"]

IsNext(kind) == events # <<>> /\ Head(events).kind = kind

Post(es) == events' = Tail(events) \o es

KeyInit ==
    /\ Init
    /\ mode = "normal"
    /\ buffer = <<>>
    /\ resolver = 0
    /\ events = <<>>
    /\ pressed = 0
    /\ clicks = 0

(***************************************************************************)
(* What comes in: the input thread, the configuration watcher              *)
(***************************************************************************)
Press(k) ==
    /\ pressed < MaxKeys
    /\ pressed' = pressed + 1
    /\ events' = Append(events, KeyEvent(k))
    /\ UNCHANGED <<vars, loop, clicks>>

Mouse ==
    /\ clicks < MaxClicks
    /\ clicks' = clicks + 1
    /\ events' = Append(events, Click)
    /\ UNCHANGED <<vars, loop, pressed>>

Reconfigure ==
    /\ resolver + Cardinality({i \in DOMAIN events : events[i] = Reload}) < MaxReloads
    /\ events' = Append(events, Reload)
    /\ UNCHANGED <<vars, loop, inputs>>

(***************************************************************************)
(* The resolver                                                            *)
(***************************************************************************)
\* traverse: where a sequence ends in the trie of a mode.
Longer(keys, m) == \E b \in Bindings[m] : IsStrictPrefix(keys, b)
Traverse(keys, m) ==
    CASE keys \in Bindings[m] /\ ~Longer(keys, m) -> "exact"
      [] keys \in Bindings[m] /\ Longer(keys, m)  -> "ambiguous"
      [] keys \notin Bindings[m] /\ Longer(keys, m) -> "prefix"
      [] OTHER -> "mismatch"

\* The timer the next schedule_timeout sets.
NextTimer == <<resolver, Cardinality(issued) + 1, mode>>

CancelTimeout == <<CancelCommand(resolver)>>

\* Faulty: the buffer is emptied before the text is passed on.
HandleKeyClearsFirst ==
    /\ IsNext("key")
    /\ LET keys  == Append(buffer, Head(events).key)
           found == Traverse(keys, mode)
       IN
       \/ /\ found \in {"ambiguous", "prefix"}
          /\ buffer' = keys
          /\ issued' = issued \cup {NextTimer}
          /\ channel' = channel \o CancelTimeout \o <<AddCommand(NextTimer)>>
          /\ Post(<<>>)
       \/ /\ found \in {"exact", "mismatch"}
          /\ buffer' = <<>>
          /\ channel' = channel \o CancelTimeout
          /\ UNCHANGED issued
          /\ \/ mode = "insert" /\ Post(<<Flush(found = "exact", <<Head(events).key>>)>>)
             \/ mode = "normal" /\ found = "exact" /\ Post(<<Action(keys)>>)
             \/ mode = "normal" /\ found = "exact" /\ keys \in StepsOnce /\ Post(<<>>)
             \/ mode = "normal" /\ found = "mismatch" /\ Post(<<>>)
    /\ UNCHANGED <<now, cancels, thread, mode, resolver, inputs>>

\* handle_key_event: the sequence so far with the new key.
HandleKey ==
    /\ IsNext("key")
    /\ LET keys  == Append(buffer, Head(events).key)
           found == Traverse(keys, mode)
       IN
       \/ /\ found \in {"ambiguous", "prefix"}
          /\ buffer' = keys
          /\ issued' = issued \cup {NextTimer}
          /\ channel' = channel \o CancelTimeout \o <<AddCommand(NextTimer)>>
          /\ Post(<<>>)
       \/ /\ found \in {"exact", "mismatch"}
          /\ buffer' = <<>>
          /\ channel' = channel \o CancelTimeout
          /\ UNCHANGED issued
          /\ \/ mode = "insert" /\ Post(<<Flush(found = "exact", keys)>>)
             \/ mode = "normal" /\ found = "exact" /\ Post(<<Action(keys)>>)
             \/ mode = "normal" /\ found = "exact" /\ keys \in StepsOnce /\ Post(<<>>)
             \/ mode = "normal" /\ found = "mismatch" /\ Post(<<>>)
    /\ UNCHANGED <<now, cancels, thread, mode, resolver, inputs>>

\* Faulty: a bare prefix stays in the buffer.
HandleTimeoutKeepsPrefix ==
    /\ IsNext("timeout")
    /\ LET bound == Traverse(buffer, mode) \in {"exact", "ambiguous"} IN
       \/ buffer = <<>> /\ Post(<<>>) /\ UNCHANGED buffer
       \/ buffer # <<>> /\ ~bound /\ Post(<<>>) /\ UNCHANGED buffer
       \/ bound /\ mode = "insert" /\ Post(<<Flush(bound, buffer)>>) /\ buffer' = <<>>
       \/ bound /\ mode = "normal" /\ Post(<<Action(buffer)>>) /\ buffer' = <<>>
    /\ UNCHANGED <<vars, mode, resolver, inputs>>

\* handle_timeout: the sequence stands as it is.
HandleTimeout ==
    /\ IsNext("timeout")
    /\ buffer' = <<>>
    /\ LET bound == Traverse(buffer, mode) \in {"exact", "ambiguous"} IN
       \/ buffer = <<>> /\ Post(<<>>)
       \/ buffer # <<>> /\ mode = "insert" /\ Post(<<Flush(bound, buffer)>>)
       \/ buffer # <<>> /\ mode = "normal" /\ Post(IF bound THEN <<Action(buffer)>> ELSE <<>>)
    /\ UNCHANGED <<vars, mode, resolver, inputs>>

(***************************************************************************)
(* The rest of the loop                                                    *)
(***************************************************************************)
\* The user interface obeys an action, or a click; either may open or leave
\* an input.
HandleAction ==
    /\ IsNext("action") \/ IsNext("click")
    /\ mode' \in Modes
    /\ Post(<<>>)
    /\ UNCHANGED <<vars, buffer, resolver, inputs>>

\* Ui::handle_insert_mode: a bound sequence confirms or closes the input;
\* other keys are typed into the input, if one is open.
HandleFlush ==
    /\ IsNext("flush")
    /\ mode' = IF Head(events).bound THEN "normal" ELSE mode
    /\ Post(<<>>)
    /\ UNCHANGED <<vars, buffer, resolver, inputs>>

\* A new KeyResolver takes the place of the old one; the timer of the old
\* one is not cancelled.
HandleReload ==
    /\ IsNext("reload")
    /\ resolver' = resolver + 1
    /\ buffer' = <<>>
    /\ Post(<<>>)
    /\ UNCHANGED <<vars, mode, inputs>>

\* The callback of the timer: AppEvent::KeyTimeout.
TimerRings ==
    /\ Run
    /\ events' = Append(events, Timeout)
    /\ UNCHANGED <<loop, inputs>>

Loop == HandleKey \/ HandleTimeout \/ HandleAction \/ HandleFlush \/ HandleReload
TimerThread == (Start \/ Receive \/ TimesOut \/ Turn) /\ UNCHANGED keyVars
ClockTick == Tick /\ UNCHANGED keyVars

KeyNext ==
    \/ \E k \in Keys : Press(k)
    \/ Mouse
    \/ Reconfigure
    \/ Loop
    \/ TimerRings
    \/ TimerThread
    \/ ClockTick

KeySpec == KeyInit /\ [][KeyNext]_allVars

(***************************************************************************)
(* The loop takes every event of its queue, the scheduler's thread (which  *)
(* the program starts before the loop) is scheduled, time passes.          *)
(***************************************************************************)
KeyFairSpec ==
    /\ KeySpec
    /\ WF_allVars(Loop)
    /\ WF_allVars(TimerRings)
    /\ WF_allVars(TimerThread)
    /\ WF_allVars(ClockTick)

(***************************************************************************)
(* Properties                                                              *)
(***************************************************************************)
\* The text on its way to the input, in the order in which it was typed.
Text ==
    LET flushes == SelectSeq(events, LAMBDA e : e.kind = "flush")
        keys    == SelectSeq(events, LAMBDA e : e.kind = "key")
    IN  FlattenSeq([i \in DOMAIN flushes |-> flushes[i].keys])
            \o buffer
            \o [i \in DOMAIN keys |-> keys[i].key]

\* In an input, keys that are held back because they might start a sequence
\* are neither lost nor doubled nor reordered, whether the sequence is
\* completed, abandoned or timed out.
TypedTextIsKept ==
    [][mode = "insert" /\ (HandleKey \/ HandleTimeout) => Text' = Text]_allVars

\* A sequence always comes to its end.
SequencesEnd == buffer # <<>> ~> buffer = <<>>
=============================================================================
