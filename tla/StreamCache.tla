---------------------------- MODULE StreamCache ----------------------------
(***************************************************************************)
(* The caching stream proxy (src/core/stream_cache.rs): MPD and mpv fetch  *)
(* http://127.0.0.1:<port>/s2u/<class>/<key>, and one thread per request   *)
(* serves it from the cache file or from the fill that is writing it.      *)
(*                                                                         *)
(* Every step is one critical section of `Inner` or of a fill's progress,  *)
(* or one file operation, so the request threads, the fill threads, the    *)
(* registrations and a restart interleave as they do in the code.  Bodies  *)
(* are abstracted to their length in chunks: an upstream URL yields the    *)
(* same bytes on every fetch.                                              *)
(***************************************************************************)
EXTENDS Integers, FiniteSets, Sequences, SequencesExt, FiniteSetsExt

CONSTANTS
    Keys,          \* hashes of original links
    Classes,       \* "audio" and "video"
    Default,       \* the class of a key without an entry
    Rows,          \* the pairs <<class, key>> the players are handed URLs of
    Size,          \* the length of every key's body, in chunks
    Budget,        \* the bytes each class may occupy, in chunks
    FillAttempts,  \* fetches of one fill
    Announces,     \* does the upstream announce the length of a body
    Readers,       \* request threads
    MaxFills,      \* fill threads that exist at once
    MaxCrashes     \* restarts

ASSUME CacheConstants ==
    /\ Default \in Classes /\ "none" \notin Classes
    /\ IsFiniteSet(Readers)
    /\ Rows \subseteq Classes \X Keys
    /\ Size \in [Keys -> Nat \ {0}]
    /\ Budget \in [Classes -> Nat]
    /\ FillAttempts \in Nat \ {0}
    /\ Announces \subseteq BOOLEAN
    /\ MaxFills \in Nat \ {0}
    /\ MaxCrashes \in Nat

VARIABLES
    entry,         \* Inner.entries
    recency,       \* the keys of the entries, least recently used first
    upstream,      \* Inner.registrations: no URL, a "fresh" one, or one a fill has "tried"
    current,       \* Inner.fills: the fill of each key, or None
    active,        \* Inner.active
    file,          \* the length of each cache file, or Missing
    saved,         \* index.json
    fill,          \* the fill threads and their FillProgress
    reader,        \* the request threads
    crashes,
    gone,          \* history: the keys evicted since the index was saved
    astray         \* history: the keys used in another class than that of their entry, or
                   \* back from an index behind their eviction

inner == <<entry, recency, upstream, current, active, gone, astray>>
vars  == <<entry, recency, upstream, current, active, file, saved, fill, reader, crashes,
           gone, astray>>

FillIds == 1 .. MaxFills
None    == 0
Missing == -1
Absent  == [class |-> "none", complete |-> FALSE, failed |-> FALSE]

NoFill == [pc |-> "off", key |-> "none", path |-> "none", class |-> "none", attempt |-> 1,
           written |-> 0, filled |-> 0, started |-> FALSE, total |-> 0,
           complete |-> FALSE, failed |-> FALSE]
NoReader == [pc |-> "off", class |-> "none", key |-> "none", seek |-> FALSE,
             fill |-> None, length |-> 0, pos |-> 0, outcome |-> "none"]

Paths == Classes \X Keys

Init ==
    /\ entry = [k \in Keys |-> Absent]
    /\ recency = <<>>
    /\ upstream = [k \in Keys |-> "none"]
    /\ current = [k \in Keys |-> None]
    /\ active = [k \in Keys |-> 0]
    /\ file = [p \in Paths |-> Missing]
    /\ saved = [entry |-> entry, recency |-> recency]
    /\ fill = [f \in FillIds |-> NoFill]
    /\ reader = [r \in Readers |-> NoReader]
    /\ crashes = 0
    /\ gone = {} /\ astray = {}

----------------------------------------------------------------------------
(* What the critical sections read and compute.                            *)

Has(k)      == entry[k] # Absent
Complete(k) == Has(k) /\ entry[k].complete
Registered(k) == upstream[k] # "none"
Known(k)    == Registered(k) \/ Complete(k)
ClassOf(k)  == IF Has(k) THEN entry[k].class ELSE Default

\* The recency once k has been used.
Used(k) == Append(SelectSeq(recency, LAMBDA j : j # k), k)

Decremented(k) == [active EXCEPT ![k] = IF @ = 0 THEN 0 ELSE @ - 1]

\* save_manifest.  Only a restart reads the index, so once MaxCrashes allows no
\* more of them it is not followed further.
Save(e, order) ==
    IF crashes < MaxCrashes
    THEN saved' = [entry |-> e, recency |-> order] /\ gone' = {}
    ELSE UNCHANGED <<saved, gone>>

\* Key k is used in class c, while its fill takes the class that class_of says.
Strays(c, k) == astray' = IF c = ClassOf(k) THEN astray ELSE astray \cup {k}

SizeOf(e, ks) == MapThenSumSet(LAMBDA k : IF e[k].complete THEN Size[k] ELSE 0, ks)

Before(order, j, k) ==
    \E m, n \in DOMAIN order : m < n /\ order[m] = j /\ order[n] = k

\* Faulty: only a fill protects an entry.
EvictedUnderReaders(e, order, c) ==
    LET ofClass == {k \in Keys : e[k].class = c}
        idle    == {k \in ofClass : current[k] = None}
        older(k) == {j \in idle : Before(order, j, k)}
    IN {k \in idle : SizeOf(e, ofClass) - SizeOf(e, older(k)) > Budget[c]}

\* enforce_budget: the entries of class c that go, least recently used first,
\* until the class is within its budget.
Evicted(e, order, c) ==
    LET ofClass == {k \in Keys : e[k].class = c}
        idle    == {k \in ofClass : current[k] = None /\ active[k] = 0}
        older(k) == {j \in idle : Before(order, j, k)}
    IN {k \in idle : SizeOf(e, ofClass) - SizeOf(e, older(k)) > Budget[c]}

Unused == {f \in FillIds : fill[f] = NoFill}

\* A Fill lives as long as its thread or a request refers to it.
Dropped(f) == IF fill[f].pc = "off" THEN NoFill ELSE fill[f]

\* What is left of a fill once its thread is over.
Result(f) == [NoFill EXCEPT !.key = fill[f].key, !.filled = fill[f].filled,
                            !.started = TRUE, !.total = fill[f].total,
                            !.complete = fill[f].complete, !.failed = fill[f].failed]

StartFill(k) ==
    /\ Unused # {}
    /\ LET f == Min(Unused) IN
         /\ current' = [current EXCEPT ![k] = f]
         /\ fill' = [fill EXCEPT ![f] = [NoFill EXCEPT !.pc = "path", !.key = k]]
    /\ active' = [active EXCEPT ![k] = @ + 1]
    /\ upstream' = [upstream EXCEPT ![k] = "tried"]

----------------------------------------------------------------------------
(* Registrations.                                                          *)

\* register
Registers(c, k) ==
    /\ <<c, k>> \in Rows
    /\ entry' = [entry EXCEPT ![k] =
                   IF Has(k) THEN [@ EXCEPT !.failed = FALSE]
                             ELSE [Absent EXCEPT !.class = c]]
    /\ recency' = Used(k)
    /\ Save(entry', recency')
    /\ IF active[k] > 0 /\ ~ Has(k) THEN Strays(c, k) ELSE UNCHANGED astray

\* proxy_url: a row is resolved and handed to a player.
Register(c, k) ==
    /\ Registers(c, k)
    /\ upstream' = [upstream EXCEPT ![k] = "fresh"]
    /\ UNCHANGED <<current, active, file, fill, reader, crashes>>

\* preload: the look ahead registers the next row and starts its fill.
Preload(c, k) ==
    /\ Registers(c, k)
    /\ IF current[k] # None \/ Complete(k)
       THEN /\ upstream' = [upstream EXCEPT ![k] = "fresh"]
            /\ UNCHANGED <<current, active, fill>>
       ELSE StartFill(k)
    /\ UNCHANGED <<file, reader, crashes>>

----------------------------------------------------------------------------
(* A fill thread.                                                          *)

FillAt(f, pc) == fill[f].pc = pc

\* The file and the class of the entry, each looked up under the lock.
FillPath(f) ==
    /\ FillAt(f, "path")
    /\ fill' = [fill EXCEPT ![f].pc = "class", ![f].path = ClassOf(fill[f].key)]
    /\ UNCHANGED <<inner, file, saved, reader, crashes>>

FillClass(f) ==
    /\ FillAt(f, "class")
    /\ fill' = [fill EXCEPT ![f].pc = "fetch", ![f].class = ClassOf(fill[f].key)]
    /\ UNCHANGED <<inner, file, saved, reader, crashes>>

\* The upstream answers, with or without the length of the body.
FillHeaders(f) ==
    /\ FillAt(f, "fetch")
    /\ \E announced \in Announces :
         LET total == IF announced THEN Size[fill[f].key] ELSE 0 IN
         fill' = [fill EXCEPT ![f].pc = "create", ![f].started = TRUE, ![f].total = total]
    /\ UNCHANGED <<inner, file, saved, reader, crashes>>

\* The file is created, or cut to nothing.
FillCreate(f) ==
    /\ FillAt(f, "create")
    /\ file' = [file EXCEPT ![<<fill[f].path, fill[f].key>>] = 0]
    /\ fill' = [fill EXCEPT ![f].pc = "read", ![f].written = 0]
    /\ UNCHANGED <<inner, saved, reader, crashes>>

FillWrite(f) ==
    /\ FillAt(f, "read") /\ fill[f].written < Size[fill[f].key]
    /\ file' = [file EXCEPT ![<<fill[f].path, fill[f].key>>] = fill[f].written + 1]
    /\ fill' = [fill EXCEPT ![f].pc = "count", ![f].written = @ + 1]
    /\ UNCHANGED <<inner, saved, reader, crashes>>

FillCount(f) ==
    /\ FillAt(f, "count")
    /\ fill' = [fill EXCEPT ![f].pc = "read", ![f].filled = fill[f].written]
    /\ UNCHANGED <<inner, file, saved, reader, crashes>>

\* The upstream refuses, resets the transfer or ends it early.
FillFails(f) ==
    /\ fill[f].pc \in {"fetch", "read"}
    /\ fill' = [fill EXCEPT ![f].filled = 0,
                            ![f].attempt = IF @ < FillAttempts THEN @ + 1 ELSE @,
                            ![f].pc = IF fill[f].attempt < FillAttempts
                                      THEN "fetch" ELSE "giveUp"]
    /\ UNCHANGED <<inner, file, saved, reader, crashes>>

\* The body has ended: the entry is complete, and its class is brought within
\* its budget.
FillIndex(f) ==
    LET k == fill[f].key
        c == fill[f].class
        e == [entry EXCEPT ![k] = [class |-> IF Has(k) THEN @.class ELSE c,
                                   complete |-> TRUE, failed |-> FALSE]]
        out == Evicted(e, Used(k), c)
    IN /\ FillAt(f, "read") /\ fill[f].written = Size[k]
       /\ entry' = [j \in Keys |-> IF j \in out THEN Absent ELSE e[j]]
       /\ recency' = SelectSeq(Used(k), LAMBDA j : j \notin out)
       /\ file' = [p \in Paths |->
                     IF p[2] \in out /\ p[1] = e[p[2]].class THEN Missing ELSE file[p]]
       /\ fill' = [fill EXCEPT ![f].pc = "publish"]
       /\ gone' = IF crashes < MaxCrashes THEN gone \cup out ELSE gone
       /\ UNCHANGED <<upstream, current, active, saved, reader, crashes, astray>>

FillPublish(f) ==
    /\ FillAt(f, "publish")
    /\ fill' = [fill EXCEPT ![f].pc = "end", ![f].complete = TRUE,
                            ![f].total = Size[fill[f].key]]
    /\ UNCHANGED <<inner, file, saved, reader, crashes>>

FillGivesUp(f) ==
    /\ FillAt(f, "giveUp")
    /\ entry' = [entry EXCEPT ![fill[f].key] = IF @ = Absent THEN @ ELSE [@ EXCEPT !.failed = TRUE]]
    /\ fill' = [fill EXCEPT ![f].pc = "fail"]
    /\ UNCHANGED <<recency, upstream, current, active, file, saved, reader, crashes,
                   gone, astray>>

\* Faulty: the requests that wait are not told.
FillFailureSilent(f) ==
    /\ FillAt(f, "fail")
    /\ fill' = [fill EXCEPT ![f].pc = "end", ![f].started = TRUE]
    /\ UNCHANGED <<inner, file, saved, reader, crashes>>

FillPublishFailure(f) ==
    /\ FillAt(f, "fail")
    /\ fill' = [fill EXCEPT ![f].pc = "end", ![f].started = TRUE, ![f].failed = TRUE]
    /\ UNCHANGED <<inner, file, saved, reader, crashes>>

\* Faulty: a fill that failed stays the fill of its key.
FillLeavesOnSuccess(f) ==
    /\ FillAt(f, "end")
    /\ current' = IF fill[f].failed THEN current ELSE [current EXCEPT ![fill[f].key] = None]
    /\ active' = Decremented(fill[f].key)
    /\ Save(entry, recency)
    /\ fill' = [fill EXCEPT ![f] = Result(f)]
    /\ UNCHANGED <<entry, recency, upstream, file, reader, crashes, astray>>

FillLeaves(f) ==
    /\ FillAt(f, "end")
    /\ current' = [current EXCEPT ![fill[f].key] = None]
    /\ active' = Decremented(fill[f].key)
    /\ Save(entry, recency)
    /\ fill' = [fill EXCEPT ![f] = IF \E r \in Readers : reader[r].fill = f
                                   THEN Result(f) ELSE NoFill]
    /\ UNCHANGED <<entry, recency, upstream, file, reader, crashes, astray>>

FillThread(f) ==
    \/ FillPath(f) \/ FillClass(f) \/ FillHeaders(f) \/ FillCreate(f) \/ FillWrite(f)
    \/ FillCount(f) \/ FillFails(f) \/ FillIndex(f) \/ FillPublish(f)
    \/ FillGivesUp(f) \/ FillPublishFailure(f) \/ FillLeaves(f)

----------------------------------------------------------------------------
(* A request thread: handle_client.                                        *)

ReaderAt(r, pc) == reader[r].pc = pc

Goes(r, pc) == reader' = [reader EXCEPT ![r].pc = pc]

\* The request is over; the thread has still to give up its place, and before
\* that to write an answer without a body.
Answered(r, outcome) == reader' = [reader EXCEPT ![r].pc = "leave", ![r].outcome = outcome]
Replies(r, outcome)  == reader' = [reader EXCEPT ![r].pc = "answer", ![r].outcome = outcome]

\* A player asks for a row, from the start or (seek) from further on.
Request(r, c, k) ==
    /\ ReaderAt(r, "off") /\ <<c, k>> \in Rows
    /\ \E seek \in BOOLEAN :
         reader' = [reader EXCEPT ![r] = [NoReader EXCEPT !.pc = "lookup", !.class = c,
                                                          !.key = k, !.seek = seek]]
    /\ UNCHANGED <<inner, file, saved, fill, crashes>>

LookupKnown(r) ==
    /\ ReaderAt(r, "lookup") /\ Known(reader[r].key)
    /\ active' = [active EXCEPT ![reader[r].key] = @ + 1]
    /\ Strays(reader[r].class, reader[r].key)
    /\ Goes(r, "check")
    /\ UNCHANGED <<entry, recency, upstream, current, file, saved, fill, crashes, gone>>

LookupUnknown(r) ==
    /\ ReaderAt(r, "lookup") /\ ~ Known(reader[r].key)
    /\ Goes(r, "refused")
    /\ UNCHANGED <<inner, file, saved, fill, crashes>>

Refuse(r) ==
    /\ ReaderAt(r, "refused")
    /\ reader' = [reader EXCEPT ![r] = NoReader]
    /\ UNCHANGED <<inner, file, saved, fill, crashes>>

Check(r) ==
    /\ ReaderAt(r, "check")
    /\ Goes(r, IF Complete(reader[r].key) THEN "disk" ELSE "fill")
    /\ UNCHANGED <<inner, file, saved, fill, crashes>>

PathOf(r) == <<reader[r].class, reader[r].key>>

\* serve_from_disk: the file is opened and its length looked up.
DiskOpen(r) ==
    /\ ReaderAt(r, "disk") /\ file[PathOf(r)] > 0
    /\ reader' = [reader EXCEPT ![r].pc = "copy", ![r].length = file[PathOf(r)]]
    /\ UNCHANGED <<inner, file, saved, fill, crashes>>

DiskMissing(r) ==
    /\ ReaderAt(r, "disk") /\ ~ file[PathOf(r)] > 0
    /\ IF file[PathOf(r)] = Missing THEN Answered(r, "error") ELSE Replies(r, "error")
    /\ UNCHANGED <<inner, file, saved, fill, crashes>>

\* The head, and copy_exact.
DiskCopy(r) ==
    /\ ReaderAt(r, "copy")
    /\ reader' = [reader EXCEPT ![r].pc = "leave",
                    ![r].pos = file[PathOf(r)],
                    ![r].outcome = IF file[PathOf(r)] >= reader[r].length
                                   THEN "served" ELSE "short"]
    /\ UNCHANGED <<inner, file, saved, fill, crashes>>

\* Faulty: the early return skips the end of handle_client.
ForwardReturns(r) ==
    /\ ReaderAt(r, "fill") /\ reader[r].seek
    /\ reader' = [reader EXCEPT ![r] = NoReader]
    /\ UNCHANGED <<inner, file, saved, fill, crashes>>

\* serve_via_fill: a seek into a body that is not complete goes upstream.
Forward(r) ==
    /\ ReaderAt(r, "fill") /\ reader[r].seek
    /\ IF Registered(reader[r].key) THEN Goes(r, "forward") ELSE Replies(r, "unknown")
    /\ UNCHANGED <<inner, file, saved, fill, crashes>>

\* forward_range
ForwardRange(r) ==
    /\ ReaderAt(r, "forward")
    /\ Answered(r, "forwarded")
    /\ UNCHANGED <<inner, file, saved, fill, crashes>>

\* ensure_fill finds a running fill, or one that is not removed yet.
JoinFill(r) ==
    /\ ReaderAt(r, "fill") /\ ~ reader[r].seek
    /\ current[reader[r].key] # None
    /\ reader' = [reader EXCEPT ![r].pc = "wait", ![r].fill = current[reader[r].key]]
    /\ UNCHANGED <<inner, file, saved, fill, crashes>>

\* ensure_fill has nothing to fill: the entry was completed in between.
FillIsOver(r) ==
    /\ ReaderAt(r, "fill") /\ ~ reader[r].seek
    /\ current[reader[r].key] = None
    /\ Complete(reader[r].key) \/ ~ Registered(reader[r].key)
    /\ Goes(r, "disk")
    /\ UNCHANGED <<inner, file, saved, fill, crashes>>

\* Faulty: the entry may have been completed since it was checked.
NewFillUnchecked(r) ==
    LET k == reader[r].key IN
    /\ ReaderAt(r, "fill") /\ ~ reader[r].seek
    /\ current[k] = None /\ Registered(k)
    /\ StartFill(k)
    /\ reader' = [reader EXCEPT ![r].pc = "wait", ![r].fill = current'[k]]
    /\ UNCHANGED <<entry, recency, file, saved, crashes, gone, astray>>

\* ensure_fill spawns a fill.
NewFill(r) ==
    LET k == reader[r].key IN
    /\ ReaderAt(r, "fill") /\ ~ reader[r].seek
    /\ current[k] = None /\ ~ Complete(k) /\ Registered(k)
    /\ StartFill(k)
    /\ reader' = [reader EXCEPT ![r].pc = "wait", ![r].fill = current'[k]]
    /\ UNCHANGED <<entry, recency, file, saved, crashes, gone, astray>>

FillOf(r) == fill[reader[r].fill]

Headers(r) ==
    /\ ReaderAt(r, "wait") /\ FillOf(r).started
    /\ IF FillOf(r).failed
       THEN Replies(r, "badGateway")
       ELSE reader' = [reader EXCEPT ![r].pc = "open", ![r].length = FillOf(r).total]
    /\ UNCHANGED <<inner, file, saved, fill, crashes>>

\* Thirty seconds without headers: the request goes on without a length.
HeadersTimeout(r) ==
    /\ ReaderAt(r, "wait") /\ ~ FillOf(r).started
    /\ reader' = [reader EXCEPT ![r].pc = "open", ![r].length = 0]
    /\ UNCHANGED <<inner, file, saved, fill, crashes>>

Open(r) ==
    /\ ReaderAt(r, "open") /\ file[PathOf(r)] # Missing
    /\ Goes(r, "head")
    /\ UNCHANGED <<inner, file, saved, fill, crashes>>

\* open_with_retry: the file has not appeared within a second.
OpenTimeout(r) ==
    /\ ReaderAt(r, "open") /\ file[PathOf(r)] = Missing
    /\ Answered(r, "error")
    /\ UNCHANGED <<inner, file, saved, fill, crashes>>

SendHead(r) ==
    /\ ReaderAt(r, "head")
    /\ Goes(r, "stream")
    /\ UNCHANGED <<inner, file, saved, fill, crashes>>

\* stream_growing: a chunk is read, and then sent; the last one of an announced
\* body ends the loop.
Stream(r) ==
    /\ ReaderAt(r, "stream") /\ reader[r].pos < file[PathOf(r)]
    /\ Goes(r, "send")
    /\ UNCHANGED <<inner, file, saved, fill, crashes>>

Send(r) ==
    /\ ReaderAt(r, "send")
    /\ LET last == reader[r].pos + 1 = reader[r].length IN
         reader' = [reader EXCEPT ![r].pos = @ + 1,
                      ![r].pc = IF last THEN "leave" ELSE "stream",
                      ![r].outcome = IF last THEN "served" ELSE @]
    /\ UNCHANGED <<inner, file, saved, fill, crashes>>

\* Nothing to read for now; the progress is looked at next.
StreamDry(r) ==
    /\ ReaderAt(r, "stream") /\ reader[r].pos >= file[PathOf(r)]
    /\ Goes(r, "peek")
    /\ UNCHANGED <<inner, file, saved, fill, crashes>>

\* The loop ends: a body without an announced length has still its last, empty
\* chunk to come.
Over(r) == IF reader[r].length = 0 THEN Goes(r, "trailer") ELSE Answered(r, "short")

\* Faulty: a complete fill ends the body, whatever has been sent of it.
PeekTrustsCompletion(r) ==
    /\ ReaderAt(r, "peek")
    /\ IF FillOf(r).failed \/ FillOf(r).complete
       THEN Over(r)
       ELSE Goes(r, "stream")
    /\ UNCHANGED <<inner, file, saved, fill, crashes>>

\* Faulty: the count that a retry has set back to nothing ends the body.
PeekTrustsCount(r) ==
    /\ ReaderAt(r, "peek")
    /\ IF FillOf(r).failed \/ FillOf(r).filled <= reader[r].pos
       THEN Over(r)
       ELSE Goes(r, "stream")
    /\ UNCHANGED <<inner, file, saved, fill, crashes>>

\* The fill failed, is complete, or there is more to wait for.
Peek(r) ==
    /\ ReaderAt(r, "peek")
    /\ IF FillOf(r).failed \/ (FillOf(r).complete /\ FillOf(r).filled <= reader[r].pos)
       THEN Over(r)
       ELSE Goes(r, "stream")
    /\ UNCHANGED <<inner, file, saved, fill, crashes>>

Trailer(r) ==
    /\ ReaderAt(r, "trailer")
    /\ Answered(r, "served")
    /\ UNCHANGED <<inner, file, saved, fill, crashes>>

Answer(r) ==
    /\ ReaderAt(r, "answer")
    /\ Goes(r, "leave")
    /\ UNCHANGED <<inner, file, saved, fill, crashes>>

\* The thread is writing to its player.  The connections that accept_loop takes
\* have no time-outs: a player that neither reads nor closes its connection holds
\* the thread there.
AtWrite(r) ==
    reader[r].pc \in {"refused", "copy", "forward", "head", "send", "trailer", "answer"}

\* The player closes the connection, and the write fails.
PlayerLeaves(r) ==
    /\ AtWrite(r) /\ ~ ReaderAt(r, "refused")
    /\ Answered(r, "gone")
    /\ UNCHANGED <<inner, file, saved, fill, crashes>>

Leave(r) ==
    LET k == reader[r].key IN
    /\ ReaderAt(r, "leave")
    /\ active' = Decremented(k)
    /\ recency' = IF Has(k) THEN Used(k) ELSE recency
    /\ reader' = [reader EXCEPT ![r] = NoReader]
    /\ fill' = [f \in FillIds |->
                  IF reader[r].fill = f /\ \A q \in Readers \ {r} : reader[q].fill # f
                  THEN Dropped(f) ELSE fill[f]]
    /\ UNCHANGED <<entry, upstream, current, file, saved, crashes, gone, astray>>

\* What the thread does by itself, and what takes its player.
Works(r) ==
    \/ LookupKnown(r) \/ LookupUnknown(r) \/ Check(r) \/ DiskOpen(r) \/ DiskMissing(r)
    \/ Forward(r) \/ JoinFill(r) \/ FillIsOver(r) \/ NewFill(r) \/ Headers(r)
    \/ HeadersTimeout(r) \/ Open(r) \/ OpenTimeout(r) \/ Stream(r) \/ StreamDry(r)
    \/ Peek(r) \/ Leave(r)

Writes(r) ==
    \/ Refuse(r) \/ DiskCopy(r) \/ ForwardRange(r) \/ SendHead(r) \/ Send(r) \/ Trailer(r)
    \/ Answer(r) \/ PlayerLeaves(r)

Serve(r) == Works(r) \/ Writes(r)

----------------------------------------------------------------------------
\* The process dies and StreamCache::start reads the index again: a complete
\* entry stays only while its file exists.
Restart ==
    LET keeps(k) == /\ saved.entry[k] # Absent
                    /\ saved.entry[k].complete => file[<<saved.entry[k].class, k>>] # Missing
    IN /\ crashes < MaxCrashes
       /\ crashes' = crashes + 1
       /\ entry' = [k \in Keys |-> IF keeps(k) THEN saved.entry[k] ELSE Absent]
       /\ recency' = SelectSeq(saved.recency, keeps)
       /\ upstream' = [k \in Keys |-> "none"]
       /\ current' = [k \in Keys |-> None]
       /\ active' = [k \in Keys |-> 0]
       /\ fill' = [f \in FillIds |-> NoFill]
       /\ reader' = [r \in Readers |-> NoReader]
       /\ astray' = astray \cup {k \in gone : keeps(k) /\ saved.entry[k].complete}
       /\ UNCHANGED <<file, saved, gone>>

Next ==
    \/ \E c \in Classes, k \in Keys : Register(c, k) \/ Preload(c, k)
    \/ \E c \in Classes, k \in Keys, r \in Readers : Request(r, c, k)
    \/ \E f \in FillIds : FillThread(f)
    \/ \E r \in Readers : Serve(r)
    \/ Restart

Spec == Init /\ [][Next]_vars

\* A fill thread that can take a step takes one: the calls to the upstream have
\* time-outs.  A request thread does what its player has no part in: the waits for
\* a fill have time-outs, and the writes to the player none.
FairSpec ==
    /\ Spec
    /\ \A f \in FillIds : WF_vars(FillThread(f))
    /\ \A r \in Readers : WF_vars(Works(r))

----------------------------------------------------------------------------
(* Properties.                                                             *)

Live(f)    == fill[f].pc # "off"
Serving(r) == reader[r].pc \notin {"off", "lookup", "refused"}

\* Inner.active counts exactly the requests and the fill threads that are using
\* the key: what saturating_sub and the removal at zero in dec_active would hide
\* is a count that has lost its meaning, and with it the protection from eviction.
ActiveCountsUsers ==
    \A k \in Keys :
        active[k] = Cardinality({r \in Readers : Serving(r) /\ reader[r].key = k})
                    + Cardinality({f \in FillIds : Live(f) /\ fill[f].key = k})

\* "never touching an entry with a live fill or reader": while a key is in use
\* neither its entry nor a file of it is removed.
UsedIsNotEvicted ==
    [][\A k \in Keys : active[k] > 0 /\ crashes' = crashes =>
         /\ Has(k) => Has(k)'
         /\ \A c \in Classes : file[<<c, k>>] # Missing => file'[<<c, k>>] # Missing]_vars

\* The file of a complete entry holds the whole body, whatever fills have been
\* started, have failed and have been repeated on the way.  Not so for a link that
\* is used as both audio and video, for a video whose entry was evicted while its
\* URL was still in use, and for an entry that a crash brought back from an index
\* behind its eviction.
CompleteEntryIsWhole ==
    \A k \in Keys \ astray : Complete(k) => file[<<entry[k].class, k>>] = Size[k]

\* A player that is told it has the whole body has it, unless the body had no
\* announced length and its fill failed, or its key has gone astray.
ServedIsWhole ==
    \A r \in Readers : reader[r].outcome = "served" /\ reader[r].key \notin astray =>
        \/ reader[r].pos = Size[reader[r].key]
        \/ reader[r].length = 0 /\ FillOf(r).failed

\* "a client streaming the row is not cut off by one reset": a body ends early
\* only when its fill has given up, or when its key has gone astray.
CutOffOnlyByFailure ==
    \A r \in Readers : reader[r].outcome = "short" /\ reader[r].key \notin astray =>
        reader[r].fill # None /\ FillOf(r).failed

\* Every request comes to its end and gives up its place, but for one whose player
\* has stopped reading and keeps the connection: no request waits for a fill that
\* is over.
RequestsEnd ==
    \A r \in Readers : ([]<>(reader[r].pc = "off")) \/ (<>[]AtWrite(r))

\* Every fill ends and lets the next one of its key start.
FillsEnd == \A k \in Keys : current[k] # None ~> current[k] = None
=============================================================================
