-------------------------- MODULE StreamCache_proofs --------------------------
(***************************************************************************)
(* The stream proxy for any keys, classes, bodies, budgets, numbers of     *)
(* fetches, request threads, fills and restarts.                           *)
(***************************************************************************)
EXTENDS StreamCache, FiniteSetTheorems, TLAPS

(* What every reachable state satisfies, whatever the constants.           *)

Entries == {Absent} \cup [class : Classes, complete : BOOLEAN, failed : BOOLEAN]

FillPcs == {"off", "path", "class", "fetch", "create", "read", "count", "publish",
            "giveUp", "fail", "end"}

Fills == [pc : FillPcs, key : Keys \cup {"none"},
          path : Classes \cup {"none"}, class : Classes \cup {"none"},
          attempt : 1 .. FillAttempts, written : Nat, filled : Nat,
          started : BOOLEAN, total : Nat, complete : BOOLEAN, failed : BOOLEAN]

ReaderPcs == {"off", "lookup", "refused", "check", "disk", "copy", "fill", "forward", "wait",
              "open", "head", "stream", "send", "peek", "trailer", "answer", "leave"}

\* Where a request follows a fill, and where it has still to write its answer.
Following == {"wait", "open", "head", "stream", "send", "peek", "trailer"}
Answering == {"answer", "leave"}

Requests == [pc : ReaderPcs, class : Classes \cup {"none"}, key : Keys \cup {"none"},
             seek : BOOLEAN, fill : 0 .. MaxFills, length : Nat, pos : Int,
             outcome : {"none", "served", "short", "gone", "error", "forwarded",
                        "unknown", "badGateway"}]

TypeOK ==
    /\ entry \in [Keys -> Entries]
    /\ upstream \in [Keys -> {"none", "fresh", "tried"}]
    /\ current \in [Keys -> 0 .. MaxFills]
    /\ active \in [Keys -> Nat]
    /\ file \in [Paths -> Nat \cup {Missing}]
    /\ saved.entry \in [Keys -> Entries]
    /\ DOMAIN saved = {"entry", "recency"}
    /\ fill \in [FillIds -> Fills]
    /\ reader \in [Readers -> Requests]
    /\ crashes \in Nat
    /\ gone \in SUBSET Keys /\ astray \in SUBSET Keys

\* A live fill is the fill of its key, and Inner.fills names live fills only.
Paired ==
    /\ \A k \in Keys : current[k] # None =>
         fill[current[k]].pc # "off" /\ fill[current[k]].key = k
    /\ \A f \in FillIds : Live(f) => fill[f].key \in Keys /\ current[fill[f].key] = f

\* What a fill thread has looked up by the time it is used.
LookedUp ==
    \A f \in FillIds :
        /\ fill[f].pc \notin {"off", "path"} => fill[f].path \in Classes
        /\ fill[f].pc \notin {"off", "path", "class"} => fill[f].class \in Classes

\* A request holds on to a fill of its key from the moment it waits for it.
Held ==
    \A r \in Readers :
        /\ reader[r].pc # "off" => <<reader[r].class, reader[r].key>> \in Rows
        /\ reader[r].fill # None => fill[reader[r].fill] # NoFill
                                    /\ fill[reader[r].fill].key = reader[r].key
        /\ reader[r].pc \in Following <=>
              reader[r].fill # None /\ reader[r].pc \notin Answering

\* The requests that use key k.
Using(k) == {r \in Readers : Serving(r) /\ reader[r].key = k}

\* Every user of a key is counted, and nobody else.
Counted ==
    \A k \in Keys :
        active[k] = Cardinality(Using(k)) + (IF current[k] = None THEN 0 ELSE 1)

Inv == TypeOK /\ Paired /\ LookedUp /\ Held /\ Counted

USE DEF Following, Answering

----------------------------------------------------------------------------
(* Types.                                                                  *)

\* The least unused place for a fill is an unused place.
LEMMA UnusedHasMin == Unused # {} => Min(Unused) \in Unused
<1> SUFFICES ASSUME Unused # {} PROVE Min(Unused) \in Unused
  OBVIOUS
<1> DEFINE R == OpToRel(<, Nat)
<1>1. Unused \subseteq Nat
  BY CacheConstants DEF Unused, FillIds
<1>2. PICK x \in Unused : \A y \in Unused : ~ (<<y, x>> \in R)
  <2> HIDE DEF R
  <2>1. IsWellFoundedOn(R, Nat)
    BY NatLessThanWellFounded DEF R
  <2> QED
    BY <1>1, <2>1, WFMin
<1>3. ASSUME NEW y \in Unused
      PROVE  x <= y
  <2>1. R = {ss \in Nat \X Nat : ss[1] < ss[2]}
    BY DEF OpToRel
  <2>2. ~ (<<y, x>> \in R)
    BY <1>2
  <2> HIDE DEF R
  <2>3. ~ (y < x)
    BY <1>1, <2>1, <2>2
  <2> QED
    BY <1>1, <2>3
<1> QED
  BY <1>3 DEF Min

LEMMA NoFillType == NoFill \in Fills /\ NoFill.pc = "off"
  BY CacheConstants DEF NoFill, Fills, FillPcs

LEMMA NoReaderType == NoReader \in Requests /\ NoReader.pc = "off" /\ NoReader.fill = None
  BY CacheConstants DEF NoReader, Requests, ReaderPcs, None

\* At first nothing is there.
LEMMA InitInv == Init => Inv
<1> SUFFICES ASSUME Init PROVE Inv
  OBVIOUS
<1> USE NoFillType, NoReaderType DEF Init
<1>1. TypeOK
  BY CacheConstants DEF TypeOK, Entries, Missing, None
<1>2. Paired /\ LookedUp /\ Held
  BY CacheConstants DEF Paired, LookedUp, Held, Live
<1>3. \A k \in Keys : Using(k) = {}
  BY DEF Using, Serving
<1>4. \A k \in Keys : active[k] = 0 /\ current[k] = None /\ Cardinality(Using(k)) = 0
  BY <1>3, FS_EmptySet
<1>5. Counted
  BY <1>4 DEF Counted
<1> QED
  BY <1>1, <1>2, <1>5 DEF Inv

----------------------------------------------------------------------------
(* What a step of one request or of one fill keeps.                        *)

\* The fill of a request is some fill, of its key.
LEMMA HeldFill ==
    ASSUME Inv, NEW r \in Readers, reader[r].fill # None
    PROVE  /\ reader[r].fill \in FillIds /\ fill[reader[r].fill] # NoFill
           /\ fill[reader[r].fill].key = reader[r].key
<1>1. reader[r].fill \in 0 .. MaxFills
  BY DEF Inv, TypeOK, Requests
<1>2. reader[r].fill \in FillIds
  BY <1>1, CacheConstants DEF FillIds, None
<1> QED
  BY <1>2 DEF Inv, Held

\* A request that was using its key and still is.
LEMMA RequestKeeps ==
    ASSUME Inv, NEW r \in Readers,
           reader' \in [Readers -> Requests],
           \A q \in Readers : q # r => reader'[q] = reader[q],
           reader'[r].key = reader[r].key, reader'[r].class = reader[r].class,
           reader[r].pc \notin {"off", "lookup", "refused"}, reader'[r].pc \notin {"off", "lookup", "refused"},
           reader'[r].fill # None => fill[reader'[r].fill] # NoFill
                                     /\ fill[reader'[r].fill].key = reader[r].key,
           reader'[r].pc \in Following <=>
              reader'[r].fill # None /\ reader'[r].pc \notin Answering,
           UNCHANGED <<inner, file, saved, fill, crashes>>
    PROVE  Inv'
<1> USE DEF inner
<1>1. TypeOK'
  BY DEF Inv, TypeOK
<1>2. Paired' /\ LookedUp'
  BY DEF Inv, Paired, LookedUp, Live
<1>3. Held'
  BY DEF Inv, Held
<1>4. \A k \in Keys : Using(k)' = Using(k)
  BY DEF Using, Serving
<1>5. Counted'
  BY <1>4 DEF Inv, Counted
<1> QED
  BY <1>1, <1>2, <1>3, <1>5 DEF Inv

\* A fill that was live and still is, for the same key.
LEMMA FillKeeps ==
    ASSUME Inv, NEW f \in FillIds, TypeOK',
           \A g \in FillIds : g # f => fill'[g] = fill[g],
           fill'[f].key = fill[f].key, fill[f].pc # "off", fill'[f].pc # "off",
           fill'[f].pc # "path" => fill'[f].path \in Classes,
           fill'[f].pc \notin {"path", "class"} => fill'[f].class \in Classes,
           UNCHANGED <<current, active, reader>>
    PROVE  Inv'
<1>1. Paired'
  <2>1. \A g \in FillIds : fill'[g].key = fill[g].key /\ (fill'[g].pc = "off" <=> fill[g].pc = "off")
    OBVIOUS
  <2>2. \A k \in Keys : current[k] # None => current[k] \in FillIds
    BY CacheConstants DEF Inv, TypeOK, FillIds, None
  <2> QED
    BY <2>1, <2>2 DEF Inv, Paired, Live
<1>2. LookedUp'
  BY DEF Inv, LookedUp
<1>3. Held'
  BY NoFillType DEF Inv, TypeOK, Held, FillIds, None, Requests
<1>4. \A k \in Keys : Using(k)' = Using(k)
  BY DEF Using, Serving
<1>5. Counted'
  BY <1>4 DEF Inv, Counted
<1> QED
  BY <1>1, <1>2, <1>3, <1>5 DEF Inv

\* A step that concerns neither requests nor fills.
LEMMA OthersKeep ==
    ASSUME Inv, TypeOK', UNCHANGED <<current, active, fill, reader>>
    PROVE  Inv'
<1>1. \A k \in Keys : Using(k)' = Using(k)
  BY DEF Using, Serving
<1> QED
  BY <1>1 DEF Inv, Paired, LookedUp, Held, Counted, Live

\* A request that begins to use its key, or ceases to, is one user more or less.
LEMMA Enters ==
    ASSUME NEW r \in Readers, ~ Serving(r), Serving(r)',
           \A q \in Readers : q # r => reader'[q] = reader[q]
    PROVE  \A k \in Keys : Cardinality(Using(k)') =
              IF k = reader'[r].key THEN Cardinality(Using(k)) + 1 ELSE Cardinality(Using(k))
<1> TAKE k \in Keys
<1>1. IsFiniteSet(Using(k))
  BY CacheConstants, FS_Subset DEF Using
<1>2. Using(k)' = IF k = reader'[r].key THEN Using(k) \cup {r} ELSE Using(k)
  BY DEF Using, Serving
<1>3. r \notin Using(k)
  BY DEF Using
<1> QED
  BY <1>1, <1>2, <1>3, FS_AddElement

LEMMA Ceases ==
    ASSUME NEW r \in Readers, Serving(r), ~ Serving(r)',
           \A q \in Readers : q # r => reader'[q] = reader[q]
    PROVE  \A k \in Keys : Cardinality(Using(k)') =
              IF k = reader[r].key THEN Cardinality(Using(k)) - 1 ELSE Cardinality(Using(k))
<1> TAKE k \in Keys
<1>1. IsFiniteSet(Using(k))
  BY CacheConstants, FS_Subset DEF Using
<1>2. Using(k)' = IF k = reader[r].key THEN Using(k) \ {r} ELSE Using(k)
  BY DEF Using, Serving
<1>3. k = reader[r].key => r \in Using(k)
  BY DEF Using
<1> QED
  BY <1>1, <1>2, <1>3, FS_RemoveElement

\* The users of a key are some number, at least one while a request uses it.
LEMMA UsersType ==
    ASSUME NEW k \in Keys
    PROVE  /\ Cardinality(Using(k)) \in Nat
           /\ \A r \in Readers : Serving(r) /\ reader[r].key = k => Cardinality(Using(k)) > 0
<1>1. IsFiniteSet(Using(k))
  BY CacheConstants, FS_Subset DEF Using
<1>2. Cardinality(Using(k)) \in Nat
  BY <1>1, FS_CardinalityType
<1>3. ASSUME NEW r \in Readers, Serving(r), reader[r].key = k
      PROVE  Using(k) # {}
  BY <1>3 DEF Using
<1> QED
  BY <1>1, <1>2, <1>3, FS_EmptySet

----------------------------------------------------------------------------
(* Registrations.                                                          *)

LEMMA RegistersType ==
    ASSUME TypeOK, NEW c \in Classes, NEW k \in Keys, Registers(c, k)
    PROVE  /\ entry' \in [Keys -> Entries]
           /\ saved'.entry \in [Keys -> Entries] /\ DOMAIN saved' = {"entry", "recency"}
           /\ gone' \in SUBSET Keys /\ astray' \in SUBSET Keys
<1>1. entry' \in [Keys -> Entries]
  <2>1. entry[k] \in Entries
    BY DEF TypeOK
  <2>2. entry[k] = Absent \/ entry[k] \in [class : Classes, complete : BOOLEAN, failed : BOOLEAN]
    BY <2>1 DEF Entries
  <2>3. Has(k) => [entry[k] EXCEPT !.failed = FALSE] \in Entries
    BY <2>2 DEF Has, Entries
  <2>4. [Absent EXCEPT !.class = c] \in Entries
    BY DEF Absent, Entries
  <2> QED
    BY <2>3, <2>4 DEF Registers, TypeOK
<1>2. /\ saved'.entry \in [Keys -> Entries] /\ DOMAIN saved' = {"entry", "recency"}
      /\ gone' \in SUBSET Keys
  <2>1. Save(entry', recency')
    BY DEF Registers
  <2>2. CASE crashes < MaxCrashes
    BY <1>1, <2>1, <2>2 DEF Save
  <2>3. CASE ~ (crashes < MaxCrashes)
    BY <2>1, <2>3 DEF Save, TypeOK
  <2> QED
    BY <2>2, <2>3
<1>3. astray' \in SUBSET Keys
  BY DEF Registers, Strays, TypeOK
<1> QED
  BY <1>1, <1>2, <1>3

\* A fill that starts is the fill of its key, is counted, and takes no place
\* that another fill or a request refers to.
LEMMA StartFillKeeps ==
    ASSUME Inv, NEW k \in Keys, current[k] = None, StartFill(k)
    PROVE  /\ upstream' \in [Keys -> {"none", "fresh", "tried"}]
           /\ current' \in [Keys -> 0 .. MaxFills]
           /\ active' \in [Keys -> Nat]
           /\ fill' \in [FillIds -> Fills]
           /\ Paired' /\ LookedUp'
           /\ current'[k] \in FillIds
           /\ fill'[current'[k]] # NoFill /\ fill'[current'[k]].key = k
           /\ \A f \in FillIds : fill[f] # NoFill => fill'[f] = fill[f]
           /\ \A j \in Keys : active'[j] - (IF current'[j] = None THEN 0 ELSE 1)
                              = active[j] - (IF current[j] = None THEN 0 ELSE 1)
<1> DEFINE f == Min(Unused)
           x == [NoFill EXCEPT !.pc = "path", !.key = k]
<1>1. f \in FillIds /\ fill[f] = NoFill
  BY UnusedHasMin DEF StartFill, Unused
<1>2. x \in Fills /\ x.pc = "path" /\ x.key = k
  BY NoFillType DEF Fills, FillPcs
<1>3. /\ current' = [current EXCEPT ![k] = f]
      /\ fill' = [fill EXCEPT ![f] = x]
      /\ active' = [active EXCEPT ![k] = @ + 1]
      /\ upstream' = [upstream EXCEPT ![k] = "tried"]
  BY DEF StartFill
<1>4. f \in 1 .. MaxFills /\ f # None /\ f \in 0 .. MaxFills
  BY <1>1, CacheConstants DEF FillIds, None
<1> HIDE DEF f, x
<1>5. /\ upstream' \in [Keys -> {"none", "fresh", "tried"}]
      /\ current' \in [Keys -> 0 .. MaxFills]
      /\ active' \in [Keys -> Nat]
      /\ fill' \in [FillIds -> Fills]
  BY <1>1, <1>2, <1>3, <1>4 DEF Inv, TypeOK
<1>6. /\ current'[k] = f /\ \A j \in Keys : j # k => current'[j] = current[j]
      /\ fill'[f] = x /\ \A g \in FillIds : g # f => fill'[g] = fill[g]
  BY <1>1, <1>3 DEF Inv, TypeOK
<1>7. Paired'
  <2>1. \A j \in Keys : current[j] # None => current[j] \in FillIds
    BY CacheConstants DEF Inv, TypeOK, FillIds, None
  <2>2. \A j \in Keys : current[j] # f
    BY <1>1, <1>4, NoFillType DEF Inv, Paired
  <2>3. ASSUME NEW j \in Keys, current'[j] # None
        PROVE  fill'[current'[j]].pc # "off" /\ fill'[current'[j]].key = j
    BY <1>2, <1>6, <2>1, <2>2, <2>3 DEF Inv, Paired
  <2>4. ASSUME NEW g \in FillIds, fill'[g].pc # "off"
        PROVE  fill'[g].key \in Keys /\ current'[fill'[g].key] = g
    <3>1. g # None
      BY CacheConstants DEF FillIds, None
    <3> QED
      BY <1>2, <1>6, <2>4, <3>1 DEF Inv, Paired, Live
  <2> QED
    BY <2>3, <2>4 DEF Paired, Live
<1>8. LookedUp'
  BY <1>2, <1>6 DEF Inv, LookedUp
<1>9. \A j \in Keys : active'[j] - (IF current'[j] = None THEN 0 ELSE 1)
                      = active[j] - (IF current[j] = None THEN 0 ELSE 1)
  BY <1>3, <1>4, <1>6 DEF Inv, TypeOK
<1>10. x # NoFill
  BY <1>2, NoFillType
<1> QED
  BY <1>1, <1>2, <1>5, <1>6, <1>7, <1>8, <1>9, <1>10

LEMMA RegisterKeeps ==
    ASSUME Inv, NEW c \in Classes, NEW k \in Keys, Register(c, k)
    PROVE  Inv'
<1>1. TypeOK'
  BY RegistersType DEF Register, Inv, TypeOK
<1> QED
  BY <1>1, OthersKeep DEF Register

LEMMA PreloadKeeps ==
    ASSUME Inv, NEW c \in Classes, NEW k \in Keys, Preload(c, k)
    PROVE  Inv'
<1>1. CASE current[k] # None \/ Complete(k)
  <2>1. TypeOK'
    BY <1>1, RegistersType DEF Preload, Inv, TypeOK
  <2> QED
    BY <1>1, <2>1, OthersKeep DEF Preload
<1>2. CASE ~ (current[k] # None \/ Complete(k))
  <2>1. StartFill(k) /\ current[k] = None /\ UNCHANGED <<file, reader, crashes>>
    BY <1>2 DEF Preload
  <2>2. TypeOK'
    BY <2>1, RegistersType, StartFillKeeps DEF Preload, Inv, TypeOK
  <2>3. Paired' /\ LookedUp'
    BY <2>1, StartFillKeeps
  <2>4. Held'
    <3>1. \A f \in FillIds : fill[f] # NoFill => fill'[f] = fill[f]
      BY <2>1, StartFillKeeps
    <3>2. \A r \in Readers : reader[r].fill # None => reader[r].fill \in FillIds
      BY CacheConstants DEF Inv, TypeOK, Requests, FillIds, None
    <3> QED
      BY <2>1, <3>1, <3>2 DEF Inv, Held
  <2>5. Counted'
    <3>1. \A j \in Keys : Using(j)' = Using(j)
      BY <2>1 DEF Using, Serving
    <3>2. \A j \in Keys : active'[j] - (IF current'[j] = None THEN 0 ELSE 1)
                          = active[j] - (IF current[j] = None THEN 0 ELSE 1)
      BY <2>1, StartFillKeeps
    <3> QED
      BY <2>2, <3>1, <3>2, UsersType DEF Inv, TypeOK, Counted
  <2> QED
    BY <2>2, <2>3, <2>4, <2>5 DEF Inv
<1> QED
  BY <1>1, <1>2

----------------------------------------------------------------------------
(* The steps of a fill.                                                    *)

\* The steps that change nothing but the fill and its file.
LEMMA FillWorks ==
    ASSUME Inv, NEW f \in FillIds,
           \/ FillPath(f) \/ FillClass(f) \/ FillHeaders(f) \/ FillCreate(f) \/ FillWrite(f)
           \/ FillCount(f) \/ FillFails(f) \/ FillPublish(f) \/ FillPublishFailure(f)
    PROVE  Inv'
<1> USE DEF FillAt
<1>1. fill[f] \in Fills /\ Live(f) /\ fill[f].key \in Keys /\ Size[fill[f].key] \in Nat
  <2>1. fill[f] \in Fills /\ Live(f)
    BY DEF Inv, TypeOK, Live, FillPath, FillClass, FillHeaders, FillCreate, FillWrite,
           FillCount, FillFails, FillPublish, FillPublishFailure
  <2> QED
    BY <2>1, CacheConstants DEF Inv, Paired
<1>2. ASSUME NEW x \in Fills, fill' = [fill EXCEPT ![f] = x], x.key = fill[f].key,
             x.pc # "off", x.pc # "path" => x.path \in Classes,
             x.pc \notin {"path", "class"} => x.class \in Classes,
             file' \in [Paths -> Nat \cup {Missing}],
             UNCHANGED <<inner, saved, reader, crashes>>
      PROVE  Inv'
  <2>1. TypeOK'
    BY <1>2 DEF Inv, TypeOK, inner
  <2>2. fill'[f] = x /\ \A g \in FillIds : g # f => fill'[g] = fill[g]
    BY <1>2 DEF Inv, TypeOK
  <2> QED
    BY <1>1, <1>2, <2>1, <2>2, FillKeeps DEF Live, inner
<1>3. /\ fill[f].pc # "path" => fill[f].path \in Classes
      /\ fill[f].pc \notin {"path", "class"} => fill[f].class \in Classes
  BY <1>1 DEF Inv, LookedUp, Live
<1>4. ClassOf(fill[f].key) \in Classes
  BY <1>1, CacheConstants DEF ClassOf, Has, Inv, TypeOK, Entries
<1>5. CASE FillPath(f)
  <2> DEFINE x == [fill[f] EXCEPT !.pc = "class", !.path = ClassOf(fill[f].key)]
  <2>1. x \in Fills /\ x.key = fill[f].key /\ x.pc = "class" /\ x.path \in Classes
    BY <1>1, <1>4 DEF Fills, FillPcs
  <2>2. fill' = [fill EXCEPT ![f] = x]
    BY <1>5 DEF FillPath
  <2> HIDE DEF x
  <2> QED
    BY <1>2, <1>5, <2>1, <2>2 DEF FillPath, Inv, TypeOK
<1>6. CASE FillClass(f)
  <2> DEFINE x == [fill[f] EXCEPT !.pc = "fetch", !.class = ClassOf(fill[f].key)]
  <2>1. x \in Fills /\ x.key = fill[f].key /\ x.pc = "fetch" /\ x.class \in Classes
        /\ x.path = fill[f].path
    BY <1>1, <1>4 DEF Fills, FillPcs
  <2>2. fill' = [fill EXCEPT ![f] = x]
    BY <1>6 DEF FillClass
  <2> HIDE DEF x
  <2> QED
    BY <1>2, <1>3, <1>6, <2>1, <2>2 DEF FillClass, Inv, TypeOK
<1>7. CASE FillHeaders(f)
  <2>1. PICK announced \in Announces :
          fill' = [fill EXCEPT ![f] = [@ EXCEPT !.pc = "create", !.started = TRUE,
                     !.total = IF announced THEN Size[fill[f].key] ELSE 0]]
    BY <1>7 DEF FillHeaders
  <2> DEFINE x == [fill[f] EXCEPT !.pc = "create", !.started = TRUE,
                     !.total = IF announced THEN Size[fill[f].key] ELSE 0]
  <2>2. x \in Fills /\ x.key = fill[f].key /\ x.pc = "create" /\ x.class = fill[f].class
        /\ x.path = fill[f].path
    BY <1>1 DEF Fills, FillPcs
  <2>3. fill' = [fill EXCEPT ![f] = x]
    BY <2>1
  <2> HIDE DEF x
  <2> QED
    BY <1>2, <1>3, <1>7, <2>2, <2>3 DEF FillHeaders, Inv, TypeOK
<1>8. CASE FillCreate(f)
  <2> DEFINE x == [fill[f] EXCEPT !.pc = "read", !.written = 0]
  <2>1. x \in Fills /\ x.key = fill[f].key /\ x.pc = "read" /\ x.class = fill[f].class
        /\ x.path = fill[f].path
    BY <1>1 DEF Fills, FillPcs
  <2>2. fill' = [fill EXCEPT ![f] = x]
    BY <1>8 DEF FillCreate
  <2> HIDE DEF x
  <2> QED
    BY <1>2, <1>3, <1>8, <2>1, <2>2 DEF FillCreate, Inv, TypeOK
<1>9. CASE FillWrite(f)
  <2> DEFINE n == fill[f].written + 1
             x == [fill[f] EXCEPT !.pc = "count", !.written = n]
  <2>3. fill[f].written \in Nat
    BY <1>1 DEF Fills
  <2>4. n \in Nat
    BY <2>3
  <2>5. fill' = [fill EXCEPT ![f] = x] /\ file' = [file EXCEPT ![<<fill[f].path, fill[f].key>>] = n]
    BY <1>9 DEF FillWrite
  <2> HIDE DEF n
  <2>1. x \in Fills /\ x.key = fill[f].key /\ x.pc = "count" /\ x.class = fill[f].class
        /\ x.path = fill[f].path
    BY <1>1, <2>4 DEF Fills, FillPcs
  <2> HIDE DEF x
  <2> QED
    <3>1. file' \in [Paths -> Nat \cup {Missing}]
      BY <2>4, <2>5 DEF Inv, TypeOK
    <3>2. UNCHANGED <<inner, saved, reader, crashes>> /\ fill[f].pc = "read"
      BY <1>9 DEF FillWrite
    <3> QED
      BY <1>2, <1>3, <1>9, <2>1, <2>5, <3>1, <3>2 DEF FillWrite, Inv, TypeOK
<1>10. CASE FillCount(f)
  <2> DEFINE x == [fill[f] EXCEPT !.pc = "read", !.filled = fill[f].written]
  <2>1. x \in Fills /\ x.key = fill[f].key /\ x.pc = "read" /\ x.class = fill[f].class
        /\ x.path = fill[f].path
    BY <1>1 DEF Fills, FillPcs
  <2>2. fill' = [fill EXCEPT ![f] = x]
    BY <1>10 DEF FillCount
  <2> HIDE DEF x
  <2> QED
    BY <1>2, <1>3, <1>10, <2>1, <2>2 DEF FillCount, Inv, TypeOK
<1>11. CASE FillFails(f)
  <2> DEFINE n == IF fill[f].attempt < FillAttempts THEN fill[f].attempt + 1 ELSE fill[f].attempt
             pc == IF fill[f].attempt < FillAttempts THEN "fetch" ELSE "giveUp"
             x == [fill[f] EXCEPT !.filled = 0, !.attempt = n, !.pc = pc]
  <2>3. fill[f].attempt \in 1 .. FillAttempts
    BY <1>1 DEF Fills
  <2>4. n \in 1 .. FillAttempts /\ pc \in {"fetch", "giveUp"}
    BY <2>3, CacheConstants
  <2>2. fill' = [fill EXCEPT ![f] = x] /\ fill[f].pc \in {"fetch", "read"}
    BY <1>11 DEF FillFails
  <2> HIDE DEF n, pc
  <2>1. x \in Fills /\ x.key = fill[f].key /\ x.pc \in {"fetch", "giveUp"}
        /\ x.class = fill[f].class /\ x.path = fill[f].path
    BY <1>1, <2>4 DEF Fills, FillPcs
  <2> HIDE DEF x
  <2> QED
    BY <1>2, <1>3, <1>11, <2>1, <2>2 DEF FillFails, Inv, TypeOK
<1>12. CASE FillPublish(f)
  <2> DEFINE x == [fill[f] EXCEPT !.pc = "end", !.complete = TRUE, !.total = Size[fill[f].key]]
  <2>1. x \in Fills /\ x.key = fill[f].key /\ x.pc = "end" /\ x.class = fill[f].class
        /\ x.path = fill[f].path
    BY <1>1 DEF Fills, FillPcs
  <2>2. fill' = [fill EXCEPT ![f] = x]
    BY <1>12 DEF FillPublish
  <2> HIDE DEF x
  <2> QED
    BY <1>2, <1>3, <1>12, <2>1, <2>2 DEF FillPublish, Inv, TypeOK
<1>13. CASE FillPublishFailure(f)
  <2> DEFINE x == [fill[f] EXCEPT !.pc = "end", !.started = TRUE, !.failed = TRUE]
  <2>1. x \in Fills /\ x.key = fill[f].key /\ x.pc = "end" /\ x.class = fill[f].class
        /\ x.path = fill[f].path
    BY <1>1 DEF Fills, FillPcs
  <2>2. fill' = [fill EXCEPT ![f] = x]
    BY <1>13 DEF FillPublishFailure
  <2> HIDE DEF x
  <2> QED
    BY <1>2, <1>3, <1>13, <2>1, <2>2 DEF FillPublishFailure, Inv, TypeOK
<1> QED
  BY <1>5, <1>6, <1>7, <1>8, <1>9, <1>10, <1>11, <1>12, <1>13

\* The entry a fill leaves when its body has ended.
Ended(f) == [entry EXCEPT ![fill[f].key] =
               [class |-> IF Has(fill[f].key) THEN @.class ELSE fill[f].class,
                complete |-> TRUE, failed |-> FALSE]]

\* The entries that go then.
Gone(f) == Evicted(Ended(f), Used(fill[f].key), fill[f].class)

\* Only an entry without users goes.
LEMMA GoneIsIdle ==
    ASSUME NEW f \in FillIds, NEW k \in Keys, k \in Gone(f)
    PROVE  current[k] = None /\ active[k] = 0
  BY DEF Gone, Evicted

LEMMA GoneIsKeys == \A f \in FillIds : Gone(f) \subseteq Keys
  BY DEF Gone, Evicted

LEMMA EndedType ==
    ASSUME Inv, NEW f \in FillIds, FillAt(f, "read")
    PROVE  /\ fill[f].key \in Keys /\ Ended(f) \in [Keys -> Entries]
           /\ Ended(f)[fill[f].key] # Absent /\ Ended(f)[fill[f].key].complete
           /\ Ended(f)[fill[f].key].class =
                IF Has(fill[f].key) THEN entry[fill[f].key].class ELSE fill[f].class
           /\ \A k \in Keys : k # fill[f].key => Ended(f)[k] = entry[k]
           /\ fill[f].key \notin Gone(f)
<1> DEFINE k == fill[f].key
           x == [class |-> IF Has(k) THEN entry[k].class ELSE fill[f].class,
                 complete |-> TRUE, failed |-> FALSE]
<1>1. k \in Keys /\ current[k] = f /\ fill[f].class \in Classes
  BY DEF FillAt, Inv, Paired, LookedUp, Live
<1>2. /\ x.complete /\ x.class = IF Has(k) THEN entry[k].class ELSE fill[f].class
      /\ ~ Absent.complete
  BY DEF Absent
<1>3. x # Absent
  BY <1>2
<1>4. x \in Entries
  <2>1. Has(k) => entry[k].class \in Classes
    BY <1>1 DEF Inv, TypeOK, Entries, Has
  <2> QED
    BY <1>1, <2>1 DEF Entries
<1>5. Ended(f) = [entry EXCEPT ![k] = x]
  BY DEF Ended
<1>6. k \notin Gone(f)
  BY <1>1, GoneIsIdle, CacheConstants DEF FillIds, None
<1> HIDE DEF k, x
<1> QED
  <2>1. /\ Ended(f) \in [Keys -> Entries]
        /\ Ended(f)[k] = x /\ \A j \in Keys : j # k => Ended(f)[j] = entry[j]
    BY <1>1, <1>4, <1>5 DEF Inv, TypeOK
  <2> QED
    BY <1>1, <1>6, <1>2, <1>3, <2>1 DEF k

LEMMA IndexSteps ==
    ASSUME NEW f \in FillIds, FillIndex(f)
    PROVE  /\ FillAt(f, "read") /\ fill[f].written = Size[fill[f].key]
           /\ entry' = [j \in Keys |-> IF j \in Gone(f) THEN Absent ELSE Ended(f)[j]]
           /\ file' = [p \in Paths |-> IF p[2] \in Gone(f) /\ p[1] = Ended(f)[p[2]].class
                                       THEN Missing ELSE file[p]]
           /\ fill' = [fill EXCEPT ![f].pc = "publish"]
           /\ gone' = IF crashes < MaxCrashes THEN gone \cup Gone(f) ELSE gone
           /\ UNCHANGED <<upstream, current, active, saved, reader, crashes, astray>>
  BY DEF FillIndex, Gone, Ended

LEMMA FillIndexKeeps ==
    ASSUME Inv, NEW f \in FillIds, FillIndex(f)
    PROVE  Inv'
<1> DEFINE x == [fill[f] EXCEPT !.pc = "publish"]
<1>1. fill[f] \in Fills /\ fill[f].pc = "read" /\ fill[f].path \in Classes /\ fill[f].class \in Classes
  BY IndexSteps DEF FillAt, Inv, TypeOK, LookedUp
<1>2. x \in Fills /\ x.key = fill[f].key /\ x.pc = "publish" /\ x.class = fill[f].class
      /\ x.path = fill[f].path
  BY <1>1 DEF Fills, FillPcs
<1>3. fill' = [fill EXCEPT ![f] = x]
  BY IndexSteps
<1> HIDE DEF x
<1>4. /\ fill' \in [FillIds -> Fills] /\ fill'[f] = x
      /\ \A g \in FillIds : g # f => fill'[g] = fill[g]
  BY <1>2, <1>3 DEF Inv, TypeOK
<1>5. entry' \in [Keys -> Entries]
  <2>1. Ended(f) \in [Keys -> Entries] /\ Absent \in Entries
    BY IndexSteps, EndedType DEF Entries
  <2> QED
    BY <2>1, IndexSteps
<1>6. file' \in [Paths -> Nat \cup {Missing}]
  BY IndexSteps DEF Inv, TypeOK
<1>7. TypeOK'
  BY <1>4, <1>5, <1>6, IndexSteps, GoneIsKeys DEF Inv, TypeOK
<1> QED
  BY <1>1, <1>2, <1>4, <1>7, IndexSteps, FillKeeps

LEMMA FillGivesUpKeeps ==
    ASSUME Inv, NEW f \in FillIds, FillGivesUp(f)
    PROVE  Inv'
<1> DEFINE x == [fill[f] EXCEPT !.pc = "fail"]
           k == fill[f].key
<1>1. fill[f] \in Fills /\ fill[f].pc = "giveUp" /\ fill[f].path \in Classes
      /\ fill[f].class \in Classes /\ k \in Keys
  BY DEF FillGivesUp, FillAt, Inv, TypeOK, LookedUp, Paired, Live
<1>2. x \in Fills /\ x.key = fill[f].key /\ x.pc = "fail" /\ x.class = fill[f].class
      /\ x.path = fill[f].path
  BY <1>1 DEF Fills, FillPcs
<1>3. fill' = [fill EXCEPT ![f] = x]
  BY DEF FillGivesUp
<1>4. entry' \in [Keys -> Entries]
  <2>1. entry[k] \in Entries
    BY <1>1 DEF Inv, TypeOK
  <2>2. (IF entry[k] = Absent THEN entry[k] ELSE [entry[k] EXCEPT !.failed = TRUE]) \in Entries
    BY <2>1 DEF Entries
  <2> QED
    BY <1>1, <2>2 DEF FillGivesUp, Inv, TypeOK
<1> HIDE DEF x, k
<1>5. /\ fill' \in [FillIds -> Fills] /\ fill'[f] = x
      /\ \A g \in FillIds : g # f => fill'[g] = fill[g]
  BY <1>2, <1>3 DEF Inv, TypeOK
<1>6. TypeOK'
  BY <1>4, <1>5 DEF FillGivesUp, Inv, TypeOK
<1> QED
  BY <1>1, <1>2, <1>5, <1>6, FillKeeps DEF FillGivesUp

\* The last step of a fill: it is no longer the fill of its key, and one user less.
LEMMA FillLeavesKeeps ==
    ASSUME Inv, NEW f \in FillIds, FillLeaves(f)
    PROVE  Inv'
<1> DEFINE k == fill[f].key
           x == IF \E r \in Readers : reader[r].fill = f THEN Result(f) ELSE NoFill
<1>1. fill[f] \in Fills /\ Live(f) /\ k \in Keys /\ current[k] = f /\ f # None
  BY CacheConstants DEF FillLeaves, FillAt, Inv, TypeOK, Paired, Live, FillIds, None
<1>2. /\ x \in Fills /\ x.pc = "off"
      /\ (\E r \in Readers : reader[r].fill = f) => x # NoFill /\ x.key = k
  <2>1. Result(f) \in Fills /\ Result(f).pc = "off"
    BY <1>1, NoFillType DEF Result, Fills, FillPcs
  <2>2. Result(f).started # NoFill.started /\ Result(f).key = k
    BY DEF Result, NoFill
  <2> QED
    BY <2>1, <2>2, NoFillType
<1>3. /\ current' = [current EXCEPT ![k] = None]
      /\ active' = [active EXCEPT ![k] = IF @ = 0 THEN 0 ELSE @ - 1]
      /\ fill' = [fill EXCEPT ![f] = x]
      /\ \/ saved' = [entry |-> entry, recency |-> recency] /\ gone' = {}
         \/ UNCHANGED <<saved, gone>>
      /\ UNCHANGED <<entry, recency, upstream, file, reader, crashes, astray>>
  BY DEF FillLeaves, Decremented, Save
<1> HIDE DEF x, k
<1>4. /\ current'[k] = None /\ \A j \in Keys : j # k => current'[j] = current[j]
      /\ fill'[f] = x /\ \A g \in FillIds : g # f => fill'[g] = fill[g]
  BY <1>1, <1>3 DEF Inv, TypeOK
<1>5. active' \in [Keys -> Nat] /\ current' \in [Keys -> 0 .. MaxFills]
  BY <1>1, <1>3, CacheConstants DEF Inv, TypeOK, None
<1>6. TypeOK'
  BY <1>2, <1>3, <1>5 DEF Inv, TypeOK
<1>7. Paired'
  <2>1. \A j \in Keys : current[j] # None => current[j] \in FillIds
    BY CacheConstants DEF Inv, TypeOK, FillIds, None
  <2>2. \A j \in Keys : j # k => current[j] # f
    BY <1>1 DEF Inv, Paired, k
  <2>3. ASSUME NEW j \in Keys, current'[j] # None
        PROVE  fill'[current'[j]].pc # "off" /\ fill'[current'[j]].key = j
    BY <1>4, <2>1, <2>2, <2>3 DEF Inv, Paired
  <2>4. ASSUME NEW g \in FillIds, fill'[g].pc # "off"
        PROVE  fill'[g].key \in Keys /\ current'[fill'[g].key] = g
    BY <1>1, <1>2, <1>4, <2>4 DEF Inv, Paired, Live
  <2> QED
    BY <2>3, <2>4 DEF Paired, Live
<1>8. LookedUp'
  BY <1>2, <1>4 DEF Inv, LookedUp
<1>9. Held'
  <2>1. \A r \in Readers : reader[r].fill # None => reader[r].fill \in FillIds
    BY CacheConstants DEF Inv, TypeOK, Requests, FillIds, None
  <2> QED
    BY <1>2, <1>3, <1>4, <2>1 DEF Inv, Held, k
<1>10. Counted'
  <2>1. \A j \in Keys : Using(j)' = Using(j)
    BY <1>3 DEF Using, Serving
  <2>2. active[k] > 0
    BY <1>1, UsersType DEF Inv, Counted
  <2>3. active'[k] = active[k] - 1 /\ \A j \in Keys : j # k => active'[j] = active[j]
    BY <1>1, <1>3, <2>2 DEF Inv, TypeOK
  <2> QED
    BY <1>1, <1>4, <2>1, <2>3, UsersType DEF Inv, Counted
<1> QED
  BY <1>6, <1>7, <1>8, <1>9, <1>10 DEF Inv

LEMMA FillThreadKeeps ==
    ASSUME Inv, NEW f \in FillIds, FillThread(f)
    PROVE  Inv'
  BY FillWorks, FillIndexKeeps, FillGivesUpKeeps, FillLeavesKeeps DEF FillThread

----------------------------------------------------------------------------
(* The steps of a request.                                                 *)

\* A request that comes does not use its key before it is looked up.
LEMMA RequestArrives ==
    ASSUME Inv, NEW r \in Readers, NEW c \in Classes, NEW k \in Keys,
           Request(r, c, k) \/ LookupUnknown(r) \/ Refuse(r)
    PROVE  Inv'
<1> USE DEF ReaderAt
<1>1. PICK x \in Requests :
        /\ reader' = [reader EXCEPT ![r] = x] /\ reader[r].pc \in {"off", "lookup", "refused"}
        /\ x.pc \in {"off", "lookup", "refused"} /\ x.fill = None
        /\ x.pc # "off" => <<x.class, x.key>> \in Rows
  <2>1. CASE Request(r, c, k)
    <3>1. PICK seek \in BOOLEAN :
            reader' = [reader EXCEPT ![r] = [NoReader EXCEPT !.pc = "lookup", !.class = c,
                                                             !.key = k, !.seek = seek]]
      BY <2>1 DEF Request
    <3> DEFINE x == [NoReader EXCEPT !.pc = "lookup", !.class = c, !.key = k, !.seek = seek]
    <3>2. x \in Requests /\ x.pc = "lookup" /\ x.fill = None /\ x.class = c /\ x.key = k
      BY NoReaderType DEF Requests, ReaderPcs
    <3> HIDE DEF x
    <3> QED
      BY <2>1, <3>1, <3>2 DEF Request, x
  <2>2. CASE LookupUnknown(r)
    <3> DEFINE x == [reader[r] EXCEPT !.pc = "refused"]
    <3>1. reader[r] \in Requests /\ reader[r].pc = "lookup" /\ reader[r].fill = None
          /\ <<reader[r].class, reader[r].key>> \in Rows
      BY <2>2 DEF LookupUnknown, Inv, TypeOK, Held
    <3>2. x \in Requests /\ x.pc = "refused" /\ x.fill = None /\ x.class = reader[r].class
          /\ x.key = reader[r].key
      BY <3>1 DEF Requests, ReaderPcs
    <3>3. reader' = [reader EXCEPT ![r] = x]
      BY <2>2 DEF LookupUnknown, Goes
    <3> HIDE DEF x
    <3> QED
      BY <3>1, <3>2, <3>3
  <2>3. CASE Refuse(r)
    BY <2>3, NoReaderType DEF Refuse
  <2> QED
    BY <2>1, <2>2, <2>3
<1>2. UNCHANGED <<inner, file, saved, fill, crashes>>
  BY DEF Request, LookupUnknown, Refuse
<1>3. reader'[r] = x /\ \A q \in Readers : q # r => reader'[q] = reader[q]
  BY <1>1 DEF Inv, TypeOK
<1>4. TypeOK'
  BY <1>1, <1>2 DEF Inv, TypeOK, inner
<1>5. Paired' /\ LookedUp'
  BY <1>2 DEF Inv, Paired, LookedUp, Live, inner
<1>6. Held'
  BY <1>1, <1>2, <1>3 DEF Inv, Held
<1>7. \A j \in Keys : Using(j)' = Using(j)
  BY <1>1, <1>3 DEF Using, Serving
<1>8. Counted'
  BY <1>2, <1>7 DEF Inv, Counted, inner
<1> QED
  BY <1>4, <1>5, <1>6, <1>8 DEF Inv

\* From then on it is one user of its key.
LEMMA LookupKnownKeeps ==
    ASSUME Inv, NEW r \in Readers, LookupKnown(r)
    PROVE  Inv'
<1> DEFINE x == [reader[r] EXCEPT !.pc = "check"]
           k == reader[r].key
<1>1. reader[r] \in Requests /\ reader[r].pc = "lookup" /\ <<reader[r].class, k>> \in Rows
      /\ reader[r].fill = None
  BY DEF LookupKnown, ReaderAt, Inv, TypeOK, Held
<1>2. k \in Keys
  BY <1>1, CacheConstants
<1>3. x \in Requests /\ x.pc = "check" /\ x.key = k /\ x.class = reader[r].class /\ x.fill = None
  BY <1>1 DEF Requests, ReaderPcs
<1>4. /\ reader' = [reader EXCEPT ![r] = x] /\ active' = [active EXCEPT ![k] = @ + 1]
      /\ Strays(reader[r].class, k)
      /\ UNCHANGED <<entry, recency, upstream, current, file, saved, fill, crashes, gone>>
  BY DEF LookupKnown, Goes
<1> HIDE DEF x, k
<1>5. reader'[r] = x /\ \A q \in Readers : q # r => reader'[q] = reader[q]
  BY <1>3, <1>4 DEF Inv, TypeOK
<1>6. TypeOK'
  BY <1>2, <1>3, <1>4 DEF Inv, TypeOK, Strays
<1>7. Paired' /\ LookedUp'
  BY <1>4 DEF Inv, Paired, LookedUp, Live
<1>8. Held'
  BY <1>1, <1>3, <1>4, <1>5 DEF Inv, Held
<1>9. Counted'
  <2>1. \A j \in Keys : Cardinality(Using(j)') =
           IF j = k THEN Cardinality(Using(j)) + 1 ELSE Cardinality(Using(j))
    BY <1>1, <1>3, <1>5, Enters DEF Serving
  <2> QED
    BY <1>2, <1>4, <2>1, UsersType DEF Inv, TypeOK, Counted
<1> QED
  BY <1>6, <1>7, <1>8, <1>9 DEF Inv

\* While it is served it stays one, and holds on to the fill it waits for.
LEMMA ServingKeeps ==
    ASSUME Inv, NEW r \in Readers,
           \/ Check(r) \/ DiskOpen(r) \/ DiskMissing(r) \/ DiskCopy(r) \/ Forward(r)
           \/ ForwardRange(r) \/ JoinFill(r) \/ FillIsOver(r) \/ Headers(r)
           \/ HeadersTimeout(r) \/ Open(r) \/ OpenTimeout(r) \/ SendHead(r) \/ Stream(r)
           \/ Send(r) \/ StreamDry(r) \/ Peek(r) \/ Trailer(r) \/ Answer(r)
           \/ PlayerLeaves(r)
    PROVE  Inv'
<1> USE DEF ReaderAt
<1>1. reader[r] \in Requests /\ reader[r].pc \notin {"off", "lookup", "refused"}
  BY DEF Inv, TypeOK, Check, DiskOpen, DiskMissing, DiskCopy, Forward, ForwardRange, JoinFill,
         FillIsOver, Headers, HeadersTimeout, Open, OpenTimeout, SendHead, Stream, Send,
         StreamDry, Peek, Trailer, Answer, PlayerLeaves, AtWrite
<1>2. <<reader[r].class, reader[r].key>> \in Rows
  BY <1>1 DEF Inv, Held
<1>3. reader[r].key \in Keys /\ PathOf(r) \in Paths
  BY <1>2, CacheConstants DEF PathOf, Paths
<1>4. ASSUME NEW x \in Requests, reader' = [reader EXCEPT ![r] = x],
             x.key = reader[r].key, x.class = reader[r].class,
             x.pc \notin {"off", "lookup", "refused"},
             x.fill # None => fill[x.fill] # NoFill /\ fill[x.fill].key = reader[r].key,
             x.pc \in Following <=> x.fill # None /\ x.pc \notin Answering,
             UNCHANGED <<inner, file, saved, fill, crashes>>
      PROVE  Inv'
  <2>1. /\ reader' \in [Readers -> Requests] /\ reader'[r] = x
        /\ \A q \in Readers : q # r => reader'[q] = reader[q]
    BY <1>4 DEF Inv, TypeOK
  <2> QED
    BY <1>1, <1>4, <2>1, RequestKeeps
\* All but one leave it in the same fill.
<1>5. ASSUME NEW x \in Requests, reader' = [reader EXCEPT ![r] = x],
             x.key = reader[r].key, x.class = reader[r].class, x.fill = reader[r].fill,
             \/ x.pc \in Answering
             \/ x.pc \in Following /\ reader[r].pc \in Following
             \/ x.pc \in {"disk", "copy", "fill", "forward"} /\ reader[r].pc \in {"check", "disk", "fill"},
             UNCHANGED <<inner, file, saved, fill, crashes>>
      PROVE  Inv'
  <2>1. reader[r].fill # None => fill[reader[r].fill] # NoFill /\ fill[reader[r].fill].key = reader[r].key
    BY DEF Inv, Held
  <2>2. reader[r].pc \in Following <=>
           reader[r].fill # None /\ reader[r].pc \notin Answering
    BY DEF Inv, Held
  <2> QED
    BY <1>4, <1>5, <2>1, <2>2
<1> DEFINE To(pc) == [reader[r] EXCEPT !.pc = pc]
           End(pc, outcome) == [reader[r] EXCEPT !.pc = pc, !.outcome = outcome]
<1>6. \A pc \in ReaderPcs : /\ To(pc) \in Requests /\ To(pc).pc = pc /\ To(pc).key = reader[r].key
                            /\ To(pc).class = reader[r].class /\ To(pc).fill = reader[r].fill
  BY <1>1 DEF Requests
<1>7. \A pc \in Answering,
         o \in {"served", "short", "gone", "error", "forwarded", "unknown", "badGateway"} :
         /\ End(pc, o) \in Requests /\ End(pc, o).pc = pc /\ End(pc, o).key = reader[r].key
         /\ End(pc, o).class = reader[r].class /\ End(pc, o).fill = reader[r].fill
  <2>1. Answering \subseteq ReaderPcs
    BY DEF ReaderPcs
  <2> SUFFICES ASSUME NEW pc \in ReaderPcs,
                      NEW o \in {"served", "short", "gone", "error", "forwarded", "unknown", "badGateway"}
               PROVE  /\ End(pc, o) \in Requests /\ End(pc, o).pc = pc /\ End(pc, o).key = reader[r].key
                      /\ End(pc, o).class = reader[r].class /\ End(pc, o).fill = reader[r].fill
    BY <2>1
  <2> HIDE DEF ReaderPcs
  <2> QED
    BY <1>1 DEF Requests
<1>8. ASSUME NEW o \in {"served", "short", "gone", "error", "forwarded", "unknown", "badGateway"},
             Answered(r, o) \/ Replies(r, o), UNCHANGED <<inner, file, saved, fill, crashes>>
      PROVE  Inv'
  <2>1. PICK pc \in Answering : reader' = [reader EXCEPT ![r] = End(pc, o)]
    BY <1>8 DEF Answered, Replies
  <2> HIDE DEF End
  <2> QED
    BY <1>5, <1>7, <1>8, <2>1
<1>9. ASSUME NEW pc \in ReaderPcs, Goes(r, pc), UNCHANGED <<inner, file, saved, fill, crashes>>,
             \/ pc = "leave"
             \/ pc \in Following /\ reader[r].pc \in Following
             \/ pc \in {"disk", "copy", "fill", "forward"} /\ reader[r].pc \in {"check", "disk", "fill"}
      PROVE  Inv'
  <2>1. reader' = [reader EXCEPT ![r] = To(pc)]
    BY <1>9 DEF Goes
  <2> HIDE DEF To
  <2> QED
    BY <1>5, <1>6, <1>9, <2>1
<1>10. CASE Check(r)
  BY <1>9, <1>10 DEF Check, ReaderPcs
<1>11. CASE DiskOpen(r)
  <2> DEFINE x == [reader[r] EXCEPT !.pc = "copy", !.length = file[PathOf(r)]]
  <2>1. file[PathOf(r)] \in Nat
    BY <1>3, <1>11 DEF DiskOpen, Inv, TypeOK, Missing
  <2>2. x \in Requests /\ x.pc = "copy" /\ x.key = reader[r].key /\ x.class = reader[r].class
        /\ x.fill = reader[r].fill
    BY <1>1, <2>1 DEF Requests, ReaderPcs
  <2>3. reader' = [reader EXCEPT ![r] = x]
    BY <1>11 DEF DiskOpen
  <2> HIDE DEF x
  <2> QED
    BY <1>5, <1>11, <2>2, <2>3 DEF DiskOpen
<1>12. CASE DiskCopy(r)
  <2> DEFINE o == IF file[PathOf(r)] >= reader[r].length THEN "served" ELSE "short"
             x == [reader[r] EXCEPT !.pc = "leave", !.pos = file[PathOf(r)], !.outcome = o]
  <2>1. file[PathOf(r)] \in Int
    BY <1>3 DEF Inv, TypeOK, Missing
  <2>2. x \in Requests /\ x.pc = "leave" /\ x.key = reader[r].key /\ x.class = reader[r].class
        /\ x.fill = reader[r].fill
    BY <1>1, <2>1 DEF Requests, ReaderPcs
  <2>3. reader' = [reader EXCEPT ![r] = x]
    BY <1>12 DEF DiskCopy
  <2> HIDE DEF x
  <2> QED
    BY <1>5, <1>12, <2>2, <2>3 DEF DiskCopy
<1>13. CASE Forward(r)
  BY <1>8, <1>9, <1>13 DEF Forward, ReaderPcs
<1>14. CASE JoinFill(r)
  <2> DEFINE g == current[reader[r].key]
             x == [reader[r] EXCEPT !.pc = "wait", !.fill = g]
  <2>1. g \in 0 .. MaxFills /\ g # None /\ fill[g] # NoFill /\ fill[g].key = reader[r].key
    BY <1>3, <1>14, NoFillType DEF JoinFill, Inv, TypeOK, Paired
  <2>2. reader' = [reader EXCEPT ![r] = x]
    BY <1>14 DEF JoinFill
  <2> HIDE DEF g
  <2>3. x \in Requests /\ x.pc = "wait" /\ x.key = reader[r].key /\ x.class = reader[r].class
        /\ x.fill = g
    BY <1>1, <2>1 DEF Requests, ReaderPcs
  <2> HIDE DEF x
  <2> QED
    BY <1>4, <1>14, <2>1, <2>2, <2>3 DEF JoinFill
<1>15. CASE FillIsOver(r)
  BY <1>9, <1>15 DEF FillIsOver, ReaderPcs
<1>16. CASE Headers(r)
  <2>1. CASE FillOf(r).failed
    BY <1>8, <1>16, <2>1 DEF Headers
  <2>2. CASE ~ FillOf(r).failed
    <3> DEFINE x == [reader[r] EXCEPT !.pc = "open", !.length = FillOf(r).total]
    <3>5. reader[r].fill \in 0 .. MaxFills
      BY <1>1 DEF Requests
    <3>6. reader[r].fill # None
      BY <1>16 DEF Headers, Inv, Held
    <3>1. reader[r].fill \in FillIds
      BY <3>5, <3>6, CacheConstants DEF FillIds, None
    <3>2. FillOf(r).total \in Nat
      BY <3>1 DEF FillOf, Inv, TypeOK, Fills
    <3>3. x \in Requests /\ x.pc = "open" /\ x.key = reader[r].key /\ x.class = reader[r].class
          /\ x.fill = reader[r].fill
      BY <1>1, <3>2 DEF Requests, ReaderPcs
    <3>4. reader' = [reader EXCEPT ![r] = x]
      BY <1>16, <2>2 DEF Headers
    <3> HIDE DEF x
    <3> QED
      BY <1>5, <1>16, <3>3, <3>4 DEF Headers
  <2> QED
    BY <2>1, <2>2
<1>17. CASE HeadersTimeout(r)
  <2> DEFINE x == [reader[r] EXCEPT !.pc = "open", !.length = 0]
  <2>1. x \in Requests /\ x.pc = "open" /\ x.key = reader[r].key /\ x.class = reader[r].class
        /\ x.fill = reader[r].fill
    BY <1>1 DEF Requests, ReaderPcs
  <2>2. reader' = [reader EXCEPT ![r] = x]
    BY <1>17 DEF HeadersTimeout
  <2> HIDE DEF x
  <2> QED
    BY <1>5, <1>17, <2>1, <2>2 DEF HeadersTimeout
<1>18. CASE Open(r)
  BY <1>9, <1>18 DEF Open, ReaderPcs
<1>19. CASE OpenTimeout(r)
  BY <1>8, <1>19 DEF OpenTimeout
<1>20. CASE Send(r)
  <2> DEFINE last == reader[r].pos + 1 = reader[r].length
             n == reader[r].pos + 1
             pc == IF last THEN "leave" ELSE "stream"
             o == IF last THEN "served" ELSE reader[r].outcome
             x == [reader[r] EXCEPT !.pos = n, !.pc = pc, !.outcome = o]
  <2>1. reader[r].pos \in Int
    BY <1>1 DEF Requests
  <2>2. n \in Int /\ pc \in {"leave", "stream"} /\ o \in {"served", reader[r].outcome}
    BY <2>1
  <2>3. reader' = [reader EXCEPT ![r] = x]
    BY <1>20 DEF Send
  <2> HIDE DEF n, pc, o, last
  <2>4. x \in Requests /\ x.pc = pc /\ x.key = reader[r].key /\ x.class = reader[r].class
        /\ x.fill = reader[r].fill
    BY <1>1, <2>2 DEF Requests, ReaderPcs
  <2> HIDE DEF x
  <2> QED
    BY <1>5, <1>20, <2>2, <2>3, <2>4 DEF Send
<1>21. CASE StreamDry(r)
  BY <1>9, <1>21 DEF StreamDry, ReaderPcs
<1>22. CASE Peek(r)
  BY <1>8, <1>9, <1>22 DEF Peek, Over, ReaderPcs
<1>23. CASE PlayerLeaves(r)
  BY <1>8, <1>23 DEF PlayerLeaves
<1>24. CASE DiskMissing(r)
  BY <1>8, <1>24 DEF DiskMissing
<1>25. CASE ForwardRange(r)
  BY <1>8, <1>25 DEF ForwardRange
<1>26. CASE SendHead(r)
  BY <1>9, <1>26 DEF SendHead, ReaderPcs
<1>27. CASE Stream(r)
  BY <1>9, <1>27 DEF Stream, ReaderPcs
<1>28. CASE Trailer(r)
  BY <1>8, <1>28 DEF Trailer
<1>29. CASE Answer(r)
  BY <1>9, <1>29 DEF Answer, ReaderPcs
<1> QED
  BY <1>10, <1>11, <1>12, <1>13, <1>14, <1>15, <1>16, <1>17, <1>18, <1>19, <1>20,
     <1>21, <1>22, <1>23, <1>24, <1>25, <1>26, <1>27, <1>28, <1>29

\* A request that finds no fill and starts one.
LEMMA NewFillKeeps ==
    ASSUME Inv, NEW r \in Readers, NewFill(r)
    PROVE  Inv'
<1> DEFINE k == reader[r].key
           g == current'[k]
           x == [reader[r] EXCEPT !.pc = "wait", !.fill = g]
<1>1. reader[r] \in Requests /\ reader[r].pc = "fill"
  BY DEF NewFill, ReaderAt, Inv, TypeOK
<1>2. k \in Keys /\ <<reader[r].class, k>> \in Rows
  BY <1>1, CacheConstants DEF Inv, Held
<1>3. /\ current[k] = None /\ StartFill(k) /\ reader' = [reader EXCEPT ![r] = x]
      /\ UNCHANGED <<entry, recency, file, saved, crashes, gone, astray>>
  BY DEF NewFill
<1>4. /\ upstream' \in [Keys -> {"none", "fresh", "tried"}]
      /\ current' \in [Keys -> 0 .. MaxFills]
      /\ active' \in [Keys -> Nat]
      /\ fill' \in [FillIds -> Fills]
      /\ Paired' /\ LookedUp'
      /\ g \in FillIds /\ fill'[g] # NoFill /\ fill'[g].key = k
      /\ \A f \in FillIds : fill[f] # NoFill => fill'[f] = fill[f]
      /\ \A j \in Keys : active'[j] - (IF current'[j] = None THEN 0 ELSE 1)
                         = active[j] - (IF current[j] = None THEN 0 ELSE 1)
  BY <1>2, <1>3, StartFillKeeps
<1>5. g \in 0 .. MaxFills /\ g # None
  BY <1>4, CacheConstants DEF FillIds, None
<1> HIDE DEF g
<1>6. x \in Requests /\ x.pc = "wait" /\ x.key = k /\ x.class = reader[r].class /\ x.fill = g
  BY <1>1, <1>5 DEF Requests, ReaderPcs
<1> HIDE DEF x
<1>7. reader' \in [Readers -> Requests] /\ reader'[r] = x
      /\ \A q \in Readers : q # r => reader'[q] = reader[q]
  BY <1>3, <1>6 DEF Inv, TypeOK
<1>8. TypeOK'
  BY <1>3, <1>4, <1>7 DEF Inv, TypeOK
<1>9. Held'
  <2>1. \A q \in Readers : reader[q].fill # None => reader[q].fill \in FillIds
    BY CacheConstants DEF Inv, TypeOK, Requests, FillIds, None
  <2>2. \A q \in Readers : q # r =>
          /\ reader'[q].pc # "off" => <<reader'[q].class, reader'[q].key>> \in Rows
          /\ reader'[q].fill # None => fill'[reader'[q].fill] # NoFill
                                       /\ fill'[reader'[q].fill].key = reader'[q].key
          /\ reader'[q].pc \in Following <=>
                reader'[q].fill # None /\ reader'[q].pc \notin Answering
    BY <1>4, <1>7, <2>1 DEF Inv, Held
  <2> QED
    BY <1>2, <1>4, <1>5, <1>6, <1>7, <2>2 DEF Held
<1>10. Counted'
  <2>1. \A j \in Keys : Using(j)' = Using(j)
    BY <1>1, <1>6, <1>7 DEF Using, Serving
  <2> QED
    BY <1>4, <2>1, UsersType DEF Inv, TypeOK, Counted
<1> QED
  BY <1>4, <1>8, <1>9, <1>10 DEF Inv

\* The last step of a request: one user less, and the fill goes that only this
\* request still referred to.
LEMMA LeaveKeeps ==
    ASSUME Inv, NEW r \in Readers, Leave(r)
    PROVE  Inv'
<1> DEFINE k == reader[r].key
           alone(g) == reader[r].fill = g /\ \A q \in Readers \ {r} : reader[q].fill # g
<1>1. reader[r] \in Requests /\ reader[r].pc = "leave"
  BY DEF Leave, ReaderAt, Inv, TypeOK
<1>2. k \in Keys
  BY <1>1, CacheConstants DEF Inv, Held
<1>3. /\ active' = [active EXCEPT ![k] = IF @ = 0 THEN 0 ELSE @ - 1]
      /\ reader' = [reader EXCEPT ![r] = NoReader]
      /\ fill' = [f \in FillIds |-> IF alone(f) THEN Dropped(f) ELSE fill[f]]
      /\ UNCHANGED <<entry, upstream, current, file, saved, crashes, gone, astray>>
  BY DEF Leave, Decremented
<1>4. reader' \in [Readers -> Requests] /\ reader'[r] = NoReader
      /\ \A q \in Readers : q # r => reader'[q] = reader[q]
  BY <1>3, NoReaderType DEF Inv, TypeOK
<1>5. \A f \in FillIds : /\ Live(f) => fill'[f] = fill[f]
                         /\ ~ Live(f) => fill'[f].pc = "off"
                         /\ fill'[f] \in Fills
                         /\ ~ alone(f) => fill'[f] = fill[f]
  BY <1>3, NoFillType DEF Dropped, Live, Inv, TypeOK
<1>6. active' \in [Keys -> Nat]
  BY <1>2, <1>3 DEF Inv, TypeOK
<1>7. fill' \in [FillIds -> Fills]
  BY <1>3, <1>5
<1> HIDE DEF alone
<1>8. TypeOK'
  BY <1>3, <1>4, <1>6, <1>7 DEF Inv, TypeOK
<1>9. Paired'
  <2>1. \A j \in Keys : current[j] # None => current[j] \in FillIds
    BY CacheConstants DEF Inv, TypeOK, FillIds, None
  <2> QED
    BY <1>3, <1>5, <2>1 DEF Inv, Paired, Live
<1>10. LookedUp'
  BY <1>5 DEF Inv, LookedUp, Live
<1>11. Held'
  <2>1. \A q \in Readers : reader[q].fill # None => reader[q].fill \in FillIds
    BY CacheConstants DEF Inv, TypeOK, Requests, FillIds, None
  <2>2. \A q \in Readers : q # r => ~ alone(reader[q].fill)
    BY DEF alone
  <2>3. \A q \in Readers : q # r =>
          /\ reader'[q].pc # "off" => <<reader'[q].class, reader'[q].key>> \in Rows
          /\ reader'[q].fill # None => fill'[reader'[q].fill] # NoFill
                                       /\ fill'[reader'[q].fill].key = reader'[q].key
          /\ reader'[q].pc \in Following <=>
                reader'[q].fill # None /\ reader'[q].pc \notin Answering
    BY <1>4, <1>5, <2>1, <2>2 DEF Inv, Held
  <2> QED
    BY <1>4, <2>3, NoReaderType DEF Held
<1>12. Counted'
  <2>1. \A j \in Keys : Cardinality(Using(j)') =
           IF j = k THEN Cardinality(Using(j)) - 1 ELSE Cardinality(Using(j))
    BY <1>1, <1>4, Ceases, NoReaderType DEF Serving
  <2>2. Cardinality(Using(k)) > 0
    BY <1>1, <1>2, UsersType DEF Serving
  <2>3. active[k] > 0
    BY <1>2, <2>2, UsersType DEF Inv, Counted
  <2>4. active'[k] = active[k] - 1 /\ \A j \in Keys : j # k => active'[j] = active[j]
    BY <1>2, <1>3, <2>3 DEF Inv, TypeOK
  <2> QED
    BY <1>2, <1>3, <2>1, <2>4, UsersType DEF Inv, TypeOK, Counted
<1> QED
  BY <1>8, <1>9, <1>10, <1>11, <1>12 DEF Inv

LEMMA ServeKeeps ==
    ASSUME Inv, NEW r \in Readers, Serve(r)
    PROVE  Inv'
<1>1. CASE LookupUnknown(r) \/ Refuse(r)
  <2>1. PICK k \in Keys : TRUE
    BY <1>1, CacheConstants DEF LookupUnknown, Refuse, ReaderAt, Inv, Held
  <2> QED
    BY <1>1, <2>1, RequestArrives, CacheConstants
<1> QED
  BY <1>1, LookupKnownKeeps, ServingKeeps, NewFillKeeps, LeaveKeeps DEF Serve, Works, Writes

\* A restart leaves no users.
LEMMA RestartKeeps ==
    ASSUME Inv, Restart
    PROVE  Inv'
<1>1. /\ crashes' = crashes + 1 /\ saved' = saved /\ file' = file
      /\ upstream' = [k \in Keys |-> "none"]
      /\ current' = [k \in Keys |-> None]
      /\ active' = [k \in Keys |-> 0]
      /\ fill' = [f \in FillIds |-> NoFill]
      /\ reader' = [r \in Readers |-> NoReader]
      /\ gone' = gone /\ astray' \subseteq astray \cup gone
  BY DEF Restart
<1>2. entry' \in [Keys -> Entries]
  BY DEF Restart, Inv, TypeOK, Entries
<1>3. TypeOK'
  BY <1>1, <1>2, NoFillType, NoReaderType, CacheConstants DEF Inv, TypeOK, None
<1>4. Paired' /\ LookedUp' /\ Held'
  BY <1>1, NoFillType, NoReaderType DEF Paired, LookedUp, Held, Live
<1>5. \A k \in Keys : Using(k)' = {}
  BY <1>1, NoReaderType DEF Using, Serving
<1>6. \A k \in Keys : active'[k] = 0 /\ current'[k] = None /\ Cardinality(Using(k)') = 0
  BY <1>1, <1>5, FS_EmptySet
<1>7. Counted'
  BY <1>6 DEF Counted
<1> QED
  BY <1>3, <1>4, <1>7 DEF Inv

----------------------------------------------------------------------------
(* The invariant.                                                          *)

LEMMA NextInv == Inv /\ [Next]_vars => Inv'
<1> SUFFICES ASSUME Inv, [Next]_vars PROVE Inv'
  OBVIOUS
<1>1. CASE UNCHANGED vars
  BY <1>1, OthersKeep DEF vars, Inv, TypeOK
<1> QED
  BY <1>1, RegisterKeeps, PreloadKeeps, RequestArrives, FillThreadKeeps, ServeKeeps,
     RestartKeeps DEF Next

\* The type invariant and, in every reachable state: current names exactly the
\* live fills, a request holds a fill of its key, and active counts the users.
THEOREM Invariance == Spec => []Inv
  BY InitInv, NextInv, PTL DEF Spec

\* The fills that live for a key are the one that Inner.fills names, if any.
LEMMA FillsOfKey ==
    ASSUME Inv, NEW k \in Keys
    PROVE  Cardinality({f \in FillIds : Live(f) /\ fill[f].key = k})
           = IF current[k] = None THEN 0 ELSE 1
<1> DEFINE S == {f \in FillIds : Live(f) /\ fill[f].key = k}
<1>1. CASE current[k] = None
  <2>1. S = {}
    BY <1>1, CacheConstants DEF Inv, Paired, FillIds, None
  <2> QED
    BY <1>1, <2>1, FS_EmptySet
<1>2. CASE current[k] # None
  <2>1. current[k] \in FillIds
    BY <1>2, CacheConstants DEF Inv, TypeOK, FillIds, None
  <2>2. S = {current[k]}
    BY <1>2, <2>1 DEF Inv, Paired, Live
  <2> QED
    BY <1>2, <2>2, FS_Singleton
<1> QED
  BY <1>1, <1>2

\* Inner.active is exact: for each key, the requests that are using it and the
\* fill thread that lives for it, in every order of registrations, fills,
\* requests, give-ups and restarts.
THEOREM UsersAreCounted == Spec => []ActiveCountsUsers
<1>1. Inv => ActiveCountsUsers
  BY FillsOfKey DEF Inv, Counted, ActiveCountsUsers, Using
<1> QED
  BY <1>1, Invariance, PTL

\* Nothing of an entry is removed while a fill or a request uses its key.
THEOREM UsersAreProtected == Spec => UsedIsNotEvicted
<1>1. ASSUME Inv, [Next]_vars, NEW k \in Keys, active[k] > 0, crashes' = crashes
      PROVE  /\ Has(k) => Has(k)'
             /\ \A c \in Classes : file[<<c, k>>] # Missing => file'[<<c, k>>] # Missing
  <2>1. ASSUME UNCHANGED <<entry, file>>
        PROVE  /\ Has(k) => Has(k)'
               /\ \A c \in Classes : file[<<c, k>>] # Missing => file'[<<c, k>>] # Missing
    BY <2>1 DEF Has
  <2>2. ASSUME NEW c \in Classes, NEW j \in Keys, Register(c, j) \/ Preload(c, j)
        PROVE  /\ Has(k) => Has(k)'
               /\ \A d \in Classes : file[<<d, k>>] # Missing => file'[<<d, k>>] # Missing
    <3>1. Registers(c, j) /\ UNCHANGED file
      BY <2>2 DEF Register, Preload
    <3>2. [Absent EXCEPT !.class = c] # Absent
      BY <2>2, CacheConstants DEF Absent
    <3>3. Has(j) => [entry[j] EXCEPT !.failed = FALSE] # Absent
      BY <1>1, <2>2, CacheConstants DEF Inv, TypeOK, Entries, Has, Absent
    <3> QED
      BY <1>1, <2>2, <3>1, <3>2, <3>3 DEF Registers, Has, Inv, TypeOK
  <2>3. ASSUME NEW f \in FillIds, FillThread(f)
        PROVE  /\ Has(k) => Has(k)'
               /\ \A c \in Classes : file[<<c, k>>] # Missing => file'[<<c, k>>] # Missing
    <3>1. CASE FillCreate(f) \/ FillWrite(f)
      <4>1. \A n \in Nat : n # Missing /\ n + 1 \in Nat
        BY DEF Missing
      <4>2. fill[f].written \in Nat
        BY <1>1, <2>3 DEF Inv, TypeOK, Fills
      <4>3. UNCHANGED entry
        BY <3>1 DEF FillCreate, FillWrite, inner
      <4>4. \E n \in Nat : file' = [file EXCEPT ![<<fill[f].path, fill[f].key>>] = n]
        BY <3>1, <4>1, <4>2 DEF FillCreate, FillWrite
      <4> QED
        BY <1>1, <2>3, <4>1, <4>3, <4>4 DEF Has, Paths, Inv, TypeOK
    <3>2. CASE FillIndex(f)
      <4>1. k \notin Gone(f)
        BY <1>1, <2>3, GoneIsIdle
      <4>2. Ended(f)[fill[f].key] # Absent
        BY <1>1, <2>3, <3>2, IndexSteps, EndedType
      <4>3. Has(k) => Ended(f)[k] # Absent
        BY <1>1, <2>3, <3>2, <4>2, IndexSteps, EndedType DEF Has
      <4> QED
        BY <1>1, <2>3, <3>2, <4>1, <4>3, IndexSteps DEF Has, Paths, Inv, TypeOK
    <3>3. CASE FillGivesUp(f)
      <4>1. ASSUME NEW e \in Entries, e # Absent
            PROVE  [e EXCEPT !.failed = TRUE] # Absent
        BY <4>1, CacheConstants DEF Entries, Absent
      <4> QED
        BY <1>1, <2>3, <3>3, <4>1 DEF FillGivesUp, Has, Inv, TypeOK
    <3> QED
      BY <2>1, <2>3, <3>1, <3>2, <3>3
         DEF FillThread, FillPath, FillClass, FillHeaders, FillCount, FillFails, FillPublish,
             FillPublishFailure, FillLeaves, inner
  <2>4. ASSUME NEW r \in Readers, Serve(r)
        PROVE  UNCHANGED <<entry, file>>
    BY <2>4 DEF Serve, Works, Writes, LookupKnown, LookupUnknown, Refuse, Check, DiskOpen,
                DiskMissing, DiskCopy, Forward, ForwardRange, JoinFill, FillIsOver, NewFill,
                Headers, HeadersTimeout, Open, OpenTimeout, SendHead, Stream, Send, StreamDry,
                Peek, Trailer, Answer, PlayerLeaves, Leave, inner
  <2>5. ASSUME NEW c \in Classes, NEW j \in Keys, NEW r \in Readers, Request(r, c, j)
        PROVE  UNCHANGED <<entry, file>>
    BY <2>5 DEF Request, inner
  <2>6. ~ Restart
    BY <1>1 DEF Restart, Inv, TypeOK
  <2> QED
    BY <1>1, <2>1, <2>2, <2>3, <2>4, <2>5, <2>6 DEF Next, vars
<1>2. Inv /\ [Next]_vars =>
        \A k \in Keys : active[k] > 0 /\ crashes' = crashes =>
           /\ Has(k) => Has(k)'
           /\ \A c \in Classes : file[<<c, k>>] # Missing => file'[<<c, k>>] # Missing
  BY <1>1
<1> QED
  BY <1>2, Invariance, PTL DEF Spec, UsedIsNotEvicted

----------------------------------------------------------------------------
(* Whole bodies, for the keys that have not gone astray.                   *)

\* The files of a key, and what its entry and the index say of them: an entry that
\* the index has as complete is complete, unless it was evicted since.
WholeAt(k) ==
    /\ \A c \in Classes : file[<<c, k>>] <= Size[k]
    /\ k \notin astray =>
         /\ Complete(k) => file[<<ClassOf(k), k>>] = Size[k]
         /\ crashes < MaxCrashes /\ k \notin gone /\ saved.entry[k].complete =>
               Complete(k) /\ entry[k].class = saved.entry[k].class

\* How far a fill is, beside the file it writes and the entry of its key.
FillOk(f) ==
    LET k == fill[f].key IN
    /\ k \notin astray /\ fill[f].pc \notin {"off", "path"} => fill[f].path = ClassOf(k)
    /\ k \notin astray /\ fill[f].pc \notin {"off", "path", "class"} =>
          fill[f].class = ClassOf(k)
    /\ fill[f].pc \notin {"off", "publish", "end"} => ~ Complete(k)
    /\ fill[f].pc \in {"path", "class", "fetch", "create"} => fill[f].filled = 0
    /\ fill[f].pc \in {"read", "count"} =>
          fill[f].written <= Size[k] /\ file[<<fill[f].path, k>>] = fill[f].written
    /\ fill[f].pc = "read" => fill[f].filled = fill[f].written
    /\ fill[f].pc = "publish" => fill[f].filled = Size[k]
    /\ fill[f].complete => fill[f].pc \in {"end", "off"} /\ fill[f].filled = Size[k]
    /\ fill[f] # NoFill => fill[f].total \in {0, Size[k]}

\* How far a request x is, beside the entry and the fill it is served from.
RequestIs(x) ==
    /\ x.pc \notin {"off", "lookup", "refused"} => x.class = ClassOf(x.key)
    /\ x.pc \in {"check", "fill"} => Known(x.key)
    /\ x.pc \in {"disk", "copy"} => Complete(x.key)
    /\ x.pc = "copy" => x.length = Size[x.key]
    /\ x.pc # "off" => x.length \in {0, Size[x.key]} /\ x.pos \in 0 .. Size[x.key]
    /\ x.pc \in {"lookup", "check", "fill", "disk", "wait"} => x.pos = 0
    /\ x.pc \in {"open", "head", "stream", "send", "peek"} /\ x.length # 0 =>
          x.pos < Size[x.key]
    /\ x.pc = "send" => x.pos < Size[x.key]
    /\ x.pc = "trailer" => x.length = 0
    /\ x.pc = "trailer" =>
          x.pos = Size[x.key] \/ (x.fill # None /\ fill[x.fill].failed)
    /\ x.outcome # "none" => x.pc \in Answering
    /\ x.outcome = "served" =>
          x.pos = Size[x.key] \/ (x.length = 0 /\ x.fill # None /\ fill[x.fill].failed)
    /\ x.outcome = "short" => x.fill # None /\ fill[x.fill].failed

RequestOk(r) == reader[r].key \notin astray => RequestIs(reader[r])

Whole   == \A k \in Keys : WholeAt(k)
Filling == \A f \in FillIds : FillOk(f)
Serves  == \A r \in Readers : RequestOk(r)

WholeInv == Inv /\ Whole /\ Filling /\ Serves

\* The paths of the files of a key, and the constants, as the lemmas below use them.
LEMMA PathFacts ==
    \A k \in Keys : /\ Size[k] \in Nat /\ Size[k] > 0
                    /\ \A c \in Classes : <<c, k>> \in Paths /\ <<c, k>>[2] = k /\ <<c, k>>[1] = c
  BY CacheConstants DEF Paths

\* The class of a key is a class.
LEMMA ClassOfType == ASSUME Inv PROVE \A k \in Keys : ClassOf(k) \in Classes
  BY CacheConstants DEF Inv, TypeOK, ClassOf, Has, Entries

LEMMA InitWhole == ASSUME Init PROVE WholeInv
<1>1. Inv
  BY InitInv
<1>2. Whole
  <2>1. ~ Absent.complete
    BY DEF Absent
  <2> QED
    BY <2>1, PathFacts DEF Init, Whole, WholeAt, Has, Complete, Missing
<1>3. Filling
  <2>1. NoFill.pc = "off" /\ ~ NoFill.complete
    BY DEF NoFill
  <2> QED
    BY <2>1 DEF Init, Filling, FillOk
<1>4. Serves
  <2>1. NoReader.pc = "off" /\ NoReader.outcome = "none"
    BY DEF NoReader
  <2> QED
    BY <2>1 DEF Init, Serves, RequestOk, RequestIs
<1> QED
  BY <1>1, <1>2, <1>3, <1>4 DEF WholeInv

----------------------------------------------------------------------------
(* What the parts of the invariant depend on.                              *)

\* Who uses a key is counted.
InUse(k) == Using(k) # {} \/ current[k] # None

LEMMA InUseCounted ==
    ASSUME Inv, NEW k \in Keys, InUse(k)
    PROVE  active[k] > 0
<1>1. active[k] = Cardinality(Using(k)) + (IF current[k] = None THEN 0 ELSE 1)
  BY DEF Inv, Counted
<1>2. Cardinality(Using(k)) \in Nat
  BY UsersType
<1>3. Using(k) # {} => Cardinality(Using(k)) > 0
  BY UsersType DEF Using
<1> QED
  BY <1>1, <1>2, <1>3 DEF InUse

\* What any step but a restart leaves of the keys.
Stays(k) ==
    /\ Registered(k) => Registered(k)'
    /\ InUse(k) /\ Complete(k) => Complete(k)'
    /\ InUse(k) /\ k \notin astray' => ClassOf(k)' = ClassOf(k)

\* A request whose thread does not move stays as it is.
LEMMA RequestsStay ==
    ASSUME Inv, Serves, astray \subseteq astray', \A k \in Keys : Stays(k),
           NEW R \in SUBSET Readers, \A r \in R : reader'[r] = reader[r],
           \A r \in R : reader[r].fill # None /\ fill[reader[r].fill].failed =>
                         fill'[reader[r].fill].failed
    PROVE  \A r \in R : RequestOk(r)'
<1> SUFFICES ASSUME NEW r \in R, reader[r].key \notin astray' PROVE RequestIs(reader[r])'
  BY DEF RequestOk
<1>1. RequestIs(reader[r])
  BY DEF Serves, RequestOk
<1>2. ASSUME reader[r].pc \notin {"off", "lookup", "refused"}
      PROVE  reader[r].key \in Keys /\ InUse(reader[r].key)
  <2>1. reader[r].key \in Keys
    BY <1>2, CacheConstants DEF Inv, Held
  <2>2. r \in Using(reader[r].key)
    BY <1>2 DEF Using, Serving
  <2> QED
    BY <2>1, <2>2 DEF InUse
<1>3. reader[r].pc \in {"check", "fill"} /\ Known(reader[r].key) => Known(reader[r].key)'
  BY <1>2 DEF Stays, Known
<1>4. reader[r].pc \in {"disk", "copy"} /\ Complete(reader[r].key) => Complete(reader[r].key)'
  BY <1>2 DEF Stays
<1>5. reader[r].pc \notin {"off", "lookup", "refused"} => ClassOf(reader[r].key)' = ClassOf(reader[r].key)
  BY <1>2 DEF Stays
<1>6. reader[r].fill # None /\ fill[reader[r].fill].failed => fill'[reader[r].fill].failed
  OBVIOUS
<1> QED
  BY <1>1, <1>3, <1>4, <1>5, <1>6 DEF RequestIs

\* A fill that does not move stays as it is when its key's entry is not
\* completed by another and nobody else writes its file.
LEMMA FillsStay ==
    ASSUME Inv, Filling, astray \subseteq astray', \A k \in Keys : Stays(k),
           NEW F \in SUBSET FillIds,
           \A f \in F : fill'[f] = fill[f],
           \A f \in F : Live(f) => /\ Complete(fill[f].key)' => Complete(fill[f].key)
                                   /\ \A c \in Classes :
                                        file'[<<c, fill[f].key>>] = file[<<c, fill[f].key>>]
    PROVE  \A f \in F : FillOk(f)'
<1> SUFFICES ASSUME NEW f \in F PROVE FillOk(f)'
  OBVIOUS
<1>1. FillOk(f) /\ fill'[f] = fill[f]
  BY DEF Filling
<1>2. Live(f) => fill[f].key \in Keys /\ InUse(fill[f].key)
  BY CacheConstants DEF Inv, Paired, InUse, FillIds, None
<1>3. Live(f) /\ fill[f].key \notin astray' => ClassOf(fill[f].key)' = ClassOf(fill[f].key)
  BY <1>2 DEF Stays
<1>4. fill[f].pc \in {"read", "count"} =>
         file'[<<fill[f].path, fill[f].key>>] = file[<<fill[f].path, fill[f].key>>]
  BY DEF Inv, LookedUp, Live
<1> QED
  BY <1>1, <1>3, <1>4 DEF FillOk, Live

\* A fill that starts, for a key that is not complete.
LEMMA StartedFillOk ==
    ASSUME NEW k \in Keys, NEW f \in FillIds, ~ Complete(k)',
           fill'[f] = [NoFill EXCEPT !.pc = "path", !.key = k]
    PROVE  FillOk(f)' /\ fill'[f].failed = FALSE
<1>1. /\ fill'[f].pc = "path" /\ fill'[f].key = k /\ fill'[f].filled = 0
      /\ fill'[f].total = 0 /\ fill'[f].complete = FALSE /\ fill'[f].failed = FALSE
  BY DEF NoFill
<1> QED
  BY <1>1 DEF FillOk

\* What StartFill leaves of the other fills.
LEMMA StartedFill ==
    ASSUME Inv, NEW k \in Keys, StartFill(k)
    PROVE  \E f \in FillIds :
             /\ fill[f] = NoFill /\ current'[k] = f
             /\ fill'[f] = [NoFill EXCEPT !.pc = "path", !.key = k]
             /\ \A g \in FillIds : g # f => fill'[g] = fill[g]
<1> DEFINE f == Min(Unused)
           x == [NoFill EXCEPT !.pc = "path", !.key = k]
<1>1. f \in FillIds /\ fill[f] = NoFill
  BY UnusedHasMin DEF StartFill, Unused
<1>2. current' = [current EXCEPT ![k] = f] /\ fill' = [fill EXCEPT ![f] = x]
  BY DEF StartFill
<1> HIDE DEF f, x
<1>3. /\ current'[k] = f /\ fill'[f] = x
      /\ \A g \in FillIds : g # f => fill'[g] = fill[g]
  BY <1>1, <1>2 DEF Inv, TypeOK
<1> QED
  BY <1>1, <1>3 DEF x

----------------------------------------------------------------------------
(* The steps.                                                              *)

\* Saving the entries as they are, or not at all, keeps the index true.
LEMMA SavedWhole ==
    ASSUME Inv, Whole, NEW order, Save(entry', order), file' = file, crashes' = crashes,
           astray \subseteq astray',
           \A k \in Keys : Complete(k)' => Complete(k) /\ ClassOf(k)' = ClassOf(k)
    PROVE  Whole'
<1> SUFFICES ASSUME NEW k \in Keys PROVE WholeAt(k)'
  BY DEF Whole
<1>1. WholeAt(k)
  BY DEF Whole
<1>2. ASSUME crashes < MaxCrashes, saved'.entry[k].complete
      PROVE  Complete(k)' /\ entry'[k].class = saved'.entry[k].class
  <2>1. saved'.entry = entry'
    BY <1>2 DEF Save
  <2> QED
    BY <1>2, <2>1 DEF Complete, Has, Absent
<1>3. Complete(k)' => Complete(k) /\ ClassOf(k)' = ClassOf(k)
  OBVIOUS
<1> QED
  BY <1>1, <1>2, <1>3 DEF WholeAt

LEMMA RegistersWhole ==
    ASSUME Inv, Whole, NEW c \in Classes, NEW k \in Keys, Registers(c, k),
           UNCHANGED <<file, crashes>>
    PROVE  /\ Whole'
           /\ astray \subseteq astray'
           /\ \A j \in Keys : Complete(j)' <=> Complete(j)
           /\ \A j \in Keys : InUse(j) /\ j \notin astray' => ClassOf(j)' = ClassOf(j)
<1> DEFINE x == IF Has(k) THEN [entry[k] EXCEPT !.failed = FALSE] ELSE [Absent EXCEPT !.class = c]
<1>1. /\ x # Absent /\ x.class = IF Has(k) THEN entry[k].class ELSE c
      /\ x.complete <=> Has(k) /\ entry[k].complete
  <2>1. CASE Has(k)
    <3>1. entry[k] \in [class : Classes, complete : BOOLEAN, failed : BOOLEAN]
      BY <2>1 DEF Has, Inv, TypeOK, Entries
    <3>2. x.class = entry[k].class /\ x.complete = entry[k].complete
      BY <2>1, <3>1
    <3>3. x # Absent
      BY <3>1, <3>2, CacheConstants DEF Absent
    <3> QED
      BY <2>1, <3>2, <3>3
  <2>2. CASE ~ Has(k)
    BY <2>2, CacheConstants DEF Absent
  <2> QED
    BY <2>1, <2>2
<1>2. entry' = [entry EXCEPT ![k] = x] /\ Save(entry', recency')
      /\ IF active[k] > 0 /\ ~ Has(k) THEN Strays(c, k) ELSE UNCHANGED astray
  BY DEF Registers
<1> HIDE DEF x
<1>3. entry'[k] = x /\ \A j \in Keys : j # k => entry'[j] = entry[j]
  BY <1>2 DEF Inv, TypeOK
<1>4. \A j \in Keys : Complete(j)' <=> Complete(j)
  BY <1>1, <1>3 DEF Complete, Has
<1>5. astray \subseteq astray'
  BY <1>2 DEF Strays
<1>6. ASSUME NEW j \in Keys, InUse(j), j \notin astray'
      PROVE  ClassOf(j)' = ClassOf(j)
  <2>1. CASE j # k
    BY <1>3, <2>1 DEF ClassOf, Has
  <2>2. CASE j = k /\ Has(k)
    BY <1>1, <1>3, <2>2 DEF ClassOf, Has
  <2>3. CASE j = k /\ ~ Has(k)
    <3>1. Strays(c, k)
      BY <1>2, <1>6, <2>3, InUseCounted
    <3>2. c = ClassOf(k)
      BY <1>6, <2>3, <3>1 DEF Strays
    <3> QED
      BY <1>1, <1>3, <2>3, <3>2 DEF ClassOf, Has
  <2> QED
    BY <2>1, <2>2, <2>3
<1>7. \A j \in Keys : Complete(j)' => Complete(j) /\ ClassOf(j)' = ClassOf(j)
  BY <1>1, <1>3, <1>4 DEF Complete, ClassOf, Has
<1>8. Whole'
  BY <1>2, <1>5, <1>7, SavedWhole
<1> QED
  BY <1>4, <1>5, <1>6, <1>8

LEMMA RegisterWhole ==
    ASSUME WholeInv, NEW c \in Classes, NEW k \in Keys, Register(c, k) \/ Preload(c, k)
    PROVE  Whole' /\ Filling' /\ Serves'
<1> USE DEF WholeInv
<1>1. Registers(c, k) /\ UNCHANGED <<file, reader, crashes>>
  BY DEF Register, Preload
<1>2. /\ Whole' /\ astray \subseteq astray'
      /\ \A j \in Keys : Complete(j)' <=> Complete(j)
      /\ \A j \in Keys : InUse(j) /\ j \notin astray' => ClassOf(j)' = ClassOf(j)
  BY <1>1, RegistersWhole
<1>3. \A j \in Keys : Registered(j) => Registered(j)'
  <2>1. upstream' \in {[upstream EXCEPT ![k] = "fresh"], [upstream EXCEPT ![k] = "tried"]}
    BY DEF Register, Preload, StartFill
  <2> QED
    BY <2>1 DEF Registered, Inv, TypeOK
<1>4. \A j \in Keys : Stays(j)
  BY <1>2, <1>3 DEF Stays
<1>5. \A f \in FillIds : Live(f) => fill[f].key \in Keys
  BY DEF Inv, Paired
<1>6. CASE UNCHANGED fill
  <2>1. Filling'
    BY <1>1, <1>2, <1>4, <1>5, <1>6, FillsStay DEF Filling
  <2>2. Serves'
    BY <1>1, <1>2, <1>4, <1>6, RequestsStay DEF Serves
  <2> QED
    BY <1>2, <2>1, <2>2
<1>7. CASE ~ UNCHANGED fill
  <2>1. StartFill(k) /\ ~ Complete(k)
    BY <1>7 DEF Register, Preload
  <2>2. PICK f \in FillIds :
          /\ fill[f] = NoFill
          /\ fill'[f] = [NoFill EXCEPT !.pc = "path", !.key = k]
          /\ \A g \in FillIds : g # f => fill'[g] = fill[g]
    BY <2>1, StartedFill
  <2>3. FillOk(f)'
    BY <1>2, <2>1, <2>2, StartedFillOk
  <2>4. \A g \in FillIds \ {f} : FillOk(g)'
    BY <1>1, <1>2, <1>4, <1>5, <2>2, FillsStay
  <2>5. \A r \in Readers : reader[r].fill # None /\ fill[reader[r].fill].failed =>
           fill'[reader[r].fill].failed
    BY <2>2, HeldFill
  <2>6. Serves'
    BY <1>1, <1>2, <1>4, <2>5, RequestsStay DEF Serves
  <2> QED
    BY <1>2, <2>3, <2>4, <2>6 DEF Filling
<1> QED
  BY <1>6, <1>7

\* A step of a fill thread, which alone works for its key.
LEMMA FillStepWhole ==
    ASSUME WholeInv, NEW f \in FillIds, Live(f), Whole', FillOk(f)',
           UNCHANGED <<upstream, reader, astray>>,
           \A g \in FillIds : g # f => fill'[g] = fill[g],
           fill[f].failed => fill'[f].failed,
           \A k \in Keys : k # fill[f].key /\ current[k] # None =>
              /\ Complete(k)' => Complete(k)
              /\ \A c \in Classes : file'[<<c, k>>] = file[<<c, k>>],
           \A k \in Keys : InUse(k) =>
              /\ Complete(k) => Complete(k)'
              /\ k \notin astray => ClassOf(k)' = ClassOf(k)
    PROVE  Whole' /\ Filling' /\ Serves'
<1> USE DEF WholeInv
<1>2. \A k \in Keys : Stays(k)
  BY DEF Stays, Registered
<1>1. \A g \in FillIds \ {f} : FillOk(g)'
  <2>1. \A g \in FillIds \ {f} : Live(g) =>
          fill[g].key \in Keys /\ fill[g].key # fill[f].key /\ current[fill[g].key] # None
    BY CacheConstants DEF Inv, Paired, FillIds, None
  <2> QED
    BY <1>2, <2>1, FillsStay
<1>3. \A r \in Readers : reader[r].fill # None /\ fill[reader[r].fill].failed =>
         fill'[reader[r].fill].failed
  BY HeldFill
<1>4. Serves'
  BY <1>2, <1>3, RequestsStay DEF Serves
<1> QED
  BY <1>1, <1>4 DEF Filling

\* The steps that change nothing but the fill, and its file as long as the key
\* is not complete.
LEMMA FillWorksWhole ==
    ASSUME WholeInv, NEW f \in FillIds,
           \/ FillPath(f) \/ FillClass(f) \/ FillHeaders(f) \/ FillCreate(f) \/ FillWrite(f)
           \/ FillCount(f) \/ FillFails(f) \/ FillPublish(f) \/ FillPublishFailure(f)
    PROVE  Whole' /\ Filling' /\ Serves'
<1> USE DEF FillAt, WholeInv
<1> PICK k : k = fill[f].key
  OBVIOUS
<1>1. fill[f] \in Fills /\ Live(f) /\ k \in Keys /\ Size[k] \in Nat /\ Size[k] > 0
  <2>1. fill[f] \in Fills /\ Live(f)
    BY DEF Inv, TypeOK, Live, FillPath, FillClass, FillHeaders, FillCreate, FillWrite,
           FillCount, FillFails, FillPublish, FillPublishFailure
  <2> QED
    BY <2>1, PathFacts DEF Inv, Paired
<1>2. FillOk(f) /\ fill[f] # NoFill
  BY <1>1, NoFillType DEF Filling, Live
<1>3. ClassOf(k) \in Classes
  BY <1>1, ClassOfType
<1>4. ASSUME NEW x, fill' = [fill EXCEPT ![f] = x], fill[f].failed => x.failed, FillOk(f)',
             UNCHANGED <<inner, file, saved, reader, crashes>>
      PROVE  Whole' /\ Filling' /\ Serves'
  <2>1. fill'[f] = x /\ \A g \in FillIds : g # f => fill'[g] = fill[g]
    BY <1>4 DEF Inv, TypeOK
  <2>2. /\ Whole' /\ \A j \in Keys : Complete(j)' <=> Complete(j)
        /\ \A j \in Keys : ClassOf(j)' = ClassOf(j)
    BY <1>4 DEF inner, Whole, WholeAt, Has, Complete, ClassOf
  <2> QED
    BY <1>1, <1>4, <2>1, <2>2, FillStepWhole DEF inner
<1>5. ASSUME NEW x, fill' = [fill EXCEPT ![f] = x], fill[f].failed => x.failed, FillOk(f)',
             NEW n \in Nat, n <= Size[k], NEW p \in Classes,
             file' = [file EXCEPT ![<<p, k>>] = n],
             ~ Complete(k), UNCHANGED <<inner, saved, reader, crashes>>
      PROVE  Whole' /\ Filling' /\ Serves'
  <2>1. fill'[f] = x /\ \A g \in FillIds : g # f => fill'[g] = fill[g]
    BY <1>5 DEF Inv, TypeOK
  <2>2. /\ \A c \in Classes : file'[<<c, k>>] = IF c = p THEN n ELSE file[<<c, k>>]
        /\ \A j \in Keys, c \in Classes : j # k => file'[<<c, j>>] = file[<<c, j>>]
    BY <1>1, <1>5, PathFacts DEF Inv, TypeOK
  <2>3. \A j \in Keys : (Complete(j)' <=> Complete(j)) /\ ClassOf(j)' = ClassOf(j)
    BY <1>5 DEF inner, Has, Complete, ClassOf
  <2>4. Whole'
    <3> SUFFICES ASSUME NEW j \in Keys PROVE WholeAt(j)'
      BY DEF Whole
    <3>1. WholeAt(j)
      BY DEF Whole
    <3>2. \A c \in Classes : file'[<<c, j>>] <= Size[j]
      BY <1>5, <2>2, <3>1 DEF WholeAt
    <3>3. Complete(j) => j # k
      BY <1>5
    <3>4. ClassOf(j) \in Classes
      BY ClassOfType
    <3>5. Complete(j)' => file'[<<ClassOf(j), j>>] = file[<<ClassOf(j), j>>]
      BY <2>2, <2>3, <3>3, <3>4
    <3>6. UNCHANGED <<entry, saved, gone, astray, crashes>>
      BY <1>5 DEF inner
    <3> QED
      BY <2>3, <3>1, <3>2, <3>5, <3>6 DEF WholeAt
  <2> QED
    BY <1>1, <1>5, <2>1, <2>2, <2>3, <2>4, FillStepWhole DEF inner
<1>6. CASE FillPath(f)
  <2> DEFINE x == [fill[f] EXCEPT !.pc = "class", !.path = ClassOf(k)]
  <2>1. /\ x.pc = "class" /\ x.path = ClassOf(k) /\ x.key = fill[f].key
        /\ x.class = fill[f].class /\ x.written = fill[f].written
        /\ x.filled = fill[f].filled /\ x.total = fill[f].total
        /\ x.complete = fill[f].complete /\ x.failed = fill[f].failed
    BY <1>1 DEF Fills
  <2>2. fill' = [fill EXCEPT ![f] = x] /\ fill[f].pc = "path"
    BY <1>6 DEF FillPath
  <2> HIDE DEF x
  <2>3. fill'[f] = x
    BY <2>2 DEF Inv, TypeOK
  <2>4. (Complete(k)' <=> Complete(k)) /\ ClassOf(k)' = ClassOf(k) /\ astray' = astray
    BY <1>6 DEF FillPath, inner, Has, Complete, ClassOf
  <2>5. FillOk(f)'
    BY <1>1, <1>2, <1>3, <1>6, <2>1, <2>2, <2>3, <2>4 DEF FillPath, FillOk
  <2> QED
    BY <1>4, <1>6, <2>1, <2>2, <2>5 DEF FillPath
<1>7. CASE FillClass(f)
  <2> DEFINE x == [fill[f] EXCEPT !.pc = "fetch", !.class = ClassOf(k)]
  <2>1. /\ x.pc = "fetch" /\ x.class = ClassOf(k) /\ x.key = fill[f].key
        /\ x.path = fill[f].path /\ x.written = fill[f].written
        /\ x.filled = fill[f].filled /\ x.total = fill[f].total
        /\ x.complete = fill[f].complete /\ x.failed = fill[f].failed
    BY <1>1 DEF Fills
  <2>2. fill' = [fill EXCEPT ![f] = x] /\ fill[f].pc = "class"
    BY <1>7 DEF FillClass
  <2> HIDE DEF x
  <2>3. fill'[f] = x
    BY <2>2 DEF Inv, TypeOK
  <2>4. (Complete(k)' <=> Complete(k)) /\ ClassOf(k)' = ClassOf(k) /\ astray' = astray
    BY <1>7 DEF FillClass, inner, Has, Complete, ClassOf
  <2>5. FillOk(f)'
    BY <1>1, <1>2, <1>3, <1>7, <2>1, <2>2, <2>3, <2>4 DEF FillClass, FillOk
  <2> QED
    BY <1>4, <1>7, <2>1, <2>2, <2>5 DEF FillClass
<1>8. CASE FillHeaders(f)
  <2>0. PICK announced \in Announces :
          fill' = [fill EXCEPT ![f] = [@ EXCEPT !.pc = "create", !.started = TRUE,
                     !.total = IF announced THEN Size[k] ELSE 0]]
    BY <1>8 DEF FillHeaders
  <2> DEFINE t == IF announced THEN Size[k] ELSE 0
             x == [fill[f] EXCEPT !.pc = "create", !.started = TRUE, !.total = t]
  <2>7. t \in {0, Size[k]}
    OBVIOUS
  <2> HIDE DEF t
  <2>1. /\ x.pc = "create" /\ x.total = t /\ x.key = fill[f].key /\ x.path = fill[f].path
        /\ x.class = fill[f].class /\ x.written = fill[f].written
        /\ x.filled = fill[f].filled /\ x.complete = fill[f].complete
        /\ x.failed = fill[f].failed
    BY <1>1 DEF Fills
  <2>2. fill' = [fill EXCEPT ![f] = x] /\ fill[f].pc = "fetch"
    BY <1>8, <2>0 DEF FillHeaders, t
  <2> HIDE DEF x
  <2>3. fill'[f] = x
    BY <2>2 DEF Inv, TypeOK
  <2>4. (Complete(k)' <=> Complete(k)) /\ ClassOf(k)' = ClassOf(k) /\ astray' = astray
    BY <1>8 DEF FillHeaders, inner, Has, Complete, ClassOf
  <2>5. FillOk(f)'
    BY <1>1, <1>2, <1>3, <1>8, <2>1, <2>2, <2>3, <2>4, <2>7 DEF FillHeaders, FillOk
  <2> QED
    BY <1>4, <1>8, <2>1, <2>2, <2>5 DEF FillHeaders
<1>9. CASE FillCreate(f)
  <2> DEFINE x == [fill[f] EXCEPT !.pc = "read", !.written = 0]
  <2>1. /\ x.pc = "read" /\ x.written = 0 /\ x.key = fill[f].key
        /\ x.path = fill[f].path /\ x.class = fill[f].class
        /\ x.filled = fill[f].filled /\ x.total = fill[f].total
        /\ x.complete = fill[f].complete /\ x.failed = fill[f].failed
    BY <1>1 DEF Fills
  <2>2. fill' = [fill EXCEPT ![f] = x] /\ fill[f].pc = "create"
    BY <1>9 DEF FillCreate
  <2> HIDE DEF x
  <2>3. fill'[f] = x
    BY <2>2 DEF Inv, TypeOK
  <2> PICK p : p = fill[f].path
    OBVIOUS
  <2>8. p \in Classes
    BY <2>2 DEF Inv, LookedUp
  <2>4. ~ Complete(k) /\ file' = [file EXCEPT ![<<p, k>>] = 0]
    BY <1>2, <1>9, <2>2 DEF FillCreate, FillOk
  <2>5. file'[<<p, k>>] = 0 /\ 0 \in Nat /\ 0 <= Size[k]
    BY <1>1, <2>4, <2>8, PathFacts DEF Inv, TypeOK
  <2>6. ~ Complete(k)' /\ ClassOf(k)' = ClassOf(k) /\ astray' = astray
    BY <1>9, <2>4 DEF FillCreate, inner, Has, Complete, ClassOf
  <2>7. FillOk(f)'
    BY <1>1, <1>2, <1>9, <2>1, <2>2, <2>3, <2>5, <2>6 DEF FillOk
  <2> QED
    BY <1>5, <1>9, <2>1, <2>2, <2>4, <2>5, <2>7, <2>8 DEF FillCreate
<1>10. CASE FillWrite(f)
  <2> DEFINE n == fill[f].written + 1
             x == [fill[f] EXCEPT !.pc = "count", !.written = n]
  <2>0. fill[f].written \in Nat
    BY <1>1 DEF Fills
  <2>2. fill' = [fill EXCEPT ![f] = x] /\ fill[f].pc = "read" /\ fill[f].written < Size[k]
        /\ file' = [file EXCEPT ![<<fill[f].path, k>>] = n]
    BY <1>10 DEF FillWrite
  <2>8. n \in Nat /\ n <= Size[k]
    BY <1>1, <2>0, <2>2
  <2> HIDE DEF n
  <2>1. /\ x.pc = "count" /\ x.written = n /\ x.key = fill[f].key /\ x.path = fill[f].path
        /\ x.class = fill[f].class /\ x.total = fill[f].total
        /\ x.filled = fill[f].filled /\ x.complete = fill[f].complete
        /\ x.failed = fill[f].failed
    BY <1>1 DEF Fills
  <2> HIDE DEF x
  <2>3. fill'[f] = x
    BY <2>2 DEF Inv, TypeOK
  <2> PICK p : p = fill[f].path
    OBVIOUS
  <2>9. p \in Classes
    BY <2>2 DEF Inv, LookedUp
  <2>4. ~ Complete(k) /\ file' = [file EXCEPT ![<<p, k>>] = n]
    BY <1>2, <2>2 DEF FillOk
  <2>5. file'[<<p, k>>] = n
    BY <1>1, <2>4, <2>9, PathFacts DEF Inv, TypeOK
  <2>6. ~ Complete(k)' /\ ClassOf(k)' = ClassOf(k) /\ astray' = astray
    BY <1>10, <2>4 DEF FillWrite, inner, Has, Complete, ClassOf
  <2>7. FillOk(f)'
    BY <1>1, <1>2, <2>1, <2>2, <2>3, <2>5, <2>6, <2>8 DEF FillOk
  <2> QED
    BY <1>5, <1>10, <2>1, <2>2, <2>4, <2>7, <2>8, <2>9 DEF FillWrite
<1>11. CASE FillCount(f)
  <2> DEFINE x == [fill[f] EXCEPT !.pc = "read", !.filled = fill[f].written]
  <2>1. /\ x.pc = "read" /\ x.filled = fill[f].written /\ x.key = fill[f].key
        /\ x.path = fill[f].path /\ x.class = fill[f].class
        /\ x.written = fill[f].written /\ x.total = fill[f].total
        /\ x.complete = fill[f].complete /\ x.failed = fill[f].failed
    BY <1>1 DEF Fills
  <2>2. fill' = [fill EXCEPT ![f] = x] /\ fill[f].pc = "count"
    BY <1>11 DEF FillCount
  <2> HIDE DEF x
  <2>3. fill'[f] = x
    BY <2>2 DEF Inv, TypeOK
  <2>4. (Complete(k)' <=> Complete(k)) /\ ClassOf(k)' = ClassOf(k) /\ astray' = astray
    BY <1>11 DEF FillCount, inner, Has, Complete, ClassOf
  <2>5. FillOk(f)'
    BY <1>1, <1>2, <1>3, <1>11, <2>1, <2>2, <2>3, <2>4 DEF FillCount, FillOk
  <2> QED
    BY <1>4, <1>11, <2>1, <2>2, <2>5 DEF FillCount
<1>12. CASE FillFails(f)
  <2> DEFINE m == IF fill[f].attempt < FillAttempts THEN fill[f].attempt + 1 ELSE fill[f].attempt
             pc == IF fill[f].attempt < FillAttempts THEN "fetch" ELSE "giveUp"
             x == [fill[f] EXCEPT !.filled = 0, !.attempt = m, !.pc = pc]
  <2>2. fill' = [fill EXCEPT ![f] = x] /\ fill[f].pc \in {"fetch", "read"}
    BY <1>12 DEF FillFails
  <2>0. pc \in {"fetch", "giveUp"}
    OBVIOUS
  <2> HIDE DEF m, pc
  <2>1. /\ x.pc = pc /\ x.filled = 0 /\ x.key = fill[f].key /\ x.path = fill[f].path
        /\ x.class = fill[f].class /\ x.written = fill[f].written
        /\ x.total = fill[f].total /\ x.complete = fill[f].complete
        /\ x.failed = fill[f].failed
    BY <1>1 DEF Fills
  <2> HIDE DEF x
  <2>3. fill'[f] = x
    BY <2>2 DEF Inv, TypeOK
  <2>4. (Complete(k)' <=> Complete(k)) /\ ClassOf(k)' = ClassOf(k) /\ astray' = astray
    BY <1>12 DEF FillFails, inner, Has, Complete, ClassOf
  <2>5. FillOk(f)'
    BY <1>1, <1>2, <1>3, <1>12, <2>1, <2>2, <2>3, <2>4, <2>0 DEF FillFails, FillOk
  <2> QED
    BY <1>4, <1>12, <2>1, <2>2, <2>5 DEF FillFails
<1>13. CASE FillPublish(f)
  <2> DEFINE x == [fill[f] EXCEPT !.pc = "end", !.complete = TRUE, !.total = Size[k]]
  <2>1. /\ x.pc = "end" /\ x.total = Size[k] /\ x.complete /\ x.key = fill[f].key
        /\ x.path = fill[f].path /\ x.class = fill[f].class
        /\ x.written = fill[f].written /\ x.filled = fill[f].filled
        /\ x.failed = fill[f].failed
    BY <1>1 DEF Fills
  <2>2. fill' = [fill EXCEPT ![f] = x] /\ fill[f].pc = "publish"
    BY <1>13 DEF FillPublish
  <2> HIDE DEF x
  <2>3. fill'[f] = x
    BY <2>2 DEF Inv, TypeOK
  <2>4. (Complete(k)' <=> Complete(k)) /\ ClassOf(k)' = ClassOf(k) /\ astray' = astray
    BY <1>13 DEF FillPublish, inner, Has, Complete, ClassOf
  <2>5. FillOk(f)'
    BY <1>1, <1>2, <1>3, <1>13, <2>1, <2>2, <2>3, <2>4 DEF FillPublish, FillOk
  <2> QED
    BY <1>4, <1>13, <2>1, <2>2, <2>5 DEF FillPublish
<1>14. CASE FillPublishFailure(f)
  <2> DEFINE x == [fill[f] EXCEPT !.pc = "end", !.started = TRUE, !.failed = TRUE]
  <2>1. /\ x.pc = "end" /\ x.started /\ x.failed /\ x.key = fill[f].key
        /\ x.path = fill[f].path /\ x.class = fill[f].class
        /\ x.written = fill[f].written /\ x.filled = fill[f].filled
        /\ x.total = fill[f].total /\ x.complete = fill[f].complete
    BY <1>1 DEF Fills
  <2>2. fill' = [fill EXCEPT ![f] = x] /\ fill[f].pc = "fail"
    BY <1>14 DEF FillPublishFailure
  <2> HIDE DEF x
  <2>3. fill'[f] = x
    BY <2>2 DEF Inv, TypeOK
  <2>4. (Complete(k)' <=> Complete(k)) /\ ClassOf(k)' = ClassOf(k) /\ astray' = astray
    BY <1>14 DEF FillPublishFailure, inner, Has, Complete, ClassOf
  <2>5. FillOk(f)'
    BY <1>1, <1>2, <1>3, <1>14, <2>1, <2>2, <2>3, <2>4 DEF FillPublishFailure, FillOk
  <2> QED
    BY <1>4, <1>14, <2>1, <2>2, <2>5 DEF FillPublishFailure
<1> QED
  BY <1>6, <1>7, <1>8, <1>9, <1>10, <1>11, <1>12, <1>13, <1>14

\* A body that has ended makes its entry complete, in the file it was written to.
\* What goes to make room is used by nobody.
LEMMA FillIndexWhole ==
    ASSUME WholeInv, NEW f \in FillIds, FillIndex(f)
    PROVE  Whole' /\ Filling' /\ Serves'
<1> USE DEF WholeInv
<1> PICK k : k = fill[f].key
  OBVIOUS
<1> DEFINE x == [fill[f] EXCEPT !.pc = "publish"]
<1>1. fill[f] \in Fills /\ fill[f].pc = "read" /\ Live(f) /\ k \in Keys /\ current[k] = f
      /\ f # None
  BY IndexSteps, CacheConstants DEF FillAt, Inv, TypeOK, Paired, Live, FillIds, None
<1>2. FillOk(f) /\ fill[f] # NoFill
  BY <1>1, NoFillType DEF Filling
<1>3. /\ x.pc = "publish" /\ x.key = k /\ x.path = fill[f].path /\ x.class = fill[f].class
      /\ x.filled = fill[f].filled /\ x.written = fill[f].written /\ x.total = fill[f].total
      /\ x.complete = fill[f].complete /\ x.failed = fill[f].failed
  BY <1>1 DEF Fills
<1>4. fill' = [fill EXCEPT ![f] = x] /\ fill[f].written = Size[k]
  BY IndexSteps
<1> HIDE DEF x
<1>5. fill'[f] = x /\ \A g \in FillIds : g # f => fill'[g] = fill[g]
  BY <1>4 DEF Inv, TypeOK
\* The entry of the key.
<1>7. /\ entry'[k] # Absent /\ entry'[k].complete /\ k \notin Gone(f)
      /\ k \notin astray => entry'[k].class = ClassOf(k) /\ fill[f].path = ClassOf(k)
  <2>1. /\ k \notin Gone(f) /\ Ended(f)[k] # Absent /\ Ended(f)[k].complete
        /\ Ended(f)[k].class = IF Has(k) THEN entry[k].class ELSE fill[f].class
    BY IndexSteps, EndedType
  <2>2. k \notin astray => Ended(f)[k].class = ClassOf(k) /\ fill[f].path = ClassOf(k)
    BY <1>1, <1>2, <2>1 DEF FillOk, ClassOf
  <2>3. entry'[k] = Ended(f)[k]
    BY <1>1, <2>1, IndexSteps
  <2> QED
    BY <2>1, <2>2, <2>3
<1>16. Complete(k)' /\ (k \notin astray => ClassOf(k)' = ClassOf(k))
  BY <1>7 DEF Complete, Has, ClassOf
<1>17. UNCHANGED <<saved, crashes, astray, upstream, reader>>
  BY IndexSteps
<1>6. FillOk(f)'
  BY <1>1, <1>2, <1>3, <1>4, <1>5, <1>16, <1>17 DEF FillOk
\* The entries of the others.
<1>8. ASSUME NEW j \in Keys, j # k
      PROVE  entry'[j] = IF j \in Gone(f) THEN Absent ELSE entry[j]
  BY <1>8, IndexSteps, EndedType
<1>9. ASSUME NEW j \in Keys, NEW c \in Classes, j \notin Gone(f)
      PROVE  file'[<<c, j>>] = file[<<c, j>>]
  BY <1>9, PathFacts, IndexSteps
<1>10. ASSUME NEW j \in Keys, NEW c \in Classes
       PROVE  file'[<<c, j>>] <= Size[j]
  <2>1. file'[<<c, j>>] \in {Missing, file[<<c, j>>]}
    BY PathFacts, IndexSteps
  <2>2. file[<<c, j>>] <= Size[j]
    BY DEF Whole, WholeAt
  <2>3. Missing <= Size[j]
    BY PathFacts DEF Missing
  <2> QED
    BY <2>1, <2>2, <2>3
<1>11. k \notin astray => file'[<<ClassOf(k), k>>] = Size[k]
  BY <1>1, <1>2, <1>4, <1>7, <1>9, ClassOfType DEF FillOk
<1>12. ASSUME NEW j \in Keys, j # k
       PROVE  /\ Complete(j)' => Complete(j) /\ j \notin Gone(f)
              /\ Complete(j) /\ j \notin Gone(f) => Complete(j)'
              /\ j \notin Gone(f) => entry'[j] = entry[j] /\ ClassOf(j)' = ClassOf(j)
  BY <1>8, <1>12 DEF Complete, Has, ClassOf
<1>13. Whole'
  <2> SUFFICES ASSUME NEW j \in Keys PROVE WholeAt(j)'
    BY DEF Whole
  <2>1. WholeAt(j)
    BY DEF Whole
  <2>4. gone' = IF crashes < MaxCrashes THEN gone \cup Gone(f) ELSE gone
    BY IndexSteps
  <2>2. CASE j = k
    <3>1. j \notin astray /\ crashes < MaxCrashes /\ j \notin gone' => ~ saved.entry[j].complete
      BY <1>1, <1>2, <2>1, <2>2, <2>4 DEF WholeAt, FillOk
    <3>2. j \notin astray => file'[<<ClassOf(j)', j>>] = Size[j]
      BY <1>11, <1>16, <2>2
    <3> QED
      BY <1>10, <1>17, <3>1, <3>2 DEF WholeAt
  <2>3. CASE j # k
    <3>1. CASE j \in Gone(f)
      <4>1. ~ Complete(j)' /\ (crashes < MaxCrashes => j \in gone')
        BY <1>12, <2>3, <2>4, <3>1
      <4> QED
        BY <1>10, <1>17, <4>1 DEF WholeAt
    <3>2. CASE j \notin Gone(f)
      <4>1. /\ entry'[j] = entry[j] /\ ClassOf(j)' = ClassOf(j)
            /\ Complete(j)' <=> Complete(j)
        BY <1>12, <2>3, <3>2
      <4>2. file'[<<ClassOf(j), j>>] = file[<<ClassOf(j), j>>]
        BY <1>9, <3>2, ClassOfType
      <4>3. j \notin gone' => j \notin gone
        BY <2>4
      <4> QED
        BY <1>10, <1>17, <2>1, <4>1, <4>2, <4>3 DEF WholeAt
    <3> QED
      BY <3>1, <3>2
  <2> QED
    BY <2>2, <2>3
\* What is in use stays.
<1>14. ASSUME NEW j \in Keys, j # k, current[j] # None
       PROVE  /\ Complete(j)' => Complete(j)
              /\ \A c \in Classes : file'[<<c, j>>] = file[<<c, j>>]
  BY <1>9, <1>12, <1>14, GoneIsIdle
<1>15. ASSUME NEW j \in Keys, InUse(j)
       PROVE  /\ Complete(j) => Complete(j)'
              /\ j \notin astray => ClassOf(j)' = ClassOf(j)
  <2>1. active[j] > 0
    BY <1>15, InUseCounted
  <2>2. j \notin Gone(f)
    BY <2>1, GoneIsIdle
  <2> QED
    BY <1>12, <1>16, <2>2
<1> QED
  BY <1>1, <1>3, <1>5, <1>6, <1>13, <1>14, <1>15, <1>17, FillStepWhole

LEMMA FillGivesUpWhole ==
    ASSUME WholeInv, NEW f \in FillIds, FillGivesUp(f)
    PROVE  Whole' /\ Filling' /\ Serves'
<1> USE DEF WholeInv
<1> PICK k : k = fill[f].key
  OBVIOUS
<1> DEFINE x == [fill[f] EXCEPT !.pc = "fail"]
           e == IF entry[k] = Absent THEN entry[k] ELSE [entry[k] EXCEPT !.failed = TRUE]
<1>1. fill[f] \in Fills /\ fill[f].pc = "giveUp" /\ Live(f) /\ k \in Keys /\ entry[k] \in Entries
  BY DEF FillGivesUp, FillAt, Inv, TypeOK, Paired, Live
<1>2. FillOk(f) /\ fill[f] # NoFill
  BY <1>1, NoFillType DEF Filling
<1>3. /\ x.pc = "fail" /\ x.key = k /\ x.path = fill[f].path /\ x.class = fill[f].class
      /\ x.filled = fill[f].filled /\ x.written = fill[f].written /\ x.total = fill[f].total
      /\ x.complete = fill[f].complete /\ x.failed = fill[f].failed
  BY <1>1 DEF Fills
<1>4. fill' = [fill EXCEPT ![f] = x] /\ entry' = [entry EXCEPT ![k] = e]
      /\ UNCHANGED <<recency, upstream, current, active, file, saved, reader, crashes,
                     gone, astray>>
  BY DEF FillGivesUp
<1>5. e.class = entry[k].class /\ e.complete = entry[k].complete /\ (e # Absent <=> entry[k] # Absent)
  <2>1. CASE entry[k] = Absent
    BY <2>1
  <2>2. CASE entry[k] # Absent
    <3>1. entry[k] \in [class : Classes, complete : BOOLEAN, failed : BOOLEAN]
      BY <1>1, <2>2 DEF Entries
    <3>2. e.class = entry[k].class /\ e.complete = entry[k].complete
      BY <2>2, <3>1
    <3> QED
      BY <2>2, <3>1, <3>2, CacheConstants DEF Absent
  <2> QED
    BY <2>1, <2>2
<1> HIDE DEF x, e
<1>6. /\ fill'[f] = x /\ \A g \in FillIds : g # f => fill'[g] = fill[g]
      /\ entry'[k] = e /\ \A j \in Keys : j # k => entry'[j] = entry[j]
  BY <1>1, <1>4 DEF Inv, TypeOK
<1>7. ~ entry[k].complete
  BY <1>1, <1>2 DEF FillOk, Complete, Has, Absent
<1>8. \A j \in Keys : /\ Complete(j)' <=> Complete(j)
                      /\ ClassOf(j)' = ClassOf(j) /\ entry'[j].class = entry[j].class
  BY <1>5, <1>6, <1>7 DEF Complete, Has, ClassOf
<1>9. Whole'
  BY <1>4, <1>8 DEF Whole, WholeAt
<1>10. FillOk(f)'
  BY <1>1, <1>2, <1>3, <1>4, <1>6, <1>8 DEF FillOk
<1> QED
  BY <1>1, <1>3, <1>4, <1>6, <1>8, <1>9, <1>10, FillStepWhole

LEMMA FillLeavesWhole ==
    ASSUME WholeInv, NEW f \in FillIds, FillLeaves(f)
    PROVE  Whole' /\ Filling' /\ Serves'
<1> USE DEF WholeInv
<1> DEFINE x == IF \E r \in Readers : reader[r].fill = f THEN Result(f) ELSE NoFill
<1>1. fill[f] \in Fills /\ fill[f].pc = "end" /\ Live(f) /\ fill[f] # NoFill
  BY NoFillType DEF FillLeaves, FillAt, Inv, TypeOK, Live
<1>2. fill' = [fill EXCEPT ![f] = x] /\ Save(entry, recency)
      /\ UNCHANGED <<entry, recency, upstream, file, reader, crashes, astray>>
  BY DEF FillLeaves
<1>3. FillOk(f)
  BY DEF Filling
<1>4. /\ Result(f).pc = "off" /\ Result(f).key = fill[f].key /\ Result(f).filled = fill[f].filled
      /\ Result(f).total = fill[f].total /\ Result(f).complete = fill[f].complete
      /\ Result(f).failed = fill[f].failed
  BY DEF Result, NoFill
<1>5. NoFill.pc = "off" /\ ~ NoFill.complete
  BY DEF NoFill
<1>6. x \in {Result(f), NoFill} /\ ((\E r \in Readers : reader[r].fill = f) => x = Result(f))
  OBVIOUS
<1> HIDE DEF x
<1>7. fill'[f] = x /\ \A g \in FillIds : g # f => fill'[g] = fill[g]
  BY <1>2 DEF Inv, TypeOK
<1>12. \A k \in Keys : (Complete(k)' <=> Complete(k)) /\ ClassOf(k)' = ClassOf(k)
  BY <1>2 DEF Complete, Has, ClassOf
<1>8. Whole'
  <2>1. Save(entry', recency)
    BY <1>2
  <2> QED
    BY <1>2, <1>12, <2>1, SavedWhole
<1>13. \A k \in Keys : Stays(k)
  BY <1>2, <1>12 DEF Stays, Registered
<1>9. FillOk(f)'
  BY <1>1, <1>2, <1>3, <1>4, <1>5, <1>6, <1>7 DEF FillOk
<1>10. \A g \in FillIds \ {f} : FillOk(g)'
  <2>1. \A g \in FillIds : Live(g) => fill[g].key \in Keys
    BY DEF Inv, Paired
  <2> QED
    BY <1>2, <1>7, <1>12, <1>13, <2>1, FillsStay
<1>11. Serves'
  <2>2. \A r \in Readers : reader[r].fill # None /\ fill[reader[r].fill].failed =>
           fill'[reader[r].fill].failed
    BY <1>4, <1>6, <1>7, HeldFill
  <2> QED
    BY <1>2, <1>13, <2>2, RequestsStay DEF Serves
<1> QED
  BY <1>8, <1>9, <1>10, <1>11 DEF Filling

LEMMA FillThreadWhole ==
    ASSUME WholeInv, NEW f \in FillIds, FillThread(f)
    PROVE  Whole' /\ Filling' /\ Serves'
  BY FillWorksWhole, FillIndexWhole, FillGivesUpWhole, FillLeavesWhole DEF FillThread

\* A step of a request that leaves entries, files and fills alone.
LEMMA RequestStepWhole ==
    ASSUME WholeInv, NEW r \in Readers, NEW x, reader' = [reader EXCEPT ![r] = x],
           x.key \notin astray' => RequestIs(x), astray \subseteq astray',
           UNCHANGED <<entry, upstream, file, saved, fill, gone, crashes>>
    PROVE  Whole' /\ Filling' /\ Serves'
<1> USE DEF WholeInv
<1>1. reader'[r] = x /\ \A q \in Readers : q # r => reader'[q] = reader[q]
  BY DEF Inv, TypeOK
<1>2. \A k \in Keys : /\ Complete(k)' <=> Complete(k)
                      /\ ClassOf(k)' = ClassOf(k) /\ (Registered(k)' <=> Registered(k))
  BY DEF Has, Complete, ClassOf, Registered
<1>3. Whole'
  BY <1>2 DEF Whole, WholeAt
<1>4. \A k \in Keys : Stays(k)
  BY <1>2 DEF Stays
<1>5. Filling'
  <2>1. \A f \in FillIds : Live(f) => fill[f].key \in Keys
    BY DEF Inv, Paired
  <2> QED
    BY <1>2, <1>4, <2>1, FillsStay DEF Filling
<1>6. RequestOk(r)'
  <2>1. RequestIs(x) => RequestIs(x)'
    BY DEF RequestIs, Known, Registered, Has, Complete, ClassOf
  <2> QED
    BY <1>1, <2>1 DEF RequestOk, RequestIs, Known, Registered, Has, Complete, ClassOf
<1>7. \A q \in Readers \ {r} : RequestOk(q)'
  BY <1>1, <1>4, RequestsStay
<1> QED
  BY <1>3, <1>5, <1>6, <1>7 DEF Serves

LEMMA RequestArrivesWhole ==
    ASSUME WholeInv, NEW r \in Readers, NEW c \in Classes, NEW k \in Keys,
           Request(r, c, k) \/ LookupUnknown(r) \/ Refuse(r)
    PROVE  Whole' /\ Filling' /\ Serves'
<1> USE DEF WholeInv
<1>1. NoReader.pc = "off" /\ NoReader.outcome = "none"
  BY DEF NoReader
<1>2. CASE Request(r, c, k)
  <2>1. PICK seek \in BOOLEAN :
          reader' = [reader EXCEPT ![r] = [NoReader EXCEPT !.pc = "lookup", !.class = c,
                                                           !.key = k, !.seek = seek]]
    BY <1>2 DEF Request
  <2> DEFINE x == [NoReader EXCEPT !.pc = "lookup", !.class = c, !.key = k, !.seek = seek]
  <2>2. x.pc = "lookup" /\ x.key = k /\ x.length = 0 /\ x.pos = 0 /\ x.outcome = "none"
    BY DEF NoReader
  <2> HIDE DEF x
  <2>5. Size[k] \in Nat
    BY PathFacts
  <2>3. RequestIs(x)
    BY <2>2, <2>5 DEF RequestIs
  <2>4. reader' = [reader EXCEPT ![r] = x]
    BY <2>1 DEF x
  <2> QED
    BY <1>2, <2>3, <2>4, RequestStepWhole DEF Request, inner
<1>3. CASE LookupUnknown(r)
  <2> DEFINE x == [reader[r] EXCEPT !.pc = "refused"]
  <2>1. reader[r] \in Requests /\ reader[r].pc = "lookup"
    BY <1>3 DEF LookupUnknown, ReaderAt, Inv, TypeOK
  <2>2. /\ x.pc = "refused" /\ x.key = reader[r].key /\ x.length = reader[r].length
        /\ x.pos = reader[r].pos /\ x.fill = reader[r].fill /\ x.outcome = reader[r].outcome
    BY <2>1 DEF Requests
  <2>3. reader' = [reader EXCEPT ![r] = x]
    BY <1>3 DEF LookupUnknown, Goes
  <2> HIDE DEF x
  <2>4. RequestOk(r)
    BY DEF Serves
  <2>5. x.key \notin astray => RequestIs(x)
    BY <2>1, <2>2, <2>4 DEF RequestOk, RequestIs
  <2> QED
    BY <1>3, <2>3, <2>5, RequestStepWhole DEF LookupUnknown, inner
<1>4. CASE Refuse(r)
  <2>1. RequestIs(NoReader)
    BY <1>1 DEF RequestIs
  <2> QED
    BY <1>4, <2>1, RequestStepWhole DEF Refuse, inner
<1> QED
  BY <1>2, <1>3, <1>4

\* The steps of a request that is known and does not start a fill.
LEMMA ServingWhole ==
    ASSUME WholeInv, NEW r \in Readers,
           \/ LookupKnown(r)
           \/ Check(r) \/ DiskOpen(r) \/ DiskMissing(r) \/ DiskCopy(r) \/ Forward(r)
           \/ ForwardRange(r) \/ JoinFill(r) \/ FillIsOver(r) \/ Headers(r)
           \/ HeadersTimeout(r) \/ Open(r) \/ OpenTimeout(r) \/ SendHead(r) \/ Stream(r)
           \/ Send(r) \/ StreamDry(r) \/ Peek(r) \/ Trailer(r) \/ Answer(r)
           \/ PlayerLeaves(r)
    PROVE  Whole' /\ Filling' /\ Serves'
<1> USE DEF ReaderAt, WholeInv
<1> PICK k : k = reader[r].key
  OBVIOUS
<1>1. reader[r] \in Requests /\ reader[r].pc \notin {"off", "refused"}
  BY DEF Inv, TypeOK, LookupKnown, Check, DiskOpen, DiskMissing, DiskCopy, Forward, ForwardRange,
         JoinFill, FillIsOver, Headers, HeadersTimeout, Open, OpenTimeout, SendHead, Stream, Send,
         StreamDry, Peek, Trailer, Answer, AtWrite, PlayerLeaves
<1>2. k \in Keys /\ reader[r].class \in Classes
  BY <1>1, CacheConstants DEF Inv, Held
<1>3. /\ Size[k] \in Nat /\ Size[k] > 0
      /\ file[PathOf(r)] \in Nat \cup {Missing} /\ file[PathOf(r)] <= Size[k]
  <2>1. PathOf(r) = <<reader[r].class, k>>
    BY DEF PathOf
  <2>2. PathOf(r) \in Paths /\ Size[k] \in Nat /\ Size[k] > 0
    BY <1>2, <2>1, PathFacts
  <2>3. file[PathOf(r)] \in Nat \cup {Missing}
    BY <2>2 DEF Inv, TypeOK
  <2>4. file[PathOf(r)] <= Size[k]
    BY <1>2, <2>1 DEF Whole, WholeAt
  <2> QED
    BY <2>2, <2>3, <2>4
<1> DEFINE Ok == k \notin astray'
<1>4. astray \subseteq astray' /\ (Ok => RequestIs(reader[r]))
  <2>1. astray \subseteq astray'
    BY DEF LookupKnown, Strays, Check, DiskOpen, DiskMissing, DiskCopy, Forward, ForwardRange,
           JoinFill, FillIsOver, Headers, HeadersTimeout, Open, OpenTimeout, SendHead, Stream,
           Send, StreamDry, Peek, Trailer, Answer, PlayerLeaves, inner
  <2> QED
    BY <2>1 DEF Serves, RequestOk
<1>25. Ok /\ reader[r].pc # "lookup" /\ Complete(k) => file[PathOf(r)] = Size[k]
  <2>1. Ok /\ reader[r].pc # "lookup" => PathOf(r) = <<ClassOf(k), k>>
    BY <1>1, <1>4 DEF PathOf, RequestIs
  <2> QED
    BY <1>2, <1>4, <2>1 DEF Whole, WholeAt
<1>5. reader[r].pc \in Following =>
        /\ reader[r].fill \in FillIds /\ FillOf(r) \in Fills
        /\ FillOf(r).total \in {0, Size[k]}
        /\ FillOf(r).complete => FillOf(r).filled = Size[k]
        /\ reader[r].fill # None
  <2> SUFFICES ASSUME reader[r].pc \in Following
               PROVE  /\ reader[r].fill \in FillIds /\ FillOf(r) \in Fills
                      /\ FillOf(r).total \in {0, Size[k]}
                      /\ FillOf(r).complete => FillOf(r).filled = Size[k]
                      /\ reader[r].fill # None
    OBVIOUS
  <2>1. reader[r].fill # None
    BY DEF Inv, Held
  <2>2. reader[r].fill \in FillIds /\ fill[reader[r].fill] # NoFill /\ fill[reader[r].fill].key = k
    BY <2>1, HeldFill
  <2>3. FillOk(reader[r].fill)
    BY <2>2 DEF Filling
  <2> QED
    BY <2>1, <2>2, <2>3 DEF FillOf, FillOk, Inv, TypeOK
<1> HIDE DEF Ok
<1> DEFINE To(pc) == [reader[r] EXCEPT !.pc = pc]
           End(pc, outcome) == [reader[r] EXCEPT !.pc = pc, !.outcome = outcome]
<1>6. \A pc : /\ To(pc).pc = pc /\ To(pc).key = k /\ To(pc).length = reader[r].length
              /\ To(pc).pos = reader[r].pos /\ To(pc).fill = reader[r].fill
              /\ To(pc).outcome = reader[r].outcome /\ To(pc).class = reader[r].class
  BY <1>1 DEF Requests
<1>7. \A pc, o : /\ End(pc, o).pc = pc /\ End(pc, o).key = k
                 /\ End(pc, o).length = reader[r].length /\ End(pc, o).pos = reader[r].pos
                 /\ End(pc, o).fill = reader[r].fill /\ End(pc, o).outcome = o
                 /\ End(pc, o).class = reader[r].class
  BY <1>1 DEF Requests
<1> HIDE DEF To, End
<1>8. ASSUME NEW o, Answered(r, o) \/ Replies(r, o),
             UNCHANGED <<inner, file, saved, fill, crashes>>, reader[r].pc # "lookup",
             Ok /\ o = "served" =>
               reader[r].pos = Size[k]
               \/ (reader[r].length = 0 /\ reader[r].fill # None /\ fill[reader[r].fill].failed),
             Ok /\ o = "short" => reader[r].fill # None /\ fill[reader[r].fill].failed
      PROVE  Whole' /\ Filling' /\ Serves'
  <2>1. PICK pc \in Answering : reader' = [reader EXCEPT ![r] = End(pc, o)]
    BY <1>8 DEF Answered, Replies, End
  <2>2. Ok => RequestIs(End(pc, o))
    BY <1>1, <1>4, <1>7, <1>8 DEF RequestIs
  <2> QED
    BY <1>7, <1>8, <2>1, <2>2, RequestStepWhole DEF inner, Ok
<1>9. ASSUME NEW pc, Goes(r, pc), UNCHANGED <<entry, upstream, file, saved, fill, gone, crashes>>,
             Ok => RequestIs(To(pc))
      PROVE  Whole' /\ Filling' /\ Serves'
  <2>1. reader' = [reader EXCEPT ![r] = To(pc)]
    BY <1>9 DEF Goes, To
  <2> QED
    BY <1>4, <1>6, <1>9, <2>1, RequestStepWhole DEF Ok
<1>26. ASSUME NEW x, reader' = [reader EXCEPT ![r] = x], x.key = k, Ok => RequestIs(x),
              UNCHANGED <<inner, file, saved, fill, crashes>>
       PROVE  Whole' /\ Filling' /\ Serves'
  BY <1>4, <1>26, RequestStepWhole DEF inner, Ok
<1>10. CASE LookupKnown(r)
  <2>1. Ok => reader[r].class = ClassOf(k)
    BY <1>10 DEF Ok, LookupKnown, Strays
  <2>2. Ok => RequestIs(To("check"))
    BY <1>1, <1>4, <1>6, <1>10, <2>1 DEF RequestIs, LookupKnown
  <2> QED
    BY <1>9, <1>10, <2>2 DEF LookupKnown
<1>11. CASE Check(r)
  <2>1. CASE Complete(k)
    <3>1. Ok => RequestIs(To("disk"))
      BY <1>1, <1>4, <1>6, <1>11, <2>1 DEF RequestIs, Check
    <3> QED
      BY <1>9, <1>11, <2>1, <3>1 DEF Check, inner
  <2>2. CASE ~ Complete(k)
    <3>1. Ok => RequestIs(To("fill"))
      BY <1>1, <1>4, <1>6, <1>11, <2>2 DEF RequestIs, Check
    <3> QED
      BY <1>9, <1>11, <2>2, <3>1 DEF Check, inner
  <2> QED
    BY <2>1, <2>2
<1>12. CASE DiskOpen(r)
  <2> DEFINE x == [reader[r] EXCEPT !.pc = "copy", !.length = file[PathOf(r)]]
  <2>1. /\ x.pc = "copy" /\ x.length = file[PathOf(r)] /\ x.key = k /\ x.pos = reader[r].pos
        /\ x.fill = reader[r].fill /\ x.outcome = reader[r].outcome
        /\ x.class = reader[r].class
    BY <1>1 DEF Requests
  <2>2. reader' = [reader EXCEPT ![r] = x]
    BY <1>12 DEF DiskOpen
  <2> HIDE DEF x
  <2>3. Ok => RequestIs(x)
    BY <1>1, <1>3, <1>4, <1>12, <1>25, <2>1 DEF RequestIs, DiskOpen
  <2> QED
    BY <1>12, <1>26, <2>1, <2>2, <2>3 DEF DiskOpen
<1>27. CASE DiskMissing(r)
  BY <1>8, <1>27 DEF DiskMissing
<1>13. CASE DiskCopy(r)
  <2> DEFINE o == IF file[PathOf(r)] >= reader[r].length THEN "served" ELSE "short"
             x == [reader[r] EXCEPT !.pc = "leave", !.pos = file[PathOf(r)], !.outcome = o]
  <2>1. /\ x.pc = "leave" /\ x.length = reader[r].length /\ x.key = k
        /\ x.pos = file[PathOf(r)] /\ x.fill = reader[r].fill /\ x.outcome = o
        /\ x.class = reader[r].class
    BY <1>1 DEF Requests
  <2>2. reader' = [reader EXCEPT ![r] = x]
    BY <1>13 DEF DiskCopy
  <2>3. Ok => file[PathOf(r)] = Size[k] /\ reader[r].length = Size[k]
    BY <1>4, <1>13, <1>25 DEF RequestIs, DiskCopy
  <2>4. Ok => o = "served"
    BY <1>3, <2>3
  <2>6. Ok => reader[r].class = ClassOf(k)
    BY <1>4, <1>13 DEF RequestIs, DiskCopy
  <2> HIDE DEF x, o
  <2>5. Ok => RequestIs(x)
    BY <1>3, <2>1, <2>3, <2>4, <2>6 DEF RequestIs
  <2> QED
    BY <1>13, <1>26, <2>1, <2>2, <2>5 DEF DiskCopy
<1>14. CASE Forward(r)
  <2>1. Ok => RequestIs(To("forward"))
    BY <1>1, <1>4, <1>6, <1>14 DEF RequestIs, Forward
  <2> QED
    BY <1>8, <1>9, <1>14, <2>1 DEF Forward, inner
<1>28. CASE ForwardRange(r)
  BY <1>8, <1>28 DEF ForwardRange
<1>15. CASE JoinFill(r)
  <2> DEFINE x == [reader[r] EXCEPT !.pc = "wait", !.fill = current[k]]
  <2>1. /\ x.pc = "wait" /\ x.length = reader[r].length /\ x.key = k
        /\ x.pos = reader[r].pos /\ x.outcome = reader[r].outcome
        /\ x.class = reader[r].class
    BY <1>1 DEF Requests
  <2>2. reader' = [reader EXCEPT ![r] = x]
    BY <1>15 DEF JoinFill
  <2> HIDE DEF x
  <2>3. Ok => RequestIs(x)
    BY <1>1, <1>4, <1>15, <2>1 DEF RequestIs, JoinFill
  <2> QED
    BY <1>15, <1>26, <2>1, <2>2, <2>3 DEF JoinFill
<1>16. CASE FillIsOver(r)
  <2>1. Ok => RequestIs(To("disk"))
    BY <1>1, <1>4, <1>6, <1>16 DEF RequestIs, FillIsOver, Known
  <2> QED
    BY <1>9, <1>16, <2>1 DEF FillIsOver, inner
<1>17. CASE Headers(r)
  <2>1. CASE FillOf(r).failed
    BY <1>8, <1>17, <2>1 DEF Headers
  <2>2. CASE ~ FillOf(r).failed
    <3> DEFINE x == [reader[r] EXCEPT !.pc = "open", !.length = FillOf(r).total]
    <3>1. /\ x.pc = "open" /\ x.length = FillOf(r).total /\ x.key = k
          /\ x.pos = reader[r].pos /\ x.outcome = reader[r].outcome
          /\ x.class = reader[r].class
      BY <1>1 DEF Requests
    <3>2. reader' = [reader EXCEPT ![r] = x]
      BY <1>17, <2>2 DEF Headers
    <3> HIDE DEF x
    <3>3. Ok => RequestIs(x)
      BY <1>1, <1>3, <1>4, <1>5, <1>17, <3>1 DEF RequestIs, Headers
    <3> QED
      BY <1>17, <1>26, <3>1, <3>2, <3>3 DEF Headers
  <2> QED
    BY <2>1, <2>2
<1>18. CASE HeadersTimeout(r)
  <2> DEFINE x == [reader[r] EXCEPT !.pc = "open", !.length = 0]
  <2>1. /\ x.pc = "open" /\ x.length = 0 /\ x.key = k
        /\ x.pos = reader[r].pos /\ x.outcome = reader[r].outcome
        /\ x.class = reader[r].class
    BY <1>1 DEF Requests
  <2>2. reader' = [reader EXCEPT ![r] = x]
    BY <1>18 DEF HeadersTimeout
  <2> HIDE DEF x
  <2>3. Ok => RequestIs(x)
    BY <1>1, <1>4, <1>18, <2>1 DEF RequestIs, HeadersTimeout
  <2> QED
    BY <1>18, <1>26, <2>1, <2>2, <2>3 DEF HeadersTimeout
<1>19. CASE Open(r)
  <2>1. Ok => RequestIs(To("head"))
    BY <1>1, <1>4, <1>6, <1>19 DEF RequestIs, Open
  <2> QED
    BY <1>9, <1>19, <2>1 DEF Open, inner
<1>20. CASE OpenTimeout(r)
  BY <1>8, <1>20 DEF OpenTimeout
<1>29. CASE SendHead(r)
  <2>1. Ok => RequestIs(To("stream"))
    BY <1>1, <1>4, <1>6, <1>29 DEF RequestIs, SendHead
  <2> QED
    BY <1>9, <1>29, <2>1 DEF SendHead, inner
<1>30. CASE Stream(r)
  <2>1. Ok => reader[r].pos < Size[k]
    <3>1. Ok => reader[r].pos \in 0 .. Size[k]
      BY <1>1, <1>4 DEF RequestIs
    <3> QED
      BY <1>3, <1>30, <3>1 DEF Stream, Missing
  <2>2. Ok => RequestIs(To("send"))
    BY <1>1, <1>4, <1>6, <1>30, <2>1 DEF RequestIs, Stream
  <2> QED
    BY <1>9, <1>30, <2>2 DEF Stream, inner
<1>21. CASE Send(r)
  <2> DEFINE last == reader[r].pos + 1 = reader[r].length
             n == reader[r].pos + 1
             pc == IF last THEN "leave" ELSE "stream"
             o == IF last THEN "served" ELSE reader[r].outcome
             x == [reader[r] EXCEPT !.pos = n, !.pc = pc, !.outcome = o]
  <2>1. reader' = [reader EXCEPT ![r] = x]
    BY <1>21 DEF Send
  <2>2. Ok => /\ reader[r].pos \in 0 .. Size[k] /\ reader[r].length \in {0, Size[k]}
              /\ reader[r].outcome = "none" /\ reader[r].pos < Size[k]
              /\ reader[r].class = ClassOf(k)
    BY <1>1, <1>4, <1>21 DEF RequestIs, Send
  <2>3. Ok => n \in 0 .. Size[k] /\ n > 0
    BY <1>3, <2>2
  <2>4. Ok => /\ last => n = Size[k] /\ pc = "leave" /\ o = "served"
              /\ ~ last => pc = "stream" /\ o = "none" /\ (reader[r].length # 0 => n < Size[k])
    BY <1>3, <2>2, <2>3
  <2> HIDE DEF n, pc, o, last
  <2>5. /\ x.pc = pc /\ x.length = reader[r].length /\ x.key = k /\ x.pos = n /\ x.outcome = o
        /\ x.class = reader[r].class
    BY <1>1 DEF Requests
  <2> HIDE DEF x
  <2>6. Ok => RequestIs(x)
    BY <2>2, <2>3, <2>4, <2>5 DEF RequestIs
  <2> QED
    BY <1>21, <1>26, <2>1, <2>5, <2>6 DEF Send
<1>22. CASE StreamDry(r)
  <2>1. Ok => RequestIs(To("peek"))
    BY <1>1, <1>4, <1>6, <1>22 DEF RequestIs, StreamDry
  <2> QED
    BY <1>9, <1>22, <2>1 DEF StreamDry, inner
<1>23. CASE Peek(r)
  <2>1. CASE FillOf(r).failed \/ (FillOf(r).complete /\ FillOf(r).filled <= reader[r].pos)
    <3>1. Over(r) /\ reader[r].pc = "peek"
      BY <1>23, <2>1 DEF Peek
    <3>2. reader[r].fill # None /\ (FillOf(r).failed \/ Size[k] <= reader[r].pos)
      BY <1>5, <2>1, <3>1
    <3>3. Ok => reader[r].pos \in 0 .. Size[k] /\ (reader[r].length # 0 => reader[r].pos < Size[k])
      BY <1>4, <3>1 DEF RequestIs
    <3>4. Ok => FillOf(r).failed \/ (reader[r].length = 0 /\ reader[r].pos = Size[k])
      BY <1>3, <3>2, <3>3
    <3>5. CASE reader[r].length = 0
      <4>1. Ok => RequestIs(To("trailer"))
        BY <1>4, <1>6, <3>1, <3>2, <3>3, <3>4, <3>5 DEF RequestIs, FillOf
      <4> QED
        BY <1>9, <1>23, <3>1, <3>5, <4>1 DEF Over, Peek, inner
    <3>6. CASE reader[r].length # 0
      BY <1>8, <1>23, <3>1, <3>2, <3>4, <3>6 DEF Over, Peek, FillOf
    <3> QED
      BY <3>5, <3>6
  <2>2. CASE ~ (FillOf(r).failed \/ (FillOf(r).complete /\ FillOf(r).filled <= reader[r].pos))
    <3>1. Ok => RequestIs(To("stream"))
      BY <1>1, <1>4, <1>6, <1>23 DEF RequestIs, Peek
    <3> QED
      BY <1>9, <1>23, <2>2, <3>1 DEF Peek, inner
  <2> QED
    BY <2>1, <2>2
<1>31. CASE Trailer(r)
  <2>1. Ok => /\ reader[r].length = 0
              /\ reader[r].pos = Size[k] \/ (reader[r].fill # None /\ fill[reader[r].fill].failed)
    BY <1>4, <1>31 DEF Trailer, RequestIs
  <2> QED
    BY <1>8, <1>31, <2>1 DEF Trailer
<1>32. CASE Answer(r)
  <2>1. Ok => RequestIs(To("leave"))
    BY <1>1, <1>4, <1>6, <1>32 DEF RequestIs, Answer
  <2> QED
    BY <1>9, <1>32, <2>1 DEF Answer, inner
<1>24. CASE PlayerLeaves(r)
  BY <1>8, <1>24 DEF PlayerLeaves, AtWrite
<1> QED
  BY <1>10, <1>11, <1>12, <1>13, <1>14, <1>15, <1>16, <1>17, <1>18, <1>19, <1>20,
     <1>21, <1>22, <1>23, <1>24, <1>27, <1>28, <1>29, <1>30, <1>31, <1>32

LEMMA NewFillWhole ==
    ASSUME WholeInv, NEW r \in Readers, NewFill(r)
    PROVE  Whole' /\ Filling' /\ Serves'
<1> USE DEF WholeInv
<1> PICK k : k = reader[r].key
  OBVIOUS
<1> DEFINE x == [reader[r] EXCEPT !.pc = "wait", !.fill = current'[k]]
<1>1. reader[r] \in Requests /\ reader[r].pc = "fill"
  BY DEF NewFill, ReaderAt, Inv, TypeOK
<1>2. k \in Keys
  BY <1>1, CacheConstants DEF Inv, Held
<1>3. /\ ~ Complete(k) /\ StartFill(k) /\ reader' = [reader EXCEPT ![r] = x]
      /\ UNCHANGED <<entry, recency, file, saved, crashes, gone, astray>>
  BY DEF NewFill
<1>4. /\ x.pc = "wait" /\ x.length = reader[r].length /\ x.key = k
      /\ x.pos = reader[r].pos /\ x.outcome = reader[r].outcome
      /\ x.class = reader[r].class
  BY <1>1 DEF Requests
<1> HIDE DEF x
<1>5. reader'[r] = x /\ \A q \in Readers : q # r => reader'[q] = reader[q]
  BY <1>3 DEF Inv, TypeOK
<1>6. \A j \in Keys : (Complete(j)' <=> Complete(j)) /\ ClassOf(j)' = ClassOf(j)
  BY <1>3 DEF Has, Complete, ClassOf
<1>7. Whole'
  BY <1>3, <1>6 DEF Whole, WholeAt
<1>8. PICK f \in FillIds :
        /\ fill[f] = NoFill
        /\ fill'[f] = [NoFill EXCEPT !.pc = "path", !.key = k]
        /\ \A g \in FillIds : g # f => fill'[g] = fill[g]
  BY <1>2, <1>3, StartedFill
<1>12. \A j \in Keys : Stays(j)
  <2>1. upstream' = [upstream EXCEPT ![k] = "tried"]
    BY <1>3 DEF StartFill
  <2> QED
    BY <1>6, <2>1 DEF Stays, Registered, Inv, TypeOK
<1>9. Filling'
  <2>1. FillOk(f)'
    BY <1>2, <1>3, <1>6, <1>8, StartedFillOk
  <2>2. \A g \in FillIds : Live(g) => fill[g].key \in Keys
    BY DEF Inv, Paired
  <2>3. \A g \in FillIds \ {f} : FillOk(g)'
    BY <1>3, <1>6, <1>8, <1>12, <2>2, FillsStay
  <2> QED
    BY <2>1, <2>3 DEF Filling
<1>10. RequestOk(r)'
  <2>1. k \notin astray => RequestIs(reader[r])
    BY DEF Serves, RequestOk
  <2> QED
    BY <1>1, <1>2, <1>3, <1>4, <1>5, <1>6, <2>1 DEF RequestOk, RequestIs
<1>11. \A q \in Readers \ {r} : RequestOk(q)'
  <2>3. \A q \in Readers : reader[q].fill # None /\ fill[reader[q].fill].failed =>
           fill'[reader[q].fill].failed
    BY <1>8, HeldFill
  <2> QED
    BY <1>3, <1>5, <1>12, <2>3, RequestsStay
<1> QED
  BY <1>7, <1>9, <1>10, <1>11 DEF Serves

LEMMA LeaveWhole ==
    ASSUME WholeInv, NEW r \in Readers, Leave(r)
    PROVE  Whole' /\ Filling' /\ Serves'
<1> USE DEF WholeInv
<1> DEFINE alone(g) == reader[r].fill = g /\ \A q \in Readers \ {r} : reader[q].fill # g
<1>1. /\ reader' = [reader EXCEPT ![r] = NoReader]
      /\ fill' = [f \in FillIds |-> IF alone(f) THEN Dropped(f) ELSE fill[f]]
      /\ UNCHANGED <<entry, upstream, current, file, saved, crashes, gone, astray>>
  BY DEF Leave
<1>2. reader'[r] = NoReader /\ \A q \in Readers : q # r => reader'[q] = reader[q]
  BY <1>1 DEF Inv, TypeOK
<1>3. \A f \in FillIds : (fill'[f] = NoFill \/ fill'[f] = fill[f])
                         /\ (~ alone(f) => fill'[f] = fill[f])
  BY <1>1 DEF Dropped
<1>4. /\ Whole' /\ \A k \in Keys : Complete(k)' <=> Complete(k)
      /\ \A k \in Keys : Stays(k)
  BY <1>1 DEF Whole, WholeAt, Has, Complete, ClassOf, Stays, Registered
<1>5. \A f \in FillIds : FillOk(f)'
  <2> TAKE f \in FillIds
  <2>1. CASE fill'[f] = NoFill
    <3>1. NoFill.pc = "off" /\ ~ NoFill.complete
      BY DEF NoFill
    <3> QED
      BY <2>1, <3>1 DEF FillOk
  <2>2. CASE fill'[f] = fill[f]
    <3>1. Live(f) => fill[f].key \in Keys
      BY DEF Inv, Paired
    <3>2. \A g \in {f} : FillOk(g)'
      BY <1>1, <1>4, <2>2, <3>1, FillsStay
    <3> QED
      BY <3>2
  <2> QED
    BY <1>3, <2>1, <2>2
<1>6. RequestOk(r)'
  <2>1. NoReader.pc = "off" /\ NoReader.outcome = "none"
    BY DEF NoReader
  <2> QED
    BY <1>2, <2>1 DEF RequestOk, RequestIs
<1>7. \A q \in Readers \ {r} : RequestOk(q)'
  <2>2. \A q \in Readers \ {r} : ~ alone(reader[q].fill)
    OBVIOUS
  <2> HIDE DEF alone
  <2>3. \A q \in Readers \ {r} : reader[q].fill # None /\ fill[reader[q].fill].failed =>
           fill'[reader[q].fill].failed
    BY <1>3, <2>2, HeldFill
  <2> QED
    BY <1>1, <1>2, <1>4, <2>3, RequestsStay
<1> QED
  BY <1>4, <1>5, <1>6, <1>7 DEF Filling, Serves

LEMMA ServeWhole ==
    ASSUME WholeInv, NEW r \in Readers, Serve(r)
    PROVE  Whole' /\ Filling' /\ Serves'
<1>1. CASE LookupUnknown(r) \/ Refuse(r)
  <2>1. PICK k \in Keys : TRUE
    BY <1>1, CacheConstants DEF LookupUnknown, Refuse, ReaderAt, WholeInv, Inv, Held
  <2> QED
    BY <1>1, <2>1, RequestArrivesWhole, CacheConstants
<1> QED
  BY <1>1, ServingWhole, NewFillWhole, LeaveWhole DEF Serve, Works, Writes

\* A restart forgets fills and requests and takes the entries of the index, whose
\* complete ones have their file.  What the index has as complete and was not
\* evicted since is whole.
LEMMA RestartWhole ==
    ASSUME WholeInv, Restart
    PROVE  Whole' /\ Filling' /\ Serves'
<1> USE DEF WholeInv
<1>1. /\ saved' = saved /\ file' = file /\ gone' = gone
      /\ fill' = [f \in FillIds |-> NoFill]
      /\ reader' = [r \in Readers |-> NoReader]
      /\ crashes < MaxCrashes /\ crashes \in Nat /\ crashes' = crashes + 1
  BY DEF Restart, Inv, TypeOK
<1>2. ASSUME NEW k \in Keys
      PROVE  WholeAt(k)'
  <2>1. WholeAt(k)
    BY DEF Whole
  <2> DEFINE keeps(j) == /\ saved.entry[j] # Absent
                         /\ saved.entry[j].complete =>
                               file[<<saved.entry[j].class, j>>] # Missing
  <2>11. /\ entry' = [j \in Keys |-> IF keeps(j) THEN saved.entry[j] ELSE Absent]
         /\ astray' = astray \cup {j \in gone : keeps(j) /\ saved.entry[j].complete}
    BY Zenon DEF Restart
  <2>2. /\ entry'[k] = IF keeps(k) THEN saved.entry[k] ELSE Absent
        /\ astray \subseteq astray'
        /\ k \in gone /\ keeps(k) /\ saved.entry[k].complete => k \in astray'
    <3> HIDE DEF keeps
    <3> QED
      BY <2>11
  <2>3. ~ Absent.complete
    BY DEF Absent
  <2>4. Size[k] # Missing
    <3>1. Size[k] \in Nat
      BY CacheConstants
    <3> QED
      BY <3>1, SMT DEF Missing
  \* What is complete again was evicted since the index was saved, or is whole.
  <2>5. ASSUME k \notin astray', saved.entry[k].complete, k \notin gone
        PROVE  entry'[k] = saved.entry[k] /\ file[<<saved.entry[k].class, k>>] = Size[k]
    <3>1. k \notin astray
      BY <2>2, <2>5
    <3>2. Complete(k) /\ entry[k].class = saved.entry[k].class /\ file[<<ClassOf(k), k>>] = Size[k]
      BY <1>1, <2>1, <2>5, <3>1 DEF WholeAt
    <3>3. file[<<saved.entry[k].class, k>>] = Size[k]
      BY <3>2 DEF Complete, ClassOf
    <3> QED
      BY <2>2, <2>3, <2>4, <2>5, <3>3
  <2>6. Complete(k)' => saved.entry[k].complete /\ entry'[k] = saved.entry[k] /\ entry'[k] # Absent
    BY <2>2, <2>3 DEF Complete, Has
  <2>7. Complete(k)' /\ k \in gone => k \in astray'
    BY <2>2, <2>6
  <2>8. k \notin astray' /\ Complete(k)' => file'[<<ClassOf(k)', k>>] = Size[k]
    <3>1. Complete(k)' => ClassOf(k)' = saved.entry[k].class
      BY <2>6 DEF Complete, Has, ClassOf
    <3> QED
      BY <1>1, <2>5, <2>6, <2>7, <3>1
  <2>9. k \notin astray' /\ k \notin gone' /\ saved'.entry[k].complete =>
          Complete(k)' /\ entry'[k].class = saved'.entry[k].class
    BY <1>1, <2>3, <2>5 DEF Complete, Has
  <2>10. \A c \in Classes : file'[<<c, k>>] <= Size[k]
    BY <1>1, <2>1 DEF WholeAt
  <2> QED
    BY <2>8, <2>9, <2>10 DEF WholeAt
<1>3. Filling'
  <2>1. NoFill.pc = "off" /\ ~ NoFill.complete
    BY DEF NoFill
  <2> QED
    BY <1>1, <2>1 DEF Filling, FillOk
<1>4. Serves'
  <2>1. NoReader.pc = "off" /\ NoReader.outcome = "none"
    BY DEF NoReader
  <2> QED
    BY <1>1, <2>1 DEF Serves, RequestOk, RequestIs
<1> QED
  BY <1>2, <1>3, <1>4 DEF Whole

LEMMA NextWhole ==
    ASSUME WholeInv, [Next]_vars
    PROVE  WholeInv'
<1>1. Inv'
  BY NextInv DEF WholeInv
<1>2. CASE UNCHANGED vars
  <2>1. Whole' /\ Filling'
    BY <1>2 DEF vars, WholeInv, Whole, WholeAt, Filling, FillOk, Has, Complete, ClassOf
  <2>2. Serves'
    BY <1>2 DEF vars, WholeInv, Serves, RequestOk, RequestIs, Known, Registered, Has, Complete,
                ClassOf
  <2> QED
    BY <1>1, <2>1, <2>2 DEF WholeInv
<1>3. CASE Next
  BY <1>1, <1>3, RegisterWhole, RequestArrivesWhole, FillThreadWhole, ServeWhole, RestartWhole
     DEF Next, WholeInv
<1> QED
  BY <1>2, <1>3

LEMMA WholeInvariance == Spec => []WholeInv
<1>1. Init => WholeInv
  BY InitWhole
<1>2. WholeInv /\ [Next]_vars => WholeInv'
  BY NextWhole
<1> QED
  BY <1>1, <1>2, PTL DEF Spec

\* A complete entry has its whole body on disk, whatever fills have been started,
\* have failed and have been repeated, and whenever the proxy was restarted: but for
\* the keys gone astray, used in another class than their entry's or brought back by
\* an index behind their eviction.
THEOREM EntriesAreWhole == Spec => []CompleteEntryIsWhole
<1>1. WholeInv => CompleteEntryIsWhole
  BY DEF WholeInv, Whole, WholeAt, Complete, ClassOf, CompleteEntryIsWhole
<1> QED
  BY <1>1, WholeInvariance, PTL

\* A player that is told it has the whole body has it, or an unannounced body whose
\* fill gave up, unless its key has gone astray.
THEOREM ServedBodiesAreWhole == Spec => []ServedIsWhole
<1>1. WholeInv => ServedIsWhole
  BY DEF WholeInv, Serves, RequestOk, RequestIs, ServedIsWhole, FillOf
<1> QED
  BY <1>1, WholeInvariance, PTL

\* No reset that a fill survives cuts a player off, unless its key has gone astray.
THEOREM ResetsCutNobodyOff == Spec => []CutOffOnlyByFailure
<1>1. WholeInv => CutOffOnlyByFailure
  BY DEF WholeInv, Serves, RequestOk, RequestIs, CutOffOnlyByFailure, FillOf
<1> QED
  BY <1>1, WholeInvariance, PTL

=============================================================================
