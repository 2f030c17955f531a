-------------------------- MODULE Caretaker_proofs --------------------------
(***************************************************************************)
(* What the caretaker leaves of the queue, and how much it still does under *)
(* a TUI that has attached, for any queue, window and number of events.    *)
(***************************************************************************)
EXTENDS Caretaker, FiniteSetTheorems, SequenceTheorems, TLAPS

\* A resolve is under way and its row still in the queue.
InFlight == pc \in {"resolve", "reread", "delete"}

\* As long as a resolve is under way, none has reached the attached TUI.
Inv ==
    /\ late \in {0, 1}
    /\ attached /\ InFlight => late = 0

\* At first nothing runs.
LEMMA InitInv == Init => Inv
  BY DEF Init, Inv, InFlight

\* Each action keeps the invariant: a resolve begins only while nobody is
\* attached, and only the end of one raises the count.
LEMMA NextInv == Inv /\ [Next]_vars => Inv'
<1> SUFFICES ASSUME Inv, [Next]_vars PROVE Inv'
  OBVIOUS
<1> USE DEF Inv, InFlight, history
<1>1. ASSUME pc' = pc, late' = late, attached' = attached
      PROVE  Inv'
  BY <1>1
<1>2. CASE MpdAdvances
  BY <1>2, <1>1 DEF MpdAdvances, daemonVars
<1>3. ASSUME NEW l \in Links, AddRow(l)
      PROVE  Inv'
  BY <1>3, <1>1 DEF AddRow, daemonVars
<1>4. ASSUME NEW i \in DOMAIN queue,
             \/ RemoveRow(i) \/ MoveToFront(i) \/ TuiSwaps(i)
             \/ StreamDrops(i) \/ StreamAnswersAgain(i)
      PROVE  Inv'
  BY <1>4, <1>1 DEF RemoveRow, MoveToFront, TuiSwaps, StreamDrops, StreamAnswersAgain, daemonVars
<1>5. CASE TuiStarts \/ TuiExits
  BY <1>5 DEF TuiStarts, TuiExits, daemonVars
<1>6. CASE WatcherStep
  <2>1. CASE Poll
    BY <2>1 DEF Poll
  <2>2. CASE Choose
    BY <2>2 DEF Choose, StandsDown
  <2>3. CASE Resolves \/ ResolveFails \/ Rereads
    <3>1. /\ pc \in {"resolve", "reread"}
          /\ late' = late /\ attached' = attached
      BY <2>3 DEF Resolves, ResolveFails, Rereads
    <3> QED
      BY <3>1
  <2>4. CASE Deletes
    BY <2>4 DEF Deletes
  <2>5. CASE Adds \/ AddFails
    BY <2>5 DEF Adds, AddFails, BacksOff, Warmed, Returns
  <2> QED
    BY <1>6, <2>1, <2>2, <2>3, <2>4, <2>5 DEF WatcherStep
<1>7. CASE DaemonEnds \/ DaemonStarts
  BY <1>7 DEF DaemonEnds, DaemonStarts
<1>8. CASE UNCHANGED vars
  BY <1>8, <1>1 DEF vars, daemonVars
<1> QED
  BY <1>2, <1>3, <1>4, <1>5, <1>6, <1>7, <1>8 DEF Next

\* From its start on, a TUI sees the caretaker take out at most one row, the
\* one whose resolve was running when it attached (warm_queue,
\* resolve_and_swap).
THEOREM AtMostOneLateSwap == Spec => []OneLateSwap
<1>1. Inv => OneLateSwap
  BY DEF Inv, OneLateSwap
<1> QED
  BY <1>1, InitInv, NextInv, PTL DEF Spec

-----------------------------------------------------------------------------
(* Taking a row out of a sequence and putting one in.                       *)

LEMMA ElementTypes ==
    ASSUME NEW S, NEW s \in Seq(S)
    PROVE  /\ Len(s) \in Nat /\ DOMAIN s = 1 .. Len(s)
           /\ \A i \in 1 .. Len(s) : s[i] \in S
  BY LenProperties, ElementOfSeq

LEMMA RemoveAtProperties ==
    ASSUME NEW S, NEW s \in Seq(S), NEW i \in 1 .. Len(s)
    PROVE  /\ RemoveAt(s, i) \in Seq(S)
           /\ Len(RemoveAt(s, i)) = Len(s) - 1
           /\ \A j \in 1 .. Len(s) - 1 :
                RemoveAt(s, i)[j] = IF j < i THEN s[j] ELSE s[j + 1]
<1> DEFINE a == SubSeq(s, 1, i - 1)
           b == SubSeq(s, i + 1, Len(s))
<1>1. Len(s) \in Nat /\ \A j \in 1 .. Len(s) : s[j] \in S
  BY ElementTypes
<1>2. a \in Seq(S) /\ Len(a) = i - 1 /\ \A j \in 1 .. i - 1 : a[j] = s[j]
  <2>1. 1 \in Int /\ i - 1 \in Int /\ \A j \in 1 .. i - 1 : s[j] \in S
    BY <1>1
  <2>2. /\ a \in Seq(S) /\ Len(a) = IF 1 <= i - 1 THEN i - 1 - 1 + 1 ELSE 0
        /\ \A j \in 1 .. i - 1 - 1 + 1 : a[j] = s[1 + j - 1]
    BY <2>1, SubSeqProperties
  <2> HIDE DEF a
  <2> QED
    BY <1>1, <2>2
<1>3. b \in Seq(S) /\ Len(b) = Len(s) - i /\ \A j \in 1 .. Len(s) - i : b[j] = s[j + i]
  <2>1. i + 1 \in Int /\ Len(s) \in Int /\ \A j \in i + 1 .. Len(s) : s[j] \in S
    BY <1>1
  <2>2. /\ b \in Seq(S) /\ Len(b) = IF i + 1 <= Len(s) THEN Len(s) - (i + 1) + 1 ELSE 0
        /\ \A j \in 1 .. Len(s) - (i + 1) + 1 : b[j] = s[i + 1 + j - 1]
    BY <2>1, SubSeqProperties
  <2> HIDE DEF b
  <2> QED
    BY <1>1, <2>2
<1>4. RemoveAt(s, i) = a \o b
  BY DEF RemoveAt
<1> HIDE DEF a, b
<1>5. /\ a \o b \in Seq(S) /\ Len(a \o b) = Len(a) + Len(b)
      /\ \A j \in 1 .. Len(a) + Len(b) :
           (a \o b)[j] = IF j <= Len(a) THEN a[j] ELSE b[j - Len(a)]
  BY <1>2, <1>3, ConcatProperties
<1>6. ASSUME NEW j \in 1 .. Len(s) - 1
      PROVE  (a \o b)[j] = IF j < i THEN s[j] ELSE s[j + 1]
  <2>1. (a \o b)[j] = IF j <= i - 1 THEN a[j] ELSE b[j - (i - 1)]
    BY <1>1, <1>2, <1>3, <1>5
  <2>2. CASE j < i
    BY <1>1, <1>2, <2>1, <2>2
  <2>3. CASE ~ (j < i)
    <3>1. j - (i - 1) \in 1 .. Len(s) - i /\ j - (i - 1) + i = j + 1 /\ ~ (j <= i - 1)
      BY <1>1, <2>3
    <3> QED
      BY <1>3, <2>1, <2>3, <3>1
  <2> QED
    BY <2>2, <2>3
<1>7. Len(a) + Len(b) = Len(s) - 1
  BY <1>1, <1>2, <1>3
<1>8. RemoveAt(s, i) \in Seq(S) /\ Len(RemoveAt(s, i)) = Len(s) - 1
  BY <1>4, <1>5, <1>7
<1>9. \A j \in 1 .. Len(s) - 1 : RemoveAt(s, i)[j] = IF j < i THEN s[j] ELSE s[j + 1]
  BY <1>4, <1>6
<1> QED
  BY <1>8, <1>9

LEMMA Inserted ==
    ASSUME NEW S, NEW s \in Seq(S), NEW i \in 1 .. Len(s) + 1, NEW e \in S,
           NEW j \in 1 .. Len(s) + 1
    PROVE  /\ InsertAt(s, i, e) \in Seq(S)
           /\ Len(InsertAt(s, i, e)) = Len(s) + 1
           /\ InsertAt(s, i, e)[j] = IF j < i THEN s[j] ELSE IF j = i THEN e ELSE s[j - 1]
<1> DEFINE a == SubSeq(s, 1, i - 1)
           b == SubSeq(s, i, Len(s))
           c == a \o <<e>>
<1>1. Len(s) \in Nat /\ \A n \in 1 .. Len(s) : s[n] \in S
  BY ElementTypes
<1>2. a \in Seq(S) /\ Len(a) = i - 1 /\ \A n \in 1 .. i - 1 : a[n] = s[n]
  <2>1. 1 \in Int /\ i - 1 \in Int /\ \A n \in 1 .. i - 1 : s[n] \in S
    BY <1>1
  <2>2. /\ a \in Seq(S) /\ Len(a) = IF 1 <= i - 1 THEN i - 1 - 1 + 1 ELSE 0
        /\ \A n \in 1 .. i - 1 - 1 + 1 : a[n] = s[1 + n - 1]
    BY <2>1, SubSeqProperties
  <2> HIDE DEF a
  <2> QED
    BY <1>1, <2>2
<1>3. b \in Seq(S) /\ Len(b) = Len(s) - i + 1 /\ \A n \in 1 .. Len(s) - i + 1 : b[n] = s[n + i - 1]
  <2>1. i \in Int /\ Len(s) \in Int /\ \A n \in i .. Len(s) : s[n] \in S
    BY <1>1
  <2>2. /\ b \in Seq(S) /\ Len(b) = IF i <= Len(s) THEN Len(s) - i + 1 ELSE 0
        /\ \A n \in 1 .. Len(s) - i + 1 : b[n] = s[i + n - 1]
    BY <2>1, SubSeqProperties
  <2> HIDE DEF b
  <2> QED
    BY <1>1, <2>2
<1>4. <<e>> \in Seq(S) /\ Len(<<e>>) = 1 /\ <<e>>[1] = e
  OBVIOUS
<1>5. InsertAt(s, i, e) = c \o b
  BY DEF InsertAt
<1> HIDE DEF a, b
<1>6. /\ c \in Seq(S) /\ Len(c) = i
      /\ \A n \in 1 .. i : c[n] = IF n <= i - 1 THEN a[n] ELSE <<e>>[n - (i - 1)]
  <2>1. /\ c \in Seq(S) /\ Len(c) = Len(a) + Len(<<e>>)
        /\ \A n \in 1 .. Len(a) + Len(<<e>>) :
             c[n] = IF n <= Len(a) THEN a[n] ELSE <<e>>[n - Len(a)]
    BY <1>2, <1>4, ConcatProperties
  <2>2. Len(a) = i - 1 /\ Len(<<e>>) = 1
    BY <1>2, <1>4
  <2>3. Len(a) + Len(<<e>>) = i
    BY <2>2
  <2> HIDE DEF c
  <2>4. c \in Seq(S) /\ Len(c) = i
    BY <2>1, <2>3
  <2>5. \A n \in 1 .. i : c[n] = IF n <= Len(a) THEN a[n] ELSE <<e>>[n - Len(a)]
    BY <2>1, <2>3
  <2> QED
    BY <2>2, <2>4, <2>5
<1> HIDE DEF c
<1>7. /\ c \o b \in Seq(S) /\ Len(c \o b) = Len(c) + Len(b)
      /\ \A n \in 1 .. Len(c) + Len(b) :
           (c \o b)[n] = IF n <= Len(c) THEN c[n] ELSE b[n - Len(c)]
  BY <1>3, <1>6, ConcatProperties
<1>8. (c \o b)[j] = IF j < i THEN s[j] ELSE IF j = i THEN e ELSE s[j - 1]
  <2>1. (c \o b)[j] = IF j <= i THEN c[j] ELSE b[j - i]
    BY <1>1, <1>3, <1>6, <1>7
  <2>2. CASE j < i
    <3>1. j \in 1 .. i - 1 /\ j \in 1 .. i /\ j <= i /\ j <= i - 1
      BY <1>1, <2>2
    <3>2. c[j] = a[j]
      BY <1>6, <3>1
    <3> QED
      BY <1>2, <2>1, <2>2, <3>1, <3>2
  <2>3. CASE j = i
    <3>1. ~ (j <= i - 1) /\ j - (i - 1) = 1 /\ j \in 1 .. i
      BY <2>3
    <3> QED
      BY <1>4, <1>6, <2>1, <2>3, <3>1
  <2>4. CASE j > i
    <3>1. j - i \in 1 .. Len(s) - i + 1 /\ j - i + i - 1 = j - 1 /\ ~ (j <= i)
      BY <1>1, <2>4
    <3> QED
      BY <1>3, <2>1, <2>4, <3>1
  <2>5. j < i \/ j = i \/ j > i
    BY <1>1
  <2> QED
    BY <2>2, <2>3, <2>4, <2>5, Zenon
<1> QED
  BY <1>1, <1>3, <1>5, <1>6, <1>7, <1>8

LEMMA InsertAtProperties ==
    ASSUME NEW S, NEW s \in Seq(S), NEW i \in 1 .. Len(s) + 1, NEW e \in S
    PROVE  /\ InsertAt(s, i, e) \in Seq(S)
           /\ Len(InsertAt(s, i, e)) = Len(s) + 1
           /\ \A j \in 1 .. Len(s) + 1 :
                InsertAt(s, i, e)[j] = IF j < i THEN s[j] ELSE IF j = i THEN e ELSE s[j - 1]
<1>1. 1 \in 1 .. Len(s) + 1
  BY ElementTypes
<1> QED
  BY <1>1, Inserted

LEMMA InsertAtElement ==
    ASSUME NEW S, NEW s \in Seq(S), NEW i \in 1 .. Len(s) + 1, NEW e \in S,
           NEW j \in 1 .. Len(s) + 1
    PROVE  InsertAt(s, i, e)[j] = IF j < i THEN s[j] ELSE IF j = i THEN e ELSE s[j - 1]
  BY Inserted, SMTT(30)

\* A sequence is put together again where it was taken apart.
LEMMA InsertUndoesRemove ==
    ASSUME NEW S, NEW s \in Seq(S), NEW i \in 1 .. Len(s), NEW e \in S
    PROVE  e = s[i] => InsertAt(RemoveAt(s, i), i, e) = s
<1> DEFINE t == RemoveAt(s, i)
           u == InsertAt(t, i, e)
<1>1. Len(s) \in Nat
  BY ElementTypes
<1>2. /\ t \in Seq(S) /\ Len(t) = Len(s) - 1
      /\ \A j \in 1 .. Len(s) - 1 : t[j] = IF j < i THEN s[j] ELSE s[j + 1]
  BY RemoveAtProperties
<1> HIDE DEF t
<1>3. i \in 1 .. Len(t) + 1
  BY <1>1, <1>2
<1>4. /\ u \in Seq(S) /\ Len(u) = Len(t) + 1
      /\ \A j \in 1 .. Len(t) + 1 :
           u[j] = IF j < i THEN t[j] ELSE IF j = i THEN e ELSE t[j - 1]
  BY <1>2, <1>3, InsertAtProperties
<1> HIDE DEF u
<1>5. ASSUME NEW j \in 1 .. Len(s), e = s[i]
      PROVE  u[j] = s[j]
  <2>1. u[j] = IF j < i THEN t[j] ELSE IF j = i THEN e ELSE t[j - 1]
    BY <1>1, <1>2, <1>4
  <2>2. CASE j < i
    BY <1>1, <1>2, <2>1, <2>2
  <2>3. CASE j = i
    BY <1>5, <2>1, <2>3
  <2>4. CASE j > i
    <3>1. j - 1 \in 1 .. Len(s) - 1 /\ ~ (j - 1 < i) /\ j - 1 + 1 = j
      BY <1>1, <2>4
    <3> QED
      BY <1>2, <2>1, <2>4, <3>1
  <2> QED
    BY <1>1, <2>2, <2>3, <2>4
<1> QED
  BY <1>1, <1>2, <1>4, <1>5, SeqEqual DEF t, u

-----------------------------------------------------------------------------
(* The ids of MPD.                                                          *)

Rows == [id : Nat \ {0}, link : Links, file : Files]

Typed ==
    /\ queue \in Seq(Rows) /\ todo \in Seq(Rows)
    /\ row = NoRow \/ row \in Rows
    /\ pc \in {"resolve", "reread", "delete", "add"} => row \in Rows
    /\ pc \in {"delete", "add"} => position \in Nat \ {0}
    /\ current = NoSong \/ current \in Ids(queue)
    /\ disturbed \in Nat

UniqueIds == \A i, j \in DOMAIN queue : queue[i].id = queue[j].id => i = j

\* An id that the caretaker has read still stands for the link it had.
SameLink ==
    \A i \in DOMAIN queue :
        /\ queue[i].id = row.id => queue[i].link = row.link
        /\ \A j \in DOMAIN todo : queue[i].id = todo[j].id => queue[i].link = todo[j].link

\* Where the row is that the caretaker is about to take out, or has taken out.
Placed ==
    disturbed = 0 =>
        /\ wanted \in Seq(Links)
        /\ pc # "add" => LinksOf(queue) = wanted
        /\ pc = "delete" => position \in DOMAIN queue /\ queue[position].id = row.id
        /\ pc = "add" => /\ position \in 1 .. Len(wanted)
                         /\ wanted[position] = row.link
                         /\ LinksOf(queue) = RemoveAt(wanted, position)

QueueInv == Typed /\ UniqueIds /\ SameLink /\ Placed

LEMMA RowIdType == Typed => row.id \in Nat
  BY DEF Typed, NoRow, Row, Rows

LEMMA IndexOfRow ==
    ASSUME Typed, UniqueIds, NEW x \in Ids(queue)
    PROVE  /\ IndexOf(x) \in 1 .. Len(queue) /\ queue[IndexOf(x)].id = x
           /\ \A i \in DOMAIN queue : queue[i].id = x => i = IndexOf(x)
<1>1. \E i \in DOMAIN queue : queue[i].id = x
  BY DEF Ids
<1>2. IndexOf(x) \in DOMAIN queue /\ queue[IndexOf(x)].id = x
  BY <1>1 DEF IndexOf
<1>3. DOMAIN queue = 1 .. Len(queue)
  BY ElementTypes DEF Typed
<1> QED
  BY <1>2, <1>3 DEF UniqueIds

LEMMA FewIds ==
    ASSUME NEW q \in Seq(Rows)
    PROVE  IsFiniteSet(Ids(q)) /\ Cardinality(Ids(q)) \in Nat /\ Cardinality(Ids(q)) <= Len(q)
<1> DEFINE D == 1 .. Len(q)
           f == [i \in D |-> q[i].id]
<1>1. Len(q) \in Nat /\ DOMAIN q = D
  BY ElementTypes
<1>2. f \in Surjection(D, Ids(q))
  BY <1>1 DEF Surjection, Ids
<1>3. IsFiniteSet(D) /\ Cardinality(D) = Len(q)
  BY <1>1, FS_Interval
<1> HIDE DEF D, f
<1>4. IsFiniteSet(Ids(q)) /\ Cardinality(Ids(q)) <= Cardinality(D)
  BY <1>2, <1>3, FS_Surjection
<1> QED
  BY <1>3, <1>4, FS_CardinalityType

\* The least number of a set of them.
LEMMA LeastOf ==
    ASSUME NEW S \in SUBSET Nat, S # {}
    PROVE  Min(S) \in S
<1> DEFINE R == OpToRel(<, Nat)
<1>1. PICK x \in S : \A y \in S : ~ (<<y, x>> \in R)
  <2> HIDE DEF R
  <2>1. IsWellFoundedOn(R, Nat)
    BY NatLessThanWellFounded DEF R
  <2> QED
    BY <2>1, WFMin
<1>2. ASSUME NEW y \in S
      PROVE  x <= y
  <2>1. R = {ss \in Nat \X Nat : ss[1] < ss[2]}
    BY DEF OpToRel
  <2>2. ~ (<<y, x>> \in R)
    BY <1>1
  <2> HIDE DEF R
  <2>3. ~ (y < x)
    BY <2>1, <2>2
  <2> QED
    BY <2>3
<1> QED
  BY <1>2 DEF Min

\* The id of a new row is nobody else's, and not remembered by the caretaker.
LEMMA NewIdIsNew ==
    ASSUME Typed
    PROVE  /\ NewId \in Nat \ {0} /\ NewId \notin Ids(queue) /\ NewId \notin Ids(todo)
           /\ NewId # row.id
<1> DEFINE known == Ids(queue) \union Ids(todo) \union {row.id}
           n == Len(queue) + Len(todo) + 2
           free == (1 .. n) \ known
<1>1. Len(queue) \in Nat /\ Len(todo) \in Nat
  BY ElementTypes DEF Typed
<1>2. /\ IsFiniteSet(Ids(queue)) /\ Cardinality(Ids(queue)) \in Nat
      /\ Cardinality(Ids(queue)) <= Len(queue)
      /\ IsFiniteSet(Ids(todo)) /\ Cardinality(Ids(todo)) \in Nat
      /\ Cardinality(Ids(todo)) <= Len(todo)
  BY FewIds DEF Typed
<1> DEFINE both == Ids(queue) \union Ids(todo)
<1>3. /\ IsFiniteSet(both)
      /\ Cardinality(both) = Cardinality(Ids(queue)) + Cardinality(Ids(todo))
                             - Cardinality(Ids(queue) \cap Ids(todo))
  BY <1>2, FS_Union
<1>4. Cardinality(Ids(queue) \cap Ids(todo)) \in Nat
  <2>1. IsFiniteSet(Ids(queue) \cap Ids(todo))
    BY <1>2, FS_Intersection
  <2> QED
    BY <2>1, FS_CardinalityType
<1>5. Cardinality(both) \in Nat /\ Cardinality(both) <= Len(queue) + Len(todo)
  BY <1>1, <1>2, <1>3, <1>4, FS_CardinalityType
<1>6. IsFiniteSet(known) /\ Cardinality(known) \in Nat /\ Cardinality(known) < n
  <2>1. /\ IsFiniteSet(both \union {row.id})
        /\ Cardinality(both \union {row.id}) =
             IF row.id \in both THEN Cardinality(both) ELSE Cardinality(both) + 1
    BY <1>3, FS_AddElement
  <2> HIDE DEF both
  <2>2. Cardinality(both \union {row.id}) \in Nat /\ Cardinality(both \union {row.id}) < n
    BY <1>1, <1>5, <2>1
  <2> QED
    BY <2>1, <2>2 DEF both
<1>7. Cardinality(1 .. n) = n
  BY <1>1, FS_Interval
<1> HIDE DEF known
<1>8. free # {}
  <2> SUFFICES ASSUME 1 .. n \subseteq known PROVE FALSE
    OBVIOUS
  <2>1. Cardinality(1 .. n) <= Cardinality(known)
    BY <1>6, FS_Subset
  <2> QED
    BY <1>1, <1>6, <1>7, <2>1
<1>9. Min(free) \in free
  <2>1. free \in SUBSET Nat
    OBVIOUS
  <2> HIDE DEF free
  <2> QED
    BY <1>8, <2>1, LeastOf
<1>10. NewId = Min(free)
  BY DEF NewId, free, known
<1>11. NewId \in 1 .. n /\ NewId \notin known
  BY <1>9, <1>10
<1> QED
  BY <1>1, <1>11 DEF known

LEMMA LinksType ==
    ASSUME NEW q \in Seq(Rows)
    PROVE  /\ LinksOf(q) \in Seq(Links) /\ Len(LinksOf(q)) = Len(q)
           /\ \A i \in 1 .. Len(q) : LinksOf(q)[i] = q[i].link
<1>1. Len(q) \in Nat /\ DOMAIN q = 1 .. Len(q) /\ \A i \in 1 .. Len(q) : q[i] \in Rows
  BY ElementTypes
<1>2. LinksOf(q) \in [1 .. Len(q) -> Links]
  BY <1>1 DEF LinksOf, Rows
<1> QED
  BY <1>1, <1>2 DEF LinksOf

-----------------------------------------------------------------------------
(* What each step does to the queue.                                        *)

\* A row that stays in place or moves keeps its id and its link; a new one has a
\* new id.
LEMMA SameLinkKept ==
    ASSUME Typed, SameLink, UNCHANGED <<todo, row>>, NEW n,
           n \notin Ids(todo), n # row.id,
           \A i \in DOMAIN queue' :
               \/ queue'[i].id = n
               \/ \E j \in DOMAIN queue : /\ queue'[i].id = queue[j].id
                                          /\ queue'[i].link = queue[j].link
    PROVE  SameLink'
<1> SUFFICES ASSUME NEW i \in DOMAIN queue'
             PROVE  /\ queue'[i].id = row.id => queue'[i].link = row.link
                    /\ \A k \in DOMAIN todo :
                         queue'[i].id = todo[k].id => queue'[i].link = todo[k].link
  BY DEF SameLink
<1>1. CASE queue'[i].id = n
  BY <1>1 DEF Ids
<1>2. CASE \E j \in DOMAIN queue : queue'[i].id = queue[j].id /\ queue'[i].link = queue[j].link
  BY <1>2 DEF SameLink
<1> QED
  BY <1>1, <1>2

\* Somebody rearranges the rows: between the caretaker's re-reading and its last
\* call that is a disturbance.
LEMMA RearrangedPlaced ==
    ASSUME Typed, Placed, NEW links, Rearranged(links), pc' = pc,
           disturbed = 0 /\ ~ Swapping => links \in Seq(Links) /\ LinksOf(queue') = links
    PROVE  Placed' /\ disturbed' \in Nat
<1>1. CASE Swapping
  <2>1. disturbed' = disturbed + 1 /\ disturbed \in Nat
    BY <1>1 DEF Rearranged, Disturbs, Typed
  <2>2. disturbed' \in Nat /\ disturbed' # 0
    BY <2>1
  <2> QED
    BY <2>2 DEF Placed
<1>2. CASE ~ Swapping
  BY <1>2 DEF Rearranged, Swapping, Typed, Placed
<1> QED
  BY <1>1, <1>2

LEMMA AddRowQueue == ASSUME QueueInv, NEW l \in Links, AddRow(l) PROVE QueueInv'
<1> USE DEF QueueInv
<1> DEFINE r == Row(NewId, l, "link")
<1>1. /\ queue \in Seq(Rows) /\ Len(queue) \in Nat /\ DOMAIN queue = 1 .. Len(queue)
      /\ \A i \in 1 .. Len(queue) : queue[i] \in Rows
  BY ElementTypes DEF Typed
<1>2. /\ queue' = Append(queue, r) /\ Rearranged(Append(wanted, l))
      /\ UNCHANGED <<current, pc, todo, row, position>>
  BY DEF AddRow, Edits, daemonVars
<1>3. /\ r \in Rows /\ r.id = NewId /\ r.link = l /\ NewId \notin Ids(queue)
      /\ NewId \notin Ids(todo) /\ NewId # row.id
  BY NewIdIsNew DEF Row, Rows, Files
<1> HIDE DEF r
<1>4. /\ queue' \in Seq(Rows) /\ Len(queue') = Len(queue) + 1
      /\ DOMAIN queue' = 1 .. Len(queue) + 1
      /\ \A i \in 1 .. Len(queue) : queue'[i] = queue[i]
      /\ queue'[Len(queue) + 1] = r
  BY <1>1, <1>2, <1>3, AppendProperties
<1>5. ASSUME NEW i \in DOMAIN queue'
      PROVE  \/ i \in DOMAIN queue /\ queue'[i] = queue[i]
             \/ i = Len(queue) + 1 /\ queue'[i] = r
  <2>1. i \in 1 .. Len(queue) \/ i = Len(queue) + 1
    BY <1>1, <1>4
  <2>2. CASE i \in 1 .. Len(queue)
    BY <1>1, <1>4, <2>2
  <2>3. CASE i = Len(queue) + 1
    BY <1>4, <2>3
  <2> QED
    BY <2>1, <2>2, <2>3
<1>6. \A i \in DOMAIN queue : i \in DOMAIN queue' /\ queue'[i] = queue[i] /\ queue[i].id # NewId
  BY <1>1, <1>3, <1>4 DEF Ids
<1>7. UniqueIds'
  BY <1>3, <1>5, <1>6 DEF UniqueIds
<1>8. SameLink'
  <2>1. \A i \in DOMAIN queue' :
           \/ queue'[i].id = NewId
           \/ \E j \in DOMAIN queue : /\ queue'[i].id = queue[j].id
                                      /\ queue'[i].link = queue[j].link
    BY <1>3, <1>5
  <2> QED
    BY <1>2, <1>3, <2>1, SameLinkKept
<1>9. current' = NoSong \/ current' \in Ids(queue')
  BY <1>2, <1>6 DEF Typed, Ids
<1>10. ASSUME disturbed = 0, ~ Swapping
       PROVE  Append(wanted, l) \in Seq(Links) /\ LinksOf(queue') = Append(wanted, l)
  <2>1. wanted \in Seq(Links) /\ LinksOf(queue) = wanted
    BY <1>10 DEF Placed, Swapping
  <2>2. /\ LinksOf(queue') \in Seq(Links) /\ Len(LinksOf(queue')) = Len(queue) + 1
        /\ \A i \in 1 .. Len(queue) + 1 : LinksOf(queue')[i] = queue'[i].link
        /\ Len(LinksOf(queue)) = Len(queue)
        /\ \A i \in 1 .. Len(queue) : LinksOf(queue)[i] = queue[i].link
    BY <1>1, <1>4, LinksType
  <2>3. /\ Append(wanted, l) \in Seq(Links) /\ Len(Append(wanted, l)) = Len(wanted) + 1
        /\ \A i \in 1 .. Len(wanted) : Append(wanted, l)[i] = wanted[i]
        /\ Append(wanted, l)[Len(wanted) + 1] = l
    BY <2>1, AppendProperties
  <2>4. ASSUME NEW i \in 1 .. Len(queue) + 1
        PROVE  LinksOf(queue')[i] = Append(wanted, l)[i]
    <3>1. CASE i \in 1 .. Len(queue)
      BY <1>4, <2>1, <2>2, <2>3, <3>1
    <3>2. CASE i = Len(queue) + 1
      BY <1>3, <1>4, <2>1, <2>2, <2>3, <3>2
    <3>3. i \in 1 .. Len(queue) \/ i = Len(queue) + 1
      BY <1>1
    <3> QED
      BY <3>1, <3>2, <3>3
  <2> QED
    BY <2>1, <2>2, <2>3, <2>4, SeqEqual
<1>11. Placed' /\ disturbed' \in Nat
  BY <1>2, <1>10, RearrangedPlaced
<1> QED
  BY <1>2, <1>4, <1>7, <1>8, <1>9, <1>11 DEF Typed

\* A row is taken out, by anybody: MPD goes on with the one behind it.
LEMMA RowRemoved ==
    ASSUME QueueInv, NEW i \in 1 .. Len(queue), queue' = RemoveAt(queue, i),
           current' = CurrentWithout(i), UNCHANGED <<todo, row>>
    PROVE  /\ queue' \in Seq(Rows) /\ UniqueIds' /\ SameLink'
           /\ current' = NoSong \/ current' \in Ids(queue')
           /\ LinksOf(queue') = RemoveAt(LinksOf(queue), i)
<1> USE DEF QueueInv
<1>1. /\ queue \in Seq(Rows) /\ Len(queue) \in Nat /\ DOMAIN queue = 1 .. Len(queue)
      /\ \A j \in 1 .. Len(queue) : queue[j] \in Rows
  BY ElementTypes DEF Typed
<1>2. /\ queue' \in Seq(Rows) /\ Len(queue') = Len(queue) - 1
      /\ \A j \in 1 .. Len(queue) - 1 : queue'[j] = IF j < i THEN queue[j] ELSE queue[j + 1]
  BY <1>1, RemoveAtProperties
<1>3. DOMAIN queue' = 1 .. Len(queue) - 1
  BY <1>2, ElementTypes
<1>4. ASSUME NEW j \in DOMAIN queue'
      PROVE  \/ j < i /\ j \in DOMAIN queue /\ queue'[j] = queue[j]
             \/ ~ (j < i) /\ j + 1 \in DOMAIN queue /\ queue'[j] = queue[j + 1]
  BY <1>1, <1>2, <1>3
<1>5. ASSUME NEW k \in DOMAIN queue, k # i
      PROVE  queue[k].id \in Ids(queue')
  <2>1. CASE k < i
    <3>1. k \in DOMAIN queue' /\ queue'[k] = queue[k]
      BY <1>1, <1>2, <1>3, <2>1
    <3> QED
      BY <3>1 DEF Ids
  <2>2. CASE ~ (k < i)
    <3>1. k - 1 \in 1 .. Len(queue) - 1 /\ ~ (k - 1 < i) /\ k - 1 + 1 = k
      BY <1>1, <1>5, <2>2
    <3>2. k - 1 \in DOMAIN queue' /\ queue'[k - 1] = queue[k]
      BY <1>2, <1>3, <3>1
    <3> QED
      BY <3>2 DEF Ids
  <2> QED
    BY <2>1, <2>2
<1>6. UniqueIds'
  <2> SUFFICES ASSUME NEW a \in DOMAIN queue', NEW b \in DOMAIN queue', queue'[a].id = queue'[b].id
               PROVE  a = b
    BY DEF UniqueIds
  <2>1. a \in Nat /\ b \in Nat
    BY <1>1, <1>3
  <2> QED
    BY <1>4, <2>1 DEF UniqueIds
<1>7. SameLink'
  <2>1. \A j \in DOMAIN queue' :
           \E k \in DOMAIN queue : queue'[j].id = queue[k].id /\ queue'[j].link = queue[k].link
    BY <1>4
  <2>2. NewId \notin Ids(todo) /\ NewId # row.id
    BY NewIdIsNew
  <2> QED
    BY <2>1, <2>2, SameLinkKept
<1>8. current' = NoSong \/ current' \in Ids(queue')
  <2>1. CASE queue[i].id # current
    <3>1. current' = current
      BY <2>1 DEF CurrentWithout
    <3>2. ASSUME current \in Ids(queue)
          PROVE  current \in Ids(queue')
      <4>1. PICK k \in DOMAIN queue : current = queue[k].id
        BY <3>2 DEF Ids
      <4> QED
        BY <1>5, <2>1, <4>1
    <3> QED
      BY <3>1, <3>2 DEF Typed
  <2>2. CASE queue[i].id = current /\ i < Len(queue)
    <3>1. i + 1 \in DOMAIN queue /\ i + 1 # i
      BY <1>1, <2>2
    <3> QED
      BY <1>5, <2>2, <3>1 DEF CurrentWithout
  <2>3. CASE queue[i].id = current /\ ~ (i < Len(queue))
    BY <2>3 DEF CurrentWithout
  <2> QED
    BY <2>1, <2>2, <2>3
<1>9. LinksOf(queue') = RemoveAt(LinksOf(queue), i)
  <2>1. /\ LinksOf(queue) \in Seq(Links) /\ Len(LinksOf(queue)) = Len(queue)
        /\ \A j \in 1 .. Len(queue) : LinksOf(queue)[j] = queue[j].link
        /\ LinksOf(queue') \in Seq(Links) /\ Len(LinksOf(queue')) = Len(queue')
        /\ \A j \in 1 .. Len(queue') : LinksOf(queue')[j] = queue'[j].link
    BY <1>1, <1>2, LinksType
  <2>2. /\ RemoveAt(LinksOf(queue), i) \in Seq(Links)
        /\ Len(RemoveAt(LinksOf(queue), i)) = Len(queue) - 1
        /\ \A j \in 1 .. Len(queue) - 1 :
             RemoveAt(LinksOf(queue), i)[j] =
               IF j < i THEN LinksOf(queue)[j] ELSE LinksOf(queue)[j + 1]
    BY <2>1, RemoveAtProperties
  <2>3. ASSUME NEW j \in 1 .. Len(queue) - 1
        PROVE  LinksOf(queue')[j] = RemoveAt(LinksOf(queue), i)[j]
    <3>1. CASE j < i
      <4>1. j \in 1 .. Len(queue)
        BY <1>1
      <4> QED
        BY <1>2, <2>1, <2>2, <3>1, <4>1
    <3>2. CASE ~ (j < i)
      <4>1. j + 1 \in 1 .. Len(queue)
        BY <1>1
      <4> QED
        BY <1>2, <2>1, <2>2, <3>2, <4>1
    <3> QED
      BY <3>1, <3>2
  <2> QED
    BY <1>2, <2>1, <2>2, <2>3, SeqEqual
<1> QED
  BY <1>2, <1>6, <1>7, <1>8, <1>9

LEMMA RemoveRowQueue ==
    ASSUME QueueInv, NEW i \in DOMAIN queue, RemoveRow(i) PROVE QueueInv'
<1>1. i \in 1 .. Len(queue)
  BY ElementTypes DEF QueueInv, Typed
<1>2. /\ queue' = RemoveAt(queue, i) /\ current' = CurrentWithout(i)
      /\ Rearranged(RemoveAt(wanted, i)) /\ UNCHANGED <<pc, todo, row, position>>
  BY DEF RemoveRow, Edits, daemonVars
<1>3. /\ queue' \in Seq(Rows) /\ UniqueIds' /\ SameLink'
      /\ current' = NoSong \/ current' \in Ids(queue')
      /\ LinksOf(queue') = RemoveAt(LinksOf(queue), i)
  BY <1>1, <1>2, RowRemoved
<1>4. ASSUME disturbed = 0, ~ Swapping
      PROVE  RemoveAt(wanted, i) \in Seq(Links) /\ LinksOf(queue') = RemoveAt(wanted, i)
  <2>1. LinksOf(queue) = wanted
    BY <1>4 DEF QueueInv, Placed, Swapping
  <2>2. wanted \in Seq(Links) /\ Len(wanted) = Len(queue)
    BY <2>1, LinksType DEF QueueInv, Typed
  <2> QED
    BY <1>1, <1>3, <2>1, <2>2, RemoveAtProperties
<1>5. Placed' /\ disturbed' \in Nat
  BY <1>2, <1>4, RearrangedPlaced DEF QueueInv
<1> QED
  BY <1>2, <1>3, <1>5 DEF QueueInv, Typed

\* What stays where it is, with the same id or with a new one.
LEMMA RowsInPlace ==
    ASSUME QueueInv, queue' \in Seq(Rows), Len(queue') = Len(queue), UNCHANGED <<todo, row>>,
           \A i \in 1 .. Len(queue) : queue'[i].link = queue[i].link
    PROVE  LinksOf(queue') = LinksOf(queue)
<1>1. queue \in Seq(Rows)
  BY DEF QueueInv, Typed
<1>2. /\ LinksOf(queue) \in Seq(Links) /\ Len(LinksOf(queue)) = Len(queue)
      /\ \A i \in 1 .. Len(queue) : LinksOf(queue)[i] = queue[i].link
      /\ LinksOf(queue') \in Seq(Links) /\ Len(LinksOf(queue')) = Len(queue')
      /\ \A i \in 1 .. Len(queue') : LinksOf(queue')[i] = queue'[i].link
  BY <1>1, LinksType
<1> QED
  BY <1>2, SeqEqual

LEMMA TuiSwapsQueue ==
    ASSUME QueueInv, NEW i \in DOMAIN queue, TuiSwaps(i) PROVE QueueInv'
<1> USE DEF QueueInv
<1> DEFINE r == Row(NewId, queue[i].link, "stream")
<1>1. /\ queue \in Seq(Rows) /\ Len(queue) \in Nat /\ DOMAIN queue = 1 .. Len(queue)
      /\ \A j \in 1 .. Len(queue) : queue[j] \in Rows
  BY ElementTypes DEF Typed
<1>2. /\ queue' = [queue EXCEPT ![i] = r] /\ Rearranged(wanted)
      /\ current' = IF queue[i].id = current THEN NewId ELSE current
      /\ UNCHANGED <<pc, todo, row, position>>
  BY DEF TuiSwaps, daemonVars
<1>3. /\ r \in Rows /\ r.id = NewId /\ r.link = queue[i].link /\ NewId \notin Ids(queue)
      /\ NewId \notin Ids(todo) /\ NewId # row.id
  BY <1>1, NewIdIsNew DEF Row, Rows, Files
<1> HIDE DEF r
<1>4. /\ queue' \in Seq(Rows) /\ Len(queue') = Len(queue) /\ DOMAIN queue' = DOMAIN queue
      /\ queue'[i] = r /\ \A j \in DOMAIN queue : j # i => queue'[j] = queue[j]
  <2>1. /\ DOMAIN queue' = DOMAIN queue /\ queue'[i] = r
        /\ \A j \in DOMAIN queue : j # i => queue'[j] = queue[j]
    BY <1>1, <1>2
  <2>2. queue' \in Seq(Rows) /\ Len(queue') = Len(queue)
    BY <1>1, <1>2, <1>3, ExceptSeq
  <2> QED
    BY <2>1, <2>2
<1>5. \A j \in DOMAIN queue : queue[j].id # NewId
  BY <1>3 DEF Ids
<1>6. UniqueIds'
  BY <1>3, <1>4, <1>5 DEF UniqueIds
<1>7. SameLink'
  <2>1. \A j \in DOMAIN queue' :
           \/ queue'[j].id = NewId
           \/ \E k \in DOMAIN queue : /\ queue'[j].id = queue[k].id
                                      /\ queue'[j].link = queue[k].link
    BY <1>3, <1>4
  <2> QED
    BY <1>2, <1>3, <2>1, SameLinkKept
<1>8. current' = NoSong \/ current' \in Ids(queue')
  <2>1. NewId \in Ids(queue')
    BY <1>3, <1>4 DEF Ids
  <2>2. \A k \in DOMAIN queue : k # i => queue[k].id \in Ids(queue')
    BY <1>4 DEF Ids
  <2> QED
    BY <1>2, <2>1, <2>2 DEF Typed, Ids
<1>9. \A j \in 1 .. Len(queue) : queue'[j].link = queue[j].link
  BY <1>1, <1>3, <1>4
<1>10. LinksOf(queue') = LinksOf(queue)
  BY <1>2, <1>4, <1>9, RowsInPlace
<1>11. Placed' /\ disturbed' \in Nat
  <2>1. disturbed = 0 /\ ~ Swapping => wanted \in Seq(Links) /\ LinksOf(queue') = wanted
    BY <1>10 DEF Placed, Swapping
  <2> QED
    BY <1>2, <2>1, RearrangedPlaced
<1> QED
  BY <1>2, <1>4, <1>6, <1>7, <1>8, <1>11 DEF Typed

\* Something goes to the front.
LEMMA FrontProperties ==
    ASSUME NEW S, NEW s \in Seq(S), NEW e \in S
    PROVE  /\ <<e>> \o s \in Seq(S) /\ Len(<<e>> \o s) = Len(s) + 1
           /\ (<<e>> \o s)[1] = e
           /\ \A j \in 2 .. Len(s) + 1 : (<<e>> \o s)[j] = s[j - 1]
<1>1. Len(s) \in Nat
  BY ElementTypes
<1>2. <<e>> \in Seq(S) /\ Len(<<e>>) = 1 /\ <<e>>[1] = e
  OBVIOUS
<1> DEFINE f == <<e>>
<1> HIDE DEF f
<1>3. /\ f \o s \in Seq(S) /\ Len(f \o s) = Len(f) + Len(s)
      /\ \A j \in 1 .. Len(f) + Len(s) :
           (f \o s)[j] = IF j <= Len(f) THEN f[j] ELSE s[j - Len(f)]
  BY <1>2, ConcatProperties DEF f
<1>4. f \in Seq(S) /\ Len(f) = 1 /\ f[1] = e
  BY <1>2 DEF f
<1>5. \A j \in 2 .. Len(s) + 1 : (f \o s)[j] = s[j - 1]
  BY <1>1, <1>3, <1>4
<1>6. f \o s \in Seq(S) /\ Len(f \o s) = Len(s) + 1 /\ (f \o s)[1] = e
  BY <1>1, <1>3, <1>4
<1> QED
  BY <1>5, <1>6 DEF f

\* Taking an element to the front, place by place.
ToFront(s, i) == <<s[i]>> \o RemoveAt(s, i)

LEMMA ToFrontProperties ==
    ASSUME NEW S, NEW s \in Seq(S), NEW i \in 1 .. Len(s)
    PROVE  /\ ToFront(s, i) \in Seq(S)
           /\ Len(ToFront(s, i)) = Len(s)
           /\ \A j \in 1 .. Len(s) :
                ToFront(s, i)[j] =
                  IF j = 1 THEN s[i] ELSE IF j <= i THEN s[j - 1] ELSE s[j]
<1> DEFINE t == RemoveAt(s, i)
           u == <<s[i]>> \o t
<1>1. Len(s) \in Nat /\ s[i] \in S
  BY ElementTypes
<1>2. /\ t \in Seq(S) /\ Len(t) = Len(s) - 1
      /\ \A j \in 1 .. Len(s) - 1 : t[j] = IF j < i THEN s[j] ELSE s[j + 1]
  BY RemoveAtProperties
<1> HIDE DEF t
<1>3. /\ u \in Seq(S) /\ Len(u) = Len(t) + 1 /\ u[1] = s[i]
      /\ \A j \in 2 .. Len(t) + 1 : u[j] = t[j - 1]
  BY <1>1, <1>2, FrontProperties
<1> HIDE DEF u
<1>4. ASSUME NEW j \in 1 .. Len(s)
      PROVE  u[j] = IF j = 1 THEN s[i] ELSE IF j <= i THEN s[j - 1] ELSE s[j]
  <2>1. CASE j = 1
    BY <1>3, <2>1
  <2>2. CASE j # 1
    <3>1. j - 1 \in 1 .. Len(s) - 1 /\ j \in 2 .. Len(t) + 1 /\ j - 1 + 1 = j
      BY <1>1, <1>2, <2>2
    <3>2. u[j] = IF j - 1 < i THEN s[j - 1] ELSE s[j]
      BY <1>2, <1>3, <3>1
    <3> QED
      BY <1>1, <2>2, <3>2
  <2> QED
    BY <2>1, <2>2
<1>5. ToFront(s, i) = u
  BY DEF t, u, ToFront
<1>6. u \in Seq(S) /\ Len(u) = Len(s)
  BY <1>1, <1>2, <1>3
<1> QED
  BY <1>4, <1>5, <1>6

LEMMA MoveToFrontQueue ==
    ASSUME QueueInv, NEW i \in DOMAIN queue, MoveToFront(i) PROVE QueueInv'
<1> USE DEF QueueInv
<1>1. /\ queue \in Seq(Rows) /\ Len(queue) \in Nat /\ DOMAIN queue = 1 .. Len(queue)
      /\ \A j \in 1 .. Len(queue) : queue[j] \in Rows
  BY ElementTypes DEF Typed
<1>2. /\ queue' = ToFront(queue, i)
      /\ Rearranged(ToFront(wanted, i))
      /\ UNCHANGED <<current, pc, todo, row, position>>
  BY DEF MoveToFront, Edits, daemonVars, ToFront
<1>3. /\ queue' \in Seq(Rows) /\ Len(queue') = Len(queue)
      /\ \A j \in 1 .. Len(queue) :
           queue'[j] = IF j = 1 THEN queue[i] ELSE IF j <= i THEN queue[j - 1] ELSE queue[j]
  <2>1. i \in 1 .. Len(queue)
    BY <1>1
  <2>2. /\ ToFront(queue, i) \in Seq(Rows) /\ Len(ToFront(queue, i)) = Len(queue)
        /\ \A j \in 1 .. Len(queue) :
             ToFront(queue, i)[j] =
               IF j = 1 THEN queue[i] ELSE IF j <= i THEN queue[j - 1] ELSE queue[j]
    BY <1>1, <2>1, ToFrontProperties, Zenon
  <2> QED
    BY <1>2, <2>2
<1>4. DOMAIN queue' = 1 .. Len(queue)
  BY <1>3, ElementTypes
<1>5. ASSUME NEW j \in DOMAIN queue'
      PROVE  \/ j = 1 /\ i \in DOMAIN queue /\ queue'[j] = queue[i]
             \/ j # 1 /\ j <= i /\ j - 1 \in DOMAIN queue /\ queue'[j] = queue[j - 1]
             \/ j # 1 /\ ~ (j <= i) /\ j \in DOMAIN queue /\ queue'[j] = queue[j]
  BY <1>1, <1>3, <1>4
<1>6. UniqueIds'
  <2> SUFFICES ASSUME NEW a \in DOMAIN queue', NEW b \in DOMAIN queue', queue'[a].id = queue'[b].id
               PROVE  a = b
    BY DEF UniqueIds
  <2>1. a \in Nat /\ b \in Nat /\ i \in Nat
    BY <1>1, <1>4
  <2> QED
    BY <1>5, <2>1 DEF UniqueIds
<1>7. SameLink'
  <2>1. \A j \in DOMAIN queue' :
           \E k \in DOMAIN queue : queue'[j].id = queue[k].id /\ queue'[j].link = queue[k].link
    BY <1>5
  <2>2. NewId \notin Ids(todo) /\ NewId # row.id
    BY NewIdIsNew
  <2> QED
    BY <1>2, <2>1, <2>2, SameLinkKept
<1>8. \A k \in DOMAIN queue : queue[k].id \in Ids(queue')
  <2> SUFFICES ASSUME NEW k \in DOMAIN queue
               PROVE  \E j \in DOMAIN queue' : queue'[j] = queue[k]
    BY DEF Ids
  <2>1. CASE k = i
    <3>1. 1 \in DOMAIN queue'
      BY <1>1, <1>4
    <3> QED
      BY <1>3, <1>4, <2>1, <3>1
  <2>2. CASE k < i
    <3>1. k + 1 \in DOMAIN queue' /\ k + 1 # 1 /\ k + 1 <= i /\ k + 1 - 1 = k
      BY <1>1, <1>4, <2>2
    <3>2. queue'[k + 1] = queue[k]
      BY <1>3, <1>4, <3>1
    <3> QED
      BY <3>1, <3>2
  <2>3. CASE k > i
    <3>1. k \in DOMAIN queue' /\ k # 1 /\ ~ (k <= i)
      BY <1>1, <1>4, <2>3
    <3> QED
      BY <1>3, <1>4, <3>1
  <2> QED
    BY <1>1, <2>1, <2>2, <2>3
<1>9. current' = NoSong \/ current' \in Ids(queue')
  <2>1. current = NoSong \/ current \in Ids(queue')
    BY <1>8 DEF Typed, Ids
  <2> QED
    BY <1>2, <2>1
<1>10. ASSUME disturbed = 0, ~ Swapping
       PROVE  ToFront(wanted, i) \in Seq(Links) /\ LinksOf(queue') = ToFront(wanted, i)
  <2>1. LinksOf(queue) = wanted
    BY <1>10 DEF Placed, Swapping
  <2>2. /\ wanted \in Seq(Links) /\ Len(wanted) = Len(queue)
        /\ \A j \in 1 .. Len(queue) : wanted[j] = queue[j].link
        /\ LinksOf(queue') \in Seq(Links) /\ Len(LinksOf(queue')) = Len(queue)
        /\ \A j \in 1 .. Len(queue) : LinksOf(queue')[j] = queue'[j].link
    BY <1>1, <1>3, <2>1, LinksType
  <2> DEFINE w == ToFront(wanted, i)
  <2>3. /\ w \in Seq(Links) /\ Len(w) = Len(queue)
        /\ \A j \in 1 .. Len(queue) :
             w[j] = IF j = 1 THEN wanted[i] ELSE IF j <= i THEN wanted[j - 1] ELSE wanted[j]
    <3>1. i \in 1 .. Len(wanted)
      BY <1>1, <2>2
    <3>2. /\ w \in Seq(Links) /\ Len(w) = Len(wanted)
          /\ \A j \in 1 .. Len(wanted) :
               w[j] = IF j = 1 THEN wanted[i] ELSE IF j <= i THEN wanted[j - 1] ELSE wanted[j]
      BY <2>2, <3>1, ToFrontProperties, Zenon
    <3> QED
      BY <2>2, <3>2
  <2> HIDE DEF w
  <2>4. ASSUME NEW j \in 1 .. Len(queue)
        PROVE  LinksOf(queue')[j] = w[j]
    <3>1. j = 1 \/ j - 1 \in 1 .. Len(queue)
      BY <1>1
    <3>2. LinksOf(queue')[j] = queue'[j].link
      BY <2>2
    <3>3. queue'[j] = IF j = 1 THEN queue[i] ELSE IF j <= i THEN queue[j - 1] ELSE queue[j]
      BY <1>3
    <3>4. w[j] = IF j = 1 THEN wanted[i] ELSE IF j <= i THEN wanted[j - 1] ELSE wanted[j]
      BY <2>3
    <3>5. /\ wanted[i] = queue[i].link /\ wanted[j] = queue[j].link
          /\ j # 1 => wanted[j - 1] = queue[j - 1].link
      BY <1>1, <2>2, <3>1
    <3> QED
      BY <3>2, <3>3, <3>4, <3>5
  <2> QED
    BY <2>2, <2>3, <2>4, SeqEqual DEF w
<1>11. Placed' /\ disturbed' \in Nat
  BY <1>2, <1>10, RearrangedPlaced
<1> QED
  BY <1>2, <1>3, <1>6, <1>7, <1>9, <1>11 DEF Typed

\* The rows change in nothing but what their files are.
LEMMA FilesChange ==
    ASSUME QueueInv, queue' \in [DOMAIN queue -> Rows],
           \A i \in DOMAIN queue : queue'[i].id = queue[i].id /\ queue'[i].link = queue[i].link,
           pc' = pc \/ (pc = "off" /\ pc' = "poll"),
           UNCHANGED <<current, todo, row, position, disturbed, wanted>>
    PROVE  QueueInv'
<1> USE DEF QueueInv
<1>1. queue \in Seq(Rows) /\ Len(queue) \in Nat /\ DOMAIN queue = 1 .. Len(queue)
  BY ElementTypes DEF Typed
<1>2. queue' \in Seq(Rows) /\ Len(queue') = Len(queue) /\ DOMAIN queue' = DOMAIN queue
  BY <1>1
<1>3. UniqueIds'
  BY <1>2 DEF UniqueIds
<1>4. SameLink'
  <2>1. \A j \in DOMAIN queue' :
           \E k \in DOMAIN queue : queue'[j].id = queue[k].id /\ queue'[j].link = queue[k].link
    BY <1>2
  <2>2. NewId \notin Ids(todo) /\ NewId # row.id
    BY NewIdIsNew
  <2> QED
    BY <2>1, <2>2, SameLinkKept
<1>5. current' = NoSong \/ current' \in Ids(queue')
  BY <1>2 DEF Typed, Ids
<1>6. LinksOf(queue') = LinksOf(queue)
  BY <1>1, <1>2, RowsInPlace
<1>7. Placed'
  BY <1>2, <1>6 DEF Placed
<1>8. Typed'
  BY <1>2, <1>5 DEF Typed
<1> QED
  BY <1>3, <1>4, <1>7, <1>8

\* A stream drops or answers again.
LEMMA StreamsChangeQueue ==
    ASSUME QueueInv, NEW i \in DOMAIN queue, StreamDrops(i) \/ StreamAnswersAgain(i)
    PROVE  QueueInv'
<1>1. queue \in Seq(Rows) /\ DOMAIN queue = 1 .. Len(queue) /\ \A j \in DOMAIN queue : queue[j] \in Rows
  BY ElementTypes DEF QueueInv, Typed
<1>2. PICK file \in Files : queue' = [queue EXCEPT ![i].file = file]
  BY DEF StreamDrops, StreamAnswersAgain, Files
<1>3. ASSUME NEW j \in DOMAIN queue
      PROVE  /\ queue'[j] \in Rows
             /\ queue'[j].id = queue[j].id /\ queue'[j].link = queue[j].link
  <2>1. queue'[j] = IF j = i THEN [queue[j] EXCEPT !.file = file] ELSE queue[j]
    BY <1>1, <1>2
  <2>2. queue[j] \in Rows
    BY <1>1
  <2> QED
    BY <2>1, <2>2 DEF Rows
<1>4. queue' \in [DOMAIN queue -> Rows]
  <2>1. queue' = [j \in DOMAIN queue |-> queue'[j]]
    BY <1>1, <1>2
  <2> QED
    BY <1>3, <2>1
<1>5. UNCHANGED <<pc, current, todo, row, position, disturbed, wanted>>
  BY DEF StreamDrops, StreamAnswersAgain, daemonVars, history
<1> QED
  BY <1>3, <1>4, <1>5, FilesChange

\* The daemon comes up: streams may no longer answer.
LEMMA DaemonStartsQueue == ASSUME QueueInv, DaemonStarts PROVE QueueInv'
<1>1. queue \in Seq(Rows) /\ DOMAIN queue = 1 .. Len(queue) /\ \A j \in DOMAIN queue : queue[j] \in Rows
  BY ElementTypes DEF QueueInv, Typed
<1>2. PICK lost \in SUBSET {i \in DOMAIN queue : queue[i].file = "stream"} :
        queue' = [i \in DOMAIN queue |->
                    IF i \in lost THEN [queue[i] EXCEPT !.file = "stale"] ELSE queue[i]]
  BY DEF DaemonStarts
<1>3. ASSUME NEW j \in DOMAIN queue
      PROVE  /\ queue'[j] \in Rows
             /\ queue'[j].id = queue[j].id /\ queue'[j].link = queue[j].link
  <2>1. queue'[j] = IF j \in lost THEN [queue[j] EXCEPT !.file = "stale"] ELSE queue[j]
    BY <1>2
  <2>2. queue[j] \in Rows
    BY <1>1
  <2> QED
    BY <2>1, <2>2 DEF Rows, Files
<1>4. queue' \in [DOMAIN queue -> Rows]
  <2>1. queue' = [j \in DOMAIN queue |-> queue'[j]]
    BY <1>2
  <2> QED
    BY <1>3, <2>1
<1>5. /\ pc = "off" /\ pc' = "poll"
      /\ UNCHANGED <<current, todo, row, position, disturbed, wanted>>
  BY DEF DaemonStarts, history
<1> QED
  BY <1>3, <1>4, <1>5, FilesChange

-----------------------------------------------------------------------------
(* The watcher thread.                                                      *)

\* A step that leaves the queue and remembers no row that was not in it.
LEMMA QueueUntouched ==
    ASSUME QueueInv, UNCHANGED <<queue, disturbed, wanted>>,
           current' = current \/ current' = NoSong \/ current' \in Ids(queue),
           todo' \in Seq(Rows), row' = NoRow \/ row' \in Rows,
           pc' \in {"resolve", "reread", "delete", "add"} => row' \in Rows,
           SameLink', pc # "add", pc' # "add",
           pc' = "delete" => Placed' /\ position' \in Nat \ {0}
    PROVE  QueueInv'
<1>1. UniqueIds'
  BY DEF QueueInv, UniqueIds
<1>2. Placed'
  BY DEF QueueInv, Placed
<1> QED
  BY <1>1, <1>2 DEF QueueInv, Typed, Ids

\* The next rows to look at are rows of the queue.
LEMMA CandidatesAreRows ==
    ASSUME QueueInv, NEW pick \in Ids(queue) \union {NoSong}
    PROVE  /\ Candidates(pick) \in Seq(Rows)
           /\ \A k \in DOMAIN Candidates(pick) :
                \E i \in DOMAIN queue : Candidates(pick)[k] = queue[i]
<1> DEFINE Here == {queue[i] : i \in DOMAIN queue}
           first == IF pick = NoSong THEN <<>> ELSE <<queue[IndexOf(pick)]>>
           after == IF current = NoSong THEN <<>>
                    ELSE SubSeq(queue, IndexOf(current) + 1, Len(queue))
           others == IF pick \in Ids(after)
                     THEN RemoveAt(after, IndexOf(pick) - IndexOf(current))
                     ELSE after
           all == first \o others
<1>1. /\ queue \in Seq(Rows) /\ Len(queue) \in Nat /\ DOMAIN queue = 1 .. Len(queue)
      /\ \A j \in 1 .. Len(queue) : queue[j] \in Rows /\ queue[j] \in Here
      /\ Here \subseteq Rows
  BY ElementTypes DEF QueueInv, Typed
<1>2. first \in Seq(Here)
  <2>1. CASE pick = NoSong
    BY <2>1
  <2>2. CASE pick # NoSong
    <3>1. IndexOf(pick) \in 1 .. Len(queue)
      BY <2>2, IndexOfRow DEF QueueInv
    <3>2. queue[IndexOf(pick)] \in Here
      BY <1>1, <3>1
    <3> HIDE DEF Here
    <3> QED
      BY <2>2, <3>2
  <2> QED
    BY <2>1, <2>2
<1>3. ASSUME current # NoSong
      PROVE  /\ IndexOf(current) \in 1 .. Len(queue)
             /\ after \in Seq(Here) /\ Len(after) = Len(queue) - IndexOf(current)
             /\ \A k \in 1 .. Len(queue) - IndexOf(current) : after[k] = queue[IndexOf(current) + k]
  <2>1. IndexOf(current) \in 1 .. Len(queue)
    BY <1>3, IndexOfRow DEF QueueInv, Typed
  <2> DEFINE c == IndexOf(current)
             sub == SubSeq(queue, c + 1, Len(queue))
  <2> HIDE DEF c, Here
  <2>2. c + 1 \in Int /\ Len(queue) \in Int /\ \A j \in c + 1 .. Len(queue) : queue[j] \in Here
    BY <1>1, <2>1 DEF c
  <2>3. /\ sub \in Seq(Here)
        /\ Len(sub) = IF c + 1 <= Len(queue) THEN Len(queue) - (c + 1) + 1 ELSE 0
        /\ \A k \in 1 .. Len(queue) - (c + 1) + 1 : sub[k] = queue[c + 1 + k - 1]
    BY <2>2, SubSeqProperties
  <2>4. after = sub
    BY <1>3 DEF c
  <2> HIDE DEF sub, after
  <2>5. c \in 1 .. Len(queue)
    BY <2>1 DEF c
  <2>6. Len(sub) = Len(queue) - c
    <3>1. Len(sub) = IF c + 1 <= Len(queue) THEN Len(queue) - (c + 1) + 1 ELSE 0
      BY <2>3
    <3>2. Len(queue) \in Nat
      BY <1>1
    <3> DEFINE n == Len(queue)
               m == Len(sub)
    <3> HIDE DEF sub, n, m
    <3>3. n \in Nat /\ c \in 1 .. n /\ m = IF c + 1 <= n THEN n - (c + 1) + 1 ELSE 0
      BY <2>5, <3>1, <3>2 DEF n, m
    <3>4. m = n - c
      BY <3>3
    <3> QED
      BY <3>4 DEF n, m
  <2>7. ASSUME NEW k \in 1 .. Len(queue) - c
        PROVE  sub[k] = queue[c + k]
    <3>1. k \in 1 .. Len(queue) - (c + 1) + 1 /\ c + 1 + k - 1 = c + k
      BY <1>1, <2>5
    <3> QED
      BY <2>3, <3>1
  <2> QED
    BY <2>1, <2>3, <2>4, <2>6, <2>7 DEF c
<1>4. after \in Seq(Here)
  BY <1>3
<1>5. others \in Seq(Here)
  <2>1. CASE pick \notin Ids(after)
    BY <1>4, <2>1
  <2>2. CASE pick \in Ids(after)
    <3>1. current # NoSong
      BY <2>2 DEF Ids
    <3>2. PICK k \in DOMAIN after : after[k].id = pick
      BY <2>2 DEF Ids
    <3>3. /\ IndexOf(current) \in 1 .. Len(queue) /\ Len(after) = Len(queue) - IndexOf(current)
          /\ k \in 1 .. Len(queue) - IndexOf(current)
          /\ after[k] = queue[IndexOf(current) + k]
      <4>1. DOMAIN after = 1 .. Len(after)
        BY <1>4, ElementTypes
      <4> HIDE DEF after
      <4> QED
        BY <1>3, <3>1, <3>2, <4>1
    <3> HIDE DEF after
    <3>4. IndexOf(current) + k \in DOMAIN queue
      BY <1>1, <3>3
    <3>5. pick \in Ids(queue)
      BY <3>2, <3>3, <3>4 DEF Ids
    <3>6. IndexOf(pick) = IndexOf(current) + k
      BY <3>2, <3>3, <3>4, <3>5, IndexOfRow DEF QueueInv
    <3>7. IndexOf(pick) - IndexOf(current) \in 1 .. Len(after)
      BY <1>1, <3>3, <3>6
    <3> HIDE DEF Here
    <3>8. RemoveAt(after, IndexOf(pick) - IndexOf(current)) \in Seq(Here)
      BY <1>4, <3>7, RemoveAtProperties
    <3> QED
      BY <2>2, <3>8
  <2> QED
    BY <2>1, <2>2
<1>6. all \in Seq(Here)
  <2> HIDE DEF first, others, Here
  <2> QED
    BY <1>2, <1>5, ConcatProperties
<1>7. Candidates(pick) = IF Len(all) <= Window THEN all ELSE SubSeq(all, 1, Window)
  BY DEF Candidates
<1> HIDE DEF all, Here
<1>8. Candidates(pick) \in Seq(Here)
  <2>1. CASE Len(all) <= Window
    BY <1>6, <1>7, <2>1
  <2>2. CASE ~ (Len(all) <= Window)
    <3>1. Len(all) \in Nat /\ \A j \in 1 .. Len(all) : all[j] \in Here
      BY <1>6, ElementTypes
    <3>2. 1 \in Int /\ Window \in Int /\ \A j \in 1 .. Window : all[j] \in Here
      BY <2>2, <3>1, CaretakerAssumption
    <3>3. SubSeq(all, 1, Window) \in Seq(Here)
      BY <3>2, SubSeqProperties
    <3> QED
      BY <1>7, <2>2, <3>3
  <2> QED
    BY <2>1, <2>2
<1>9. /\ DOMAIN Candidates(pick) = 1 .. Len(Candidates(pick))
      /\ \A k \in 1 .. Len(Candidates(pick)) : Candidates(pick)[k] \in Here
      /\ Len(Candidates(pick)) \in Nat
  BY <1>8, ElementTypes
<1>10. Candidates(pick) \in Seq(Rows)
  BY <1>1, <1>8, <1>9
<1> QED
  BY <1>9, <1>10 DEF Here

LEMMA PollQueue == ASSUME QueueInv, Poll PROVE QueueInv'
<1>1. PICK pick \in Ids(queue) \union {NoSong} : todo' = Candidates(pick)
  BY DEF Poll
<1>2. /\ pc = "poll" /\ pc' = "choose"
      /\ UNCHANGED <<queue, current, row, disturbed, wanted>>
  BY DEF Poll, history
<1>3. /\ todo' \in Seq(Rows)
      /\ \A k \in DOMAIN todo' : \E i \in DOMAIN queue : todo'[k] = queue[i]
  BY <1>1, CandidatesAreRows
<1>4. SameLink'
  BY <1>2, <1>3 DEF QueueInv, SameLink, UniqueIds
<1> QED
  BY <1>2, <1>3, <1>4, QueueUntouched DEF QueueInv, Typed

LEMMA NoRowIsNowhere ==
    ASSUME QueueInv, UNCHANGED queue, row' = NoRow,
           \A k \in DOMAIN todo' : \E j \in DOMAIN todo : todo'[k] = todo[j]
    PROVE  SameLink'
<1>1. NoRow.id = 0
  BY DEF NoRow, Row
<1>2. \A i \in DOMAIN queue : queue[i].id # 0
  <2>1. \A i \in DOMAIN queue : queue[i] \in Rows
    BY ElementTypes DEF QueueInv, Typed
  <2> QED
    BY <2>1 DEF Rows
<1> QED
  BY <1>1, <1>2 DEF QueueInv, SameLink

LEMMA ChooseQueue == ASSUME QueueInv, Choose PROVE QueueInv'
<1>1. pc = "choose" /\ UNCHANGED <<queue, current, disturbed, wanted>>
  BY DEF Choose, history
<1>2. CASE todo = <<>> \/ StandsDown
  <2>1. pc' = "poll" /\ todo' = <<>> /\ row' = row
    BY <1>2 DEF Choose
  <2>2. SameLink'
    BY <1>1, <2>1 DEF QueueInv, SameLink
  <2> QED
    BY <1>1, <2>1, <2>2, QueueUntouched DEF QueueInv, Typed
<1>3. CASE ~ (todo = <<>> \/ StandsDown)
  <2>1. /\ todo' = Tail(todo)
        /\ IF WorthResolving(Head(todo)) THEN pc' = "resolve" /\ row' = Head(todo)
                                         ELSE UNCHANGED <<pc, row>>
    BY <1>3 DEF Choose
  <2>2. /\ Head(todo) \in Rows /\ Tail(todo) \in Seq(Rows) /\ Len(Tail(todo)) = Len(todo) - 1
        /\ \A k \in 1 .. Len(Tail(todo)) : Tail(todo)[k] = todo[k + 1]
    BY <1>3, HeadTailProperties DEF QueueInv, Typed
  <2>3. /\ Len(todo) \in Nat \ {0} /\ DOMAIN todo = 1 .. Len(todo) /\ Head(todo) = todo[1]
    <3>1. todo \in Seq(Rows) /\ todo # <<>>
      BY <1>3 DEF QueueInv, Typed
    <3> QED
      BY <3>1, ElementTypes, EmptySeq
  <2>4. DOMAIN Tail(todo) = 1 .. Len(todo) - 1
    BY <2>2, ElementTypes
  <2>5. \A k \in DOMAIN todo' : k + 1 \in DOMAIN todo /\ todo'[k] = todo[k + 1]
    BY <2>1, <2>2, <2>3, <2>4
  <2>6. 1 \in DOMAIN todo /\ Head(todo) = todo[1]
    BY <2>3
  <2>7. SameLink'
    BY <1>1, <2>1, <2>5, <2>6 DEF QueueInv, SameLink
  <2> QED
    BY <1>1, <2>1, <2>2, <2>7, QueueUntouched DEF QueueInv, Typed
<1> QED
  BY <1>2, <1>3

LEMMA ResolveQueue == ASSUME QueueInv, Resolves \/ ResolveFails PROVE QueueInv'
<1>1. /\ pc = "resolve" /\ UNCHANGED <<queue, current, todo, disturbed, wanted>>
      /\ \/ pc' = "reread" /\ row' = row
         \/ pc' = "choose" /\ row' = NoRow
  BY DEF Resolves, ResolveFails, BacksOff, Returns, history
<1>2. SameLink'
  <2>1. CASE row' = row
    BY <1>1, <2>1 DEF QueueInv, SameLink
  <2>2. CASE row' = NoRow
    BY <1>1, <2>2, NoRowIsNowhere
  <2> QED
    BY <1>1, <2>1, <2>2
<1> QED
  BY <1>1, <1>2, QueueUntouched DEF QueueInv, Typed

LEMMA RereadsQueue == ASSUME QueueInv, Rereads PROVE QueueInv'
<1>1. pc = "reread" /\ UNCHANGED <<queue, current, todo, disturbed, wanted>>
  BY DEF Rereads, history
<1>2. CASE row.id \in Ids(queue)
  <2>1. pc' = "delete" /\ row' = row /\ position' = IndexOf(row.id)
    BY <1>2 DEF Rereads, PlaceOfRow
  <2>2. SameLink'
    BY <1>1, <2>1 DEF QueueInv, SameLink
  <2>3. /\ IndexOf(row.id) \in DOMAIN queue /\ queue[IndexOf(row.id)].id = row.id
        /\ IndexOf(row.id) \in Nat \ {0}
    BY <1>2, IndexOfRow, ElementTypes DEF QueueInv, Typed
  <2>4. Placed'
    BY <1>1, <2>1, <2>3 DEF QueueInv, Placed
  <2> QED
    BY <1>1, <2>1, <2>2, <2>3, <2>4, QueueUntouched DEF QueueInv, Typed
<1>3. CASE row.id \notin Ids(queue)
  <2>1. pc' = "choose" /\ row' = NoRow
    BY <1>3 DEF Rereads, Warmed, Returns
  <2>2. SameLink'
    BY <1>1, <2>1, NoRowIsNowhere
  <2> QED
    BY <1>1, <2>1, <2>2, QueueUntouched DEF QueueInv, Typed
<1> QED
  BY <1>2, <1>3

\* The row is taken out: undisturbed, it is the row at the place that was read.
LEMMA DeletesQueue == ASSUME QueueInv, Deletes PROVE QueueInv'
<1> USE DEF QueueInv
<1>1. /\ pc = "delete" /\ pc' = "add" /\ UNCHANGED <<todo, row, position, disturbed, wanted>>
      /\ row \in Rows
  BY DEF Deletes, Typed
<1>2. CASE row.id \in Ids(queue)
  <2> DEFINE i == IndexOf(row.id)
  <2>1. queue' = RemoveAt(queue, i) /\ current' = CurrentWithout(i)
    BY <1>2 DEF Deletes
  <2>2. /\ i \in 1 .. Len(queue) /\ queue[i].id = row.id
        /\ \A j \in DOMAIN queue : queue[j].id = row.id => j = i
    BY <1>2, IndexOfRow
  <2> HIDE DEF i
  <2>3. /\ queue' \in Seq(Rows) /\ UniqueIds' /\ SameLink'
        /\ current' = NoSong \/ current' \in Ids(queue')
        /\ LinksOf(queue') = RemoveAt(LinksOf(queue), i)
    BY <1>1, <2>1, <2>2, RowRemoved
  <2>4. ASSUME disturbed = 0
        PROVE  /\ position \in 1 .. Len(wanted) /\ wanted[position] = row.link
               /\ LinksOf(queue') = RemoveAt(wanted, position)
    <3>1. LinksOf(queue) = wanted /\ position = i
      BY <1>1, <2>2, <2>4 DEF Placed
    <3>2. /\ Len(wanted) = Len(queue) /\ wanted[i] = queue[i].link
      BY <2>2, <3>1, LinksType DEF Typed
    <3>3. queue[i].link = row.link
      <4>1. DOMAIN queue = 1 .. Len(queue)
        BY ElementTypes DEF Typed
      <4> QED
        BY <2>2, <4>1 DEF SameLink
    <3> QED
      BY <2>2, <2>3, <3>1, <3>2, <3>3
  <2>5. Placed'
    BY <1>1, <2>4 DEF Placed
  <2> QED
    BY <1>1, <2>3, <2>5 DEF Typed
<1>3. CASE row.id \notin Ids(queue)
  <2>1. UNCHANGED <<queue, current>>
    BY <1>3 DEF Deletes
  <2>2. disturbed # 0
    BY <1>1, <1>3 DEF Placed, Ids
  <2>3. Placed'
    BY <1>1, <2>2 DEF Placed
  <2> QED
    BY <1>1, <2>1, <2>3 DEF Typed, UniqueIds, SameLink, Ids
<1> QED
  BY <1>2, <1>3

\* The stream goes where the row was.
LEMMA AddsQueue == ASSUME QueueInv, Adds PROVE QueueInv'
<1> USE DEF QueueInv
<1> DEFINE r == Row(NewId, row.link, "stream")
<1>1. /\ pc = "add" /\ pc' = "choose" /\ row' = NoRow /\ UNCHANGED <<current, todo, disturbed, wanted>>
      /\ queue' = InsertAt(queue, position, r) /\ position <= Len(queue) + 1 /\ row \in Rows
  BY DEF Adds, Warmed, Returns, Typed
<1>2. /\ queue \in Seq(Rows) /\ Len(queue) \in Nat /\ DOMAIN queue = 1 .. Len(queue)
      /\ \A j \in 1 .. Len(queue) : queue[j] \in Rows
  BY ElementTypes DEF Typed
<1>3. /\ r \in Rows /\ r.id = NewId /\ r.link = row.link /\ NewId \notin Ids(queue)
      /\ NewId \notin Ids(todo)
  BY <1>1, NewIdIsNew DEF Row, Rows, Files
<1> HIDE DEF r
<1>4. position \in 1 .. Len(queue) + 1
  BY <1>1, <1>2 DEF Typed
<1>5. /\ queue' \in Seq(Rows) /\ Len(queue') = Len(queue) + 1
      /\ \A j \in 1 .. Len(queue) + 1 :
           queue'[j] = IF j < position THEN queue[j] ELSE IF j = position THEN r ELSE queue[j - 1]
  <2>1. queue' = InsertAt(queue, position, r)
    BY <1>1
  <2>2. queue' \in Seq(Rows) /\ Len(queue') = Len(queue) + 1
    BY <1>2, <1>3, <1>4, <2>1, InsertAtProperties
  <2>3. ASSUME NEW j \in 1 .. Len(queue) + 1
        PROVE  queue'[j] = IF j < position THEN queue[j] ELSE IF j = position THEN r ELSE queue[j - 1]
    <3>1. queue \in Seq(Rows) /\ r \in Rows
      BY <1>2, <1>3
    <3>2. InsertAt(queue, position, r)[j] =
            IF j < position THEN queue[j] ELSE IF j = position THEN r ELSE queue[j - 1]
      BY <1>4, <2>3, <3>1, InsertAtElement
    <3> QED
      BY <2>1, <3>2
  <2> QED
    BY <2>2, <2>3
<1>6. DOMAIN queue' = 1 .. Len(queue) + 1
  BY <1>5, ElementTypes
<1>7. ASSUME NEW j \in DOMAIN queue'
      PROVE  \/ j < position /\ j \in DOMAIN queue /\ queue'[j] = queue[j]
             \/ j = position /\ queue'[j] = r
             \/ j > position /\ j - 1 \in DOMAIN queue /\ queue'[j] = queue[j - 1]
  <2>1. CASE j < position
    BY <1>2, <1>4, <1>5, <1>6, <2>1
  <2>2. CASE j = position
    BY <1>5, <1>6, <2>2
  <2>3. CASE j > position
    BY <1>2, <1>4, <1>5, <1>6, <2>3
  <2> QED
    BY <1>2, <1>4, <1>6, <2>1, <2>2, <2>3
<1>8. \A k \in DOMAIN queue : queue[k].id \in Ids(queue') /\ queue[k].id # NewId
  <2> SUFFICES ASSUME NEW k \in DOMAIN queue
               PROVE  \E j \in DOMAIN queue' : queue'[j] = queue[k]
    BY <1>3 DEF Ids
  <2>1. CASE k < position
    <3>1. k \in DOMAIN queue' /\ queue'[k] = queue[k]
      BY <1>2, <1>5, <1>6, <2>1
    <3> QED
      BY <3>1
  <2>2. CASE ~ (k < position)
    <3>1. PICK j \in 1 .. Len(queue) + 1 : ~ (j < position) /\ j # position /\ j - 1 = k
      <4>1. /\ k + 1 \in 1 .. Len(queue) + 1 /\ ~ (k + 1 < position) /\ k + 1 # position
            /\ k + 1 - 1 = k
        BY <1>2, <1>4, <2>2
      <4> QED
        BY <4>1
    <3>2. j \in DOMAIN queue' /\ queue'[j] = queue[j - 1]
      BY <1>5, <1>6, <3>1
    <3> QED
      BY <3>1, <3>2
  <2> QED
    BY <2>1, <2>2
<1>9. UniqueIds'
  <2> SUFFICES ASSUME NEW a \in DOMAIN queue', NEW b \in DOMAIN queue', queue'[a].id = queue'[b].id
               PROVE  a = b
    BY DEF UniqueIds
  <2>1. a \in Nat /\ b \in Nat /\ position \in Nat
    BY <1>2, <1>4, <1>6
  <2>2. \A k \in DOMAIN queue : queue[k].id # r.id
    BY <1>3, <1>8
  <2> QED
    BY <1>7, <2>1, <2>2 DEF UniqueIds
<1>10. SameLink'
  <2>1. NoRow.id = 0 /\ r.id # 0
    BY <1>3 DEF NoRow, Row, Rows
  <2>2. \A k \in DOMAIN queue : queue[k].id # 0
    BY <1>2 DEF Rows
  <2>3. \A j \in DOMAIN todo : r.id # todo[j].id
    BY <1>3 DEF Ids
  <2> SUFFICES ASSUME NEW i \in DOMAIN queue'
               PROVE  /\ queue'[i].id = row'.id => queue'[i].link = row'.link
                      /\ \A j \in DOMAIN todo :
                           queue'[i].id = todo[j].id => queue'[i].link = todo[j].link
    BY <1>1 DEF SameLink
  <2>4. CASE queue'[i] = r
    BY <1>1, <2>1, <2>3, <2>4
  <2>5. CASE \E k \in DOMAIN queue : queue'[i] = queue[k]
    BY <1>1, <2>1, <2>2, <2>5 DEF SameLink
  <2> QED
    BY <1>7, <2>4, <2>5
<1>11. current' = NoSong \/ current' \in Ids(queue')
  <2>1. current = NoSong \/ \E k \in DOMAIN queue : current = queue[k].id
    BY DEF Typed, Ids
  <2> QED
    BY <1>1, <1>8, <2>1
<1>12. ASSUME disturbed = 0
       PROVE  LinksOf(queue') = wanted
  <2>1. /\ wanted \in Seq(Links) /\ position \in 1 .. Len(wanted) /\ wanted[position] = row.link
        /\ LinksOf(queue) = RemoveAt(wanted, position)
    BY <1>1, <1>12 DEF Placed
  <2>2. row.link \in Links
    BY <1>1 DEF Rows
  <2>3. InsertAt(LinksOf(queue), position, row.link) = wanted
    BY <2>1, <2>2, InsertUndoesRemove
  <2>4. /\ LinksOf(queue) \in Seq(Links) /\ Len(LinksOf(queue)) = Len(queue)
        /\ \A j \in 1 .. Len(queue) : LinksOf(queue)[j] = queue[j].link
        /\ LinksOf(queue') \in Seq(Links) /\ Len(LinksOf(queue')) = Len(queue')
        /\ \A j \in 1 .. Len(queue') : LinksOf(queue')[j] = queue'[j].link
    BY <1>2, <1>5, LinksType
  <2> DEFINE w == InsertAt(LinksOf(queue), position, row.link)
  <2>5. /\ w \in Seq(Links) /\ Len(w) = Len(queue) + 1
        /\ \A j \in 1 .. Len(queue) + 1 :
             w[j] = IF j < position THEN LinksOf(queue)[j]
                    ELSE IF j = position THEN row.link ELSE LinksOf(queue)[j - 1]
    <3> DEFINE q == LinksOf(queue)
               x == row.link
    <3>1. q \in Seq(Links) /\ position \in 1 .. Len(q) + 1 /\ x \in Links /\ Len(q) = Len(queue)
      BY <1>4, <2>2, <2>4
    <3> HIDE DEF q, x
    <3>2. /\ InsertAt(q, position, x) \in Seq(Links) /\ Len(InsertAt(q, position, x)) = Len(q) + 1
          /\ \A j \in 1 .. Len(q) + 1 :
               InsertAt(q, position, x)[j] =
                 IF j < position THEN q[j] ELSE IF j = position THEN x ELSE q[j - 1]
      BY <3>1, InsertAtProperties
    <3> QED
      BY <3>1, <3>2 DEF q, x
  <2> HIDE DEF w
  <2>6. ASSUME NEW j \in 1 .. Len(queue) + 1
        PROVE  LinksOf(queue')[j] = w[j]
    <3>1. LinksOf(queue')[j] = queue'[j].link
      BY <1>5, <2>4
    <3>2. CASE j < position
      <4>1. j \in 1 .. Len(queue)
        BY <1>2, <1>4, <3>2
      <4> QED
        BY <1>5, <2>4, <2>5, <3>1, <3>2, <4>1
    <3>3. CASE j = position
      BY <1>3, <1>5, <2>5, <3>1, <3>3
    <3>4. CASE j > position
      <4>1. j - 1 \in 1 .. Len(queue) /\ ~ (j < position) /\ j # position
        BY <1>2, <1>4, <3>4
      <4> QED
        BY <1>5, <2>4, <2>5, <3>1, <4>1
    <3>5. j < position \/ j = position \/ j > position
      BY <1>2, <1>4
    <3> QED
      BY <3>2, <3>3, <3>4, <3>5, Zenon
  <2>7. LinksOf(queue') = w
    BY <1>5, <2>4, <2>5, <2>6, SeqEqual
  <2> QED
    BY <2>3, <2>7 DEF w
<1>13. Placed'
  BY <1>1, <1>12 DEF Placed
<1> QED
  BY <1>1, <1>5, <1>9, <1>10, <1>11, <1>13 DEF Typed

\* MPD refuses: undisturbed, the place is one of the queue and this cannot be.
LEMMA AddFailsQueue == ASSUME QueueInv, AddFails PROVE QueueInv'
<1> USE DEF QueueInv
<1>1. /\ pc = "add" /\ pc' = "choose" /\ row' = NoRow /\ UNCHANGED <<queue, current, todo>>
  BY DEF AddFails, BacksOff, Returns
<1>2. disturbed' \in Nat \ {0}
  <2>1. CASE Disturbs
    BY <2>1 DEF Disturbs, Typed
  <2>2. CASE position > Len(queue) + 1 /\ UNCHANGED <<disturbed, wanted>>
    <3>1. ASSUME disturbed = 0
          PROVE  FALSE
      <4>1. /\ wanted \in Seq(Links) /\ position \in 1 .. Len(wanted)
            /\ LinksOf(queue) = RemoveAt(wanted, position)
        BY <1>1, <3>1 DEF Placed
      <4>2. Len(LinksOf(queue)) = Len(wanted) - 1
        BY <4>1, RemoveAtProperties
      <4>3. Len(LinksOf(queue)) = Len(queue) /\ Len(queue) \in Nat
        BY LinksType, ElementTypes DEF Typed
      <4>4. Len(wanted) \in Nat
        BY <4>1, ElementTypes
      <4> QED
        BY <2>2, <4>1, <4>2, <4>3, <4>4
    <3> QED
      BY <2>2, <3>1 DEF Typed
  <2> QED
    BY <2>1, <2>2 DEF AddFails
<1>3. SameLink'
  BY <1>1, NoRowIsNowhere
<1>4. UniqueIds' /\ Placed'
  BY <1>1, <1>2 DEF UniqueIds, Placed
<1> QED
  BY <1>1, <1>2, <1>3, <1>4 DEF Typed, Ids

\* The daemon ends: between its two calls that is a disturbance.
LEMMA DaemonEndsQueue == ASSUME QueueInv, DaemonEnds PROVE QueueInv'
<1> USE DEF QueueInv
<1>1. /\ pc' = "off" /\ row' = NoRow /\ todo' = <<>> /\ UNCHANGED <<queue, current>>
      /\ IF pc = "add" THEN Disturbs ELSE UNCHANGED <<disturbed, wanted>>
  BY DEF DaemonEnds
<1>2. SameLink' /\ <<>> \in Seq(Rows)
  BY <1>1, NoRowIsNowhere
<1>3. disturbed' \in Nat /\ Placed'
  <2>1. CASE pc = "add"
    <3>1. disturbed' \in Nat /\ disturbed' # 0
      BY <1>1, <2>1 DEF Disturbs, Typed
    <3> QED
      BY <3>1 DEF Placed
  <2>2. CASE pc # "add"
    BY <1>1, <2>2 DEF Placed, Typed
  <2> QED
    BY <2>1, <2>2
<1> QED
  BY <1>1, <1>2, <1>3 DEF Typed, UniqueIds, Ids

LEMMA MpdAdvancesQueue == ASSUME QueueInv, MpdAdvances PROVE QueueInv'
<1> USE DEF QueueInv
<1>1. queue # <<>> /\ UNCHANGED <<queue, pc, todo, row, position, disturbed, wanted>>
  BY DEF MpdAdvances, daemonVars, history
<1>2. Len(queue) \in Nat \ {0} /\ DOMAIN queue = 1 .. Len(queue)
  BY <1>1, ElementTypes, EmptySeq DEF Typed
<1>3. current' = NoSong \/ current' \in Ids(queue)
  <2>1. CASE current = NoSong
    <3>1. 1 \in DOMAIN queue /\ current' = queue[1].id
      BY <1>2, <2>1 DEF MpdAdvances
    <3> QED
      BY <3>1 DEF Ids
  <2>2. CASE current # NoSong
    <3>1. IndexOf(current) \in 1 .. Len(queue)
      BY <2>2, IndexOfRow DEF Typed
    <3>2. current' = IF IndexOf(current) < Len(queue) THEN queue[IndexOf(current) + 1].id ELSE NoSong
      BY <2>2 DEF MpdAdvances
    <3>3. IndexOf(current) < Len(queue) => IndexOf(current) + 1 \in DOMAIN queue
      BY <1>2, <3>1
    <3> QED
      BY <3>2, <3>3 DEF Ids
  <2> QED
    BY <2>1, <2>2
<1> QED
  BY <1>1, <1>3 DEF Typed, UniqueIds, SameLink, Placed, Ids

LEMMA QueueKept ==
    ASSUME QueueInv, UNCHANGED <<queue, current, pc, todo, row, position, disturbed, wanted>>
    PROVE  QueueInv'
  BY DEF QueueInv, Typed, UniqueIds, SameLink, Placed, Ids

LEMMA InitQueue == Init => QueueInv
<1> SUFFICES ASSUME Init PROVE QueueInv
  OBVIOUS
<1>1. /\ Before \in Seq(Links) /\ Len(Before) \in Nat /\ DOMAIN Before = 1 .. Len(Before)
      /\ \A i \in 1 .. Len(Before) : Before[i] \in Links
  <2>1. Before \in Seq(Links)
    BY CaretakerAssumption
  <2> QED
    BY <2>1, ElementTypes
<1>2. /\ DOMAIN queue = 1 .. Len(Before)
      /\ \A i \in 1 .. Len(Before) : queue[i] = Row(i, Before[i], "link")
      /\ current = NoSong /\ pc = "poll" /\ todo = <<>> /\ row = NoRow /\ wanted = Before
      /\ disturbed = 0
  BY <1>1 DEF Init
<1>3. ASSUME NEW i \in 1 .. Len(Before)
      PROVE  queue[i] \in Rows /\ queue[i].id = i /\ queue[i].link = Before[i]
  <2>1. Before[i] \in Links /\ i \in Nat \ {0}
    BY <1>1
  <2>2. queue[i] = Row(i, Before[i], "link")
    BY <1>2
  <2> QED
    BY <2>1, <2>2 DEF Row, Rows, Files
<1>4. queue \in Seq(Rows) /\ Len(queue) = Len(Before)
  <2>1. queue = [i \in 1 .. Len(Before) |-> queue[i]]
    BY <1>1 DEF Init
  <2>2. queue \in [1 .. Len(Before) -> Rows]
    BY <1>2, <1>3, <2>1
  <2> QED
    BY <1>1, <1>2, <2>2
<1>5. UniqueIds
  BY <1>2, <1>3 DEF UniqueIds
<1>6. SameLink
  <2>1. row.id = 0
    BY <1>2 DEF NoRow, Row
  <2>2. \A i \in DOMAIN queue : queue[i].id # 0
    BY <1>1, <1>2, <1>3
  <2>3. DOMAIN todo = {}
    BY <1>2
  <2> QED
    BY <2>1, <2>2, <2>3 DEF SameLink
<1>7. LinksOf(queue) = Before
  <2>1. /\ LinksOf(queue) \in Seq(Links) /\ Len(LinksOf(queue)) = Len(Before)
        /\ \A i \in 1 .. Len(Before) : LinksOf(queue)[i] = queue[i].link
    BY <1>4, LinksType
  <2>2. \A i \in 1 .. Len(Before) : LinksOf(queue)[i] = Before[i]
    BY <1>3, <2>1
  <2> QED
    BY <1>1, <2>1, <2>2, SeqEqual
<1>8. Placed
  BY <1>1, <1>2, <1>7 DEF Placed
<1>9. Typed
  <2>1. todo \in Seq(Rows)
    BY <1>2
  <2> QED
    BY <1>2, <1>4, <2>1 DEF Typed
<1> QED
  BY <1>5, <1>6, <1>8, <1>9 DEF QueueInv

LEMMA NextQueue == QueueInv /\ [Next]_vars => QueueInv'
<1> SUFFICES ASSUME QueueInv, [Next]_vars PROVE QueueInv'
  OBVIOUS
<1>1. CASE UNCHANGED vars
  BY <1>1, QueueKept DEF vars, daemonVars, history
<1>2. CASE TuiStarts \/ TuiExits
  BY <1>2, QueueKept DEF TuiStarts, TuiExits, daemonVars
<1>3. CASE WatcherStep
  BY <1>3, PollQueue, ChooseQueue, ResolveQueue, RereadsQueue, DeletesQueue, AddsQueue,
     AddFailsQueue DEF WatcherStep
<1>4. ASSUME NEW i \in DOMAIN queue,
             \/ RemoveRow(i) \/ MoveToFront(i) \/ TuiSwaps(i)
             \/ StreamDrops(i) \/ StreamAnswersAgain(i)
      PROVE  QueueInv'
  BY <1>4, RemoveRowQueue, MoveToFrontQueue, TuiSwapsQueue, StreamsChangeQueue
<1> QED
  BY <1>1, <1>2, <1>3, <1>4, MpdAdvancesQueue, AddRowQueue, DaemonEndsQueue, DaemonStartsQueue
     DEF Next

\* A row is swapped in place: the caretaker leaves the queue as people left it,
\* whenever it is not between its two calls, until an edit, a refusal or the end
\* of the daemon meets a swap.
THEOREM SwapsKeepTheQueue == Spec => []QueueIsAsLeft
<1>1. QueueInv => QueueIsAsLeft
  BY DEF QueueInv, Placed, QueueIsAsLeft
<1> QED
  BY <1>1, InitQueue, NextQueue, PTL DEF Spec

==============
