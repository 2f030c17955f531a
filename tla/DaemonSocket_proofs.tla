------------------------- MODULE DaemonSocket_proofs -------------------------
(***************************************************************************)
(* What DaemonSocket promises for any number of daemons, starters, stops   *)
(* and crashes, whether starts overlap or not.                             *)
(***************************************************************************)
EXTENDS DaemonSocket, TLAPS

Pcs == {"unborn", "exists", "connect", "remove", "bind", "listen", "serve", "gone"}

\* A daemon that is not crowded starts alone.
StartsAlone ==
    \A d, e \in Daemons :
       pc[d] \in Starting /\ d \notin crowded /\ pc[e] \in Starting => d = e

\* A daemon that has taken the path for stale is right but for crowded ones.
RemovesOnlyStale ==
    \A d, e \in Daemons : pc[d] = "remove" /\ pc[e] = "serve" => e \in crowded \/ StrayLeft

\* A daemon that started alone and met nobody finds the path free when it binds.
PathIsFree ==
    \A d \in Daemons : pc[d] = "bind" /\ d \notin met /\ d \notin crowded => path = NoOne

Inv ==
    /\ pc \in [Daemons -> Pcs]
    /\ crowded \subseteq Daemons
    /\ StartsAlone
    /\ HolderIsReachable
    /\ RemovesOnlyStale
    /\ PathIsFree
    /\ OnlyTheLivingTurnAway

\* No daemon has been started.
LEMMA InitInv == Init => Inv
  BY DaemonSocketAssumption
  DEF Init, Inv, Pcs, Starting, StartsAlone, HolderIsReachable,
      RemovesOnlyStale, PathIsFree, OnlyTheLivingTurnAway

\* A daemon that dies, wherever it is, leaves the others as they were.
LEMMA DiesInv ==
  ASSUME Inv, NEW d, Dies(d), UNCHANGED <<asked, path, met, crowded>>
  PROVE  Inv'
  BY DEF Inv, Dies, StrayLeft, Pcs, Starting, StartsAlone, HolderIsReachable,
         RemovesOnlyStale, PathIsFree, OnlyTheLivingTurnAway

\* A new daemon and those that are starting crowd each other.
LEMMA BornInv ==
  ASSUME Inv, NEW d \in Daemons, IsBorn(d), UNCHANGED <<asked, path, met, died>>
  PROVE  Inv'
  BY DEF Inv, IsBorn, StrayLeft, Pcs, Starting, StartsAlone, HolderIsReachable,
         RemovesOnlyStale, PathIsFree, OnlyTheLivingTurnAway

\* Every step of serve() keeps the invariant.
LEMMA DaemonStepInv ==
  ASSUME Inv, NEW d \in Daemons, DaemonStep(d)
  PROVE  Inv'
<1> USE DEF Inv, Pcs, Starting, StrayLeft, StartsAlone, HolderIsReachable,
            RemovesOnlyStale, PathIsFree, OnlyTheLivingTurnAway
<1>1. CASE LooksForPath(d)
  BY <1>1 DEF LooksForPath
<1>2. CASE TriesToConnect(d)
  BY <1>2 DEF TriesToConnect, AfterProbe, IsRunning, Answers
<1>3. CASE RemovesStale(d)
  BY <1>3 DEF RemovesStale
<1>4. CASE Binds(d)
  <2>1. CASE path = NoOne
    BY <1>4, <2>1, DaemonSocketAssumption DEF Binds
  <2>2. CASE path # NoOne
    BY <1>4, <2>2 DEF Binds
  <2> QED
    BY <2>1, <2>2
<1>5. CASE Listens(d)
  BY <1>5 DEF Listens
<1>6. CASE Leaves(d)
  BY <1>6 DEF Leaves
<1> QED
  BY <1>1, <1>2, <1>3, <1>4, <1>5, <1>6 DEF DaemonStep

\* Every step keeps the invariant.
LEMMA NextInv ==
  ASSUME Inv, [Next]_vars
  PROVE  Inv'
<1> USE DEF Inv, Starting, StrayLeft, StartsAlone, HolderIsReachable, RemovesOnlyStale,
            PathIsFree, OnlyTheLivingTurnAway
<1>1. ASSUME UNCHANGED <<pc, asked, path, met, died, crowded>>
      PROVE  Inv'
  BY <1>1
<1>2. ASSUME NEW s \in Starters, StarterStep(s) \/ StartAgain(s)
      PROVE  Inv'
  <2>1. CASE Spawn(s)
    BY <2>1, BornInv DEF Spawn
  <2>2. CASE AskFirst(s) \/ FindsItUp(s) \/ GivesUp(s) \/ StartAgain(s)
    BY <2>2, <1>1 DEF AskFirst, FindsItUp, GivesUp, StartAgain
  <2> QED
    BY <1>2, <2>1, <2>2 DEF StarterStep
<1>3. ASSUME NEW d \in Daemons, DaemonStep(d) \/ ServeByHand(d) \/ Crashes(d)
      PROVE  Inv'
  <2>1. CASE DaemonStep(d)
    BY <2>1, DaemonStepInv
  <2>2. CASE ServeByHand(d)
    BY <2>2, BornInv DEF ServeByHand
  <2>3. CASE Crashes(d)
    BY <2>3, DiesInv DEF Crashes
  <2> QED
    BY <1>3, <2>1, <2>2, <2>3
<1>4. CASE AsksWho \/ FindsItStopped
  BY <1>4, <1>1 DEF AsksWho, FindsItStopped
<1>5. CASE AsksToStop
  BY <1>5 DEF AsksToStop, AfterRequest
<1>6. CASE SendsTerm \/ SendsKill
  <2>1. CASE Alive(target)
    BY <1>6, <2>1, DiesInv DEF SendsTerm, SendsKill, Signalled
  <2>2. CASE ~Alive(target)
    BY <1>6, <2>2, <1>1 DEF SendsTerm, SendsKill, Signalled
  <2> QED
    BY <2>1, <2>2
<1>7. CASE UNCHANGED vars
  BY <1>7, <1>1 DEF vars
<1> QED
  BY <1>2, <1>3, <1>4, <1>5, <1>6, <1>7 DEF Next

\* The inductive invariant holds in every behaviour.
LEMMA Invariance == Spec => []Inv
<1>1. Init => Inv
  BY InitInv
<1>2. Inv /\ [Next]_vars => Inv'
  BY NextInv
<1> QED
  BY <1>1, <1>2, PTL DEF Spec

\* A daemon that was started alone and bound the socket is the one its path
\* names until it ends, or until a daemon that was started together with another
\* is stopped (serve()).
THEOREM HolderStaysReachable == Spec => []HolderIsReachable
<1>1. Inv => HolderIsReachable
  BY DEF Inv
<1> QED
  BY <1>1, Invariance, PTL

\* A daemon that ends at its bind was answered by another one when it looked, or
\* was started together with one: a path left by a crash never turns it away
\* (serve()).
THEOREM StaleTurnsNobodyAway == Spec => []OnlyTheLivingTurnAway
<1>1. Inv => OnlyTheLivingTurnAway
  BY DEF Inv
<1> QED
  BY <1>1, Invariance, PTL
=============================================================================
