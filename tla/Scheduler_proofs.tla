--------------------------- MODULE Scheduler_proofs ---------------------------
(***************************************************************************)
(* Proofs about Scheduler for rotations of any size, any lead, durations,  *)
(* overlap, and any number of commands.  For the invariant what an index   *)
(* means, EntryAt, is left unexpanded: all that matters there is what it   *)
(* depends on.  What it is comes in for where a jump lands.                *)
(***************************************************************************)
EXTENDS Scheduler, LeastNumber, TLAPS

\* The render loop is not in the middle of a command.
Calm == rpc \in {"top", "compose", "down"}

\* A build that may still be filed is one of the entry its index means.
BuildAsMapped ==
  (Calm /\ current /\ bpc \in {"segment", "cache", "build"}) => bEntry = EntryAt(bIndex)

\* The Builder works ahead of the playhead, no further than Lead, and never on
\* what is built.
Ahead ==
  /\ DOMAIN ready \subseteq index .. index + Lead
  /\ bpc # "pick" => bIndex \in index + 1 .. index + Lead /\ bIndex \notin DOMAIN ready

\* No child but the last one started has drawn on a layer, and none is on the
\* wall under our own frames.
OverlayOfChild == overlay \subseteq {childEntry}

IInv ==
  /\ index \in Nat
  /\ OnAirBuilt /\ Ahead /\ BuildAsMapped /\ ReadyAsMapped
  /\ OneDrawer /\ OverlayOfChild /\ CleanExit

-----------------------------------------------------------------------------
(* What the conjuncts depend on.                                           *)

LEMMA EntryAtStable ==
  ASSUME enabled' = enabled, offset' = offset
  PROVE  \A i : EntryAt(i)' = EntryAt(i)
  BY DEF EntryAt, Live

\* Steps of the Builder alone.
LEMMA ShowStable ==
  ASSUME IInv, exec' = exec, rpc' = rpc
  PROVE  OneDrawer' /\ OverlayOfChild' /\ CleanExit'
  BY DEF IInv, OneDrawer, OverlayOfChild, CleanExit, exec

LEMMA OnAirStable ==
  ASSUME IInv, show' = show, DOMAIN ready \subseteq DOMAIN ready'
  PROVE  index' \in Nat /\ OnAirBuilt'
  BY DEF IInv, OnAirBuilt, show

-----------------------------------------------------------------------------
(* The Builder.                                                            *)

LEMMA PickAhead ==
  ASSUME IInv, Pick
  PROVE  bIndex' \in index + 1 .. index + Lead /\ bIndex' \notin DOMAIN ready
  <1>1. index \in Nat /\ Lead \in Nat /\ index \in DOMAIN ready
    BY SchedulerAssumption DEF IInv, OnAirBuilt
  <1>2. Missing \in SUBSET Nat /\ Missing # {}
    BY <1>1 DEF Pick, Missing
  <1>3. \E i \in Missing : \A k \in Missing : i <= k
    BY <1>2, HasLeast
  <1>4. bIndex' \in Missing
    BY <1>3 DEF Pick
  <1> QED
    BY <1>1, <1>4 DEF Missing

LEMMA BuilderInv == IInv /\ BuilderWorks => IInv'
  <1> SUFFICES ASSUME IInv, BuilderWorks PROVE IInv'
    OBVIOUS
  <1>1. /\ enabled' = enabled /\ offset' = offset /\ rpc' = rpc /\ show' = show /\ exec' = exec
        /\ strays' = strays /\ index' = index
    BY DEF BuilderWorks, Pick, Ask, ReadOptions, CacheSegment, File, BuilderUnchanged, history, show
  <1>2. /\ \A i : EntryAt(i)' = EntryAt(i)
        /\ Calm' <=> Calm
    BY <1>1, EntryAtStable DEF Calm
  <1>3. OneDrawer' /\ OverlayOfChild' /\ CleanExit'
    BY <1>1, ShowStable
  <1>4. CASE File
    <2>1. /\ bpc = "build" /\ bpc' = "pick" /\ current' = FALSE
          /\ \/ /\ current
                /\ ready' = [i \in DOMAIN ready \union {bIndex} |->
                     IF i = bIndex THEN [entry |-> bEntry, options |-> bOptions] ELSE ready[i]]
             \/ ready' = ready
      BY <1>4 DEF File, TurnOver
    <2>2. index' \in Nat /\ OnAirBuilt'
      BY <1>1, <2>1, OnAirStable
    <2>3. BuildAsMapped'
      BY <2>1 DEF BuildAsMapped
    <2>4. ReadyAsMapped'
      <3> SUFFICES ASSUME Calm, NEW i \in DOMAIN ready' \ strays, i > index
                   PROVE  ready'[i].entry = EntryAt(i)
        BY <1>1, <1>2 DEF ReadyAsMapped, Calm
      <3>1. CASE ready' = ready
        BY <3>1 DEF IInv, ReadyAsMapped, Calm
      <3>2. CASE current /\ ready' = [k \in DOMAIN ready \union {bIndex} |->
                     IF k = bIndex THEN [entry |-> bEntry, options |-> bOptions] ELSE ready[k]]
        <4>1. bEntry = EntryAt(bIndex)
          BY <2>1, <3>2 DEF IInv, BuildAsMapped
        <4>2. CASE i = bIndex
          BY <3>2, <4>1, <4>2
        <4>3. CASE i # bIndex
          BY <3>2, <4>3 DEF IInv, ReadyAsMapped, Calm
        <4> QED
          BY <4>2, <4>3
      <3> QED
        BY <2>1, <3>1, <3>2
    <2>5. Ahead'
      <3>1. index \in Nat /\ Lead \in Nat /\ bIndex \in index .. index + Lead
            /\ DOMAIN ready \subseteq index .. index + Lead
        BY <2>1, SchedulerAssumption DEF IInv, Ahead
      <3>2. DOMAIN ready' \subseteq DOMAIN ready \union {bIndex}
        BY <2>1
      <3> QED
        BY <1>1, <2>1, <3>1, <3>2 DEF Ahead
    <2> QED
      BY <1>3, <2>2, <2>3, <2>4, <2>5 DEF IInv
  <1>5. CASE ~File
    <2>1. ready' = ready
      BY <1>5 DEF BuilderWorks, Pick, Ask, ReadOptions, CacheSegment
    <2>2. index' \in Nat /\ OnAirBuilt'
      BY <1>1, <2>1, OnAirStable
    <2>3. ReadyAsMapped'
      BY <1>1, <1>2, <2>1 DEF IInv, ReadyAsMapped
    <2>4. BuildAsMapped'
      <3>1. CASE Pick
        BY <3>1 DEF Pick, BuildAsMapped
      <3>2. CASE Ask
        BY <1>2, <3>2 DEF Ask, TurnOver, BuildAsMapped
      <3>3. CASE ReadOptions
        BY <1>2, <3>3 DEF ReadOptions, IInv, BuildAsMapped
      <3>4. CASE CacheSegment
        BY <1>2, <3>4 DEF CacheSegment, IInv, BuildAsMapped
      <3> QED
        BY <1>5, <3>1, <3>2, <3>3, <3>4 DEF BuilderWorks
    <2>5. Ahead'
      <3>1. CASE Pick
        BY <1>1, <2>1, <3>1, PickAhead DEF IInv, Ahead
      <3>2. CASE ~Pick
        <4>1. bpc' = "pick" \/ (bpc # "pick" /\ bIndex' = bIndex)
          BY <1>5, <3>2 DEF BuilderWorks, Ask, ReadOptions, CacheSegment, TurnOver
        <4> QED
          BY <1>1, <2>1, <4>1 DEF IInv, Ahead
      <3> QED
        BY <3>1, <3>2
    <2> QED
      BY <1>3, <2>2, <2>3, <2>4, <2>5 DEF IInv
  <1> QED
    BY <1>4, <1>5

LEMMA BuildFailsInv == IInv /\ BuildFails => IInv'
  <1> SUFFICES ASSUME IInv, BuildFails PROVE IInv'
    OBVIOUS
  <1>1. /\ ready' = ready /\ show' = show /\ exec' = exec /\ rpc' = rpc
        /\ strays' = DOMAIN ready /\ current' = FALSE
    BY DEF BuildFails, TurnOver, BuilderUnchanged
  <1>2. index' \in Nat /\ OnAirBuilt' /\ OneDrawer' /\ OverlayOfChild' /\ CleanExit'
    BY <1>1, OnAirStable, ShowStable
  <1>3. BuildAsMapped' /\ ReadyAsMapped'
    BY <1>1 DEF BuildAsMapped, ReadyAsMapped
  <1>4. Ahead'
    BY <1>1 DEF IInv, Ahead, BuildFails, TurnOver, show
  <1> QED
    BY <1>2, <1>3, <1>4 DEF IInv

-----------------------------------------------------------------------------
(* Commands.                                                               *)

\* One that moves the mapping goes on to invalidate what is built.
LEMMA CommandInv == IInv /\ Commands => IInv'
  <1> SUFFICES ASSUME IInv, Commands PROVE IInv'
    OBVIOUS
  <1>1. /\ rpc = "top" /\ bpc' = bpc /\ bEntry' = bEntry /\ bIndex' = bIndex
        /\ ready' = ready /\ current' = current /\ index' = index /\ clocked' = clocked
        /\ exec' = exec /\ strays' = strays
    BY DEF Commands, PauseOrResume, All, Jump, NextSegment, Restart, Toggle, Configure, Command,
           builder
  <1>2. index' \in Nat /\ OnAirBuilt'
    BY <1>1 DEF IInv, OnAirBuilt
  <1>3. OneDrawer' /\ OverlayOfChild' /\ Ahead'
    BY <1>1 DEF IInv, OneDrawer, OverlayOfChild, Ahead, exec
  <1>4. CASE rpc' = rpc /\ enabled' = enabled /\ offset' = offset
    <2>1. \A i : EntryAt(i)' = EntryAt(i)
      BY <1>4, EntryAtStable
    <2>2. BuildAsMapped' /\ ReadyAsMapped'
      BY <1>1, <1>4, <2>1 DEF IInv, BuildAsMapped, ReadyAsMapped, Calm
    <2>3. CleanExit'
      BY <1>1, <1>4 DEF CleanExit
    <2> QED
      BY <1>2, <1>3, <2>2, <2>3 DEF IInv
  <1>5. CASE rpc' \in {"invalidate", "forget"}
    BY <1>2, <1>3, <1>5 DEF IInv, BuildAsMapped, ReadyAsMapped, Calm, CleanExit
  <1>6. rpc' \in {"invalidate", "forget"} \/ (rpc' = rpc /\ enabled' = enabled /\ offset' = offset)
    BY DEF Commands, PauseOrResume, All, Jump, NextSegment, Restart, Toggle, Configure, rotation
  <1> QED
    BY <1>4, <1>5, <1>6

LEMMA ForgetInv == IInv /\ Forget => IInv'
  <1> SUFFICES ASSUME IInv, Forget PROVE IInv'
    OBVIOUS
  <1>1. rpc' = "invalidate" /\ ready' = ready /\ show' = show /\ exec' = exec
    BY DEF Forget
  <1>2. index' \in Nat /\ OnAirBuilt'
    BY <1>1, OnAirStable
  <1>3. Ahead'
    BY <1>1 DEF IInv, Ahead, Forget, show, RenderUnchanged
  <1>4. OneDrawer' /\ OverlayOfChild' /\ CleanExit' /\ BuildAsMapped' /\ ReadyAsMapped'
    BY <1>1 DEF IInv, OneDrawer, OverlayOfChild, CleanExit, BuildAsMapped, ReadyAsMapped, Calm, exec
  <1> QED
    BY <1>2, <1>3, <1>4 DEF IInv

LEMMA InvalidateInv == IInv /\ Invalidate => IInv'
  <1> SUFFICES ASSUME IInv, Invalidate PROVE IInv'
    OBVIOUS
  <1>1. /\ rpc = "invalidate" /\ rpc' \in {"invalidate", "top"}
        /\ ready' = Without(ready, {k \in DOMAIN ready : k >= index + 1})
        /\ current' = FALSE /\ index' = index /\ clocked' = clocked /\ exec' = exec
    BY DEF Invalidate, InvalidateFrom
  <1>2. index \in Nat /\ index \in DOMAIN ready /\ index \in clocked
    BY DEF IInv, OnAirBuilt
  <1>3. DOMAIN ready' = DOMAIN ready \ {k \in DOMAIN ready : k >= index + 1}
    BY <1>1 DEF Without
  <1>4. index' \in Nat /\ OnAirBuilt'
    BY <1>1, <1>2, <1>3 DEF OnAirBuilt
  <1>5. OneDrawer' /\ OverlayOfChild' /\ CleanExit'
    BY <1>1 DEF IInv, OneDrawer, OverlayOfChild, CleanExit, exec
  <1>6. BuildAsMapped'
    BY <1>1 DEF BuildAsMapped
  <1>7. ReadyAsMapped'
    <2> SUFFICES ASSUME NEW i \in DOMAIN ready', i > index PROVE FALSE
      BY <1>1 DEF ReadyAsMapped
    <2>1. i \in DOMAIN ready /\ i \in Int /\ ~(i >= index + 1)
      BY <1>2, <1>3, SchedulerAssumption DEF IInv, Ahead
    <2> QED
      BY <1>2, <2>1
  <1>8. Ahead'
    BY <1>1, <1>3 DEF IInv, Ahead, Invalidate, RenderUnchanged
  <1> QED
    BY <1>4, <1>5, <1>6, <1>7, <1>8 DEF IInv

-----------------------------------------------------------------------------
(* A frame.                                                                *)

\* What a frame leaves alone of the running order and the Builder.
FrameStill ==
  /\ enabled' = enabled /\ offset' = offset
  /\ bpc' = bpc /\ bIndex' = bIndex /\ bEntry' = bEntry /\ current' = current

LEMMA FrameKeeps == FrameUnchanged => FrameStill
  BY DEF FrameUnchanged, FrameStill, rotation, builder

\* Of a frame in which the playhead stays where it is.
LEMMA HeldInv ==
  ASSUME IInv, FrameStill, index' = index, ready' = ready, clocked \subseteq clocked',
         strays' = strays,
         rpc \in {"top", "compose"}, rpc' \in {"top", "compose", "down"},
         OneDrawer', OverlayOfChild', CleanExit'
  PROVE  IInv'
  <1>1. \A i : EntryAt(i)' = EntryAt(i)
    BY EntryAtStable DEF FrameStill
  <1>2. BuildAsMapped' /\ ReadyAsMapped'
    BY <1>1 DEF IInv, BuildAsMapped, ReadyAsMapped, Calm, FrameStill
  <1>3. index' \in Nat /\ OnAirBuilt' /\ Ahead'
    BY DEF IInv, OnAirBuilt, Ahead, FrameStill
  <1> QED
    BY <1>2, <1>3 DEF IInv

LEMMA AdvanceInv == IInv /\ Advance => IInv'
  <1> SUFFICES ASSUME IInv, Advance PROVE IInv'
    OBVIOUS
  <1>1. /\ index' = index + 1 /\ index + 1 \in DOMAIN ready
        /\ ready' = Without(ready, 0 .. index) /\ strays' = strays \ (0 .. index)
        /\ clocked' = (clocked \ (0 .. index)) \union {index + 1}
        /\ rpc = "compose" /\ rpc' = rpc /\ exec' = exec /\ FrameStill
    BY FrameKeeps DEF Advance, Ended
  <1>2. index \in Nat /\ Lead \in Nat \ {0} /\ DOMAIN ready \subseteq index .. index + Lead
    BY SchedulerAssumption DEF IInv, Ahead
  <1>3. /\ DOMAIN ready' = DOMAIN ready \ (0 .. index)
        /\ \A i \in DOMAIN ready' : ready'[i] = ready[i]
    BY <1>1 DEF Without
  <1>4. \A i : EntryAt(i)' = EntryAt(i)
    BY <1>1, EntryAtStable DEF FrameStill
  <1>5. index' \in Nat /\ OnAirBuilt'
    BY <1>1, <1>2, <1>3 DEF OnAirBuilt
  <1>6. Ahead'
    <2>1. DOMAIN ready' \subseteq index' .. index' + Lead
      BY <1>1, <1>2, <1>3
    <2>2. ASSUME bpc # "pick"
          PROVE  bIndex \in index' + 1 .. index' + Lead /\ bIndex \notin DOMAIN ready'
      <3>1. bIndex \in index + 1 .. index + Lead /\ bIndex # index + 1 /\ bIndex \notin DOMAIN ready
        BY <1>1, <2>2 DEF IInv, Ahead
      <3> QED
        BY <1>1, <1>2, <1>3, <3>1
    <2> QED
      BY <1>1, <2>1, <2>2 DEF Ahead, FrameStill
  <1>7. BuildAsMapped'
    BY <1>1, <1>4 DEF IInv, BuildAsMapped, Calm, FrameStill
  <1>8. ReadyAsMapped'
    <2> SUFFICES ASSUME NEW i \in DOMAIN ready' \ strays', i > index'
                 PROVE  ready'[i].entry = EntryAt(i)
      BY <1>4 DEF ReadyAsMapped
    <2>1. i \in DOMAIN ready \ strays /\ i > index
      BY <1>1, <1>2, <1>3
    <2> QED
      BY <1>1, <1>3, <2>1 DEF IInv, ReadyAsMapped
  <1>9. OneDrawer' /\ OverlayOfChild' /\ CleanExit'
    BY <1>1 DEF IInv, OneDrawer, OverlayOfChild, CleanExit, exec
  <1> QED
    BY <1>5, <1>6, <1>7, <1>8, <1>9 DEF IInv

LEMMA FrameInv ==
  ASSUME IInv, Tick \/ DrawOurs \/ StartChild \/ WatchChild \/ RenderRaises
  PROVE  IInv'
  <1>1. /\ FrameStill /\ index' = index /\ ready' = ready /\ clocked \subseteq clocked'
        /\ strays' = strays /\ rpc \in {"top", "compose"} /\ rpc' \in {"top", "compose"}
    <2>1. CASE Tick
      BY <2>1, FrameKeeps DEF Tick, history
    <2>2. CASE DrawOurs \/ StartChild \/ WatchChild \/ RenderRaises
      <3>1. Compose
        BY <2>2 DEF DrawOurs, StartChild, WatchChild, RenderRaises
      <3> QED
        BY <3>1, FrameKeeps DEF Compose, history
    <2> QED
      BY <2>1, <2>2
  <1>2. CleanExit'
    BY <1>1 DEF CleanExit
  <1>3. OneDrawer' /\ OverlayOfChild'
    <2>1. CASE Tick \/ RenderRaises
      BY <2>1 DEF Tick, RenderRaises, IInv, OneDrawer, OverlayOfChild, exec
    <2>2. CASE DrawOurs
      BY <2>2 DEF DrawOurs, Reap, IInv, OneDrawer, OverlayOfChild
    <2>3. CASE StartChild
      BY <2>3 DEF StartChild, IInv, OneDrawer, OverlayOfChild
    <2>4. CASE WatchChild
      BY <2>4 DEF WatchChild, IInv, OneDrawer, OverlayOfChild
    <2> QED
      BY <2>1, <2>2, <2>3, <2>4
  <1> QED
    BY <1>1, <1>2, <1>3, HeldInv

LEMMA ShutdownInv == IInv /\ Shutdown => IInv'
  <1> SUFFICES ASSUME IInv, Shutdown PROVE IInv'
    OBVIOUS
  <1>1. /\ rpc = "top" /\ rpc' = "down" /\ Reap(childEntry) /\ shows' = shows
        /\ FrameStill /\ index' = index /\ ready' = ready /\ clocked' = clocked
        /\ strays' = strays
    BY DEF Shutdown, rotation, builder, show, history, FrameStill
  <1>2. OneDrawer' /\ OverlayOfChild' /\ CleanExit'
    BY <1>1 DEF Reap, IInv, OneDrawer, OverlayOfChild, CleanExit
  <1> QED
    BY <1>1, <1>2, HeldInv

\* A child exits, a signal comes, or nothing happens.
LEMMA OutsideInv ==
  ASSUME IInv, ChildExits \/ Signal \/ UNCHANGED vars
  PROVE  IInv'
  <1>1. /\ enabled' = enabled /\ offset' = offset
        /\ bpc' = bpc /\ bIndex' = bIndex /\ bEntry' = bEntry /\ current' = current
        /\ ready' = ready /\ index' = index /\ clocked' = clocked /\ strays' = strays
        /\ rpc' = rpc /\ childEntry' = childEntry /\ overlay' = overlay /\ shows' = shows
        /\ child' = child \/ (child = "running" /\ child' = "exited")
    BY DEF ChildExits, Signal, vars, rotation, builder, show, exec, history
  <1>2. \A i : EntryAt(i)' = EntryAt(i)
    BY <1>1, EntryAtStable
  <1>3. BuildAsMapped' /\ ReadyAsMapped' /\ Ahead' /\ OnAirBuilt' /\ index' \in Nat
    BY <1>1, <1>2 DEF IInv, BuildAsMapped, ReadyAsMapped, Ahead, OnAirBuilt, Calm
  <1>4. OneDrawer' /\ OverlayOfChild' /\ CleanExit'
    BY <1>1 DEF IInv, OneDrawer, OverlayOfChild, CleanExit
  <1> QED
    BY <1>3, <1>4 DEF IInv

-----------------------------------------------------------------------------

LEMMA InitInv == Init => IInv
  <1> SUFFICES ASSUME Init PROVE IInv
    OBVIOUS
  <1>1. /\ DOMAIN ready = {0} /\ index = 0 /\ clocked = {0} /\ bpc = "pick"
        /\ child = "none" /\ overlay = {} /\ Lead \in Nat
    BY SchedulerAssumption DEF Init
  <1>2. index \in Nat /\ OnAirBuilt /\ Ahead
    BY <1>1 DEF OnAirBuilt, Ahead
  <1>3. BuildAsMapped /\ ReadyAsMapped
    BY <1>1 DEF BuildAsMapped, ReadyAsMapped
  <1>4. OneDrawer /\ OverlayOfChild /\ CleanExit
    BY <1>1 DEF OneDrawer, OverlayOfChild, CleanExit
  <1> QED
    BY <1>2, <1>3, <1>4 DEF IInv

LEMMA Inductive == IInv /\ [Next]_vars => IInv'
  BY BuilderInv, BuildFailsInv, CommandInv, ForgetInv, InvalidateInv, AdvanceInv, FrameInv,
     ShutdownInv, OutsideInv
     DEF Next, RenderWorks

THEOREM Invariance == Spec => []IInv
  BY InitInv, Inductive, PTL DEF Spec

\* The frame loop never asks for what is not built or has no clock, whatever
\* commands came, in any rotation and with any lead.
THEOREM SegmentOnAirIsBuilt == Spec => []OnAirBuilt
  <1>1. IInv => OnAirBuilt
    BY DEF IInv
  <1> QED
    BY <1>1, Invariance, PTL

\* Between commands, what is built ahead is what the running order says.
THEOREM WhatIsBuiltIsMapped == Spec => []ReadyAsMapped
  <1>1. IInv => ReadyAsMapped
    BY DEF IInv
  <1> QED
    BY <1>1, Invariance, PTL

\* An external program and the daemon never draw at the same time.
THEOREM OneDraws == Spec => []OneDrawer
  <1>1. IInv => OneDrawer
    BY DEF IInv
  <1> QED
    BY <1>1, Invariance, PTL

\* A daemon that has ended leaves neither a child nor what one drew.
THEOREM ExitIsClean == Spec => []CleanExit
  <1>1. IInv => CleanExit
    BY DEF IInv
  <1> QED
    BY <1>1, Invariance, PTL

\* The Builder never builds again what is built, and never further ahead than
\* it may.
THEOREM BuildsAhead == Spec => []Ahead
  <1>1. IInv => Ahead
    BY DEF IInv
  <1> QED
    BY <1>1, Invariance, PTL

-----------------------------------------------------------------------------
(* The running order and positions in it.                                  *)

\* The recursion in InOrder is one: there is a function as it asks for.
LEMMA UptoRight ==
  ASSUME NEW S
  PROVE  \E U : /\ InOrder(S) = U[Len(Order)]
                /\ U[0] = <<>>
                /\ \A k \in 0 .. Len(Order) - 1 :
                     U[k + 1] = IF Order[k + 1] \in S THEN Append(U[k], Order[k + 1]) ELSE U[k]
  <1> DEFINE N == Len(Order)
             Body(G) == [k \in 0 .. N |->
                          IF k = 0 THEN <<>>
                          ELSE IF Order[k] \in S THEN Append(G[k - 1], Order[k]) ELSE G[k - 1]]
             U == CHOOSE G : G = Body(G)
             Grows(G, k) == G[k + 1] = IF Order[k + 1] \in S THEN Append(G[k], Order[k + 1]) ELSE G[k]
             Part(G, n) == G[0] = <<>> /\ \A k \in 0 .. n - 1 : Grows(G, k)
             P == {n \in 0 .. N : \E G : Part(G, n)}
  <1>1. InOrder(S) = U[N]
    BY DEF InOrder
  <1>2. N \in Nat
    BY SchedulerAssumption
  <1>3. 0 \in P
    <2> DEFINE G == [k \in {0} |-> <<>>]
    <2>1. Part(G, 0)
      OBVIOUS
    <2> HIDE DEF G, Part
    <2> QED
      BY <1>2, <2>1
  <1>4. ASSUME NEW n \in 0 .. N - 1, n \in P
        PROVE  n + 1 \in P
    <2>1. PICK G : Part(G, n)
      BY <1>4
    <2> DEFINE last == IF Order[n + 1] \in S THEN Append(G[n], Order[n + 1]) ELSE G[n]
               H == [k \in 0 .. n + 1 |-> IF k = n + 1 THEN last ELSE G[k]]
    <2>2. \A k \in 0 .. n : H[k] = G[k]
      BY <1>2
    <2>3. H[n + 1] = last
      BY <1>2
    <2> HIDE DEF H
    <2>4. ASSUME NEW k \in 0 .. n PROVE Grows(H, k)
      <3>1. CASE k = n
        BY <1>2, <2>2, <2>3, <3>1
      <3>2. CASE k # n
        <4>1. k \in 0 .. n - 1 /\ k + 1 \in 0 .. n
          BY <1>2, <3>2
        <4>2. H[k] = G[k] /\ H[k + 1] = G[k + 1] /\ Grows(G, k)
          BY <2>1, <2>2, <4>1
        <4> QED
          BY <4>2
      <3> QED
        BY <3>1, <3>2
    <2>5. H[0] = <<>>
      BY <1>2, <2>1, <2>2
    <2>6. Part(H, n + 1)
      BY <1>2, <2>4, <2>5
    <2> QED
      BY <1>2, <2>6
  <1>5. \A n \in 0 .. N : n \in P
    <2> HIDE DEF P
    <2> QED
      BY <1>2, <1>3, <1>4, UpTo
  <1>6. PICK G : Part(G, N)
    <2>1. N \in P
      <3> HIDE DEF P
      <3> QED
        BY <1>2, <1>5
    <2> HIDE DEF Part
    <2> QED
      BY <2>1
  <1>7. \A k \in 0 .. N : k # 0 => Body(G)[k] = G[k]
    <2> SUFFICES ASSUME NEW k \in 0 .. N, k # 0 PROVE Body(G)[k] = G[k]
      OBVIOUS
    <2>1. k - 1 \in 0 .. N - 1 /\ (k - 1) + 1 = k
      BY <1>2
    <2>2. Grows(G, k - 1)
      BY <1>6, <2>1
    <2> QED
      BY <2>1, <2>2
  <1>8. \A k \in 0 .. N : Body(G)[k] = G[k]
    BY <1>2, <1>6, <1>7
  <1>9. Body(G) = Body(Body(G))
    <2>1. \A k \in 0 .. N : k # 0 => Body(G)[k - 1] = G[k - 1]
      BY <1>2, <1>8
    <2> QED
      BY <2>1
  <1>10. U = Body(U)
    BY <1>9
  <1> HIDE DEF U
  <1>11. U[0] = <<>>
    BY <1>2, <1>10
  <1>12. ASSUME NEW k \in 0 .. N - 1 PROVE Grows(U, k)
    <2>1. k + 1 \in 0 .. N /\ k + 1 # 0 /\ (k + 1) - 1 = k
      BY <1>2
    <2>2. U[k + 1] = Body(U)[k + 1]
      BY <1>10
    <2> QED
      BY <2>1, <2>2
  <1> QED
    BY <1>1, <1>11, <1>12

\* The entries of S in running order: no more than there are, and none only if
\* S has none of them.
LEMMA InOrderRight ==
  ASSUME NEW S
  PROVE  /\ InOrder(S) \in Seq(Entries)
         /\ Len(InOrder(S)) <= Len(Order)
         /\ (\E k \in 1 .. Len(Order) : Order[k] \in S) => InOrder(S) # <<>>
  <1> DEFINE N == Len(Order)
  <1>1. PICK U : /\ InOrder(S) = U[N]
                 /\ U[0] = <<>>
                 /\ \A k \in 0 .. N - 1 :
                      U[k + 1] = IF Order[k + 1] \in S THEN Append(U[k], Order[k + 1]) ELSE U[k]
    BY UptoRight
  <1> DEFINE Good(n) == /\ U[n] \in Seq(Entries)
                        /\ Len(U[n]) <= n
                        /\ \A k \in 1 .. n : Order[k] \in S => Len(U[n]) > 0
             P == {n \in 0 .. N : Good(n)}
  <1>2. N \in Nat /\ \A k \in 1 .. N : Order[k] \in Entries
    BY SchedulerAssumption
  <1>3. 0 \in P
    <2>1. Good(0)
      BY <1>1
    <2> HIDE DEF Good
    <2> QED
      BY <1>2, <2>1
  <1>4. ASSUME NEW n \in 0 .. N - 1, n \in P
        PROVE  n + 1 \in P
    <2>1. Good(n) /\ n + 1 \in 1 .. N
      BY <1>2, <1>4
    <2>2. CASE Order[n + 1] \in S
      <3>1. U[n + 1] = Append(U[n], Order[n + 1]) /\ Order[n + 1] \in Entries
        BY <1>1, <1>2, <2>1, <2>2
      <3>2. /\ U[n + 1] \in Seq(Entries) /\ Len(U[n + 1]) = Len(U[n]) + 1
            /\ Len(U[n]) \in Nat /\ Len(U[n]) <= n
        BY <2>1, <3>1
      <3>3. Good(n + 1)
        BY <1>2, <3>2
      <3> QED
        BY <2>1, <3>3
    <2>3. CASE Order[n + 1] \notin S
      <3>1. U[n + 1] = U[n]
        BY <1>1, <2>3
      <3>2. \A k \in 1 .. n + 1 : Order[k] \in S => k \in 1 .. n
        BY <1>2, <2>3
      <3>3. Good(n + 1)
        <4>1. Len(U[n]) \in Nat /\ Len(U[n]) <= n + 1
          BY <2>1
        <4> QED
          BY <2>1, <3>1, <3>2, <4>1
      <3> QED
        BY <2>1, <3>3
    <2> QED
      BY <2>2, <2>3
  <1>5. \A n \in 0 .. N : n \in P
    <2> HIDE DEF P
    <2> QED
      BY <1>2, <1>3, <1>4, UpTo
  <1>6. Good(N)
    BY <1>2, <1>5
  <1> QED
    BY <1>1, <1>6

LEMMA Remainder ==
  ASSUME NEW n \in Nat \ {0}, NEW k \in Int, NEW r \in 0 .. n - 1
  PROVE  (n * k + r) % n = r
  OBVIOUS

LEMMA Around ==
  ASSUME NEW n \in Nat \ {0}, NEW i \in Int, NEW p \in 0 .. n - 1
  PROVE  (p - i) % n \in 0 .. n - 1 /\ (i + ((p - i) % n)) % n = p
  <1> DEFINE q == (p - i) \div n
             m == (p - i) % n
             k == -q
  <1>1. q \in Int /\ m \in 0 .. n - 1 /\ p - i = n * q + m
    OBVIOUS
  <1>2. k \in Int /\ n * k = -(n * q)
    BY <1>1
  <1> HIDE DEF q, m, k
  <1>3. i + m = n * k + p
    BY <1>1, <1>2
  <1>4. (n * k + p) % n = p
    BY <1>2, Remainder
  <1> QED
    BY <1>1, <1>3, <1>4 DEF m

\* The running order is made of entries, and is no longer than the rotation.
LEMMA LiveRight ==
  /\ Live \in Seq(Entries) /\ Len(Live) \in 0 .. Len(Order) /\ Len(Order) \in Nat
  /\ Live # <<>> <=> Len(Live) \in Nat \ {0}
  <1>1. Live \in Seq(Entries) /\ Len(Live) <= Len(Order) /\ Len(Order) \in Nat
    BY InOrderRight, SchedulerAssumption DEF Live
  <1> QED
    BY <1>1

\* What every index means is an entry, as long as any is switched on.
LEMMA EntryAtRight ==
  ASSUME NEW i \in Int, offset \in Int
  PROVE  /\ EntryAt(i) = IF Live = <<>> THEN NULL ELSE Live[((i + offset) % Len(Live)) + 1]
         /\ Live # <<>> => /\ EntryAt(i) \in Entries
                           /\ \E k \in 1 .. Len(Live) : Live[k] = EntryAt(i)
  <1>2. EntryAt(i) = IF Live = <<>> THEN NULL ELSE Live[((i + offset) % Len(Live)) + 1]
    BY DEF EntryAt
  <1>3. ASSUME Live # <<>>
        PROVE  ((i + offset) % Len(Live)) + 1 \in 1 .. Len(Live)
    BY <1>3, LiveRight
  <1> QED
    BY <1>2, <1>3, LiveRight

LEMMA DurRight ==
  ASSUME NEW i \in Int, offset \in Int
  PROVE  Dur(i) \in Nat \ {0} /\ Dur(i) <= MaxAge
  BY EntryAtRight, SchedulerAssumption DEF Dur

-----------------------------------------------------------------------------
(* Types.                                                                  *)

RotationTypes ==
  /\ enabled \in SUBSET Entries
  /\ offset \in 0 .. Len(Order) - 1
  /\ options \in [Entries -> Versions]

BuilderTypes ==
  /\ segcache \in [Entries -> Versions \union {NULL}]
  /\ bpc \in {"pick", "ask", "segment", "cache", "build"}
  /\ bIndex \in Nat
  /\ bEntry \in Entries \union {NULL}
  /\ bOptions \in Versions \union {NULL}
  /\ bpc \in {"segment", "cache", "build"} => bEntry \in Entries
  /\ bpc \in {"cache", "build"} => bOptions \in Versions

ReadyTypes ==
  /\ \A i \in DOMAIN ready : ready[i] \in Render
  /\ strays \subseteq DOMAIN ready

\* What is replayed after an invalidation is an entry.
CommandTypes ==
  /\ rpc \in {"top", "forget", "invalidate", "compose", "down"}
  /\ after \in {"none", "skip", "replay"}
  /\ target \in Entries \union {NULL}
  /\ after = "replay" => target \in Entries
  /\ commands \in 0 .. MaxCommands
  /\ asked \in Entries \union {NULL}

PlayTypes ==
  /\ index \in 0 .. MaxIndex
  /\ age \in 0 .. MaxAge
  /\ clocked \subseteq index .. index + 1

ExecTypes ==
  /\ child \in {"none", "running", "exited"}
  /\ childEntry \in Exec \union {NULL}
  /\ overlay \subseteq Exec
  /\ shows \in {"ours", "child"}

Flags == current \in BOOLEAN /\ paused \in BOOLEAN /\ stop \in BOOLEAN

Typed ==
  /\ RotationTypes /\ BuilderTypes /\ ReadyTypes /\ CommandTypes /\ PlayTypes
  /\ ExecTypes /\ Flags

LEMMA OffsetInt == RotationTypes => offset \in Int
  BY SchedulerAssumption DEF RotationTypes

LEMMA InitTyped == Init => Typed
  <1> SUFFICES ASSUME Init PROVE Typed
    OBVIOUS
  <1>1. RotationTypes
    BY SchedulerAssumption DEF Init, RotationTypes
  <1>2. EntryAt(0) \in Entries
    <2>1. PICK e \in Entries : e \in enabled
      <3>1. enabled \in SUBSET Entries /\ enabled # {}
        BY SchedulerAssumption DEF Init
      <3> QED
        BY <3>1
    <2>2. PICK k \in 1 .. Len(Order) : Order[k] = e
      BY SchedulerAssumption
    <2>3. Live # <<>>
      BY <2>1, <2>2, InOrderRight DEF Live
    <2> QED
      BY <1>1, <2>3, OffsetInt, EntryAtRight
  <1>3. BuilderTypes
    BY <1>2, SchedulerAssumption DEF Init, BuilderTypes
  <1>4. ReadyTypes
    BY <1>1, <1>2 DEF Init, ReadyTypes, RotationTypes, Render
  <1>5. CommandTypes /\ PlayTypes
    BY SchedulerAssumption DEF Init, CommandTypes, PlayTypes
  <1>6. ExecTypes /\ Flags
    BY DEF Init, ExecTypes, Flags
  <1> QED
    BY <1>1, <1>3, <1>4, <1>5, <1>6 DEF Typed

\* Positions a jump can name.
LEMMA JumpOffsetRight ==
  ASSUME RotationTypes, index \in Nat, Live # <<>>, NEW position \in 0 .. Len(Live) - 1
  PROVE  /\ JumpOffset(position) \in 0 .. Len(Order) - 1
         /\ (index + 1 + JumpOffset(position)) % Len(Live) = position
         /\ Live[position + 1] \in Entries
  <1>1. Len(Live) \in Nat \ {0} /\ index + 1 \in Int
    BY LiveRight
  <1>2. /\ (position - (index + 1)) % Len(Live) \in 0 .. Len(Live) - 1
        /\ (index + 1 + ((position - (index + 1)) % Len(Live))) % Len(Live) = position
    BY <1>1, Around
  <1> QED
    BY <1>1, <1>2, LiveRight DEF JumpOffset

LEMMA ReplayRight ==
  ASSUME RotationTypes, index \in Nat, target \in Entries, EntryAt(index) = target
  PROVE  /\ Live # <<>>
         /\ PositionOf(target) \in 0 .. Len(Live) - 1
         /\ Live[PositionOf(target) + 1] = target
  <1>1. Live # <<>>
    <2>1. EntryAt(index) # NULL
      BY SchedulerAssumption
    <2> QED
      BY <2>1, OffsetInt, EntryAtRight
  <1>2. PICK k \in 1 .. Len(Live) : Live[k] = target
    <2>1. index \in Int
      OBVIOUS
    <2> QED
      BY <1>1, <2>1, OffsetInt, EntryAtRight
  <1>3. Len(Live) \in Nat
    BY LiveRight
  <1>4. k - 1 \in 0 .. Len(Live) - 1 /\ Live[(k - 1) + 1] = target
    BY <1>2, <1>3
  <1> QED
    BY <1>1, <1>4 DEF PositionOf

LEMMA RotationTyped == IInv /\ Typed /\ [Next]_vars => RotationTypes'
  <1> SUFFICES ASSUME IInv, Typed, [Next]_vars PROVE RotationTypes'
    OBVIOUS
  <1>1. RotationTypes /\ index \in Nat
    BY DEF IInv, Typed
  <1>2. ASSUME rotation' = rotation PROVE RotationTypes'
    BY <1>1, <1>2 DEF rotation, RotationTypes
  <1>3. CASE BuilderWorks
    <2>1. rotation' = rotation
      BY <1>3 DEF BuilderWorks, Pick, Ask, ReadOptions, CacheSegment, File, BuilderUnchanged,
         rotation
    <2> QED
      BY <1>2, <2>1
  <1>4. CASE BuildFails
    BY <1>1, <1>4 DEF BuildFails, BuilderUnchanged, RotationTypes
  <1>5. CASE Commands
    <2>1. CASE PauseOrResume \/ NextSegment \/ Restart
      BY <1>2, <2>1 DEF PauseOrResume, NextSegment, Restart
    <2>2. ASSUME NEW e \in Entries, Toggle(e) PROVE RotationTypes'
      BY <1>1, <2>2 DEF Toggle, RotationTypes
    <2>3. CASE All
      <3>1. EntryAt(index) # NULL => EntryAt(index) \in Entries
        BY <1>1, OffsetInt, EntryAtRight
      <3>2. Order[1] \in Entries
        BY SchedulerAssumption
      <3> QED
        BY <1>1, <2>3, <3>1, <3>2 DEF All, RotationTypes
    <2>4. CASE Jump
      <3>1. PICK position \in 0 .. Len(Live) - 1 : offset' = JumpOffset(position)
        BY <2>4 DEF Jump
      <3>2. Live # <<>>
        <4>1. Len(Live) \in Nat /\ Len(Live) # 0
          BY <3>1, LiveRight
        <4> QED
          BY <4>1
      <3>3. offset' \in 0 .. Len(Order) - 1
        BY <1>1, <3>1, <3>2, JumpOffsetRight
      <3> QED
        BY <1>1, <2>4, <3>3 DEF Jump, RotationTypes
    <2>5. ASSUME NEW e \in Entries, Configure(e) PROVE RotationTypes'
      <3>1. PICK v \in Versions : options' = [options EXCEPT ![e] = v]
        BY <2>5 DEF Configure
      <3> QED
        BY <1>1, <2>5, <3>1 DEF Configure, RotationTypes
    <2> QED
      BY <1>5, <2>1, <2>2, <2>3, <2>4, <2>5 DEF Commands
  <1>6. CASE Invalidate
    <2>1. enabled' = enabled /\ options' = options
      BY <1>6 DEF Invalidate, RenderUnchanged
    <2>2. CASE offset' = offset
      BY <1>1, <2>1, <2>2 DEF RotationTypes
    <2>3. CASE after = "replay" /\ EntryAt(index) = target
               /\ offset' = JumpOffset(PositionOf(target))
      <3>1. target \in Entries
        BY <2>3 DEF Typed, CommandTypes
      <3>2. offset' \in 0 .. Len(Order) - 1
        BY <1>1, <2>3, <3>1, ReplayRight, JumpOffsetRight
      <3> QED
        BY <1>1, <2>1, <3>2 DEF RotationTypes
    <2> QED
      BY <1>6, <2>2, <2>3 DEF Invalidate
  <1>7. CASE Forget
    BY <1>2, <1>7 DEF Forget, RenderUnchanged, rotation
  <1>8. CASE Tick \/ Advance \/ DrawOurs \/ StartChild \/ WatchChild \/ RenderRaises
    <2>1. rotation' = rotation
      BY <1>8 DEF Tick, Advance, DrawOurs, StartChild, WatchChild, RenderRaises, Compose,
         FrameUnchanged
    <2> QED
      BY <1>2, <2>1
  <1>9. CASE Shutdown \/ ChildExits \/ Signal \/ UNCHANGED vars
    BY <1>2, <1>9 DEF Shutdown, ChildExits, Signal, vars
  <1> QED
    BY <1>3, <1>4, <1>5, <1>6, <1>7, <1>8, <1>9 DEF Next, RenderWorks

LEMMA BuilderTyped == IInv /\ Typed /\ [Next]_vars => BuilderTypes'
  <1> SUFFICES ASSUME IInv, Typed, [Next]_vars PROVE BuilderTypes'
    OBVIOUS
  <1>1. /\ BuilderTypes /\ options \in [Entries -> Versions]
        /\ NULL \notin Entries /\ NULL \notin Versions
    BY SchedulerAssumption DEF Typed, RotationTypes
  <1>2. ASSUME builder' = builder PROVE BuilderTypes'
    BY <1>1, <1>2 DEF builder, BuilderTypes
  <1>3. CASE Pick
    <2>1. bIndex' \in Nat
      BY <1>3, PickAhead, SchedulerAssumption DEF IInv
    <2> QED
      BY <1>1, <1>3, <2>1 DEF Pick, BuilderTypes
  <1>4. CASE Ask
    <2>1. EntryAt(bIndex) # NULL => EntryAt(bIndex) \in Entries
      BY <1>1, OffsetInt, EntryAtRight DEF Typed, BuilderTypes
    <2> QED
      BY <1>1, <1>4, <2>1 DEF Ask, TurnOver, BuilderTypes
  <1>5. CASE ReadOptions
    <2>1. bEntry \in Entries
      BY <1>1, <1>5 DEF ReadOptions, BuilderTypes
    <2>2. options[bEntry] \in Versions
      BY <1>1, <2>1
    <2>3. segcache[bEntry] # NULL => segcache[bEntry] \in Versions
      BY <1>1, <2>1 DEF BuilderTypes
    <2>4. bOptions' \in Versions /\ bpc' \in {"build", "cache"}
      BY <1>5, <2>2, <2>3 DEF ReadOptions
    <2> QED
      BY <1>1, <1>5, <2>1, <2>4 DEF ReadOptions, BuilderTypes
  <1>6. CASE CacheSegment
    BY <1>1, <1>6 DEF CacheSegment, BuilderTypes
  <1>7. CASE File \/ BuildFails
    BY <1>1, <1>7 DEF File, BuildFails, TurnOver, BuilderTypes
  <1>8. CASE Commands
    BY <1>2, <1>8 DEF Commands, PauseOrResume, All, Jump, NextSegment, Restart, Toggle, Configure,
       Command
  <1>9. CASE Forget
    BY <1>1, <1>9 DEF Forget, RenderUnchanged, BuilderTypes
  <1>10. CASE Invalidate
    BY <1>2, <1>10 DEF Invalidate, RenderUnchanged, builder
  <1>11. CASE Tick \/ Advance \/ DrawOurs \/ StartChild \/ WatchChild \/ RenderRaises
    <2>1. builder' = builder
      BY <1>11 DEF Tick, Advance, DrawOurs, StartChild, WatchChild, RenderRaises, Compose,
         FrameUnchanged
    <2> QED
      BY <1>2, <2>1
  <1>12. CASE Shutdown \/ ChildExits \/ Signal \/ UNCHANGED vars
    BY <1>2, <1>12 DEF Shutdown, ChildExits, Signal, vars
  <1> QED
    BY <1>3, <1>4, <1>5, <1>6, <1>7, <1>8, <1>9, <1>10, <1>11, <1>12
       DEF Next, BuilderWorks, RenderWorks

LEMMA ReadyTyped == IInv /\ Typed /\ [Next]_vars => ReadyTypes'
  <1> SUFFICES ASSUME IInv, Typed, [Next]_vars PROVE ReadyTypes'
    OBVIOUS
  <1>1. ReadyTypes
    BY DEF Typed
  <1>2. ASSUME ready' = ready, strays' = strays PROVE ReadyTypes'
    BY <1>1, <1>2 DEF ReadyTypes
  <1>3. CASE File
    <2>1. [entry |-> bEntry, options |-> bOptions] \in Render
      BY <1>3 DEF File, Typed, BuilderTypes, Render
    <2>2. strays' = strays
      BY <1>3 DEF File, history
    <2>3. CASE ready' = ready
      BY <1>2, <2>2, <2>3
    <2>4. CASE ready' = [i \in DOMAIN ready \union {bIndex} |->
                           IF i = bIndex THEN [entry |-> bEntry, options |-> bOptions] ELSE ready[i]]
      BY <1>1, <2>1, <2>2, <2>4 DEF ReadyTypes
    <2> QED
      BY <1>3, <2>3, <2>4 DEF File
  <1>4. CASE Pick \/ Ask \/ ReadOptions \/ CacheSegment
    BY <1>2, <1>4 DEF Pick, Ask, ReadOptions, CacheSegment, history
  <1>5. CASE BuildFails
    BY <1>1, <1>5 DEF BuildFails, ReadyTypes
  <1>6. CASE Commands
    BY <1>2, <1>6 DEF Commands, PauseOrResume, All, Jump, NextSegment, Restart, Toggle, Configure,
       Command
  <1>7. CASE Invalidate
    <2> DEFINE dropped == {k \in DOMAIN ready : k >= index + 1}
    <2>1. ready' = Without(ready, dropped) /\ strays' = strays \ dropped
      BY <1>7 DEF Invalidate, InvalidateFrom
    <2> HIDE DEF dropped
    <2> QED
      BY <1>1, <2>1 DEF Without, ReadyTypes
  <1>8. CASE Advance
    BY <1>1, <1>8 DEF Advance, Without, ReadyTypes
  <1>9. CASE Forget \/ Tick \/ DrawOurs \/ StartChild \/ WatchChild \/ RenderRaises
    BY <1>2, <1>9 DEF Forget, Tick, DrawOurs, StartChild, WatchChild, RenderRaises, Compose, history
  <1>10. CASE Shutdown \/ ChildExits \/ Signal \/ UNCHANGED vars
    BY <1>2, <1>10 DEF Shutdown, ChildExits, Signal, vars, history
  <1> QED
    BY <1>3, <1>4, <1>5, <1>6, <1>7, <1>8, <1>9, <1>10 DEF Next, BuilderWorks, RenderWorks

LEMMA CommandTyped == IInv /\ Typed /\ [Next]_vars => CommandTypes'
  <1> SUFFICES ASSUME IInv, Typed, [Next]_vars PROVE CommandTypes'
    OBVIOUS
  <1>1. CommandTypes /\ RotationTypes /\ index \in Nat
    BY DEF Typed, IInv
  <1>2. ASSUME after' = after, target' = target, commands' = commands,
               rpc' \in {rpc, "top", "compose", "invalidate", "down"}, asked' \in {asked, NULL}
        PROVE  CommandTypes'
    BY <1>1, <1>2 DEF CommandTypes
  <1>3. CASE BuilderWorks
    BY <1>2, <1>3 DEF BuilderWorks, Pick, Ask, ReadOptions, CacheSegment, File, BuilderUnchanged,
       history
  <1>4. CASE BuildFails
    BY <1>2, <1>4 DEF BuildFails, BuilderUnchanged
  <1>5. CASE Commands
    <2>1. commands' \in 0 .. MaxCommands
      BY <1>1, <1>5, SchedulerAssumption
         DEF CommandTypes, Commands, PauseOrResume, All, Jump, NextSegment, Restart, Toggle,
             Configure, Command
    <2>2. CASE PauseOrResume \/ NextSegment
      BY <1>1, <2>1, <2>2 DEF PauseOrResume, NextSegment, CommandTypes
    <2>3. CASE All \/ Restart \/ \E e \in Entries : Toggle(e)
      BY <1>1, <2>1, <2>3 DEF All, Restart, Toggle, CommandTypes
    <2>4. CASE Jump
      <3>1. PICK position \in 0 .. Len(Live) - 1 : asked' = Live[position + 1]
        BY <2>4 DEF Jump
      <3>2. position + 1 \in 1 .. Len(Live)
        BY <3>1, LiveRight
      <3>3. asked' \in Entries
        BY <3>1, <3>2, LiveRight
      <3> QED
        BY <1>1, <2>1, <2>4, <3>3 DEF Jump, CommandTypes
    <2>5. ASSUME NEW e \in Entries, Configure(e) PROVE CommandTypes'
      BY <1>1, <2>1, <2>5 DEF Configure, CommandTypes
    <2> QED
      BY <1>5, <2>2, <2>3, <2>4, <2>5 DEF Commands
  <1>6. CASE Forget
    BY <1>2, <1>6 DEF Forget, RenderUnchanged, history
  <1>7. CASE Invalidate
    BY <1>1, <1>7 DEF Invalidate, RenderUnchanged, CommandTypes
  <1>8. CASE Tick \/ Advance \/ DrawOurs \/ StartChild \/ WatchChild \/ RenderRaises
    BY <1>2, <1>8 DEF Tick, Advance, DrawOurs, StartChild, WatchChild, RenderRaises, Compose,
       FrameUnchanged, history
  <1>9. CASE Shutdown \/ ChildExits \/ Signal \/ UNCHANGED vars
    BY <1>2, <1>9 DEF Shutdown, ChildExits, Signal, vars, history
  <1> QED
    BY <1>3, <1>4, <1>5, <1>6, <1>7, <1>8, <1>9 DEF Next, RenderWorks

\* The age of a segment grows to its bound only, and less than nothing is left
\* of none that has ended.
LEMMA PlayTyped == IInv /\ Typed /\ [Next]_vars => PlayTypes'
  <1> SUFFICES ASSUME IInv, Typed, [Next]_vars PROVE PlayTypes'
    OBVIOUS
  <1>1. PlayTypes /\ offset \in Int /\ index \in Nat
        /\ MaxAge \in Nat /\ MaxIndex \in Nat /\ Overlap \in Nat
    BY OffsetInt, SchedulerAssumption DEF Typed, IInv
  <1>2. Dur(index) \in Nat \ {0} /\ Dur(index) <= MaxAge
    BY <1>1, DurRight
  <1>3. ASSUME index' = index, clocked' = clocked, age' = age PROVE PlayTypes'
    BY <1>1, <1>3 DEF PlayTypes
  <1>4. \A gap \in Nat : Skip(gap) => age' \in 0 .. MaxAge
    BY <1>1, <1>2 DEF Skip, Greatest, PlayTypes
  <1>5. CASE BuilderWorks \/ BuildFails
    BY <1>3, <1>5 DEF BuilderWorks, Pick, Ask, ReadOptions, CacheSegment, File, BuildFails,
       BuilderUnchanged, show
  <1>6. CASE Commands
    <2>1. index' = index /\ clocked' = clocked /\ (age' = age \/ Skip(Overlap))
      BY <1>6 DEF Commands, PauseOrResume, All, Jump, NextSegment, Restart, Toggle, Configure,
         Command
    <2> QED
      BY <1>1, <1>4, <2>1 DEF PlayTypes
  <1>7. CASE Invalidate
    <2>1. index' = index /\ clocked' = clocked /\ (age' = age \/ Skip(Overlap))
      BY <1>7 DEF Invalidate
    <2> QED
      BY <1>1, <1>4, <2>1 DEF PlayTypes
  <1>8. CASE Tick
    BY <1>1, <1>8 DEF Tick, Least, FrameUnchanged, PlayTypes
  <1>9. CASE Advance
    <2>1. /\ index' = index + 1 /\ index < MaxIndex /\ age' = age - Dur(index)
          /\ age >= Dur(index) /\ clocked' = (clocked \ (0 .. index)) \union {index + 1}
      BY <1>9 DEF Advance, Ended
    <2>2. index' \in 0 .. MaxIndex /\ age' \in 0 .. MaxAge
      BY <1>1, <1>2, <2>1 DEF PlayTypes
    <2>3. clocked' \subseteq index' .. index' + 1
      BY <1>1, <2>1 DEF PlayTypes
    <2> QED
      BY <2>2, <2>3 DEF PlayTypes
  <1>10. CASE DrawOurs \/ StartChild \/ WatchChild \/ RenderRaises
    <2>1. Compose /\ (age' = age \/ Skip(0))
      BY <1>10 DEF DrawOurs, StartChild, WatchChild, RenderRaises
    <2>2. index' = index /\ clocked' \subseteq clocked \union {index + 1}
      BY <2>1 DEF Compose
    <2>3. age' \in 0 .. MaxAge
      BY <1>1, <1>4, <2>1 DEF PlayTypes
    <2> QED
      BY <1>1, <2>2, <2>3 DEF PlayTypes
  <1>11. CASE Forget \/ Shutdown \/ ChildExits \/ Signal \/ UNCHANGED vars
    BY <1>3, <1>11 DEF Forget, Shutdown, ChildExits, Signal, vars, show
  <1> QED
    BY <1>5, <1>6, <1>7, <1>8, <1>9, <1>10, <1>11 DEF Next, RenderWorks

LEMMA ExecTyped == IInv /\ Typed /\ [Next]_vars => ExecTypes'
  <1> SUFFICES ASSUME IInv, Typed, [Next]_vars PROVE ExecTypes'
    OBVIOUS
  <1>1. ExecTypes
    BY DEF Typed
  <1>2. ASSUME exec' = exec PROVE ExecTypes'
    BY <1>1, <1>2 DEF exec, ExecTypes
  <1>3. CASE BuilderWorks \/ BuildFails
    BY <1>2, <1>3 DEF BuilderWorks, Pick, Ask, ReadOptions, CacheSegment, File, BuildFails,
       BuilderUnchanged
  <1>4. CASE Commands
    BY <1>2, <1>4 DEF Commands, PauseOrResume, All, Jump, NextSegment, Restart, Toggle, Configure,
       Command
  <1>5. CASE Forget \/ Invalidate \/ Tick \/ Advance \/ RenderRaises
    BY <1>2, <1>5 DEF Forget, Invalidate, Tick, Advance, RenderRaises
  <1>6. CASE DrawOurs
    BY <1>1, <1>6 DEF DrawOurs, Reap, ExecTypes
  <1>7. CASE StartChild
    BY <1>1, <1>7 DEF StartChild, ExecTypes
  <1>8. CASE WatchChild
    BY <1>1, <1>8 DEF WatchChild, ExecTypes
  <1>9. CASE Shutdown
    BY <1>1, <1>9 DEF Shutdown, Reap, ExecTypes
  <1>10. CASE ChildExits
    BY <1>1, <1>10 DEF ChildExits, ExecTypes
  <1>11. CASE Signal \/ UNCHANGED vars
    BY <1>2, <1>11 DEF Signal, vars
  <1> QED
    BY <1>3, <1>4, <1>5, <1>6, <1>7, <1>8, <1>9, <1>10, <1>11 DEF Next, RenderWorks

LEMMA FlagsTyped == Typed /\ [Next]_vars => Flags'
  <1> SUFFICES ASSUME Typed, [Next]_vars PROVE Flags'
    OBVIOUS
  <1>1. Flags
    BY DEF Typed
  <1>2. /\ current' = current \/ current' = TRUE \/ current' = FALSE
        /\ paused' = paused \/ paused' = ~paused
        /\ stop' = stop \/ stop' = TRUE
    <2>1. CASE BuilderWorks \/ BuildFails
      BY <2>1 DEF BuilderWorks, Pick, Ask, ReadOptions, CacheSegment, File, BuildFails, TurnOver,
         BuilderUnchanged, show
    <2>2. CASE Commands
      BY <2>2 DEF Commands, PauseOrResume, All, Jump, NextSegment, Restart, Toggle, Configure,
         Command
    <2>3. CASE Forget \/ Invalidate
      BY <2>3 DEF Forget, Invalidate, InvalidateFrom, RenderUnchanged, show
    <2>4. CASE Tick \/ Advance \/ DrawOurs \/ StartChild \/ WatchChild \/ RenderRaises
      BY <2>4 DEF Tick, Advance, DrawOurs, StartChild, WatchChild, RenderRaises, Compose,
         FrameUnchanged
    <2>5. CASE Shutdown \/ ChildExits \/ Signal \/ UNCHANGED vars
      BY <2>5 DEF Shutdown, ChildExits, Signal, vars, show
    <2> QED
      BY <2>1, <2>2, <2>3, <2>4, <2>5 DEF Next, RenderWorks
  <1> QED
    BY <1>1, <1>2 DEF Flags

LEMMA TypedInductive == IInv /\ Typed /\ [Next]_vars => Typed'
  BY RotationTyped, BuilderTyped, ReadyTyped, CommandTyped, PlayTyped, ExecTyped, FlagsTyped
     DEF Typed

\* Everything keeps to its type: positions stay in the rotation though entries
\* come and go, and no segment is older than it may be.
THEOREM TypesHold == Spec => []TypeOK
  <1>1. IInv /\ Typed => TypeOK
    BY DEF IInv, Ahead, Typed, RotationTypes, BuilderTypes, ReadyTypes, CommandTypes, PlayTypes,
       ExecTypes, Flags, TypeOK
  <1> QED
    BY <1>1, InitTyped, TypedInductive, Invariance, PTL DEF Spec

-----------------------------------------------------------------------------
(* Jumps.                                                                  *)

\* Until it begins, the entry a jump asked for is what the next index means,
\* and once what was built is invalidated nothing else can be there.
AskedNext ==
  asked # NULL =>
    /\ rpc # "forget"
    /\ EntryAt(index + 1) = asked
    /\ Calm => index + 1 \notin strays

\* A position is asked for by way of the offset that puts it next.
LEMMA JumpAsks ==
  ASSUME RotationTypes, index \in Nat, Live # <<>>, NEW position \in 0 .. Len(Live) - 1,
         enabled' = enabled, index' = index, offset' = JumpOffset(position)
  PROVE  EntryAt(index + 1)' = Live[position + 1]
  <1>1. Live' = Live
    BY DEF Live
  <1>2. EntryAt(index + 1)' = Live[((index + 1 + offset') % Len(Live)) + 1]
    BY <1>1 DEF EntryAt
  <1> QED
    BY <1>2, JumpOffsetRight

LEMMA AskedStable ==
  ASSUME AskedNext, enabled' = enabled, offset' = offset, index' = index,
         asked' \in {asked, NULL}, strays' = strays,
         rpc' = rpc \/ (Calm /\ rpc' # "forget")
  PROVE  AskedNext'
  <1>1. EntryAt(index + 1)' = EntryAt(index + 1)
    BY EntryAtStable
  <1> QED
    BY <1>1 DEF AskedNext, Calm

LEMMA CommandAsked == IInv /\ Typed /\ AskedNext /\ Commands => AskedNext'
  <1> SUFFICES ASSUME IInv, Typed, AskedNext, Commands PROVE AskedNext'
    OBVIOUS
  <1>1. RotationTypes /\ index \in Nat
    BY DEF IInv, Typed
  <1>2. rpc = "top" /\ index' = index /\ strays' = strays
    BY DEF Commands, PauseOrResume, All, Jump, NextSegment, Restart, Toggle, Configure, Command
  <1>3. CASE Jump
    <2>1. PICK position \in 0 .. Len(Live) - 1 :
            offset' = JumpOffset(position) /\ asked' = Live[position + 1]
      BY <1>3 DEF Jump
    <2>2. Live # <<>>
      BY <2>1, LiveRight
    <2>3. enabled' = enabled /\ rpc' = "invalidate"
      BY <1>3 DEF Jump
    <2>4. EntryAt(index + 1)' = asked'
      BY <1>1, <1>2, <2>1, <2>2, <2>3, JumpAsks
    <2> QED
      BY <2>3, <2>4 DEF AskedNext, Calm
  <1>4. CASE PauseOrResume
    BY <1>2, <1>4, AskedStable DEF PauseOrResume, rotation
  <1>5. CASE ~Jump /\ ~PauseOrResume
    <2>1. asked' = NULL
      BY <1>5 DEF Commands, All, NextSegment, Restart, Toggle, Configure
    <2> QED
      BY <2>1 DEF AskedNext
  <1> QED
    BY <1>3, <1>4, <1>5

LEMMA InvalidateAsked == IInv /\ Typed /\ AskedNext /\ Invalidate => AskedNext'
  <1> SUFFICES ASSUME IInv, Typed, AskedNext, Invalidate PROVE AskedNext'
    OBVIOUS
  <1>1. /\ RotationTypes /\ index \in Nat /\ strays \subseteq DOMAIN ready
        /\ after = "replay" => target \in Entries
    BY DEF IInv, Typed, ReadyTypes, CommandTypes
  <1>2. /\ index' = index /\ enabled' = enabled /\ rpc' \in {"invalidate", "top"}
        /\ strays' = strays \ {k \in DOMAIN ready : k >= index + 1}
    BY DEF Invalidate, InvalidateFrom, RenderUnchanged
  <1>3. index + 1 \notin strays'
    BY <1>1, <1>2
  <1>4. CASE offset' = offset /\ asked' = asked
    <2>1. EntryAt(index + 1)' = EntryAt(index + 1)
      BY <1>2, <1>4, EntryAtStable
    <2> QED
      BY <1>2, <1>3, <1>4, <2>1 DEF AskedNext
  <1>5. CASE /\ after = "replay" /\ EntryAt(index) = target
             /\ offset' = JumpOffset(PositionOf(target)) /\ asked' = target
    <2>1. /\ Live # <<>> /\ PositionOf(target) \in 0 .. Len(Live) - 1
          /\ Live[PositionOf(target) + 1] = target
      BY <1>1, <1>5, ReplayRight
    <2>2. EntryAt(index + 1)' = asked'
      BY <1>1, <1>2, <1>5, <2>1, JumpAsks
    <2> QED
      BY <1>2, <1>3, <2>2 DEF AskedNext
  <1> QED
    BY <1>4, <1>5 DEF Invalidate

LEMMA AskedInductive == IInv /\ Typed /\ AskedNext /\ [Next]_vars => AskedNext'
  <1> SUFFICES ASSUME IInv, Typed, AskedNext, [Next]_vars PROVE AskedNext'
    OBVIOUS
  <1>1. CASE BuilderWorks
    BY <1>1, AskedStable DEF BuilderWorks, Pick, Ask, ReadOptions, CacheSegment, File,
       BuilderUnchanged, history, show
  <1>2. CASE BuildFails \/ Advance
    BY <1>2 DEF BuildFails, Advance, AskedNext
  <1>3. CASE Forget
    BY <1>3 DEF Forget, history, AskedNext
  <1>4. CASE Tick
    BY <1>4, AskedStable DEF Tick, FrameUnchanged, rotation, history, Calm
  <1>5. CASE DrawOurs \/ StartChild \/ WatchChild \/ RenderRaises
    <2>1. Compose
      BY <1>5 DEF DrawOurs, StartChild, WatchChild, RenderRaises
    <2> QED
      BY <2>1, AskedStable DEF Compose, FrameUnchanged, rotation, history, Calm
  <1>6. CASE Shutdown \/ ChildExits \/ Signal \/ UNCHANGED vars
    BY <1>6, AskedStable DEF Shutdown, ChildExits, Signal, vars, rotation, show, history, Calm
  <1> QED
    BY <1>1, <1>2, <1>3, <1>4, <1>5, <1>6, CommandAsked, InvalidateAsked DEF Next, RenderWorks

\* Only advancing moves the playhead, and what it comes to is what is built.
LEMMA AdvanceLands ==
  ASSUME IInv, AskedNext, [Next]_vars, index' # index, asked # NULL
  PROVE  ready'[index'].entry = asked
  <1>1. Advance
    BY DEF Next, BuilderWorks, Pick, Ask, ReadOptions, CacheSegment, File, BuildFails,
       BuilderUnchanged, Commands, PauseOrResume, All, Jump, NextSegment, Restart, Toggle,
       Configure, Command, RenderWorks, Forget, Invalidate, Tick, DrawOurs, StartChild, WatchChild,
       RenderRaises, Compose, Shutdown, ChildExits, Signal, vars, show
  <1>2. /\ index' = index + 1 /\ index + 1 \in DOMAIN ready /\ index \in Nat
        /\ ready' = Without(ready, 0 .. index) /\ rpc = "compose"
    BY <1>1 DEF Advance, Ended, IInv
  <1>3. ready'[index'] = ready[index + 1]
    BY <1>2 DEF Without
  <1>4. EntryAt(index + 1) = asked /\ index + 1 \notin strays
    BY <1>2 DEF AskedNext, Calm
  <1>5. ready[index + 1].entry = EntryAt(index + 1)
    BY <1>2, <1>4 DEF IInv, ReadyAsMapped
  <1> QED
    BY <1>3, <1>4, <1>5

\* A jump lands: whatever was built or being built for the next index, and for a
\* rotation and a position of any size, what plays next is what was asked for.
THEOREM JumpsLand == Spec => JumpLands
  <1>1. Init => AskedNext
    BY DEF Init, AskedNext
  <1>2. IInv /\ AskedNext /\ [Next]_vars =>
          [index' # index /\ asked # NULL => ready'[index'].entry = asked]_vars
    BY AdvanceLands
  <1> QED
    BY <1>1, <1>2, InitTyped, TypedInductive, AskedInductive, Invariance, PTL
       DEF Spec, JumpLands

-----------------------------------------------------------------------------
(* What the wall is promised.                                              *)

\* A step that does not advance leaves what is on air as it was built.
LEMMA OnAirKept ==
  ASSUME IInv, [Next]_vars, ~Advance
  PROVE  index' = index /\ ready'[index] = ready[index]
  <1>1. index \in Nat /\ index \in DOMAIN ready
    BY DEF IInv, OnAirBuilt
  <1>2. CASE File
    <2>1. index' = index
      BY <1>2 DEF File, BuilderUnchanged, show
    <2>2. bIndex # index
      BY <1>1, <1>2 DEF File, IInv, Ahead
    <2> QED
      BY <1>1, <1>2, <2>1, <2>2 DEF File
  <1>3. CASE Invalidate
    <2>1. index' = index /\ ready' = Without(ready, {k \in DOMAIN ready : k >= index + 1})
      BY <1>3 DEF Invalidate, InvalidateFrom
    <2>2. index \in DOMAIN ready \ {k \in DOMAIN ready : k >= index + 1}
      BY <1>1
    <2> QED
      BY <2>1, <2>2 DEF Without
  <1>4. CASE Pick \/ Ask \/ ReadOptions \/ CacheSegment \/ BuildFails
    BY <1>4 DEF Pick, Ask, ReadOptions, CacheSegment, BuildFails, BuilderUnchanged, show
  <1>5. CASE Commands
    BY <1>5 DEF Commands, PauseOrResume, All, Jump, NextSegment, Restart, Toggle, Configure,
       Command
  <1>6. CASE Forget \/ Tick \/ Shutdown
    BY <1>6 DEF Forget, Tick, Shutdown, show
  <1>7. CASE DrawOurs \/ StartChild \/ WatchChild \/ RenderRaises
    BY <1>7 DEF DrawOurs, StartChild, WatchChild, RenderRaises, Compose
  <1>8. CASE ChildExits \/ Signal \/ UNCHANGED vars
    BY <1>8 DEF ChildExits, Signal, vars, show
  <1> QED
    BY <1>2, <1>3, <1>4, <1>5, <1>6, <1>7, <1>8 DEF Next, BuilderWorks, RenderWorks

LEMMA StepPlays ==
  IInv /\ Typed /\ Typed' /\ AskedNext /\ [Next]_vars => [PO!Next]_<<index, ready[index], asked>>
  <1> SUFFICES ASSUME IInv, Typed, Typed', AskedNext, [Next]_vars
               PROVE  [PO!Next]_<<index, ready[index], asked>>
    OBVIOUS
  <1>1. CASE Advance
    <2>1. /\ index' = index + 1 /\ index \in Nat /\ index + 1 \in DOMAIN ready
          /\ ready' = Without(ready, 0 .. index) /\ asked' = NULL
      BY <1>1 DEF Advance, Ended, IInv
    <2>2. ready'[index'] = ready[index + 1] /\ ready[index + 1] \in Render
      BY <2>1 DEF Without, Typed, ReadyTypes
    <2>3. asked # NULL => ready'[index'].entry = asked
      BY <2>1, AdvanceLands
    <2>4. PO!TakeOver
      BY <2>1, <2>2, <2>3 DEF PO!TakeOver
    <2> QED
      BY <2>4 DEF PO!Next
  <1>2. CASE ~Advance
    <2>1. index' = index /\ ready'[index'] = ready[index]
      BY <1>2, OnAirKept
    <2>2. asked' \in Entries \union {NULL}
      BY DEF Typed, CommandTypes
    <2> QED
      BY <2>1, <2>2 DEF PO!Next, PO!Ask
  <1> QED
    BY <1>1, <1>2

\* The scheduler, with its Builder working ahead and every command of the panel,
\* keeps the promise: for rotations of any size, any lead and any durations.
THEOREM SchedulerImplementsPlayout == Spec => ImplementsPlayout
  <1>1. Init => PO!Init /\ AskedNext
    <2> SUFFICES ASSUME Init PROVE PO!Init /\ AskedNext
      OBVIOUS
    <2>1. ready[index] \in Render
      <3>1. index \in DOMAIN ready
        BY DEF Init
      <3> QED
        BY <3>1, InitTyped DEF Typed, ReadyTypes
    <2> QED
      BY <2>1 DEF Init, PO!Init, AskedNext
  <1>2. IInv /\ Typed /\ AskedNext /\ [Next]_vars => Typed' /\ AskedNext'
    BY TypedInductive, AskedInductive
  <1>3. IInv /\ Typed /\ AskedNext /\ [Next]_vars => [PO!Next]_<<index, ready[index], asked>>
    BY <1>2, StepPlays
  <1> QED
    BY <1>1, <1>2, <1>3, InitTyped, Invariance, PTL DEF Spec, ImplementsPlayout, PO!Spec

=============================================================================
