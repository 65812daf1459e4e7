------------------------- MODULE DisplayPusher_proofs -------------------------
(***************************************************************************)
(* Proofs about DisplayPusher for a panel of any size, any colours and any *)
(* writers.                                                                *)
(***************************************************************************)
EXTENDS DisplayPusher, TLAPS

\* What has been drawn but not sent can only be there while a writer is inside.
SentWhenFree ==
  (lock = "free" \/ ~drew) => fb = latest

\* Between presentations both canvases hold what is on the panel.
CanvasesAgree ==
  pc \notin {"swap", "resync"} => canvas[front] = canvas[back]

\* With no frame announced, the back buffer holds the one sent last.
TakenWhenNotReady ==
  ~frameReady => canvas[back] = latest

\* A wait begins, and goes on, only with no frame announced and no exit asked.
NothingToWakeFor ==
  pc = "wait" => ~frameReady /\ running

IInv == TypeOK /\ SpareInSync /\ SentWhenFree /\ CanvasesAgree
          /\ TakenWhenNotReady /\ NothingToWakeFor

Rect == [x0 : 0 .. Width, y0 : 0 .. Height, x1 : 0 .. Width, y1 : 0 .. Height]

-----------------------------------------------------------------------------
(* The dirty rectangle.                                                    *)

LEMMA CleanCoversNothing == \A p \in Pixels : ~Covers(Clean, p)
  BY DEF Covers, IsClean, Clean

\* Extending keeps what was covered and covers the new pixel.
LEMMA ExtendCovers ==
  ASSUME NEW d \in Rect, NEW p \in Pixels
  PROVE  /\ Extend(d, p) \in Rect
         /\ Covers(Extend(d, p), p)
         /\ \A q \in Pixels : Covers(d, q) => Covers(Extend(d, p), q)
  <1>1. /\ p[1] \in 0 .. Width - 1 /\ p[2] \in 0 .. Height - 1
        /\ d.x0 \in 0 .. Width /\ d.x1 \in 0 .. Width
        /\ d.y0 \in 0 .. Height /\ d.y1 \in 0 .. Height
        /\ Width \in Nat /\ Height \in Nat
    BY PusherAssumption DEF Rect, Pixels, X, Y
  <1>2. \A q \in Pixels : q[1] \in Int /\ q[2] \in Int
    BY DEF Pixels, X, Y
  <1>3. CASE IsClean(d)
    <2>1. Extend(d, p) = [x0 |-> p[1], y0 |-> p[2], x1 |-> p[1] + 1, y1 |-> p[2] + 1]
      BY <1>3 DEF Extend
    <2>2. Extend(d, p) \in Rect
      BY <1>1, <2>1 DEF Rect
    <2> QED
      BY <1>1, <1>2, <1>3, <2>1, <2>2 DEF Covers, IsClean
  <1>4. CASE ~IsClean(d)
    <2>1. Extend(d, p) =
            [x0 |-> Least(d.x0, p[1]), x1 |-> Greatest(d.x1, p[1] + 1),
             y0 |-> Least(d.y0, p[2]), y1 |-> Greatest(d.y1, p[2] + 1)]
      BY <1>4 DEF Extend
    <2>2. Extend(d, p) \in Rect
      BY <1>1, <2>1 DEF Rect, Least, Greatest
    <2> QED
      BY <1>1, <1>2, <1>4, <2>1, <2>2 DEF Covers, IsClean, Least, Greatest
  <1> QED
    BY <1>3, <1>4

-----------------------------------------------------------------------------
(* The invariant, action by action.                                        *)

LEMMA InitInv == Init => IInv
  <1> SUFFICES ASSUME Init PROVE IInv
    OBVIOUS
  <1>1. TypeOK
    <2>1. Blank \in [Pixels -> Colors]
      BY PusherAssumption DEF Blank
    <2>2. Clean \in Rect
      BY PusherAssumption DEF Clean, Rect
    <2>3. todo \in SUBSET (Int \X Int)
      BY DEF Init
    <2>4. /\ lock \in Writers \union {"free"} /\ front = 1 /\ back = 2 /\ pc = "check"
          /\ drew = FALSE /\ frameReady = TRUE /\ running = TRUE /\ main = "serving"
      BY DEF Init
    <2>5. fb = Blank /\ latest = Blank /\ canvas = [i \in {1, 2} |-> Blank] /\ dirty = Clean
      BY DEF Init
    <2>6. canvas \in [{1, 2} -> [Pixels -> Colors]] /\ fb \in [Pixels -> Colors]
          /\ latest \in [Pixels -> Colors] /\ dirty \in Rect
      BY <2>1, <2>2, <2>5
    <2>7. (front = back) <=> (pc = "resync")
      BY <2>4
    <2>8. /\ front \in {1, 2} /\ back \in {1, 2}
          /\ pc \in {"check", "wait", "swap", "resync", "done"}
          /\ drew \in BOOLEAN /\ frameReady \in BOOLEAN /\ running \in BOOLEAN
          /\ main \in {"serving", "joining", "stopped"}
      BY <2>4
    <2> QED
      BY <2>3, <2>4, <2>6, <2>7, <2>8 DEF TypeOK, Rect
  <1>2. SpareInSync /\ SentWhenFree /\ CanvasesAgree
    BY DEF Init, SpareInSync, SentWhenFree, CanvasesAgree
  <1>3. TakenWhenNotReady /\ NothingToWakeFor
    BY DEF Init, TakenWhenNotReady, NothingToWakeFor
  <1> QED
    BY <1>1, <1>2, <1>3 DEF IInv

LEMMA WriterLockInv ==
  ASSUME IInv, NEW w \in Writers, WriterLock(w)
  PROVE  IInv'
  <1>1. /\ lock' \in Writers \union {"free"} /\ drew' = FALSE
        /\ UNCHANGED <<fb, dirty, frameReady, canvas, front, back, pc, running, main, latest>>
    BY DEF WriterLock, drawVars, canvasVars
  <1>2. todo' \in Areas
    BY DEF WriterLock
  <1>3. todo' \in SUBSET (Int \X Int)
    BY <1>2, PusherAssumption, Zenon
  <1>4. TypeOK'
    BY <1>1, <1>3 DEF IInv, TypeOK
  <1>5. SpareInSync' /\ CanvasesAgree' /\ TakenWhenNotReady' /\ NothingToWakeFor'
    BY <1>1 DEF IInv, SpareInSync, CanvasesAgree, TakenWhenNotReady, NothingToWakeFor
  <1>6. lock = "free" /\ lock' = w /\ lock' # "free"
    BY PusherAssumption DEF WriterLock
  <1>7. SentWhenFree'
    BY <1>1, <1>6 DEF IInv, SentWhenFree
  <1> QED
    BY <1>4, <1>5, <1>7 DEF IInv

LEMMA WriterDrawInv ==
  ASSUME IInv, NEW w \in Writers, WriterDraw(w)
  PROVE  IInv'
  <1>1. PICK p \in todo, c \in Colors : SetPixel(p, c) /\ todo' = todo \ {p}
    BY DEF WriterDraw
  <1>2. /\ lock = w /\ lock # "free" /\ UNCHANGED <<lock, frameReady, pc, running, main, latest>>
        /\ canvas' = canvas /\ front' = front /\ back' = back
    BY PusherAssumption DEF WriterDraw, canvasVars
  <1>0. TakenWhenNotReady' /\ NothingToWakeFor'
    BY <1>2 DEF IInv, TakenWhenNotReady, NothingToWakeFor
  <1>3. CASE p \notin Pixels
    <2>1. fb' = fb /\ dirty' = dirty /\ drew' = drew
      BY <1>1, <1>3 DEF SetPixel, drawVars
    <2>2. TypeOK'
      BY <1>1, <1>2, <2>1 DEF IInv, TypeOK
    <2>3. SpareInSync' /\ SentWhenFree' /\ CanvasesAgree'
      BY <1>2, <2>1 DEF IInv, SpareInSync, SentWhenFree, CanvasesAgree
    <2> QED
      BY <1>0, <2>2, <2>3 DEF IInv
  <1>4. CASE p \in Pixels
    <2>1. fb' = [fb EXCEPT ![p] = c] /\ dirty' = Extend(dirty, p) /\ drew' = TRUE
      BY <1>1, <1>4 DEF SetPixel
    <2>2. dirty \in Rect
      BY DEF IInv, TypeOK, Rect
    <2>3. /\ dirty' \in Rect
          /\ Covers(dirty', p)
          /\ \A q \in Pixels : Covers(dirty, q) => Covers(dirty', q)
      BY <1>4, <2>1, <2>2, ExtendCovers
    <2>4. TypeOK'
      BY <1>1, <1>2, <2>1, <2>3 DEF IInv, TypeOK, Rect
    <2>5. SpareInSync'
      BY <1>2, <2>1, <2>3 DEF IInv, TypeOK, SpareInSync
    <2>6. SentWhenFree' /\ CanvasesAgree'
      BY <1>2, <2>1 DEF IInv, SentWhenFree, CanvasesAgree
    <2> QED
      BY <1>0, <2>4, <2>5, <2>6 DEF IInv
  <1> QED
    BY <1>3, <1>4

LEMMA WriterUnlockInv ==
  ASSUME IInv, NEW w \in Writers, WriterUnlock(w)
  PROVE  IInv'
  <1> USE DEF IInv, WriterUnlock, writerVars, drawVars, canvasVars, Send, Signal
  <1>1. TypeOK'
    BY DEF TypeOK
  <1>2. SpareInSync' /\ SentWhenFree'
    BY DEF SpareInSync, SentWhenFree, TypeOK
  <1>3. CanvasesAgree'
    BY DEF CanvasesAgree
  <1>4. TakenWhenNotReady' /\ NothingToWakeFor'
    BY DEF TakenWhenNotReady, NothingToWakeFor
  <1> QED
    BY <1>1, <1>2, <1>3, <1>4

\* With nothing dirty the back buffer is fb_.
LEMMA CleanOnBack ==
  ASSUME TypeOK, SpareInSync, IsClean(dirty)
  PROVE  canvas[back] = fb
  <1>1. canvas[back] \in [Pixels -> Colors] /\ fb \in [Pixels -> Colors]
    BY DEF TypeOK
  <1>2. \A p \in Pixels : canvas[back][p] = fb[p]
    BY DEF SpareInSync, Covers
  <1> QED
    BY <1>1, <1>2

LEMMA PusherIdleInv ==
  ASSUME IInv, PusherExit \/ PusherWait \/ PusherTimeout \/ TakeNothing \/ TriggerExit
                 \/ WaitStopped \/ UNCHANGED vars
  PROVE  IInv'
  <1>1. /\ UNCHANGED <<lock, todo, drew, fb, dirty, canvas, front, back, latest>>
        /\ frameReady' \in BOOLEAN /\ running' \in BOOLEAN
        /\ main' \in {"serving", "joining", "stopped"}
        /\ pc' \in {"check", "wait", "swap", "resync", "done"}
        /\ pc' # pc => pc \notin {"swap", "resync"} /\ pc' \notin {"swap", "resync"}
    BY DEF PusherExit, PusherWait, PusherTimeout, TakeNothing, TriggerExit, WaitStopped,
           Signal, vars, writerVars, drawVars, canvasVars, IInv, TypeOK
  <1>2. TypeOK'
    BY <1>1 DEF IInv, TypeOK
  <1>3. SpareInSync' /\ SentWhenFree' /\ CanvasesAgree'
    BY <1>1 DEF IInv, SpareInSync, SentWhenFree, CanvasesAgree
  <1>4. TakenWhenNotReady'
    <2>1. CASE TakeNothing
      <3>1. canvas[back] = fb
        BY <2>1, CleanOnBack DEF TakeNothing, IInv
      <3> QED
        BY <1>1, <2>1, <3>1 DEF TakeNothing, IInv, SentWhenFree, TakenWhenNotReady
    <2>2. CASE ~TakeNothing
      <3>1. frameReady' = frameReady
        BY <2>2 DEF PusherExit, PusherWait, PusherTimeout, TriggerExit, WaitStopped, vars
      <3> QED
        BY <1>1, <3>1 DEF IInv, TakenWhenNotReady
    <2> QED
      BY <2>1, <2>2
  <1>5. NothingToWakeFor'
    BY DEF IInv, NothingToWakeFor, PusherExit, PusherWait, PusherTimeout, TakeNothing,
           TriggerExit, WaitStopped, Signal, vars
  <1> QED
    BY <1>2, <1>3, <1>4, <1>5 DEF IInv

\* The blit makes the back buffer the frame last sent, whatever was on it.
LEMMA TakeMakesLatest ==
  ASSUME IInv, TakeDirtyRegion
  PROVE  /\ canvas' = [canvas EXCEPT ![back] = latest]
         /\ fb = latest
  <1>1. fb = latest /\ fb \in [Pixels -> Colors]
    BY DEF IInv, TypeOK, SentWhenFree, TakeDirtyRegion
  <1>2. Blit(canvas[back], dirty) = [p \in Pixels |-> fb[p]]
    <2> SUFFICES ASSUME NEW p \in Pixels
                 PROVE  (IF Covers(dirty, p) THEN fb[p] ELSE canvas[back][p]) = fb[p]
      BY DEF Blit
    <2> QED
      BY <1>1 DEF IInv, SpareInSync
  <1>3. Blit(canvas[back], dirty) = fb
    BY <1>1, <1>2
  <1> QED
    BY <1>1, <1>3 DEF TakeDirtyRegion

LEMMA TakeDirtyRegionInv ==
  ASSUME IInv, TakeDirtyRegion
  PROVE  IInv'
  <1> USE DEF TakeDirtyRegion, writerVars
  <1>1. canvas' = [canvas EXCEPT ![back] = latest] /\ fb = latest
    BY TakeMakesLatest
  <1>2. dirty' \in Rect
    BY PusherAssumption DEF Clean, Rect
  <1>3. TypeOK'
    <2>1. fb \in [Pixels -> Colors] /\ canvas \in [{1, 2} -> [Pixels -> Colors]]
      BY DEF IInv, TypeOK
    <2>2. canvas' \in [{1, 2} -> [Pixels -> Colors]]
      BY <1>1, <2>1
    <2>3. (front' = back') <=> (pc' = "resync")
      BY DEF IInv, TypeOK
    <2> QED
      BY <1>2, <2>2, <2>3 DEF IInv, TypeOK, Rect
  <1>4. SpareInSync' /\ SentWhenFree' /\ CanvasesAgree'
    BY <1>1 DEF IInv, TypeOK, SpareInSync, SentWhenFree, CanvasesAgree
  <1>5. TakenWhenNotReady' /\ NothingToWakeFor'
    BY <1>1 DEF IInv, TypeOK, TakenWhenNotReady, NothingToWakeFor
  <1> QED
    BY <1>3, <1>4, <1>5 DEF IInv

LEMMA PresentInv ==
  ASSUME IInv, PusherPresents
  PROVE  IInv'
  <1> USE DEF PusherPresents, SwapOnVSync, Resync, writerVars, drawVars
  <1>1. TypeOK'
    <2>1. CASE SwapOnVSync
      BY <2>1 DEF IInv, TypeOK
    <2>2. CASE Resync
      <3>1. 3 - back \in {1, 2} /\ 3 - back # back /\ front = back
        BY <2>2 DEF IInv, TypeOK
      <3> QED
        BY <2>2, <3>1 DEF IInv, TypeOK
    <2> QED
      BY <2>1, <2>2
  <1>2. canvas'[back'] = canvas[back]
    <2>1. 3 - back \in {1, 2}
      BY DEF IInv, TypeOK
    <2> QED
      BY <2>1 DEF IInv, TypeOK
  <1>3. SpareInSync' /\ SentWhenFree'
    BY <1>2 DEF IInv, SpareInSync, SentWhenFree
  <1>4. CanvasesAgree'
    <2>1. CASE SwapOnVSync
      BY <2>1 DEF CanvasesAgree
    <2>2. CASE Resync
      <3>1. 3 - back \in {1, 2} /\ 3 - back # back /\ front = back
        BY <2>2 DEF IInv, TypeOK
      <3> QED
        BY <2>2, <3>1 DEF IInv, TypeOK, CanvasesAgree
    <2> QED
      BY <2>1, <2>2
  <1>5. TakenWhenNotReady' /\ NothingToWakeFor'
    BY <1>2 DEF IInv, TakenWhenNotReady, NothingToWakeFor
  <1> QED
    BY <1>1, <1>3, <1>4, <1>5 DEF IInv

-----------------------------------------------------------------------------
(* Theorems.                                                               *)

THEOREM Invariance == Spec => []IInv
  <1>1. IInv /\ [Next]_vars => IInv'
    BY WriterLockInv, WriterDrawInv, WriterUnlockInv, PusherIdleInv, TakeDirtyRegionInv,
       PresentInv DEF Next, Writer, PusherChecks
  <1> QED
    BY InitInv, <1>1, PTL DEF Spec

\* Every variable keeps its type, and the canvases are distinct but in "resync".
THEOREM TypeCorrect == Spec => []TypeOK
  <1>1. IInv => TypeOK
    BY DEF IInv
  <1> QED
    BY Invariance, <1>1, PTL

\* What lies outside the dirty rectangle need never be copied.
THEOREM DirtyRegionEnough == Spec => []SpareInSync
  <1>1. IInv => SpareInSync
    BY DEF IInv
  <1> QED
    BY Invariance, <1>1, PTL

\* The presenting thread never sleeps over a frame or over the end: what the
\* promise that the last frame is shown and that stopping ends rest on.
THEOREM NoLostWakeup == Spec => []AsleepOnlyWhenShown
  <1>1. IInv => AsleepOnlyWhenShown
    BY DEF IInv, NothingToWakeFor, TakenWhenNotReady, CanvasesAgree, AsleepOnlyWhenShown
  <1> QED
    BY Invariance, <1>1, PTL

\* The refresh thread never reads a canvas somebody writes.
THEOREM NoTearing == Spec => OnScreenUntouched
  <1> DEFINE Untouched == front' = front => canvas'[front] = canvas[front]
  <1>1. IInv /\ [Next]_vars => [Untouched]_vars
    <2> SUFFICES ASSUME IInv, Next, front' = front PROVE canvas'[front] = canvas[front]
      OBVIOUS
    <2>1. CASE TakeDirtyRegion
      <3>1. front # back
        BY <2>1 DEF TakeDirtyRegion, IInv, TypeOK
      <3> QED
        BY <2>1, <3>1 DEF TakeDirtyRegion, IInv, TypeOK
    <2>2. CASE Resync
      <3>1. front = back /\ 3 - back # back
        BY <2>2 DEF Resync, IInv, TypeOK
      <3> QED
        BY <2>2, <3>1 DEF Resync, IInv, TypeOK
    <2>3. CASE ~TakeDirtyRegion /\ ~Resync
      <3>1. canvas' = canvas
        BY <2>3 DEF Next, Writer, WriterLock, WriterDraw, WriterUnlock, PusherChecks,
             PusherExit, PusherWait, TakeNothing, PusherTimeout, PusherPresents, SwapOnVSync,
             TriggerExit, WaitStopped, canvasVars
      <3> QED
        BY <3>1
    <2> QED
      BY <2>1, <2>2, <2>3
  <1> HIDE DEF Untouched
  <1>2. Spec => [][Untouched]_vars
    BY Invariance, <1>1, PTL DEF Spec
  <1> QED
    BY <1>2 DEF Untouched, OnScreenUntouched

\* The panel shows whole frames, in the order they were sent.
THEOREM Refinement == Spec => ImplementsPanel
  <1>1. Init => P!Init
    BY DEF Init, P!Init
  <1>2. IInv /\ [Next]_vars => [P!Next]_<<latest, canvas[back], canvas[front]>>
    <2> SUFFICES ASSUME IInv, [Next]_vars
                 PROVE  [P!Next]_<<latest, canvas[back], canvas[front]>>
      OBVIOUS
    <2>1. ASSUME NEW w \in Writers, Writer(w)
          PROVE  [P!Next]_<<latest, canvas[back], canvas[front]>>
      <3>1. canvas' = canvas /\ front' = front /\ back' = back
        BY <2>1 DEF Writer, WriterLock, WriterDraw, WriterUnlock, canvasVars
      <3>2. latest' = latest \/ latest' = fb
        BY <2>1 DEF Writer, WriterLock, WriterDraw, WriterUnlock, Send
      <3> QED
        BY <3>1, <3>2 DEF P!Next, P!Publish, IInv, TypeOK
    <2>2. CASE TakeDirtyRegion
      <3>1. /\ canvas' = [canvas EXCEPT ![back] = latest]
            /\ front' = front /\ back' = back /\ latest' = latest
        BY <2>2, TakeMakesLatest DEF TakeDirtyRegion
      <3>2. front # back /\ canvas[front] = canvas[back]
        BY <2>2 DEF TakeDirtyRegion, IInv, TypeOK, CanvasesAgree
      <3>3. canvas'[back'] = latest /\ canvas'[front'] = canvas[front]
        BY <3>1, <3>2 DEF IInv, TypeOK
      <3> QED
        BY <3>1, <3>2, <3>3 DEF P!Next, P!Take
    <2>3. CASE SwapOnVSync
      BY <2>3 DEF SwapOnVSync, P!Next, P!Show
    <2>4. CASE Resync
      <3>1. front = back /\ 3 - back \in {1, 2} /\ 3 - back # back
        BY <2>4 DEF Resync, IInv, TypeOK
      <3>2. canvas'[back'] = canvas[back] /\ canvas'[front'] = canvas[front]
        BY <2>4, <3>1 DEF Resync, IInv, TypeOK
      <3> QED
        BY <2>4, <3>2 DEF Resync
    <2>5. CASE PusherExit \/ PusherWait \/ PusherTimeout \/ TakeNothing \/ TriggerExit
                 \/ WaitStopped \/ UNCHANGED vars
      BY <2>5 DEF PusherExit, PusherWait, PusherTimeout, TakeNothing, TriggerExit, WaitStopped,
                  vars, canvasVars
    <2> QED
      BY <2>1, <2>2, <2>3, <2>4, <2>5 DEF Next, PusherChecks, PusherPresents
  <1> QED
    BY Invariance, <1>1, <1>2, PTL DEF Spec, ImplementsPanel, P!Spec

=============================================================================
