---------------------------- MODULE DisplayPusher ----------------------------
(***************************************************************************)
(* RGBMatrixFlaschenTaschen and its DisplayPusher thread.  Writers (the    *)
(* UDP loop and the layer collector, through the composite) change fb_ and *)
(* the dirty rectangle under the display mutex; the pusher takes the dirty *)
(* part under the same mutex, then swaps and resyncs the two canvases with *)
(* the mutex released; main() ends it with StopDisplayThread().            *)
(***************************************************************************)
EXTENDS Integers

CONSTANTS
  Width, Height,
  Colors,
  Black,
  Areas,     \* sets of positions one writer covers while it holds the mutex
  Writers    \* threads that draw through the composite

X == 0 .. Width - 1
Y == 0 .. Height - 1
Pixels == X \X Y

ASSUME PusherAssumption ==
  /\ Width \in Nat \ {0}
  /\ Height \in Nat \ {0}
  /\ Black \in Colors
  /\ Areas \subseteq SUBSET (Int \X Int)
  /\ {"free"} \cap Writers = {}

VARIABLES
  lock,        \* "free" or the writer that holds the display mutex
  todo,        \* what the writer in the critical section still has to draw
  drew,        \* it has drawn something the composite must Send()
  fb,          \* fb_
  dirty,       \* the dirty rectangle, columns x0..x1-1 and rows y0..y1-1
  frameReady,  \* frame_ready_
  canvas,      \* the contents of the two FrameCanvases
  front,       \* the one the panel scans out
  back,        \* back_buffer_
  pc,          \* pusher: "check", "wait" (on the condition), "swap", "resync", "done"
  running,     \* running_ of the pusher
  main,        \* main(): "serving", "joining" the pusher, "stopped"
  latest       \* history: fb_ when Send() was last called

writerVars == <<todo, drew>>
drawVars   == <<fb, dirty>>
canvasVars == <<canvas, front, back>>
vars == <<lock, writerVars, drawVars, frameReady, canvasVars, pc, running, main, latest>>

Blank == [p \in Pixels |-> Black]

Clean == [x0 |-> 0, y0 |-> 0, x1 |-> 0, y1 |-> 0]

IsClean(d) == d.x1 <= d.x0

Covers(d, p) ==
  /\ ~IsClean(d)
  /\ d.x0 <= p[1] /\ p[1] < d.x1
  /\ d.y0 <= p[2] /\ p[2] < d.y1

Least(a, b)    == IF a < b THEN a ELSE b
Greatest(a, b) == IF a > b THEN a ELSE b

\* Mutant of Extend: the rectangle never grows upwards.
ExtendDown(d, p) ==
  IF IsClean(d)
    THEN [x0 |-> p[1], y0 |-> p[2], x1 |-> p[1] + 1, y1 |-> p[2] + 1]
    ELSE [x0 |-> Least(d.x0, p[1]), x1 |-> Greatest(d.x1, p[1] + 1),
          y0 |-> d.y0,              y1 |-> Greatest(d.y1, p[2] + 1)]

Extend(d, p) ==
  IF IsClean(d)
    THEN [x0 |-> p[1], y0 |-> p[2], x1 |-> p[1] + 1, y1 |-> p[2] + 1]
    ELSE [x0 |-> Least(d.x0, p[1]), x1 |-> Greatest(d.x1, p[1] + 1),
          y0 |-> Least(d.y0, p[2]), y1 |-> Greatest(d.y1, p[2] + 1)]

-----------------------------------------------------------------------------
(* The constructor and PostDaemonInit(), main()'s Send() of the empty      *)
(* screen, and StartDisplayThread().                                       *)

Init ==
  /\ lock = "free"
  /\ todo = {}
  /\ drew = FALSE
  /\ fb = Blank
  /\ dirty = Clean
  /\ frameReady = TRUE
  /\ canvas = [i \in {1, 2} |-> Blank]
  /\ front = 1
  /\ back = 2
  /\ pc = "check"
  /\ running = TRUE
  /\ main = "serving"
  /\ latest = Blank

-----------------------------------------------------------------------------
(* A writer: SetPixel()s, then Send() if the composite saw any of them     *)
(* (Composite!AtRestWhenUnlocked: it never unlocks with one unsent).       *)

WriterLock(w) ==
  /\ lock = "free"
  /\ lock' = w
  /\ \E area \in Areas : todo' = area
  /\ drew' = FALSE
  /\ UNCHANGED <<drawVars, frameReady, canvasVars, pc, running, main, latest>>

SetPixel(p, c) ==
  \/ /\ p \in Pixels
     /\ fb' = [fb EXCEPT ![p] = c]
     /\ dirty' = Extend(dirty, p)
     /\ drew' = TRUE
  \/ /\ p \notin Pixels
     /\ UNCHANGED <<drawVars, drew>>

WriterDraw(w) ==
  /\ lock = w
  /\ \E p \in todo, c \in Colors :
       /\ SetPixel(p, c)
       /\ todo' = todo \ {p}
  /\ UNCHANGED <<lock, frameReady, canvasVars, pc, running, main, latest>>

\* pthread_cond_signal(): a thread waiting on the condition will look again.
Signal == pc' = IF pc = "wait" THEN "check" ELSE pc

\* Mutant of Send: nobody waiting for a frame is woken.
SendWithoutSignal == frameReady' = TRUE /\ latest' = fb /\ UNCHANGED pc

Send ==
  /\ frameReady' = TRUE
  /\ Signal
  /\ latest' = fb

WriterUnlock(w) ==
  /\ lock = w
  /\ todo = {}
  /\ \/ drew /\ Send
     \/ ~drew /\ UNCHANGED <<frameReady, pc, latest>>
  /\ lock' = "free"
  /\ UNCHANGED <<writerVars, drawVars, canvasVars, running, main>>

-----------------------------------------------------------------------------
(* DisplayPusher::Run().  The mutex is held from the end of the wait to    *)
(* the end of TakeDirtyRegion(), so that is one step when it is free.      *)

PusherExit ==
  /\ pc = "check"
  /\ lock = "free"
  /\ ~running
  /\ pc' = "done"
  /\ UNCHANGED <<lock, writerVars, drawVars, frameReady, canvasVars, running, main, latest>>

PusherWait ==
  /\ pc = "check"
  /\ lock = "free"
  /\ running
  /\ ~frameReady
  /\ pc' = "wait"
  /\ UNCHANGED <<lock, writerVars, drawVars, frameReady, canvasVars, running, main, latest>>

\* The 250 ms timeout, or a spurious wakeup.
PusherTimeout ==
  /\ pc = "wait"
  /\ pc' = "check"
  /\ UNCHANGED <<lock, writerVars, drawVars, frameReady, canvasVars, running, main, latest>>

\* TakeDirtyRegion() of a frame that was sent without drawing anything.
TakeNothing ==
  /\ pc = "check"
  /\ lock = "free"
  /\ running
  /\ frameReady
  /\ IsClean(dirty)
  /\ frameReady' = FALSE
  /\ UNCHANGED <<lock, writerVars, drawVars, canvasVars, pc, running, main, latest>>

Blit(f, d) == [p \in Pixels |-> IF Covers(d, p) THEN fb[p] ELSE f[p]]

\* Mutant of TakeDirtyRegion: taken without the mutex.
TakeDirtyRegionUnlocked ==
  /\ pc = "check"
  /\ running
  /\ frameReady
  /\ ~IsClean(dirty)
  /\ frameReady' = FALSE
  /\ canvas' = [canvas EXCEPT ![back] = Blit(@, dirty)]
  /\ dirty' = Clean
  /\ pc' = "swap"
  /\ UNCHANGED <<lock, writerVars, fb, front, back, running, main, latest>>

TakeDirtyRegion ==
  /\ pc = "check"
  /\ lock = "free"
  /\ running
  /\ frameReady
  /\ ~IsClean(dirty)
  /\ frameReady' = FALSE
  /\ canvas' = [canvas EXCEPT ![back] = Blit(@, dirty)]
  /\ dirty' = Clean
  /\ pc' = "swap"
  /\ UNCHANGED <<lock, writerVars, fb, front, back, running, main, latest>>

\* SwapOnVSync(): from the next refresh on the panel scans the back buffer.
SwapOnVSync ==
  /\ pc = "swap"
  /\ front' = back
  /\ pc' = "resync"
  /\ UNCHANGED <<lock, writerVars, drawVars, frameReady, canvas, back, running, main, latest>>

\* Mutant of Resync: the canvas on the panel remains the back buffer.
ResyncKeepingBack ==
  /\ pc = "resync"
  /\ canvas' = [canvas EXCEPT ![3 - back] = canvas[back]]
  /\ pc' = "check"
  /\ UNCHANGED <<lock, writerVars, drawVars, frameReady, front, back, running, main, latest>>

\* previous->CopyFrom(*back_buffer_); back_buffer_ = previous, where previous is
\* the other of the two canvases.
Resync ==
  /\ pc = "resync"
  /\ canvas' = [canvas EXCEPT ![3 - back] = canvas[back]]
  /\ back' = 3 - back
  /\ pc' = "check"
  /\ UNCHANGED <<lock, writerVars, drawVars, frameReady, front, running, main, latest>>

-----------------------------------------------------------------------------
(* StopDisplayThread(): TriggerExit() under the mutex, then join.          *)

\* Mutant of TriggerExit: running_ is cleared but nobody is woken.
TriggerExitSilently ==
  /\ main = "serving"
  /\ lock = "free"
  /\ running' = FALSE
  /\ main' = "joining"
  /\ UNCHANGED <<lock, writerVars, drawVars, frameReady, canvasVars, pc, latest>>

TriggerExit ==
  /\ main = "serving"
  /\ lock = "free"
  /\ running' = FALSE
  /\ Signal
  /\ main' = "joining"
  /\ UNCHANGED <<lock, writerVars, drawVars, frameReady, canvasVars, latest>>

WaitStopped ==
  /\ main = "joining"
  /\ pc = "done"
  /\ main' = "stopped"
  /\ UNCHANGED <<lock, writerVars, drawVars, frameReady, canvasVars, pc, running, latest>>

-----------------------------------------------------------------------------

Writer(w) == WriterLock(w) \/ WriterDraw(w) \/ WriterUnlock(w)

PusherChecks == PusherExit \/ PusherWait \/ TakeNothing \/ TakeDirtyRegion
PusherPresents == SwapOnVSync \/ Resync

Next ==
  \/ \E w \in Writers : Writer(w)
  \/ PusherChecks
  \/ PusherTimeout
  \/ PusherPresents
  \/ TriggerExit
  \/ WaitStopped

\* A writer leaves its critical section, the panel refreshes, and a pusher (or
\* the joining main) that keeps finding the mutex free gets it in the end.
\* Nothing is assumed of PusherTimeout: no wakeup may depend on it.
Fairness ==
  /\ \A w \in Writers : WF_vars(WriterDraw(w) \/ WriterUnlock(w))
  /\ SF_vars(PusherChecks)
  /\ WF_vars(PusherPresents)
  /\ WF_vars(WaitStopped)

Spec == Init /\ [][Next]_vars /\ Fairness

-----------------------------------------------------------------------------
(* Properties.                                                             *)

\* Types; the two canvases are two except between swap and resync.
TypeOK ==
  /\ lock \in Writers \union {"free"}
  /\ todo \in SUBSET (Int \X Int)
  /\ drew \in BOOLEAN
  /\ fb \in [Pixels -> Colors]
  /\ dirty \in [x0 : 0 .. Width, y0 : 0 .. Height, x1 : 0 .. Width, y1 : 0 .. Height]
  /\ frameReady \in BOOLEAN
  /\ canvas \in [{1, 2} -> [Pixels -> Colors]]
  /\ front \in {1, 2}
  /\ back \in {1, 2}
  /\ pc \in {"check", "wait", "swap", "resync", "done"}
  /\ running \in BOOLEAN
  /\ main \in {"serving", "joining", "stopped"}
  /\ latest \in [Pixels -> Colors]
  /\ (front = back) <=> (pc = "resync")

\* Since updates are incremental, everything outside the dirty rectangle is
\* already on the back buffer, at every point where it could be taken (the
\* comment in SwapAndResync()).
SpareInSync ==
  \A p \in Pixels : ~Covers(dirty, p) => canvas[back][p] = fb[p]

\* Nothing writes to the canvas that is on the panel (WriterPathDecoupling.md,
\* "nothing writes to the on-screen canvas").
OnScreenUntouched ==
  [][front' = front => canvas'[front] = canvas[front]]_vars

\* The pusher sleeps only when the panel shows the frame sent last and nobody
\* has told it to stop: no wakeup is lost, whether a frame is sent while it
\* swaps, before it has looked, or after (TriggerExit() and Send() signal under
\* the mutex that Run() looks at its flags under).
AsleepOnlyWhenShown ==
  pc = "wait" => running /\ canvas[front] = latest

P == INSTANCE Panel
       WITH Frames <- [Pixels -> Colors], Dark <- Blank,
            taken <- canvas[back], shown <- canvas[front]

\* The panel shows whole frames that were sent, in order, the newest available.
ImplementsPanel == P!Spec

\* The last frame sent reaches the panel, without help of the wait's timeout,
\* unless it is overtaken or the display is being stopped.
SentIsShown ==
  \A f \in [Pixels -> Colors] :
    (latest = f) ~> (canvas[front] = f \/ latest # f \/ ~running)

\* A display told to stop stops.
StopIsNoticed == (main = "joining") ~> (main = "stopped")

=============================================================================
