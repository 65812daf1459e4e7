------------------------------ MODULE Composite ------------------------------
(***************************************************************************)
(* The heart of the server: CompositeFlaschenTaschen (layers, z-buffer,    *)
(* lazily allocated buffers, visible-pixel flag), the UDP loop that draws  *)
(* datagrams on it and the thread that garbage-collects idle layers, which *)
(* share it under one mutex.  A critical section is not one step: each     *)
(* pixel is, so the invariants are those that hold between two pixels too. *)
(*                                                                         *)
(* Time is the collector's tick counter.  current_time_ has no initial     *)
(* value in the constructor, so before the first tick it is any integer of *)
(* StartTimes.                                                             *)
(***************************************************************************)
EXTENDS Integers

CONSTANTS
  NLayers,     \* number of layers, at least the background
  Pixels,      \* the pixels of the panel
  Positions,   \* where datagrams draw: the panel and what falls off it
  Rects,       \* the areas a datagram can cover, sets of Positions
  Colors,
  Black,       \* a colour, and the transparent one above layer 0
  LayerArgs,   \* layer numbers datagrams carry, in range or not
  MaxAge,      \* --layer-timeout, at least 1 tick
  Never,       \* INT_MAX, the time stamp of a layer with nothing to collect
  StartTimes,  \* what uninitialised current_time_ may hold
  NULL,        \* a layer not yet allocated
  MaxTicks     \* bound: the collector ticks at most so often

ASSUME CompositeAssumption ==
  /\ NLayers \in Nat \ {0}
  /\ Pixels \subseteq Positions
  /\ Rects \subseteq SUBSET Positions
  /\ Black \in Colors
  /\ LayerArgs \subseteq Int
  /\ MaxAge \in Nat \ {0}
  /\ StartTimes \subseteq Int
  /\ MaxTicks \in Nat
  /\ Never \in Int /\ Never > MaxTicks
  /\ NULL \notin [Pixels -> Colors]

VARIABLES
  lock,        \* who holds the display mutex: "free", "udp" or "gc"
  screens,     \* screens_: the buffer of each layer, NULL until first used
  zbuf,        \* z_buffer_: the layer seen at each pixel
  out,         \* the pixels handed to the delegatee
  visible,     \* any_visible_pixel_drawn_
  sent,        \* the delegatee's pixels when its Send() was last called
  current,     \* current_layer_
  stamp,       \* last_layer_update_time_
  now,         \* current_time_
  ticks,       \* ticks_ of the collector
  todo,        \* positions of the current datagram still to be drawn
  gcPc,        \* collector: "idle", "scan" (the layers) or "clear" (one layer)
  gcLayer,     \* the layer the collector looks at
  gcTodo,      \* pixels of it still to be cleared
  anyChange,   \* any_change of ClearLayersOlderThan
  idle,        \* history: ticks since SetLayer() last named the layer
  timed        \* history: layers whose stamp was taken after the first tick

display == <<screens, zbuf, out, visible>>
gcVars  == <<gcPc, gcLayer, gcTodo, anyChange>>
clock   == <<now, ticks>>
history == <<idle, timed>>
vars == <<lock, display, sent, current, stamp, clock, todo, gcVars, history>>

Layer    == 0 .. NLayers - 1
Overlays == 1 .. NLayers - 1
Blank    == [p \in Pixels |-> Black]

\* Mutants of Cutoff: the comparison off by one tick, either way.
CutoffLate  == ticks - MaxAge - 1
CutoffEarly == ticks - MaxAge + 1

\* Layers stamped at this tick or before are collected.
Cutoff == ticks - MaxAge

Opaque(s, l, p) == s[l] # NULL /\ s[l][p] # Black

\* Mutants of Landing: stop at the first allocated layer, black there or not;
\* or fall through to the background as soon as the top is transparent.
LandingOnAllocated(s, p, top, l) ==
  /\ l = 0 \/ s[l] # NULL
  /\ \A k \in (l + 1) .. top : s[k] = NULL
LandingOnBackground(s, p, top, l) == l = IF Opaque(s, top, p) THEN top ELSE 0

\* Walking down from `top', the first layer that is not transparent at p, or 0.
Landing(s, p, top, l) ==
  /\ l = 0 \/ Opaque(s, l, p)
  /\ \A k \in (l + 1) .. top : ~Opaque(s, k, p)

Clamp(layer) ==
  IF layer < 0 THEN 0 ELSE IF layer >= NLayers THEN NLayers - 1 ELSE layer

-----------------------------------------------------------------------------
(* The constructor, once main() has sent the initial black frame.          *)

Init ==
  /\ lock = "free"
  /\ screens = [l \in Layer |-> IF l = 0 THEN Blank ELSE NULL]
  /\ zbuf = [p \in Pixels |-> 0]
  /\ out = Blank
  /\ visible = FALSE
  /\ sent = Blank
  /\ current = 0
  /\ stamp = [l \in Layer |-> Never]
  /\ now \in StartTimes
  /\ ticks = 0
  /\ todo = {}
  /\ gcPc = "idle"
  /\ gcLayer = 1
  /\ gcTodo = {}
  /\ anyChange = FALSE
  /\ idle = [l \in Layer |-> 0]
  /\ timed = {}

-----------------------------------------------------------------------------
(* Operations of CompositeFlaschenTaschen, called with the mutex held.     *)

\* A pixel under the one seen is only stored.  Otherwise the delegatee gets
\* what the walk down finds; a colour that is not black stops it at once.
SetPixelAtLayer(p, layer, c) ==
  /\ screens' = [screens EXCEPT ![layer][p] = c]
  /\ \/ /\ layer < zbuf[p]
        /\ UNCHANGED <<zbuf, out, visible>>
     \/ /\ layer >= zbuf[p]
        /\ visible' = TRUE
        /\ \E l \in 0 .. layer :
             /\ Landing(screens', p, layer, l)
             /\ out' = [out EXCEPT ![p] = screens'[l][p]]
             /\ zbuf' = [zbuf EXCEPT ![p] = l]

SetPixel(pos, c) ==
  \/ pos \in Pixels /\ SetPixelAtLayer(pos, current, c)
  \/ pos \notin Pixels /\ UNCHANGED display

\* Mutant of Send: the flag is not reset.
SendForgetsReset == UNCHANGED visible /\ sent' = IF visible THEN out ELSE sent

\* Nothing is sent if only pixels of hidden layers were drawn.
Send ==
  \/ ~visible /\ UNCHANGED <<sent, visible>>
  \/ visible /\ sent' = out /\ visible' = FALSE

SetLayer(layer) ==
  LET l == Clamp(layer) IN
    /\ screens' = [screens EXCEPT ![l] = IF screens[l] = NULL THEN Blank ELSE @]
    /\ current' = l
    /\ stamp' = [stamp EXCEPT ![l] = now]
    /\ idle' = [idle EXCEPT ![l] = 0]
    /\ timed' = IF ticks = 0 THEN timed \ {l} ELSE timed \union {l}

-----------------------------------------------------------------------------
(* One datagram of udp_server_run_blocking(): lock, SetLayer(layer), a     *)
(* SetPixel() for each pixel, Send(), SetLayer(0), unlock.  Positions      *)
(* are distinct, so the row-major order of the loop is one of the orders.  *)

\* Mutant of UdpLock: the datagram does not wait for the mutex.
UdpLockUnlocked ==
  /\ lock # "udp"
  /\ lock' = "udp"
  /\ \E layer \in LayerArgs : SetLayer(layer)
  /\ \E area \in Rects : todo' = area
  /\ UNCHANGED <<zbuf, out, visible, sent, clock, gcVars>>

UdpLock ==
  /\ lock = "free"
  /\ lock' = "udp"
  /\ \E layer \in LayerArgs : SetLayer(layer)
  /\ \E area \in Rects : todo' = area
  /\ UNCHANGED <<zbuf, out, visible, sent, clock, gcVars>>

UdpDraw ==
  /\ lock = "udp"
  /\ \E pos \in todo, c \in Colors :
       /\ SetPixel(pos, c)
       /\ todo' = todo \ {pos}
  /\ UNCHANGED <<lock, sent, current, stamp, clock, gcVars, history>>

UdpFinish ==
  /\ lock = "udp"
  /\ todo = {}
  /\ Send
  /\ SetLayer(0)
  /\ lock' = "free"
  /\ UNCHANGED <<zbuf, out, clock, todo, gcVars>>

-----------------------------------------------------------------------------
(* One tick of LayerGarbageCollector::Run(): the timed wait gives up the   *)
(* mutex for about a second and takes it back, then ClearLayersOlderThan   *)
(* walks the overlays, and the clock advances before the mutex is released. *)

GcWake ==
  /\ lock = "free"
  /\ ticks < MaxTicks
  /\ lock' = "gc"
  /\ gcPc' = "scan"
  /\ gcLayer' = 1
  /\ anyChange' = FALSE
  /\ UNCHANGED <<display, sent, current, stamp, clock, todo, gcTodo, history>>

GcSkipRecent ==
  /\ gcPc = "scan"
  /\ gcLayer \in Overlays
  /\ stamp[gcLayer] > Cutoff
  /\ gcLayer' = gcLayer + 1
  /\ UNCHANGED <<lock, display, sent, current, stamp, clock, todo, gcPc, gcTodo,
                 anyChange, history>>

\* That a stamped layer has a buffer is so whenever this is reached: only
\* SetLayer() stamps, and it allocates.  The code's way round it is not taken.
GcStartClear ==
  /\ gcPc = "scan"
  /\ gcLayer \in Overlays
  /\ stamp[gcLayer] <= Cutoff
  /\ screens[gcLayer] # NULL
  /\ gcPc' = "clear"
  /\ gcTodo' = Pixels
  /\ UNCHANGED <<lock, display, sent, current, stamp, clock, todo, gcLayer, anyChange,
                 history>>

\* The pixel is recomposited only where this layer is the one seen.
GcClearPixel ==
  /\ gcPc = "clear"
  /\ \E p \in gcTodo :
       /\ gcTodo' = gcTodo \ {p}
       /\ \/ /\ zbuf[p] = gcLayer
             /\ SetPixelAtLayer(p, gcLayer, Black)
          \/ /\ zbuf[p] # gcLayer
             /\ screens' = [screens EXCEPT ![gcLayer][p] = Black]
             /\ UNCHANGED <<zbuf, out, visible>>
  /\ UNCHANGED <<lock, sent, current, stamp, clock, todo, gcPc, gcLayer, anyChange,
                 history>>

GcLayerDone ==
  /\ gcPc = "clear"
  /\ gcTodo = {}
  /\ stamp' = [stamp EXCEPT ![gcLayer] = Never]
  /\ anyChange' = TRUE
  /\ gcLayer' = gcLayer + 1
  /\ gcPc' = "scan"
  /\ UNCHANGED <<lock, display, sent, current, clock, todo, gcTodo, history>>

GcFinish ==
  /\ gcPc = "scan"
  /\ gcLayer \notin Overlays
  /\ \/ anyChange /\ Send
     \/ ~anyChange /\ UNCHANGED <<sent, visible>>
  /\ now' = ticks
  /\ ticks' = ticks + 1
  /\ idle' = [l \in Layer |-> idle[l] + 1]
  /\ lock' = "free"
  /\ gcPc' = "idle"
  /\ UNCHANGED <<screens, zbuf, out, current, stamp, todo, gcLayer, gcTodo, anyChange,
                 timed>>

-----------------------------------------------------------------------------

Udp == UdpLock \/ UdpDraw \/ UdpFinish

Gc == GcWake \/ GcSkipRecent \/ GcStartClear
        \/ GcClearPixel \/ GcLayerDone \/ GcFinish

Next == Udp \/ Gc

Spec == Init /\ [][Next]_vars

-----------------------------------------------------------------------------
(* Properties.                                                             *)

\* The stack of layers as its readers see it: an unallocated layer is blank.
Contents == [l \in Layer |-> IF screens[l] = NULL THEN Blank ELSE screens[l]]

LD == INSTANCE LayeredDisplay WITH layers <- Contents, frame <- sent

\* Every variable has its type, and the collector is out of its round exactly
\* when it does not hold the mutex (the ft::MutexLock of its loop).
TypeOK ==
  /\ lock \in {"free", "udp", "gc"}
  /\ screens \in [Layer -> [Pixels -> Colors] \union {NULL}]
  /\ zbuf \in [Pixels -> Layer]
  /\ out \in [Pixels -> Colors]
  /\ sent \in [Pixels -> Colors]
  /\ visible \in BOOLEAN
  /\ current \in Layer
  /\ stamp \in [Layer -> Int]
  /\ now \in Int
  /\ ticks \in 0 .. MaxTicks
  /\ todo \in SUBSET Positions
  /\ gcPc \in {"idle", "scan", "clear"}
  /\ gcLayer \in 1 .. NLayers
  /\ gcTodo \in SUBSET Pixels
  /\ anyChange \in BOOLEAN
  /\ idle \in [Layer -> Nat]
  /\ timed \in SUBSET Layer
  /\ gcPc = "idle" <=> lock # "gc"

\* The z-buffer names an allocated layer, the one seen at that pixel, and the
\* delegatee shows its colour: also between two pixels of a datagram, and
\* halfway through the collector's clearing of a layer, which writes most
\* pixels without looking at the stack (the comments "Invariant: the z-buffer
\* only ever names an allocated layer" and "clearing it cannot change the output").
ZBufferRight ==
  \A p \in Pixels :
    /\ screens[zbuf[p]] # NULL
    /\ LD!IsTop(Contents, p, zbuf[p])
    /\ out[p] = screens[zbuf[p]][p]

\* Whoever takes the mutex finds the display at rest: what was drawn has been
\* sent on, although Send() drops frames it thinks invisible, and the next
\* SetPixel() without SetLayer() draws on the background (udp-server.cc, "Back
\* to sane default").
AtRestWhenUnlocked ==
  lock = "free" =>
    /\ sent = LD!Flatten(Contents)
    /\ ~visible
    /\ current = 0

\* The collector leaves alone an overlay drawn to fewer than MaxAge - 1 full
\* ticks ago, whatever datagrams and ticks came between (stamps are compared
\* to ticks_ before it advances, current_time_ lags it by one).
NotClearedEarly ==
  [][\A l \in Overlays :
       (lock = "gc" /\ l \in timed /\ idle[l] < MaxAge - 1) =>
         screens'[l] = screens[l]]_vars

\* An overlay nobody has named for MaxAge ticks is transparent everywhere, if
\* its stamp was taken on a running clock.
ClearedOnTime ==
  (lock = "free") =>
    \A l \in Overlays :
      (l \in timed /\ idle[l] >= MaxAge) => screens[l] \in {NULL, Blank}

\* The same with no allowance for the clock: "cleans overlay layers if they
\* haven't been touched in more than timeout_seconds" (composite header, 54).
ClearedAlways ==
  (lock = "free") =>
    \A l \in Overlays : idle[l] > MaxAge => screens[l] \in {NULL, Blank}

\* Every frame presented is the whole stack seen from the front.
ImplementsLayeredDisplay == LD!Spec

=============================================================================
