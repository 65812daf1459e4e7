--------------------------- MODULE LayeredDisplay ---------------------------
(***************************************************************************)
(* What the compositing display promises, with no z-buffer, no dirty flag, *)
(* no lazily allocated layers and no garbage collector: pixels are drawn   *)
(* on layers, and every frame that is presented is the stack of layers     *)
(* seen from the front, black being transparent above the background       *)
(* (server/composite-flaschen-taschen.h, class comment).                   *)
(***************************************************************************)
EXTENDS Integers

CONSTANTS
  NLayers,   \* how many layers the display has; 0 is the background
  Pixels,    \* the pixels of the panel
  Colors,    \* the colours a pixel can have
  Black      \* transparent on every layer but the background

VARIABLES
  layers,    \* [Layer -> [Pixels -> Colors]]
  frame      \* the frame last presented

Layer == 0 .. NLayers - 1

Blank == [p \in Pixels |-> Black]

\* Layer l is the one seen at pixel p of the stack L.
IsTop(L, p, l) ==
  /\ l = 0 \/ L[l][p] # Black
  /\ \A k \in Layer : k > l => L[k][p] = Black

Top(L, p) == CHOOSE l \in Layer : IsTop(L, p, l)

Flatten(L) == [p \in Pixels |-> L[Top(L, p)][p]]

-----------------------------------------------------------------------------

Init ==
  /\ layers = [l \in Layer |-> Blank]
  /\ frame = Blank

\* One layer at a time is drawn on or cleared, a pixel or all of them.
Draw(l, picture) ==
  /\ layers' = [layers EXCEPT ![l] = picture]
  /\ UNCHANGED frame

Present ==
  /\ frame' = Flatten(layers)
  /\ UNCHANGED layers

Next ==
  \/ \E l \in Layer, picture \in [Pixels -> Colors] : Draw(l, picture)
  \/ Present

Spec == Init /\ [][Next]_<<layers, frame>>

=============================================================================
