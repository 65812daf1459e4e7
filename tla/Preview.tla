------------------------------- MODULE Preview -------------------------------
(***************************************************************************)
(* A client that sends a canvas in datagrams, the network, and ft-web that *)
(* shows it in browsers.                                                   *)
(***************************************************************************)
EXTENDS FrameSender, WebPreview

CONSTANT MaxJoins    \* bound: browsers that connect

ASSUME PreviewAssumption ==
  /\ Pictures \subseteq [0 .. Height - 1 -> Colors] /\ Dark = Black
  /\ MaxJoins \in Nat

VARIABLES
  joins,
  wanted,    \* history: what the frames sent so far say of each layer and row
  passed     \* history: layers and rows that were cleared since, or where an
             \* older datagram came after the newest

history == <<wanted, passed>>
all     == <<sender, web, joins, history>>

Cell == Layer \X Pixel

Covers(d) == {c \in Cell : c[1] = Clamp(d.z) /\ c[2] - d.top \in DOMAIN d.rows}

PreviewInit ==
  /\ SenderInit /\ Init
  /\ joins = 0
  /\ wanted = [c \in Cell |-> [frame |-> 0, color |-> Black]]
  /\ passed = {}

SendFrame ==
  /\ Send
  /\ LET whole == [top |-> place'.y, z |-> place'.z, rows |-> canvas'] IN
       /\ wanted' = [c \in Cell |-> IF c \in Covers(whole)
                                    THEN [frame |-> frames', color |-> canvas'[c[2] - place'.y]]
                                    ELSE wanted[c]]
       /\ passed' = passed \ Covers(whole)
  /\ UNCHANGED <<web, joins>>

SendRows == SendChunk /\ UNCHANGED <<web, joins, history>>

\* The network delivers in any order; a datagram that is lost is one that is
\* never delivered.
Deliver ==
  \E d \in net :
    /\ Apply(d)
    /\ net' = net \ {d}
    /\ passed' = (passed \ Covers(d)) \union {c \in Covers(d) : d.frame # wanted[c].frame}
    /\ UNCHANGED <<maxUdp, canvas, place, rows, tile, frames, joins, wanted>>

Push ==
  /\ Pushing
  /\ passed' = passed \union {c \in Cell : touched[c[1]] /\ ~touched'[c[1]]}
  /\ UNCHANGED <<sender, joins, wanted>>

Browser(b) ==
  /\ \/ Join(b) /\ joins < MaxJoins /\ joins' = joins + 1
     \/ (Ping(b) \/ Pong(b) \/ Leave(b) \/ Remove(b)) /\ UNCHANGED joins
  /\ UNCHANGED <<sender, history>>

Second == Tick /\ UNCHANGED <<sender, joins, history>>

PreviewNext ==
  \/ SendFrame \/ SendRows \/ Deliver
  \/ Push \/ Second
  \/ \E b \in Browsers : Browser(b)

\* push_loop() goes on, and a pong is written in the end, or is given up.  Time,
\* clients, the network and browsers owe nothing.
PreviewSpec ==
  /\ PreviewInit /\ [][PreviewNext]_all
  /\ WF_all(Push)
  /\ \A b \in Browsers : WF_all((Pong(b) \/ Remove(b)) /\ UNCHANGED <<sender, joins, history>>)

-----------------------------------------------------------------------------
(* Properties.                                                             *)

\* The types, and that Send() has every row either sent or to go.
TypeOK ==
  /\ layers \in [Layer -> [Pixel -> Colors]] /\ frame \in [Pixel -> Colors]
  /\ touched \in [Layer -> BOOLEAN] /\ age \in [Overlay -> 0 .. Timeout + 1]
  /\ changed \in BOOLEAN /\ due \in BOOLEAN /\ sweep \in Layer
  /\ push \in {"sleep", "hub", "list", "broadcast"}
  /\ alive \in [Browsers -> BOOLEAN]
  /\ {targets, hub, ponging, owed} \subseteq SUBSET Browsers
  /\ screen \in [Browsers -> {Nothing} \union [Pixel -> Colors]]
  /\ rows > 0 => rows + tile = Height
  /\ rows \in 0 .. Height

\* No datagram is larger than was asked for, and none is without a row.
DatagramsFit ==
  \A d \in net : \E n \in 1 .. Height :
    DOMAIN d.rows = 0 .. n - 1 /\ Reserve + n * RowSize <= maxUdp

\* A datagram that is lost, or overtaken by an older one, costs only its own
\* rows ("a lost IP fragment costs only its band rather than the whole frame",
\* api/python/flaschen.py:221): every row whose newest datagram came is as the
\* last frame has it.
BandCostsOnlyItsRows ==
  \A c \in Cell \ passed :
    (rows = 0 /\ \A d \in net : c \in Covers(d) => d.frame # wanted[c].frame) =>
      layers[c[1]][c[2]] = wanted[c].color

\* ft-web's display is a layered display: composite() returns what the stack
\* shows, though it looks at touched layers only ("equivalent", class Display).
LD == INSTANCE LayeredDisplay WITH Pixels <- Pixel
ImplementsLayeredDisplay == LD!Spec

\* push_loop() sleeps over nothing: when it does and the generation is the one
\* it sent, every browser shows what is on the display, but for those that the
\* newest frame was passed over for or that came after it.
ShownAtRest ==
  push = "sleep" /\ ~changed =>
    \A b \in hub \ owed : alive[b] => screen[b] = LD!Flatten(layers)

\* "We always want the newest frame" (Client.send()): a browser that stays
\* shows in the end what is on the display, unless the newest frame was passed
\* over for a pong or the browser came after it.
NewestFrameShown ==
  \A b \in Browsers :
    <>[](b \in hub /\ alive[b] /\ b \notin owed => screen[b] = LD!Flatten(layers))

\* An overlay that has been left alone for longer than the timeout is cleared
\* in this round of push_loop() or the next, browsers or not.
ClearedInTime ==
  \A z \in Overlay : touched[z] /\ age[z] > Timeout => due \/ sweep \in 1 .. z

=============================================================================
