---------------------------- MODULE Preview_proofs ----------------------------
(***************************************************************************)
(* Proofs about Preview for canvases and displays of any size, any number  *)
(* of layers, browsers and frames, and any timeout.                        *)
(***************************************************************************)
EXTENDS Preview, LeastNumber, TLAPS

\* What Send() is at: the rows to go are those after the ones that were sent,
\* and a datagram has room for at least one.
SendingRight ==
  /\ maxUdp \in Nat /\ maxUdp >= Reserve /\ MaxSendHeight \in Nat \ {0}
  /\ canvas \in [0 .. Height - 1 -> Colors]
  /\ place \in [y : Int, z : Int]
  /\ tile \in Nat
  /\ frames \in Nat

Datagram(d) ==
  /\ d.frame \in 0 .. frames
  /\ d.top \in Int /\ d.z \in Int
  /\ \E n \in 1 .. Height : d.rows \in [0 .. n - 1 -> Colors]

NetRight == \A d \in net : Datagram(d)

Types == TypeOK /\ SendingRight /\ NetRight

\* What makes composite() right: a layer it leaves out is blank.
UntouchedBlank == \A l \in Overlay : ~touched[l] => layers[l] = Blank

\* The cells of the frame being sent that are still to go.
Rest == {c \in Cell : c[1] = Clamp(place.z) /\ c[2] - place.y - tile \in 0 .. rows - 1}

\* What is to go and what is under way is what the frames sent so far say.
WantedRight ==
  /\ \A c \in Cell : wanted[c].frame \in 0 .. frames
  /\ \A c \in Rest : wanted[c].frame = frames /\ wanted[c].color = canvas[c[2] - place.y]
  /\ \A d \in net : \A c \in Covers(d) :
       d.frame = wanted[c].frame => wanted[c].color = d.rows[c[2] - d.top]

\* What is not on the display as its newest frame has it is to come.
ShownOrToCome ==
  \A c \in Cell \ passed :
    \/ layers[c[1]][c[2]] = wanted[c].color
    \/ c \in Rest
    \/ \E d \in net : c \in Covers(d) /\ d.frame = wanted[c].frame

IInv == Types /\ DatagramsFit /\ ClearedInTime /\ UntouchedBlank /\ WantedRight /\ ShownOrToCome

-----------------------------------------------------------------------------
(* Numbers.                                                                *)

LEMMA ConstantTypes ==
  /\ Width \in Nat \ {0} /\ Height \in Nat \ {0} /\ RowSize \in Nat \ {0}
  /\ RowSize <= MaxDatagram - Reserve
  /\ NLayers \in Nat \ {0} /\ Rows \in Nat /\ Timeout \in Nat
  /\ Black \in Colors /\ Dark = Black
  /\ Blank \in [Pixel -> Colors] /\ 0 \in Layer
  BY SenderAssumption, WebAssumption, PreviewAssumption
     DEF RowSize, Blank, Layer

LEMMA Division ==
  ASSUME NEW m \in Nat, NEW w \in Nat \ {0}
  PROVE  /\ m \div w \in Nat
         /\ \A n \in Nat : n <= m \div w => n * w <= m
  <1>1. m \div w \in Nat /\ (m \div w) * w <= m
    OBVIOUS
  <1> QED
    BY <1>1

LEMMA ClampLayer ==
  ASSUME NEW z \in Int
  PROVE  Clamp(z) \in Layer
  BY ConstantTypes DEF Clamp, Layer

LEMMA NextSweep ==
  /\ 1 % NLayers \in Layer
  /\ \A s \in Layer : (s + 1) % NLayers \in Layer
  /\ \A s \in Layer : s + 1 < NLayers => (s + 1) % NLayers = s + 1
  /\ 1 < NLayers => 1 % NLayers = 1
  BY ConstantTypes DEF Layer

\* Whatever the size is taken from, a row fits.
LEMMA AcceptedFits ==
  ASSUME NEW size \in Nat, size >= Reserve, Accepts(size)
  PROVE  (size - Reserve) \div RowSize \in Nat \ {0}
  <1>1. size <= MaxDatagram /\ size - Reserve \in Nat
    BY DEF Accepts, Reserve, MaxDatagram
  <1>2. (size - Reserve) % (2 ^ SizeBits) = size - Reserve
    BY <1>1, SenderAssumption DEF Reserve, MaxDatagram
  <1>3. (size - Reserve) \div RowSize # 0
    BY <1>2 DEF Accepts
  <1> QED
    BY <1>1, <1>3, Division, ConstantTypes

LEMMA SizeFits ==
  ASSUME NEW s \in SizeSettings, Constructed(s) >= Reserve
  PROVE  /\ Constructed(s) \in Nat
         /\ (Constructed(s) - Reserve) \div RowSize \in Nat \ {0}
  <1>1. s.param \in Nat /\ s.sndbuf \in Nat /\ s.env \in Nat
    BY SenderAssumption
  <1>2. (MaxDatagram - Reserve) \div RowSize \in Nat \ {0}
    <2>1. MaxDatagram - Reserve \in Nat
      BY DEF MaxDatagram, Reserve
    <2>2. MaxDatagram - Reserve < RowSize * ((MaxDatagram - Reserve) \div RowSize + 1)
      BY <2>1, ConstantTypes
    <2>3. (MaxDatagram - Reserve) \div RowSize # 0
      BY <2>1, <2>2, ConstantTypes
    <2> QED
      BY <2>1, <2>3, Division, ConstantTypes
  <1>3. Constructed(s) = MaxDatagram
        \/ (Constructed(s) \in {s.param, s.sndbuf, s.env} /\ Accepts(Constructed(s)))
    BY DEF Constructed, Accepted
  <1>4. CASE Constructed(s) = MaxDatagram
    BY <1>2, <1>4 DEF MaxDatagram
  <1>5. CASE Constructed(s) \in {s.param, s.sndbuf, s.env} /\ Accepts(Constructed(s))
    <2>1. Constructed(s) \in Nat
      BY <1>1, <1>5
    <2> QED
      BY <1>5, <2>1, AcceptedFits
  <1> QED
    BY <1>3, <1>4, <1>5

-----------------------------------------------------------------------------
(* Init.                                                                   *)

LEMMA InitInv == PreviewInit => IInv
  <1> SUFFICES ASSUME PreviewInit PROVE IInv
    OBVIOUS
  <1>1. /\ maxUdp \in {size \in {Constructed(s) : s \in SizeSettings} : size >= Reserve}
        /\ canvas = Cleared /\ place = Origin /\ rows = 0 /\ tile = 0 /\ net = {} /\ frames = 0
        /\ layers = [l \in Layer |-> Blank] /\ touched = [l \in Layer |-> FALSE]
        /\ age = [l \in Overlay |-> Timeout + 1]
        /\ changed = TRUE /\ push = "sleep" /\ sweep = 0 /\ due = TRUE
        /\ frame = Blank /\ targets = {}
        /\ hub = {} /\ alive = [b \in Browsers |-> FALSE] /\ ponging = {}
        /\ screen = [b \in Browsers |-> Nothing] /\ owed = {}
        /\ wanted = [c \in Cell |-> [frame |-> 0, color |-> Black]] /\ passed = {}
    BY DEF PreviewInit, SenderInit, Init
  <1>2. TypeOK
    <2>1. layers \in [Layer -> [Pixel -> Colors]] /\ frame \in [Pixel -> Colors]
      BY <1>1, ConstantTypes
    <2>2. touched \in [Layer -> BOOLEAN] /\ age \in [Overlay -> 0 .. Timeout + 1]
      BY <1>1, ConstantTypes
    <2>3. sweep \in Layer /\ rows \in 0 .. Height /\ ~(rows > 0)
      BY <1>1, ConstantTypes
    <2> QED
      BY <1>1, <2>1, <2>2, <2>3 DEF TypeOK
  <1>3. SendingRight
    <2>1. PICK s \in SizeSettings : maxUdp = Constructed(s) /\ maxUdp >= Reserve
      BY <1>1
    <2>2. maxUdp \in Nat /\ MaxSendHeight \in Nat \ {0}
      BY <2>1, SizeFits DEF MaxSendHeight
    <2>3. canvas \in [0 .. Height - 1 -> Colors] /\ place \in [y : Int, z : Int]
      BY <1>1, ConstantTypes DEF Cleared, Origin
    <2> QED
      BY <1>1, <2>1, <2>2, <2>3 DEF SendingRight
  <1>4. NetRight /\ DatagramsFit
    BY <1>1 DEF NetRight, DatagramsFit
  <1>5. ClearedInTime
    BY <1>1 DEF ClearedInTime
  <1>6. UntouchedBlank
    BY <1>1 DEF UntouchedBlank, Overlay
  <1>7. WantedRight
    <2>1. Rest = {}
      BY <1>1 DEF Rest
    <2> QED
      BY <1>1, <2>1 DEF WantedRight
  <1>8. ShownOrToCome
    <2> SUFFICES ASSUME NEW c \in Cell PROVE layers[c[1]][c[2]] = wanted[c].color
      BY DEF ShownOrToCome
    <2>1. c[1] \in Layer /\ c[2] \in Pixel
      BY DEF Cell
    <2> QED
      BY <1>1, <2>1 DEF Blank
  <1> QED
    BY <1>2, <1>3, <1>4, <1>5, <1>6, <1>7, <1>8 DEF IInv, Types

-----------------------------------------------------------------------------
(* A frame is drawn and sent.                                              *)

LEMMA SendInv == IInv /\ SendFrame => IInv'
  <1> SUFFICES ASSUME IInv, SendFrame PROVE IInv'
    OBVIOUS
  <1> DEFINE whole == [top |-> place'.y, z |-> place'.z, rows |-> canvas']
  <1>1. /\ rows = 0 /\ canvas' \in Pictures /\ place' \in Places
        /\ rows' = Height /\ tile' = 0 /\ frames' = frames + 1
        /\ maxUdp' = maxUdp /\ net' = net
        /\ web' = web /\ joins' = joins
        /\ wanted' = [c \in Cell |-> IF c \in Covers(whole)
                                     THEN [frame |-> frames', color |-> canvas'[c[2] - place'.y]]
                                     ELSE wanted[c]]
        /\ passed' = passed \ Covers(whole)
    BY DEF SendFrame, Send
  <1>2. /\ display' = display /\ pusher' = pusher /\ browsers' = browsers
    BY <1>1 DEF web
  <1>3. /\ layers' = layers /\ touched' = touched /\ age' = age /\ changed' = changed
        /\ push' = push /\ sweep' = sweep /\ due' = due /\ frame' = frame /\ targets' = targets
        /\ hub' = hub /\ alive' = alive /\ ponging' = ponging /\ screen' = screen /\ owed' = owed
    BY <1>2 DEF display, pusher, browsers
  <1>4. canvas' \in [0 .. Height - 1 -> Colors] /\ place' \in [y : Int, z : Int]
    BY <1>1, SenderAssumption, PreviewAssumption
  <1>5. TypeOK'
    <2>1. rows' + tile' = Height /\ rows' \in 0 .. Height
      BY <1>1, ConstantTypes
    <2> QED
      BY <1>3, <2>1 DEF IInv, Types, TypeOK
  <1>6. SendingRight'
    <2>1. frames' \in Nat /\ tile' \in Nat
      BY <1>1 DEF IInv, Types, SendingRight
    <2> QED
      BY <1>1, <1>4, <2>1 DEF IInv, Types, SendingRight, MaxSendHeight
  <1>7. NetRight'
    BY <1>1 DEF IInv, Types, SendingRight, NetRight, Datagram
  <1>8. DatagramsFit' /\ ClearedInTime' /\ UntouchedBlank'
    BY <1>1, <1>3 DEF IInv, DatagramsFit, ClearedInTime, UntouchedBlank
  <1>9. \A c \in Cell : c \in Rest' <=> c \in Covers(whole)
    <2> SUFFICES ASSUME NEW c \in Cell PROVE c \in Rest' <=> c \in Covers(whole)
      OBVIOUS
    <2>1. DOMAIN canvas' = 0 .. Height - 1 /\ c[2] \in Int /\ place'.y \in Int
      BY <1>4 DEF Cell, Pixel
    <2>2. c[2] - place'.y - tile' = c[2] - place'.y /\ rows' - 1 = Height - 1
      BY <1>1, <2>1
    <2> QED
      BY <2>1, <2>2 DEF Rest, Covers
  <1>10. WantedRight'
    <2>1. \A c \in Cell : wanted'[c].frame \in 0 .. frames'
      BY <1>1 DEF IInv, Types, SendingRight, WantedRight
    <2>2. \A c \in Rest' : wanted'[c].frame = frames' /\ wanted'[c].color = canvas'[c[2] - place'.y]
      BY <1>1, <1>9 DEF Rest
    <2>3. ASSUME NEW d \in net, NEW c \in Covers(d), d.frame = wanted'[c].frame
          PROVE  wanted'[c].color = d.rows[c[2] - d.top]
      <3>1. c \in Cell /\ d.frame # frames'
        BY <1>1 DEF Covers, IInv, Types, SendingRight, NetRight, Datagram
      <3>2. wanted'[c] = wanted[c]
        BY <1>1, <2>3, <3>1
      <3> QED
        BY <2>3, <3>2 DEF IInv, WantedRight
    <2> QED
      BY <1>1, <2>1, <2>2, <2>3 DEF WantedRight, Covers
  <1>11. ShownOrToCome'
    <2> SUFFICES ASSUME NEW c \in Cell, c \notin passed'
                 PROVE  \/ layers'[c[1]][c[2]] = wanted'[c].color
                        \/ c \in Rest'
                        \/ \E d \in net' : c \in Covers(d) /\ d.frame = wanted'[c].frame
      BY DEF ShownOrToCome, Covers
    <2>1. CASE c \in Covers(whole)
      BY <1>9, <2>1
    <2>2. CASE c \notin Covers(whole)
      <3>1. c \notin passed /\ wanted'[c] = wanted[c]
        BY <1>1, <2>2
      <3>2. c \notin Rest
        BY <1>1 DEF Rest
      <3> QED
        BY <1>1, <1>3, <3>1, <3>2 DEF IInv, ShownOrToCome
    <2> QED
      BY <2>1, <2>2
  <1> QED
    BY <1>5, <1>6, <1>7, <1>8, <1>10, <1>11 DEF IInv, Types

\* What a turn of Send() puts into a datagram, and what it leaves.
LEMMA ChunkRight ==
  ASSUME IInv, SendRows
  PROVE  /\ SendH \in 1 .. Height
         /\ Reserve + SendH * RowSize <= maxUdp
         /\ Chunk.rows \in [0 .. SendH - 1 -> Colors]
         /\ \A c \in Covers(Chunk) : c \in Rest /\ Chunk.rows[c[2] - Chunk.top] = canvas[c[2] - place.y]
         /\ \A c \in Rest : c \in Covers(Chunk) \/ c \in Rest'
         /\ \A c \in Rest' : c \in Rest /\ canvas'[c[2] - place'.y] = canvas[c[2] - place.y]
  <1>1. /\ rows > 0 /\ Turn
        /\ Height \in Nat /\ rows \in 0 .. Height /\ rows + tile = Height /\ tile \in Nat
        /\ place.y \in Int /\ place.z \in Int
        /\ canvas \in [0 .. Height - 1 -> Colors]
    BY ConstantTypes DEF SendRows, SendChunk, IInv, Types, TypeOK, SendingRight
  <1>2. maxUdp \in Nat /\ maxUdp >= Reserve /\ MaxSendHeight \in Nat \ {0}
    BY DEF IInv, Types, SendingRight
  <1>3. SendH \in 1 .. Height /\ SendH <= rows /\ SendH <= MaxSendHeight
    BY <1>1, <1>2 DEF SendH
  <1>4. Reserve + SendH * RowSize <= maxUdp
    <2>1. maxUdp - Reserve \in Nat /\ MaxSendHeight = (maxUdp - Reserve) \div RowSize
      BY <1>2 DEF MaxSendHeight, Reserve
    <2>2. SendH * RowSize <= maxUdp - Reserve
      BY <1>3, <2>1, Division, ConstantTypes
    <2>3. SendH * RowSize \in Int
      BY <1>3, ConstantTypes
    <2> QED
      BY <1>2, <2>2, <2>3 DEF Reserve
  <1>5. /\ Chunk.rows = [r \in 0 .. SendH - 1 |-> canvas[tile + r]]
        /\ Chunk.top = place.y + tile /\ Chunk.z = place.z
    BY DEF Chunk
  <1>6. Chunk.rows \in [0 .. SendH - 1 -> Colors]
    BY <1>1, <1>3, <1>5
  <1>7. ASSUME NEW c \in Cell
        PROVE  c[2] \in Int
    BY DEF Cell, Pixel
  <1>8. ASSUME NEW c \in Covers(Chunk)
        PROVE  c \in Rest /\ Chunk.rows[c[2] - Chunk.top] = canvas[c[2] - place.y]
    <2>1. c \in Cell /\ c[1] = Clamp(place.z) /\ c[2] - (place.y + tile) \in 0 .. SendH - 1
      BY <1>5 DEF Covers
    <2>2. c[2] - place.y - tile = c[2] - (place.y + tile)
          /\ tile + (c[2] - (place.y + tile)) = c[2] - place.y
      BY <1>1, <1>7, <2>1
    <2>3. c[2] - place.y - tile \in 0 .. rows - 1
      BY <1>1, <1>3, <2>1, <2>2
    <2> QED
      BY <1>5, <2>1, <2>2, <2>3 DEF Rest
  <1>9. ASSUME NEW c \in Rest
        PROVE  c \in Covers(Chunk) \/ c \in Rest'
    <2>1. c \in Cell /\ c[1] = Clamp(place.z) /\ c[2] - place.y - tile \in 0 .. rows - 1
      BY DEF Rest
    <2>2. c[2] - Chunk.top = c[2] - place.y - tile
      BY <1>1, <1>5, <1>7, <2>1
    <2>3. CASE c[2] - place.y - tile < SendH
      BY <1>3, <1>5, <2>1, <2>2, <2>3 DEF Covers
    <2>4. CASE ~(c[2] - place.y - tile < SendH)
      <3>1. rows' = rows - SendH /\ tile' = tile + SendH /\ place' = place
        BY <1>1, <1>3, <2>1, <2>4 DEF Turn
      <3>2. c[2] - place'.y - tile' \in 0 .. rows' - 1
        BY <1>1, <1>3, <1>7, <2>1, <2>4, <3>1
      <3> QED
        BY <2>1, <3>1, <3>2 DEF Rest
    <2> QED
      BY <2>3, <2>4
  <1>10. ASSUME NEW c \in Rest'
         PROVE  c \in Rest /\ canvas'[c[2] - place'.y] = canvas[c[2] - place.y]
    <2>1. c \in Cell /\ c[1] = Clamp(place'.z) /\ c[2] - place'.y - tile' \in 0 .. rows' - 1
      BY DEF Rest
    <2>2. rows' = rows - SendH /\ tile' = tile + SendH /\ place' = place /\ canvas' = canvas
      BY <1>1, <2>1 DEF Turn
    <2>3. c[2] - place.y - tile \in 0 .. rows - 1
      BY <1>1, <1>3, <1>7, <2>1, <2>2
    <2> QED
      BY <2>1, <2>2, <2>3 DEF Rest
  <1> QED
    BY <1>3, <1>4, <1>6, <1>8, <1>9, <1>10

LEMMA RowsInv == IInv /\ SendRows => IInv'
  <1> SUFFICES ASSUME IInv, SendRows PROVE IInv'
    OBVIOUS
  <1>1. /\ rows > 0 /\ Turn /\ net' = net \union {Chunk} /\ maxUdp' = maxUdp /\ frames' = frames
        /\ web' = web /\ joins' = joins /\ wanted' = wanted /\ passed' = passed
    BY DEF SendRows, SendChunk, history
  <1>2. /\ display' = display /\ pusher' = pusher /\ browsers' = browsers
    BY <1>1 DEF web
  <1>3. /\ layers' = layers /\ touched' = touched /\ age' = age /\ changed' = changed
        /\ push' = push /\ sweep' = sweep /\ due' = due /\ frame' = frame /\ targets' = targets
        /\ hub' = hub /\ alive' = alive /\ ponging' = ponging /\ screen' = screen /\ owed' = owed
    BY <1>2 DEF display, pusher, browsers
  <1>4. SendH \in 1 .. Height
    BY ChunkRight
  <1>5. /\ rows \in 0 .. Height /\ rows + tile = Height /\ tile \in Nat
        /\ Height \in Nat \ {0}
    BY <1>1, ConstantTypes DEF IInv, Types, TypeOK, SendingRight
  <1>6. TypeOK'
    <2>1. (rows' > 0 => rows' + tile' = Height) /\ rows' \in 0 .. Height
      BY <1>1, <1>4, <1>5 DEF Turn
    <2> QED
      BY <1>3, <2>1 DEF IInv, Types, TypeOK
  <1>7. SendingRight'
    <2>1. canvas' \in [0 .. Height - 1 -> Colors] /\ place' \in [y : Int, z : Int]
      BY <1>1, ConstantTypes DEF IInv, Types, SendingRight, Turn, Cleared, Origin
    <2>2. tile' \in Nat
      BY <1>1, <1>4, <1>5 DEF Turn
    <2> QED
      BY <1>1, <2>1, <2>2 DEF IInv, Types, SendingRight, MaxSendHeight
  <1>8. NetRight'
    <2>1. Datagram(Chunk)
      <3>1. Chunk.frame = frames /\ Chunk.top = place.y + tile /\ Chunk.z = place.z
        BY DEF Chunk
      <3>2. Chunk.frame \in 0 .. frames /\ Chunk.top \in Int /\ Chunk.z \in Int
        BY <1>5, <3>1 DEF IInv, Types, SendingRight
      <3> QED
        BY <1>4, <3>2, ChunkRight DEF Datagram
    <2>2. \A d : Datagram(d) => Datagram(d)'
      BY <1>1 DEF Datagram
    <2> QED
      BY <1>1, <2>1, <2>2 DEF IInv, Types, NetRight
  <1>9. DatagramsFit'
    <2>1. DOMAIN Chunk.rows = 0 .. SendH - 1
      BY ChunkRight
    <2>2. \E n \in 1 .. Height : DOMAIN Chunk.rows = 0 .. n - 1 /\ Reserve + n * RowSize <= maxUdp
      BY <1>4, <2>1, ChunkRight
    <2> QED
      BY <1>1, <2>2 DEF IInv, DatagramsFit
  <1>10. ClearedInTime' /\ UntouchedBlank'
    BY <1>3 DEF IInv, ClearedInTime, UntouchedBlank
  <1>11. WantedRight'
    <2>1. \A c \in Rest' : wanted'[c].frame = frames' /\ wanted'[c].color = canvas'[c[2] - place'.y]
      BY <1>1, ChunkRight DEF IInv, WantedRight
    <2>2. \A c \in Covers(Chunk) : wanted[c].color = Chunk.rows[c[2] - Chunk.top]
      BY ChunkRight DEF IInv, WantedRight
    <2>3. \A d \in net' : \A c \in Covers(d) :
            d.frame = wanted'[c].frame => wanted'[c].color = d.rows[c[2] - d.top]
      BY <1>1, <2>2 DEF IInv, WantedRight
    <2>4. \A c \in Cell : wanted'[c].frame \in 0 .. frames'
      BY <1>1 DEF IInv, WantedRight
    <2> QED
      BY <2>1, <2>3, <2>4 DEF WantedRight, Covers
  <1>12. ShownOrToCome'
    <2> SUFFICES ASSUME NEW c \in Cell, c \notin passed
                 PROVE  \/ layers[c[1]][c[2]] = wanted[c].color
                        \/ c \in Rest'
                        \/ \E d \in net' : c \in Covers(d) /\ d.frame = wanted[c].frame
      BY <1>1, <1>3 DEF ShownOrToCome, Covers
    <2>1. CASE c \in Rest
      <3>1. wanted[c].frame = Chunk.frame
        BY <2>1 DEF IInv, WantedRight, Chunk
      <3> QED
        BY <1>1, <2>1, <3>1, ChunkRight
    <2>2. CASE c \notin Rest
      BY <1>1, <2>2 DEF IInv, ShownOrToCome
    <2> QED
      BY <2>1, <2>2
  <1> QED
    BY <1>6, <1>7, <1>8, <1>9, <1>10, <1>11, <1>12 DEF IInv, Types

-----------------------------------------------------------------------------
(* The network and ft-web.                                                 *)

\* What a datagram leaves of a layer.
Pasted(d) == [p \in Pixel |-> IF p - d.top \in DOMAIN d.rows
                              THEN d.rows[p - d.top] ELSE layers[Clamp(d.z)][p]]

Hits(d) == {p \in Pixel : p - d.top \in DOMAIN d.rows}

LEMMA PastedRight ==
  ASSUME TypeOK, NEW d, Datagram(d), Apply(d)
  PROVE  /\ Clamp(d.z) \in Layer
         /\ Pasted(d) \in [Pixel -> Colors]
         /\ layers' = [layers EXCEPT ![Clamp(d.z)] = Pasted(d)]
         /\ touched' = [touched EXCEPT ![Clamp(d.z)] = @ \/ Hits(d) # {}]
         /\ Hits(d) = {} => Pasted(d) = layers[Clamp(d.z)]
  <1> DEFINE z == Clamp(d.z)
  <1>1. z \in Layer
    BY ClampLayer DEF Datagram
  <1>2. layers[z] \in [Pixel -> Colors]
    BY <1>1 DEF TypeOK
  <1>3. \A k \in DOMAIN d.rows : d.rows[k] \in Colors
    BY DEF Datagram
  <1>4. Pasted(d) \in [Pixel -> Colors]
    BY <1>2, <1>3 DEF Pasted
  <1>5. /\ layers' = [layers EXCEPT ![z] =
                        [p \in Pixel |-> IF p \in Hits(d) THEN d.rows[p - d.top] ELSE @[p]]]
        /\ touched' = [touched EXCEPT ![z] = @ \/ Hits(d) # {}]
    BY DEF Apply, Hits
  <1>6. [p \in Pixel |-> IF p \in Hits(d) THEN d.rows[p - d.top] ELSE layers[z][p]] = Pasted(d)
    BY DEF Pasted, Hits
  <1>7. layers' = [layers EXCEPT ![z] = Pasted(d)]
    BY <1>1, <1>5, <1>6 DEF TypeOK
  <1>8. Hits(d) = {} => Pasted(d) = layers[z]
    BY <1>2, <1>4 DEF Pasted, Hits
  <1> QED
    BY <1>1, <1>4, <1>5, <1>7, <1>8

LEMMA DeliverInv == IInv /\ Deliver => IInv'
  <1> SUFFICES ASSUME IInv, Deliver PROVE IInv'
    OBVIOUS
  <1>1. PICK d \in net :
          /\ Apply(d) /\ net' = net \ {d}
          /\ passed' = (passed \ Covers(d)) \union {c \in Covers(d) : d.frame # wanted[c].frame}
          /\ UNCHANGED <<maxUdp, canvas, place, rows, tile, frames, joins, wanted>>
    BY DEF Deliver
  <1>2. TypeOK /\ Datagram(d)
    BY DEF IInv, Types, NetRight
  <1> DEFINE z == Clamp(d.z)
  <1>3. /\ z \in Layer /\ Pasted(d) \in [Pixel -> Colors]
        /\ layers' = [layers EXCEPT ![z] = Pasted(d)]
        /\ touched' = [touched EXCEPT ![z] = @ \/ Hits(d) # {}]
        /\ Hits(d) = {} => Pasted(d) = layers[z]
    BY <1>1, <1>2, PastedRight
  <1>4. /\ Unlocked /\ age' = [l \in Overlay |-> IF l = z THEN 0 ELSE age[l]]
        /\ changed' \in BOOLEAN
        /\ pusher' = pusher /\ browsers' = browsers
    BY <1>1, <1>2 DEF Apply, TypeOK
  <1>5. /\ push' = push /\ sweep' = sweep /\ due' = due /\ frame' = frame /\ targets' = targets
        /\ hub' = hub /\ alive' = alive /\ ponging' = ponging /\ screen' = screen /\ owed' = owed
    BY <1>4 DEF pusher, browsers
  <1>6. /\ maxUdp' = maxUdp /\ canvas' = canvas /\ place' = place /\ rows' = rows
        /\ tile' = tile /\ frames' = frames /\ wanted' = wanted
    BY <1>1
  <1>7. TypeOK'
    <2>1. layers' \in [Layer -> [Pixel -> Colors]]
      BY <1>2, <1>3 DEF TypeOK
    <2>2. touched' \in [Layer -> BOOLEAN]
      BY <1>2, <1>3 DEF TypeOK
    <2>3. age' \in [Overlay -> 0 .. Timeout + 1]
      BY <1>2, <1>4, ConstantTypes DEF TypeOK
    <2> QED
      BY <1>2, <1>4, <1>5, <1>6, <2>1, <2>2, <2>3 DEF TypeOK
  <1>8. SendingRight'
    BY <1>6 DEF IInv, Types, SendingRight, MaxSendHeight
  <1>9. NetRight' /\ DatagramsFit'
    BY <1>1, <1>6 DEF IInv, Types, NetRight, DatagramsFit, Datagram
  <1>10. ClearedInTime'
    <2> SUFFICES ASSUME NEW l \in Overlay, touched'[l], age'[l] > Timeout
                 PROVE  due' \/ sweep' \in 1 .. l
      BY DEF ClearedInTime
    <2>1. l # z
      BY <1>4, ConstantTypes
    <2>2. touched'[l] = touched[l] /\ age'[l] = age[l]
      BY <1>2, <1>3, <1>4, <2>1 DEF TypeOK, Overlay
    <2> QED
      BY <1>5, <2>2 DEF IInv, ClearedInTime
  <1>11. UntouchedBlank'
    <2> SUFFICES ASSUME NEW l \in Overlay, ~touched'[l]
                 PROVE  layers'[l] = Blank
      BY DEF UntouchedBlank
    <2>1. l \in Layer
      BY DEF Overlay
    <2>2. ~touched[l] /\ (l = z => Hits(d) = {})
      BY <1>2, <1>3, <2>1 DEF TypeOK
    <2>3. layers'[l] = layers[l]
      BY <1>2, <1>3, <2>1, <2>2 DEF TypeOK
    <2> QED
      BY <2>2, <2>3 DEF IInv, UntouchedBlank
  <1>12. Rest' = Rest
    BY <1>6 DEF Rest
  <1>13. WantedRight'
    BY <1>1, <1>6, <1>12 DEF IInv, WantedRight, Covers
  <1>14. ShownOrToCome'
    <2> SUFFICES ASSUME NEW c \in Cell, c \notin passed'
                 PROVE  \/ layers'[c[1]][c[2]] = wanted[c].color
                        \/ c \in Rest
                        \/ \E e \in net' : c \in Covers(e) /\ e.frame = wanted[c].frame
      BY <1>6, <1>12 DEF ShownOrToCome, Covers
    <2>1. c[1] \in Layer /\ c[2] \in Pixel
      BY DEF Cell
    <2>2. CASE c \in Covers(d)
      <3>1. d.frame = wanted[c].frame
        BY <1>1, <2>2
      <3>2. wanted[c].color = d.rows[c[2] - d.top]
        BY <2>2, <3>1 DEF IInv, WantedRight
      <3>3. c[1] = z /\ c[2] - d.top \in DOMAIN d.rows
        BY <2>2 DEF Covers
      <3>4. Pasted(d)[c[2]] = d.rows[c[2] - d.top]
        BY <2>1, <3>3 DEF Pasted
      <3> QED
        BY <1>2, <1>3, <2>1, <3>2, <3>3, <3>4 DEF TypeOK
    <2>3. CASE c \notin Covers(d)
      <3>1. c \notin passed
        BY <1>1, <2>3
      <3>2. layers'[c[1]][c[2]] = layers[c[1]][c[2]]
        <4>1. c[1] # z \/ c[2] - d.top \notin DOMAIN d.rows
          BY <2>3 DEF Covers
        <4>2. c[1] = z => Pasted(d)[c[2]] = layers[z][c[2]]
          BY <2>1, <4>1 DEF Pasted
        <4> QED
          BY <1>2, <1>3, <2>1, <4>2 DEF TypeOK
      <3> QED
        BY <1>1, <2>3, <3>1, <3>2 DEF IInv, ShownOrToCome
    <2> QED
      BY <2>2, <2>3
  <1> QED
    BY <1>7, <1>8, <1>9, <1>10, <1>11, <1>13, <1>14 DEF IInv, Types

\* What holds of a sender and a network that do nothing.
LEMMA SenderStill ==
  ASSUME IInv, sender' = sender, wanted' = wanted
  PROVE  /\ SendingRight' /\ NetRight' /\ DatagramsFit' /\ WantedRight'
         /\ rows' = rows /\ tile' = tile /\ Rest' = Rest /\ net' = net
  <1>1. /\ maxUdp' = maxUdp /\ canvas' = canvas /\ place' = place /\ rows' = rows
        /\ tile' = tile /\ net' = net /\ frames' = frames
    BY DEF sender
  <1>2. Rest' = Rest
    BY <1>1 DEF Rest
  <1> QED
    BY <1>1, <1>2 DEF IInv, Types, SendingRight, MaxSendHeight, NetRight, Datagram, DatagramsFit,
                      WantedRight, Covers

\* What push_loop() does to what is shown.
LEMMA ExpireInv ==
  ASSUME IInv, Expire, sender' = sender, wanted' = wanted,
         passed' = passed \union {c \in Cell : touched[c[1]] /\ ~touched'[c[1]]}
  PROVE  IInv'
  <1>1. /\ sweep > 0
        /\ layers' = [layers EXCEPT ![sweep] = IF Expired(sweep) THEN Blank ELSE @]
        /\ touched' = [touched EXCEPT ![sweep] = @ /\ ~Expired(sweep)]
        /\ changed' = (changed \/ Expired(sweep))
        /\ sweep' = (sweep + 1) % NLayers
        /\ age' = age /\ push' = push /\ due' = due /\ frame' = frame /\ targets' = targets
        /\ hub' = hub /\ alive' = alive /\ ponging' = ponging /\ screen' = screen /\ owed' = owed
    BY DEF Expire, browsers
  <1>2. TypeOK /\ sweep \in Layer /\ sweep \in Overlay
    BY <1>1, ConstantTypes DEF IInv, Types, TypeOK, Overlay, Layer
  <1>3. Expired(sweep) \in BOOLEAN /\ (Expired(sweep) <=> touched[sweep] /\ age[sweep] > Timeout)
    BY <1>2 DEF TypeOK, Expired
  <1>4. TypeOK'
    <2>1. layers' \in [Layer -> [Pixel -> Colors]]
      BY <1>1, <1>2, ConstantTypes DEF TypeOK
    <2>2. touched' \in [Layer -> BOOLEAN] /\ changed' \in BOOLEAN
      BY <1>1, <1>2, <1>3 DEF TypeOK
    <2>3. sweep' \in Layer
      BY <1>1, <1>2, NextSweep
    <2> QED
      BY <1>1, <1>2, <2>1, <2>2, <2>3, SenderStill DEF TypeOK
  <1>5. ClearedInTime'
    <2> SUFFICES ASSUME NEW z \in Overlay, touched'[z], age'[z] > Timeout
                 PROVE  due' \/ sweep' \in 1 .. z
      BY DEF ClearedInTime
    <2>1. z # sweep /\ touched[z] /\ age[z] > Timeout
      BY <1>1, <1>2, <1>3 DEF TypeOK, Overlay
    <2>2. due \/ sweep \in 1 .. z
      BY <2>1 DEF IInv, ClearedInTime
    <2>3. CASE due
      BY <1>1, <2>3
    <2>4. CASE sweep \in 1 .. z
      <3>1. sweep + 1 \in 1 .. z /\ sweep + 1 < NLayers
        BY <2>1, <2>4, ConstantTypes DEF Overlay, Layer
      <3> QED
        BY <1>1, <1>2, <3>1, NextSweep
    <2> QED
      BY <2>2, <2>3, <2>4
  <1>6. UntouchedBlank'
    <2> SUFFICES ASSUME NEW l \in Overlay, ~touched'[l] PROVE layers'[l] = Blank
      BY DEF UntouchedBlank
    <2>1. l \in Layer
      BY DEF Overlay
    <2>2. touched[l] => l = sweep /\ Expired(sweep)
      BY <1>1, <1>2, <1>3, <2>1 DEF TypeOK
    <2>3. ~touched[l] => layers[l] = Blank
      BY DEF IInv, UntouchedBlank
    <2> QED
      BY <1>1, <1>2, <2>1, <2>2, <2>3 DEF TypeOK
  <1>7. ShownOrToCome'
    <2> SUFFICES ASSUME NEW c \in Cell, c \notin passed'
                 PROVE  \/ layers'[c[1]][c[2]] = wanted[c].color
                        \/ c \in Rest
                        \/ \E d \in net : c \in Covers(d) /\ d.frame = wanted[c].frame
      BY SenderStill DEF ShownOrToCome, Covers
    <2>1. c[1] \in Layer /\ c \notin passed /\ ~(touched[c[1]] /\ ~touched'[c[1]])
      BY DEF Cell
    <2>2. ~(c[1] = sweep /\ Expired(sweep))
      BY <1>1, <1>2, <1>3, <2>1 DEF TypeOK
    <2>3. layers'[c[1]] = layers[c[1]]
      BY <1>1, <1>2, <2>1, <2>2 DEF TypeOK
    <2> QED
      BY <2>1, <2>3 DEF IInv, ShownOrToCome
  <1> QED
    BY <1>4, <1>5, <1>6, <1>7, SenderStill DEF IInv, Types

\* What changes neither the layers nor their ages, and begins no round of
\* expiry but a whole one.
LEMMA LookingInv ==
  ASSUME IInv, TypeOK', sender' = sender, wanted' = wanted,
         layers' = layers, touched' = touched, age' = age,
         passed \subseteq passed',
         \/ due' = due /\ sweep' = sweep
         \/ sweep' = 1 % NLayers
  PROVE  IInv'
  <1>1. ClearedInTime'
    <2>1. ASSUME NEW z \in Overlay, sweep' = 1 % NLayers
          PROVE  sweep' \in 1 .. z
      BY <2>1, NextSweep, ConstantTypes DEF Overlay, Layer
    <2> QED
      BY <2>1 DEF IInv, ClearedInTime
  <1>2. UntouchedBlank'
    BY DEF IInv, UntouchedBlank
  <1>3. ShownOrToCome'
    BY SenderStill DEF IInv, ShownOrToCome, Covers
  <1> QED
    BY <1>1, <1>2, <1>3, SenderStill DEF IInv, Types

LEMMA SeenLayer ==
  ASSUME TypeOK, UntouchedBlank, NEW p \in Pixel
  PROVE  Seen(p) = LD!Top(layers, p)
  <1>1. LD!Layer = Layer
    BY DEF LD!Layer, Layer
  <1>2. \A l \in Layer : l # 0 => (Visible(l, p) <=> layers[l][p] # Black)
    BY DEF Visible, UntouchedBlank, Overlay, Blank
  <1>3. \A l \in Layer : (l = 0 \/ Visible(l, p)) <=> (l = 0 \/ layers[l][p] # Black)
    BY <1>2
  <1>4. \A l \in Layer : (\A k \in Layer : k > l => ~Visible(k, p))
                         <=> (\A k \in Layer : k > l => layers[k][p] = Black)
    BY <1>2 DEF Layer
  <1>5. Seen(p) = CHOOSE l \in Layer : /\ l = 0 \/ layers[l][p] # Black
                                       /\ \A k \in Layer : k > l => layers[k][p] = Black
    BY <1>3, <1>4 DEF Seen
  <1> QED
    BY <1>1, <1>5 DEF LD!Top, LD!IsTop

LEMMA SeenExists ==
  ASSUME NEW p \in Pixel
  PROVE  Seen(p) \in Layer
  <1> DEFINE Shows(l) == l = 0 \/ Visible(l, p)
             T == {NLayers - 1 - l : l \in {k \in Layer : Shows(k)}}
  <1>1. T \in SUBSET Nat /\ NLayers - 1 \in T
    BY ConstantTypes DEF Layer
  <1>2. PICK n \in T : \A m \in T : n <= m
    BY <1>1, HasLeast
  <1>3. PICK l \in Layer : Shows(l) /\ n = NLayers - 1 - l
    BY <1>2
  <1>4. ASSUME NEW k \in Layer, k > l
        PROVE  ~Visible(k, p)
    <2>1. ~(NLayers - 1 - l <= NLayers - 1 - k)
      BY <1>4, ConstantTypes DEF Layer
    <2> QED
      BY <1>2, <1>3, <2>1
  <1>5. \E k \in Layer : /\ k = 0 \/ Visible(k, p)
                         /\ \A j \in Layer : j > k => ~Visible(j, p)
    BY <1>3, <1>4
  <1> QED
    BY <1>5 DEF Seen

LEMMA CompositeRight ==
  ASSUME TypeOK, UntouchedBlank
  PROVE  Composite = LD!Flatten(layers) /\ Composite \in [Pixel -> Colors]
  <1>1. Composite = LD!Flatten(layers)
    BY SeenLayer DEF Composite, LD!Flatten
  <1>2. \A p \in Pixel : layers[Seen(p)][p] \in Colors
    BY SeenExists DEF TypeOK
  <1> QED
    BY <1>1, <1>2 DEF Composite

LEMMA PushInv == IInv /\ Push => IInv'
  <1> SUFFICES ASSUME IInv, Push PROVE IInv'
    OBVIOUS
  <1>1. /\ Pushing
        /\ passed' = passed \union {c \in Cell : touched[c[1]] /\ ~touched'[c[1]]}
        /\ sender' = sender /\ wanted' = wanted
    BY DEF Push
  <1>2. TypeOK /\ passed \subseteq passed'
    BY <1>1 DEF IInv, Types
  <1>3. CASE Expire
    BY <1>1, <1>3, ExpireInv
  <1>4. frame \in [Pixel -> Colors] /\ changed \in BOOLEAN /\ targets \subseteq Browsers
        /\ hub \subseteq Browsers
    BY <1>2 DEF TypeOK
  <1>5. ASSUME layers' = layers, touched' = touched, age' = age,
               (due' = due /\ sweep' = sweep) \/ (due' = FALSE /\ sweep' = 1 % NLayers),
               frame' \in [Pixel -> Colors], changed' \in BOOLEAN,
               push' \in {"sleep", "hub", "list", "broadcast"}, targets' \subseteq Browsers,
               browsers' = browsers
        PROVE  IInv'
    <2>1. hub' = hub /\ alive' = alive /\ ponging' = ponging /\ screen' = screen /\ owed' = owed
      BY <1>5 DEF browsers
    <2>2. sweep' \in Layer /\ due' \in BOOLEAN
      BY <1>2, <1>5, NextSweep DEF TypeOK
    <2>3. TypeOK'
      BY <1>1, <1>2, <1>5, <2>1, <2>2, SenderStill DEF TypeOK
    <2> QED
      BY <1>1, <1>2, <1>5, <2>3, LookingInv
  <1>6. CASE Wake
    <2>1. /\ layers' = layers /\ touched' = touched /\ age' = age /\ changed' = changed
          /\ frame' = frame /\ targets' = targets /\ browsers' = browsers /\ push' = "hub"
          /\ (due' = due /\ sweep' = sweep) \/ (due' = FALSE /\ sweep' = 1 % NLayers)
      BY <1>6 DEF Wake, display
    <2> QED
      BY <1>4, <1>5, <2>1
  <1>7. CASE NoBrowser \/ Pushed
    <2>1. /\ layers' = layers /\ touched' = touched /\ age' = age /\ changed' = changed
          /\ frame' = frame /\ targets' = targets /\ browsers' = browsers /\ push' = "sleep"
          /\ due' = due /\ sweep' = sweep
      BY <1>7 DEF NoBrowser, Pushed, display
    <2> QED
      BY <1>4, <1>5, <2>1
  <1>8. CASE Flatten
    <2>1. frame' \in [Pixel -> Colors]
      BY <1>2, <1>8, CompositeRight DEF Flatten, IInv
    <2>2. /\ layers' = layers /\ touched' = touched /\ age' = age /\ changed' = FALSE
          /\ targets' = targets /\ browsers' = browsers /\ push' \in {"list", "sleep"}
          /\ due' = due /\ sweep' = sweep
      BY <1>8 DEF Flatten
    <2> QED
      BY <1>4, <1>5, <2>1, <2>2
  <1>9. CASE List
    <2>1. /\ layers' = layers /\ touched' = touched /\ age' = age /\ changed' = changed
          /\ frame' = frame /\ targets' = hub /\ browsers' = browsers /\ push' = "broadcast"
          /\ due' = due /\ sweep' = sweep
      BY <1>9 DEF List, display
    <2> QED
      BY <1>4, <1>5, <2>1
  <1>10. ASSUME NEW b \in Browsers, PushTo(b)
         PROVE  IInv'
    <2>1. /\ layers' = layers /\ touched' = touched /\ age' = age /\ changed' = changed
          /\ push' = push /\ sweep' = sweep /\ due' = due /\ frame' = frame
          /\ targets' = targets \ {b}
      BY <1>10 DEF PushTo, display
    <2>2. /\ hub' \subseteq hub /\ ponging' = ponging /\ owed' \subseteq owed \union {b}
          /\ alive' \in [Browsers -> BOOLEAN]
          /\ screen' \in [Browsers -> {Nothing} \union [Pixel -> Colors]]
      BY <1>2, <1>10 DEF PushTo, TypeOK, browsers
    <2>3. TypeOK'
      BY <1>1, <1>2, <2>1, <2>2, SenderStill DEF TypeOK
    <2> QED
      BY <1>1, <1>2, <2>1, <2>3, LookingInv
  <1> QED
    BY <1>1, <1>3, <1>6, <1>7, <1>8, <1>9, <1>10 DEF Pushing

LEMMA BrowserInv == ASSUME NEW b \in Browsers, IInv, Browser(b) PROVE IInv'
  <1>1. /\ display' = display /\ push' = push /\ sweep' = sweep /\ due' = due /\ frame' = frame
        /\ sender' = sender /\ wanted' = wanted /\ passed' = passed
    BY DEF Browser, Join, Ping, Pong, Leave, Remove, pusher, history
  <1>2. layers' = layers /\ touched' = touched /\ age' = age /\ changed' = changed
    BY <1>1 DEF display
  <1>3. TypeOK
    BY DEF IInv, Types
  <1>4. /\ {targets', hub', ponging', owed'} \subseteq SUBSET Browsers
        /\ alive' \in [Browsers -> BOOLEAN]
        /\ screen' \in [Browsers -> {Nothing} \union [Pixel -> Colors]]
    <2>1. CASE Join(b)
      BY <1>3, <2>1 DEF Join, TypeOK
    <2>2. CASE Ping(b)
      BY <1>3, <2>2 DEF Ping, TypeOK, pusher
    <2>3. CASE Pong(b)
      BY <1>3, <2>3 DEF Pong, TypeOK, pusher
    <2>4. CASE Leave(b)
      BY <1>3, <2>4 DEF Leave, TypeOK, pusher
    <2>5. CASE Remove(b)
      BY <1>3, <2>5 DEF Remove, TypeOK, pusher
    <2> QED
      BY <2>1, <2>2, <2>3, <2>4, <2>5 DEF Browser
  <1>5. TypeOK'
    BY <1>1, <1>2, <1>3, <1>4, SenderStill DEF TypeOK
  <1> QED
    BY <1>1, <1>2, <1>5, LookingInv

LEMMA SecondInv == IInv /\ Second => IInv'
  <1> SUFFICES ASSUME IInv, Second PROVE IInv'
    OBVIOUS
  <1>1. /\ sender' = sender /\ wanted' = wanted /\ passed' = passed
        /\ layers' = layers /\ touched' = touched /\ changed' = changed
        /\ push' = push /\ sweep' = sweep /\ frame' = frame /\ targets' = targets
        /\ hub' = hub /\ alive' = alive /\ ponging' = ponging /\ screen' = screen /\ owed' = owed
        /\ due' = TRUE
        /\ age' = [l \in Overlay |-> IF age[l] > Timeout THEN age[l] ELSE age[l] + 1]
    BY DEF Second, Tick, browsers, history
  <1>2. age' \in [Overlay -> 0 .. Timeout + 1]
    BY <1>1, ConstantTypes DEF IInv, Types, TypeOK
  <1>3. TypeOK'
    BY <1>1, <1>2, SenderStill DEF IInv, Types, TypeOK
  <1>4. ClearedInTime'
    BY <1>1 DEF ClearedInTime
  <1>5. UntouchedBlank' /\ ShownOrToCome'
    BY <1>1, SenderStill DEF IInv, UntouchedBlank, ShownOrToCome, Covers
  <1> QED
    BY <1>1, <1>3, <1>4, <1>5, SenderStill DEF IInv, Types

LEMMA StutterInv == IInv /\ UNCHANGED all => IInv'
  <1> SUFFICES ASSUME IInv, UNCHANGED all PROVE IInv'
    OBVIOUS
  <1>1. /\ sender' = sender /\ display' = display /\ pusher' = pusher /\ browsers' = browsers
        /\ wanted' = wanted /\ passed' = passed
    BY DEF all, web, history
  <1>2. /\ layers' = layers /\ touched' = touched /\ age' = age /\ changed' = changed
        /\ push' = push /\ sweep' = sweep /\ due' = due /\ frame' = frame /\ targets' = targets
        /\ hub' = hub /\ alive' = alive /\ ponging' = ponging /\ screen' = screen /\ owed' = owed
    BY <1>1 DEF display, pusher, browsers
  <1>3. TypeOK'
    BY <1>1, <1>2, SenderStill DEF IInv, Types, TypeOK
  <1> QED
    BY <1>1, <1>2, <1>3, LookingInv

LEMMA Inductive == IInv /\ [PreviewNext]_all => IInv'
  BY SendInv, RowsInv, DeliverInv, PushInv, BrowserInv, SecondInv, StutterInv DEF PreviewNext

-----------------------------------------------------------------------------
(* Theorems.                                                               *)

\* Everything keeps to its type and the loop of Send() to its count, whatever
\* the sizes, the clients, the order of datagrams and the browsers.
THEOREM Invariance == PreviewSpec => []IInv
  BY InitInv, Inductive, PTL DEF PreviewSpec

THEOREM TypesHold == PreviewSpec => []TypeOK
  <1>1. IInv => TypeOK
    BY DEF IInv, Types
  <1> QED
    BY <1>1, Invariance, PTL

\* No datagram of any canvas is larger than was asked for, or empty.
THEOREM NoDatagramTooLarge == PreviewSpec => []DatagramsFit
  <1>1. IInv => DatagramsFit
    BY DEF IInv
  <1> QED
    BY <1>1, Invariance, PTL

\* A layer that is left alone is cleared in this round of push_loop() or the
\* next, for any number of layers and any timeout.
THEOREM LayersTimeOut == PreviewSpec => []ClearedInTime
  <1>1. IInv => ClearedInTime
    BY DEF IInv
  <1> QED
    BY <1>1, Invariance, PTL

\* Datagrams that are lost or overtaken cost their own rows only.
THEOREM OnlyLostBandsMissing == PreviewSpec => []BandCostsOnlyItsRows
  <1>1. ASSUME IInv PROVE BandCostsOnlyItsRows
    <2> SUFFICES ASSUME NEW c \in Cell \ passed, rows = 0,
                        \A d \in net : c \in Covers(d) => d.frame # wanted[c].frame
                 PROVE  layers[c[1]][c[2]] = wanted[c].color
      BY DEF BandCostsOnlyItsRows
    <2>1. c \notin Rest
      BY DEF Rest
    <2> QED
      BY <1>1, <2>1 DEF IInv, ShownOrToCome
  <1> QED
    BY <1>1, Invariance, PTL

\* As long as nothing has changed since composite(), its frame is what the
\* display shows, and who is not still to come in broadcast() has it.
ShowsRight ==
  ~changed =>
    /\ frame = Composite
    /\ \A b \in hub \ owed :
         /\ alive[b]
         /\ push \in {"sleep", "hub"} \/ (push = "broadcast" /\ b \notin targets)
         => screen[b] = frame

\* A datagram that changes nothing hits no row; one that does is a change.
LEMMA DeliverShows == IInv /\ ShowsRight /\ Deliver => ShowsRight'
  <1> SUFFICES ASSUME IInv, ShowsRight, Deliver, ~changed' PROVE ShowsRight'
    BY DEF ShowsRight
  <1>1. PICK d \in net : Apply(d)
    BY DEF Deliver
  <1>2. /\ push' = push /\ frame' = frame /\ targets' = targets
        /\ hub' = hub /\ alive' = alive /\ screen' = screen /\ owed' = owed
    BY <1>1 DEF Apply, pusher, browsers
  <1> DEFINE hits == {p \in Pixel : p - d.top \in DOMAIN d.rows}
             z == Clamp(d.z)
  <1>3. ~changed /\ hits = {}
    BY <1>1 DEF Apply
  <1>4. touched' = touched
    <2>1. touched' = [touched EXCEPT ![z] = @ \/ FALSE]
      BY <1>1, <1>3 DEF Apply
    <2> QED
      BY <2>1 DEF IInv, Types, TypeOK
  <1>5. layers' = layers
    <2>1. layers' = [layers EXCEPT ![z] = [p \in Pixel |-> @[p]]]
      BY <1>1, <1>3 DEF Apply
    <2> QED
      BY <2>1 DEF IInv, Types, TypeOK
  <1>6. Composite' = Composite
    BY <1>4, <1>5 DEF Composite, Seen, Visible
  <1> QED
    BY <1>2, <1>3, <1>6 DEF ShowsRight

LEMMA PushShows == IInv /\ ShowsRight /\ Push => ShowsRight'
  <1> SUFFICES ASSUME IInv, ShowsRight, Push, ~changed' PROVE ShowsRight'
    BY DEF ShowsRight
  <1>1. CASE Wake \/ NoBrowser \/ Pushed
    <2>1. /\ layers' = layers /\ touched' = touched /\ changed' = changed /\ frame' = frame
          /\ targets' = targets /\ hub' = hub /\ alive' = alive /\ screen' = screen
          /\ owed' = owed
      BY <1>1 DEF Wake, NoBrowser, Pushed, display, browsers
    <2>2. \A b \in hub : push' \in {"sleep", "hub"} \/ (push' = "broadcast" /\ b \notin targets) =>
            push \in {"sleep", "hub"} \/ (push = "broadcast" /\ b \notin targets)
      BY <1>1 DEF Wake, NoBrowser, Pushed
    <2>3. Composite' = Composite
      BY <2>1 DEF Composite, Seen, Visible
    <2> QED
      BY <2>1, <2>2, <2>3 DEF ShowsRight
  <1>2. CASE Expire
    <2>1. /\ push' = push /\ frame' = frame /\ targets' = targets
          /\ hub' = hub /\ alive' = alive /\ screen' = screen /\ owed' = owed
      BY <1>2 DEF Expire, browsers
    <2>2. ~changed /\ ~Expired(sweep)
      BY <1>2 DEF Expire
    <2>3. layers' = layers
      BY <1>2, <2>2 DEF Expire, IInv, Types, TypeOK
    <2>4. touched' = touched
      <3>1. touched' = [touched EXCEPT ![sweep] = @ /\ TRUE]
        BY <1>2, <2>2 DEF Expire
      <3> QED
        BY <3>1 DEF IInv, Types, TypeOK
    <2>5. Composite' = Composite
      BY <2>3, <2>4 DEF Composite, Seen, Visible
    <2> QED
      BY <2>1, <2>2, <2>5 DEF ShowsRight
  <1>3. CASE Flatten
    <2>1. /\ layers' = layers /\ touched' = touched /\ targets' = targets
          /\ hub' = hub /\ alive' = alive /\ screen' = screen /\ owed' = owed
          /\ frame' = Composite /\ push = "hub"
          /\ push' = IF changed THEN "list" ELSE "sleep"
      BY <1>3 DEF Flatten, browsers
    <2>2. Composite' = Composite
      BY <2>1 DEF Composite, Seen, Visible
    <2>3. CASE changed
      BY <2>1, <2>2, <2>3 DEF ShowsRight
    <2>4. CASE ~changed
      BY <2>1, <2>2, <2>4 DEF ShowsRight
    <2> QED
      BY <2>3, <2>4
  <1>4. CASE List
    <2>1. /\ layers' = layers /\ touched' = touched /\ changed' = changed /\ frame' = frame
          /\ hub' = hub /\ targets' = hub /\ push' = "broadcast"
      BY <1>4 DEF List, display, browsers
    <2>2. Composite' = Composite
      BY <2>1 DEF Composite, Seen, Visible
    <2> QED
      BY <2>1, <2>2 DEF ShowsRight
  <1>5. ASSUME NEW b \in Browsers, PushTo(b)
        PROVE  ShowsRight'
    <2>1. /\ layers' = layers /\ touched' = touched /\ changed' = changed /\ frame' = frame
          /\ push' = push /\ push = "broadcast" /\ targets' = targets \ {b}
      BY <1>5 DEF PushTo, display
    <2>2. Composite' = Composite
      BY <2>1 DEF Composite, Seen, Visible
    <2>3. \A c \in hub' \ owed' : c # b => c \in hub \ owed /\ alive'[c] = alive[c]
                                           /\ screen'[c] = screen[c]
      BY <1>5 DEF PushTo, browsers, IInv, Types, TypeOK
    <2>4. b \in hub' \ owed' /\ alive'[b] => screen'[b] = frame
      BY <1>5 DEF PushTo, browsers, IInv, Types, TypeOK
    <2> QED
      BY <2>1, <2>2, <2>3, <2>4 DEF ShowsRight
  <1> QED
    BY <1>1, <1>2, <1>3, <1>4, <1>5 DEF Push, Pushing

\* Who comes when nothing has changed is owed the frame, unless broadcast() is
\* still to take its list.
LEMMA BrowserShows ==
  ASSUME NEW b \in Browsers, IInv, ShowsRight, Browser(b)
  PROVE  ShowsRight'
  <1>1. /\ layers' = layers /\ touched' = touched /\ changed' = changed /\ frame' = frame
        /\ push' = push
    BY DEF Browser, Join, Ping, Pong, Leave, Remove, display, pusher
  <1>2. Composite' = Composite
    BY <1>1 DEF Composite, Seen, Visible
  <1>3. CASE Join(b)
    <2>1. \A c \in hub' \ owed' : c # b => /\ c \in hub \ owed /\ alive'[c] = alive[c]
                                           /\ screen'[c] = screen[c]
                                           /\ c \notin targets' => c \notin targets
      BY <1>3 DEF Join, IInv, Types, TypeOK
    <2>2. ~changed /\ push # "list" => b \in owed'
      BY <1>3 DEF Join
    <2> QED
      BY <1>1, <1>2, <2>1, <2>2 DEF ShowsRight
  <1>4. CASE Ping(b) \/ Pong(b) \/ Leave(b) \/ Remove(b)
    <2>1. /\ hub' \subseteq hub /\ owed' = owed /\ screen' = screen /\ targets' = targets
          /\ \A c \in Browsers : alive'[c] => alive[c]
      BY <1>4 DEF Ping, Pong, Leave, Remove, pusher, IInv, Types, TypeOK
    <2>2. hub \subseteq Browsers
      BY DEF IInv, Types, TypeOK
    <2> QED
      BY <1>1, <1>2, <2>1, <2>2 DEF ShowsRight
  <1> QED
    BY <1>3, <1>4 DEF Browser

LEMMA OthersShow ==
  ASSUME IInv, ShowsRight, SendFrame \/ SendRows \/ Second \/ UNCHANGED all
  PROVE  ShowsRight'
  <1>1. /\ layers' = layers /\ touched' = touched /\ changed' = changed /\ frame' = frame
        /\ push' = push /\ targets' = targets
        /\ hub' = hub /\ alive' = alive /\ screen' = screen /\ owed' = owed
    BY DEF SendFrame, SendRows, Second, Tick, all, web, display, pusher, browsers
  <1>2. Composite' = Composite
    BY <1>1 DEF Composite, Seen, Visible
  <1> QED
    BY <1>1, <1>2 DEF ShowsRight

\* push_loop() goes to sleep with every browser served: a change, a browser that
\* comes, goes or pings in the middle of a broadcast makes it miss nothing.
THEOREM NothingSleptOver == PreviewSpec => []ShownAtRest
  <1>1. PreviewInit => ShowsRight
    BY DEF PreviewInit, Init, ShowsRight
  <1>2. IInv /\ ShowsRight /\ [PreviewNext]_all => ShowsRight'
    BY DeliverShows, PushShows, BrowserShows, OthersShow DEF PreviewNext
  <1>3. IInv /\ ShowsRight => ShownAtRest
    <2> SUFFICES ASSUME IInv, ShowsRight, push = "sleep", ~changed,
                        NEW b \in hub \ owed, alive[b]
                 PROVE  screen[b] = LD!Flatten(layers)
      BY DEF ShownAtRest
    <2>1. Composite = LD!Flatten(layers)
      BY CompositeRight DEF IInv, Types
    <2> QED
      BY <2>1 DEF ShowsRight
  <1> QED
    BY <1>1, <1>2, <1>3, Invariance, PTL DEF PreviewSpec

LEMMA InitImplements == PreviewInit => LD!Init
  BY DEF PreviewInit, Init, LD!Init, LD!Blank, LD!Layer, Layer, Blank

LEMMA StepImplements == IInv /\ [PreviewNext]_all => [LD!Next]_<<layers, frame>>
  <1> SUFFICES ASSUME IInv, [PreviewNext]_all
               PROVE  LD!Next \/ UNCHANGED <<layers, frame>>
    OBVIOUS
  <1>1. TypeOK /\ LD!Layer = Layer
    BY DEF IInv, Types, LD!Layer, Layer
  <1>2. ASSUME NEW l \in Layer, NEW picture \in [Pixel -> Colors],
               layers' = [layers EXCEPT ![l] = picture], frame' = frame
        PROVE  LD!Next
    BY <1>1, <1>2 DEF LD!Next, LD!Draw
  <1>3. CASE Deliver
    <2>1. PICK d \in net : Apply(d)
      BY <1>3 DEF Deliver
    <2>2. Datagram(d)
      BY DEF IInv, Types, NetRight
    <2>3. frame' = frame
      BY <2>1 DEF Apply, pusher
    <2> QED
      BY <1>1, <1>2, <2>1, <2>2, <2>3, PastedRight
  <1>4. CASE Push /\ Expire
    <2>1. sweep \in Layer /\ frame' = frame
          /\ layers' = [layers EXCEPT ![sweep] = IF Expired(sweep) THEN Blank ELSE @]
      BY <1>1, <1>4 DEF Expire, TypeOK
    <2>2. CASE Expired(sweep)
      <3>1. layers' = [layers EXCEPT ![sweep] = Blank]
        BY <2>1, <2>2
      <3> QED
        BY <1>2, <2>1, <3>1, ConstantTypes
    <2>3. CASE ~Expired(sweep)
      BY <1>1, <2>1, <2>3 DEF TypeOK
    <2> QED
      BY <2>2, <2>3
  <1>5. CASE Push /\ Flatten
    <2>1. layers' = layers /\ frame' = LD!Flatten(layers)
      BY <1>1, <1>5, CompositeRight DEF Flatten, IInv
    <2> QED
      BY <2>1 DEF LD!Next, LD!Present
  <1>6. CASE Push /\ ~Expire /\ ~Flatten
    BY <1>6 DEF Push, Pushing, Wake, NoBrowser, List, Pushed, PushTo, display
  <1>7. CASE SendFrame \/ SendRows
    BY <1>7 DEF SendFrame, SendRows, web, display, pusher
  <1>8. ASSUME NEW b \in Browsers, Browser(b)
        PROVE  UNCHANGED <<layers, frame>>
    BY <1>8 DEF Browser, Join, Ping, Pong, Leave, Remove, display, pusher
  <1>9. CASE Second
    BY <1>9 DEF Second, Tick
  <1>10. CASE UNCHANGED all
    BY <1>10 DEF all, web, display, pusher
  <1> QED
    BY <1>3, <1>4, <1>5, <1>6, <1>7, <1>8, <1>9, <1>10 DEF PreviewNext

\* ft-web's display, worked in rectangles and with its touched flags, shows
\* what the layered display it stands in for would.
THEOREM WebImplementsLayeredDisplay == PreviewSpec => ImplementsLayeredDisplay
  <1>1. PreviewInit => LD!Init
    BY InitImplements
  <1>2. IInv /\ [PreviewNext]_all => [LD!Next]_<<layers, frame>>
    BY StepImplements
  <1> QED
    BY <1>1, <1>2, Invariance, PTL DEF PreviewSpec, ImplementsLayeredDisplay, LD!Spec

=============================================================================
