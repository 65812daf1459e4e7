----------------------------- MODULE FrameSender -----------------------------
(***************************************************************************)
(* UDPFlaschenTaschen, the client library: a canvas is sent as datagrams   *)
(* of as many rows as fit, each with its own place, over a network that    *)
(* loses and reorders them.  A pixel stands for a row.                     *)
(***************************************************************************)
EXTENDS Integers

CONSTANTS
  Width, Height,   \* of the canvas
  Pictures,        \* what a client draws: functions from row to colour
  Dark,            \* black
  Places,          \* what SetOffset() is called with: [y, z]
  SizeSettings,    \* [param, sndbuf, env]: what the size is taken from, 0 if not set
  SizeBits,        \* size_t has 64
  MaxFrames        \* bound: frames sent

Reserve     == 64
MaxDatagram == 65507
RowSize     == 3 * Width

ASSUME SenderAssumption ==
  /\ Width \in Nat \ {0} /\ Height \in Nat \ {0}
  /\ \A picture \in Pictures : DOMAIN picture = 0 .. Height - 1
  /\ Places \subseteq [y : Int, z : Int]
  /\ SizeSettings \subseteq [param : Nat, sndbuf : Nat, env : Nat]
  /\ SizeBits \in Nat /\ 2 ^ SizeBits > MaxDatagram
  /\ RowSize <= MaxDatagram - Reserve       \* Send() asserts that a row fits
  /\ MaxFrames \in Nat

VARIABLES
  maxUdp,          \* max_udp_size_
  canvas, place,   \* pixel_buffer_ and the offset
  rows, tile,      \* Send(): rows to go, and rows already sent
  net,             \* datagrams under way
  frames           \* how many frames have been sent, counted from 1

sender == <<maxUdp, canvas, place, rows, tile, net, frames>>

\* Mutant of Accepts: no room is left for the header.
AcceptsBareRow(size) == size <= MaxDatagram /\ size \div RowSize # 0

\* SetMaxUDPPacketSize(): the subtraction is one of size_t.
Accepts(size) ==
  /\ size <= MaxDatagram
  /\ ((size - Reserve) % (2 ^ SizeBits)) \div RowSize # 0

Accepted(size, kept) == IF Accepts(size) THEN size ELSE kept

\* The constructor: the parameter, or the socket's buffer; then the environment.
Constructed(s) ==
  LET detected == Accepted(IF s.sndbuf > 0 THEN s.sndbuf ELSE s.param, MaxDatagram) IN
    IF s.env > 0 THEN Accepted(s.env, detected) ELSE detected

\* A size below the reserve passes the test, and the height is then made of a
\* number that has wrapped around: those are left out.
MaxSendHeight == (maxUdp - Reserve) \div RowSize

Cleared == [r \in 0 .. Height - 1 |-> Dark]
Origin  == [y |-> 0, z |-> 0]

SenderInit ==
  /\ maxUdp \in {size \in {Constructed(s) : s \in SizeSettings} : size >= Reserve}
  /\ canvas = Cleared /\ place = Origin
  /\ rows = 0 /\ tile = 0
  /\ net = {} /\ frames = 0

\* A new picture is drawn, somewhere, and sent.
Send ==
  /\ rows = 0 /\ frames < MaxFrames
  /\ canvas' \in Pictures
  /\ place' \in Places
  /\ rows' = Height /\ tile' = 0
  /\ frames' = frames + 1
  /\ UNCHANGED <<maxUdp, net>>

SendH == IF rows < MaxSendHeight THEN rows ELSE MaxSendHeight

Chunk ==
  [frame |-> frames, top |-> place.y + tile, z |-> place.z,
   rows |-> [r \in 0 .. SendH - 1 |-> canvas[tile + r]]]

\* Mutant of Turn: the offset of the rows is left.
TurnInPlace ==
  IF SendH < rows
  THEN rows' = rows - SendH /\ UNCHANGED <<tile, canvas, place>>
  ELSE rows' = 0 /\ tile' = 0 /\ canvas' = Cleared /\ place' = Origin

\* The next turn, or Send() returns; canvas and place are set anew before the
\* next frame, and not kept here.
Turn ==
  IF SendH < rows
  THEN rows' = rows - SendH /\ tile' = tile + SendH /\ UNCHANGED <<canvas, place>>
  ELSE rows' = 0 /\ tile' = 0 /\ canvas' = Cleared /\ place' = Origin

\* Mutant of SendChunk: every datagram has the place of the first.
SendChunkInPlace ==
  /\ rows > 0 /\ Turn
  /\ net' = net \union {[Chunk EXCEPT !.top = place.y]}
  /\ UNCHANGED <<maxUdp, frames>>

\* One turn of Send()'s loop.  A writev() that fails is only reported: the
\* datagram is lost as if by the network.
SendChunk ==
  /\ rows > 0 /\ Turn
  /\ net' = net \union {Chunk}
  /\ UNCHANGED <<maxUdp, frames>>

=============================================================================
