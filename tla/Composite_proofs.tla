--------------------------- MODULE Composite_proofs ---------------------------
(***************************************************************************)
(* Proofs about Composite for any number of layers, any panel, any colours *)
(* and any timeout.                                                        *)
(***************************************************************************)
EXTENDS Composite, TLAPS

-----------------------------------------------------------------------------
(* The inductive invariant: ZBufferRight needs to know which layers are    *)
(* allocated (Allocated), AtRestWhenUnlocked where an unsent change can    *)
(* still be (Unsent), and the time properties how stamps, ticks and the    *)
(* collector's position go together (Stamped, Swept).                      *)

Allocated ==
  /\ screens[0] # NULL
  /\ screens[current] # NULL
  /\ lock # "udp" => current = 0
  /\ gcPc = "clear" =>
       /\ gcLayer \in Overlays
       /\ screens[gcLayer] # NULL
       /\ \A p \in Pixels \ gcTodo : screens[gcLayer][p] = Black

Unsent ==
  /\ ~visible => sent = out
  /\ lock = "free" => ~visible
  /\ (gcPc = "scan" /\ ~anyChange) => ~visible

Stamped ==
  /\ timed # {} => ticks > 0
  /\ ticks > 0 => now = ticks - 1
  /\ lock = "udp" => stamp[current] = now /\ idle[current] = 0
  /\ \A l \in timed :
       \/ stamp[l] = now - idle[l]
       \/ stamp[l] = Never /\ screens[l] \in {NULL, Blank}

Swept ==
  /\ \A l \in Overlays \intersect timed : stamp[l] > ticks - 1 - MaxAge
  /\ gcPc # "idle" => \A l \in Overlays : l < gcLayer => stamp[l] > Cutoff
  /\ gcPc = "clear" => stamp[gcLayer] <= Cutoff
  /\ gcPc # "idle" => ticks < MaxTicks

\* ZBufferRight, in the terms SetPixelAtLayer uses.
Seen ==
  \A p \in Pixels :
    /\ screens[zbuf[p]] # NULL
    /\ zbuf[p] = 0 \/ Opaque(screens, zbuf[p], p)
    /\ \A k \in Layer : k > zbuf[p] => ~Opaque(screens, k, p)
    /\ out[p] = screens[zbuf[p]][p]

IInv == TypeOK /\ Seen /\ Allocated /\ Unsent /\ Stamped /\ Swept

-----------------------------------------------------------------------------
(* Types.                                                                  *)

LEMMA ClampInRange == \A n \in Int : Clamp(n) \in Layer
  BY CompositeAssumption DEF Clamp, Layer

LEMMA ZeroIsLayer == 0 \in Layer /\ Overlays \subseteq Layer
  BY CompositeAssumption DEF Layer, Overlays

LEMMA SetPixelAtLayerType ==
  ASSUME TypeOK, NEW p \in Pixels, NEW layer \in Layer, NEW c \in Colors,
         screens[layer] # NULL, SetPixelAtLayer(p, layer, c), Allocated
  PROVE  /\ screens' \in [Layer -> [Pixels -> Colors] \union {NULL}]
         /\ zbuf' \in [Pixels -> Layer]
         /\ out' \in [Pixels -> Colors]
         /\ visible' \in BOOLEAN
         /\ \A l \in Layer : screens'[l] = NULL <=> screens[l] = NULL
         /\ \A l \in Layer : l # layer => screens'[l] = screens[l]
         /\ screens'[layer] = [screens[layer] EXCEPT ![p] = c]
  <1>1. screens[layer] \in [Pixels -> Colors]
    BY DEF TypeOK
  <1>2. /\ screens' = [screens EXCEPT ![layer] = [screens[layer] EXCEPT ![p] = c]]
        /\ [screens[layer] EXCEPT ![p] = c] \in [Pixels -> Colors]
    BY <1>1 DEF SetPixelAtLayer
  <1>3. /\ screens' \in [Layer -> [Pixels -> Colors] \union {NULL}]
        /\ \A l \in Layer : screens'[l] = NULL <=> screens[l] = NULL
        /\ \A l \in Layer : l # layer => screens'[l] = screens[l]
        /\ screens'[layer] = [screens[layer] EXCEPT ![p] = c]
    BY <1>2, CompositeAssumption DEF TypeOK
  <1>4. CASE layer < zbuf[p] /\ UNCHANGED <<zbuf, out, visible>>
    BY <1>3, <1>4 DEF TypeOK
  <1>5. CASE layer >= zbuf[p] /\ ~(layer < zbuf[p])
    <2>1. PICK l \in 0 .. layer :
            /\ Landing(screens', p, layer, l)
            /\ out' = [out EXCEPT ![p] = screens'[l][p]]
            /\ zbuf' = [zbuf EXCEPT ![p] = l]
      BY <1>5 DEF SetPixelAtLayer
    <2>2. l \in Layer
      BY <2>1, CompositeAssumption DEF Layer
    <2>3. screens'[l] # NULL
      BY <2>1, <1>3, <2>2, ZeroIsLayer DEF Landing, Opaque, Allocated
    <2>4. screens'[l][p] \in Colors
      BY <1>3, <2>2, <2>3
    <2> QED
      BY <1>3, <1>5, <2>1, <2>2, <2>4 DEF TypeOK, SetPixelAtLayer
  <1>6. zbuf[p] \in Int /\ layer \in Int
    BY DEF TypeOK, Layer
  <1> QED
    BY <1>4, <1>5, <1>6 DEF SetPixelAtLayer

-----------------------------------------------------------------------------
(* The z-buffer through one pixel write, in the three ways the code has.   *)

LEMMA SetPixelAtLayerSeen ==
  ASSUME TypeOK, Seen, Allocated, NEW p \in Pixels, NEW layer \in Layer, NEW c \in Colors,
         screens[layer] # NULL, SetPixelAtLayer(p, layer, c)
  PROVE  Seen'
  <1> USE DEF Opaque
  <1>1. /\ \A l \in Layer : screens'[l] = NULL <=> screens[l] = NULL
        /\ \A l \in Layer : l # layer => screens'[l] = screens[l]
        /\ screens'[layer] = [screens[layer] EXCEPT ![p] = c]
        /\ zbuf' \in [Pixels -> Layer]
    BY SetPixelAtLayerType
  <1>2. \A q \in Pixels : zbuf[q] \in Layer /\ zbuf[q] \in Int /\ layer \in Int
    BY DEF TypeOK, Layer
  <1>3. \A l \in Layer, q \in Pixels :
          q # p => Opaque(screens', l, q) = Opaque(screens, l, q)
    BY <1>1 DEF TypeOK
  <1>4. \A l \in Layer : l # layer => Opaque(screens', l, p) = Opaque(screens, l, p)
    BY <1>1
  <1>5. SUFFICES ASSUME NEW q \in Pixels
                 PROVE  /\ screens'[zbuf'[q]] # NULL
                        /\ zbuf'[q] = 0 \/ Opaque(screens', zbuf'[q], q)
                        /\ \A k \in Layer : k > zbuf'[q] => ~Opaque(screens', k, q)
                        /\ out'[q] = screens'[zbuf'[q]][q]
    BY DEF Seen
  <1>6. CASE q # p
    <2>1. zbuf'[q] = zbuf[q] /\ out'[q] = out[q]
      BY <1>6 DEF SetPixelAtLayer, TypeOK
    <2>2. screens'[zbuf[q]][q] = screens[zbuf[q]][q]
      BY <1>1, <1>2, <1>6 DEF TypeOK
    <2> QED
      BY <1>1, <1>2, <1>3, <1>6, <2>1, <2>2 DEF Seen
  <1>7. CASE q = p /\ layer < zbuf[p]
    <2>1. zbuf' = zbuf /\ out' = out
      BY <1>2, <1>7 DEF SetPixelAtLayer
    <2>2. zbuf[p] # layer
      BY <1>2, <1>7
    <2>3. \A k \in Layer : k > zbuf[p] => k # layer
      BY <1>2, <1>7 DEF Layer
    <2> QED
      BY <1>1, <1>2, <1>4, <1>7, <2>1, <2>2, <2>3 DEF Seen
  <1>8. CASE q = p /\ layer >= zbuf[p]
    <2>1. PICK l \in 0 .. layer :
            /\ Landing(screens', p, layer, l)
            /\ out' = [out EXCEPT ![p] = screens'[l][p]]
            /\ zbuf' = [zbuf EXCEPT ![p] = l]
      <3>1. ~(layer < zbuf[p])
        BY <1>2, <1>8
      <3> QED
        BY <3>1 DEF SetPixelAtLayer
    <2>2. l \in Layer
      BY <2>1, CompositeAssumption DEF Layer
    <2>3. zbuf'[p] = l /\ out'[p] = screens'[l][p]
      BY <2>1 DEF TypeOK
    <2>4. screens'[l] # NULL
      BY <2>1, <1>1, <2>2, ZeroIsLayer DEF Landing, Allocated
    <2>5. l = 0 \/ Opaque(screens', l, p)
      BY <2>1 DEF Landing
    <2>6. ASSUME NEW k \in Layer, k > l
          PROVE  ~Opaque(screens', k, p)
      <3>1. CASE k <= layer
        <4>1. k \in (l + 1) .. layer
          BY <2>1, <2>6, <3>1 DEF Layer
        <4> QED
          BY <2>1, <4>1 DEF Landing
      <3>2. CASE k > layer
        <4>1. k > zbuf[p] /\ k # layer
          BY <1>2, <1>8, <3>2 DEF Layer
        <4> QED
          BY <1>4, <4>1 DEF Seen
      <3> QED
        BY <1>2, <3>1, <3>2 DEF Layer
    <2> QED
      BY <1>8, <2>3, <2>4, <2>5, <2>6
  <1> QED
    BY <1>2, <1>6, <1>7, <1>8

\* ClearLayersOlderThan's short cut: where another layer is the one seen, the
\* pixel can be blackened without looking at the stack.
LEMMA BlackenUnseen ==
  ASSUME TypeOK, Seen, NEW p \in Pixels, NEW layer \in Layer, screens[layer] # NULL,
         zbuf[p] # layer, screens' = [screens EXCEPT ![layer][p] = Black],
         zbuf' = zbuf, out' = out
  PROVE  /\ Seen'
         /\ screens' \in [Layer -> [Pixels -> Colors] \union {NULL}]
         /\ \A l \in Layer : screens'[l] = NULL <=> screens[l] = NULL
         /\ \A l \in Layer : l # layer => screens'[l] = screens[l]
         /\ screens'[layer] = [screens[layer] EXCEPT ![p] = Black]
  <1>1. /\ screens' = [screens EXCEPT ![layer] = [screens[layer] EXCEPT ![p] = Black]]
        /\ [screens[layer] EXCEPT ![p] = Black] \in [Pixels -> Colors]
        /\ screens[layer] \in [Pixels -> Colors]
    BY CompositeAssumption DEF TypeOK
  <1>2. /\ screens' \in [Layer -> [Pixels -> Colors] \union {NULL}]
        /\ \A l \in Layer : screens'[l] = NULL <=> screens[l] = NULL
        /\ \A l \in Layer : l # layer => screens'[l] = screens[l]
        /\ screens'[layer] = [screens[layer] EXCEPT ![p] = Black]
    BY <1>1, CompositeAssumption DEF TypeOK
  <1>3. \A q \in Pixels : zbuf[q] \in Layer
    BY DEF TypeOK
  <1>4. \A l \in Layer, q \in Pixels : Opaque(screens', l, q) => Opaque(screens, l, q)
    BY <1>1, <1>2 DEF Opaque
  <1>5. \A q \in Pixels : screens'[zbuf[q]][q] = screens[zbuf[q]][q]
    BY <1>1, <1>2, <1>3
  <1>6. \A q \in Pixels : Opaque(screens, zbuf[q], q) => Opaque(screens', zbuf[q], q)
    BY <1>2, <1>3, <1>5 DEF Opaque
  <1>7. Seen'
    BY <1>2, <1>3, <1>4, <1>5, <1>6 DEF Seen
  <1> QED
    BY <1>2, <1>7

-----------------------------------------------------------------------------
(* Every action preserves the invariant.                                   *)

LEMMA InitInv == Init => IInv
  <1> SUFFICES ASSUME Init PROVE IInv
    OBVIOUS
  <1> USE CompositeAssumption, ZeroIsLayer DEF Init, Blank
  <1>1. TypeOK
    <2>1. /\ Blank \in [Pixels -> Colors]
          /\ screens \in [Layer -> [Pixels -> Colors] \union {NULL}]
      OBVIOUS
    <2>2. stamp \in [Layer -> Int] /\ now \in Int /\ ticks \in 0 .. MaxTicks
      OBVIOUS
    <2>3. gcLayer \in 1 .. NLayers /\ zbuf \in [Pixels -> Layer] /\ current \in Layer
      OBVIOUS
    <2>4. idle \in [Layer -> Nat]
      OBVIOUS
    <2> QED
      BY <2>1, <2>2, <2>3, <2>4 DEF TypeOK
  <1>2. Seen
    BY DEF Seen, Opaque, Layer
  <1>3. Allocated
    BY DEF Allocated
  <1>4. Unsent
    BY DEF Unsent
  <1>5. Stamped
    BY DEF Stamped
  <1>6. Swept
    BY DEF Swept
  <1> QED
    BY <1>1, <1>2, <1>3, <1>4, <1>5, <1>6 DEF IInv

\* SetLayer() allocates at most a blank buffer, which nobody sees through.
LEMMA SetLayerKeeps ==
  ASSUME IInv, NEW n \in Int, SetLayer(n), zbuf' = zbuf, out' = out, ticks' = ticks, now' = now
  PROVE  /\ screens' \in [Layer -> [Pixels -> Colors] \union {NULL}]
         /\ current' \in Layer /\ current' = Clamp(n)
         /\ stamp' \in [Layer -> Int]
         /\ idle' \in [Layer -> Nat]
         /\ timed' \in SUBSET Layer
         /\ Seen'
         /\ screens'[0] # NULL /\ screens'[current'] # NULL
         /\ stamp'[current'] = now /\ idle'[current'] = 0
         /\ timed' # {} => ticks > 0
         /\ \A l \in timed' :
              \/ stamp'[l] = now - idle'[l]
              \/ stamp'[l] = Never /\ screens'[l] \in {NULL, Blank}
         /\ \A l \in Overlays \intersect timed' : stamp'[l] > ticks - 1 - MaxAge
  <1> DEFINE l == Clamp(n)
  <1>1. l \in Layer
    BY ClampInRange
  <1>2. Blank \in [Pixels -> Colors] /\ Blank # NULL
    BY CompositeAssumption DEF Blank
  <1>3. /\ current' = l
        /\ stamp' = [stamp EXCEPT ![l] = now]
        /\ idle' = [idle EXCEPT ![l] = 0]
        /\ screens' = [screens EXCEPT ![l] = IF screens[l] = NULL THEN Blank ELSE screens[l]]
        /\ timed' = IF ticks = 0 THEN timed \ {l} ELSE timed \union {l}
    BY DEF SetLayer
  <1> HIDE DEF l
  <1>4. /\ screens' \in [Layer -> [Pixels -> Colors] \union {NULL}]
        /\ \A k \in Layer : k # l => screens'[k] = screens[k]
        /\ screens'[l] # NULL
        /\ screens[l] # NULL => screens'[l] = screens[l]
        /\ screens[l] = NULL => screens'[l] = Blank
    BY <1>1, <1>2, <1>3 DEF IInv, TypeOK
  <1>5. \A k \in Layer, q \in Pixels : Opaque(screens', k, q) = Opaque(screens, k, q)
    BY <1>4 DEF Opaque, Blank
  <1>6. \A k \in Layer : screens[k] # NULL => screens'[k] = screens[k]
    BY <1>4
  <1>7. Seen'
    BY <1>5, <1>6 DEF Seen, IInv, TypeOK
  <1>8. /\ stamp' \in [Layer -> Int]
        /\ idle' \in [Layer -> Nat]
        /\ timed' \in SUBSET Layer
        /\ stamp'[l] = now /\ idle'[l] = 0
        /\ \A k \in Layer : k # l => stamp'[k] = stamp[k] /\ idle'[k] = idle[k]
    BY <1>1, <1>3 DEF IInv, TypeOK
  <1>9. timed' # {} => ticks > 0
    BY <1>3 DEF IInv, TypeOK, Stamped
  <1>10. ASSUME NEW k \in timed'
         PROVE  \/ stamp'[k] = now - idle'[k]
                \/ stamp'[k] = Never /\ screens'[k] \in {NULL, Blank}
    <2>1. CASE k = l
      BY <1>8, <2>1 DEF IInv, TypeOK
    <2>2. CASE k # l
      <3>1. k \in timed /\ k \in Layer
        BY <1>3, <1>8, <2>2
      <3> QED
        BY <3>1, <2>2, <1>4, <1>8 DEF IInv, Stamped
    <2> QED
      BY <2>1, <2>2
  <1>11. ASSUME NEW k \in Overlays \intersect timed'
         PROVE  stamp'[k] > ticks - 1 - MaxAge
    <2>1. CASE k = l
      <3>1. ticks > 0 /\ now = ticks - 1 /\ ticks \in Int /\ MaxAge \in Nat \ {0}
        BY <1>9, CompositeAssumption DEF IInv, TypeOK, Stamped
      <3> QED
        BY <3>1, <2>1, <1>8
    <2>2. CASE k # l
      <3>1. k \in timed /\ k \in Layer
        BY <1>3, <1>8, <2>2
      <3> QED
        BY <3>1, <2>2, <1>8 DEF IInv, Swept
    <2> QED
      BY <2>1, <2>2
  <1>12. screens'[0] # NULL
    BY <1>6, ZeroIsLayer DEF IInv, Allocated
  <1> QED
    BY <1>1, <1>3, <1>4, <1>7, <1>8, <1>9, <1>10, <1>11, <1>12 DEF l

LEMMA SendKeeps ==
  ASSUME TypeOK, Unsent, Send
  PROVE  sent' \in [Pixels -> Colors] /\ visible' = FALSE /\ sent' = out
  BY DEF Send, TypeOK, Unsent

LEMMA UdpLockInv == IInv /\ UdpLock => IInv'
  <1> SUFFICES ASSUME IInv, UdpLock PROVE IInv'
    OBVIOUS
  <1>1. PICK n \in LayerArgs : SetLayer(n)
    BY DEF UdpLock
  <1>2. n \in Int
    BY CompositeAssumption
  <1>3. /\ zbuf' = zbuf /\ out' = out /\ visible' = visible /\ sent' = sent
        /\ now' = now /\ ticks' = ticks /\ gcVars' = gcVars
        /\ lock = "free" /\ lock' = "udp" /\ todo' \in Rects
    BY DEF UdpLock, clock
  <1>4. gcPc' = gcPc /\ gcLayer' = gcLayer /\ gcTodo' = gcTodo /\ anyChange' = anyChange
        /\ gcPc = "idle"
    BY <1>3 DEF gcVars, IInv, TypeOK
  <1>5. TypeOK'
    BY <1>1, <1>2, <1>3, <1>4, SetLayerKeeps, CompositeAssumption DEF IInv, TypeOK
  <1>6. Seen'
    BY <1>1, <1>2, <1>3, SetLayerKeeps
  <1>7. Allocated'
    BY <1>1, <1>2, <1>3, <1>4, SetLayerKeeps DEF Allocated
  <1>8. Unsent'
    BY <1>3, <1>4 DEF Unsent, IInv
  <1>9. Stamped'
    BY <1>1, <1>2, <1>3, SetLayerKeeps DEF Stamped, IInv
  <1>10. Swept'
    BY <1>1, <1>2, <1>3, <1>4, SetLayerKeeps DEF Swept, IInv
  <1> QED
    BY <1>5, <1>6, <1>7, <1>8, <1>9, <1>10 DEF IInv

LEMMA UdpDrawInv == IInv /\ UdpDraw => IInv'
  <1> SUFFICES ASSUME IInv, UdpDraw PROVE IInv'
    OBVIOUS
  <1>1. PICK pos \in todo, c \in Colors : SetPixel(pos, c) /\ todo' = todo \ {pos}
    BY DEF UdpDraw
  <1>2. /\ lock = "udp" /\ lock' = lock /\ sent' = sent /\ current' = current
        /\ stamp' = stamp /\ now' = now /\ ticks' = ticks
        /\ gcPc' = gcPc /\ gcLayer' = gcLayer /\ gcTodo' = gcTodo /\ anyChange' = anyChange
        /\ idle' = idle /\ timed' = timed
    BY DEF UdpDraw, clock, gcVars, history
  <1>3. gcPc = "idle"
    BY <1>2 DEF IInv, TypeOK
  <1>4. CASE pos \notin Pixels
    <2>1. UNCHANGED display
      BY <1>1, <1>4 DEF SetPixel
    <2>2. screens' = screens /\ zbuf' = zbuf /\ out' = out /\ visible' = visible
      BY <2>1 DEF display
    <2>3. TypeOK'
      BY <1>1, <1>2, <2>2 DEF IInv, TypeOK
    <2>4. Seen' /\ Allocated' /\ Unsent' /\ Stamped' /\ Swept'
      BY <1>2, <2>2 DEF IInv, Seen, Allocated, Unsent, Stamped, Swept, Cutoff
    <2> QED
      BY <2>3, <2>4 DEF IInv
  <1>5. CASE pos \in Pixels
    <2>1. SetPixelAtLayer(pos, current, c) /\ current \in Layer /\ screens[current] # NULL
      BY <1>1, <1>5 DEF SetPixel, IInv, TypeOK, Allocated
    <2>2. /\ screens' \in [Layer -> [Pixels -> Colors] \union {NULL}]
          /\ zbuf' \in [Pixels -> Layer]
          /\ out' \in [Pixels -> Colors]
          /\ visible' \in BOOLEAN
          /\ \A l \in Layer : screens'[l] = NULL <=> screens[l] = NULL
          /\ \A l \in Layer : l # current => screens'[l] = screens[l]
      BY <1>5, <2>1, SetPixelAtLayerType DEF IInv
    <2>3. Seen'
      BY <1>5, <2>1, SetPixelAtLayerSeen DEF IInv
    <2>4. TypeOK'
      BY <1>1, <1>2, <2>2 DEF IInv, TypeOK
    <2>5. Allocated'
      BY <1>2, <1>3, <2>1, <2>2, ZeroIsLayer DEF IInv, Allocated
    <2>6. Unsent'
      <3>1. visible' = TRUE \/ (visible' = visible /\ out' = out)
        BY <2>1 DEF SetPixelAtLayer
      <3> QED
        BY <1>2, <1>3, <3>1 DEF IInv, Unsent
    <2>7. Stamped'
      <3>1. ASSUME NEW l \in timed
            PROVE  \/ stamp[l] = now - idle[l]
                   \/ stamp[l] = Never /\ screens'[l] \in {NULL, Blank}
        <4>1. CASE l = current
          BY <4>1, <1>2 DEF IInv, Stamped, TypeOK
        <4>2. CASE l # current
          BY <4>2, <2>2 DEF IInv, Stamped, TypeOK
        <4> QED
          BY <4>1, <4>2
      <3> QED
        BY <3>1, <1>2 DEF IInv, Stamped
    <2>8. Swept'
      BY <1>2 DEF IInv, Swept, Cutoff
    <2> QED
      BY <2>3, <2>4, <2>5, <2>6, <2>7, <2>8 DEF IInv
  <1> QED
    BY <1>4, <1>5

LEMMA UdpFinishInv == IInv /\ UdpFinish => IInv'
  <1> SUFFICES ASSUME IInv, UdpFinish PROVE IInv'
    OBVIOUS
  <1>1. /\ SetLayer(0) /\ Send /\ lock = "udp" /\ lock' = "free"
        /\ zbuf' = zbuf /\ out' = out /\ now' = now /\ ticks' = ticks /\ todo' = todo
        /\ gcPc' = gcPc /\ gcLayer' = gcLayer /\ gcTodo' = gcTodo /\ anyChange' = anyChange
        /\ gcPc = "idle"
    BY DEF UdpFinish, clock, gcVars, IInv, TypeOK
  <1>2. Clamp(0) = 0
    BY CompositeAssumption DEF Clamp
  <1>3. visible' = FALSE /\ sent' \in [Pixels -> Colors] /\ sent' = out
    BY <1>1, SendKeeps DEF IInv
  <1>4. TypeOK'
    <2>1. /\ screens' \in [Layer -> [Pixels -> Colors] \union {NULL}]
          /\ current' \in Layer
          /\ stamp' \in [Layer -> Int]
          /\ idle' \in [Layer -> Nat]
          /\ timed' \in SUBSET Layer
      BY <1>1, SetLayerKeeps
    <2> QED
      BY <1>1, <1>3, <2>1 DEF IInv, TypeOK
  <1>5. Seen'
    BY <1>1, SetLayerKeeps
  <1>6. Allocated'
    BY <1>1, <1>2, SetLayerKeeps DEF Allocated
  <1>7. Unsent'
    BY <1>1, <1>3 DEF Unsent
  <1>8. Stamped'
    BY <1>1, SetLayerKeeps DEF Stamped, IInv
  <1>9. Swept'
    BY <1>1, SetLayerKeeps DEF Swept, IInv
  <1> QED
    BY <1>4, <1>5, <1>6, <1>7, <1>8, <1>9 DEF IInv

-----------------------------------------------------------------------------
(* The collector's actions.                                                *)

LEMMA GcWakeInv == IInv /\ GcWake => IInv'
  <1> SUFFICES ASSUME IInv, GcWake PROVE IInv'
    OBVIOUS
  <1> USE CompositeAssumption DEF IInv, GcWake, display, clock, history
  <1>1. TypeOK'
    <2>1. 1 \in 1 .. NLayers /\ lock' = "gc" /\ gcPc' = "scan"
      OBVIOUS
    <2>2. /\ UNCHANGED <<screens, zbuf, out, visible, sent, current, stamp, now, ticks, todo,
                        gcTodo, idle, timed>>
          /\ gcLayer' = 1 /\ anyChange' = FALSE
      OBVIOUS
    <2> HIDE DEF GcWake
    <2> QED
      BY <2>1, <2>2 DEF TypeOK
  <1>2. Seen' /\ Allocated'
    BY DEF Seen, Allocated
  <1>3. Unsent' /\ Stamped'
    BY DEF Unsent, Stamped, TypeOK
  <1>4. Swept'
    BY DEF Swept, Cutoff, Overlays, TypeOK
  <1> QED
    BY <1>1, <1>2, <1>3, <1>4

LEMMA GcSkipRecentInv == IInv /\ GcSkipRecent => IInv'
  <1> SUFFICES ASSUME IInv, GcSkipRecent PROVE IInv'
    OBVIOUS
  <1> USE DEF IInv, GcSkipRecent, display, clock, history
  <1>1. gcLayer \in Overlays /\ gcLayer' = gcLayer + 1 /\ gcLayer' \in 1 .. NLayers
    BY CompositeAssumption DEF Overlays
  <1>2. TypeOK'
    BY <1>1 DEF TypeOK
  <1>3. Seen' /\ Allocated'
    BY DEF Seen, Allocated
  <1>4. Unsent' /\ Stamped'
    BY DEF Unsent, Stamped
  <1>5. Swept'
    <2>1. Cutoff' = Cutoff /\ stamp' = stamp /\ gcPc' = gcPc /\ gcPc = "scan" /\ timed' = timed
          /\ ticks' = ticks
      BY DEF Cutoff
    <2>2. \A l \in Overlays : l < gcLayer + 1 => l < gcLayer \/ l = gcLayer
      BY <1>1 DEF Overlays
    <2> QED
      BY <1>1, <2>1, <2>2 DEF Swept
  <1> QED
    BY <1>2, <1>3, <1>4, <1>5

\* Marking a layer as having nothing to collect, once it is unallocated or blank.
LEMMA RestampInv ==
  ASSUME IInv, gcLayer \in Overlays, gcPc # "idle", gcPc' = "scan", gcLayer' = gcLayer + 1,
         stamp' = [stamp EXCEPT ![gcLayer] = Never], screens[gcLayer] \in {NULL, Blank},
         UNCHANGED <<lock, display, sent, current, clock, todo, gcTodo, history>>,
         anyChange' \in BOOLEAN, anyChange' = FALSE => ~visible
  PROVE  IInv'
  <1> USE DEF IInv, display, clock, history
  <1>1. gcLayer' \in 1 .. NLayers /\ gcLayer \in Layer /\ gcLayer \in Int
    BY CompositeAssumption DEF Overlays, Layer
  <1>2. /\ stamp' \in [Layer -> Int] /\ stamp'[gcLayer] = Never
        /\ \A l \in Layer : l # gcLayer => stamp'[l] = stamp[l]
    BY <1>1, CompositeAssumption DEF TypeOK
  <1>3. lock = "gc"
    BY DEF TypeOK
  <1>4. TypeOK'
    BY <1>1, <1>2, <1>3 DEF TypeOK
  <1>5. Seen' /\ Allocated'
    BY DEF Seen, Allocated
  <1>6. Unsent'
    BY <1>3 DEF Unsent
  <1>7. Stamped'
    <2>1. ASSUME NEW l \in timed
          PROVE  \/ stamp'[l] = now - idle[l]
                 \/ stamp'[l] = Never /\ screens[l] \in {NULL, Blank}
      BY <1>2 DEF Stamped, TypeOK
    <2> QED
      BY <1>3, <2>1 DEF Stamped
  <1>8. Swept'
    <2>1. /\ Cutoff' = Cutoff /\ ticks' = ticks /\ timed' = timed
          /\ Cutoff \in Int /\ ticks \in Int /\ MaxAge \in Nat \ {0}
          /\ Never > Cutoff /\ Never > ticks - 1 - MaxAge
      BY CompositeAssumption DEF Cutoff, TypeOK
    <2>2. \A l \in Overlays : l \in Layer /\ (l < gcLayer + 1 => l < gcLayer \/ l = gcLayer)
      BY <1>1, ZeroIsLayer DEF Overlays
    <2> QED
      BY <1>2, <2>1, <2>2 DEF Swept
  <1> QED
    BY <1>4, <1>5, <1>6, <1>7, <1>8

LEMMA GcStartClearInv == IInv /\ GcStartClear => IInv'
  <1> SUFFICES ASSUME IInv, GcStartClear PROVE IInv'
    OBVIOUS
  <1> USE DEF IInv, GcStartClear, display, clock, history
  <1>1. TypeOK'
    BY DEF TypeOK
  <1>2. Seen' /\ Allocated'
    BY DEF Seen, Allocated, TypeOK
  <1>3. Unsent' /\ Stamped'
    BY DEF Unsent, Stamped
  <1>4. Swept'
    BY DEF Swept, Cutoff
  <1> QED
    BY <1>1, <1>2, <1>3, <1>4

LEMMA GcClearPixelInv == IInv /\ GcClearPixel => IInv'
  <1> SUFFICES ASSUME IInv, GcClearPixel PROVE IInv'
    OBVIOUS
  <1>1. PICK p \in gcTodo :
          /\ gcTodo' = gcTodo \ {p}
          /\ \/ /\ zbuf[p] = gcLayer
                /\ SetPixelAtLayer(p, gcLayer, Black)
             \/ /\ zbuf[p] # gcLayer
                /\ screens' = [screens EXCEPT ![gcLayer][p] = Black]
                /\ UNCHANGED <<zbuf, out, visible>>
    BY DEF GcClearPixel
  <1>2. /\ gcPc = "clear" /\ lock' = lock /\ sent' = sent /\ current' = current
        /\ stamp' = stamp /\ now' = now /\ ticks' = ticks /\ todo' = todo
        /\ gcPc' = gcPc /\ gcLayer' = gcLayer /\ anyChange' = anyChange
        /\ idle' = idle /\ timed' = timed
    BY DEF GcClearPixel, clock, history
  <1>3. /\ p \in Pixels /\ gcLayer \in Overlays /\ gcLayer \in Layer /\ Black \in Colors
        /\ screens[gcLayer] # NULL /\ lock = "gc"
    BY <1>2, ZeroIsLayer, CompositeAssumption DEF IInv, TypeOK, Allocated
  <1>4. /\ Seen'
        /\ screens' \in [Layer -> [Pixels -> Colors] \union {NULL}]
        /\ \A l \in Layer : screens'[l] = NULL <=> screens[l] = NULL
        /\ \A l \in Layer : l # gcLayer => screens'[l] = screens[l]
        /\ screens'[gcLayer] = [screens[gcLayer] EXCEPT ![p] = Black]
        /\ zbuf' \in [Pixels -> Layer] /\ out' \in [Pixels -> Colors] /\ visible' \in BOOLEAN
        /\ visible' = TRUE \/ (visible' = visible /\ out' = out)
    <2>1. CASE zbuf[p] = gcLayer /\ SetPixelAtLayer(p, gcLayer, Black)
      <3>1. visible' = TRUE \/ (visible' = visible /\ out' = out)
        BY <2>1 DEF SetPixelAtLayer
      <3> QED
        BY <1>3, <2>1, <3>1, SetPixelAtLayerType, SetPixelAtLayerSeen DEF IInv
    <2>2. CASE /\ zbuf[p] # gcLayer
               /\ screens' = [screens EXCEPT ![gcLayer][p] = Black]
               /\ UNCHANGED <<zbuf, out, visible>>
      BY <1>3, <2>2, BlackenUnseen DEF IInv, TypeOK
    <2> QED
      BY <1>1, <2>1, <2>2
  <1>5. TypeOK'
    BY <1>1, <1>2, <1>4 DEF IInv, TypeOK
  <1>6. Allocated'
    <2>1. screens[gcLayer] \in [Pixels -> Colors]
      BY <1>3 DEF IInv, TypeOK
    <2>2. \A q \in Pixels \ gcTodo' : screens'[gcLayer][q] = Black
      BY <1>1, <1>2, <1>4, <2>1 DEF IInv, Allocated
    <2> QED
      BY <1>2, <1>3, <1>4, <2>2, ZeroIsLayer DEF IInv, Allocated, TypeOK
  <1>7. Unsent'
    BY <1>2, <1>3, <1>4 DEF IInv, Unsent
  <1>8. Stamped'
    <2>1. stamp[gcLayer] # Never
      BY <1>2, CompositeAssumption DEF IInv, Swept, Cutoff, TypeOK
    <2> QED
      BY <1>2, <1>3, <1>4, <2>1 DEF IInv, Stamped, TypeOK
  <1>9. Swept'
    BY <1>2 DEF IInv, Swept, Cutoff
  <1> QED
    BY <1>4, <1>5, <1>6, <1>7, <1>8, <1>9 DEF IInv

LEMMA GcLayerDoneInv == IInv /\ GcLayerDone => IInv'
  <1> SUFFICES ASSUME IInv, GcLayerDone PROVE IInv'
    OBVIOUS
  <1> USE DEF GcLayerDone
  <1>1. gcLayer \in Overlays /\ gcLayer \in Layer /\ screens[gcLayer] \in [Pixels -> Colors]
    BY ZeroIsLayer DEF IInv, Allocated, TypeOK
  <1>2. screens[gcLayer] = Blank
    BY <1>1 DEF IInv, Allocated, Blank
  <1> QED
    BY <1>1, <1>2, RestampInv

LEMMA GcFinishInv == IInv /\ GcFinish => IInv'
  <1> SUFFICES ASSUME IInv, GcFinish PROVE IInv'
    OBVIOUS
  <1>1. /\ gcPc = "scan" /\ gcPc' = "idle" /\ lock' = "free" /\ now' = ticks
        /\ ticks' = ticks + 1 /\ idle' = [l \in Layer |-> idle[l] + 1]
        /\ screens' = screens /\ zbuf' = zbuf /\ out' = out /\ current' = current
        /\ stamp' = stamp /\ todo' = todo /\ gcLayer' = gcLayer /\ gcTodo' = gcTodo
        /\ anyChange' = anyChange /\ timed' = timed /\ gcLayer \notin Overlays
    BY DEF GcFinish
  <1>2. visible' = FALSE /\ sent' \in [Pixels -> Colors] /\ sent' = out
    <2>1. CASE anyChange /\ Send
      BY <2>1, SendKeeps DEF IInv
    <2>2. CASE ~anyChange /\ UNCHANGED <<sent, visible>>
      BY <1>1, <2>2 DEF IInv, Unsent, TypeOK
    <2> QED
      BY <2>1, <2>2 DEF GcFinish
  <1>3. ticks' \in 0 .. MaxTicks /\ ticks \in 0 .. MaxTicks
    BY <1>1, CompositeAssumption DEF IInv, TypeOK, Swept
  <1>4. TypeOK'
    <2>1. idle' \in [Layer -> Nat] /\ now' \in Int
      BY <1>1, <1>3, CompositeAssumption DEF IInv, TypeOK
    <2> QED
      BY <1>1, <1>2, <1>3, <2>1 DEF IInv, TypeOK
  <1>5. Seen' /\ Allocated'
    BY <1>1 DEF IInv, Seen, Allocated, TypeOK
  <1>6. Unsent'
    BY <1>1, <1>2 DEF Unsent
  <1>7. Stamped'
    <2>1. ASSUME NEW l \in timed
          PROVE  \/ stamp[l] = ticks - idle'[l]
                 \/ stamp[l] = Never /\ screens[l] \in {NULL, Blank}
      <3>1. l \in Layer /\ idle[l] \in Int /\ idle'[l] = idle[l] + 1 /\ now = ticks - 1
            /\ ticks \in Int
        BY <1>1, <1>3, CompositeAssumption DEF IInv, TypeOK, Stamped
      <3>2. CASE stamp[l] = now - idle[l]
        BY <3>1, <3>2
      <3> QED
        BY <3>2 DEF IInv, Stamped
    <2>2. ticks' > 0 /\ now' = ticks' - 1
      BY <1>1, <1>3, CompositeAssumption
    <2> QED
      BY <1>1, <2>1, <2>2 DEF Stamped
  <1>8. Swept'
    <2>1. \A l \in Overlays : l < gcLayer
      <3>1. gcLayer \in 1 .. NLayers /\ gcLayer \notin 1 .. NLayers - 1 /\ NLayers \in Int
        BY <1>1, CompositeAssumption DEF IInv, TypeOK, Overlays
      <3> QED
        BY <3>1 DEF Overlays
    <2>2. \A l \in Overlays : stamp[l] > ticks - MaxAge
      BY <1>1, <2>1 DEF IInv, Swept, Cutoff
    <2>3. ticks' - 1 - MaxAge = ticks - MaxAge
      BY <1>1, <1>3, CompositeAssumption
    <2> QED
      BY <1>1, <2>2, <2>3 DEF Swept
  <1> QED
    BY <1>4, <1>5, <1>6, <1>7, <1>8 DEF IInv

-----------------------------------------------------------------------------
(* Theorems.                                                               *)

LEMMA StutterInv == IInv /\ UNCHANGED vars => IInv'
  BY DEF IInv, TypeOK, Seen, Allocated, Unsent, Stamped, Swept, Cutoff, vars, display,
         clock, gcVars, history

THEOREM Invariance == Spec => []IInv
  <1>1. IInv /\ [Next]_vars => IInv'
    BY UdpLockInv, UdpDrawInv, UdpFinishInv, GcWakeInv, GcSkipRecentInv,
       GcStartClearInv, GcClearPixelInv, GcLayerDoneInv,
       GcFinishInv, StutterInv DEF Next, Udp, Gc
  <1> QED
    BY InitInv, <1>1, PTL DEF Spec

\* Every variable keeps its type, for any layers, panel, colours and timeout.
THEOREM TypeCorrect == Spec => []TypeOK
  <1>1. IInv => TypeOK
    BY DEF IInv
  <1> QED
    BY Invariance, <1>1, PTL

LEMMA ContentsOpaque ==
  ASSUME TypeOK
  PROVE  /\ Contents \in [Layer -> [Pixels -> Colors]]
         /\ \A l \in Layer, p \in Pixels :
              (Contents[l][p] # Black) = Opaque(screens, l, p)
         /\ \A l \in Layer : screens[l] # NULL => Contents[l] = screens[l]
  BY CompositeAssumption DEF TypeOK, Contents, Blank, Opaque

LEMMA SeenIsTop ==
  ASSUME TypeOK, Seen
  PROVE  ZBufferRight
  <1> SUFFICES ASSUME NEW p \in Pixels
               PROVE  LD!IsTop(Contents, p, zbuf[p])
    BY DEF ZBufferRight, Seen
  <1>1. zbuf[p] \in Layer
    BY DEF TypeOK
  <1>2. LD!Layer = Layer
    BY DEF LD!Layer, Layer
  <1>3. \A l \in Layer : (Contents[l][p] # Black) <=> Opaque(screens, l, p)
    BY ContentsOpaque
  <1>4. /\ zbuf[p] = 0 \/ Opaque(screens, zbuf[p], p)
        /\ \A k \in Layer : k > zbuf[p] => ~Opaque(screens, k, p)
    BY DEF Seen
  <1>5. zbuf[p] = 0 \/ Contents[zbuf[p]][p] # Black
    BY <1>1, <1>3, <1>4
  <1>6. ASSUME NEW k \in Layer, k > zbuf[p]
        PROVE  Contents[k][p] = Black
    BY <1>3, <1>4, <1>6
  <1> QED
    BY <1>2, <1>5, <1>6 DEF LD!IsTop

\* A pixel shows one layer: the top of a stack is unique, so Flatten is what
\* the z-buffer says.
LEMMA OutIsFlat ==
  ASSUME TypeOK, Seen
  PROVE  out = LD!Flatten(Contents)
  <1>1. LD!Layer = Layer
    BY DEF LD!Layer, Layer
  <1>2. ASSUME NEW p \in Pixels
        PROVE  out[p] = Contents[LD!Top(Contents, p)][p]
    <2>1. zbuf[p] \in Layer /\ LD!IsTop(Contents, p, zbuf[p])
      BY SeenIsTop DEF ZBufferRight, TypeOK
    <2>2. /\ LD!Top(Contents, p) \in Layer
          /\ LD!IsTop(Contents, p, LD!Top(Contents, p))
      BY <1>1, <2>1 DEF LD!Top
    <2>3. LD!Top(Contents, p) = zbuf[p]
      <3> DEFINE t == LD!Top(Contents, p)
      <3>1. t \in Int /\ zbuf[p] \in Int /\ t >= 0 /\ zbuf[p] >= 0
        BY <2>1, <2>2 DEF Layer
      <3> HIDE DEF t
      <3>2. ~(t > zbuf[p])
        BY <1>1, <2>1, <2>2, <3>1 DEF LD!IsTop, t
      <3>3. ~(zbuf[p] > t)
        BY <1>1, <2>1, <2>2, <3>1 DEF LD!IsTop, t
      <3> QED
        BY <3>1, <3>2, <3>3 DEF t
    <2>4. out[p] = screens[zbuf[p]][p] /\ screens[zbuf[p]] # NULL
      BY DEF Seen
    <2>5. Contents[zbuf[p]] = screens[zbuf[p]]
      BY <2>1, <2>4, ContentsOpaque
    <2> QED
      BY <2>3, <2>4, <2>5
  <1>3. out = [p \in Pixels |-> out[p]]
    BY DEF TypeOK
  <1> QED
    BY <1>2, <1>3 DEF LD!Flatten

\* The z-buffer is right after every pixel, whatever is drawn or collected.
THEOREM ZBufferCorrect == Spec => []ZBufferRight
  <1>1. IInv => ZBufferRight
    BY SeenIsTop DEF IInv
  <1> QED
    BY Invariance, <1>1, PTL

\* Whenever the mutex is free the panel shows all that was drawn.
THEOREM AtRest == Spec => []AtRestWhenUnlocked
  <1>1. IInv => AtRestWhenUnlocked
    BY OutIsFlat DEF IInv, AtRestWhenUnlocked, Unsent, Allocated
  <1> QED
    BY Invariance, <1>1, PTL

\* Overlays stamped on a running clock disappear within MaxAge ticks.
THEOREM Collected == Spec => []ClearedOnTime
  <1>1. IInv => ClearedOnTime
    <2> SUFFICES ASSUME IInv, NEW l \in Overlays, l \in timed, idle[l] >= MaxAge,
                        screens[l] \notin {NULL, Blank}
                 PROVE  FALSE
      BY DEF ClearedOnTime
    <2>1. stamp[l] = now - idle[l] /\ stamp[l] > ticks - 1 - MaxAge /\ now = ticks - 1
      BY DEF IInv, Stamped, Swept
    <2>2. ticks \in Int /\ idle[l] \in Int /\ MaxAge \in Int
      BY CompositeAssumption, ZeroIsLayer DEF IInv, TypeOK
    <2> QED
      BY <2>1, <2>2
  <1> QED
    BY Invariance, <1>1, PTL

\* ... and not before MaxAge - 1 of them have passed.
THEOREM NotCollectedEarly == Spec => NotClearedEarly
  <1> DEFINE Kept == \A l \in Overlays :
                       (lock = "gc" /\ l \in timed /\ idle[l] < MaxAge - 1) =>
                         screens'[l] = screens[l]
  <1>1. IInv /\ [Next]_vars => [Kept]_vars
    <2> SUFFICES ASSUME IInv, Next, NEW l \in Overlays, lock = "gc", l \in timed,
                        idle[l] < MaxAge - 1
                 PROVE  screens'[l] = screens[l]
      OBVIOUS
    <2>1. CASE GcClearPixel
      <3>1. gcPc = "clear" /\ gcLayer \in Layer /\ l \in Layer /\ stamp[gcLayer] <= Cutoff
        BY <2>1, ZeroIsLayer DEF GcClearPixel, IInv, Allocated, Swept
      <3>2. gcLayer # l
        <4> SUFFICES ASSUME gcLayer = l PROVE FALSE
          OBVIOUS
        <4>1. /\ ticks \in Int /\ idle[l] \in Int /\ MaxAge \in Nat /\ ticks <= MaxTicks
              /\ Never \in Int /\ Never > MaxTicks /\ MaxTicks \in Int
          BY <3>1, CompositeAssumption DEF IInv, TypeOK
        <4>2. now = ticks - 1 /\ (stamp[l] = now - idle[l] \/ stamp[l] = Never)
          BY DEF IInv, Stamped
        <4> QED
          BY <3>1, <4>1, <4>2 DEF Cutoff
      <3> QED
        BY <2>1, <3>1, <3>2 DEF GcClearPixel, SetPixelAtLayer, IInv, TypeOK
    <2>2. CASE GcWake \/ GcSkipRecent \/ GcStartClear \/ GcLayerDone
      BY <2>2 DEF GcWake, GcSkipRecent, GcStartClear, GcLayerDone, display
    <2>3. CASE GcFinish
      BY <2>3 DEF GcFinish
    <2>4. CASE Udp
      BY <2>4 DEF Udp, UdpLock, UdpDraw, UdpFinish
    <2> QED
      BY <2>1, <2>2, <2>3, <2>4 DEF Next, Gc
  <1> HIDE DEF Kept
  <1>2. Spec => [][Kept]_vars
    BY Invariance, <1>1, PTL DEF Spec
  <1> QED
    BY <1>2 DEF Kept, NotClearedEarly

-----------------------------------------------------------------------------
(* Composite implements LayeredDisplay.                                    *)

LEMMA ContentsAfterDraw ==
  ASSUME TypeOK, NEW l \in Layer, NEW p \in Pixels, NEW c \in Colors, screens[l] # NULL,
         screens' = [screens EXCEPT ![l][p] = c]
  PROVE  Contents' = [Contents EXCEPT ![l][p] = c]
  <1>1. screens[l] \in [Pixels -> Colors]
    BY DEF TypeOK
  <1>2. [screens[l] EXCEPT ![p] = c] \in [Pixels -> Colors]
    BY <1>1
  <1>3. /\ screens'[l] = [screens[l] EXCEPT ![p] = c] /\ screens'[l] # NULL
        /\ \A k \in Layer : k # l => screens'[k] = screens[k]
    BY <1>1, <1>2, CompositeAssumption DEF TypeOK
  <1> QED
    BY <1>3 DEF Contents

LEMMA DrawImplements ==
  ASSUME IInv, NEW l \in Layer, NEW p \in Pixels, NEW c \in Colors, screens[l] # NULL,
         screens' = [screens EXCEPT ![l][p] = c], sent' = sent
  PROVE  LD!Next
  <1> DEFINE picture == [Contents[l] EXCEPT ![p] = c]
  <1>1. Contents[l] \in [Pixels -> Colors]
    BY DEF IInv, TypeOK, Contents
  <1>2. picture \in [Pixels -> Colors]
    BY <1>1
  <1>3. Contents' = [Contents EXCEPT ![l][p] = c]
    BY ContentsAfterDraw DEF IInv
  <1>4. LD!Draw(l, picture)
    BY <1>3 DEF LD!Draw
  <1>5. l \in LD!Layer
    BY DEF LD!Layer, Layer
  <1> QED
    BY <1>2, <1>4, <1>5 DEF LD!Next

LEMMA SetLayerHides ==
  ASSUME TypeOK, NEW n \in Int, SetLayer(n)
  PROVE  Contents' = Contents
  <1>1. screens' = [screens EXCEPT ![Clamp(n)] =
                     IF screens[Clamp(n)] = NULL THEN Blank ELSE screens[Clamp(n)]]
    BY DEF SetLayer
  <1>2. Blank # NULL /\ Clamp(n) \in Layer
    BY ClampInRange, CompositeAssumption DEF Blank
  <1>3. ASSUME NEW l \in Layer
        PROVE  (IF screens'[l] = NULL THEN Blank ELSE screens'[l]) =
               (IF screens[l] = NULL THEN Blank ELSE screens[l])
    BY <1>1, <1>2 DEF TypeOK
  <1> QED
    BY <1>3 DEF Contents

LEMMA SendImplements ==
  ASSUME IInv, sent' = sent \/ sent' = out, Contents' = Contents
  PROVE  [LD!Next]_<<Contents, sent>>
  BY OutIsFlat DEF IInv, LD!Next, LD!Present

\* Frames that reach the panel are flattened stacks: z-buffer, visible flag,
\* lazy allocation and garbage collection cannot be told from the outside.
THEOREM Refinement == Spec => ImplementsLayeredDisplay
  <1>1. Init => LD!Init
    BY CompositeAssumption
       DEF Init, LD!Init, Contents, Blank, LD!Blank, LD!Layer, Layer
  <1>2. IInv /\ [Next]_vars => [LD!Next]_<<Contents, sent>>
    <2> SUFFICES ASSUME IInv, [Next]_vars PROVE [LD!Next]_<<Contents, sent>>
      OBVIOUS
    <2>1. ASSUME screens' = screens, sent' = sent
          PROVE  UNCHANGED <<Contents, sent>>
      BY <2>1 DEF Contents
    <2>2. CASE UdpLock
      <3>1. PICK n \in LayerArgs : SetLayer(n)
        BY <2>2 DEF UdpLock
      <3> QED
        BY <2>2, <3>1, SetLayerHides, CompositeAssumption DEF IInv, UdpLock
    <2>3. CASE UdpDraw
      <3>1. PICK pos \in todo, c \in Colors : SetPixel(pos, c)
        BY <2>3 DEF UdpDraw
      <3>2. CASE pos \notin Pixels
        BY <2>1, <2>3, <3>1, <3>2 DEF UdpDraw, SetPixel, display
      <3>3. CASE pos \in Pixels
        <4>1. screens' = [screens EXCEPT ![current][pos] = c] /\ sent' = sent
          BY <2>3, <3>1, <3>3 DEF UdpDraw, SetPixel, SetPixelAtLayer
        <4>2. current \in Layer /\ screens[current] # NULL
          BY DEF IInv, TypeOK, Allocated
        <4> QED
          BY <3>3, <4>1, <4>2, DrawImplements
      <3> QED
        BY <3>2, <3>3
    <2>4. CASE UdpFinish
      <3>1. SetLayer(0) /\ (sent' = sent \/ sent' = out)
        BY <2>4 DEF UdpFinish, Send
      <3> QED
        BY <3>1, SetLayerHides, SendImplements DEF IInv
    <2>5. CASE GcWake \/ GcSkipRecent \/ GcStartClear \/ GcLayerDone
      BY <2>1, <2>5
         DEF GcWake, GcSkipRecent, GcStartClear, GcLayerDone, display
    <2>6. CASE GcClearPixel
      <3>1. PICK p \in gcTodo : screens' = [screens EXCEPT ![gcLayer][p] = Black]
        BY <2>6 DEF GcClearPixel, SetPixelAtLayer
      <3>2. /\ p \in Pixels /\ gcLayer \in Layer /\ Black \in Colors
            /\ screens[gcLayer] # NULL /\ sent' = sent
        BY <2>6, ZeroIsLayer, CompositeAssumption DEF GcClearPixel, IInv, TypeOK, Allocated
      <3> QED
        BY <3>1, <3>2, DrawImplements
    <2>7. CASE GcFinish
      <3>1. screens' = screens /\ (sent' = sent \/ sent' = out)
        BY <2>7 DEF GcFinish, Send
      <3> QED
        BY <3>1, SendImplements DEF Contents
    <2>8. CASE UNCHANGED vars
      BY <2>1, <2>8 DEF vars, display
    <2> QED
      BY <2>2, <2>3, <2>4, <2>5, <2>6, <2>7, <2>8 DEF Next, Udp, Gc
  <1> QED
    BY Invariance, <1>1, <1>2, PTL DEF Spec, ImplementsLayeredDisplay, LD!Spec

=============================================================================
