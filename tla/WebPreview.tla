----------------------------- MODULE WebPreview -----------------------------
(***************************************************************************)
(* ft-web: a second implementation of the layered display, worked in whole *)
(* rectangles, and the browsers it is shown in.  udp_loop() draws,         *)
(* push_loop() expires layers, flattens them and sends what has changed,   *)
(* and a thread per browser reads what the browser sends and answers its   *)
(* pings.  A step of a thread lies between two looks at what is shared.    *)
(* A pixel stands for a row.                                               *)
(***************************************************************************)
EXTENDS Integers

CONSTANTS
  NLayers,      \* layers; 0 is the background
  Rows,         \* how many rows the display has
  Colors, Black,
  Timeout,      \* seconds before a layer that is left alone is cleared
  Browsers,
  Nothing       \* what a browser shows before the first frame

ASSUME WebAssumption ==
  /\ NLayers \in Nat \ {0} /\ Rows \in Nat
  /\ Black \in Colors
  /\ Timeout \in Nat

VARIABLES
  layers,       \* Display._layers
  touched,      \* Display._touched
  age,          \* of an overlay: seconds since _last_use, at most
                \* one more than the timeout
  changed,      \* Display.generation is not push_loop()'s last_gen
  push,         \* where push_loop() is
  sweep,        \* the layer expire() looks at next; the lock is held from 1 on
  due,          \* a second has passed since the last expire()
  frame,        \* what composite() returned last
  targets,      \* the browsers broadcast() has not come to
  hub,          \* Hub.clients
  alive,        \* Client.alive
  ponging,      \* browsers whose Client.lock their own thread holds, for a pong
  screen,       \* what a browser shows
  owed          \* history: browsers that the newest frame has passed by

display  == <<layers, touched, age, changed>>
pusher   == <<push, sweep, due, frame, targets>>
browsers == <<hub, alive, ponging, screen, owed>>
web      == <<display, pusher, browsers>>

Layer   == 0 .. NLayers - 1
Overlay == Layer \ {0}
Pixel   == 0 .. Rows - 1
Blank == [p \in Pixel |-> Black]
Unlocked == sweep = 0

\* Layers that are not touched are not looked at.
Visible(l, p) == touched[l] /\ layers[l][p] # Black
Seen(p) == CHOOSE l \in Layer :
             /\ l = 0 \/ Visible(l, p)
             /\ \A k \in Layer : k > l => ~Visible(k, p)
Composite == [p \in Pixel |-> layers[Seen(p)][p]]

Clamp(z) == IF z < 0 THEN 0 ELSE IF z > NLayers - 1 THEN NLayers - 1 ELSE z

Init ==
  /\ layers = [l \in Layer |-> Blank]
  /\ touched = [l \in Layer |-> FALSE]
  /\ age = [l \in Overlay |-> Timeout + 1]
  /\ changed = TRUE
  /\ push = "sleep" /\ sweep = 0 /\ due = TRUE
  /\ frame = Blank /\ targets = {}
  /\ hub = {} /\ alive = [b \in Browsers |-> FALSE] /\ ponging = {}
  /\ screen = [b \in Browsers |-> Nothing] /\ owed = {}

-----------------------------------------------------------------------------
(* udp_loop().                                                             *)

\* Display.apply(): the rows that are on the display are taken over; if there
\* is none the layer is only stamped.  A datagram whose picture is empty or
\* short is counted and dropped: nothing changes here.
Apply(d) ==
  LET z    == Clamp(d.z)
      hits == {p \in Pixel : p - d.top \in DOMAIN d.rows} IN
    /\ Unlocked
    /\ age' = [l \in Overlay |-> IF l = z THEN 0 ELSE age[l]]
    /\ layers' = [layers EXCEPT ![z] =
                    [p \in Pixel |-> IF p \in hits THEN d.rows[p - d.top] ELSE @[p]]]
    /\ touched' = [touched EXCEPT ![z] = @ \/ hits # {}]
    /\ changed' = (changed \/ hits # {})
    /\ UNCHANGED <<pusher, browsers>>

-----------------------------------------------------------------------------
(* push_loop().                                                            *)

\* A round begins.  expire() holds the lock for all its layers.
Wake ==
  /\ push = "sleep"
  /\ push' = "hub"
  /\ IF due THEN sweep' = 1 % NLayers /\ due' = FALSE ELSE UNCHANGED <<sweep, due>>
  /\ UNCHANGED <<display, frame, targets, browsers>>

Expired(z) == touched[z] /\ age[z] > Timeout

\* Mutants of Expire: the flag is reset and the layer is left; the layer that
\* is looked at first is skipped.
ExpireFlagOnly ==
  /\ sweep > 0
  /\ touched' = [touched EXCEPT ![sweep] = @ /\ ~Expired(sweep)]
  /\ changed' = (changed \/ Expired(sweep))
  /\ sweep' = (sweep + 1) % NLayers
  /\ UNCHANGED <<layers, age, push, due, frame, targets, browsers>>

ExpireAllButFirst ==
  /\ sweep > 0
  /\ LET gone == sweep > 1 /\ Expired(sweep) IN
       /\ layers' = [layers EXCEPT ![sweep] = IF gone THEN Blank ELSE @]
       /\ touched' = [touched EXCEPT ![sweep] = @ /\ ~gone]
       /\ changed' = (changed \/ gone)
  /\ sweep' = (sweep + 1) % NLayers
  /\ UNCHANGED <<age, push, due, frame, targets, browsers>>

Expire ==
  /\ sweep > 0
  /\ layers' = [layers EXCEPT ![sweep] = IF Expired(sweep) THEN Blank ELSE @]
  /\ touched' = [touched EXCEPT ![sweep] = @ /\ ~Expired(sweep)]
  /\ changed' = (changed \/ Expired(sweep))
  /\ sweep' = (sweep + 1) % NLayers
  /\ UNCHANGED <<age, push, due, frame, targets, browsers>>

\* Without browsers nothing is flattened, and last_gen stays.
NoBrowser ==
  /\ push = "hub" /\ Unlocked /\ hub = {}
  /\ push' = "sleep"
  /\ UNCHANGED <<display, sweep, due, frame, targets, browsers>>

\* The generation is the one of the frame: both are taken under the lock.
Flatten ==
  /\ push = "hub" /\ Unlocked /\ hub # {}
  /\ frame' = Composite
  /\ changed' = FALSE
  /\ push' = IF changed THEN "list" ELSE "sleep"
  /\ UNCHANGED <<layers, touched, age, sweep, due, targets, browsers>>

\* Mutant of List: the list was made once, before anybody came.
ListOnce ==
  /\ push = "list"
  /\ targets' = {}
  /\ push' = "broadcast"
  /\ UNCHANGED <<display, sweep, due, frame, browsers>>

\* broadcast() takes the list of browsers.
List ==
  /\ push = "list"
  /\ targets' = hub
  /\ push' = "broadcast"
  /\ UNCHANGED <<display, sweep, due, frame, browsers>>

\* Client.send(): a browser whose pong is being written is passed over; one
\* that does not take the frame within two seconds is given up.
PushTo(b) ==
  /\ push = "broadcast" /\ b \in targets
  /\ targets' = targets \ {b}
  /\ \/ /\ ~alive[b]
        /\ UNCHANGED browsers
     \/ /\ alive[b] /\ b \in ponging
        /\ owed' = owed \union {b}
        /\ UNCHANGED <<hub, alive, ponging, screen>>
     \/ /\ alive[b] /\ b \notin ponging
        /\ screen' = [screen EXCEPT ![b] = frame]
        /\ owed' = owed \ {b}
        /\ UNCHANGED <<hub, alive, ponging>>
     \/ /\ alive[b] /\ b \notin ponging
        /\ alive' = [alive EXCEPT ![b] = FALSE]
        /\ hub' = hub \ {b}
        /\ UNCHANGED <<ponging, screen, owed>>
  /\ UNCHANGED <<display, push, sweep, due, frame>>

\* The statistics that are sent as well are left out.
Pushed ==
  /\ push = "broadcast" /\ targets = {}
  /\ push' = "sleep"
  /\ UNCHANGED <<display, sweep, due, frame, targets, browsers>>

-----------------------------------------------------------------------------
(* A browser and the thread that serves it.                                *)

\* It is told the dimensions and added to the hub, and gets the next frame
\* that is different.
Join(b) ==
  /\ b \notin hub /\ ~alive[b] /\ b \notin ponging
  /\ hub' = hub \union {b}
  /\ alive' = [alive EXCEPT ![b] = TRUE]
  /\ targets' = targets \ {b}      \* what is there is the Client of before
  /\ screen' = [screen EXCEPT ![b] = Nothing]
  /\ owed' = IF changed \/ push = "list" THEN owed \ {b} ELSE owed \union {b}
  /\ UNCHANGED <<display, push, sweep, due, frame, ponging>>

Ping(b) ==
  /\ alive[b] /\ b \notin ponging
  /\ ponging' = ponging \union {b}
  /\ UNCHANGED <<display, pusher, hub, alive, screen, owed>>

Pong(b) ==
  /\ b \in ponging
  /\ ponging' = ponging \ {b}
  /\ alive' \in {alive, [alive EXCEPT ![b] = FALSE]}
  /\ UNCHANGED <<display, pusher, hub, screen, owed>>

\* A close frame, or the end of the connection.
Leave(b) ==
  /\ alive[b] /\ b \notin ponging
  /\ alive' = [alive EXCEPT ![b] = FALSE]
  /\ UNCHANGED <<display, pusher, hub, ponging, screen, owed>>

\* The thread takes it out of the hub, if broadcast() has not.
Remove(b) ==
  /\ b \in hub /\ ~alive[b]
  /\ hub' = hub \ {b}
  /\ UNCHANGED <<display, pusher, alive, ponging, screen, owed>>

-----------------------------------------------------------------------------

\* A second passes; expire() takes none.
Tick ==
  /\ Unlocked
  /\ age' = [l \in Overlay |-> IF age[l] > Timeout THEN age[l] ELSE age[l] + 1]
  /\ due' = TRUE
  /\ <<age, due>>' # <<age, due>>
  /\ UNCHANGED <<layers, touched, changed, push, sweep, frame, targets, browsers>>

Pushing == Wake \/ Expire \/ NoBrowser \/ Flatten \/ List \/ Pushed \/ \E b \in Browsers : PushTo(b)
Serve(b) == Join(b) \/ Ping(b) \/ Pong(b) \/ Leave(b) \/ Remove(b)

=============================================================================
