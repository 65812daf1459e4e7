----------------------------- MODULE MqttBridge -----------------------------
(***************************************************************************)
(* ftctl with its MQTT half: one of the threads that serve requests is the *)
(* client's network thread, which also connects, and state is published by *)
(* that thread and by the poll.  The broker keeps what was published last. *)
(***************************************************************************)
EXTENDS ControlBridge

CONSTANT
  mqtt         \* the network thread

ASSUME MqttAssumption == mqtt \in Threads /\ mqtt # "poll"

VARIABLES
  link,        \* the connection to the broker stands
  connected,   \* _connected
  lastKey,     \* _last_key
  retained,    \* what the broker has retained for the state topic
  snap,        \* the snapshot a publisher has taken, "none" before it does
  greeting     \* where _on_connect() is

mqttVars == <<link, connected, lastKey, retained, snap, greeting>>
allVars  == <<vars, mqttVars>>

\* Mutant of PctToHa: the scale is 256.
PctToHa256(percent) == (percent * 256) \div 100

\* Python rounds half to even; percent * 255 / 100 is exact on the halves.
PctToHa(percent) ==
  LET q == (percent * 255) \div 100
      r == (percent * 255) % 100
      n == IF r > 50 \/ (r = 50 /\ q % 2 = 1) THEN q + 1 ELSE q IN
    IF n < 1 THEN 1 ELSE IF n > 255 THEN 255 ELSE n

HaToPct(value) ==
  LET n == (value * 200 + 255) \div 510 IN
    IF n < 1 THEN 1 ELSE IF n > 100 THEN 100 ELSE n

\* What a snapshot says to Home Assistant.
View(c) == IF c = None THEN [on |-> FALSE, bri |-> 0]
           ELSE [on |-> c["blank"] = 0, bri |-> PctToHa(c["bright"])]

Publishers == {"poll", mqtt}

MqttInit ==
  /\ Init
  /\ link = FALSE /\ connected = FALSE
  /\ lastKey = None /\ retained = None
  /\ snap = [p \in Publishers |-> None]
  /\ greeting = "no"

\* The places from which publish_state() is called.
Publishing(p) == IF p = "poll" THEN pollPc = "listen"
                 ELSE pc[mqtt] = "reply" \/ greeting = "publish"

\* publish_state() has returned to where it was called from.
Returns(p) ==
  \/ p = "poll" /\ PollListen /\ UNCHANGED greeting
  \/ p = mqtt /\ pc[mqtt] = "reply" /\ Reply(mqtt) /\ UNCHANGED greeting
  \/ p = mqtt /\ greeting = "publish" /\ greeting' = "no" /\ UNCHANGED vars

Snapshot(p) ==
  /\ Publishing(p) /\ connected /\ snap[p] = None
  /\ snap' = [snap EXCEPT ![p] = View(cache)]
  /\ UNCHANGED <<vars, link, connected, lastKey, retained, greeting>>

NotConnected(p) ==
  /\ Publishing(p) /\ ~connected /\ snap[p] = None
  /\ Returns(p)
  /\ UNCHANGED <<link, connected, lastKey, retained, snap>>

\* Under the lock: nothing is sent that was sent last, unless the heartbeat is
\* due.  What is sent without a connection is lost.
Publish(p) ==
  /\ snap[p] # None
  /\ \/ /\ lastKey' = snap[p]
        /\ retained' = IF link THEN snap[p] ELSE retained
     \/ snap[p] = lastKey /\ UNCHANGED <<lastKey, retained>>
  /\ snap' = [snap EXCEPT ![p] = None]
  /\ Returns(p)
  /\ UNCHANGED <<link, connected>>

Idle == pc[mqtt] = "idle" /\ greeting = "no"

LinkDrops ==
  /\ link /\ Trouble
  /\ link' = FALSE
  /\ UNCHANGED <<serverVars, cache, desired, fileVars, pc, req, pollVars, requests>>
  /\ UNCHANGED <<connected, lastKey, retained, snap, greeting>>

OnDisconnect ==
  /\ Idle /\ ~link /\ connected
  /\ connected' = FALSE
  /\ UNCHANGED <<vars, link, lastKey, retained, snap, greeting>>

OnConnect ==
  /\ Idle /\ ~link /\ ~connected
  /\ link' = TRUE /\ connected' = TRUE /\ greeting' = "reset"
  /\ UNCHANGED <<vars, lastKey, retained, snap>>

\* Mutant of Reassert: what was sent last is not forgotten.
ReassertNot ==
  /\ greeting = "reset" /\ greeting' = "publish"
  /\ UNCHANGED <<vars, link, connected, lastKey, retained, snap>>

\* "Everything is re-asserted after a reconnect".
Reassert ==
  /\ greeting = "reset"
  /\ lastKey' = None /\ greeting' = "publish"
  /\ UNCHANGED <<vars, link, connected, retained, snap>>

\* The process ends, and the connection with it.
MqttCrash ==
  /\ Crash
  /\ link' = FALSE /\ connected' = FALSE /\ lastKey' = None
  /\ snap' = [p \in Publishers |-> None] /\ greeting' = "no"
  /\ UNCHANGED <<retained>>

Others ==
  /\ \/ \E t \in Threads : Command(t) /\ (t = mqtt => greeting = "no" /\ link)
     \/ \E t \in Threads : Serving(t)
     \/ \E t \in Threads \ {mqtt} : Reply(t)
     \/ Getting \/ Polling \/ ServerStops \/ ServerStarts
  /\ UNCHANGED mqttVars

Publishes(p) == Snapshot(p) \/ NotConnected(p) \/ Publish(p)

MqttNext ==
  \/ Others \/ MqttCrash
  \/ \E p \in Publishers : Publishes(p)
  \/ LinkDrops \/ OnDisconnect \/ OnConnect \/ Reassert

\* Every thread goes on and the client reconnects.  Nothing is assumed of
\* requests, of restarts and failures, or of the heartbeat.
MqttSpec ==
  /\ MqttInit /\ [][MqttNext]_allVars
  /\ \A t \in Threads : WF_allVars(Serving(t) /\ UNCHANGED mqttVars)
  /\ \A t \in Threads \ {mqtt} : WF_allVars(Reply(t) /\ UNCHANGED mqttVars)
  /\ \A p \in Publishers : WF_allVars(Publishes(p))
  /\ WF_allVars((Getting \/ Polling) /\ UNCHANGED mqttVars)
  /\ WF_allVars(OnDisconnect) /\ WF_allVars(OnConnect) /\ WF_allVars(Reassert)

-----------------------------------------------------------------------------
(* Properties.                                                             *)

MqttTypeOK ==
  /\ TypeOK
  /\ link \in BOOLEAN /\ connected \in BOOLEAN
  /\ greeting \in {"no", "reset", "publish"}
  /\ {retained, lastKey} \subseteq {None} \union [on : BOOLEAN, bri : 0 .. 255]
  /\ \A p \in Publishers :
       snap[p] # None => Publishing(p) /\ snap[p] \in [on : BOOLEAN, bri : 0 .. 255]

\* What publish_state() takes for a repetition is what the broker has: the key
\* survives neither a connection nor a crash that may have lost what was sent.
NothingWithheld ==
  (link /\ greeting # "reset") => lastKey \in {None, retained}

\* A restart of ft_server is noticed: in the end it does what is remembered.
AppliedAgain ==
  <>[](up /\ excused \intersect {"crossed", "lost", "adopted"} = {} => server = desired)

\* Home Assistant ends up with what the wall does, though the poll sets the
\* cache back, an older snapshot is published after a newer one, and messages
\* are lost with the connection.
StateReachesHA == <>[](up /\ link => retained = View(server))

=============================================================================
