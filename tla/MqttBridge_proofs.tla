-------------------------- MODULE MqttBridge_proofs --------------------------
(***************************************************************************)
(* Proofs about MqttBridge: ftctl keeps its promises with the MQTT half    *)
(* added, and brightness survives the way through Home Assistant.          *)
(***************************************************************************)
EXTENDS MqttBridge, ControlBridge_proofs

States == [on : BOOLEAN, bri : 0 .. 255]

Places == {"idle", "assign", "open", "write", "replace", "patch", "pause", "reply"}

\* Who has taken a snapshot is still where it publishes from, and the network
\* thread serves no request while it greets the broker.
PublishRight ==
  /\ link \in BOOLEAN /\ connected \in BOOLEAN
  /\ greeting \in {"no", "reset", "publish"}
  /\ {retained, lastKey} \subseteq {None} \union States
  /\ snap \in [Publishers -> {None} \union States]
  /\ \A p \in Publishers : snap[p] # None => Publishing(p)
  /\ greeting # "no" => pc[mqtt] = "idle"
  /\ NothingWithheld

MqttInv == IInv /\ PublishRight

-----------------------------------------------------------------------------
(* Brightness.                                                             *)

LEMMA HaRange == \A percent \in Int : PctToHa(percent) \in 1 .. 255
  BY DEF PctToHa

LEMMA ViewRight == ASSUME NEW c \in Settings \union {None} PROVE View(c) \in States
  <1>1. CASE c = None
    BY <1>1 DEF View, States
  <1>2. CASE c # None
    <2>1. c["bright"] \in Int
      BY <1>2, Values DEF Settings, Memory
    <2>2. PctToHa(c["bright"]) \in 0 .. 255
      BY <2>1, HaRange
    <2> QED
      BY <1>2, <2>2 DEF View, States
  <1> QED
    BY <1>1, <1>2

\* A brightness set on the wall, shown by Home Assistant and set again from
\* there is the one it was: 255 steps are enough for 100, whichever way the
\* halves are rounded (pct_to_ha() and ha_to_pct()).
THEOREM RoundTrip == \A percent \in 1 .. 100 : HaToPct(PctToHa(percent)) = percent
  <1> SUFFICES ASSUME NEW percent \in 1 .. 100
               PROVE  HaToPct(PctToHa(percent)) = percent
    OBVIOUS
  <1> DEFINE ha == PctToHa(percent)
  <1>1. ha \in 1 .. 255 /\ 100 * ha <= 255 * percent + 50 /\ 255 * percent <= 100 * ha + 50
    BY DEF PctToHa
  <1> HIDE DEF ha
  <1>2. (ha * 200 + 255) \div 510 = percent
    BY <1>1
  <1> QED
    BY <1>2 DEF HaToPct, ha

-----------------------------------------------------------------------------
(* What the other half keeps.                                              *)

LEMMA LinkDropsInv == IInv /\ LinkDrops => IInv'
  <1> SUFFICES ASSUME IInv, LinkDrops PROVE IInv'
    OBVIOUS
  <1>1. /\ up' = up /\ gen' = gen /\ server' = server /\ paused' = paused /\ cache' = cache
        /\ desired' = desired /\ path' = path /\ tmp' = tmp /\ blob' = blob /\ fd' = fd
        /\ pc' = pc /\ req' = req /\ pollPc' = pollPc /\ got' = got /\ sending' = sending
        /\ known' = known /\ excused' = excused
    BY DEF LinkDrops, Trouble, serverVars, fileVars, pollVars
  <1>2. Types'
    <2>1. TypeOK'
      BY <1>1 DEF IInv, Types, TypeOK, Busy
    <2>2. RequestsRight'
      BY <1>1 DEF IInv, Types, RequestsRight, Busy
    <2> QED
      BY <2>1, <2>2 DEF Types
  <1>3. /\ Clean' <=> Clean
        /\ \A f : (Dealt(f)' <=> Dealt(f)) /\ (Assigning(f)' <=> Assigning(f))
    BY <1>1 DEF Clean, Dealt, Assigning
  <1>4. KnownRight' /\ OneAtATime' /\ SendRight'
    BY <1>1, <1>3 DEF IInv, Reconciled, KnownRight, OneAtATime, SendRight, On, Busy
  <1>5. SinceGot' /\ AssignRight' /\ Agreed'
    BY <1>1, <1>3 DEF IInv, Reconciled, SinceGot, AssignRight, Agreed
  <1>6. PauseRight'
    BY <1>1, <1>3 DEF IInv, PauseRight, Kept, Owes, On, Busy
  <1>7. FileRight'
    BY <1>1 DEF IInv, FileRight, Saved, Load
  <1> QED
    BY <1>2, <1>4, <1>5, <1>6, <1>7 DEF IInv, Reconciled

\* Every step is one of ControlBridge or none, but for the link that breaks.
LEMMA StepsOfControl == [MqttNext]_allVars => [Next]_vars \/ LinkDrops
  <1>1. Others => Next
    BY DEF Others, Next, Outside
  <1>2. MqttCrash => Next
    BY DEF MqttCrash, Next, Outside
  <1>3. ASSUME NEW p \in Publishers, Publishes(p)
        PROVE  [Next]_vars
    <2>1. Snapshot(p) => UNCHANGED vars
      BY DEF Snapshot
    <2>2. Returns(p) => [Next]_vars
      BY MqttAssumption DEF Returns, Next
    <2> QED
      BY <1>3, <2>1, <2>2 DEF Publishes, NotConnected, Publish
  <1>4. OnDisconnect \/ OnConnect \/ Reassert \/ UNCHANGED allVars => UNCHANGED vars
    BY DEF OnDisconnect, OnConnect, Reassert, allVars
  <1> QED
    BY <1>1, <1>2, <1>3, <1>4 DEF MqttNext

LEMMA ControlKept == IInv /\ [MqttNext]_allVars => IInv'
  <1>1. IInv /\ [Next]_vars => IInv'
    BY TypesInductive, ReconciledInductive, PauseInductive, FileInductive DEF IInv
  <1> QED
    BY <1>1, StepsOfControl, LinkDropsInv

-----------------------------------------------------------------------------
(* What the publishers keep.                                               *)

LEMMA OthersPublish ==
  ASSUME Types, PublishRight, Others
  PROVE  PublishRight'
  <1>1. UNCHANGED mqttVars /\ pc \in [Threads -> Places]
    BY DEF Others, Types, TypeOK, Places
  <1>2. /\ link' = link /\ connected' = connected /\ lastKey' = lastKey
        /\ retained' = retained /\ snap' = snap /\ greeting' = greeting
    BY <1>1 DEF mqttVars
  <1>3. pollPc = "listen" => pollPc' = "listen"
    BY DEF Others, Command, Serving, Assign, Open, Write, Replace, Patch, Pause, Reply, Getting,
       Polling, PollAnswered, PollUnanswered, PollStore, Compare, Adopt, Reconcile, Send,
       ServerStops, ServerStarts, pollVars, Field
  <1>4. /\ pc[mqtt] = "reply" => pc'[mqtt] = "reply"
        /\ greeting # "no" => pc'[mqtt] = "idle"
    <2>1. CASE \E t \in Threads : Command(t) /\ (t = mqtt => greeting = "no" /\ link)
      BY <1>1, <2>1, MqttAssumption DEF Command, Goes, PublishRight
    <2>2. CASE \E t \in Threads : Serving(t)
      BY <1>1, <2>2, MqttAssumption DEF Serving, Assign, Open, Write, Replace, Patch, Pause, Goes,
         PublishRight
    <2>3. CASE \E t \in Threads \ {mqtt} : Reply(t)
      BY <1>1, <2>3, MqttAssumption DEF Reply, Goes, PublishRight
    <2>4. CASE Getting \/ Polling \/ ServerStops \/ ServerStarts
      BY <2>4 DEF Getting, Polling, PollAnswered, PollUnanswered, PollStore, Compare, Adopt,
         Reconcile, Send, ServerStops, ServerStarts, PublishRight
    <2> QED
      BY <2>1, <2>2, <2>3, <2>4 DEF Others
  <1>5. \A p \in Publishers : Publishing(p) => Publishing(p)'
    BY <1>2, <1>3, <1>4 DEF Publishing
  <1>6. NothingWithheld'
    BY <1>2 DEF PublishRight, NothingWithheld
  <1> QED
    BY <1>2, <1>4, <1>5, <1>6 DEF PublishRight

LEMMA PublishesPublish ==
  ASSUME Types, PublishRight, NEW p \in Publishers, Publishes(p)
  PROVE  PublishRight'
  <1>0. /\ pc \in [Threads -> Places] /\ mqtt \in Threads /\ mqtt # "poll"
        /\ Publishers = {"poll", mqtt}
    BY MqttAssumption DEF Types, TypeOK, Publishers, Places
  <1>1. CASE Snapshot(p)
    <2>1. View(cache) \in States
      BY ViewRight DEF Types, TypeOK
    <2>2. /\ link' = link /\ connected' = connected /\ lastKey' = lastKey
          /\ retained' = retained /\ greeting' = greeting /\ pc' = pc /\ pollPc' = pollPc
          /\ Publishing(p) /\ snap' = [snap EXCEPT ![p] = View(cache)]
      BY <1>1 DEF Snapshot, vars, pollVars
    <2>3. \A q \in Publishers : Publishing(q)' <=> Publishing(q)
      BY <2>2 DEF Publishing
    <2>4. NothingWithheld'
      BY <2>2 DEF PublishRight, NothingWithheld
    <2> QED
      BY <2>1, <2>2, <2>3, <2>4 DEF PublishRight
  <1>2. CASE NotConnected(p) \/ Publish(p)
    <2>1. /\ link' = link /\ connected' = connected
          /\ snap' = [snap EXCEPT ![p] = None]
          /\ {retained', lastKey'} \subseteq {None} \union States
      BY <1>2 DEF NotConnected, Publish, PublishRight
    <2>2. Returns(p)
      BY <1>2 DEF NotConnected, Publish
    <2>3. /\ greeting' \in {"no", "reset", "publish"}
          /\ greeting' # "no" => pc'[mqtt] = "idle"
          /\ \A q \in Publishers : q # p /\ Publishing(q) => Publishing(q)'
      <3>1. CASE p = "poll" /\ PollListen /\ UNCHANGED greeting
        BY <1>0, <3>1 DEF PollListen, Publishing, PublishRight
      <3>2. CASE p = mqtt /\ pc[mqtt] = "reply" /\ Reply(mqtt) /\ UNCHANGED greeting
        BY <1>0, <3>2 DEF Reply, Goes, pollVars, Publishing, PublishRight
      <3>3. CASE p = mqtt /\ greeting = "publish" /\ greeting' = "no" /\ UNCHANGED vars
        BY <1>0, <3>3 DEF vars, pollVars, Publishing
      <3> QED
        BY <2>2, <3>1, <3>2, <3>3 DEF Returns
    <2>4. \A q \in Publishers : snap'[q] # None => q # p /\ Publishing(q)
      BY <2>1 DEF PublishRight
    <2>5. NothingWithheld'
      <3>1. greeting' = greeting \/ greeting = "publish"
        BY <2>2 DEF Returns
      <3>2. \/ lastKey' = snap[p] /\ retained' = IF link THEN snap[p] ELSE retained
            \/ lastKey' = lastKey /\ retained' = retained
        BY <1>2 DEF NotConnected, Publish
      <3> QED
        BY <2>1, <3>1, <3>2 DEF PublishRight, NothingWithheld
    <2> QED
      BY <2>1, <2>3, <2>4, <2>5 DEF PublishRight
  <1> QED
    BY <1>1, <1>2 DEF Publishes

LEMMA LinkPublish ==
  ASSUME Types, PublishRight,
         MqttCrash \/ LinkDrops \/ OnDisconnect \/ OnConnect \/ Reassert \/ UNCHANGED allVars
  PROVE  PublishRight'
  <1>1. CASE MqttCrash
    BY <1>1, MqttAssumption DEF MqttCrash, Crash, PublishRight, NothingWithheld
  <1>2. CASE ~MqttCrash
    <2>1. pc' = pc /\ pollPc' = pollPc /\ snap' = snap /\ retained' = retained
      BY <1>2 DEF LinkDrops, OnDisconnect, OnConnect, Reassert, allVars, vars, pollVars, mqttVars
    <2>2. /\ link' \in BOOLEAN /\ connected' \in BOOLEAN /\ lastKey' \in {lastKey, None}
          /\ greeting' \in {"no", "reset", "publish"}
          /\ greeting' # "no" => pc[mqtt] = "idle"
          /\ greeting = "publish" => greeting' = "publish"
      BY <1>2 DEF LinkDrops, OnDisconnect, OnConnect, Reassert, allVars, mqttVars, Idle,
         PublishRight
    <2>3. \A p \in Publishers : Publishing(p) => Publishing(p)'
      BY <2>1, <2>2 DEF Publishing
    <2>4. NothingWithheld'
      BY <1>2, <2>1 DEF LinkDrops, OnDisconnect, OnConnect, Reassert, allVars, mqttVars,
         PublishRight, NothingWithheld
    <2> QED
      BY <2>1, <2>2, <2>3, <2>4 DEF PublishRight
  <1> QED
    BY <1>1, <1>2

-----------------------------------------------------------------------------
(* The theorems.                                                           *)

\* With MQTT's thread among the others, what ControlBridge keeps is kept.
THEOREM MqttInvariance == MqttSpec => []MqttInv
  <1>1. MqttInit => MqttInv
    <2> SUFFICES ASSUME MqttInit PROVE MqttInv
      OBVIOUS
    <2>1. IInv
      BY InitTypes, InitReconciled, InitPause, InitFile DEF IInv, MqttInit
    <2>2. PublishRight
      BY DEF MqttInit, PublishRight, NothingWithheld
    <2> QED
      BY <2>1, <2>2 DEF MqttInv
  <1>2. MqttInv /\ [MqttNext]_allVars => MqttInv'
    BY ControlKept, OthersPublish, PublishesPublish, LinkPublish DEF MqttInv, IInv, MqttNext
  <1> QED
    BY <1>1, <1>2, PTL DEF MqttSpec

\* A snapshot is published from where it was taken, and what is published is
\* a state Home Assistant understands, brightness in 0..255.
THEOREM MqttTypesHold == MqttSpec => []MqttTypeOK
  <1>1. MqttInv => MqttTypeOK
    BY DEF MqttInv, IInv, Types, PublishRight, MqttTypeOK, States
  <1> QED
    BY <1>1, MqttInvariance, PTL

\* What publish_state() leaves out as a repetition is what the broker has
\* retained, though two threads publish and messages are lost with the link.
THEOREM BrokerHasWhatIsSkipped == MqttSpec => []NothingWithheld
  <1>1. MqttInv => NothingWithheld
    BY DEF MqttInv, PublishRight
  <1> QED
    BY <1>1, MqttInvariance, PTL

\* Requests that come over MQTT do not break what ControlBridge promises: the
\* wall does what is remembered once the poll has dealt with it.
THEOREM MqttSettles == MqttSpec => []Settled
  <1>1. MqttInv => Settled
    BY SettledFollows DEF MqttInv
  <1> QED
    BY <1>1, MqttInvariance, PTL

\* Nor do they break the state file.
THEOREM MqttRemembers == MqttSpec => []Remembered
  <1>1. MqttInv => Remembered
    BY RememberedFollows DEF MqttInv
  <1> QED
    BY <1>1, MqttInvariance, PTL

=============================================================================
