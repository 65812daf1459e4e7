------------------------- MODULE ControlBridge_proofs -------------------------
(***************************************************************************)
(* Proofs about ControlBridge for any number of threads, any brightness    *)
(* levels, and any number of requests, restarts, crashes and failures.     *)
(***************************************************************************)
EXTENDS ControlBridge, TLAPS

Requests == {r \in [field : Field, value : Int] : r.value \in Value(r.field)}

\* What TypeOK leaves open of requests and of what the poll sends.
RequestsRight ==
  /\ req \in [Threads -> Requests \union {None}]
  /\ \A t \in Threads : Busy(t) => req[t] \in Requests
  /\ pollPc = "send" => sending \in Requests
  /\ excused \in SUBSET {"crossed", "lost", "saves", "adopted", "unreachable", "crash"}

Types == TypeOK /\ RequestsRight

\* A generation is known after it was seen, and with it a brightness to keep.
KnownRight ==
  /\ (known # None /\ got # None) => known <= got.gen
  /\ (known # None /\ pollPc # "adopt") => desired["bright"] # None
  /\ pollPc \in {"adopt", "bright", "send", "blank"} => known = got.gen

Clean == excused \intersect {"crossed", "lost", "adopted"} = {}

Assigning(f) == \E t \in Threads : pc[t] = "assign" /\ req[t].field = f

\* The poll has dealt with this run of ft_server, as far as the field goes.
Dealt(f) ==
  /\ known = gen
  /\ \/ pollPc \in {"idle", "store", "compare", "listen"}
     \/ f = "bright" /\ (pollPc = "blank" \/ (pollPc = "send" /\ sending.field = "blank"))

\* Requests for the same field do not overlap, or are excused.
OneAtATime ==
  "crossed" \notin excused =>
    \A f \in Field : \A t, u \in Threads : On(t, f) /\ On(u, f) => t = u

\* What the poll sends is still wanted.
SendRight ==
  (pollPc = "send" /\ "crossed" \notin excused) =>
    ~Assigning(sending.field) /\ sending.value = desired[sending.field]

\* Since the poll asked, ft_server has been told nothing but what is wanted.
SinceGot ==
  (Clean /\ up /\ got # None /\ got.gen = gen) =>
    \A f \in Field : ~Assigning(f) => server[f] \in {got.set[f], desired[f]}

\* What is about to be remembered is what ft_server does, unless it started
\* anew, and then the poll is still to see that.
AssignRight ==
  (Clean /\ up) =>
    \A t \in Threads : pc[t] = "assign" =>
      \/ server[req[t].field] = req[t].value
      \/ /\ ~Dealt(req[t].field)
         /\ (got # None /\ got.gen = gen) => server[req[t].field] = got.set[req[t].field]

\* What is remembered is what ft_server does, once the poll has dealt with it.
Agreed ==
  (Clean /\ up) =>
    \A f \in Field : Dealt(f) /\ ~Assigning(f) => server[f] = desired[f]

\* The rotation stands still while the wall is dark, but for a request that is
\* on its way.
Saving == {"open", "write", "replace"}
Late   == {"patch", "pause", "reply"}

Kept    == gen = 1 /\ Clean /\ excused \intersect {"unreachable", "crash"} = {}
Owes(t) == On(t, "blank") /\ pc[t] \in Saving \union {"patch", "pause"}

PauseRight ==
  /\ \A t \in Threads : pc[t] = "pause" => req[t].field = "blank"
  /\ Kept =>
       /\ \A t \in Threads : (On(t, "blank") /\ pc[t] \in Saving \union Late) =>
            desired["blank"] = req[t].value
       /\ (\A t \in Threads : ~Owes(t)) => (paused <=> desired["blank"] = 1)

\* What is saved is what is in memory, but for brightness that was adopted.
Saved(m) ==
  /\ m["blank"] = desired["blank"]
  /\ m["bright"] \in {desired["bright"], None} \/ "crossed" \in excused

\* One thread at a time has the temporary file, and replaces the state file by
\* what it wrote.
FileRight ==
  "saves" \notin excused =>
    /\ path \in Memory \union {None}
    /\ \A t, u \in Threads : {pc[t], pc[u]} \subseteq {"write", "replace"} => t = u
    /\ \A t \in Threads : pc[t] # "write" => fd[t] = "none"
    /\ \A t \in Threads : pc[t] = "write" => tmp = Empty /\ fd[t] = "tmp"
    /\ \A t \in Threads : pc[t] = "replace" => tmp = blob[t]
    /\ (\A t \in Threads : pc[t] \notin Saving) => Saved(Load(path))
    /\ (\A t \in Threads : pc[t] # "open") =>
         \A t \in Threads : pc[t] \in {"write", "replace"} => Saved(blob[t])

Reconciled == KnownRight /\ OneAtATime /\ SendRight /\ SinceGot /\ AssignRight /\ Agreed

-----------------------------------------------------------------------------
(* Types.                                                                  *)

LEMMA Values ==
  /\ Levels \subseteq Int /\ None \notin Levels /\ None \notin {0, 1} /\ Booted \in Levels
  /\ \A f \in Field : Value(f) \subseteq Int /\ None \notin Value(f)
  /\ Value("bright") = Levels /\ Value("blank") = {0, 1}
  <1>1. Levels \subseteq Int /\ None \notin Int /\ Booted \in Levels
    BY ControlAssumption
  <1>2. Value("bright") = Levels /\ Value("blank") = {0, 1}
    BY DEF Value
  <1>3. \A f \in Field : f = "bright" \/ f = "blank"
    BY DEF Field
  <1>4. 0 \in Int /\ 1 \in Int
    OBVIOUS
  <1>5. None \notin Levels /\ None \notin {0, 1} /\ {0, 1} \subseteq Int
    BY <1>1, <1>4, Zenon
  <1>6. ASSUME NEW f \in Field
        PROVE  Value(f) \subseteq Int /\ None \notin Value(f)
    BY <1>1, <1>2, <1>3, <1>5, Zenon
  <1> QED
    BY <1>1, <1>2, <1>5, <1>6, Zenon

LEMMA SetField ==
  ASSUME NEW m \in Memory, NEW f \in Field, NEW v \in Value(f)
  PROVE  /\ [m EXCEPT ![f] = v] \in Memory
         /\ m["bright"] # None \/ f = "bright" => [m EXCEPT ![f] = v] \in Settings
         /\ [m EXCEPT ![f] = v][f] = v
         /\ \A g \in Field : g # f => [m EXCEPT ![f] = v][g] = m[g]
  <1>1. m \in [Field -> Levels \union {None, 0, 1}]
        /\ m["bright"] \in Levels \union {None} /\ m["blank"] \in {0, 1}
    BY DEF Memory
  <1>2. f \in {"bright", "blank"} /\ v \in Levels \union {None, 0, 1}
    BY Values DEF Field
  <1>3. [m EXCEPT ![f] = v] \in [Field -> Levels \union {None, 0, 1}]
    BY <1>1, <1>2
  <1>4. /\ [m EXCEPT ![f] = v][f] = v
        /\ \A g \in Field : g # f => [m EXCEPT ![f] = v][g] = m[g]
    BY <1>1
  <1>5. CASE f = "bright"
    <2>1. [m EXCEPT ![f] = v]["bright"] \in Levels /\ [m EXCEPT ![f] = v]["blank"] = m["blank"]
      BY <1>1, <1>4, <1>5, Values DEF Field
    <2> QED
      BY <1>1, <1>3, <1>4, <2>1, Values DEF Memory, Settings
  <1>6. CASE f = "blank"
    <2>1. [m EXCEPT ![f] = v]["blank"] \in {0, 1} /\ [m EXCEPT ![f] = v]["bright"] = m["bright"]
      BY <1>1, <1>4, <1>6, Values DEF Field
    <2> QED
      BY <1>1, <1>3, <1>4, <1>6, <2>1, Values DEF Memory, Settings
  <1> QED
    BY <1>2, <1>5, <1>6

LEMMA InitialMemory ==
  /\ Unset \in Memory /\ Fresh \in Settings
  /\ Unset["blank"] = 0 /\ Unset["bright"] = None
  BY Values DEF Unset, Fresh, Memory, Settings, Field

LEMMA LoadRight ==
  /\ \A x \in Memory \union {None, Empty, Torn} : Load(x) \in Memory
  /\ \A x \in Memory : x \notin {None, Empty, Torn} /\ Load(x) = x
  /\ Load(None) = Unset
  <1>1. ASSUME NEW x \in Memory PROVE x \notin {None, Empty, Torn}
    <2>1. x \in [{"bright", "blank"} -> Int \union {None}]
      BY Values DEF Memory, Field
    <2> QED
      BY <2>1, FileAssumption
  <1> QED
    BY <1>1, InitialMemory DEF Load

LEMMA InitTypes == Init => Types
  <1> SUFFICES ASSUME Init PROVE Types
    OBVIOUS
  <1>1. server \in Settings /\ desired \in Memory /\ blob \in [Threads -> Memory]
    BY InitialMemory DEF Init
  <1>2. /\ fd \in [Threads -> {"none", "tmp", "path", "gone"}]
        /\ pc \in [Threads -> {"idle", "assign", "open", "write", "replace", "patch", "pause",
                               "reply"}]
        /\ \A t \in Threads : ~Busy(t)
        /\ req \in [Threads -> Requests \union {None}]
    BY DEF Init, Busy
  <1>3. gen \in Nat \ {0} /\ known = None /\ path = None /\ tmp = None /\ got = None
        /\ pollPc = "idle" /\ cache = None /\ up = TRUE /\ paused = FALSE /\ excused = {}
    BY DEF Init
  <1>4. TypeOK
    BY <1>1, <1>2, <1>3 DEF TypeOK
  <1>5. RequestsRight
    BY <1>2, <1>3 DEF RequestsRight
  <1> QED
    BY <1>4, <1>5 DEF Types

LEMMA ServingTypes ==
  ASSUME Types, NEW t \in Threads, Assign(t) \/ Open(t) \/ Write(t) \/ Replace(t) \/ Patch(t)
                                   \/ Pause(t) \/ Reply(t)
  PROVE  Types'
  <1>1. /\ Busy(t) /\ req[t] \in Requests /\ req[t].field \in Field
        /\ req[t].value \in Value(req[t].field)
    <2>1. Busy(t)
      BY DEF Assign, Open, Write, Replace, Patch, Pause, Reply, Busy
    <2> QED
      BY <2>1 DEF Types, RequestsRight, Requests
  <1>2. /\ up' = up /\ gen' = gen /\ server' = server /\ pollPc' = pollPc /\ got' = got
        /\ sending' = sending /\ known' = known
    BY DEF Assign, Open, Write, Replace, Patch, Pause, Reply, serverVars, pollVars
  <1>3. /\ pc' \in [Threads -> {"idle", "assign", "open", "write", "replace", "patch", "pause",
                                "reply"}]
        /\ \A u \in Threads : u # t => pc'[u] = pc[u] /\ req'[u] = req[u]
        /\ pc'[t] = "idle" \/ req'[t] = req[t]
        /\ req' \in [Threads -> Requests \union {None}]
    BY DEF Types, TypeOK, RequestsRight, Assign, Open, Write, Replace, Patch, Pause, Reply, Goes
  <1>4. excused' \in SUBSET {"crossed", "lost", "saves", "adopted", "unreachable", "crash"}
    BY DEF Types, RequestsRight, Assign, Open, Write, Replace, Patch, Pause, Reply, Fails, Excuse
  <1>5. RequestsRight'
    <2>1. \A u \in Threads : Busy(u)' => req'[u] \in Requests
      BY <1>1, <1>3 DEF Types, RequestsRight, Busy
    <2> QED
      BY <1>2, <1>3, <1>4, <2>1 DEF Types, RequestsRight
  <1>6. \A u \in Threads : Busy(u)' =>
          req'[u].field \in Field /\ req'[u].value \in Value(req'[u].field)
    BY <1>5 DEF RequestsRight, Requests
  <1>7. paused' \in BOOLEAN
    BY DEF Types, TypeOK, Assign, Open, Write, Replace, Patch, Pause, Reply, serverVars
  <1>8. desired' \in Memory
    <2>1. CASE Assign(t)
      BY <1>1, <2>1, SetField DEF Assign, Types, TypeOK
    <2>2. CASE ~Assign(t)
      BY <2>2 DEF Open, Write, Replace, Patch, Pause, Reply, Types, TypeOK
    <2> QED
      BY <2>1, <2>2
  <1>9. cache' \in Settings \union {None}
    <2>1. CASE Patch(t) /\ cache # None
      <3>1. cache \in Settings /\ cache \in Memory /\ cache["bright"] # None
        BY <2>1 DEF Types, TypeOK, Settings
      <3>2. cache' = [cache EXCEPT ![req[t].field] = req[t].value]
        BY <2>1 DEF Patch
      <3> QED
        BY <1>1, <3>1, <3>2, SetField
    <2>2. CASE ~(Patch(t) /\ cache # None)
      BY <2>2 DEF Assign, Open, Write, Replace, Pause, Patch, Reply, Types, TypeOK
    <2> QED
      BY <2>1, <2>2
  <1>10. /\ {path', tmp'} \subseteq Memory \union {None, Empty, Torn}
         /\ blob' \in [Threads -> Memory]
         /\ fd' \in [Threads -> {"none", "tmp", "path", "gone"}]
    <2>1. CASE Open(t)
      BY <2>1 DEF Open, Types, TypeOK
    <2>2. CASE Write(t)
      <3>1. blob[t] \in Memory
        BY DEF Types, TypeOK
      <3>2. tmp' \in {tmp, blob[t], Torn} /\ path' \in {path, blob[t], Torn}
        BY <2>2 DEF Write, Overlaid
      <3> QED
        BY <2>2, <3>1, <3>2 DEF Write, Types, TypeOK
    <2>3. CASE Replace(t)
      BY <2>3, InitialMemory DEF Replace, Types, TypeOK
    <2>4. CASE Assign(t) \/ Patch(t) \/ Pause(t) \/ Reply(t)
      BY <2>4 DEF Assign, Patch, Pause, Reply, fileVars, Types, TypeOK
    <2> QED
      BY <2>1, <2>2, <2>3, <2>4
  <1> QED
    BY <1>2, <1>3, <1>5, <1>6, <1>7, <1>8, <1>9, <1>10 DEF Types, TypeOK

LEMMA CommandTypes == ASSUME Types, NEW t \in Threads, Command(t) PROVE Types'
  <1>0. PICK f \in Field : \E v \in Value(f) :
          /\ server' = [server EXCEPT ![f] = v]
          /\ \/ /\ req' = [req EXCEPT ![t] = [field |-> f, value |-> v]]
                /\ Goes(t, "assign")
             \/ UNCHANGED <<req, pc>>
    BY DEF Command
  <1>1. PICK v \in Value(f) :
          /\ server' = [server EXCEPT ![f] = v]
          /\ \/ /\ req' = [req EXCEPT ![t] = [field |-> f, value |-> v]]
                /\ Goes(t, "assign")
             \/ UNCHANGED <<req, pc>>
    BY <1>0
  <1>2. /\ UNCHANGED <<up, gen, paused, cache, desired, path, tmp, blob, fd, pollPc, got, sending,
                      known>>
        /\ pc[t] = "idle"
    BY DEF Command, fileVars, pollVars
  <1>3. server' \in Settings
    <2>1. server \in Memory /\ server["bright"] # None
      BY DEF Types, TypeOK, Settings
    <2> QED
      BY <1>1, <2>1, SetField
  <1>4. [field |-> f, value |-> v] \in Requests
    BY Values DEF Requests
  <1>5. excused' \in SUBSET {"crossed", "lost", "saves", "adopted", "unreachable", "crash"}
    BY DEF Types, RequestsRight, Command, Fails, Excuse
  <1>6. /\ req' \in [Threads -> Requests \union {None}]
        /\ \A u \in Threads : Busy(u)' => req'[u] \in Requests
        /\ pc' \in [Threads -> {"idle", "assign", "open", "write", "replace", "patch", "pause",
                                "reply"}]
    BY <1>1, <1>4 DEF Types, RequestsRight, TypeOK, Busy, Goes
  <1>7. RequestsRight'
    BY <1>2, <1>5, <1>6 DEF Types, RequestsRight
  <1>8. \A u \in Threads : Busy(u)' =>
          req'[u].field \in Field /\ req'[u].value \in Value(req'[u].field)
    BY <1>6 DEF Requests
  <1> QED
    BY <1>2, <1>3, <1>6, <1>7, <1>8 DEF Types, TypeOK

\* Steps of the poll, and what comes from outside.
LEMMA OtherTypes ==
  ASSUME Types, Getting \/ Polling \/ PollListen \/ Outside
  PROVE  Types'
  <1>1. /\ gen \in Nat \ {0} /\ server \in Settings /\ desired \in Memory
        /\ got # None => got.gen \in 1 .. gen /\ got.set \in Settings
        /\ path \in Memory \union {None, Empty, Torn}
        /\ sending \in Requests \/ pollPc # "send"
    BY DEF Types, TypeOK, RequestsRight
  <1>2. gen' \in Nat \ {0} /\ gen' >= gen /\ up' \in BOOLEAN /\ paused' \in BOOLEAN
    <2>1. gen' = gen \/ gen' = gen + 1
      BY DEF Getting, Polling, PollListen, Outside, PollAnswered, PollUnanswered, PollStore,
         Compare, Adopt, Reconcile, Send, ServerStops, ServerStarts, Crash, serverVars
    <2>2. up' \in BOOLEAN
      BY DEF Getting, Polling, PollListen, Outside, PollAnswered, PollUnanswered, PollStore,
         Compare, Adopt, Reconcile, Send, ServerStops, ServerStarts, Crash, serverVars, Types,
         TypeOK
    <2>3. paused' \in BOOLEAN
      BY DEF Getting, Polling, PollListen, Outside, PollAnswered, PollUnanswered, PollStore,
         Compare, Adopt, Reconcile, Send, ServerStops, ServerStarts, Crash, serverVars, Types,
         TypeOK
    <2> QED
      BY <1>1, <2>1, <2>2, <2>3
  <1>3. server' \in Settings
    <2>1. CASE Send
      <3>1. sending \in Requests /\ sending.field \in Field /\ sending.value \in Value(sending.field)
        BY <1>1, <2>1 DEF Send, Requests
      <3>2. server \in Memory /\ server["bright"] # None
        BY <1>1 DEF Settings
      <3> QED
        BY <1>1, <2>1, <3>1, <3>2, SetField DEF Send
    <2>2. CASE ServerStarts
      BY <2>2, InitialMemory DEF ServerStarts
    <2>3. CASE ~Send /\ ~ServerStarts
      BY <1>1, <2>3 DEF Getting, Polling, PollListen, Outside, PollAnswered, PollUnanswered,
         PollStore, Compare, Adopt, Reconcile, ServerStops, Crash, serverVars
    <2> QED
      BY <2>1, <2>2, <2>3
  <1>4. desired' \in Memory
    <2>1. CASE Adopt
      <3>1. got.set \in Settings
        BY <1>1, <2>1 DEF Adopt, Types, TypeOK
      <3>2. got.set["bright"] \in Value("bright") /\ "bright" \in Field
        BY <3>1, Values DEF Settings, Memory, Field
      <3> QED
        BY <1>1, <2>1, <3>2, SetField DEF Adopt
    <2>2. CASE Crash
      BY <1>1, <2>2, LoadRight DEF Crash
    <2>3. CASE ~Adopt /\ ~Crash
      BY <1>1, <2>3 DEF Getting, Polling, PollListen, Outside, PollAnswered, PollUnanswered,
         PollStore, Compare, Reconcile, Send, ServerStops, ServerStarts
    <2> QED
      BY <2>1, <2>2, <2>3
  <1>5. got' # None => got'.gen \in 1 .. gen' /\ got'.set \in Settings
    <2>1. CASE PollAnswered
      BY <1>1, <1>2, <2>1 DEF PollAnswered, serverVars
    <2>2. got' = got \/ got' = None \/ PollAnswered
      BY DEF Getting, Polling, PollListen, Outside, PollUnanswered, PollStore,
         Compare, Adopt, Reconcile, Send, ServerStops, ServerStarts, Crash, pollVars
    <2> QED
      BY <1>1, <1>2, <2>1, <2>2
  <1>6. cache' \in Settings \union {None}
    BY <1>1 DEF Getting, Polling, PollListen, Outside, PollAnswered, PollUnanswered, PollStore,
       Compare, Adopt, Reconcile, Send, ServerStops, ServerStarts, Crash, Types, TypeOK
  <1>7. pollPc' \in {"idle", "store", "compare", "adopt", "bright", "send", "blank", "listen"}
    BY DEF Getting, Polling, PollListen, Outside, PollAnswered, PollUnanswered, PollStore,
       Compare, Adopt, Reconcile, Send, After, ServerStops, ServerStarts, Crash, pollVars, Types,
       TypeOK
  <1>8. pollPc' \in {"compare", "adopt", "bright", "send", "blank"} => got' # None
    <2>1. CASE Compare \/ Adopt \/ (\E f \in Field : Reconcile(f)) \/ Send
      <3>1. pollPc \in {"compare", "adopt", "bright", "send", "blank"} /\ got' = got
        BY <2>1 DEF Compare, Adopt, Reconcile, Send, Field
      <3> QED
        BY <3>1 DEF Types, TypeOK
    <2>2. CASE PollStore
      BY <2>2 DEF PollStore
    <2>3. CASE ServerStops \/ ServerStarts
      BY <2>3 DEF ServerStops, ServerStarts, pollVars, Types, TypeOK
    <2>4. CASE Getting \/ PollListen \/ Crash
      BY <2>4 DEF Getting, PollAnswered, PollUnanswered, PollListen, Crash
    <2> QED
      BY <2>1, <2>2, <2>3, <2>4 DEF Polling, Outside
  <1>9. known' \in {None} \union 1 .. gen'
    <2>1. CASE Compare
      BY <1>1, <1>2, <2>1 DEF Compare, Types, TypeOK, serverVars
    <2>2. known' = known \/ known' = None \/ Compare
      BY DEF Getting, Polling, PollListen, Outside, PollAnswered, PollUnanswered, PollStore,
         Adopt, Reconcile, Send, ServerStops, ServerStarts, Crash, pollVars
    <2> QED
      BY <1>1, <1>2, <2>1, <2>2 DEF Types, TypeOK
  <1>10. /\ {path', tmp'} \subseteq Memory \union {None, Empty, Torn}
         /\ blob' \in [Threads -> Memory]
         /\ fd' \in [Threads -> {"none", "tmp", "path", "gone"}]
         /\ pc' \in [Threads -> {"idle", "assign", "open", "write", "replace", "patch", "pause",
                                 "reply"}]
    <2>1. CASE Crash
      BY <2>1, InitialMemory DEF Crash, Types, TypeOK
    <2>2. CASE ~Crash
      BY <2>2 DEF Getting, Polling, PollListen, Outside, PollAnswered, PollUnanswered, PollStore,
         Compare, Adopt, Reconcile, Send, ServerStops, ServerStarts, fileVars, Types, TypeOK
    <2> QED
      BY <2>1, <2>2
  <1>11. /\ req' \in [Threads -> Requests \union {None}]
         /\ \A u \in Threads : Busy(u)' => req'[u] \in Requests
    <2>1. CASE Crash
      BY <2>1 DEF Crash, Busy
    <2>2. CASE ~Crash
      <3>1. req' = req /\ pc' = pc
        BY <2>2 DEF Getting, Polling, PollListen, Outside, PollAnswered, PollUnanswered, PollStore,
           Compare, Adopt, Reconcile, Send, ServerStops, ServerStarts
      <3> QED
        BY <3>1 DEF Busy, Types, RequestsRight
    <2> QED
      BY <2>1, <2>2
  <1>12. pollPc' = "send" => sending' \in Requests
    <2>1. CASE \E f \in Field : Reconcile(f)
      <3>1. PICK f \in Field : Reconcile(f)
        BY <2>1
      <3>2. desired[f] # None => desired[f] \in Value(f) /\ desired[f] \in Int
        BY <1>1, Values DEF Memory, Field
      <3>3. pollPc' = "send" => desired[f] # None /\ sending' = [field |-> f, value |-> desired[f]]
        BY <3>1 DEF Reconcile, After
      <3> QED
        BY <3>2, <3>3 DEF Requests
    <2>2. CASE ~\E f \in Field : Reconcile(f)
      BY <1>1, <2>2 DEF Getting, Polling, PollListen, Outside, PollAnswered, PollUnanswered,
         PollStore, Compare, Adopt, Send, After, ServerStops, ServerStarts, Crash, pollVars
    <2> QED
      BY <2>1, <2>2
  <1>13. excused' \in SUBSET {"crossed", "lost", "saves", "adopted", "unreachable", "crash"}
    <2>1. excused \in SUBSET {"crossed", "lost", "saves", "adopted", "unreachable", "crash"}
      BY DEF Types, RequestsRight
    <2>2. CASE Adopt
      <3>1. excused' \subseteq excused \union {"crossed", "adopted"}
        BY <2>2 DEF Adopt
      <3> QED
        BY <2>1, <3>1
    <2>3. CASE Send \/ (\E f \in Field : Reconcile(f)) \/ Crash
      BY <2>1, <2>3 DEF Send, Reconcile, Crash, Fails, Excuse
    <2>4. CASE ~Adopt /\ ~(Send \/ (\E f \in Field : Reconcile(f)) \/ Crash)
      BY <2>1, <2>4 DEF Getting, Polling, PollListen, Outside, PollAnswered,
         PollUnanswered, PollStore, Compare, ServerStops, ServerStarts, Trouble
    <2> QED
      BY <2>2, <2>3, <2>4
  <1>14. RequestsRight'
    BY <1>11, <1>12, <1>13 DEF RequestsRight
  <1>15. /\ \A u \in Threads : Busy(u)' =>
              req'[u].field \in Field /\ req'[u].value \in Value(req'[u].field)
         /\ pollPc' = "send" => sending'.value \in Value(sending'.field)
    BY <1>11, <1>12 DEF Requests
  <1> QED
    BY <1>2, <1>3, <1>4, <1>5, <1>6, <1>7, <1>8, <1>9, <1>10, <1>14, <1>15 DEF Types, TypeOK

LEMMA TypesInductive == Types /\ [Next]_vars => Types'
  <1>1. Types /\ UNCHANGED vars => Types'
    <2> SUFFICES ASSUME Types, UNCHANGED vars PROVE Types'
      OBVIOUS
    <2>1. /\ up' = up /\ gen' = gen /\ server' = server /\ paused' = paused /\ cache' = cache
          /\ desired' = desired /\ path' = path /\ tmp' = tmp /\ blob' = blob /\ fd' = fd
          /\ pc' = pc /\ req' = req /\ pollPc' = pollPc /\ got' = got /\ sending' = sending
          /\ known' = known /\ excused' = excused
      BY DEF vars, serverVars, fileVars, pollVars
    <2>2. RequestsRight'
      BY <2>1 DEF Types, RequestsRight, Busy
    <2> QED
      BY <2>1, <2>2 DEF Types, TypeOK, Busy
  <1> QED
    BY <1>1, ServingTypes, CommandTypes, OtherTypes DEF Next, Serving

-----------------------------------------------------------------------------
(* Reconciling.                                                            *)

LEMMA FieldFacts ==
  ASSUME TypeOK
  PROVE  /\ Field = {"bright", "blank"}
         /\ \A f \in Field : server[f] # None
         /\ desired["blank"] # None
         /\ got # None => (\A f \in Field : got.set[f] # None) /\ got.gen \in Nat /\ got.gen <= gen
         /\ gen \in Nat /\ gen # None
         /\ known # None => known \in Nat /\ known <= gen
  <1>1. \A m \in Settings : \A f \in Field : m[f] # None
    BY Values DEF Settings, Memory, Field
  <1>2. \A m \in Memory : m["blank"] # None
    BY Values DEF Memory
  <1>3. \A n \in Nat : n # None
    <2>1. \A n \in Nat : n \in Int
      OBVIOUS
    <2> QED
      BY <2>1, ControlAssumption, Zenon
  <1> QED
    BY <1>1, <1>2, <1>3 DEF TypeOK, Field

\* Steps of a request after it is remembered.
Saves(t) == Open(t) \/ Write(t) \/ Replace(t) \/ Patch(t) \/ Pause(t) \/ Reply(t)

LEMMA SavesReconciled ==
  ASSUME Types, Reconciled, NEW t \in Threads, Saves(t)
  PROVE  Reconciled'
  <1>1. /\ up' = up /\ gen' = gen /\ server' = server /\ desired' = desired /\ pollPc' = pollPc
        /\ got' = got /\ sending' = sending /\ known' = known
    BY DEF Saves, Open, Write, Replace, Patch, Pause, Reply, serverVars, pollVars
  <1>2. excused \subseteq excused'
    BY DEF Saves, Open, Write, Replace, Patch, Pause, Reply, Fails, Excuse
  <1>3. Clean' => Clean
    BY <1>2 DEF Clean
  <1>4. \A u \in Threads : pc'[u] # "idle" => pc[u] # "idle" /\ req'[u] = req[u]
    BY DEF Saves, Open, Write, Replace, Patch, Pause, Reply, Goes, Types, TypeOK, RequestsRight
  <1>5. \A u \in Threads : pc'[u] = "assign" <=> pc[u] = "assign"
    BY DEF Saves, Open, Write, Replace, Patch, Pause, Reply, Goes, Types, TypeOK
  <1>6. \A f : Assigning(f)' <=> Assigning(f)
    BY <1>4, <1>5 DEF Assigning
  <1>7. \A f : Dealt(f)' <=> Dealt(f)
    BY <1>1 DEF Dealt
  <1>8. KnownRight'
    BY <1>1 DEF Reconciled, KnownRight
  <1>9. OneAtATime'
    BY <1>2, <1>4 DEF Reconciled, OneAtATime, On, Busy
  <1>10. SendRight'
    BY <1>1, <1>2, <1>6 DEF Reconciled, SendRight
  <1>11. SinceGot'
    BY <1>1, <1>3, <1>6 DEF Reconciled, SinceGot
  <1>12. AssignRight'
    BY <1>1, <1>3, <1>4, <1>5, <1>7 DEF Reconciled, AssignRight
  <1>13. Agreed'
    BY <1>1, <1>3, <1>6, <1>7 DEF Reconciled, Agreed
  <1> QED
    BY <1>8, <1>9, <1>10, <1>11, <1>12, <1>13 DEF Reconciled

LEMMA AssignReconciled ==
  ASSUME Types, Reconciled, NEW t \in Threads, Assign(t)
  PROVE  Reconciled'
  <1> DEFINE f == req[t].field
  <1>1. /\ pc[t] = "assign" /\ pc' = [pc EXCEPT ![t] = "open"]
        /\ desired' = [desired EXCEPT ![f] = req[t].value]
        /\ up' = up /\ gen' = gen /\ server' = server /\ pollPc' = pollPc /\ req' = req
        /\ got' = got /\ sending' = sending /\ known' = known /\ excused' = excused
    BY DEF Assign, Goes, serverVars, pollVars
  <1>2. f \in Field /\ req[t].value \in Value(f) /\ req[t].value # None
    BY <1>1, Values DEF Types, TypeOK, Busy
  <1>3. desired'[f] = req[t].value /\ \A g \in Field : g # f => desired'[g] = desired[g]
    BY <1>1, <1>2, SetField DEF Types, TypeOK
  <1>4. \A u \in Threads : pc'[u] # "idle" => pc[u] # "idle"
    BY <1>1 DEF Types, TypeOK
  <1>5. \A u \in Threads : pc'[u] = "assign" <=> pc[u] = "assign" /\ u # t
    BY <1>1 DEF Types, TypeOK
  <1>6. \A g : g # f => (Assigning(g)' <=> Assigning(g))
    BY <1>1, <1>5 DEF Assigning
  <1>7. Clean' = Clean /\ \A g : Dealt(g)' <=> Dealt(g)
    BY <1>1 DEF Clean, Dealt
  <1>8. Assigning(f)
    BY <1>1 DEF Assigning
  <1>9. Clean => ~Assigning(f)'
    <2> SUFFICES ASSUME Clean, NEW u \in Threads, pc'[u] = "assign", req[u].field = f PROVE FALSE
      BY <1>1 DEF Assigning
    <2>1. u # t /\ On(u, f) /\ On(t, f)
      BY <1>1, <1>5 DEF On, Busy
    <2> QED
      BY <1>2, <2>1 DEF Reconciled, OneAtATime, Clean
  <1>10. KnownRight'
    <2>1. desired["bright"] # None => desired'["bright"] # None
      BY <1>2, <1>3 DEF Field
    <2> QED
      BY <1>1, <2>1 DEF Reconciled, KnownRight
  <1>11. OneAtATime'
    BY <1>1, <1>4 DEF Reconciled, OneAtATime, On, Busy
  <1>12. SendRight'
    <2> SUFFICES ASSUME pollPc = "send", "crossed" \notin excused
                 PROVE  ~Assigning(sending.field)' /\ sending.value = desired'[sending.field]
      BY <1>1 DEF SendRight
    <2>1. ~Assigning(sending.field) /\ sending.value = desired[sending.field]
      BY DEF Reconciled, SendRight
    <2>2. sending.field # f /\ sending.field \in Field
      BY <1>8, <2>1 DEF Types, RequestsRight, Requests
    <2>3. ~Assigning(sending.field)'
      BY <1>1, <1>5, <2>1 DEF Assigning
    <2> QED
      BY <1>3, <2>1, <2>2, <2>3
  <1>13. SinceGot'
    <2> SUFFICES ASSUME Clean, up, got # None, got.gen = gen, NEW g \in Field, ~Assigning(g)'
                 PROVE  server[g] \in {got.set[g], desired'[g]}
      BY <1>1, <1>7 DEF SinceGot
    <2>1. CASE g = f
      BY <1>1, <1>3, <2>1 DEF Reconciled, AssignRight
    <2>2. CASE g # f
      BY <1>3, <1>6, <2>2 DEF Reconciled, SinceGot
    <2> QED
      BY <2>1, <2>2
  <1>14. AssignRight'
    BY <1>1, <1>5, <1>7 DEF Reconciled, AssignRight
  <1>15. Agreed'
    <2> SUFFICES ASSUME Clean, up, NEW g \in Field, Dealt(g), ~Assigning(g)'
                 PROVE  server[g] = desired'[g]
      BY <1>1, <1>7 DEF Agreed
    <2>1. CASE g = f
      BY <1>1, <1>3, <2>1 DEF Reconciled, AssignRight
    <2>2. CASE g # f
      BY <1>3, <1>6, <2>2 DEF Reconciled, Agreed
    <2> QED
      BY <2>1, <2>2
  <1> QED
    BY <1>10, <1>11, <1>12, <1>13, <1>14, <1>15 DEF Reconciled

LEMMA CommandReconciled ==
  ASSUME Types, Reconciled, NEW t \in Threads, Command(t)
  PROVE  Reconciled'
  <1>1. /\ pc[t] = "idle" /\ up' = up /\ gen' = gen /\ desired' = desired /\ pollPc' = pollPc
        /\ got' = got /\ sending' = sending /\ known' = known
    BY DEF Command, pollVars
  <1>2. PICK f \in Field : \E v \in Value(f) :
          /\ server' = [server EXCEPT ![f] = v]
          /\ \/ /\ req' = [req EXCEPT ![t] = [field |-> f, value |-> v]]
                /\ Goes(t, "assign")
                /\ Excuse("crossed", \/ \E u \in Threads : On(u, f)
                                     \/ pollPc = "send" /\ sending.field = f)
             \/ /\ UNCHANGED <<req, pc>>
                /\ Fails("lost")
    BY DEF Command
  <1>3. PICK v \in Value(f) :
          /\ server' = [server EXCEPT ![f] = v]
          /\ \/ /\ req' = [req EXCEPT ![t] = [field |-> f, value |-> v]]
                /\ Goes(t, "assign")
                /\ Excuse("crossed", \/ \E u \in Threads : On(u, f)
                                     \/ pollPc = "send" /\ sending.field = f)
             \/ /\ UNCHANGED <<req, pc>>
                /\ Fails("lost")
    BY <1>2
  <1>4. KnownRight'
    BY <1>1 DEF Reconciled, KnownRight
  <1>5. excused \subseteq excused'
    BY <1>3 DEF Fails, Excuse
  <1>6. CASE UNCHANGED <<req, pc>> /\ Fails("lost")
    <2>1. ~Clean' /\ req' = req /\ pc' = pc
      BY <1>6 DEF Fails, Clean
    <2>2. OneAtATime'
      BY <1>5, <2>1 DEF Reconciled, OneAtATime, On, Busy
    <2>3. SendRight'
      BY <1>1, <1>5, <2>1 DEF Reconciled, SendRight, Assigning
    <2> QED
      BY <1>4, <2>1, <2>2, <2>3 DEF Reconciled, SinceGot, AssignRight, Agreed
  <1>7. CASE /\ req' = [req EXCEPT ![t] = [field |-> f, value |-> v]]
             /\ Goes(t, "assign")
             /\ Excuse("crossed", \/ \E u \in Threads : On(u, f)
                                  \/ pollPc = "send" /\ sending.field = f)
    <2>1. /\ pc'[t] = "assign" /\ req'[t].field = f /\ req'[t].value = v
          /\ \A u \in Threads : u # t => pc'[u] = pc[u] /\ req'[u] = req[u]
      BY <1>7 DEF Goes, Types, TypeOK, RequestsRight
    <2>2. server'[f] = v /\ \A g \in Field : g # f => server'[g] = server[g]
      BY <1>3 DEF Types, TypeOK, Settings, Memory
    <2>3. "crossed" \notin excused' =>
            /\ \A u \in Threads : ~On(u, f)
            /\ ~(pollPc = "send" /\ sending.field = f)
            /\ "crossed" \notin excused
      BY <1>7 DEF Excuse
    <2>4. Clean' => Clean /\ "crossed" \notin excused'
      BY <1>5 DEF Clean
    <2>5. \A g : g # f => (Assigning(g)' <=> Assigning(g))
      BY <1>1, <2>1 DEF Assigning
    <2>6. Assigning(f)'
      BY <2>1 DEF Assigning
    <2>7. OneAtATime'
      <3> SUFFICES ASSUME "crossed" \notin excused', NEW g \in Field,
                          NEW u \in Threads, NEW w \in Threads, On(u, g)', On(w, g)'
                   PROVE  u = w
        BY DEF OneAtATime
      <3>1. ASSUME NEW x \in Threads, x # t, On(x, g)'
            PROVE  On(x, g) /\ g # f
        BY <2>1, <2>3, <3>1 DEF On, Busy
      <3>2. On(t, g)' => g = f
        BY <2>1 DEF On
      <3> QED
        BY <2>3, <3>1, <3>2 DEF Reconciled, OneAtATime
    <2>8. SendRight'
      BY <1>1, <2>3, <2>5 DEF Reconciled, SendRight
    <2>9. SinceGot'
      BY <1>1, <2>2, <2>4, <2>5, <2>6 DEF Reconciled, SinceGot
    <2>10. \A g : Dealt(g)' <=> Dealt(g)
      BY <1>1 DEF Dealt
    <2>11. AssignRight'
      <3> SUFFICES ASSUME Clean', up, NEW u \in Threads, pc'[u] = "assign"
                   PROVE  \/ server'[req'[u].field] = req'[u].value
                          \/ /\ ~Dealt(req'[u].field)
                             /\ (got # None /\ got.gen = gen) =>
                                  server'[req'[u].field] = got.set[req'[u].field]
        BY <1>1, <2>10 DEF AssignRight
      <3>1. CASE u = t
        BY <2>1, <2>2, <3>1
      <3>2. CASE u # t
        <4>1. pc[u] = "assign" /\ req'[u] = req[u] /\ Busy(u)
          BY <2>1, <3>2 DEF Busy
        <4>2. req[u].field \in Field /\ req[u].field # f
          BY <2>3, <2>4, <4>1 DEF On, Types, TypeOK
        <4> QED
          BY <2>2, <2>4, <4>1, <4>2 DEF Reconciled, AssignRight
      <3> QED
        BY <3>1, <3>2
    <2>12. Agreed'
      BY <1>1, <2>2, <2>4, <2>5, <2>6, <2>10 DEF Reconciled, Agreed
    <2> QED
      BY <1>4, <2>7, <2>8, <2>9, <2>11, <2>12 DEF Reconciled
  <1> QED
    BY <1>3, <1>6, <1>7

\* Steps of the poll that neither decide nor send.
LEMMA ListeningReconciled ==
  ASSUME Types, Reconciled, Getting \/ PollStore \/ PollListen
  PROVE  Reconciled'
  <1>1. /\ up' = up /\ gen' = gen /\ server' = server /\ desired' = desired /\ pc' = pc
        /\ req' = req /\ known' = known /\ excused' = excused /\ sending' = sending
    BY DEF Getting, PollAnswered, PollUnanswered, PollStore, PollListen, serverVars, Trouble
  <1>2. /\ pollPc \in {"idle", "store", "listen"} /\ pollPc' \in {"idle", "store", "listen", "compare"}
        /\ got' = got \/ got' = None \/ (got' = [gen |-> gen, set |-> server])
        /\ (got # None /\ got' = got) \/ got' # got \/ got' = None
    BY DEF Getting, PollAnswered, PollUnanswered, PollStore, PollListen
  <1>3. /\ Clean' = Clean /\ (\A f : Assigning(f)' <=> Assigning(f))
        /\ \A f : Dealt(f)' <=> Dealt(f)
    BY <1>1, <1>2 DEF Clean, Assigning, Dealt
  <1>4. KnownRight'
    <2>1. known # None => known <= gen
      BY FieldFacts DEF Types
    <2> QED
      BY <1>1, <1>2, <2>1 DEF Reconciled, KnownRight
  <1>5. OneAtATime' /\ SendRight'
    BY <1>1, <1>2 DEF Reconciled, OneAtATime, SendRight, On, Busy
  <1>6. SinceGot'
    BY <1>1, <1>2, <1>3 DEF Reconciled, SinceGot
  <1>7. AssignRight'
    BY <1>1, <1>2, <1>3 DEF Reconciled, AssignRight
  <1>8. Agreed'
    BY <1>1, <1>3 DEF Reconciled, Agreed
  <1> QED
    BY <1>4, <1>5, <1>6, <1>7, <1>8 DEF Reconciled

LEMMA CompareReconciled == ASSUME Types, Reconciled, Compare PROVE Reconciled'
  <1>1. /\ up' = up /\ gen' = gen /\ server' = server /\ desired' = desired /\ pc' = pc
        /\ req' = req /\ excused' = excused /\ sending' = sending /\ got' = got
        /\ known' = got.gen /\ pollPc = "compare" /\ got # None /\ got.gen \in Nat /\ got.gen # None
    <2>1. got # None /\ got.gen \in Nat
      BY FieldFacts DEF Compare, Types, TypeOK
    <2>2. got.gen \in Int
      BY <2>1
    <2>3. got.gen # None
      BY <2>2, ControlAssumption, Zenon
    <2> QED
      BY <2>1, <2>3 DEF Compare, serverVars
  <1>2. Clean' = Clean /\ (\A f : Assigning(f)' <=> Assigning(f))
    BY <1>1 DEF Clean, Assigning
  <1>3. \/ pollPc' = "listen" /\ known' = known
        \/ pollPc' = "adopt" /\ known = None
        \/ pollPc' = "bright" /\ desired["bright"] # None
    BY <1>1 DEF Compare, Reconciled, KnownRight
  <1>4. \A f : Dealt(f)' => Dealt(f)
    BY <1>1, <1>3 DEF Dealt
  <1>5. KnownRight'
    BY <1>1, <1>3 DEF Reconciled, KnownRight
  <1>6. OneAtATime' /\ SendRight'
    BY <1>1, <1>3 DEF Reconciled, OneAtATime, SendRight, On, Busy
  <1>7. SinceGot' /\ AssignRight' /\ Agreed'
    BY <1>1, <1>2, <1>4 DEF Reconciled, SinceGot, AssignRight, Agreed
  <1> QED
    BY <1>5, <1>6, <1>7 DEF Reconciled

LEMMA AdoptReconciled == ASSUME Types, Reconciled, Adopt PROVE Reconciled'
  <1>1. /\ up' = up /\ gen' = gen /\ server' = server /\ pc' = pc
        /\ req' = req /\ sending' = sending /\ got' = got /\ known' = known
        /\ pollPc = "adopt" /\ pollPc' = "listen"
        /\ desired' = [desired EXCEPT !["bright"] = got.set["bright"]]
        /\ got # None /\ known = got.gen
    BY DEF Adopt, serverVars, Types, TypeOK, Reconciled, KnownRight
  <1>2. /\ desired'["bright"] = got.set["bright"] /\ desired'["bright"] # None
        /\ desired'["blank"] = desired["blank"]
    BY <1>1, FieldFacts DEF Types, TypeOK, Memory
  <1>3. excused \subseteq excused'
    BY DEF Adopt
  <1>4. Clean' =>
          /\ Clean /\ (\A t \in Threads : pc[t] # "assign")
          /\ desired["bright"] = None /\ desired["blank"] = got.set["blank"]
    <2>1. \A t \in Threads : (desired["bright"] # None \/ pc[t] = "assign") => "crossed" \in excused'
      BY DEF Adopt
    <2>2. desired["blank"] # got.set["blank"] => "adopted" \in excused'
      BY DEF Adopt
    <2>3. \E t \in Threads : TRUE
      BY ControlAssumption
    <2> QED
      BY <1>3, <2>1, <2>2, <2>3 DEF Clean
  <1>5. KnownRight'
    BY <1>1, <1>2 DEF Reconciled, KnownRight
  <1>6. OneAtATime' /\ SendRight'
    BY <1>1, <1>3 DEF Reconciled, OneAtATime, SendRight, On, Busy
  <1>7. AssignRight'
    BY <1>1, <1>4 DEF AssignRight
  <1>8. ASSUME Clean', up, got.gen = gen, NEW f \in Field
        PROVE  server[f] = desired'[f]
    <2>1. server[f] \in {got.set[f], desired[f]}
      BY <1>1, <1>4, <1>8 DEF Reconciled, SinceGot, Assigning
    <2> QED
      BY <1>2, <1>4, <1>8, <2>1, FieldFacts DEF Types
  <1>9. SinceGot'
    BY <1>1, <1>8 DEF SinceGot
  <1>10. Agreed'
    BY <1>1, <1>8 DEF Agreed, Dealt
  <1> QED
    BY <1>5, <1>6, <1>7, <1>9, <1>10 DEF Reconciled

LEMMA ReconcileReconciled ==
  ASSUME Types, Reconciled, NEW f \in Field, Reconcile(f)
  PROVE  Reconciled'
  <1>1. /\ up' = up /\ gen' = gen /\ server' = server /\ desired' = desired /\ pc' = pc
        /\ req' = req /\ got' = got /\ known' = known
        /\ pollPc = f /\ f \in {"bright", "blank"} /\ got # None /\ known = got.gen
        /\ desired[f] # None
    <2>1. /\ up' = up /\ gen' = gen /\ server' = server /\ desired' = desired /\ pc' = pc
          /\ req' = req /\ got' = got /\ known' = known
          /\ pollPc = f /\ f \in {"bright", "blank"}
      BY DEF Reconcile, serverVars, Field
    <2>2. got # None /\ known = got.gen
      BY <2>1 DEF Types, TypeOK, Reconciled, KnownRight
    <2>3. known # None /\ pollPc # "adopt"
      <3>1. known \in Int
        BY <2>2, FieldFacts DEF Types
      <3>2. known # None
        BY <3>1, ControlAssumption, Zenon
      <3> QED
        BY <2>1, <3>2
    <2>4. desired[f] # None
      BY <2>1, <2>3, FieldFacts DEF Types, Reconciled, KnownRight
    <2> QED
      BY <2>1, <2>2, <2>4
  <1>2. excused \subseteq excused' /\ ("crossed" \notin excused' => ~Assigning(f))
    BY DEF Reconcile, Excuse, Assigning
  <1>3. \/ /\ desired[f] # got.set[f] /\ pollPc' = "send"
           /\ sending' = [field |-> f, value |-> desired[f]]
        \/ desired[f] = got.set[f] /\ pollPc' = After(f)
    BY <1>1 DEF Reconcile
  <1>4. (Clean' => Clean /\ "crossed" \notin excused') /\ (\A g : Assigning(g)' <=> Assigning(g))
    BY <1>1, <1>2 DEF Clean, Assigning
  <1>5. KnownRight'
    BY <1>1, <1>3 DEF Reconciled, KnownRight, After
  <1>6. OneAtATime'
    BY <1>1, <1>2 DEF Reconciled, OneAtATime, On, Busy
  <1>7. SendRight'
    <2> SUFFICES ASSUME pollPc' = "send", "crossed" \notin excused'
                 PROVE  ~Assigning(sending.field)' /\ sending'.value = desired'[sending'.field]
      BY DEF SendRight
    <2>1. sending'.field = f /\ sending'.value = desired[f]
      BY <1>3 DEF After
    <2> QED
      BY <1>1, <1>2, <2>1 DEF Assigning
  <1>8. SinceGot'
    BY <1>1, <1>4 DEF Reconciled, SinceGot
  <1>9. ASSUME NEW g \in Field, Dealt(g)'
        PROVE  Dealt(g) \/ (g = f /\ known = gen /\ desired[f] = got.set[f])
    BY <1>1, <1>3, <1>9 DEF Dealt, After, Field
  <1>10. AssignRight'
    <2> SUFFICES ASSUME Clean', up, NEW t \in Threads, pc[t] = "assign"
                 PROVE  \/ server[req[t].field] = req[t].value
                        \/ /\ ~Dealt(req[t].field)'
                           /\ (got # None /\ got.gen = gen) =>
                                server[req[t].field] = got.set[req[t].field]
      BY <1>1 DEF AssignRight
    <2>1. req[t].field # f
      BY <1>2, <1>4 DEF Assigning
    <2>2. req[t].field \in Field
      BY DEF Types, TypeOK, Busy
    <2>3. Dealt(req[t].field)' => Dealt(req[t].field)
      BY <1>1, <1>3, <2>1, <2>2 DEF Dealt, After, Field
    <2> QED
      BY <1>4, <2>3 DEF Reconciled, AssignRight
  <1>11. Agreed'
    <2> SUFFICES ASSUME Clean', up, NEW g \in Field, Dealt(g)', ~Assigning(g)
                 PROVE  server[g] = desired[g]
      BY <1>1, <1>4 DEF Agreed
    <2>1. CASE Dealt(g)
      BY <1>4, <2>1 DEF Reconciled, Agreed
    <2>2. CASE g = f /\ known = gen /\ desired[f] = got.set[f]
      BY <1>1, <1>4, <2>2 DEF Reconciled, SinceGot
    <2> QED
      BY <1>9, <2>1, <2>2
  <1> QED
    BY <1>5, <1>6, <1>7, <1>8, <1>10, <1>11 DEF Reconciled

LEMMA SendReconciled == ASSUME Types, Reconciled, Send PROVE Reconciled'
  <1> DEFINE f == sending.field
  <1>1. /\ up' = up /\ gen' = gen /\ desired' = desired /\ pc' = pc
        /\ req' = req /\ got' = got /\ known' = known /\ pollPc = "send"
        /\ pollPc' = After(f) /\ f \in Field /\ sending \in Requests
    BY DEF Send, Types, RequestsRight, Requests
  <1>2. excused \subseteq excused'
    BY DEF Send, Fails
  <1>3. (Clean' /\ up) => server' = [server EXCEPT ![f] = sending.value]
    BY DEF Send, Fails, Clean
  <1>4. (Clean' => Clean /\ "crossed" \notin excused) /\ (\A g : Assigning(g)' <=> Assigning(g))
    BY <1>1, <1>2 DEF Clean, Assigning
  <1>5. Clean' => ~Assigning(f) /\ sending.value = desired[f]
    BY <1>1, <1>4 DEF Reconciled, SendRight
  <1>6. (Clean' /\ up) => server'[f] = desired[f] /\ \A g \in Field : g # f => server'[g] = server[g]
    BY <1>1, <1>3, <1>5 DEF Types, TypeOK, Settings, Memory
  <1>7. KnownRight'
    BY <1>1 DEF Reconciled, KnownRight, After
  <1>8. OneAtATime'
    BY <1>1, <1>2 DEF Reconciled, OneAtATime, On, Busy
  <1>9. SendRight'
    BY <1>1 DEF SendRight, After
  <1>10. SinceGot'
    BY <1>1, <1>4, <1>6 DEF Reconciled, SinceGot
  <1>11. ASSUME NEW g \in Field, g # f, Dealt(g)'
         PROVE  Dealt(g)
    BY <1>1, <1>11 DEF Dealt, After, Field
  <1>12. AssignRight'
    <2> SUFFICES ASSUME Clean', up, NEW t \in Threads, pc[t] = "assign"
                 PROVE  \/ server'[req[t].field] = req[t].value
                        \/ /\ ~Dealt(req[t].field)'
                           /\ (got # None /\ got.gen = gen) =>
                                server'[req[t].field] = got.set[req[t].field]
      BY <1>1 DEF AssignRight
    <2>1. req[t].field # f /\ req[t].field \in Field
      BY <1>5 DEF Assigning, Types, TypeOK, Busy
    <2>2. Dealt(req[t].field)' => Dealt(req[t].field)
      BY <1>1, <2>1 DEF Dealt, After, Field
    <2> QED
      BY <1>4, <1>6, <2>1, <2>2 DEF Reconciled, AssignRight
  <1>13. Agreed'
    BY <1>1, <1>4, <1>6, <1>11 DEF Reconciled, Agreed
  <1> QED
    BY <1>7, <1>8, <1>9, <1>10, <1>12, <1>13 DEF Reconciled

LEMMA OutsideReconciled ==
  ASSUME Types, Reconciled, Outside \/ UNCHANGED vars
  PROVE  Reconciled'
  <1>1. CASE ServerStops
    <2>1. /\ ~up' /\ gen' = gen /\ server' = server /\ desired' = desired /\ pc' = pc
          /\ req' = req /\ known' = known /\ excused' = excused /\ sending' = sending
          /\ got' = got /\ pollPc' = pollPc
      BY <1>1 DEF ServerStops, pollVars, Trouble
    <2> QED
      BY <2>1 DEF Reconciled, KnownRight, OneAtATime, SendRight, SinceGot, AssignRight, Agreed,
         On, Busy, Assigning
  <1>2. CASE ServerStarts
    <2>1. /\ gen' = gen + 1 /\ desired' = desired /\ pc' = pc
          /\ req' = req /\ known' = known /\ excused' = excused /\ sending' = sending
          /\ got' = got /\ pollPc' = pollPc
      BY <1>2 DEF ServerStarts, pollVars
    <2>2. known' # gen' /\ (got' # None => got'.gen # gen')
      <3>1. gen \in Nat /\ (known # None => known \in Nat /\ known <= gen)
            /\ (got # None => got.gen \in Nat /\ got.gen <= gen)
        BY FieldFacts DEF Types
      <3>2. gen + 1 \in Int
        BY <3>1
      <3>3. gen + 1 # None
        BY <3>2, ControlAssumption, Zenon
      <3> QED
        BY <2>1, <3>1, <3>3
    <2>3. KnownRight' /\ OneAtATime' /\ SendRight'
      BY <2>1 DEF Reconciled, KnownRight, OneAtATime, SendRight, On, Busy, Assigning
    <2> QED
      BY <2>2, <2>3 DEF Reconciled, SinceGot, AssignRight, Agreed, Dealt
  <1>3. CASE Crash
    <2>1. /\ known' = None /\ got' = None /\ pollPc' = "idle" /\ gen' = gen
          /\ \A t \in Threads : pc'[t] = "idle"
      BY <1>3 DEF Crash, serverVars
    <2>2. gen # None
      BY FieldFacts DEF Types
    <2> QED
      BY <2>1, <2>2 DEF Reconciled, KnownRight, OneAtATime, SendRight, SinceGot, AssignRight,
         Agreed, On, Busy, Dealt
  <1>4. CASE UNCHANGED vars
    <2>1. /\ up' = up /\ gen' = gen /\ server' = server /\ desired' = desired /\ pc' = pc
          /\ req' = req /\ known' = known /\ excused' = excused /\ sending' = sending
          /\ got' = got /\ pollPc' = pollPc
      BY <1>4 DEF vars, serverVars, pollVars
    <2>2. KnownRight' /\ OneAtATime' /\ SendRight'
      BY <2>1 DEF Reconciled, KnownRight, OneAtATime, SendRight, On, Busy, Assigning
    <2>3. (\A g : Dealt(g)' <=> Dealt(g)) /\ (\A g : Assigning(g)' <=> Assigning(g))
          /\ Clean' = Clean
      BY <2>1 DEF Dealt, Assigning, Clean
    <2>4. SinceGot' /\ AssignRight' /\ Agreed'
      BY <2>1, <2>3 DEF Reconciled, SinceGot, AssignRight, Agreed
    <2> QED
      BY <2>2, <2>4 DEF Reconciled
  <1> QED
    BY <1>1, <1>2, <1>3, <1>4 DEF Outside

LEMMA ReconciledInductive == Types /\ Reconciled /\ [Next]_vars => Reconciled'
  BY SavesReconciled, AssignReconciled, CommandReconciled, ListeningReconciled, CompareReconciled,
     AdoptReconciled, ReconcileReconciled, SendReconciled, OutsideReconciled
     DEF Next, Serving, Saves, Polling

LEMMA InitReconciled == Init => Reconciled
  <1> SUFFICES ASSUME Init PROVE Reconciled
    OBVIOUS
  <1>1. /\ known = None /\ got = None /\ pollPc = "idle" /\ gen = 1
        /\ \A t \in Threads : pc[t] = "idle"
    BY DEF Init
  <1>2. gen # None
    BY <1>1, ControlAssumption
  <1> QED
    BY <1>1, <1>2 DEF Reconciled, KnownRight, OneAtATime, SendRight, SinceGot, AssignRight, Agreed,
       On, Busy, Dealt

-----------------------------------------------------------------------------
(* The rotation.                                                           *)

LEMMA AssignPause ==
  ASSUME Types, Reconciled, PauseRight, NEW t \in Threads, Assign(t)
  PROVE  PauseRight'
  <1>1. /\ pc[t] = "assign" /\ pc'[t] = "open" /\ req' = req /\ gen' = gen
        /\ excused' = excused /\ paused' = paused
        /\ \A u \in Threads : u # t => pc'[u] = pc[u]
    BY DEF Assign, Goes, Types, TypeOK, serverVars
  <1>2. desired' = [desired EXCEPT ![req[t].field] = req[t].value] /\ req[t].field \in Field
    BY <1>1 DEF Assign, Types, TypeOK, Busy
  <1>3. Field = {"bright", "blank"} /\ "blank" \in DOMAIN desired
    BY DEF Types, TypeOK, Memory, Field
  <1>4. CASE On(t, "blank")
    <2>1. desired'["blank"] = req[t].value
      BY <1>2, <1>3, <1>4 DEF On
    <2>2. Owes(t)'
      BY <1>1, <1>4 DEF On, Busy, Owes, Saving
    <2>3. \A u \in Threads : (Kept /\ On(u, "blank")) => u = t
      BY <1>3, <1>4 DEF Kept, Clean, Reconciled, OneAtATime
    <2>4. \A u \in Threads : u # t => (On(u, "blank")' <=> On(u, "blank"))
      BY <1>1 DEF On, Busy
    <2>5. Kept' <=> Kept
      BY <1>1 DEF Kept, Clean
    <2>6. \A u \in Threads : pc'[u] = "pause" => req'[u].field = "blank"
      BY <1>1 DEF PauseRight
    <2>7. ASSUME Kept', NEW u \in Threads, On(u, "blank")'
          PROVE  desired'["blank"] = req'[u].value
      BY <1>1, <2>1, <2>3, <2>4, <2>5, <2>7
    <2> QED
      BY <2>2, <2>6, <2>7 DEF PauseRight
  <1>5. CASE ~On(t, "blank")
    <2>1. desired'["blank"] = desired["blank"]
      BY <1>1, <1>2, <1>3, <1>5 DEF On, Busy
    <2>2. \A u \in Threads : On(u, "blank")' <=> On(u, "blank")
      BY <1>1, <1>5 DEF On, Busy
    <2>3. \A u \in Threads : On(u, "blank") => pc'[u] = pc[u]
      BY <1>1, <1>5
    <2>4. Kept' <=> Kept
      BY <1>1 DEF Kept, Clean
    <2>5. \A u \in Threads : Owes(u)' <=> Owes(u)
      BY <2>2, <2>3 DEF Owes
    <2>6. \A u \in Threads : pc'[u] = "pause" => req'[u].field = "blank"
      BY <1>1 DEF PauseRight
    <2> QED
      BY <1>1, <2>1, <2>2, <2>3, <2>4, <2>5, <2>6 DEF PauseRight
  <1> QED
    BY <1>4, <1>5

LEMMA ServingPause ==
  ASSUME Types, Reconciled, PauseRight, NEW t \in Threads, Saves(t)
  PROVE  PauseRight'
  <1>1. /\ gen' = gen /\ desired' = desired /\ excused \subseteq excused'
        /\ \A u \in Threads : u # t => pc'[u] = pc[u] /\ req'[u] = req[u]
    BY DEF Saves, Open, Write, Replace, Patch, Pause, Reply, Goes, serverVars, Fails, Excuse,
       Types, TypeOK, RequestsRight
  <1>2. \/ /\ pc[t] \in Saving /\ pc'[t] \in Saving \union {"patch"}
           /\ req'[t] = req[t] /\ paused' = paused
        \/ /\ pc[t] = "patch" /\ pc'[t] = (IF req[t].field = "blank" THEN "pause" ELSE "reply")
           /\ req'[t] = req[t] /\ paused' = paused
        \/ /\ Pause(t) /\ pc[t] = "pause" /\ pc'[t] = "reply" /\ req'[t] = req[t]
        \/ pc[t] = "reply" /\ pc'[t] = "idle" /\ paused' = paused
    BY DEF Saves, Open, Write, Replace, Patch, Pause, Reply, Goes, serverVars, Saving, Types,
       TypeOK
  <1>3. Kept' => Kept
    BY <1>1 DEF Kept, Clean
  <1>4. \A u \in Threads : u # t => (On(u, "blank")' <=> On(u, "blank"))
    BY <1>1 DEF On, Busy
  <1>5. ASSUME Kept', NEW u \in Threads, On(u, "blank")', pc'[u] \in Saving \union Late
        PROVE  desired'["blank"] = req'[u].value
    <2>1. CASE u # t
      BY <1>1, <1>3, <1>4, <1>5, <2>1 DEF PauseRight, Kept
    <2>2. CASE u = t
      <3>1. On(t, "blank") /\ pc[t] \in Saving \union Late /\ req'[t] = req[t]
        BY <1>2, <1>5, <2>2 DEF On, Busy, Saving, Late
      <3> QED
        BY <1>1, <1>3, <1>5, <2>2, <3>1 DEF PauseRight, Kept
    <2> QED
      BY <2>1, <2>2
  <1>6. ASSUME Kept', \A u \in Threads : ~Owes(u)'
        PROVE  paused' <=> desired'["blank"] = 1
    <2>1. CASE Pause(t) /\ On(t, "blank")
      <3>1. desired["blank"] = req[t].value
        BY <1>3, <1>6, <2>1 DEF PauseRight, Kept, Pause, Late
      <3>2. "unreachable" \notin excused'
        BY <1>6 DEF Kept
      <3>3. paused' = (req[t].value = 1)
        BY <2>1, <3>2 DEF Pause, Fails
      <3> QED
        BY <1>1, <3>1, <3>3
    <2>2. CASE Pause(t) /\ ~On(t, "blank")
      <3>1. FALSE
        BY <2>2 DEF PauseRight, Pause, On, Busy
      <3> QED
        BY <3>1
    <2>3. CASE ~Pause(t)
      <3>1. paused' = paused
        BY <1>2, <2>3
      <3>2. ~Owes(t)
        BY <1>2, <1>6, <2>3 DEF Owes, On, Busy, Saving
      <3>3. \A u \in Threads : ~Owes(u)
        BY <1>1, <1>4, <1>6, <3>2 DEF Owes
      <3> QED
        BY <1>1, <1>3, <1>6, <3>1, <3>3 DEF PauseRight, Kept, Owes
    <2> QED
      BY <2>1, <2>2, <2>3
  <1>7. \A u \in Threads : pc'[u] = "pause" => req'[u].field = "blank"
    BY <1>1, <1>2 DEF PauseRight, Saving
  <1> QED
    BY <1>5, <1>6, <1>7 DEF PauseRight

LEMMA CommandPause ==
  ASSUME Types, PauseRight, NEW t \in Threads, Command(t)
  PROVE  PauseRight'
  <1>1. /\ pc[t] = "idle" /\ pc'[t] \in {"idle", "assign"} /\ paused' = paused /\ gen' = gen
        /\ desired' = desired /\ excused \subseteq excused'
        /\ \A u \in Threads : u # t => pc'[u] = pc[u] /\ req'[u] = req[u]
    BY DEF Command, Goes, Types, TypeOK, RequestsRight, Fails, Excuse
  <1>2. (Kept' => Kept) /\ (\A u \in Threads : Owes(u)' <=> Owes(u))
    BY <1>1 DEF Kept, Clean, Owes, On, Busy, Saving
  <1>3. \A u \in Threads : (On(u, "blank")' /\ pc'[u] \in Saving \union Late) =>
          On(u, "blank") /\ pc[u] \in Saving \union Late /\ req'[u] = req[u]
    BY <1>1 DEF On, Busy, Saving, Late
  <1>4. \A u \in Threads : pc'[u] = "pause" => req'[u].field = "blank"
    BY <1>1 DEF PauseRight
  <1> QED
    BY <1>1, <1>2, <1>3, <1>4 DEF PauseRight

LEMMA OtherPause ==
  ASSUME Types, PauseRight, Getting \/ Polling \/ PollListen \/ Outside \/ UNCHANGED vars
  PROVE  PauseRight'
  <1>1. CASE Crash
    <2>1. "crash" \in excused' /\ \A t \in Threads : pc'[t] = "idle"
      BY <1>1 DEF Crash, Fails
    <2> QED
      BY <2>1 DEF PauseRight, Kept
  <1>2. CASE ServerStarts
    <2>1. gen' # 1 /\ pc' = pc /\ req' = req
      BY <1>2 DEF ServerStarts, Types, TypeOK
    <2> QED
      BY <2>1 DEF PauseRight, Kept
  <1>3. CASE ~Crash /\ ~ServerStarts
    <2>1. pc' = pc /\ req' = req /\ paused' = paused /\ gen' = gen
      BY <1>3 DEF Getting, Polling, PollListen, Outside, PollAnswered, PollUnanswered, PollStore,
         Compare, Adopt, Reconcile, Send, ServerStops, serverVars, vars
    <2>2. excused \subseteq excused'
      BY <1>3 DEF Getting, Polling, PollListen, Outside, PollAnswered, PollUnanswered, PollStore,
         Compare, Adopt, Reconcile, Send, ServerStops, vars, Trouble, Excuse, Fails
    <2>3. desired'["blank"] = desired["blank"]
      <3>1. CASE Adopt
        BY <3>1 DEF Adopt, Types, TypeOK, Memory, Field
      <3>2. CASE ~Adopt
        BY <1>3, <3>2 DEF Getting, Polling, PollListen, Outside, PollAnswered, PollUnanswered,
           PollStore, Compare, Reconcile, Send, ServerStops, vars
      <3> QED
        BY <3>1, <3>2
    <2> QED
      BY <2>1, <2>2, <2>3 DEF PauseRight, Kept, Clean, Owes, On, Busy
  <1> QED
    BY <1>1, <1>2, <1>3

LEMMA PauseInductive == Types /\ Reconciled /\ PauseRight /\ [Next]_vars => PauseRight'
  BY AssignPause, ServingPause, CommandPause, OtherPause DEF Next, Serving, Saves

LEMMA InitPause == Init => PauseRight
  <1> SUFFICES ASSUME Init PROVE PauseRight
    OBVIOUS
  <1>1. paused = FALSE /\ desired["blank"] = 0 /\ \A t \in Threads : pc[t] = "idle"
    BY InitialMemory DEF Init
  <1> QED
    BY <1>1 DEF PauseRight, On, Busy

-----------------------------------------------------------------------------
(* The state file.                                                         *)

LEMMA OpenFile ==
  ASSUME Types, FileRight, NEW t \in Threads, Open(t)
  PROVE  FileRight'
  <1> SUFFICES ASSUME "saves" \notin excused' PROVE FileRight'
    BY DEF FileRight
  <1>1. /\ pc[t] = "open" /\ pc'[t] = "write" /\ path' = path /\ tmp' = Empty
        /\ desired' = desired /\ blob'[t] = desired /\ fd'[t] = "tmp"
        /\ "saves" \notin excused /\ \A u \in Threads : pc[u] \notin {"write", "replace"}
        /\ \A u \in Threads : u # t => pc'[u] = pc[u] /\ fd'[u] = fd[u] /\ blob'[u] = blob[u]
    BY DEF Open, Goes, Fails, Excuse, Types, TypeOK
  <1>2. Saved(blob[t])'
    BY <1>1 DEF Saved
  <1> QED
    BY <1>1, <1>2 DEF FileRight, Saving

LEMMA WriteFile ==
  ASSUME Types, FileRight, NEW t \in Threads, Write(t)
  PROVE  FileRight'
  <1> SUFFICES ASSUME "saves" \notin excused PROVE FileRight'
    BY DEF FileRight, Write
  <1>1. /\ pc[t] = "write" /\ pc'[t] = "replace" /\ desired' = desired /\ blob' = blob
        /\ fd'[t] = "none" /\ excused' = excused
        /\ \A u \in Threads : u # t => pc'[u] = pc[u] /\ fd'[u] = fd[u]
    BY DEF Write, Goes, Types, TypeOK
  <1>2. tmp = Empty /\ fd[t] = "tmp"
    BY <1>1 DEF FileRight
  <1>3. path' = path /\ tmp' = blob[t]
    <2>1. Empty # Torn
      BY ControlAssumption
    <2>2. Overlaid(Empty, blob[t]) = {blob[t]}
      BY <2>1 DEF Overlaid
    <2> QED
      BY <1>2, <2>2 DEF Write
  <1>4. \A u \in Threads : u # t => pc[u] \notin {"write", "replace"}
    BY <1>1 DEF FileRight
  <1>5. (\A u \in Threads : pc'[u] # "open") => Saved(blob[t])'
    BY <1>1 DEF FileRight, Saved
  <1> QED
    BY <1>1, <1>3, <1>4, <1>5 DEF FileRight, Saving

LEMMA ReplaceFile ==
  ASSUME Types, FileRight, NEW t \in Threads, Replace(t)
  PROVE  FileRight'
  <1> SUFFICES ASSUME "saves" \notin excused PROVE FileRight'
    BY DEF FileRight, Replace
  <1>1. /\ pc[t] = "replace" /\ pc'[t] = "patch" /\ desired' = desired /\ excused' = excused
        /\ \A u \in Threads : u # t => pc'[u] = pc[u] /\ blob'[u] = blob[u]
    BY DEF Replace, Goes, Types, TypeOK
  <1>2. tmp = blob[t] /\ blob[t] \in Memory
    BY <1>1 DEF FileRight, Types, TypeOK
  <1>3. blob[t] # None /\ Load(blob[t]) = blob[t]
    BY <1>2, LoadRight
  <1>4. \A u \in Threads : u # t => pc[u] \notin {"write", "replace"}
    BY <1>1 DEF FileRight
  <1>5. \A u \in Threads : fd[u] = "none"
    BY <1>1, <1>4 DEF FileRight
  <1>6. path' = blob[t] /\ \A u \in Threads : fd'[u] = "none"
    BY <1>2, <1>3, <1>5 DEF Replace
  <1>7. (\A u \in Threads : pc'[u] \notin Saving) => Saved(Load(path))'
    BY <1>1, <1>3, <1>6 DEF FileRight, Saved, Saving
  <1> QED
    BY <1>1, <1>2, <1>4, <1>6, <1>7 DEF FileRight

\* Steps of a request that are not about files.
LEMMA ServingFile ==
  ASSUME Types, FileRight, NEW t \in Threads,
         Command(t) \/ Assign(t) \/ Patch(t) \/ Pause(t) \/ Reply(t)
  PROVE  FileRight'
  <1>1. /\ path' = path /\ tmp' = tmp /\ blob' = blob /\ fd' = fd /\ excused \subseteq excused'
        /\ \A u \in Threads : u # t => pc'[u] = pc[u]
        /\ pc[t] \notin Saving /\ pc'[t] \notin {"write", "replace"}
    BY DEF Saving, Command, Assign, Patch, Pause, Reply, Goes, fileVars, Fails, Excuse, Types, TypeOK
  <1>2. \/ pc[t] = "assign" /\ pc'[t] = "open"
        \/ pc'[t] # "open" /\ desired' = desired
    BY DEF Command, Assign, Patch, Pause, Reply, Goes, Types, TypeOK
  <1>3. CASE pc'[t] = "open"
    BY <1>1, <1>2, <1>3 DEF FileRight, Saving
  <1>4. CASE pc'[t] # "open" /\ desired' = desired
    <2>1. ASSUME NEW u \in Threads, Saved(blob[u])
          PROVE  Saved(blob[u])'
      BY <1>1, <1>4, <2>1 DEF Saved
    <2>2. ASSUME Saved(Load(path)) PROVE Saved(Load(path))'
      <3>1. Load(path)' = Load(path)
        BY <1>1 DEF Load
      <3> QED
        BY <1>1, <1>4, <2>2, <3>1 DEF Saved
    <2>3. \A u \in Threads : \A place \in {"write", "replace"} : pc'[u] = place <=> pc[u] = place
      BY <1>1 DEF Saving
    <2>4. (\A u \in Threads : pc'[u] # "open") => \A u \in Threads : pc[u] # "open"
      BY <1>1 DEF Saving
    <2>5. (\A u \in Threads : pc'[u] \notin Saving) => \A u \in Threads : pc[u] \notin Saving
      BY <1>1
    <2> QED
      BY <1>1, <2>1, <2>2, <2>3, <2>4, <2>5 DEF FileRight
  <1> QED
    BY <1>2, <1>3, <1>4

LEMMA OtherFile ==
  ASSUME Types, FileRight, Getting \/ Polling \/ PollListen \/ Outside \/ UNCHANGED vars
  PROVE  FileRight'
  <1>1. CASE Crash
    <2>1. /\ path' = path /\ desired' = Load(path) /\ excused \subseteq excused'
          /\ \A t \in Threads : pc'[t] = "idle" /\ fd'[t] = "none"
      BY <1>1 DEF Crash, Fails
    <2>2. Saved(Load(path))'
      BY <2>1 DEF Saved
    <2> QED
      BY <2>1, <2>2 DEF FileRight
  <1>2. CASE ~Crash
    <2>1. path' = path /\ tmp' = tmp /\ blob' = blob /\ fd' = fd /\ pc' = pc
      BY <1>2 DEF Getting, Polling, PollListen, Outside, PollAnswered, PollUnanswered, PollStore,
         Compare, Adopt, Reconcile, Send, ServerStops, ServerStarts, fileVars, vars
    <2>2. excused \subseteq excused'
      BY <1>2 DEF Getting, Polling, PollListen, Outside, PollAnswered, PollUnanswered, PollStore,
         Compare, Adopt, Reconcile, Send, ServerStops, ServerStarts, vars, Trouble, Excuse, Fails
    <2>3. /\ desired'["blank"] = desired["blank"]
          /\ desired'["bright"] = desired["bright"] \/ desired["bright"] = None
             \/ "crossed" \in excused'
      <3>1. CASE Adopt
        <4>1. desired["bright"] # None => "crossed" \in excused'
          BY <3>1, ControlAssumption DEF Adopt
        <4> QED
          BY <3>1, <4>1 DEF Adopt, Types, TypeOK, Memory, Field
      <3>2. CASE ~Adopt
        BY <1>2, <3>2 DEF Getting, Polling, PollListen, Outside, PollAnswered, PollUnanswered,
           PollStore, Compare, Reconcile, Send, ServerStops, ServerStarts, vars
      <3> QED
        BY <3>1, <3>2
    <2>4. ASSUME NEW u \in Threads, Saved(blob[u])
          PROVE  Saved(blob[u])'
      BY <2>1, <2>2, <2>3, <2>4 DEF Saved
    <2>5. ASSUME Saved(Load(path)) PROVE Saved(Load(path))'
      <3>1. Load(path)' = Load(path)
        BY <2>1 DEF Load
      <3> QED
        BY <2>2, <2>3, <2>5, <3>1 DEF Saved
    <2> QED
      BY <2>1, <2>2, <2>4, <2>5 DEF FileRight
  <1> QED
    BY <1>1, <1>2

LEMMA FileInductive == Types /\ FileRight /\ [Next]_vars => FileRight'
  BY OpenFile, WriteFile, ReplaceFile, ServingFile, OtherFile DEF Next, Serving

LEMMA InitFile == Init => FileRight
  <1> SUFFICES ASSUME Init PROVE FileRight
    OBVIOUS
  <1>1. /\ path = None /\ desired = Unset
        /\ \A t \in Threads : pc[t] = "idle" /\ fd[t] = "none"
    BY DEF Init
  <1>2. Load(path) = Unset
    BY <1>1, LoadRight
  <1> QED
    BY <1>1, <1>2 DEF FileRight, Saved

-----------------------------------------------------------------------------
(* The theorems.                                                           *)

IInv == Types /\ Reconciled /\ PauseRight /\ FileRight

\* IInv is an inductive invariant of ftctl with ft_server and ftsched: what the
\* request threads and the poll have read agrees with what is remembered,
\* saved and done, at every step of either (ftctl.py's set_brightness(),
\* set_blanked(), Desired and Bridge.run()).
THEOREM Invariance == Spec => []IInv
  <1>1. Init => IInv
    BY InitTypes, InitReconciled, InitPause, InitFile DEF IInv
  <1>2. IInv /\ [Next]_vars => IInv'
    BY TypesInductive, ReconciledInductive, PauseInductive, FileInductive DEF IInv
  <1> QED
    BY <1>1, <1>2, PTL DEF Spec

\* Every variable of ftctl keeps its type: the poll never reconciles without an
\* answer, and what is saved or adopted is a brightness and a blanking.
THEOREM TypesHold == Spec => []TypeOK
  <1>1. IInv => TypeOK
    BY DEF IInv, Types
  <1> QED
    BY <1>1, Invariance, PTL

LEMMA SettledFollows == IInv => Settled
  <1> SUFFICES ASSUME IInv, up, known = gen, Clean, pollPc \in {"idle", "store", "listen"},
                      \A t \in Threads : ~Busy(t)
               PROVE  /\ server["blank"] = desired["blank"]
                      /\ server["bright"] = desired["bright"]
                      /\ ("unreachable" \notin excused /\ gen = 1 /\ "crash" \notin excused) =>
                           paused = (desired["blank"] = 1)
    BY DEF Settled, Clean
  <1>1. \A f \in Field : server[f] = desired[f]
    <2>1. \A f \in Field : Dealt(f) /\ ~Assigning(f)
      BY DEF Dealt, Assigning, Busy
    <2> QED
      BY <2>1 DEF IInv, Reconciled, Agreed
  <1>2. ASSUME "unreachable" \notin excused, gen = 1, "crash" \notin excused
        PROVE  paused <=> desired["blank"] = 1
    BY <1>2 DEF IInv, PauseRight, Kept, Owes, On
  <1>3. paused \in BOOLEAN
    BY DEF IInv, Types, TypeOK
  <1> QED
    BY <1>1, <1>2, <1>3 DEF Field

LEMMA RememberedFollows == IInv => Remembered
  <1> SUFFICES ASSUME IInv, "saves" \notin excused
               PROVE  /\ path \notin {Empty, Torn}
                      /\ (\A t \in Threads : pc[t] \in {"idle", "patch", "pause", "reply"}) =>
                           Saved(Load(path))
    BY DEF Remembered, Saved
  <1>1. path \in Memory \union {None}
    BY DEF IInv, FileRight
  <1>2. None \notin {Empty, Torn}
    BY ControlAssumption
  <1> QED
    BY <1>1, <1>2, LoadRight DEF IInv, FileRight, Saving

\* However requests, polls, restarts and crashes interleave, once the poll has
\* dealt with this run of ft_server it does what is remembered, and the
\* rotation stands still while the wall is dark.
THEOREM ServerSettles == Spec => []Settled
  BY SettledFollows, Invariance, PTL

\* Whenever ftctl is killed, the state file can be read, and holds what is in
\* memory unless a request is still to save it.
THEOREM StateFileRemembers == Spec => []Remembered
  BY RememberedFollows, Invariance, PTL

=============================================================================
