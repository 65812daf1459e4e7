---------------------------- MODULE ControlBridge ----------------------------
(***************************************************************************)
(* ftctl: threads that serve requests write brightness and blanking to     *)
(* ft_server, remember them in a file and patch the cache that reads are   *)
(* served from.  One more thread polls ft_server into that cache and, when *)
(* the generation shows a restart, applies again what is remembered.  A    *)
(* step is one access to what the threads share.  ft_server's side of its  *)
(* control socket is not in this repository: it is modelled from what      *)
(* ftctl sends and reads.                                                  *)
(***************************************************************************)
EXTENDS Integers

CONSTANTS
  Threads,       \* threads that serve requests
  Levels,        \* brightness in percent, clamped to 1..100
  Booted,        \* --led-brightness, what ft_server starts with
  None,          \* Python's None; no such file
  Empty, Torn,   \* a file truncated and not yet written; one that is not JSON
  MaxRequests,   \* bound: requests
  MaxTroubles    \* bound: restarts, crashes and failures, together

ASSUME ControlAssumption ==
  /\ Threads # {}
  /\ Levels \subseteq 1 .. 100
  /\ Booted \in Levels
  /\ None \notin Int \union {Empty, Torn} /\ Empty # Torn
  /\ MaxRequests \in Nat /\ MaxTroubles \in Nat

ASSUME FileAssumption ==
  \A x \in {None, Empty, Torn} : x \notin [{"bright", "blank"} -> Int \union {None}]

VARIABLES
  up, gen, server, \* ft_server: it answers; its generation; what it does
  paused,          \* ftsched holds its slot
  cache,           \* Bridge.display
  desired,         \* Desired, in memory
  known,           \* Bridge._generation
  path, tmp,       \* the state file and the one that replaces it
  blob, fd,        \* what a thread saves, and the name of the file it has open
  pc, req,         \* where a request is, and what it asks for
  pollPc, got, sending, \* where the poll is, what get() gave it, what it sends
  requests, troubles,   \* counted for the bounds
  excused          \* history: what has happened that the code does not repair

serverVars == <<up, gen, server, paused>>
fileVars   == <<path, tmp, blob, fd>>
pollVars   == <<pollPc, got, sending, known>>
counters   == <<requests, troubles>>
vars == <<serverVars, cache, desired, fileVars, pc, req, pollVars, counters, excused>>

Field    == {"bright", "blank"}
Value(f) == IF f = "bright" THEN Levels ELSE {0, 1}
Fresh    == [f \in Field |-> IF f = "bright" THEN Booted ELSE 0]
Unset    == [f \in Field |-> IF f = "bright" THEN None ELSE 0]

\* Desired._load(): what cannot be read is as if nothing had been saved.
Load(file) == IF file \in {None, Empty, Torn} THEN Unset ELSE file

\* The length of the JSON that Desired.save() writes: null or the digits, and
\* true or false.
Length(b) ==
  (CASE b["bright"] = None -> 4
     [] b["bright"] # None /\ b["bright"] < 10 -> 1
     [] b["bright"] # None /\ b["bright"] \in 10 .. 99 -> 2
     [] OTHER -> 3)
  + 5 - b["blank"]

\* A write from the start of a file that another thread may have written to.
Overlaid(old, b) ==
  CASE old = Empty -> {b}
    [] old = Torn -> {b, Torn}
    [] OTHER -> IF Length(b) >= Length(old) THEN {b} ELSE {Torn}

Busy(t)    == pc[t] # "idle"
On(t, f)   == Busy(t) /\ req[t].field = f
\* A failure that is not repaired, or one that is.
Fails(why) ==
  /\ troubles < MaxTroubles /\ troubles' = troubles + 1
  /\ excused' = excused \union {why}
Trouble == troubles < MaxTroubles /\ troubles' = troubles + 1 /\ UNCHANGED excused
Excuse(why, if) == UNCHANGED troubles /\ excused' = excused \union (IF if THEN {why} ELSE {})

Init ==
  /\ up = TRUE /\ gen = 1 /\ server = Fresh /\ paused = FALSE
  /\ cache = None /\ desired = Unset /\ known = None
  /\ path = None /\ tmp = None
  /\ blob = [t \in Threads |-> Unset] /\ fd = [t \in Threads |-> "none"]
  /\ pc = [t \in Threads |-> "idle"]
  /\ req = [t \in Threads |-> None]
  /\ pollPc = "idle" /\ got = None /\ sending = None
  /\ requests = 0 /\ troubles = 0 /\ excused = {}

-----------------------------------------------------------------------------
(* A request: set_brightness() or set_blanked(), in a thread of its own.   *)

Goes(t, place) == pc' = [pc EXCEPT ![t] = place]

\* ft_server does as it is told.  That nobody else was changing the same, and
\* that the reply arrives, is what the code counts on.
Command(t) ==
  /\ pc[t] = "idle" /\ up /\ requests < MaxRequests
  /\ \E f \in Field : \E v \in Value(f) :
       /\ server' = [server EXCEPT ![f] = v]
       /\ \/ /\ req' = [req EXCEPT ![t] = [field |-> f, value |-> v]]
             /\ Goes(t, "assign")
             /\ Excuse("crossed", \/ \E u \in Threads : On(u, f)
                                  \/ pollPc = "send" /\ sending.field = f)
          \/ /\ UNCHANGED <<req, pc>>
             /\ Fails("lost")
  /\ requests' = requests + 1
  /\ UNCHANGED <<up, gen, paused, cache, desired, fileVars, pollVars>>

Assign(t) ==
  /\ pc[t] = "assign"
  /\ desired' = [desired EXCEPT ![req[t].field] = req[t].value]
  /\ Goes(t, "open")
  /\ UNCHANGED <<serverVars, cache, fileVars, req, pollVars, counters, excused>>

\* Mutant of Open: the state file is written in place.
OpenInPlace(t) ==
  /\ pc[t] = "open"
  /\ blob' = [blob EXCEPT ![t] = desired]
  /\ path' = Empty /\ fd' = [fd EXCEPT ![t] = "path"] /\ Goes(t, "write")
  /\ UNCHANGED <<serverVars, cache, desired, tmp, req, pollVars, counters, excused>>

\* The temporary file has the same name in every thread.
Open(t) ==
  /\ pc[t] = "open"
  /\ \/ /\ tmp' = Empty
        /\ blob' = [blob EXCEPT ![t] = desired]
        /\ fd' = [fd EXCEPT ![t] = "tmp"]
        /\ Goes(t, "write")
        /\ Excuse("saves", \E u \in Threads : pc[u] \in {"write", "replace"})
     \/ UNCHANGED <<tmp, blob, fd>> /\ Goes(t, "patch") /\ Fails("saves")
  /\ UNCHANGED <<serverVars, cache, desired, path, req, pollVars, requests>>

Write(t) ==
  /\ pc[t] = "write"
  /\ tmp' \in IF fd[t] = "tmp" THEN Overlaid(tmp, blob[t]) ELSE {tmp}
  /\ path' \in IF fd[t] = "path" THEN Overlaid(path, blob[t]) ELSE {path}
  /\ fd' = [fd EXCEPT ![t] = "none"]
  /\ Goes(t, "replace")
  /\ UNCHANGED <<serverVars, cache, desired, blob, req, pollVars, counters, excused>>

\* os.replace() goes by the names, whoever wrote the file.
Replace(t) ==
  /\ pc[t] = "replace"
  /\ \/ /\ tmp # None
        /\ path' = tmp /\ tmp' = None
        /\ fd' = [u \in Threads |-> CASE fd[u] = "tmp" -> "path"
                                      [] fd[u] = "path" -> "gone"
                                      [] OTHER -> fd[u]]
     \/ tmp = None /\ UNCHANGED <<path, tmp, fd>>
  /\ Goes(t, "patch")
  /\ blob' = [blob EXCEPT ![t] = Unset]
  /\ UNCHANGED <<serverVars, cache, desired, req, pollVars, counters, excused>>

Patch(t) ==
  /\ pc[t] = "patch"
  /\ cache' = IF cache = None THEN None
              ELSE [cache EXCEPT ![req[t].field] = req[t].value]
  /\ Goes(t, IF req[t].field = "blank" THEN "pause" ELSE "reply")
  /\ UNCHANGED <<serverVars, desired, fileVars, req, pollVars, counters, excused>>

\* Not reaching the scheduler is no failure.
Pause(t) ==
  /\ pc[t] = "pause"
  /\ \/ paused' = (req[t].value = 1) /\ UNCHANGED <<troubles, excused>>
     \/ UNCHANGED paused /\ Fails("unreachable")
  /\ Goes(t, "reply")
  /\ UNCHANGED <<up, gen, server, cache, desired, fileVars, req, pollVars, requests>>

Reply(t) ==
  /\ pc[t] = "reply"
  /\ Goes(t, "idle")
  /\ req' = [req EXCEPT ![t] = None]
  /\ UNCHANGED <<serverVars, cache, desired, fileVars, pollVars, counters, excused>>

-----------------------------------------------------------------------------
(* One round of Bridge.run().                                              *)

PollAnswered ==
  /\ pollPc = "idle" /\ up
  /\ got' = [gen |-> gen, set |-> server]
  /\ pollPc' = "store"
  /\ UNCHANGED <<serverVars, cache, desired, fileVars, pc, req, sending, known, counters,
                 excused>>

\* ft_server is down, or does not answer in time.
PollUnanswered ==
  /\ pollPc = "idle"
  /\ \/ up /\ Trouble
     \/ ~up /\ UNCHANGED <<troubles, excused>>
  /\ got' = None
  /\ pollPc' = "store"
  /\ UNCHANGED <<serverVars, cache, desired, fileVars, pc, req, sending, known, requests>>

\* Mutant of PollStore: no answer is reconciled as well.
PollStoreAnyway ==
  /\ pollPc = "store"
  /\ cache' = IF got = None THEN None ELSE got.set
  /\ pollPc' = "compare"
  /\ UNCHANGED <<serverVars, desired, fileVars, pc, req, got, sending, known, counters,
                 excused>>

\* What get() returned may be older by now than what is patched.
PollStore ==
  /\ pollPc = "store"
  /\ cache' = IF got = None THEN None ELSE got.set
  /\ pollPc' = IF got = None THEN "listen" ELSE "compare"
  /\ UNCHANGED <<serverVars, desired, fileVars, pc, req, got, sending, known, counters,
                 excused>>

\* Mutant of Compare: a new generation is only recorded, as on first sight.
CompareAdopting ==
  /\ pollPc = "compare"
  /\ known' = got.gen
  /\ pollPc' = IF known = None THEN "bright" ELSE "listen"
  /\ UNCHANGED <<serverVars, cache, desired, fileVars, pc, req, got, sending, counters,
                 excused>>

Compare ==
  /\ pollPc = "compare"
  /\ known' = got.gen
  /\ pollPc' = IF known = got.gen THEN "listen"
               ELSE IF known = None /\ desired["bright"] = None THEN "adopt" ELSE "bright"
  /\ UNCHANGED <<serverVars, cache, desired, fileVars, pc, req, got, sending, counters,
                 excused>>

\* Brightness is adopted, whatever was set in between; blanking is not.
Adopt ==
  /\ pollPc = "adopt"
  /\ desired' = [desired EXCEPT !["bright"] = got.set["bright"]]
  /\ pollPc' = "listen"
  /\ excused' = excused
       \union {"crossed" : x \in {t \in Threads : desired["bright"] # None \/ pc[t] = "assign"}}
       \union {"adopted" : x \in {f \in {"blank"} : desired[f] # got.set[f]}}
  /\ UNCHANGED <<serverVars, cache, fileVars, pc, req, got, sending, known, counters>>

After(f) == IF f = "bright" THEN "blank" ELSE "listen"

\* What is wanted is compared with what get() returned, and read to be sent.
Reconcile(f) ==
  /\ pollPc = f
  /\ LET differs == desired[f] # None /\ desired[f] # got.set[f] IN
       /\ sending' = IF differs THEN [field |-> f, value |-> desired[f]] ELSE None
       /\ pollPc' = IF differs THEN "send" ELSE After(f)
  /\ Excuse("crossed", \E t \in Threads : pc[t] = "assign" /\ req[t].field = f)
  /\ UNCHANGED <<serverVars, cache, desired, fileVars, pc, req, got, known, requests>>

\* Whether the command arrived is not looked at.
Send ==
  /\ pollPc = "send"
  /\ \/ up /\ server' = [server EXCEPT ![sending.field] = sending.value]
           /\ UNCHANGED <<troubles, excused>>
     \/ up /\ Fails("lost") /\ UNCHANGED server
     \/ ~up /\ UNCHANGED <<server, troubles, excused>>
  /\ pollPc' = After(sending.field)
  /\ sending' = None
  /\ UNCHANGED <<up, gen, paused, cache, desired, fileVars, pc, req, got, known, requests>>

\* The listeners have run; the poll waits.
PollListen ==
  /\ pollPc = "listen"
  /\ pollPc' = "idle"
  /\ got' = None
  /\ UNCHANGED <<serverVars, cache, desired, fileVars, pc, req, sending, known, counters,
                 excused>>

-----------------------------------------------------------------------------
(* ft_server stops and starts, and ftsched with it; ftctl crashes and is   *)
(* started again.                                                          *)

ServerStops ==
  /\ up /\ Trouble
  /\ up' = FALSE
  /\ UNCHANGED <<gen, server, paused, cache, desired, fileVars, pc, req, pollVars, requests>>

ServerStarts ==
  /\ ~up
  /\ up' = TRUE /\ gen' = gen + 1 /\ server' = Fresh /\ paused' = FALSE
  /\ UNCHANGED <<cache, desired, fileVars, pc, req, pollVars, counters, excused>>

Crash ==
  /\ Fails("crash")
  /\ desired' = Load(path)
  /\ cache' = None /\ known' = None
  /\ pc' = [t \in Threads |-> "idle"] /\ fd' = [t \in Threads |-> "none"]
  /\ blob' = [t \in Threads |-> Unset] /\ req' = [t \in Threads |-> None]
  /\ pollPc' = "idle" /\ got' = None /\ sending' = None
  /\ UNCHANGED <<serverVars, path, tmp, requests>>

-----------------------------------------------------------------------------

Serving(t) == Assign(t) \/ Open(t) \/ Write(t) \/ Replace(t) \/ Patch(t) \/ Pause(t)
Polling    == PollStore \/ Compare \/ Adopt \/ (\E f \in Field : Reconcile(f)) \/ Send
Outside    == ServerStops \/ ServerStarts \/ Crash
Getting    == PollAnswered \/ PollUnanswered

Next ==
  \/ \E t \in Threads : Command(t) \/ Serving(t) \/ Reply(t)
  \/ Getting \/ Polling \/ PollListen \/ Outside

Spec == Init /\ [][Next]_vars

-----------------------------------------------------------------------------
(* Properties.                                                             *)

Memory == {m \in [Field -> Levels \union {None, 0, 1}] :
             m["bright"] \in Levels \union {None} /\ m["blank"] \in {0, 1}}
Settings == {m \in Memory : m["bright"] # None}

TypeOK ==
  /\ up \in BOOLEAN /\ gen \in Nat \ {0} /\ server \in Settings /\ paused \in BOOLEAN
  /\ cache \in Settings \union {None}
  /\ desired \in Memory
  /\ known \in {None} \union 1 .. gen
  /\ {path, tmp} \subseteq Memory \union {None, Empty, Torn}
  /\ blob \in [Threads -> Memory]
  /\ fd \in [Threads -> {"none", "tmp", "path", "gone"}]
  /\ pc \in [Threads -> {"idle", "assign", "open", "write", "replace", "patch", "pause",
                         "reply"}]
  /\ \A t \in Threads : Busy(t) => req[t].field \in Field /\ req[t].value \in Value(req[t].field)
  /\ pollPc \in {"idle", "store", "compare", "adopt", "bright", "send", "blank", "listen"}
  /\ got # None => got.gen \in 1 .. gen /\ got.set \in Settings
  /\ pollPc \in {"compare", "adopt", "bright", "send", "blank"} => got # None
  /\ pollPc = "send" => sending.value \in Value(sending.field)

\* The state file can always be read, whenever ftctl is killed, and when no
\* request is being saved it says what is in memory ("atomic; a torn file is
\* unreadable", save()).  Adopted brightness is not saved, even when it replaces
\* what a request has just saved.  Two threads saving at a time share the
\* temporary file, and a save can fail: those are excused.
Remembered ==
  "saves" \notin excused =>
    /\ path \notin {Empty, Torn}
    /\ (\A t \in Threads : pc[t] \in {"idle", "patch", "pause", "reply"}) =>
         /\ Load(path)["blank"] = desired["blank"]
         /\ Load(path)["bright"] \in {desired["bright"], None} \/ "crossed" \in excused

\* Once the poll has dealt with this run of ft_server and no request is under
\* way, ft_server does what is remembered, over restarts of either ("across
\* restarts of anything", class Desired), and the rotation stands still while
\* the wall is dark if neither was restarted since.
Settled ==
  (/\ up /\ known = gen /\ excused \intersect {"crossed", "lost", "adopted"} = {}
   /\ pollPc \in {"idle", "store", "listen"} /\ \A t \in Threads : ~Busy(t)) =>
     /\ server["blank"] = desired["blank"]
     /\ server["bright"] = desired["bright"]
     /\ ("unreachable" \notin excused /\ gen = 1 /\ "crash" \notin excused) =>
          paused = (desired["blank"] = 1)

=============================================================================
