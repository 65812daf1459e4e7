--------------------------- MODULE ServerLifecycle ---------------------------
(***************************************************************************)
(* main() of the server: which thread is started and ended when, what is   *)
(* destroyed when, and what a signal does meanwhile.  The layer collector  *)
(* and the pusher are reduced to where they wait and when they hold the    *)
(* mutex (Composite and DisplayPusher have the rest); the thread that      *)
(* announces the display is ServiceDiscovery.                              *)
(***************************************************************************)

VARIABLES
  main,         \* what main() does next, or "gone" when the process has ended
  lock,         \* the display mutex: "free", "main" or "gc"
  gc,           \* "none", "lock", "wait", "woken", "work" or "done"
  pusher,       \* "none", "check", "wait", "swap" or "done"
  running,      \* threads whose running_ is true
  freed,        \* which of "composite", "display" and "mutex" are destroyed
  interrupted,  \* interrupt_received
  missed,       \* history: the signal came between a look at the flag and recvfrom()
  privsKept,    \* history: drop_privs() failed
  \* of ServiceDiscovery
  thread, client, group, shutdown, failed

Discovery == INSTANCE ServiceDiscovery

discovery == <<thread, client, group, shutdown, failed>>
signals   == <<interrupted, missed>>
threads   == <<gc, pusher, running>>
vars == <<main, lock, threads, freed, signals, privsKept, discovery>>

Init ==
  /\ main = "construct"
  /\ lock = "free"
  /\ gc = "none" /\ pusher = "none" /\ running = {}
  /\ freed = {}
  /\ interrupted = FALSE /\ missed = FALSE
  /\ privsKept = FALSE
  /\ Discovery!Init

-----------------------------------------------------------------------------
(* Start-up.                                                               *)

MainUnchanged == UNCHANGED <<lock, freed, signals, privsKept>>

\* The composite, and StartLayerGarbageCollection().
Construct ==
  /\ main = "construct"
  /\ main' = "start pusher"
  /\ gc' = "lock"
  /\ running' = running \union {"gc"}
  /\ UNCHANGED <<pusher, discovery>>
  /\ MainUnchanged

\* StartDisplayThread(): only the RGB matrix has one.
StartPusher ==
  /\ main = "start pusher"
  /\ main' = "start discovery"
  /\ \/ pusher' = "check" /\ running' = running \union {"pusher"}
     \/ UNCHANGED <<pusher, running>>
  /\ UNCHANGED <<gc, discovery>>
  /\ MainUnchanged

StartDiscovery ==
  /\ main = "start discovery"
  /\ main' = "drop privileges"
  /\ Discovery!Start \/ UNCHANGED discovery
  /\ UNCHANGED threads
  /\ MainUnchanged

\* Without them dropped main() returns from inside the composite's block.
DropPrivileges ==
  /\ main = "drop privileges"
  /\ \/ main' = "handle signals" /\ UNCHANGED privsKept
     \/ main' = "stop gc" /\ privsKept' = TRUE
  /\ UNCHANGED <<lock, threads, freed, signals, discovery>>

HandleSignals ==
  /\ main = "handle signals"
  /\ main' = "receive"
  /\ UNCHANGED <<threads, discovery>>
  /\ MainUnchanged

-----------------------------------------------------------------------------
(* udp_server_run_blocking().                                              *)

ServeUnchanged == UNCHANGED <<threads, freed, signals, privsKept, discovery>>

Receive ==
  /\ main = "receive"
  /\ main' = "blocked"
  /\ UNCHANGED lock
  /\ ServeUnchanged

\* recvfrom() returns: a datagram, another signal, or an error.
Received ==
  /\ main = "blocked"
  /\ main' \in {"data", "EINTR", "error"}
  /\ UNCHANGED lock
  /\ ServeUnchanged

\* Mutant of Decide: EINTR is looked at first.
DecideOnErrnoFirst ==
  /\ main' = IF main = "EINTR" THEN "receive"
             ELSE IF interrupted \/ main = "error" THEN "stop pusher" ELSE "lock"

Decide ==
  /\ main' = IF interrupted \/ main = "error" THEN "stop pusher"
             ELSE IF main = "EINTR" THEN "receive" ELSE "lock"

LookAtFlag ==
  /\ main \in {"data", "EINTR", "error"}
  /\ Decide
  /\ UNCHANGED lock
  /\ ServeUnchanged

\* Mutant of LockDatagram: drawn without the mutex.
LockDatagramAnyway ==
  /\ main = "lock"
  /\ main' = "draw"
  /\ lock' = "main"
  /\ ServeUnchanged

LockDatagram ==
  /\ main = "lock"
  /\ lock = "free"
  /\ main' = "draw"
  /\ lock' = "main"
  /\ ServeUnchanged

UnlockDatagram ==
  /\ main = "draw"
  /\ main' = "receive"
  /\ lock' = "free"
  /\ ServeUnchanged

-----------------------------------------------------------------------------
(* The end: the rest of main(), and the composite's destructor.            *)

\* TriggerExit() of either thread: its condition may not be waited on.
StopPusher ==
  /\ main = "stop pusher"
  /\ pusher # "none" => lock = "free"
  /\ main' = "join pusher"
  /\ running' = running \ {"pusher"}
  /\ pusher' = IF pusher = "wait" THEN "check" ELSE pusher
  /\ UNCHANGED <<gc, discovery>>
  /\ MainUnchanged

\* Mutant of JoinPusher: the thread is told, not waited for.
JoinPusherNot ==
  /\ main = "join pusher"
  /\ main' = "stop discovery"
  /\ UNCHANGED <<threads, discovery>>
  /\ MainUnchanged

JoinPusher ==
  /\ main = "join pusher"
  /\ pusher \in {"none", "done"}
  /\ main' = "stop discovery"
  /\ UNCHANGED <<threads, discovery>>
  /\ MainUnchanged

StopDiscovery ==
  /\ main = "stop discovery"
  /\ main' = "join discovery"
  /\ \/ thread # "none" /\ Discovery!Shutdown
     \/ thread = "none" /\ UNCHANGED discovery
  /\ UNCHANGED threads
  /\ MainUnchanged

JoinDiscovery ==
  /\ main = "join discovery"
  /\ thread \in {"none", "done"}
  /\ main' = "stop gc"
  /\ UNCHANGED <<threads, discovery>>
  /\ MainUnchanged

StopGc ==
  /\ main = "stop gc"
  /\ lock = "free"
  /\ main' = "join gc"
  /\ running' = running \ {"gc"}
  /\ gc' = IF gc = "wait" THEN "woken" ELSE gc
  /\ UNCHANGED <<pusher, discovery>>
  /\ MainUnchanged

\* The display outlives a main() that gives up.
JoinGc ==
  /\ main = "join gc"
  /\ gc = "done"
  /\ freed' = freed \union {"composite"}
  /\ main' = IF privsKept THEN "return" ELSE "delete display"
  /\ UNCHANGED <<lock, threads, signals, privsKept, discovery>>

DeleteDisplay ==
  /\ main = "delete display"
  /\ freed' = freed \union {"display"}
  /\ main' = "return"
  /\ UNCHANGED <<lock, threads, signals, privsKept, discovery>>

Return ==
  /\ main = "return"
  /\ freed' = freed \union {"mutex"}
  /\ main' = "exit"
  /\ UNCHANGED <<lock, threads, signals, privsKept, discovery>>

Exit ==
  /\ main = "exit"
  /\ main' = "gone"
  /\ UNCHANGED <<threads, discovery>>
  /\ MainUnchanged

\* SIGTERM or SIGINT.  Until there is a handler it ends the process; after, it
\* sets the flag, and makes recvfrom() return if main() is in it.
HasHandler ==
  ~privsKept /\ main \notin {"construct", "start pusher", "start discovery",
                            "drop privileges", "handle signals"}

Terminate ==
  /\ main # "gone"
  /\ \/ /\ ~HasHandler
        /\ main' = "gone"
        /\ UNCHANGED signals
     \/ /\ HasHandler
        /\ ~interrupted
        /\ interrupted' = TRUE
        /\ missed' = (main \in {"lock", "draw", "receive"})
        /\ main' = IF main = "blocked" THEN "EINTR" ELSE main
  /\ UNCHANGED <<lock, threads, freed, privsKept, discovery>>

-----------------------------------------------------------------------------
(* LayerGarbageCollector::Run() and DisplayPusher::Run().                  *)

ThreadUnchanged == UNCHANGED <<main, running, freed, signals, privsKept, discovery>>

\* Its running_ is not looked at before the wait, as the pusher's is.
GcWaits ==
  /\ gc = "lock"
  /\ lock = "free"
  /\ gc' = "wait"
  /\ UNCHANGED <<lock, pusher>>
  /\ ThreadUnchanged

GcTimeout ==
  /\ gc = "wait"
  /\ gc' = "woken"
  /\ UNCHANGED <<lock, pusher>>
  /\ ThreadUnchanged

GcWorks ==
  /\ gc = "woken"
  /\ lock = "free"
  /\ \/ "gc" \in running /\ gc' = "work" /\ lock' = "gc"
     \/ "gc" \notin running /\ gc' = "done" /\ UNCHANGED lock
  /\ UNCHANGED pusher
  /\ ThreadUnchanged

\* Cleared pixels are sent on: a pusher waiting for a frame is woken.
GcUnlocks ==
  /\ gc = "work"
  /\ gc' = "lock"
  /\ lock' = "free"
  /\ pusher' \in {pusher, IF pusher = "wait" THEN "check" ELSE pusher}
  /\ ThreadUnchanged

PusherLooks ==
  /\ pusher = "check"
  /\ lock = "free"
  /\ \/ "pusher" \in running /\ pusher' \in {"wait", "swap"}
     \/ "pusher" \notin running /\ pusher' = "done"
  /\ UNCHANGED <<lock, gc>>
  /\ ThreadUnchanged

PusherGoesOn ==
  /\ pusher \in {"wait", "swap"}
  /\ pusher' = "check"
  /\ UNCHANGED <<lock, gc>>
  /\ ThreadUnchanged

Announce(A) == A /\ UNCHANGED <<main, lock, threads, freed, signals, privsKept>>

-----------------------------------------------------------------------------

\* What main() does when it needs no mutex and no datagram.
MainGoesOn ==
  \/ Construct \/ StartPusher \/ StartDiscovery \/ DropPrivileges \/ HandleSignals
  \/ Receive \/ LookAtFlag \/ UnlockDatagram
  \/ JoinPusher \/ StopDiscovery \/ JoinDiscovery
  \/ JoinGc \/ DeleteDisplay \/ Return \/ Exit

MainLocks == LockDatagram \/ StopPusher \/ StopGc

GcLocks == GcWaits \/ GcWorks

Announcing == Announce(Discovery!Connect) \/ Announce(Discovery!ConnectFails)
                \/ Announce(Discovery!Leave)

Others ==
  \/ GcLocks \/ GcTimeout \/ GcUnlocks
  \/ PusherLooks \/ PusherGoesOn
  \/ Announcing
  \/ Announce(Discovery!Callbacks) \/ Announce(Discovery!PollFails)

Next ==
  \/ MainGoesOn \/ MainLocks
  \/ Received
  \/ Terminate
  \/ main # "gone" /\ Others

\* Straight-line code goes on, waits with a timeout end, and a thread that
\* keeps finding the mutex free gets it.  Nothing is assumed of datagrams.
Fairness ==
  /\ WF_vars(MainGoesOn) /\ SF_vars(MainLocks)
  /\ SF_vars(main # "gone" /\ GcLocks)
  /\ WF_vars(main # "gone" /\ (GcTimeout \/ GcUnlocks))
  /\ SF_vars(main # "gone" /\ PusherLooks)
  /\ WF_vars(main # "gone" /\ PusherGoesOn)
  /\ WF_vars(main # "gone" /\ Announcing)

Spec == Init /\ [][Next]_vars /\ Fairness

-----------------------------------------------------------------------------

\* Types; whoever is at a step under the mutex holds it.
TypeOK ==
  /\ main \in {"construct", "start pusher", "start discovery", "drop privileges",
               "handle signals", "receive", "blocked", "data", "EINTR", "error", "lock",
               "draw", "stop pusher", "join pusher", "stop discovery", "join discovery",
               "stop gc", "join gc", "delete display", "return", "exit", "gone"}
  /\ lock \in {"free", "main", "gc"}
  /\ lock = "main" <=> main = "draw"
  /\ gc \in {"none", "lock", "wait", "woken", "work", "done"}
  /\ lock = "gc" <=> gc = "work"
  /\ pusher \in {"none", "check", "wait", "swap", "done"}
  /\ running \subseteq {"gc", "pusher"}
  /\ freed \subseteq {"composite", "display", "mutex"}
  /\ interrupted \in BOOLEAN /\ missed \in BOOLEAN /\ privsKept \in BOOLEAN
  /\ thread \in {"none", "starting", "loop", "done"}
  /\ shutdown \in BOOLEAN /\ failed \in BOOLEAN

Alive ==
  {t \in {"gc", "pusher"} : (IF t = "gc" THEN gc ELSE pusher) \notin {"none", "done"}}

Users(object) == IF object = "composite" THEN {"gc"} ELSE {"gc", "pusher"}

\* Nothing is destroyed while a thread that uses it lives ("must not outlive the
\* canvases it touches", "Stop presenting before the layer GC thread and the
\* display go away").  The one exception is a main() that could not drop
\* privileges: it destroys the mutex under a pusher still at work.
DestroyedAfterUse ==
  \A object \in freed : \A t \in Alive \cap Users(object) :
    privsKept /\ t = "pusher" /\ object = "mutex"

\* No signal is overlooked: with the flag set main() waits for a datagram only
\* if the signal came between its last look at the flag and recvfrom().
WaitsOnlyIfMissed == interrupted /\ main = "blocked" => missed

\* A signal ends the server: threads are told, wake up, are joined, whatever
\* they were at; or else it came after main() had looked at the flag, and main()
\* sits in recvfrom() until there is another datagram.
SignalHonoured ==
  interrupted ~> (main = "gone" \/ (missed /\ main = "blocked"))

=============================================================================
