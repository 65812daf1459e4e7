------------------------ MODULE ServerLifecycle_proofs ------------------------
(***************************************************************************)
(* Proofs about ServerLifecycle.  It has no constants, so TLC's run is     *)
(* exhaustive; what the proofs add is the reason.                          *)
(***************************************************************************)
EXTENDS ServerLifecycle, TLAPS

GcGone     == gc = "done"
PusherGone == pusher \in {"none", "done"}

\* The one who has failed to drop privileges only goes on to the end.
GivesUp ==
  privsKept => main \in {"stop gc", "join gc", "return", "exit", "gone"}

\* What main() has waited for by the time it is at each of its last steps.
Waited ==
  /\ main = "construct" => gc = "none" /\ pusher = "none"
  /\ main = "start pusher" => pusher = "none"
  /\ main \in {"stop discovery", "join discovery", "stop gc", "join gc", "delete display",
               "return", "exit"} => PusherGone \/ privsKept
  /\ main \in {"delete display", "return", "exit"} => GcGone

\* Why each object could be destroyed.
Justified ==
  /\ freed # {} => main \in {"delete display", "return", "exit", "gone"} /\ GcGone
  /\ "display" \in freed => PusherGone
  /\ "mutex" \in freed => PusherGone \/ privsKept

\* The type invariant in three parts: where everybody is and who holds the
\* mutex, the flags, and the announcing thread.
Places ==
  /\ main \in {"construct", "start pusher", "start discovery", "drop privileges",
               "handle signals", "receive", "blocked", "data", "EINTR", "error", "lock",
               "draw", "stop pusher", "join pusher", "stop discovery", "join discovery",
               "stop gc", "join gc", "delete display", "return", "exit", "gone"}
  /\ lock \in {"free", "main", "gc"}
  /\ lock = "main" <=> main = "draw"
  /\ gc \in {"none", "lock", "wait", "woken", "work", "done"}
  /\ lock = "gc" <=> gc = "work"
  /\ pusher \in {"none", "check", "wait", "swap", "done"}
  /\ running \subseteq {"gc", "pusher"}
  /\ freed \subseteq {"composite", "display", "mutex"}

Flags == interrupted \in BOOLEAN /\ missed \in BOOLEAN /\ privsKept \in BOOLEAN

DiscoveryTypes ==
  /\ thread \in {"none", "starting", "loop", "done"}
  /\ shutdown \in BOOLEAN /\ failed \in BOOLEAN

\* With the flag set, main() is before its look at it or has not seen it yet.
Heeds ==
  /\ main \in {"construct", "start pusher", "start discovery", "drop privileges",
              "handle signals"} => ~interrupted
  /\ main \in {"receive", "blocked", "lock", "draw"} => (interrupted => missed)

IInv == Places /\ Flags /\ DiscoveryTypes /\ GivesUp /\ Waited /\ Justified /\ Heeds

-----------------------------------------------------------------------------
(* The announcing thread: its steps keep its types and nothing else.       *)

LEMMA DiscoveryTyped ==
  ASSUME DiscoveryTypes,
         \/ Discovery!Start \/ Discovery!Shutdown
         \/ Discovery!Connect \/ Discovery!ConnectFails \/ Discovery!Leave
         \/ Discovery!Callbacks \/ Discovery!PollFails
         \/ UNCHANGED discovery
  PROVE  DiscoveryTypes'
  <1> USE DEF DiscoveryTypes
  <1>1. Discovery!HandleClientState => shutdown' \in BOOLEAN /\ failed' \in BOOLEAN
    BY DEF Discovery!HandleClientState, Discovery!CreateServices
  <1>2. CASE Discovery!Connect
    BY <1>1, <1>2 DEF Discovery!Connect
  <1>3. CASE Discovery!Callbacks
    BY <1>1, <1>3 DEF Discovery!Callbacks, Discovery!ClientCallback, Discovery!GroupEstablished,
       Discovery!GroupCollision, Discovery!GroupFailure, Discovery!CreateServices
  <1>4. CASE \/ Discovery!Start \/ Discovery!Shutdown \/ Discovery!ConnectFails
             \/ Discovery!Leave \/ Discovery!PollFails \/ UNCHANGED discovery
    BY <1>4 DEF Discovery!Start, Discovery!Shutdown, Discovery!ConnectFails, Discovery!Leave,
       Discovery!PollFails, discovery
  <1> QED
    BY <1>2, <1>3, <1>4

-----------------------------------------------------------------------------
(* main().                                                                 *)

LEMMA StartUpInv ==
  ASSUME IInv, Construct \/ StartPusher \/ StartDiscovery \/ DropPrivileges \/ HandleSignals
  PROVE  IInv'
  <1>1. main \in {"construct", "start pusher", "start discovery", "drop privileges",
                 "handle signals"}
    BY DEF Construct, StartPusher, StartDiscovery, DropPrivileges, HandleSignals
  <1>2. ~privsKept /\ freed = {}
    BY <1>1 DEF IInv, GivesUp, Justified
  <1>3. lock' = lock /\ freed' = freed /\ signals' = signals
    BY DEF Construct, StartPusher, StartDiscovery, DropPrivileges, HandleSignals, MainUnchanged
  <1>4. DiscoveryTypes'
    BY DiscoveryTyped DEF IInv, Construct, StartPusher, StartDiscovery, DropPrivileges,
       HandleSignals
  <1>8. ~interrupted'
    <2>1. ~interrupted
      BY <1>1 DEF IInv, Heeds
    <2>2. interrupted' = interrupted
      BY <1>3 DEF signals
    <2> QED
      BY <2>1, <2>2
  <1>5. CASE Construct
    <2>1. /\ main = "construct" /\ main' = "start pusher" /\ gc' = "lock"
          /\ running' = running \union {"gc"} /\ pusher' = pusher /\ privsKept' = privsKept
      BY <1>5 DEF Construct, MainUnchanged
    <2>2. Places'
      BY <1>3, <2>1 DEF IInv, Places, Waited
    <2>3. Flags' /\ GivesUp' /\ Waited' /\ Justified'
      BY <1>2, <1>3, <2>1 DEF IInv, Flags, GivesUp, Waited, Justified, signals
    <2>4. Heeds'
      BY <1>8 DEF Heeds
    <2> QED
      BY <1>4, <2>2, <2>3, <2>4 DEF IInv
  <1>6. CASE StartPusher
    <2>1. /\ main = "start pusher" /\ main' = "start discovery" /\ gc' = gc
          /\ privsKept' = privsKept
          /\ pusher' \in {pusher, "check"} /\ running' \subseteq running \union {"pusher"}
      BY <1>6 DEF StartPusher, MainUnchanged
    <2>2. Places'
      BY <1>3, <2>1 DEF IInv, Places
    <2>3. Flags' /\ GivesUp' /\ Waited' /\ Justified'
      BY <1>2, <1>3, <2>1 DEF IInv, Flags, GivesUp, Waited, Justified, signals
    <2>4. Heeds'
      BY <1>8 DEF Heeds
    <2> QED
      BY <1>4, <2>2, <2>3, <2>4 DEF IInv
  <1>7. CASE StartDiscovery \/ DropPrivileges \/ HandleSignals
    <2>1. threads' = threads
      BY <1>7 DEF StartDiscovery, DropPrivileges, HandleSignals
    <2>2. main' \in {"drop privileges", "handle signals", "receive", "stop gc"}
      BY <1>7 DEF StartDiscovery, DropPrivileges, HandleSignals
    <2>3. /\ privsKept' \in {privsKept, TRUE}
          /\ main' = "stop gc" => privsKept'
          /\ main' # "stop gc" => privsKept' = privsKept
      BY <1>7 DEF StartDiscovery, DropPrivileges, HandleSignals, MainUnchanged
    <2>4. Places'
      BY <1>1, <1>3, <2>1, <2>2 DEF IInv, Places, threads
    <2>5. Flags' /\ GivesUp'
      BY <1>2, <1>3, <2>2, <2>3 DEF IInv, Flags, GivesUp, signals
    <2>6. Waited' /\ Justified'
      BY <1>2, <1>3, <2>2, <2>3 DEF Waited, Justified
    <2>7. Heeds'
      BY <1>8 DEF Heeds
    <2> QED
      BY <1>4, <2>4, <2>5, <2>6, <2>7 DEF IInv
  <1> QED
    BY <1>5, <1>6, <1>7

LEMMA ServeInv ==
  ASSUME IInv, Receive \/ Received \/ LookAtFlag \/ LockDatagram \/ UnlockDatagram
  PROVE  IInv'
  <1>1. ServeUnchanged
    BY DEF Receive, Received, LookAtFlag, LockDatagram, UnlockDatagram
  <1>2. /\ main \in {"receive", "blocked", "data", "EINTR", "error", "lock", "draw"}
        /\ main' \in {"receive", "blocked", "data", "EINTR", "error", "lock", "draw",
                      "stop pusher"}
    BY DEF Receive, Received, LookAtFlag, Decide, LockDatagram, UnlockDatagram
  <1>3. /\ lock' \in {lock, "free", "main"}
        /\ lock' = "main" <=> main' = "draw"
        /\ lock' = "gc" <=> lock = "gc"
    BY <1>2 DEF IInv, Places, Receive, Received, LookAtFlag, Decide, LockDatagram, UnlockDatagram
  <1>4. Places'
    <2>1. gc' = gc /\ pusher' = pusher /\ running' = running /\ freed' = freed
      BY <1>1 DEF ServeUnchanged, threads
    <2> QED
      BY <1>2, <1>3, <2>1 DEF IInv, Places
  <1>5. Flags' /\ DiscoveryTypes'
    BY <1>1 DEF IInv, Flags, DiscoveryTypes, ServeUnchanged, signals, discovery
  <1>6. ~privsKept /\ freed = {} /\ privsKept' = privsKept /\ freed' = freed
    BY <1>1, <1>2 DEF IInv, GivesUp, Justified, ServeUnchanged
  <1>7. GivesUp' /\ Waited' /\ Justified'
    BY <1>2, <1>6 DEF GivesUp, Waited, Justified
  <1>8. Heeds'
    <2>1. interrupted' = interrupted /\ missed' = missed
      BY <1>1 DEF ServeUnchanged, signals
    <2>2. CASE LookAtFlag
      <3>1. CASE interrupted
        <4>1. main' = "stop pusher"
          BY <2>2, <3>1 DEF LookAtFlag, Decide
        <4> QED
          BY <4>1 DEF Heeds
      <3>2. CASE ~interrupted
        BY <1>2, <2>1, <3>2 DEF Heeds
      <3> QED
        BY <3>1, <3>2
    <2>3. CASE ~LookAtFlag
      <3>1. main' \in {"receive", "blocked", "lock", "draw"} =>
              main \in {"receive", "blocked", "lock", "draw"}
        BY <2>3 DEF Receive, Received, LockDatagram, UnlockDatagram
      <3> QED
        BY <1>2, <2>1, <3>1 DEF IInv, Heeds
    <2> QED
      BY <2>2, <2>3
  <1> QED
    BY <1>4, <1>5, <1>7, <1>8 DEF IInv

\* main() stops and joins one thread after the other.
LEMMA JoinInv ==
  ASSUME IInv, StopPusher \/ JoinPusher \/ StopDiscovery \/ JoinDiscovery \/ StopGc
  PROVE  IInv'
  <1>1. MainUnchanged
    BY DEF StopPusher, JoinPusher, StopDiscovery, JoinDiscovery, StopGc
  <1>2. DiscoveryTypes'
    BY DiscoveryTyped DEF IInv, StopPusher, JoinPusher, StopDiscovery, JoinDiscovery, StopGc
  <1>3. /\ gc' \in {gc, "woken"} /\ (gc' # gc => gc = "wait")
        /\ pusher' \in {pusher, "check"} /\ (pusher' # pusher => pusher = "wait")
        /\ running' \subseteq running
    BY DEF StopPusher, JoinPusher, StopDiscovery, JoinDiscovery, StopGc, threads
  <1>4. /\ main \in {"stop pusher", "join pusher", "stop discovery", "join discovery",
                     "stop gc"}
        /\ main' \in {"join pusher", "stop discovery", "join discovery", "stop gc", "join gc"}
        /\ main' = "join gc" <=> main = "stop gc"
        /\ main = "stop pusher" => main' = "join pusher"
        /\ main = "join pusher" => main' = "stop discovery" /\ PusherGone
    BY DEF StopPusher, JoinPusher, StopDiscovery, JoinDiscovery, StopGc, PusherGone
  <1>5. Places'
    <2>1. lock' = lock /\ freed' = freed
      BY <1>1 DEF MainUnchanged
    <2> QED
      BY <1>3, <1>4, <2>1 DEF IInv, Places
  <1>6. Flags'
    BY <1>1 DEF IInv, Flags, MainUnchanged, signals
  <1>7. privsKept' = privsKept /\ freed' = freed /\ freed = {}
    BY <1>1, <1>4 DEF IInv, Justified, MainUnchanged
  <1>8. PusherGone => PusherGone'
    BY <1>3 DEF PusherGone
  <1>9. GivesUp' /\ Justified'
    BY <1>4, <1>7 DEF IInv, GivesUp, Justified
  <1>10. Waited'
    BY <1>4, <1>7, <1>8 DEF IInv, Waited
  <1>11. Heeds'
    BY <1>4 DEF Heeds
  <1> QED
    BY <1>2, <1>5, <1>6, <1>9, <1>10, <1>11 DEF IInv

\* Then it destroys what they used.
LEMMA DestroyInv ==
  ASSUME IInv, JoinGc \/ DeleteDisplay \/ Return \/ Exit
  PROVE  IInv'
  <1>1. /\ lock' = lock /\ threads' = threads /\ signals' = signals
        /\ privsKept' = privsKept /\ discovery' = discovery
    BY DEF JoinGc, DeleteDisplay, Return, Exit, MainUnchanged
  <1>2. /\ main \in {"join gc", "delete display", "return", "exit"}
        /\ main' \in {"delete display", "return", "exit", "gone"}
        /\ main' = "delete display" => ~privsKept
    BY DEF JoinGc, DeleteDisplay, Return, Exit
  <1>3. /\ freed' \subseteq freed \union {"composite", "display", "mutex"}
        /\ "display" \in freed' => "display" \in freed \/ main = "delete display"
    BY DEF JoinGc, DeleteDisplay, Return, Exit, MainUnchanged
  <1>4. GcGone /\ GcGone'
    BY <1>1 DEF IInv, Waited, JoinGc, DeleteDisplay, Return, Exit, threads, GcGone
  <1>5. /\ PusherGone' <=> PusherGone
        /\ PusherGone \/ privsKept
    BY <1>1, <1>2 DEF IInv, Waited, threads, PusherGone
  <1>6. "display" \in freed' => PusherGone
    BY <1>2, <1>3, <1>5 DEF IInv, GivesUp, Justified
  <1>7. Places'
    BY <1>1, <1>2, <1>3 DEF IInv, Places, threads
  <1>8. Flags' /\ DiscoveryTypes'
    BY <1>1 DEF IInv, Flags, DiscoveryTypes, signals, discovery
  <1>9. GivesUp' /\ Waited' /\ Justified'
    BY <1>1, <1>2, <1>4, <1>5, <1>6 DEF IInv, GivesUp, Waited, Justified
  <1>10. Heeds'
    BY <1>2 DEF Heeds
  <1> QED
    BY <1>7, <1>8, <1>9, <1>10 DEF IInv

\* A signal never ends the process while main() holds the mutex.
LEMMA TerminateInv == IInv /\ Terminate => IInv'
  <1> SUFFICES ASSUME IInv, Terminate PROVE IInv'
    OBVIOUS
  <1>1. /\ lock' = lock /\ threads' = threads /\ freed' = freed
        /\ privsKept' = privsKept /\ discovery' = discovery
    BY DEF Terminate
  <1>2. \/ main' = "gone" /\ main # "draw"
        \/ main' = main
        \/ main' = "EINTR" /\ main = "blocked"
    <2>1. CASE HasHandler
      BY <2>1 DEF Terminate
    <2>2. CASE ~HasHandler
      <3>1. main' = "gone"
        BY <2>2 DEF Terminate
      <3>2. main # "draw"
        BY <2>2 DEF IInv, GivesUp, HasHandler
      <3> QED
        BY <3>1, <3>2
    <2> QED
      BY <2>1, <2>2
  <1>3. Places'
    BY <1>1, <1>2 DEF IInv, Places, threads
  <1>4. Flags' /\ DiscoveryTypes'
    <2>1. missed' = missed \/ missed' = (main \in {"lock", "draw", "receive"})
      BY DEF Terminate, signals
    <2>2. (main \in {"lock", "draw", "receive"}) \in BOOLEAN
      OBVIOUS
    <2>3. interrupted' \in {interrupted, TRUE}
      BY DEF Terminate, signals
    <2>4. missed' \in BOOLEAN
      BY <2>1, <2>2 DEF IInv, Flags
    <2> QED
      BY <1>1, <2>3, <2>4 DEF IInv, Flags, DiscoveryTypes, discovery
  <1>5. /\ PusherGone' <=> PusherGone
        /\ GcGone' <=> GcGone
    BY <1>1 DEF PusherGone, GcGone, threads
  <1>6. GivesUp'
    BY <1>1, <1>2 DEF IInv, GivesUp
  <1>7. Waited' /\ Justified'
    BY <1>1, <1>2, <1>5 DEF IInv, Waited, Justified, threads
  <1>8. Heeds'
    <2>1. CASE ~HasHandler
      BY <2>1 DEF Terminate, Heeds
    <2>2. CASE HasHandler
      <3>1. main' \in {"receive", "lock", "draw"} => missed'
        BY <2>2 DEF Terminate
      <3>2. main' \notin {"blocked", "construct", "start pusher", "start discovery",
                         "drop privileges", "handle signals"}
        BY <2>2 DEF Terminate, HasHandler
      <3> QED
        BY <3>1, <3>2 DEF Heeds
    <2> QED
      BY <2>1, <2>2
  <1> QED
    BY <1>3, <1>4, <1>6, <1>7, <1>8 DEF IInv

-----------------------------------------------------------------------------
(* The other threads.                                                      *)

\* What is gone stays gone, and what has not begun is not begun by others.
LEMMA ThreadsInv ==
  ASSUME IInv, GcWaits \/ GcTimeout \/ GcWorks \/ GcUnlocks \/ PusherLooks \/ PusherGoesOn
  PROVE  IInv'
  <1>1. ThreadUnchanged
    BY DEF GcWaits, GcTimeout, GcWorks, GcUnlocks, PusherLooks, PusherGoesOn
  <1>2. /\ gc \in {"none", "done"} => gc' = gc
        /\ pusher \in {"none", "done"} => pusher' = pusher
        /\ gc' \in {gc, "lock", "wait", "woken", "work", "done"}
        /\ pusher' \in {pusher, "check", "wait", "swap", "done"}
    BY DEF GcWaits, GcTimeout, GcWorks, GcUnlocks, PusherLooks, PusherGoesOn
  <1>3. /\ lock' \in {lock, "free", "gc"}
        /\ lock' = "gc" <=> gc' = "work"
        /\ lock' = "main" <=> lock = "main"
    BY DEF IInv, Places, GcWaits, GcTimeout, GcWorks, GcUnlocks, PusherLooks, PusherGoesOn
  <1>4. Places'
    <2>1. main' = main /\ running' = running /\ freed' = freed
      BY <1>1 DEF ThreadUnchanged
    <2> QED
      BY <1>2, <1>3, <2>1 DEF IInv, Places
  <1>5. Flags' /\ DiscoveryTypes'
    BY <1>1 DEF IInv, Flags, DiscoveryTypes, ThreadUnchanged, signals, discovery
  <1>6. GivesUp'
    BY <1>1 DEF IInv, GivesUp, ThreadUnchanged
  <1>7. /\ PusherGone => PusherGone'
        /\ GcGone => GcGone'
    BY <1>2 DEF PusherGone, GcGone
  <1>8. Waited' /\ Justified'
    BY <1>1, <1>2, <1>7 DEF IInv, Waited, Justified, ThreadUnchanged
  <1>9. Heeds'
    BY <1>1 DEF IInv, Heeds, ThreadUnchanged, signals
  <1> QED
    BY <1>4, <1>5, <1>6, <1>8, <1>9 DEF IInv

\* Avahi's callbacks, and nothing at all.
LEMMA AnnouncingInv ==
  ASSUME IInv,
         \/ Announcing \/ Announce(Discovery!Callbacks) \/ Announce(Discovery!PollFails)
         \/ UNCHANGED vars
  PROVE  IInv'
  <1>1. /\ main' = main /\ lock' = lock /\ threads' = threads /\ freed' = freed
        /\ signals' = signals /\ privsKept' = privsKept
    BY DEF Announcing, Announce, vars
  <1>2. DiscoveryTypes'
    BY DiscoveryTyped DEF IInv, Announcing, Announce, vars
  <1>3. Places'
    BY <1>1 DEF IInv, Places, threads
  <1>4. Flags' /\ GivesUp'
    BY <1>1 DEF IInv, Flags, GivesUp, signals
  <1>5. Waited' /\ Justified'
    BY <1>1 DEF IInv, Waited, Justified, PusherGone, GcGone, threads
  <1>6. Heeds'
    <2>1. interrupted' = interrupted /\ missed' = missed
      BY <1>1 DEF signals
    <2> QED
      BY <1>1, <2>1 DEF IInv, Heeds
  <1> QED
    BY <1>2, <1>3, <1>4, <1>5, <1>6 DEF IInv

-----------------------------------------------------------------------------

LEMMA Inductive == IInv /\ [Next]_vars => IInv'
  BY StartUpInv, ServeInv, JoinInv, DestroyInv, TerminateInv, ThreadsInv, AnnouncingInv
     DEF Next, MainGoesOn, MainLocks, Others, GcLocks

\* The invariant of start-up and shutdown, signals at any time included.
THEOREM Invariance == Spec => []IInv
  <1>1. Init => IInv
    BY DEF Init, Discovery!Init, IInv, Places, Flags, DiscoveryTypes, GivesUp, Waited, Justified,
       PusherGone, GcGone, Heeds
  <1> QED
    BY <1>1, Inductive, PTL DEF Spec

\* Whoever is at a step under the mutex holds it: a signal never ends the
\* process, nor does main() give up, while a datagram is being drawn.
THEOREM LifecycleTypesHold == Spec => []TypeOK
  <1>1. IInv => TypeOK
    BY DEF IInv, Places, Flags, DiscoveryTypes, TypeOK
  <1> QED
    BY <1>1, Invariance, PTL

\* main() waits for another datagram with the flag set only if the signal came
\* after it had looked: nothing it does clears the flag or passes it by.
THEOREM SignalsHeeded == Spec => []WaitsOnlyIfMissed
  <1>1. IInv => WaitsOnlyIfMissed
    BY DEF IInv, Heeds, WaitsOnlyIfMissed
  <1> QED
    BY <1>1, Invariance, PTL

\* Composite, display and mutex are destroyed after the threads that use them
\* have been joined, but for the mutex when privileges could not be dropped.
THEOREM NothingDestroyedInUse == Spec => []DestroyedAfterUse
  <1>1. IInv => DestroyedAfterUse
    <2> SUFFICES ASSUME IInv, NEW object \in freed, NEW t \in Alive \intersect Users(object)
                 PROVE  privsKept /\ t = "pusher" /\ object = "mutex"
      BY DEF DestroyedAfterUse
    <2>1. t = "pusher"
      BY DEF IInv, Justified, GcGone, Alive
    <2>2. ~PusherGone
      BY <2>1 DEF Alive, PusherGone
    <2>3. object \in {"display", "mutex"}
      BY <2>1 DEF IInv, Places, Users
    <2> QED
      BY <2>1, <2>2, <2>3 DEF IInv, Justified
  <1> QED
    BY <1>1, Invariance, PTL

=============================================================================
