------------------------------ MODULE Scheduler ------------------------------
(***************************************************************************)
(* ftsched, the daemon that keeps demos on the wall: the Rotation that     *)
(* maps an ever growing index to the enabled entries, the Builder thread   *)
(* that builds what the next indices mean, the Show's playhead, the        *)
(* commands of the panel and the external programs of `exec' entries.      *)
(*                                                                         *)
(* Two threads run: the render loop and the Builder.  A step of either is  *)
(* what it does between two points where the other can come in (holding    *)
(* rot.lock or the Builder's lock, or building with neither).              *)
(*                                                                         *)
(* gen is only compared with the value the Builder picked, so it is the    *)
(* Boolean `current': gen has not moved since.  Time is the age of the     *)
(* segment on air, t - start, in the unit of Seconds and Overlap.          *)
(***************************************************************************)
EXTENDS Integers, Sequences

CONSTANTS
  Entries,      \* the entries of the rotation, their names distinct
  Order,        \* rot.all, a sequence of Entries
  Exec,         \* entries of kind "exec"
  Waits,        \* exec entries whose child ends the slot by exiting (wait)
  Solo,         \* entries with a cut on either side
  Fragile,      \* entries whose build() may raise
  Seconds,      \* Entry.seconds
  DefaultSeconds,
  Overlap,      \* --transition
  Versions,     \* what options can be configured to
  Installed,    \* the options of the rotation file
  Starts,       \* sets of entries load_state() may leave switched on
  Lead,         \* --lead
  NULL,
  MaxIndex,     \* bound: segments played
  MaxAge,       \* bound: how long a segment is seen to be held
  MaxCommands   \* bound: commands of the panel

ASSUME SchedulerAssumption ==
  /\ Order \in Seq(Entries) /\ Order # <<>>
  /\ \A e \in Entries : \E k \in DOMAIN Order : Order[k] = e
  /\ Exec \subseteq Solo /\ Waits \subseteq Exec /\ Solo \subseteq Entries
  /\ Fragile \subseteq Entries
  /\ Seconds \in [Entries -> Nat \ {0}]
  /\ DefaultSeconds \in Nat \ {0}
  /\ Overlap \in Nat /\ Lead \in Nat \ {0}
  /\ Installed \in [Entries -> Versions]
  /\ Starts \subseteq (SUBSET Entries) \ {{}}
  /\ NULL \notin Entries \union Versions
  /\ MaxIndex \in Nat /\ MaxAge \in Nat /\ MaxCommands \in Nat
  /\ DefaultSeconds <= MaxAge /\ \A e \in Entries : Seconds[e] <= MaxAge

VARIABLES
  enabled,     \* Rotation: the entries switched on
  offset,      \* Rotation.offset
  options,     \* Rotation: Entry.options
  segcache,    \* Builder._segcache: the options cached with an entry's Segment
  ready,       \* Builder.ready and .specs: index -> [entry, options] built
  bpc,         \* Builder: "pick", "ask", "segment", "cache" or "build"
  bIndex,      \* index it builds for
  bEntry,      \* entry it builds
  bOptions,    \* options it builds with
  current,     \* its gen is still self.gen
  rpc,         \* render loop: "top", "forget", "invalidate", "compose" or "down"
  after,       \* what follows invalidation: "none", "skip" or "replay"
  target,      \* the entry being configured
  index,       \* Show.index (and Builder.want)
  age,         \* t - Show.start
  clocked,     \* indices that have a clock
  paused,      \* Show.paused
  child,       \* Scheduler.child: "none", "running" or "exited" (not yet polled)
  childEntry,  \* Scheduler.child_entry
  overlay,     \* exec entries whose layers hold what their child drew
  shows,       \* who drew the last frame: "ours" or "child"
  stop,        \* a signal asked the daemon to end
  commands,    \* commands applied so far
  asked,       \* history: entry of a jump whose segment has not begun
  strays       \* history: built indices whose entry the Builder's own switching
               \* off of a broken entry may have remapped

rotation == <<enabled, offset, options>>
builder  == <<segcache, bpc, bIndex, bEntry, bOptions>>
show     == <<index, age, clocked, paused>>
exec     == <<child, childEntry, overlay, shows>>
history  == <<asked, strays>>
vars == <<rotation, builder, ready, current, rpc, after, target, show, exec, stop,
          commands, history>>

Least(a, b)    == IF a < b THEN a ELSE b
Greatest(a, b) == IF a > b THEN a ELSE b

\* The entries of S in the order of rot.all.
InOrder(S) ==
  LET Upto[k \in 0 .. Len(Order)] ==
        IF k = 0 THEN <<>>
        ELSE IF Order[k] \in S THEN Append(Upto[k - 1], Order[k]) ELSE Upto[k - 1] IN
    Upto[Len(Order)]

\* The entries a jump can name by position, in running order.
Live == InOrder(enabled)

\* Rotation.at(): what index i means now.
EntryAt(i) ==
  LET live == Live IN
    IF live = <<>> THEN NULL ELSE live[((i + offset) % Len(live)) + 1]

Dur(i) ==
  LET entry == EntryAt(i) IN IF entry = NULL THEN DefaultSeconds ELSE Seconds[entry]

Render == [entry : Entries, options : Versions]

Without(f, S) == [i \in DOMAIN f \ S |-> f[i]]

-----------------------------------------------------------------------------
(* Startup: run() with load_state() done and the opening effect built.     *)

Init ==
  /\ enabled \in Starts
  /\ offset = 0
  /\ options = Installed
  /\ segcache = [e \in Entries |->
                   IF e = EntryAt(0) /\ e \notin Exec THEN Installed[e] ELSE NULL]
  /\ ready = [i \in {0} |-> [entry |-> EntryAt(0), options |-> options[EntryAt(0)]]]
  /\ bpc = "pick" /\ bIndex = 0 /\ bEntry = NULL /\ bOptions = NULL
  /\ current = FALSE
  /\ rpc = "top" /\ after = "none" /\ target = NULL
  /\ index = 0 /\ age = 0 /\ clocked = {0} /\ paused = FALSE
  /\ child = "none" /\ childEntry = NULL /\ overlay = {} /\ shows = "ours"
  /\ stop = FALSE
  /\ commands = 0
  /\ asked = NULL /\ strays = {}

-----------------------------------------------------------------------------
(* The Builder thread: _run() and, under it, segment_for().                *)

\* Mutant of Missing: one more index than the lookahead window has.
MissingBeyondLead == {i \in index .. index + Lead + 1 : i \notin DOMAIN ready}

Missing == {i \in index .. index + Lead : i \notin DOMAIN ready}

BuilderUnchanged == UNCHANGED <<offset, options, rpc, after, target, show, exec, stop, commands>>

\* The locals of a turn of the loop go out of scope.
TurnOver ==
  /\ bpc' = "pick"
  /\ bIndex' = 0 /\ bEntry' = NULL /\ bOptions' = NULL
  /\ current' = FALSE

\* Mutant of Pick: gen is not read again for the next build.
PickWithOldGen ==
  /\ bpc = "pick"
  /\ rpc # "down"
  /\ Missing # {}
  /\ bIndex' = CHOOSE i \in Missing : \A k \in Missing : i <= k
  /\ bpc' = "ask"
  /\ UNCHANGED <<enabled, segcache, ready, current, bEntry, bOptions, history>>
  /\ BuilderUnchanged

\* _next_missing() and gen, read under the lock; no index missing is the wait.
Pick ==
  /\ bpc = "pick"
  /\ rpc # "down"
  /\ Missing # {}
  /\ bIndex' = CHOOSE i \in Missing : \A k \in Missing : i <= k
  /\ current' = TRUE
  /\ bpc' = "ask"
  /\ UNCHANGED <<enabled, segcache, ready, bEntry, bOptions, history>>
  /\ BuilderUnchanged

\* entry_at(), after the lock is released; None sends it to sleep and retry.
Ask ==
  /\ bpc = "ask"
  /\ \/ /\ EntryAt(bIndex) # NULL
        /\ bEntry' = EntryAt(bIndex)
        /\ bpc' = "segment"
        /\ UNCHANGED <<current, bIndex, bOptions>>
     \/ EntryAt(bIndex) = NULL /\ TurnOver
  /\ UNCHANGED <<enabled, segcache, ready, history>>
  /\ BuilderUnchanged

\* An exec entry has nothing to build.  Otherwise the cached Segment is used,
\* and without one the options are copied before the module is imported.
ReadOptions ==
  /\ bpc = "segment"
  /\ \/ /\ bEntry \in Exec
        /\ bOptions' = options[bEntry]
        /\ bpc' = "build"
     \/ /\ bEntry \notin Exec
        /\ segcache[bEntry] # NULL
        /\ bOptions' = segcache[bEntry]
        /\ bpc' = "build"
     \/ /\ bEntry \notin Exec
        /\ segcache[bEntry] = NULL
        /\ bOptions' = options[bEntry]
        /\ bpc' = "cache"
  /\ UNCHANGED <<enabled, segcache, ready, current, bIndex, bEntry, history>>
  /\ BuilderUnchanged

CacheSegment ==
  /\ bpc = "cache"
  /\ segcache' = [segcache EXCEPT ![bEntry] = bOptions]
  /\ bpc' = "build"
  /\ UNCHANGED <<enabled, ready, current, bIndex, bEntry, bOptions, history>>
  /\ BuilderUnchanged

\* build() raised: the entry is switched off, which moves the mapping of every
\* index, built or not; only the Builder's own pick is thrown away.
BuildFails ==
  /\ bpc = "build"
  /\ bEntry \in Fragile \ Exec
  /\ enabled' = enabled \ {bEntry}
  /\ TurnOver
  /\ asked' = NULL
  /\ strays' = DOMAIN ready
  /\ UNCHANGED <<segcache, ready>>
  /\ BuilderUnchanged

\* Mutant of File: filed although the mapping moved while it was building.
FileAnyway ==
  /\ bpc = "build"
  /\ ready' = [i \in DOMAIN ready \union {bIndex} |->
                 IF i = bIndex THEN [entry |-> bEntry, options |-> bOptions] ELSE ready[i]]
  /\ TurnOver
  /\ UNCHANGED <<enabled, segcache, history>>
  /\ BuilderUnchanged

File ==
  /\ bpc = "build"
  /\ \/ /\ current
        /\ ready' = [i \in DOMAIN ready \union {bIndex} |->
             IF i = bIndex THEN [entry |-> bEntry, options |-> bOptions] ELSE ready[i]]
     \/ ~current /\ UNCHANGED ready
  /\ TurnOver
  /\ UNCHANGED <<enabled, segcache, history>>
  /\ BuilderUnchanged

BuilderWorks == Pick \/ Ask \/ ReadOptions \/ CacheSegment \/ File

-----------------------------------------------------------------------------
(* Commands, applied one after another at the top of a frame (_drain()).   *)
(* Those that change nothing are left out.                                 *)

\* Show.skip(): the segment ends gap from now, or earlier as it was to.
Skip(gap) == age' = Greatest(age, Dur(index) - gap)

Command ==
  /\ rpc = "top"
  /\ ~stop
  /\ commands < MaxCommands
  /\ commands' = commands + 1
  /\ UNCHANGED <<builder, ready, current, index, clocked, exec, stop, strays>>

PauseOrResume ==
  /\ Command
  /\ paused' = ~paused
  /\ UNCHANGED <<rotation, rpc, after, target, age, asked>>

\* set_enabled(): never empties the rotation.
Toggle(e) ==
  /\ Command
  /\ \/ enabled' = enabled \union {e}
     \/ ~(enabled \subseteq {e}) /\ enabled' = enabled \ {e}
  /\ rpc' = "invalidate"
  /\ after' = "none"
  /\ asked' = NULL
  /\ UNCHANGED <<offset, options, target, age, paused>>

\* set_all(): `off' keeps what the mapping says is on air.
All ==
  /\ Command
  /\ \/ enabled' = Entries
     \/ enabled' = IF EntryAt(index) = NULL THEN {Order[1]} ELSE {EntryAt(index)}
  /\ enabled' # enabled
  /\ rpc' = "invalidate"
  /\ after' = "none"
  /\ asked' = NULL
  /\ UNCHANGED <<offset, options, target, age, paused>>

\* Mutant of JumpOffset: the position is to play at the index on air.
JumpOffsetHere(position) == (position - index) % Len(Live)

\* Rotation.jump(position, show.index + 1).
JumpOffset(position) == (position - (index + 1)) % Len(Live)

Jump ==
  /\ Command
  /\ \E position \in 0 .. Len(Live) - 1 :
       /\ offset' = JumpOffset(position)
       /\ asked' = Live[position + 1]
  /\ rpc' = "invalidate"
  /\ after' = "skip"
  /\ UNCHANGED <<enabled, options, target, age, paused>>

NextSegment ==
  /\ Command
  /\ Skip(Overlap)
  /\ asked' = NULL
  /\ UNCHANGED <<rotation, rpc, after, target, paused>>

Restart ==
  /\ Command
  /\ rpc' = "invalidate"
  /\ after' = "skip"
  /\ asked' = NULL
  /\ UNCHANGED <<rotation, target, age, paused>>

\* _configure(): Rotation.configure(), then forget(), then invalidation and, if
\* asked to restart, a jump to what the mapping says is on air.
Configure(e) ==
  /\ Command
  /\ e \notin Exec
  /\ \E v \in Versions : options' = [options EXCEPT ![e] = v]
  /\ rpc' = "forget"
  /\ after' \in {"none", "replay"}
  /\ target' = e
  /\ asked' = NULL
  /\ UNCHANGED <<enabled, offset, age, paused>>

RenderUnchanged == UNCHANGED <<enabled, options, bpc, bIndex, bEntry, bOptions, stop, commands>>

Forget ==
  /\ rpc = "forget"
  /\ segcache' = [segcache EXCEPT ![target] = NULL]
  /\ rpc' = "invalidate"
  /\ UNCHANGED <<offset, ready, current, after, target, show, exec, history>>
  /\ RenderUnchanged

\* Mutant of InvalidateFrom: the segment on air is dropped too.
InvalidateOnAir(i) ==
  /\ ready' = Without(ready, {k \in DOMAIN ready : k >= i - 1})
  /\ strays' = strays \ {k \in DOMAIN ready : k >= i - 1}
  /\ current' = FALSE

InvalidateFrom(i) ==
  /\ ready' = Without(ready, {k \in DOMAIN ready : k >= i})
  /\ strays' = strays \ {k \in DOMAIN ready : k >= i}
  /\ current' = FALSE

PositionOf(e) == CHOOSE k \in 0 .. Len(Live) - 1 : Live[k + 1] = e

Invalidate ==
  /\ rpc = "invalidate"
  /\ InvalidateFrom(index + 1)
  /\ \/ /\ after = "skip"
        /\ Skip(Overlap)
        /\ rpc' = "top"
        /\ after' = "none"
        /\ target' = NULL
        /\ UNCHANGED <<offset, asked>>
     \/ /\ after = "replay"
        /\ EntryAt(index) = target
        /\ offset' = JumpOffset(PositionOf(target))
        /\ asked' = target
        /\ after' = "skip"
        /\ UNCHANGED <<rpc, target, age>>
     \/ /\ after = "none" \/ (after = "replay" /\ EntryAt(index) # target)
        /\ rpc' = "top"
        /\ after' = "none"
        /\ target' = NULL
        /\ UNCHANGED <<offset, age, asked>>
  /\ UNCHANGED <<segcache, index, clocked, paused, exec>>
  /\ RenderUnchanged

-----------------------------------------------------------------------------
(* A frame: time moves on, _compose() advances the playhead as far as what *)
(* is built allows, and _frame() draws or leaves the wall to a child.      *)

FrameUnchanged == UNCHANGED <<rotation, builder, current, after, target, paused, stop, commands>>

\* hold() takes back what time a pause lets pass.
Tick ==
  /\ rpc = "top"
  /\ ~stop
  /\ age' = IF paused THEN age ELSE Least(age + 1, MaxAge)
  /\ rpc' = "compose"
  /\ UNCHANGED <<ready, index, clocked, exec, history>>
  /\ FrameUnchanged

Ended == age >= Dur(index) /\ index + 1 \in DOMAIN ready /\ index < MaxIndex

\* One turn of the loop in _compose(), with Builder.retire().
Advance ==
  /\ rpc = "compose"
  /\ Ended
  /\ index' = index + 1
  /\ ready' = Without(ready, 0 .. index)
  /\ strays' = strays \ (0 .. index)
  /\ clocked' = (clocked \ (0 .. index)) \union {index + 1}
  /\ age' = age - Dur(index)
  /\ asked' = NULL
  /\ UNCHANGED <<rpc, exec>>
  /\ FrameUnchanged

Cuts(i) ==
  \/ EntryAt(i - 1) \in Solo \union {NULL}
  \/ EntryAt(i) \in Solo \union {NULL}

\* In the last Overlap units the next segment, once built, runs too.
InTransition ==
  /\ ~Cuts(index + 1) /\ Overlap > 0
  /\ age >= Dur(index) - Overlap
  /\ index + 1 \in DOMAIN ready

Compose ==
  /\ rpc = "compose"
  /\ ~Ended
  /\ rpc' = "top"
  /\ clocked' = IF InTransition THEN clocked \union {index + 1} ELSE clocked
  /\ UNCHANGED <<ready, index, history>>
  /\ FrameUnchanged

\* _reap() of the child of entry e: end it, and blank the layers it drew on.
Reap(e) == child' = "none" /\ childEntry' = NULL /\ overlay' = overlay \ {e}

\* Mutant of DrawOurs: the child is left running.
DrawOursBesideChild ==
  /\ Compose
  /\ EntryAt(index) \notin Exec
  /\ shows' = "ours"
  /\ UNCHANGED <<age, child, childEntry, overlay>>

DrawOurs ==
  /\ Compose
  /\ EntryAt(index) \notin Exec
  /\ shows' = "ours"
  /\ \/ child # "none" /\ Reap(childEntry)
     \/ child = "none" /\ UNCHANGED <<child, childEntry, overlay>>
  /\ UNCHANGED age

\* _supervise() of an entry that is not the last one started.
StartChild ==
  /\ Compose
  /\ EntryAt(index) \in Exec \ {childEntry}
  /\ shows' = "child"
  /\ childEntry' = EntryAt(index)
  /\ \/ /\ child' = "running"
        /\ overlay' = (overlay \ {childEntry}) \union {childEntry'}
        /\ UNCHANGED age
     \/ /\ child' = "none"     \* Popen() failed
        /\ overlay' = overlay \ {childEntry}
        /\ Skip(0)

\* _supervise() of the entry it last started.
WatchChild ==
  /\ Compose
  /\ EntryAt(index) \in Exec \cap {childEntry}
  /\ shows' = "child"
  /\ child' = IF child = "exited" THEN "none" ELSE child
  /\ \/ child = "exited" /\ childEntry \in Waits /\ Skip(0)
     \/ ~(child = "exited" /\ childEntry \in Waits) /\ UNCHANGED age
  /\ UNCHANGED <<childEntry, overlay>>

\* The effect on air raised: no frame, and the segment ends.
RenderRaises ==
  /\ Compose
  /\ ready[index].entry \notin Exec
  /\ Skip(0)
  /\ UNCHANGED exec

ChildExits ==
  /\ child = "running"
  /\ child' = "exited"
  /\ UNCHANGED <<rotation, builder, ready, current, rpc, after, target, show, childEntry,
                 overlay, shows, stop, commands, history>>

Signal ==
  /\ ~stop
  /\ stop' = TRUE
  /\ UNCHANGED <<rotation, builder, ready, current, rpc, after, target, show, exec,
                 commands, history>>

\* Mutant of Shutdown: a child that was seen to exit is not cleared after.
ShutdownReapingAlive ==
  /\ rpc = "top"
  /\ stop
  /\ rpc' = "down"
  /\ \/ child # "none" /\ Reap(childEntry)
     \/ child = "none" /\ UNCHANGED <<child, childEntry, overlay>>
  /\ UNCHANGED <<rotation, builder, ready, current, after, target, show, shows, stop,
                 commands, history>>

\* _shutdown(): the child goes, and the Builder is told to.
Shutdown ==
  /\ rpc = "top"
  /\ stop
  /\ rpc' = "down"
  /\ Reap(childEntry)
  /\ UNCHANGED <<rotation, builder, ready, current, after, target, show, shows, stop,
                 commands, history>>

-----------------------------------------------------------------------------

Commands ==
  \/ PauseOrResume \/ All \/ Jump \/ NextSegment \/ Restart
  \/ \E e \in Entries : Toggle(e) \/ Configure(e)

RenderWorks ==
  \/ Forget \/ Invalidate
  \/ Tick \/ Advance \/ DrawOurs \/ StartChild \/ WatchChild
  \/ Shutdown

Next ==
  \/ BuilderWorks
  \/ BuildFails
  \/ Commands
  \/ RenderWorks
  \/ RenderRaises
  \/ ChildExits
  \/ Signal

\* The render loop goes on, builds end.  Nobody has to command, fail or exit.
Fairness == WF_vars(RenderWorks) /\ WF_vars(BuilderWorks)

Spec == Init /\ [][Next]_vars /\ Fairness

-----------------------------------------------------------------------------
(* Properties.                                                             *)

\* Types; the Builder works ahead of the playhead and no further than Lead.
TypeOK ==
  /\ enabled \in SUBSET Entries
  /\ offset \in 0 .. Len(Order) - 1
  /\ options \in [Entries -> Versions]
  /\ segcache \in [Entries -> Versions \union {NULL}]
  /\ DOMAIN ready \subseteq index .. index + Lead
  /\ \A i \in DOMAIN ready : ready[i] \in Render
  /\ bpc \in {"pick", "ask", "segment", "cache", "build"}
  /\ bIndex \in Nat
  /\ bEntry \in Entries \union {NULL}
  /\ bOptions \in Versions \union {NULL}
  /\ bpc # "pick" => bIndex \in index + 1 .. index + Lead
  /\ bpc \in {"segment", "cache", "build"} => bEntry \in Entries
  /\ bpc \in {"cache", "build"} => bOptions \in Versions
  /\ current \in BOOLEAN
  /\ rpc \in {"top", "forget", "invalidate", "compose", "down"}
  /\ after \in {"none", "skip", "replay"}
  /\ target \in Entries \union {NULL}
  /\ index \in 0 .. MaxIndex
  /\ age \in 0 .. MaxAge
  /\ clocked \subseteq index .. index + 1
  /\ paused \in BOOLEAN
  /\ child \in {"none", "running", "exited"}
  /\ childEntry \in Exec \union {NULL}
  /\ overlay \subseteq Exec
  /\ shows \in {"ours", "child"}
  /\ stop \in BOOLEAN
  /\ commands \in 0 .. MaxCommands
  /\ asked \in Entries \union {NULL}
  /\ strays \subseteq DOMAIN ready

\* The frame loop never asks for an effect that is not there or that has no
\* clock: whatever is invalidated, retired or stolen by a command, the segment
\* on air is built ("hold, which stretches a segment rather than punching a
\* black hole in the show").
OnAirBuilt == index \in DOMAIN ready /\ index \in clocked

\* Between commands, what is built ahead is what the running order says, unless
\* the Builder itself has switched a broken entry off since: a build that was
\* in flight when the mapping moved is never filed (comment on Builder.gen).
ReadyAsMapped ==
  rpc \in {"top", "compose", "down"} =>
    \A i \in DOMAIN ready \ strays : i > index => ready[i].entry = EntryAt(i)

\* The segment after the one on air at a jump is the one asked for, however
\* many builds were done or in flight for its index.
JumpLands == [][index' # index /\ asked # NULL => ready'[index'].entry = asked]_vars

\* What is on air is never exchanged under the playhead, whatever is rebuilt,
\* reconfigured, invalidated or retired around it, and what follows is what was
\* asked for, if anything was.
PO == INSTANCE Playout
        WITH Things <- Render, count <- index, playing <- ready[index], wanted <- asked
ImplementsPlayout == PO!Spec

\* And it comes, if its build succeeds and the show is not paused or stopped.
JumpPlays ==
  (asked # NULL) ~> (asked = NULL \/ paused \/ stop \/ index = MaxIndex)

\* The daemon and a child never draw at the same time.
OneDrawer == shows = "ours" => child = "none"

\* Once down, no child runs and no layer a child drew on is left.
CleanExit == rpc = "down" => child = "none" /\ overlay = {}

\* "The current effect keeps playing even if it is the one just switched off"
\* and "indices already built stay pinned to what they were" (comments in
\* _apply() and of Rotation): what is taken to be on air is what was built.
OnAirPinned == rpc = "compose" => EntryAt(index) = ready[index].entry

\* "An exec entry names the layers it draws on (clears), which are blanked when
\* its slot ends" (demos/README.md): none is left under our own frames.
ClearsAreCleared == shows = "ours" => overlay = {}

\* "A change applies the next time that effect is built" (demos/README.md).
BuiltAsConfigured ==
  rpc = "top" =>
    \A i \in DOMAIN ready : i > index => ready[i].options = options[ready[i].entry]

=============================================================================
