# FlaschenTaschen: a TLA+ model of the display server and what surrounds it

This directory specifies the parts of this repository that keep a shared LED
wall correct while several threads and processes draw on it and command it: the
compositing server and the client library (C++), the daemon that rotates demos
on it, the bridge that phones and home automation control it by, and the
preview for browsers (Python).  It contains TLA+ modules, TLC configurations
that check them on small instances, and proofs for TLAPS of the properties that
matter most, for every panel and canvas size, number of layers, set of colours,
number of writers, request threads, browsers and entries.

    tlc -config Composite.cfg MCComposite         # model-check
    tlapm Composite_proofs.tla                    # check the proofs

Contents: [the system](#1-the-system), [the modules](#2-the-modules),
[what the runs check](#3-the-runs), [findings](#4-findings),
[what is proved](#5-the-proofs), [what is left out](#6-what-is-not-modelled),
[the plan](#7-the-plan).


## 1. The system

### The parts and how they interact

    clients (C++ api/lib, api/python, send-*, demos)      phones, home automation
        | UDP datagrams: a PPM image,                        | HTTP        | MQTT
        | offset and layer in its footer                     v             v
        v                                              +----------- ftctl -----------+
    +------------- ft-server ----------------------+   | polls both, optimistic      |
    | udp-server loop  ---+                        |<--| patches, reconciles         |
    | (main thread)       |   composite  -> RGB    |   +-------------+---------------+
    |                     +-> (layers,      matrix |                 | HTTP
    | layer collector  ---+    z-buffer)    fb_    |                 v
    | thread          one mutex               |    |   +----------- ftsched ---------+
    |                                  DisplayPusher|<--| render loop | Builder thread|
    |                                       thread |   | exec children, HTTP panel   |
    +----------------------------------------|-----+   +-----------------------------+
                                             v
                                     two FrameCanvases, swap on vsync

**Layered display** (`server/composite-flaschen-taschen.cc`).  A stack of
layers of which black is transparent everywhere but in layer 0.  State: a
buffer per layer, allocated when first used; a z-buffer with the layer seen at
each pixel; `any_visible_pixel_drawn_`, that lets `Send()` skip frames; a time
stamp per layer; the clock the stamps are taken from.  Operations: `SetLayer`,
`SetPixel`, `Send`, and `ClearLayersOlderThan`, called once a second by the
collector thread.  Hard: the collector writes pixels without compositing them
when the z-buffer says they are hidden, so one wrong entry of it shows; the
clock is written by one thread, read by another, and lags by a tick.  It is
correct when every frame handed on is the stack seen from the front, and
layers are collected when, and only when, they have been idle for long enough.

**UDP server** (`server/udp-server.cc`).  A loop that turns each datagram into
a critical section: `SetLayer`, one `SetPixel` per pixel, `Send`, `SetLayer(0)`.
Correct when the display is left at rest, whatever the offset and layer said.

**RGB matrix display** (`server/rgb-matrix-flaschen-taschen.cc`).  Writers put
pixels in `fb_` and grow a dirty rectangle; a thread copies that rectangle to
the back buffer, swaps it in at the next refresh with the mutex released, and
resyncs the other canvas.  State: `fb_`, the rectangle, `frame_ready_`, which
canvas is where, the thread's place.  Hard: updates are incremental, so the
spare canvas has to be in step outside the rectangle; writers go on during the
swap; wakeups; being told to stop in any of its states.  Correct when whole
frames appear, in order, the last one always, and stopping ends.

**Threads** (`server/ft-thread.cc`): mutex, condition with a deadline, join.

**Start-up and shutdown** (`server/main.cc`): command line, displays, dropping
of privileges, the order in which threads begin and end, signals.

**Scheduler** (`demos/ftsched.py`).  A *rotation* of entries, mapped by
`entry_at(index)` from an index that only grows; a *Builder* thread that builds
the segments of the next `--lead` indices, each of which may take seconds or
fail; a *Show*, the playhead, that holds a segment until the next is built;
*commands* queued by an HTTP panel and applied between frames; `exec` entries,
which are other programs drawing on their own layers while the daemon is
silent.  Hard: a command changes what every index means while builds are in
flight under the old meaning; two locks guard the mapping and what is built;
options are read, then a module imported, then cached; children exit at any
time.  Correct when the segment on air always exists, what is built ahead is
what the running order says, a jump plays what was asked for, one program
draws at a time, and what a child leaves on its layers is cleared.

**Control bridge** (`demos/ftctl.py`, `ftctl_mqtt.py`).  One page and one MQTT
device for server and scheduler.  It polls both, patches its snapshot
optimistically after a command, saves what was asked for in a file, and applies
brightness and blanking again when the server's generation shows that it was
restarted.  State: the cached snapshot, `Desired` in memory and on disk, the
generation last seen; for MQTT the connection, the key last sent.  Hard: a
thread per request, the poll and the MQTT client share all of it with one lock
around the cache only; a poll overtaking a write, a command failing during
reconciliation, a crash between the steps of a save, a snapshot published late.
Correct when the wall does what is remembered after a restart of anything, the
file can always be read, and Home Assistant shows in the end what the wall does.

**Browser preview** (`tools/ft-web`).  A second implementation of the layered
display in Python, with `touched` flags instead of a z-buffer, a
loop that expires layers, flattens and sends what changed, and a hub that passes
over clients whose last send is in flight.  Correct when it shows what the wall
shows, and a browser ends on the newest frame.

**Client libraries** (`api/lib`, `api/python`).  Split frames into row chunks
that fit a datagram, of a size taken from a parameter, the socket and the
environment; the Python one retries, counts and reports failures.  Correct when
no datagram is too large and a lost one costs its rows and no more.

**Service discovery** (`server/service-discovery.cc`, `api/lib/ft-discovery.cc`):
Avahi client and entry group state machines on one side, browse, resolve and
time out on the other.

**Others**: the PPM parser; terminal displays and the fixed wiring of crate
columns; the OPC and Pixel Pusher servers, that no longer have a caller; games,
demos and command line clients; the LED drivers (`rgb-matrix`, `spixels`), third
party libraries kept in the tree, which the models know as two canvases and a
swap.

`PROJECT.json` lists each of these with its status, and under `hazards` the
places in the code where something can go wrong that a test would hardly
reach, with the properties that cover them.


## 2. The modules

| module | stands for | extends / instantiates |
|---|---|---|
| `LayeredDisplay` | what the composite promises: an abstract stack of layers and the frames seen | |
| `Composite` | `composite-flaschen-taschen.cc`, the UDP loop, the collector thread | `LayeredDisplay` as refinement target |
| `Composite_proofs` | proofs about it | `Composite`, `TLAPS` |
| `Panel` | what the RGB matrix display promises: whole frames, in order | |
| `DisplayPusher` | `rgb-matrix-flaschen-taschen.cc` and its users | `Panel` as refinement target |
| `DisplayPusher_proofs` | proofs about it | `DisplayPusher`, `TLAPS` |
| `ServerLifecycle` | `main.cc` and the ends of all threads | instantiates `ServiceDiscovery` |
| `ServerLifecycle_proofs` | proofs about it | `ServerLifecycle`, `TLAPS` |
| `ServiceDiscovery` | `service-discovery.cc` | |
| `Playout` | what the scheduler promises: one thing on at a time, what was asked for next | |
| `Scheduler` | `ftsched.py` | `Playout` as refinement target |
| `Scheduler_proofs` | proofs about it | `Scheduler`, `LeastNumber`, `TLAPS` |
| `ControlBridge` | `ftctl.py`: `Bridge`, `Desired` and the requests | |
| `ControlBridge_proofs` | proofs about it | `ControlBridge`, `TLAPS` |
| `MqttBridge` | `ftctl_mqtt.py` on top of it | `ControlBridge` |
| `MqttBridge_proofs` | proofs about it | `MqttBridge`, `ControlBridge_proofs` |
| `FrameSender` | `api/lib/udp-flaschen-taschen.cc` | |
| `WebPreview` | `ft-web-server.py`: the display, `push_loop()`, the hub and its clients | |
| `Preview` | a client, the network and ft-web | `FrameSender`, `WebPreview`; `LayeredDisplay` as refinement target |
| `Preview_proofs` | proofs about it | `Preview`, `LeastNumber`, `TLAPS` |
| `LeastNumber` | that a set of numbers has a least one, and induction up to a number | `WellFoundedInduction`, `TLAPS` |
| `MC...` | constants for TLC, nothing else | the module they name |

`Composite` and `DisplayPusher` meet at the delegatee: `Composite!out` and
`sent` are what `DisplayPusher` calls `fb` and `latest`.  A writer of
`DisplayPusher` sends, before it unlocks, whenever it has drawn; that the
composite does so is `AtRestWhenUnlocked`, proved in `Composite_proofs`.
`LayeredDisplay` has two implementations, `Composite` and `WebPreview`: that
both refine it is what makes the preview a preview.  Its `Draw` replaces part of
one layer, so that a datagram that ft-web takes over as a whole and the pixels
that the server takes one by one are both instances of it.

### Composite

One step is one pixel, not one critical section: the properties therefore hold
in the middle of a datagram and of a collection as well.

| TLA+ | code |
|---|---|
| `lock` | the display mutex; `udp` for the server loop, `gc` for the collector |
| `screens`, `NULL` | `screens_`, a buffer not allocated yet |
| `zbuf`, `out`, `visible` | `z_buffer_`, the delegatee's pixels, `any_visible_pixel_drawn_` |
| `stamp`, `now`, `ticks` | `last_layer_update_time_`, `current_time_`, the collector's `ticks_` |
| `UdpLock`, `UdpDraw`, `UdpFinish` | one datagram: lock and `SetLayer`; each `SetPixel`; `Send`, `SetLayer(0)`, unlock |
| `GcWake` ... `GcFinish` | one tick of `LayerGarbageCollector::Run()`, the loop of `ClearLayersOlderThan()` layer by layer and pixel by pixel |
| `Landing` | the walk down the stack that `SetPixelAtLayer()` makes from the layer drawn on |

`current_time_` has no initial value, so `Init` takes it from `StartTimes`: any
value, as far as the code says.  The rows and columns of a datagram are a set of
positions of which some are off the panel; since they are distinct the code's
row-major order is one of the orders explored.  `idle` and `timed` are history
variables that only properties look at: how many ticks ago `SetLayer()` named a
layer, and whether the clock was running then.

A remark on the comments: lines 198-202 justify clearing a pixel without
recompositing by "this layer was already transparent" there.  That is not so
when a higher layer covers the pixel; clearing it without recompositing is right
nevertheless, because what is seen is above, and that is what `ZBufferRight`
and its proof say.

### DisplayPusher

| TLA+ | code |
|---|---|
| `fb`, `dirty` | `fb_`, `dirty_x0_` ... `dirty_y1_` (half open; `Clean` is the empty one) |
| `frameReady`, `pc = "wait"` | `frame_ready_`, waiting on `frame_cond_` |
| `canvas`, `front`, `back` | the two `FrameCanvas`es, the one scanned out, `back_buffer_` |
| `WriterLock/Draw/Unlock` | the critical section of the UDP loop or the collector, as far as it shows here |
| `PusherExit/Wait/TakeNothing/TakeDirtyRegion` | the part of `DisplayPusher::Run()` under the mutex |
| `SwapOnVSync`, `Resync` | `SwapAndResync()`, with the mutex released |
| `TriggerExit`, `WaitStopped` | `StopDisplayThread()` |

`PusherTimeout` is the 250 ms deadline or a spurious wakeup; nothing is assumed
of it, so no property may depend on the timeout to paper over a lost wakeup.
Of the canvases and the swap, which are the library's, the model uses that the
panel scans the new canvas from the next refresh on and that a swap returns the
one shown before (`SwapOnVSync` in `rgb-matrix/lib/led-matrix.cc`).

### ServerLifecycle and ServiceDiscovery

| TLA+ | code |
|---|---|
| `main` | where `main()` is, from the composite's construction to its return |
| `gc`, `pusher`, `thread` | where the collector, the presenting thread and the announcing thread are |
| `running`, `shutdown` | `running_` of the first two, `shutdown_requested_` of the third |
| `freed` | which of the composite, the display and the mutex have been destroyed |
| `Construct` ... `HandleSignals` | start-up, with `drop_privs()` failing or not |
| `Receive`, `Received`, `LookAtFlag`, `LockDatagram`, `UnlockDatagram` | the loop of `udp_server_run_blocking()` |
| `StopPusher` ... `Exit` | the rest of `main()`, `StopDisplayThread()` and the composite's destructor |
| `Terminate` | a signal: before the handler is installed, or after |
| `GcWaits`, `GcTimeout`, `GcWorks`, `GcUnlocks` | the collector: it waits before it looks at `running_` |
| `ServiceDiscovery!Connect` ... `PollFails` | `Run()` and the two Avahi callbacks, in any order Avahi can make them |

What the two other modules have in detail is reduced here to where a thread
waits and when it holds the mutex.  Two histories mark what `main()` cannot do
anything about any more: `missed`, a signal that came after the flag was looked
at and before `recvfrom()`, during all of the drawing of a datagram, that is; and
`privsKept`, the early return, which destroys composite and mutex while the
presenting thread is at work.  `Following` says how Avahi's client states follow
each other; it is the library's and the only external definition.

### Scheduler

| TLA+ | code |
|---|---|
| `enabled`, `offset`, `options` | the `Rotation`: `Entry.enabled`, `offset`, `Entry.options` |
| `EntryAt` | `Rotation.at()`, the mapping from index to entry |
| `ready`, `segcache` | `Builder.ready` and `specs`, `_segcache` |
| `Pick`, `Ask`, `ReadOptions`, `CacheSegment`, `File`, `BuildFails` | one turn of `Builder._run()`, split wherever it holds no lock |
| `Toggle`, `All`, `Jump`, `NextSegment`, `Restart`, `Configure`, `PauseOrResume` | `_apply()` and what it calls under `rot.lock` |
| `Forget`, `Invalidate` | what `_apply()` then does under the Builder's lock |
| `Tick`, `Advance`, `Compose` | a frame: `_compose()`, one turn of its loop a step, with `Builder.retire()` |
| `DrawOurs`, `StartChild`, `WatchChild`, `RenderRaises` | the ends of `_frame()`, with `_supervise()` and `_reap()` |
| `ChildExits`, `Signal`, `Shutdown` | the environment, and `_shutdown()` |

Abstractions, each of which keeps what the properties tell apart:

* `gen` is compared with the value a build was started under and nothing else,
  so it is the Boolean `current`: no invalidation since the pick.
* Time is the age of the segment on air.  `Skip` and `Advance` change it as the
  code changes `start`; what is left after a stall is carried over to the next
  segment (`age - Dur(index)`), as in the code.  Clocks are the set of indices
  that have one; a jump in the middle of a transition leaves the clock of the
  build that was thrown away, which is visible here but no property's subject.
* `want` always equals the index after a frame and only wakes the Builder, so it
  is not a variable of its own.  `Builder.spec()` has no caller.
* The queue of commands is abstracted to commands applied between frames: that
  is the only place `_drain()` is called from, and a refused one does nothing.
* Entry names are distinct.  A rotation file with the same name twice is outside
  the model.
* The Builder's locals are reset at the end of a turn, to keep states that do
  not differ from being told apart.
* `asked` and `strays` are history variables: the entry a jump asked for, and
  the indices whose meaning the Builder moved by switching off a broken entry,
  which it does without invalidating anything (`ReadyAsMapped` exempts exactly
  those; they are played as built).

### ControlBridge and MqttBridge

A step is one access to what threads share: a command and its reply, an
assignment to `Desired`, each system call of `save()`, the patch of the cache.

| TLA+ | code |
|---|---|
| `up`, `gen`, `server`, `paused` | ft_server: running, its generation, what it does; ftsched's pause.  Both are other programs, known from what ftctl sends and reads |
| `cache`, `desired`, `known` | `Bridge.display`, `Desired`, `Bridge._generation` |
| `path`, `tmp`, `fd`, `blob` | the state file and `.tmp`, the file a thread has open, what it is writing |
| `Command`, `Assign`, `Patch`, `Pause`, `Reply` | `set_brightness()`, `set_blanked()` in a request thread |
| `Open`, `Write`, `Replace` | `Desired.save()` |
| `PollAnswered` ... `PollListen` | one turn of `Bridge.run()` |
| `Compare`, `Adopt`, `Reconcile`, `Send` | `_reconcile()` |
| `ServerStops`, `ServerStarts`, `Crash` | restarts of ft_server (with ftsched) and of ftctl |
| `MqttBridge!link`, `connected`, `lastKey`, `retained` | the connection, `_connected`, `_last_key`, what the broker keeps |
| `OnConnect`, `Reassert`, `OnDisconnect` | the callbacks of the client's network thread, one at a time |
| `Snapshot`, `Publish`, `NotConnected` | `publish_state()`, before and under its lock |
| `PctToHa`, `HaToPct` | `pct_to_ha()`, `ha_to_pct()` with Python's rounding |

Two threads that save at a time share the name of the temporary file; a write
over a file that another thread has filled may leave the rest of a longer text,
so the length of the text is modelled (`Length`, `Overlaid`).  A torn file loads
as nothing, as in `_load()`.

`excused` is a history of what the code does not repair, and each property
says which of these it excuses:

* `crossed`: two requests for one field overlap, or one and a command of the
  reconciliation; the replies and the assignments then come in either order;
* `lost`: a command of the reconciliation, or a reply to a request, that is lost.
  The generation is recorded before the commands are sent, so they are not tried
  again;
* `adopted`: with no brightness remembered the first sight of ft_server returns
  before blanking is applied again (`ftctl.py:315`);
* `saves`: a save that fails, or two at a time;
* `unreachable`, `crash`: the scheduler did not get the pause; ftctl was killed.
  Nothing pauses it again after a restart.

Not reached with two requests is `fd = "gone"`, a file replaced twice while a
thread has it open.  That nobody else pauses or resumes the rotation is assumed
by the clause of `Settled` about the pause.

### Preview: FrameSender and WebPreview

A pixel stands for a row: rows are what datagrams and losses are made of.

| TLA+ | code |
|---|---|
| `maxUdp`, `Accepts`, `Constructed` | `max_udp_size_`, `SetMaxUDPPacketSize()` with its arithmetic of `size_t`, the constructor |
| `canvas`, `place`, `rows`, `tile` | the pixels, the offset, and how far `Send()` is |
| `SendChunk`, `Turn` | one turn of the loop in `Send()` |
| `net`, `Deliver` | the network: loses by not delivering, reorders |
| `layers`, `touched`, `age`, `changed` | `Display`, its `_last_use` as an age, its generation as "differs from `last_gen`" |
| `Apply` | `Display.apply()`, a whole datagram under the lock |
| `Wake`, `Expire`, `Flatten`, `List`, `PushTo`, `Pushed` | `push_loop()` and `Hub.broadcast()` |
| `Join`, `Ping`, `Pong`, `Leave`, `Remove` | a browser and the thread that serves it |

`expire()` holds the lock for all its layers, so `sweep > 0` keeps `Apply` out;
the layers are still expired one per step.  `wanted`, `passed` and `owed` are
histories: what the frames sent say of each row, where that can no longer be
seen, and the browsers that the newest frame has passed by.

What the code does and the properties state as it is: a browser that joins gets
nothing before the next change, and one whose pong is being written misses the
frame, so that it may stay on an older one; frames go out one browser after the
other with a timeout of two seconds each, so a slow one does hold up the others;
a size below 64 wraps around in `SetMaxUDPPacketSize()` and is accepted (left out
of `SenderInit`); a size asked for is ignored when the socket's buffer is larger
than the largest datagram; a canvas wider than 21814 pixels fails an assertion
of `Send()`, which is an assumption here.


## 3. The runs

| run | states | question |
|---|---|---|
| `composite` | whole space | are z-buffer, flag and stamps right at every pixel, are layers collected on time and not early, is every frame the stack seen from the front |
| `display_pusher` | whole space | are the canvases in step, is nothing torn, does the last frame get shown, does stopping end |
| `server_lifecycle` | whole space | is anything destroyed under a thread that uses it, does a signal end the server |
| `discovery_collision` | to the violation | is the display announced again after a host name collision (no) |
| `scheduler` | 1.3 million | does the show stay correct with commands, builds, failures and children interleaved |
| `composite_clock` | to the violation | is an overlay collected even if drawn before the first tick (no) |
| `scheduler_pinned` | to the violation | is what is on air taken for what was built (no) |
| `scheduler_clears` | to the violation | are the layers of a child cleared when its slot is over (no) |
| `scheduler_options` | to the violation | is a build made of the options configured before it (no) |
| `control_bridge` | 6.2 million | does the wall do what is remembered, and can the file be read, whatever restarts, crashes, fails or crosses |
| `mqtt_bridge` | 350 thousand | is a restart noticed and undone in the end, does Home Assistant end on what the wall does |
| `preview` | 980 thousand | do datagrams fit, what does a lost one cost, does the preview show the stack, do layers expire, does a browser end on the newest frame |

### Properties

`Composite`: `TypeOK`; `ZBufferRight`, the z-buffer names the topmost opaque
layer and the delegatee has its colour; `AtRestWhenUnlocked`, nothing drawn is
unsent and the background is selected whenever the mutex is free;
`ClearedOnTime` and `NotClearedEarly`, the two sides of the collector's cutoff;
`ImplementsLayeredDisplay`, the refinement.

`DisplayPusher`: `TypeOK`; `SpareInSync`, outside the dirty rectangle the back
buffer already is `fb_`; `OnScreenUntouched`, no step writes the canvas that is
on the panel; `AsleepOnlyWhenShown`, the presenting thread sleeps only if the
last frame sent is on the panel and nobody has told it to stop, at any moment
and not only in the end; `ImplementsPanel`, the refinement; `SentIsShown` and
`StopIsNoticed`, the two liveness properties.

`ServerLifecycle`: `TypeOK`; `DestroyedAfterUse`, an object is destroyed only when
every thread that uses it has ended, with the one exception of the early return;
`WaitsOnlyIfMissed`, with a signal pending `main()` waits for a datagram only if
the signal came between its look at the flag and `recvfrom()`;
`SignalHonoured`, a signal ends the process, unless it was missed and no datagram
follows.

`Scheduler`: `TypeOK`, with "the Builder is ahead of the playhead and no further
than `--lead`"; `OnAirBuilt`, the segment on air is built and has a clock;
`ReadyAsMapped`, what is built ahead is what the mapping says, between commands;
`JumpLands`, the segment after a jump is the one asked for; `JumpPlays`, and it
comes; `ImplementsPlayout`, the refinement: a thing that is on stays the thing it
was built as until the next takes over, indices go up one by one, and an entry
asked for is what comes next; `OneDrawer`, never two programs draw; `CleanExit`, a daemon that is down
leaves no child and no drawn layer.

`ControlBridge`: `TypeOK`; `Remembered`, the state file can be read at any
moment ftctl may be killed, and between saves holds what is in memory;
`Settled`, once the poll has dealt with this run of ft_server and no request is
under way, the server does what is remembered, and the rotation stands still
while the wall is dark.

`MqttBridge`: `MqttTypeOK`, with "a snapshot is published from where it was
taken"; `NothingWithheld`, a state that `publish_state()` would pass over as a
repetition is the one the broker keeps; `AppliedAgain`, a restart of ft_server is undone in the end;
`StateReachesHA`, what the broker keeps is in the end what the wall does,
although the poll and the network thread publish snapshots taken outside the
lock, the poll sets the cache back, and messages are lost with the connection.

`Preview`: `TypeOK`; `DatagramsFit`; `BandCostsOnlyItsRows`, a datagram lost or
overtaken costs its own rows; `ClearedInTime`, an idle layer is expired in this
round or the next; `ShownAtRest`, when `push_loop()` sleeps and nothing has
changed, every browser shows what is on the display, but for those the newest
frame was passed over for; `ImplementsLayeredDisplay`; `NewestFrameShown`.

### Bounds

* `Composite`: three layers (a top, a hidden one and the background, the least
  for a walk that passes a layer), two pixels and a position off the panel, one
  colour and black, layer numbers from -1 to 3 so both ends are clamped, an age
  of two ticks, and `MaxTicks = 4`, so that a layer can be stamped, collected,
  stamped and collected again.  The three start values of the clock are long
  ago, zero, and the value that is never collected.
* `DisplayPusher`: a panel of two by two, the least for a rectangle that grows
  in each direction; two writers, so that one waits while the other draws; areas
  that are empty, one pixel, and a pixel with a position off the panel.  Nothing
  is bounded: the state space is finite.
* `ServerLifecycle`, `ServiceDiscovery`: nothing is bounded.
* `Scheduler`: three entries, one of which may fail to build and one an `exec`
  entry that waits for its child; two segments of lookahead; segments of two
  units with a transition of one; `MaxIndex = 2` segments, enough for a jump, the
  segment it asks for and one after it; `MaxCommands = 2`, so that a second
  command comes between any two steps of what the first began.  `MaxAge` caps the
  age of a held segment where nothing depends on it any more.  Runs that look for
  a violation use smaller or larger ones as the case needs.
* `control_bridge`: two interchangeable threads and two requests, at once or not
  (`MaxRequests = 2`), brightness of one and of three digits, so that one text is
  longer than the other, and `MaxTroubles = 2` restarts, crashes and failures
  together: a crash after a restart, a failed save before a crash.
* `mqtt_bridge`: MQTT's thread alone, two requests and one trouble: what is new is
  its interplay with the poll and the broker.
* `preview`: two rows, so that a frame is two datagrams; two frames; two layers;
  a place on the display and one that hangs over its edge on a layer out of
  range; one browser that joins once and leaves; and sizes that allow one row,
  set in each of the three ways among sizes that are refused.  `size_t` has 20
  bits, more than any size needs.

Deadlock is checked wherever something can always go on: a writer in
`display_pusher`, a datagram in `composite`, the poll in `control_bridge` and
`mqtt_bridge`, `push_loop()` in `preview`.  It is not in the other runs: the
server and the daemon end when a signal asks them to.

### Fairness

* `Composite` states none: its properties are safety.
* `DisplayPusher`: weak fairness of a writer in its critical section (it is
  straight-line code), of the swap and the resync (the panel refreshes), and of
  the join; strong fairness of the pusher's part under the mutex, since writers
  may take it again and again: a thread that keeps finding a mutex free gets it
  in the end.  None for taking new datagrams, none for the timeout.
* `ServerLifecycle`: the same, and weak fairness of the collector's timeout, a
  deadline on a clock, which is needed: it is told to stop by a signal on a
  condition that it need not be waiting on.  None for datagrams and Avahi.
* `Scheduler`: weak fairness of the render loop and of the Builder, which are
  loops without a blocking step except builds, and builds end.  Nothing for
  commands, failures, children or the signal.  `JumpPlays` excuses itself when
  the show is paused or stopped, or when the bound on segments is reached.
* `ControlBridge` states none: its properties are safety.
* `MqttBridge`: weak fairness of each thread that serves a request (straight-line
  code with timeouts), of the poll (a loop with timeouts), of publishing, and of
  connecting again, which the client library does for as long as it runs.  None
  for requests, restarts, failures and the heartbeat, so nothing is owed to a
  later request or to the periodic publication.
* `Preview`: weak fairness of `push_loop()`, whose sends time out, and of a pong
  being written or given up.  None for clients, the network, time and browsers.


## 4. Findings

Each is a run that ends in a counterexample; `PROJECT.json` quotes the lines.

1. **An uninitialised clock** (`composite_clock`).  `current_time_` is read by
   `SetLayer()` before anything has written it: an overlay drawn in the first
   second may be stamped in the future and is then never collected.
2. **What is on air is not pinned** (`scheduler_pinned`).  `_dur()`, `_frame()`,
   `_rate()` and `_publish()` ask the live mapping about the index on air, so a
   jump or a toggle changes its length, its kind and its name in the middle of it.
   The comments of `Rotation` and `_apply()` say otherwise.
3. **A child that ends by itself is not reaped** (`scheduler_clears`).
   `_supervise()` forgets the child and `_frame()` reaps only a child it knows,
   so its layers stay on top of the next effects until they time out.  In the
   same way its `child_entry` stays set, and when the entry comes round with
   no other `exec` entry between, its program is not started.
4. **The announcement is lost after a collision** (`discovery_collision`).  The
   entry group is reset and kept, and the RUNNING state creates services only
   when there is no group.
5. **Stale options can be cached** (`scheduler_options`).  `segment_for()` reads
   the options, imports with no lock held, and then caches: a configure in
   between has its `forget()` overwritten, and builds keep using the old options.

Two more are visible as the exceptions of `ServerLifecycle`'s properties: a
signal that comes while a datagram is being drawn is honoured only after the
next one has arrived, and a server that cannot drop its privileges destroys the
mutex under the presenting thread.


## 5. The proofs

Every invariant that a run checks, every action property and every refinement is
a theorem as well, for all values of the constants that satisfy the assumptions
of the modules; what TLC alone checks is liveness, listed at the end.

The assumptions are the named ones.  Types of the constants; for `Composite` and
`DisplayPusher` at least one layer, a panel that is not empty, and a `Never`
beyond any tick; for `Preview` that a row fits a datagram, which `Send()`
asserts; for `ControlBridge` that Python's `None`, and what stands for an empty
and for a torn file, are neither numbers nor settings; for `MqttBridge` that the
network thread is one of those that serve; for `Scheduler` that the running
order names every entry, that some entry is switched on at the start, without
which `_build_opening()` ends the program, and that the lead is at least one.

`Composite_proofs`: `TypeCorrect`, `ZBufferCorrect`, `AtRest`, `Collected`,
`NotCollectedEarly` and `Refinement`.  They follow from one inductive invariant:

* the type invariant;
* `Seen`, the z-buffer's entry is the landing of a walk from the top and `out`
  has its colour.  This is where "a pixel under the one seen is only stored" and
  "cleared without recompositing" are shown harmless;
* `Allocated`, the current layer and every layer the z-buffer names have buffers;
* `Unsent`, when `visible` is not set, what was sent is what is out, and the
  lock being free implies that;
* `Stamped`, what the stamp of an overlay and the clock say of the ticks since
  it was last named, with the lag of one tick between `now` and `ticks`;
* `Swept`, the layers the collector has passed in this round, and the pixels of
  the one it is at, are clear or too young.

The invariant that users want (`ZBufferRight`, `ClearedOnTime`) is not
inductive: a collector halfway through a layer would be free to leave the rest.
The refinement maps layers to their contents, unallocated ones blank, and the
abstract frame to `sent`; the collector's scanning steps stutter.

`DisplayPusher_proofs`: `TypeCorrect`, `DirtyRegionEnough`, `NoTearing`,
`NoLostWakeup` and `Refinement`.  The inductive invariant adds to `SpareInSync`
what the canvases are between swap and resync.  That no wakeup is lost rests on
two more conjuncts: a thread waits only with no frame announced and no exit asked
(`NothingToWakeFor`), which is why the signal is given in the critical section
that sets the flag, and with none announced the back buffer holds what was sent
last (`TakenWhenNotReady`).  The lemma about `Extend`, that the new rectangle
covers the old one and the new pixel, is the reason that a drawn pixel is never
lost.

`ServerLifecycle_proofs`: `LifecycleTypesHold`, `NothingDestroyedInUse` and
`SignalsHeeded`.  The model has no constants, so the run is exhaustive as it
stands; the proof says why it holds.  The inductive invariant lists what `main()`
has waited for by the time it is at each of its last steps (`Waited`), from which
each object that is gone could go (`Justified`), the one exit on which it waits
for less (`GivesUp`), and where `main()` can be with the flag set (`Heeds`).

`Scheduler_proofs`, for rotations of any size and order.  `SegmentOnAirIsBuilt`,
`WhatIsBuiltIsMapped`, `OneDraws`, `ExitIsClean` and `BuildsAhead` leave what an
index means, `EntryAt`, folded: a jump, a toggle and the Builder's switching off
may change it at will, and all that is used is that nothing else does.  The
invariant adds that a build that may still be filed is one of the entry its
index means (`BuildAsMapped`), that the Builder works between the playhead and
`Lead` (`Ahead`), and that only the last child started has drawn on a layer.

`TypesHold`, `JumpsLand` and `SchedulerImplementsPlayout` need what an index
means.  `InOrderRight` says that the running order has just the entries switched
on, by induction over the rotation; `JumpOffsetRight` is the arithmetic of
`Rotation.jump()` with the modulus of a list that a toggle may have made longer
or shorter.  `JumpLands` is an action property; what makes it inductive is
`AskedNext`: the entry asked for is what the next index means from the command
on, and no build of before the invalidation can be there by the time the
playhead moves.  The refinement maps what is on to `ready[index]`; that every
step but advancing leaves that entry alone is `OnAirKept`, which holds although
the mapping under it moves (finding 2: the daemon shows the right frames, and
measures them by the wrong entry).

`ControlBridge_proofs`: `TypesHold`, `ServerSettles` and `StateFileRemembers`, for
any number of threads, requests, restarts, crashes and failures.  `Settled` says
what holds once the poll is through, and becomes inductive with what holds
before: what ft_server does is what `get()` returned or what is wanted since
(`SinceGot`); what the poll is about to send is still wanted (`SendRight`); what a
request is about to remember is what ft_server does, unless it started anew and
the poll is still to see that (`AssignRight`); requests for a field come one at a
time (`OneAtATime`).  `PauseRight` does the same for the rotation and `FileRight`
for the file: one thread at a time has the temporary file, and what it replaces
the state file by is what it wrote.

`MqttBridge_proofs`: every step of `MqttBridge` is a step of `ControlBridge`, or
none, or the broker's connection breaking; so `MqttSettles` and `MqttRemembers`
follow from the invariant above.  `MqttTypesHold` adds that whoever holds a
snapshot is where it publishes from, and `RoundTrip` that a brightness comes back
from Home Assistant's scale of 255 as it went, for each of the 100.
`BrokerHasWhatIsSkipped` needs no excuse for lost messages: the key is reset
whenever a connection begins, before anything is published on it, and outside
that moment it is what the broker keeps.

`Preview_proofs`: `TypesHold`, `NoDatagramTooLarge`, `OnlyLostBandsMissing`,
`LayersTimeOut`, `NothingSleptOver` and `WebImplementsLayeredDisplay`, for canvases, displays and
timeouts of any size and any number of layers, frames and browsers.  The
invariant follows each row of each layer: it shows what the newest frame says, or
it is still to be sent, or under way (`ShownOrToCome`), and rows under way carry
what the newest frame says when they are of it (`WantedRight`).  That `composite()`
may look at touched layers only rests on `UntouchedBlank`.  `NothingSleptOver`
is the safety behind `NewestFrameShown`: who is not still to come in a broadcast
has the frame that was flattened, and that is the display unless it changed since
(`ShowsRight`).

Where an action takes the least number of a set (`Pick`), or a walk ends at a
topmost layer, the proofs use that a set of numbers has a least one
(`LeastNumber!HasLeast`), which follows from the library's well-foundedness of
`<`.  Induction is used in the form of `LeastNumber!UpTo`, about a set of numbers
that has 0 and with each number below a bound the next: the library's induction
theorems take a predicate as a parameter, which the provers cannot instantiate.
For the same reason `Scheduler!InOrder`, the comprehension of `Rotation._live()`,
is a recursive function over a prefix and not `SelectSeq`, which the prover
cannot unfold.

Only model-checked is liveness (`SentIsShown`, `StopIsNoticed`, `SignalHonoured`,
`JumpPlays`, `AppliedAgain`, `StateReachesHA`, `NewestFrameShown`), which is out of
the prover's reach.  For most of it there is a theorem on its safety part: what is
true whenever a thread sleeps (`AsleepOnlyWhenShown`, `WaitsOnlyIfMissed`,
`ShownAtRest`), whenever a message is withheld (`NothingWithheld`), or when the
thing waited for comes (`JumpLands`, `Settled`); TLC adds that it comes.  The
violations of section 4 are counterexamples, and have no theorem.


## 6. What is not modelled

* **Persistence of `ftsched`** (`load_state()`, `save_state()`).  The render loop
  alone reads and writes the file, once before any thread runs and then between
  frames, through a temporary file: there is no order of steps to explore.  What
  is wrong with it can be read off the code and is listed under `hazards`: entries
  the Builder switched off are saved as if somebody had asked for it, entries
  switched on against the rotation file are not saved, a write that fails is not
  tried again.
* **The Python client** (`api/python/flaschen.py`).  It cuts bands as
  `FrameSender` cuts canvases.  Its counting of dropped frames and its notices
  depend on when ICMP messages come between its sends, and nothing else depends
  on them.
* **Service discovery, client side** (`ft-discovery.cc`): a list of names filled
  by callbacks until a deadline, with no state that outlives the call.
* **The PPM parser**, wiring of crate columns, terminal output: pure functions of
  bytes or pure output, no state worth interleaving.
* `opc-server.cc`, `pixel-push-server.cc`: not built, no caller.
* **Games, demos, command line clients**: programs on top of the client library,
  which draw pictures and share nothing.  They are most of the repository's
  lines.  The scheduler sees a demo as a build and a render that may raise,
  `FrameSender` as a choice of pictures.
* In `ftsched`: what frames look like, pacing, the snapshot served to the panel,
  translation of HTTP requests and the schemas of options.
* In `ftctl`: thumbnails, the page, discovery messages and topics of MQTT other
  than power, brightness and the state.
* In `ft-web`: parsing, statistics, the handshake and framing of WebSockets.
* Vendored drivers and hardware: external.
* Thread priorities and CPU affinity: every interleaving is explored instead.


## 7. The plan

Done: `LayeredDisplay` with its two implementations `Composite` and `WebPreview`;
`Panel` and `DisplayPusher`; `ServerLifecycle` and `ServiceDiscovery`; `Scheduler`;
`Playout` above it; `ControlBridge` and `MqttBridge`; `FrameSender` and `Preview`.
All with proofs but `ServiceDiscovery`, whose subject is a finding.

What would be next, in order:

1. `Composite` and `DisplayPusher` as one system, from a datagram to the panel:
   that the panel shows a stack seen from the front follows from the two
   refinements and `AtRestWhenUnlocked`, and could be stated and proved as such.
2. The clocks of `Scheduler` by value rather than as a set, for the hazards at
   `ftsched.py:552` and `:585`: a segment that starts with the clock of the one a
   jump replaced, and one shortened by the wait for its build.
3. `Preview` with the C++ server in place of ft-web: the two share `LayeredDisplay`,
   and datagrams are the same.
