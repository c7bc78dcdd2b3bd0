# Verification of ggml-viz

ggml-viz intercepts the compute functions of ggml in a running program, records
an event for every graph and operation, and shows the events in a GUI, from a
trace file or live. This directory holds TLA+ models of its parts, the TLC configurations
that check them, and TLAPS proofs about every module that models a component,
except the trace reader's computations.
Paths below are relative to the repository; `H:230` stands for line 230 of
`src/instrumentation/ggml_hook.cpp`.

## 1. Inventory

| Component | Code | State | Operations |
|---|---|---|---|
| Event ring | `instrumentation/ggml_hook.{hpp,cpp}` | slots, `write_pos_`, `read_pos_`, `dropped_events_`, `file_mutex_` | `record_event`, `consume_available_events`, `flush_to_file` |
| Trace session | same | `active_`, `event_count_`, `output_file_`, the file | `start`, `stop`, `reset_stats`, the event limit, flushes |
| Automatic initialisation | `ggml_viz_init.cpp` | signal handlers, atexit function | read the environment, start the hook, stop it at the end |
| Interposition | `ggml_hook.cpp` (end), `sched_interpose.mm`, `win32_interpose.cpp` | saved function pointers | wrappers around ggml's compute functions |
| Shared-memory ring | `ipc/` | named segment: `head`, `tail`, `capacity`, bytes | `create`, `open`, `write`, `read`, destructors |
| Live collector and stream server | `server/live_data_collector.hpp` | `event_queue_`, `running_`, `server_running_`, `connected_clients_` | collector thread, accepting thread, one detached thread per client, `start`/`stop` |
| Live mode of the GUI | `frontend/imgui_app.cpp` 183-335 | `live_events`, `live_trace_reader`, what is remembered of the file | `update_live_data`, `disable_live_mode` |
| Views and widgets | `frontend/` | selection, filters, timeline, graph cache | event handlers and drawing |
| Trace reader | `utils/trace_reader.cpp` | the events and labels of a file | parsing, pairing, filters, memory statistics |
| Configuration | `utils/config.cpp` | shared configuration | load, merge by precedence, validate |
| Logger | `utils/logger.cpp` | level, options of a line | `log`, log streams, reconfiguration |
| Command line | `main.cpp` | none | parse, set up configuration and logger, dispatch |

How they interact. Threads of the traced program call the wrappers, which call
`GGMLHook`; it puts events into the ring. Three parties take events out: the
flush to the trace file (in whichever thread ends a graph, reaches a multiple of
4096 events, or stops the hook), the GUI (`update_live_data` in its render
thread), and the collector of the stream server. The GUI also follows the trace
file of *another* process, whose only interface to it is the file's content,
size and modification time. The stream server passes events on to HTTP clients
through a queue under a mutex. `stop()` is called by the owner, by
`record_event` at the limit, at exit, and from signal handlers; `start()` by the
owner and, automatically, by the wrappers when `GGML_VIZ_OUTPUT` is set; it loads
the configuration unless `main()` has done so, and every recorded event reads the
configuration again. The logger takes its level from the environment first and
from the configuration later.

What is hard. (a) The ring is written for one producer and one consumer, but
nothing enforces either. (b) Flags and positions are set one at a time, in
`start()`, `stop()` and at the limit, while other threads are in the middle of
calls. (c) A signal handler runs on a thread that may hold the mutex it needs.
(d) A file is followed by polling, with a clock of whole seconds, across
replacement by a new trace. (e) Segments of shared memory are found by a name
that may stand for different segments over time. (f) Server threads outlive
one another. (g) The same fact is kept in several places in the GUI: selections
as positions in lists that differ and change, a graph built once, flags beside
pointers. (h) The originals of the interposed functions are looked up lazily by
whichever thread comes first, wrappers nest, and the hook may start or stop
between the two halves of a wrapper. (i) Four sources make one configuration,
valid one by one but not together, read without a lock.

What makes each component correct: the ring loses events only by refusing and
counting them, delivers the others once, in order and whole, and never makes the
recording thread wait for room; a session's file holds its events in order and misses at
most what was being recorded when it stopped; the limit is respected; calls
return; a segment is a bounded stream of bytes and a name leads to its creator's
segment; clients get events in order and once, only the oldest are thrown away,
stopping ends; a followed file is shown completely, in order, once; a wrapped
call does the work of the original once, or says that it has no original; the timeline pairs the begin and
the end of one call; the memory statistics are those of the live tensors; a
configuration that anybody reads is valid and loaded, and no source of it is
overruled by a lower one; a log line is whole; what the GUI shows is what was loaded
and what was picked. The hazards
that threaten these are listed with their lines in `PROJECT.json`.

## 2. Modules

Each component has one module that models it, parameterised by `CONSTANTS`, and,
where there are proofs, a proof module. TLC checks the module itself where model
values and numbers are all an instance needs; `MCGuiState`, `MCStartup` and
`MCInterpose` define the functions and records that the others take as constants.

### EventQueue, EventRing, EventRing_proofs

`EventQueue` is the promise: a bounded lossy queue with streams `accepted` and
`delivered` and a count `refused`.

`EventRing` is the code. Every load and store of a shared variable is a step, and
the copy of an `Event` into its slot takes two steps (`WriteFirst`,
`WriteSecond`), so that a reader can find half of it. A thread's place is `pc[t]`:
`r_*` in `record_event` (`LoadHead`, `LoadTail` with the test `Full`, `DropEvent`
or the two writes, `Publish`), `c_*` in `consume_available_events`, `f_*` in
`flush_to_file` under `file_mutex_`. `head[t]` and `tail[t]` are the local copies
of the positions. Who may be in which function is given by the sets `Producers`,
`Readers`, `Flushers`, which may overlap and have any size: the code has no rule
either. The mutual exclusion of flushes is the mutex's; the reader takes no
mutex, as in the code. `published` and `copied` are history variables. The
positions are natural numbers: the code's are 64 bits wide and would need
centuries to wrap.

*Memory order.* `Publish` is a release in the code and the loads of `write_pos_`
by a consumer of one producer's events are acquires, so a slot's content comes
before its position, on every processor. Giving a slot back is different: both
consumers store `read_pos_` relaxed (`H:215`, `H:294`), behind plain reads of the
slots, and nothing in the language keeps the store behind them. The constant
`StoreAfterReads` says whether the build and its processor do. Where it is TRUE (x86-64
never moves a store before an earlier load, and a compiler that leaves the two as they
are written), the steps of a thread are seen in their
order. Where it is FALSE, `LateSteps` are possible too: the store is seen while
slots are still to be read (`GiveBackEarly`), and the rest of the reads come
afterwards (`LateCopy`, `EndLate`; in `GGMLHook` also `LateWrite`, with what
`flush_to_file` does to a null stream). The other relaxed accesses need no such
step: they are loads of a position that only that side writes, when it has one
thread, and the resets of `start()`, which `QuietStart` keeps apart from the
recording calls. A store that is only delayed is a later step of its thread.
`StoreAfterReads` is the only exception made to sequential consistency.

*Waiting.* `record_event` drops an event rather than wait for room, but it is not
without a lock: a call that counts a multiple of 4096 flushes
(`FlushAfterRecord`; here any published event may be the one), and the call that
meets the limit stops the hook. Both wait for `file_mutex_`. So `PublishesOrDrops`
claims only that the event is published or dropped without waiting, and the stronger
claim of the documents is `RecordNeverWaits`, which `hook_waits` refutes.

### TraceSession, GGMLHook, GGMLHook_proofs

Extends `EventRing` with the session: the steps of `start()` in the order of the
code (`active_` first, then the counters and positions one by one, then `fopen`,
which may fail), the on_* functions with their first test of `active_`
(`EnterHook`), the second one (`RecheckActive`), the limit (`CheckLimit`), the
count and the flush at multiples of 4096 (`CountEvent`, `FLUSH_EVERY`), `stop()`
with its test of `output_file_` outside the mutex, `reset_stats()`, the
automatic start and the signal handler. `trace` is the content of the file at
`output.filename`: `OpenFile` empties it. The dereference of a null stream is the
place `"crashed"`, the uncaught `std::length_error` of
`consume_available_events` the place `"threw"`. `published` and `copied` are those
of the current session.

`QuietStart` restricts sessions to the documented use: the hook is started while
no thread of the program is inside a compute call (library load). `hook_open`
runs without it.

`TraceSession` is the promise to whoever reads the trace file, during a session or
after it: the stream `recorded`, the events `saved` in the file, and whether it is
`open`. `Forget` and `Open` begin a session, `Record` adds an event, `Save` makes
the file a longer beginning of the stream, `Close` ends it with at most `Late`
events missing, and `Record` then adds no more than that. `Session` maps
`published`, `trace` and `output_file` to it (`SessionSpec`): an event is recorded
with the store of `write_pos_` and saved when it is written. `LittleLostAtStop`,
the state of the file after `stop()`, follows from it.

Not in it: `configure()` (empty in the code), which kinds of events the
configuration filters out (a caller that is filtered out does not record), and
the life of the tensors whose names events point to.

### ByteStream, ShmRing, ShmRing_proofs

`ByteStream` is the promise of a segment: all-or-nothing writes and reads of a
bounded stream. `ShmRing` models `create`, `open`, `write`, `read` and the
destructors for both platforms (`platform` is chosen at the start among
`Platforms`), each access to the header and each byte a step. The header's
arithmetic is `uint32_t` with `& (capacity - 1)`: operator `Mask`, also for a
capacity of 0, with `WORD` for 2^32. Names and segments are apart, since POSIX
unlinks a name while segments of it are in use, and Windows lets a segment go
with its last region. Creation is two steps before the segment has its size, so
that an opener can come between. Nothing in the repository calls these
functions yet; the processes' use of them follows the interface's comment
("single-writer/multi-reader").

### LiveStream, LiveStream_proofs

Owner, collector thread, accepting thread and client threads of
`LiveStreamServer`, with the queue and its mutex. The ring appears as what
EventRing proves of it with one consumer: the collector takes all pending events,
in order. What is sent is an event number; HTTP and JSON are left out. `Accept`
may still happen after `stop()` has cleared `server_running_`, since the thread
waits in `select()`, and `ListenFails` ends the accepting thread silently. A
request for the status takes the queue's mutex for its number (`SendStatus`).
`send()` to a streaming client waits when the client does not read (`SendBlocks`,
place `"blocked"`): the sockets have no time-out and `stop()` does not shut them
down, so the client's thread goes on when the client reads or the connection
breaks, and otherwise never. The headers and the short answers are the first bytes
of their connections and fit the socket's buffer; their sends return.

### LiveTail, LiveTail_proofs

`update_live_data` and `disable_live_mode` of the GUI, with the traced process
as environment: it truncates the file, writes the header, and stdio may write
any part of an event. Looking at the file (`StatFile`) and reading it (`Reload`)
are two steps, between which the file may change. The process may start a new
trace in the same file any number of times (`session`). `update_live_data` tells a
new trace from the old one grown only by its having fewer events than were counted;
`TakenForGrown` is the case it cannot tell. `AllLoaded` says that every other
reading shows all of the file, and `RecreationHandled`, the claim of
CHANGELOG.md:106, that every reading does. Events carry the number of the
`TraceReader` that owns their label.

### TraceReader, Interpose, Interpose_proofs

`TraceReader` computes what the getters compute from `events_`, as operators on a
sequence of events: filters, `GetOpTimings` (the pairing of BEGIN and END by the
tensor's address), `MemoryStats`, and `ProcessEvents`, the bars of the timeline
widget. Loops over the events are folds with one step per iteration (`PairOp`,
`CountEvent`), `std::sort` is a sort by insertion (`SortedBy`). A position in the
trace stands for a timestamp. The lemmas about these operators are in
`Interpose_proofs`.

`Interpose` produces those traces. A thread has a stack of wrappers; each goes
through the places of the code in order: automatic start (`auto`), first
`is_active()` (`check`), the events before (`before`), the look-up of the
originals (`init`, `install`, `flag`), the test of the pointer (`original`), the
call through it (`call`), the second `is_active()` (`recheck`), the events after (`after`), `return`. Each event is a
step, since another thread may stop or start the hook in between. The original
may itself call a wrapped function (`Inner`), as `ggml_graph_compute_with_ctx`
does. `Kind` says what a wrapper records: everything (`compute`), only the graph's
begin and end (`quiet`: `viz_graph_compute` and its variant with a context), or
allocations. `Found` are the overrides of which `dlsym()` finds another
definition: all of them where the lookup works, none in a preloaded library.
`computed` counts the work of the originals, `skipped` names those a call has left
out because there was no pointer; `call` in an event says which call recorded it.
`uninstall_ggml_hooks()` may come at any moment: it takes the pointers away and
leaves `hooks_initialized` set, so that every later call skips its original and
reports success, and one that was between test and call calls a null pointer
(`CallNull`, place `"crashed"`, where the model ends). `WorkDoneOrSkipped` says that
the work is done once or skipped, and that an original that can be found is
skipped, and a null pointer called, only after an uninstall. `ComputedOnce` claims
the work of every call, for as long as nobody uninstalls.

Not in it: an allocation that fails stays recorded, as in the code; a tensor's
end is recorded only if the program says so (`FreeTensor`); the wrapper of
`ggml_backend_alloc_ctx_tensors` passes no tensor, so that its event is always
dropped; the override of `ggml_graph_compute` (`H:557`) has an older signature
than the one of `sched_interpose.mm`, which the model does not tell apart. The
data race on `hooks_initialized` is harmless on the values it takes: every
thread that reads FALSE installs the same pointers.

### Config, Logger, Startup, Startup_proofs

`Config` is the configuration as a value, with six of its settings: `FromJson`,
`IsValid`, `MergeFrom`, `ApplyEnvOverrides` and `Resolve`, the whole order of
sources; `Said` lists what each source says of a field, highest first, apart from
how `Resolve` merges them. `PrecedenceKept` compares the two: the value is that of
some source, and the ones above it are silent or are files that name the default.
That exception is the code's: `merge_from` copies what differs from the default, so
a file cannot set a field *back*; without the exception the property is
`CommandLineWins`, which fails. The order itself is the one of
`load_with_precedence` ("defaults < file < env < CLI"); four other places put the
files above the environment (`config.hpp:108`, `LOGGING_USAGE.md:211`,
`architecture.md:14`, `CHANGELOG.md:167`), which is `FileOverridesEnvironment` and
fails too. `Logger` is `log()`
step by step (level without the mutex, then the line under it), with log streams
and `configure_from_config`; an option is represented by where it comes from.
`Startup` composes them: `main()` loads and configures the logger, starters call
`GGMLHook::start()`, which loads only if `is_loaded()` is false, and start again
after a stop; `get()` takes no lock. The two stores at the end of a load
(`config_ptr_`, then `loaded_`) are steps of their own. Files may differ from load
to load; the environment is fixed.

An exception ends the load that threw it: in `main()` it ends the program, in the
model the other threads go on, which allows more. It leaves `start()` too, and
with it the C functions the library calls it from, which nothing catches; the
model ends there (`"threw"`).

### GuiState, GuiState_proofs

One thread, frame after frame: `update_live_data`, the menu bar, the file browser,
the timeline panel, the graph panel, the error popup, in the order of
`render_frame()`, with at most one click of the user in each frame. The
application's selection, the timeline widget's and the graph widget's cache are
separate variables, as in the code, and the copy from widget to application in
every frame is part of `RenderTimeline`. A trace is a name and a number of events;
zoom and scroll are in halves and quarters. The wheel and dragging keep both within
their bounds (`AdjustView`); Ctrl+Click on a slider takes any number
(`TypeValue`), since neither has `ImGuiSliderFlags_AlwaysClamp`: a negative zoom, one beyond
the bounds, a scroll outside the trace. `ViewInTrace` is therefore about steps:
only a typed value leads out of the trace. `picked` remembers which event the
user clicked. How live events follow a file is in LiveTail; here a file grows.

### Order of the plan

Done: 1 EventRing, its abstraction and proofs; 2 GGMLHook and its abstract session; 3 ShmRing;
4 LiveStream; 5 LiveTail; 6 TraceReader and Interpose; 7 Config, Logger, Startup;
8 GuiState. To come:

9. `EventRing`: `get_events_size`, a third consumer.
10. The life of a tensor and of its name, on which recorded events depend
   (`H:385`), as an action of the environment in Interpose.

Proofs to come: what the readers of a segment each know when there are several of them; `NoCrash`
and `ActiveHasFile` with the automatic start and the signal handlers, where the
counterexamples leave something to be claimed.

## 3. Runs

`PROJECT.json` lists the runs with their properties. Model values stand for
threads; no symmetry is used. Deadlock is not checked where the system may come
to rest: the bounds on calls run out, a thread has thrown, or the process has
exited. `ring_spsc` and the ring's violations never rest.

| Run | Bounds | Question and answer |
|---|---|---|
| `ring_spsc` | 1 producer, 1 reader, 4 slots, 6 events, `StoreAfterReads` | The ring implements `EventQueue` (`QueueSpec`); no unread slot is overwritten; events come out in order; the inductive invariant of the proofs holds; everything published is read. |
| `ring_open` | 2 producers, one also flushes, 1 reader, 2 slots, 2 events, stores of `read_pos_` early | Without any discipline: every call is published, dropped and counted, or still running; the event is published or dropped even if all consumers have stopped. |
| `hook_file` | 1 recording thread, 1 owner, 2 starts or resets, limit 3, flush every 2, 5 events, `StoreAfterReads` | The hook implements `TraceSession` (`SessionSpec`), so it loses at most the event being recorded at `stop()`; the trace is in order; count exact; active means open; nobody uses a null stream; every call returns. |
| `hook_open` | 2 recording threads, one also reads and gets a signal; automatic start, `fopen` fails or not; limit 1, 2 starts, 3 events, stores of `read_pos_` early | Exclusion of flushes, and the limit passed by at most one event per further thread, with everything going on at once. |
| `hook_autostart` | limit 2, 4 events | *Violated* (`TraceKept`). |
| `shm` | 1 writer, 1 reader, both platforms, 4 bytes, chunks up to 3, 5 bytes, 2 segments | Segments are bounded streams (POSIX), the name stays with the creator's segment. |
| `stream` | 2 clients, queue of 2, batches of 2, 3 events | Order, no event sent twice, only the oldest dropped, count of clients, `stop()` returns although sends block, streams end whose clients read. |
| `tail` | 2 traces in one file, 4 events, 1 of the GUI's own, 4 kept, 2 instants | Each event once and in order, also across the replacement; each reading shows all of the file unless `TakenForGrown`; all events of a file that only grows are shown in the end. |
| `gui` | traces of 0, 2 and 3 events and a bad path; 3 live events, 4 kept; no hook | Flag, reader, name and live mode agree; the inspector shows the picked event while its source is on display; only a typed value leads the view out of the trace; a failed load changes nothing. |
| `startup` | `main()`, one starter, one logging thread; 4 files in 3 places, 4 environments | Valid and loaded configurations only; no source overruled by a lower one, but for files that name the default; whole lines. |
| `interpose` | 2 threads, 3 calls, nested; graph of 2 nodes, one filtered out; one stop; uninstall at any moment; BEGIN and ALLOC records may be lost | Work done once, or skipped after an uninstall; bars pair one call; memory statistics are those of the live tensors. |
| `interpose_preload` | the same, no original found | *Violated* (`ComputedOnce`). |

Why the bounds are enough. A ring of 4 slots wraps within 6 events and is full
with 3; one of 2 slots is full with every event, which is where the positions
meet. Two threads suffice for every race found, since each concerns a pair of
one load and one store. In `hook_file` the limit is not a multiple of the flush
interval, so that the last flush is partial. In `shm` a chunk of 3 fills the
ring of 4 (one byte stays empty), 5 bytes wrap it, and `WORD` is a multiple of
the size as 2^32 is. In `stream` 3 events overflow the queue of 2, and a batch
of 2 can fail, or block, after its first event. In `tail` two instants give both
kinds of change, within one second and in the next, 4 events give a second trace
with fewer, as many and more events than the first, and the list is cut at 4. In `gui` two traces of
different length and an empty one give every change of duration and every stale
position; 4 live events are enough for an index to drift. In `startup` one file
sets a field back to its default and one is invalid, one environment is invalid
by itself and one only without a file; several starters differ from one that
starts again only by the manager's mutex, and the proofs have any number.
In `interpose` three calls give a nested pair and another session, or an
allocation and two frees; an uninstall comes between any two steps; every END may find its own BEGIN, an older one or none.

Fairness. A thread inside a call goes on (weak fairness of its steps): the
operating system schedules it. A reader polls for ever: the GUI renders frame
after frame, the collector loops. Nothing obliges the program to record, flush,
stop or connect. `PublishesOrDrops` is checked with fairness for the recording
threads only (`ProducerOnlySpec`), because it claims independence of the
consumers. In LiveStream a thread that waits for `queue_mutex_` gets it in the
end (strong fairness), since the others sleep 10 or 50 ms between holds. Nothing is
assumed of `recv()`, nor of a `send()` that has blocked: `StreamsEnd` lets a stream
rest there, and claims that it keeps no other client and not `stop()` from its end.

Each property of a passing run has a mutant in `PROJECT.json`: an operator next
to the definition it replaces, with the comment "Mutant of", under which TLC
finds the property violated.

Further configurations are kept for the counterexamples they give, and are run by
hand (`tlc -config X.cfg` and the module). Each one violates the one property named:

| Configuration | Module | Property |
|---|---|---|
| `ring_two_producers` | EventRing | `OwnPosition` |
| `ring_two_consumers` | EventRing | `UnreadSlotsIntact` |
| `ring_weak` | EventRing | `ReadInOrder` |
| `hook_waits` | GGMLHook | `RecordNeverWaits` |
| `hook_signal` | GGMLHook | `SignalExits` |
| `hook_restart_reader` | GGMLHook | `NoCrash` |
| `hook_restart_writer` | GGMLHook | `TraceInOrder` |
| `shm_two_readers` | ShmRing | `BytesInOrder` |
| `shm_windows_open` | ShmRing | `OpenedWasCreated` |
| `tail_recreated` | LiveTail | `RecreationHandled` |
| `tail_labels` | LiveTail | `LabelsOwned` |
| `gui_graph` | MCGuiState | `GraphIsCurrent` |
| `gui_selection` | MCGuiState | `SelectionFollowsTrace` |
| `gui_live_hook`, `gui_live_trim` | MCGuiState | `InspectedWasPicked` |
| `config_precedence` | MCStartup | `CommandLineWins` |
| `config_env_over_file` | MCStartup | `FileOverridesEnvironment` |
| `startup_log_level` | MCStartup | `EnvLevelUsed` |
| `interpose_usage` | MCInterpose | `UsageIsLive` |

## 4. What is proved

**The ring.** For every set of threads, every buffer size and every bound on calls, from the
assumptions in EventRing (a mutex value that is no thread, at least one slot, a
natural bound):

- `TypeCorrect`: types, any threads.
- `FlushersExclude`: `flush_to_file` runs only in the holder of `file_mutex_`,
  any threads.
- `OneProducer`: one producer, any consumers: positions are unique and
  `read_pos_` never passes `write_pos_`, so no reader computes a negative number
  of events. What two consumers break is the content, not the arithmetic.
- `RingInvariant`, `PendingStays`: one producer and one consumer, where the
  consumer is a reader or any number of flushers under the mutex. An event that was
  not given back stays in its slot, on every processor.
- `InOrder`, `NoOverwrite`, `RingImplementsQueue`: under the same condition and
  `StoreAfterReads`, events are read once, in order and whole, none is overwritten
  before, and the ring implements `EventQueue`. These three are results about the
  code on x86-64; its relaxed stores do not give them elsewhere, as `ring_weak`
  shows.

The argument. `ReadInOrder` and `UnreadSlotsIntact` are not inductive: they say
nothing about what threads between a load and a store hold. `RingInv` adds that:
the pending events, at most `BUFFER_SIZE - 1`, are in their slots
(`PendingInSlots`); a producer between its loads and its store still sees the
current `write_pos_` and has room for one more (`ProducerKnows`), which is true
because it alone moves `write_pos_` and the consumer only frees slots; the
consumer's copies bracket what it reads (`ConsumerKnows`), and the number of
copied events equals its loop counter or `read_pos_` (`CopiedSoFar`, the part that
needs `StoreAfterReads`). The test
`Full` compares slots, not positions; lemma `FullMeansFull` shows that within
`PendingInSlots` this is the same as `BUFFER_SIZE - 1` pending events, using that
positions less than a turn apart have different slots (`SlotDistinct`) and that a
turn leads back (`SlotTurn`). The hypotheses `SingleProducer` and
`SingleConsumer` are needed: `ring_two_producers` and `ring_two_consumers` show what
happens without.

The refinement maps `accepted` to the published events, `delivered` to the
copied events below `read_pos_`, and `refused` to the counted drops plus the
producer about to count one. `Publish` is `Accept`, `LoadTail` on a full ring is
`Refuse`, the store of `read_pos_` is `Deliver`, all other steps stutter.

**Interpose.** `WorkAccountedFor` (`WorkDoneOrSkipped`): for any threads, any nesting,
any number of sessions and any set of originals that `dlsym()` finds - none of them,
as in a preloaded library, included - a call that is past its original has done the
work once, or has skipped it in a wrapper whose original was not found or uninstalled,
and calls no null pointer before an uninstall. That every call does its work is
false of a preloaded library (`interpose_preload`) and not claimed. The property is
not inductive: it says nothing of what a wrapper that has not reached the original
relies on. `WorkInv` adds the places: past the installation, and once
`hooks_initialized` is set, all originals in `Found` are there until an uninstall
(`PointersSet`), only the innermost wrapper of a stack can be before its original
(`OuterWait`), and the outer ones have done nothing yet (`WorkDone`). The proof has
one step per action.

`BarsOfOneCall` (`TimingsOfOneCall`) has two halves. *What is computed from a
trace*, for any sequence of events: `BarsAre`, the bars are the pairs of positions
of which the first is the last operation event of its tensor before the second
(`Paired`), each once, in the order of their starts. The pairing is a fold, and
`PairedUpTo` says what it holds after `k` events: which BEGIN are open (`OpenAt`)
and which pairs are complete; two sorts by insertion (`SortedByIs`) keep the set
and give the order. *Which traces there are*: `TimingInv`. While the hook is active
and nothing was lost, every open BEGIN is owned (`OpenOwned`): some wrapper of the
thread whose graph has the node has recorded it and not come to its END (`Due`), and
every wrapper inside that one has recorded nothing of this node and will begin with
its BEGIN (`NotYet`), which closes the outer one's before an END can be paired with
it. So the END that is recorded next to an open BEGIN is that of the owner, and
`SameCall` follows. The premise "active" is needed in the invariant and not in the
property: a stop in the middle of a call leaves BEGINs that nobody will end, and a
session that starts in the middle records ENDs with no BEGIN; each starts with a
trace of its own. The proof uses that the graphs of two threads share no node and
that a wrapper's list is its graph in order (`BeforeIs`, `AfterIs`); a node may
appear twice in it. No assumption on `Found` is needed.

`MemoryAddsUp` (`MemoryAccounted`): for any trace whose allocations carry the size
of their tensor (`Sized`, part of `TimingInv`), `CountedUpTo` says of the statistics
after `k` events that the map of allocations has the live tensors and their sizes,
that nothing live is among the freed pointers, and, as long as no live tensor was
allocated again, that the usage is the live bytes and the peak their maximum so far.
Sums over finite sets are taken from a *measure* (`IsMeasure`, `SumIs`): a function
on the subsets of a set that grows by `f[x]` with `x`; there is one on every finite
set, and the fold of the community modules equals it.

Both rest on inductions over data, which the prover has no schema for that can be
instantiated: `NatSet` is induction on the members of a set of numbers, derived from
the well-foundedness of `<`, and `FoldExists` gives a fold its values step by step.

**Startup.** `ConfigAlwaysValid`, `HooksStartConfigured` and `PrecedenceHolds`
share the invariant `LoadInv`: only the holder of the mutex builds or stores;
between the two stores the new configuration is in place and belongs to
`sources`; what is stored was validated. The lemma `NoneOverruled` goes through the
sources from the highest down: the first that says something that `merge_from` can
see decides. `LinesAlwaysConsistent` has `LogInv`: the
holder of `log_mutex` sees the options unchanged while it formats, because
`configure_from_config` holds the same mutex, and the level read is one in force
since the call began. From the assumptions that `main()` is neither a starter nor
a logging thread and that `None` is no value.

**GGMLHook.** For every set of threads, size of the ring, limit and flush interval:

- `HookTypesCorrect`, `HookFlushersExclude`: types and the file mutex, for any use
  of the hook, with automatic starts, signals, readers and failures of `fopen`.
- `LimitCorrect`: any use, finitely many recording threads. `LimitInv` counts
  the calls that have passed the test of the limit and not yet added their event
  (`Admitted`) as if they had: the sum stays below the limit plus the number of
  recording threads.
- `NothingCrashes`, `ActiveWithFile`, `CountCorrect` under `LibraryUse`: one owner
  starts and stops the hook while no thread is inside a compute call
  (`QuietStart`), and there is no reader, automatic start or signal. Any number of
  threads record, and any of them may stop the hook at the limit. `hook_file` is
  such a use. `hook_restart_reader`, `hook_restart_writer`, `hook_signal` and
  `hook_autostart` show what a reader, a call under way during `start()`, a signal
  and the automatic start lead to.
- `TraceInOrderCorrect`, `LittleLostCorrect`: the same with one recording thread and
  `StoreAfterReads`.
- `HookImplementsSession`: the same with a hook that writes to a file. It
  implements `TraceSession`, which adds to the two theorems what may happen from one
  state to the next: the file is only emptied by the start of a session of which
  nothing is recorded yet, it grows by the session's next events, and an event that
  comes after `stop()` has closed it is the only one it lacks.

The invariants build on one another. `PlacesInv` says where a thread can be in
which of its calls; `SessionInv` adds that `start()` runs alone, that at most one
thread is on its way to close the file, and that the file is open until it does.
`CountInv`: the published events are the counted ones and those a thread is about
to count. `TraceInv` is `RingInv` of the ring except between the two resets of the
positions, and the file is what was copied from the ring. `LossInv`: beyond what
the last flush of `stop()` has read there are at most the events that were on their
way when `active_` was cleared (`LatePC`). For the refinement `HandleInv` adds that the
file is open only during a session and until `stop()` has closed it, `FileFollows` that
an open file holds what was read from the ring in this session.

**ShmRing.** `NameCorrect`: on both platforms, with one writer and any number of
readers, the name leads to the writer's segment. `RingImplementsStream`: with one
writer and one reader every segment is a bounded stream of bytes in the sense of
ByteStream, for every size that divides the machine word and every number of
segments, while segments are created, opened (before and after they have their
size), destroyed and created again. `DataInv` states for each segment that `head`
and `tail` are the numbers of bytes sent and received, modulo the size, and that
the bytes between them are in their places; the lemmas `FreeIs` and `AvailableIs`
show that the code's difference modulo `WORD`, under `& (capacity - 1)`, is the
number of free and of pending bytes. `SetUpInv`: a segment is set up once, and who
writes to it has set it up.
`WriterKnows` and `ReaderKnows` are what the two threads hold between a load and a
store. The hypotheses `SingleWriter` and `SingleReader` are the interface's first
half; `shm_two_readers` shows why the second half ("multi-reader") cannot hold.
On Windows the abstract step is only claimed as in `StreamSpec`.

**LiveStream.** For any set of clients and any limit: `NewestCorrect`,
`StreamsCorrect`, `ClientsCorrect`, and `StreamTypesCorrect` for finitely many
clients, all with the server started and stopped at any moment. `QueueInv` says
that queue, batch and ring are consecutive numbers up to the last event recorded; `GotInv` that what a client has
received and then what it holds is increasing and older than the queue, and that
clients share nothing; `CountInv` that the counter is the number of threads between its
two updates.

**LiveTail.** `TailTypesCorrect`, `TailInOrder` and `TailLoadsAll`, for any traced
process: traces of any length, written in pieces and at times of its choice, replaced
any number of times, with the GUI's own events in between. `FileInv`: the file holds
consecutive numbers after those of the earlier traces (`Base`), and in the first trace
the GUI has never counted more events than the file has. `Known` is the last event of
the file the GUI has counted, or `Base` if it has counted more than there are, which is
when `StartIndex` begins afresh. `Showing`: live_events holds, in order, the last of
the known events (`Listed`), and all of them as long as there was one trace and it was
never cut (`ListsAll`). `TailLoadsAll` has no premise on the process; its property
leaves out the readings of a new trace `TakenForGrown`, for which `tail_recreated` is
the counterexample.

**GuiState.** `TraceStaysConsistent`, `FailedLoadChangesNothing` and
`ViewStaysInTrace`, for any traces and any bad paths; `FailedLoadChangesNothing`
follows from the conditions under which each phase changes what it changes.
`ViewStaysInTrace` rests on `ViewTypes`, which allows the typed values too: the lemmas
`ScrollRange` and `Clamped` show that whatever zoom and scroll were, `Clamp` and a
dragged slider leave them within the trace if the zoom is (`ViewSteps`). `InspectorShowsPicked`
holds where the hook contributes no live events and none is cut (`no_hook`,
`MaxLive <= max_events`): then a position in `live_events` is the position in the
followed file (`LiveListed`), and both selections hold the position that was picked
(`PositionPicked`). Without one of the two conditions it is false (`gui_live_hook`,
`gui_live_trim`).

Only model-checked: all liveness properties (`EverythingRead`, `PublishesOrDrops`,
`CallsReturn`, `StopReturns`, `StreamsEnd`, `EverythingShown`), as fairness and
ENABLED are outside the prover's reach. `TraceKept` and `ComputedOnce` of the
violating runs are false.

## 5. Findings

From the standing runs and the further configurations (quoted lines in
`PROJECT.json`):

1. Two recording threads share a position; an event vanishes uncounted (`H:239`).
2. A reader and a flush consume at the same time: the slower one sets
   `read_pos_` back, and the producer overwrites unread events (`H:215`, `H:294`).
   The slower one can also copy a half-written slot. With a single consumer the same
   happens where the processor lets its relaxed store of `read_pos_` overtake the
   reads of the slots, which x86-64 does not.
3. The event limit stops the trace; with `GGML_VIZ_OUTPUT` set, the next compute
   call starts the hook again and empties the file just saved (`H:508`).
4. A SIGINT on a thread that is flushing never ends the process
   (`ggml_viz_init.cpp:122`).
5. A new trace in the followed file, with as many events as before, loses its
   first events in the GUI (`imgui_app.cpp:287`).
6. A preloaded hook library finds its own overrides instead of the originals;
   the computation is skipped and reported as a success (`H:854`).
7. The graph view keeps the graph of the first trace (`imgui_widgets.cpp:373`).
8. After opening another trace the inspector shows an event nobody picked
   (`imgui_app.cpp:579`); in live mode a click on the timeline selects a wrong
   event (`imgui_app.cpp:911`).
9. `--config` cannot set a value back to its default (`config.cpp:238`);
   the environment overrules the file of `GGML_VIZ_CONFIG`, against four documents
   (`config.cpp:382`);
   `GGML_VIZ_LOG_LEVEL` has no effect in the program (`main.cpp:259`).
10. The memory in use grows with every allocation of the same graph
   (`trace_reader.cpp:235`).
11. Recording may wait for `file_mutex_`, at every 4096th event and at the limit, where
   the documents say that no thread ever blocks (`H:261`).

Not stated against any document: `start()` sets `write_pos_` back before
`read_pos_`, and a reader in between asks `reserve()` for a negative size, which
ends the process in the collector's thread (`H:114`); a call that is under way
while the hook is started again stores a position of the last session, and the
new file gets an event of the old one (`H:255`); two readers of a segment
read the same bytes, although the header's comment speaks of multiple readers
(`shm_posix.cpp:135`); `open()` on Windows makes the segment it should only find
(`shm_windows.cpp:66`); live events keep labels of a reader that the next
reload destroys (`imgui_app.cpp:316`); after `uninstall_ggml_hooks()` every compute call
reports success without computing, and one that was about to call calls a null pointer
(`H:534`, `H:926`); a streaming client that stops reading keeps its thread in `send()`
for ever, after `stop()` too (`live_data_collector.hpp:399`); a number typed into the
zoom slider is not clamped (`imgui_widgets.cpp:253`).

## 6. Not modelled

`ggml_viz_init.cpp` beyond its handlers, which only decides whether to call
`start()`; the parsing of the command line and of trace files (a path loads or
does not); `reset()` and `dump_json()` of the configuration; the setters of the
logger, which nothing calls; `get_events_size` of the ring; searching, drawing and
the layout of the graph's nodes, which leave no state behind; `get_op_events_for_type`,
a filter like the others. The texts of HTTP, JSON and log lines are output without
state of interest. The legacy collector (`data_collector.cpp`) is not built. ggml,
the file system, sockets and the clock appear as actions of the environment.
