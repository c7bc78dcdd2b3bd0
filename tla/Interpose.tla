------------------------------ MODULE Interpose ------------------------------
(***************************************************************************)
(* The functions of ggml that the hook library replaces                    *)
(* (src/instrumentation/ggml_hook.cpp, sched_interpose.mm), called by the  *)
(* threads of the traced program while the hook is started and stopped.    *)
(* All wrappers have one shape: start the hook if GGML_VIZ_OUTPUT is set,  *)
(* record some events, call the original, record others.  The original may *)
(* call another wrapped function for the same graph.                       *)
(*                                                                         *)
(* What a session has recorded is one sequence here; how it gets from the  *)
(* ring to the file is in EventRing and GGMLHook, which say when a record  *)
(* is dropped: here that may happen at any record of a type in Lossy.      *)
(* What the trace says is computed by the operators of TraceReader.        *)
(***************************************************************************)
EXTENDS TraceReader, FiniteSets

CONSTANTS
  Threads,
  Overrides,   \* functions that ggml_hook.cpp defines again
  Interposed,  \* functions that sched_interpose.mm replaces, with RTLD_NEXT
  Manual,      \* wrappers that do not start the hook
  Kind,        \* Kind[f]: "compute", "quiet", "tensor", "graph" or "context"
  Uses,        \* Uses[t]: the wrapped functions that thread t calls itself
  Inner,       \* Inner[f]: the wrapped function the original calls, or None
  Found,       \* overrides of which dlsym() finds another definition
  None,
  Graph,       \* Graph[t]: the nodes of the graph of thread t, a sequence
  Traced,      \* nodes whose type is in op_types_to_trace
  Size,        \* Size[n]: bytes of a tensor
  enable_op_timing, enable_memory_tracking,
  output_set,  \* GGML_VIZ_OUTPUT is set
  Lossy,       \* types of events whose records may be dropped
  MaxCalls,    \* bounds of the model: calls, the inner ones included,
  MaxStops     \* and ends of a session

Fns == Overrides \cup Interposed
Nodes == UNION {ToSet(Graph[t]) : t \in Threads}

ASSUME InterposeAssumption ==
  /\ Overrides \cap Interposed = {} /\ None \notin Fns
  /\ Manual \subseteq Fns /\ Found \subseteq Overrides
  /\ Kind \in [Fns -> {"compute", "quiet", "tensor", "graph", "context"}]
  /\ Uses \in [Threads -> SUBSET Fns]
  /\ Inner \in [Fns -> Fns \cup {None}]
  /\ \A t \in Threads : Graph[t] \in Seq(Nodes) \ {<<>>}
  /\ \A t, u \in Threads : t # u => ToSet(Graph[t]) \cap ToSet(Graph[u]) = {}
  /\ Traced \subseteq Nodes /\ \A n \in Nodes : Size[n] \in Nat
  /\ {enable_op_timing, enable_memory_tracking, output_set} \subseteq BOOLEAN
  /\ Lossy \subseteq GraphTypes \cup OpTypes \cup MemoryTypes
  /\ MaxCalls \in Nat /\ MaxStops \in Nat

VARIABLES
  active,             \* the hook is recording
  hooks_initialized,
  originals,          \* overrides whose pointer to the original is set
  stack,              \* per thread, the wrappers it is in, the innermost first
  trace,              \* the events of this session
  calls, stops,       \* how many there have been
  computed,           \* originals' work done in a thread's current call
  skipped,            \* wrappers that returned without it in that call
  dropped,            \* a record of this session was lost
  uninstalled         \* uninstall_ggml_hooks() has been called

vars == <<active, hooks_initialized, originals, stack, trace, calls, stops,
          computed, skipped, dropped, uninstalled>>

Init ==
  /\ active = FALSE
  /\ hooks_initialized = FALSE /\ originals = {}
  /\ stack = [t \in Threads |-> <<>>]
  /\ trace = <<>>
  /\ calls = 0 /\ stops = 0
  /\ computed = [t \in Threads |-> 0] /\ skipped = [t \in Threads |-> {}]
  /\ dropped = FALSE /\ uninstalled = FALSE

-----------------------------------------------------------------------------
(* The hook *)

Event(type, ptr, size, call) == [type |-> type, ptr |-> ptr, size |-> size, call |-> call]

\* What the on_...() functions pass on to record_event().
Passes(e) ==
  /\ active
  /\ e.type \in GraphTypes \cup OpTypes => enable_op_timing
  /\ e.type \in OpTypes => e.ptr \in Traced
  /\ e.type \in MemoryTypes => enable_memory_tracking

Record(e) ==
  IF ~Passes(e) THEN UNCHANGED <<trace, dropped>>
  ELSE \/ trace' = Append(trace, e) /\ UNCHANGED dropped
       \/ e.type \in Lossy /\ dropped' = TRUE /\ UNCHANGED trace

\* Every session has a trace of its own.
StartSession == active' = TRUE /\ trace' = <<>> /\ dropped' = FALSE

Start ==
  /\ ~active
  /\ StartSession
  /\ UNCHANGED <<hooks_initialized, originals, stack, calls, stops, computed, skipped,
                 uninstalled>>

Stop ==
  /\ active /\ stops < MaxStops
  /\ active' = FALSE /\ stops' = stops + 1
  /\ UNCHANGED <<hooks_initialized, originals, stack, trace, calls, computed,
                 skipped, dropped, uninstalled>>

-----------------------------------------------------------------------------
(* What each wrapper records before and after the original *)

NodeEvents(t, type, call) ==
  [i \in DOMAIN Graph[t] |->
     Event(type, Graph[t][i], IF type = "TENSOR_ALLOC" THEN Size[Graph[t][i]] ELSE 0, call)]

\* The wrapper of a context's allocation passes no tensor, which records nothing.
Before(t, frame) ==
  LET begin == <<Event("GRAPH_COMPUTE_BEGIN", t, 0, frame.call)>>
      allocs == NodeEvents(t, "TENSOR_ALLOC", frame.call)
  IN  CASE Kind[frame.fn] = "compute" ->
             begin \o NodeEvents(t, "OP_COMPUTE_BEGIN", frame.call)
        [] Kind[frame.fn] = "quiet" -> begin
        [] Kind[frame.fn] = "tensor" -> SubSeq(allocs, 1, 1)
        [] Kind[frame.fn] = "graph" -> allocs
        [] Kind[frame.fn] = "context" -> <<>>

After(t, frame) ==
  LET end == <<Event("GRAPH_COMPUTE_END", t, 0, frame.call)>>
  IN  CASE Kind[frame.fn] = "compute" -> NodeEvents(t, "OP_COMPUTE_END", frame.call) \o end
        [] Kind[frame.fn] = "quiet" -> end
        [] OTHER -> <<>>

-----------------------------------------------------------------------------
(* A wrapper *)

InWrapper(t, label) == stack[t] # <<>> /\ stack[t][1].pc = label

Advance(t, label, n) == stack' = [stack EXCEPT ![t][1].pc = label, ![t][1].i = n]

Goto(t, label) == Advance(t, label, 1)

Enter(t, f, below) ==
  /\ calls < MaxCalls
  /\ calls' = calls + 1
  /\ stack' = [stack EXCEPT ![t] = <<[fn |-> f, call |-> calls + 1, pc |-> "auto", i |-> 1]>>
                                   \o below]

CallWrapper(t, f) ==
  /\ stack[t] = <<>>
  /\ Enter(t, f, <<>>)
  /\ computed' = [computed EXCEPT ![t] = 0] /\ skipped' = [skipped EXCEPT ![t] = {}]
  /\ UNCHANGED <<active, hooks_initialized, originals, trace, stops, dropped, uninstalled>>

AutoStart(t) ==
  /\ InWrapper(t, "auto")
  /\ IF ~active /\ output_set /\ stack[t][1].fn \notin Manual
     THEN StartSession ELSE UNCHANGED <<active, trace, dropped>>
  /\ Goto(t, "check")
  /\ UNCHANGED <<hooks_initialized, originals, calls, stops, computed, skipped,
                 uninstalled>>

\* Where a wrapper goes after its first events: the overrides look for the
\* originals themselves.
ToOriginal(t) == IF stack[t][1].fn \in Overrides THEN "init" ELSE "original"

\* is_active(), before and after the original.
Check(t) ==
  /\ \/ /\ InWrapper(t, "check")
        /\ Goto(t, IF active THEN "before" ELSE ToOriginal(t))
     \/ /\ InWrapper(t, "recheck")
        /\ Goto(t, IF active THEN "after" ELSE "return")
  /\ UNCHANGED <<active, hooks_initialized, originals, trace, calls, stops,
                 computed, skipped, dropped, uninstalled>>

\* One event after the other; each is recorded only if the hook is active then.
RecordAll(t, events, next) ==
  LET i == stack[t][1].i
  IN  /\ IF events = <<>> THEN UNCHANGED <<trace, dropped>> ELSE Record(events[i])
      /\ IF i < Len(events) THEN Advance(t, stack[t][1].pc, i + 1)
                            ELSE Goto(t, next)

RecordEvents(t) ==
  /\ \/ /\ InWrapper(t, "before")
        /\ RecordAll(t, Before(t, stack[t][1]), ToOriginal(t))
     \/ /\ InWrapper(t, "after")
        /\ RecordAll(t, After(t, stack[t][1]), "return")
  /\ UNCHANGED <<active, hooks_initialized, originals, calls, stops, computed, skipped,
                 uninstalled>>

\* Mutant of CheckInstalled: the flag is set before the pointers are.
CheckInstalledEarly(t) ==
  /\ InWrapper(t, "init")
  /\ Goto(t, IF hooks_initialized THEN "original" ELSE "install")
  /\ hooks_initialized' = TRUE
  /\ UNCHANGED <<active, originals, trace, calls, stops, computed, skipped, dropped, uninstalled>>

CheckInstalled(t) ==
  /\ InWrapper(t, "init")
  /\ Goto(t, IF hooks_initialized THEN "original" ELSE "install")
  /\ UNCHANGED <<active, hooks_initialized, originals, trace, calls, stops,
                 computed, skipped, dropped, uninstalled>>

\* install_ggml_hooks(): dlsym() in the whole program.  What is the override
\* itself does not count.
Install(t) ==
  /\ InWrapper(t, "install")
  /\ originals' = originals \cup Found
  /\ Goto(t, "flag")
  /\ UNCHANGED <<active, hooks_initialized, trace, calls, stops, computed,
                 skipped, dropped, uninstalled>>

SetInitialized(t) ==
  /\ InWrapper(t, "flag")
  /\ hooks_initialized' = TRUE
  /\ Goto(t, "original")
  /\ UNCHANGED <<active, originals, trace, calls, stops, computed, skipped, dropped, uninstalled>>

HasOriginal(t) == stack[t][1].fn \in originals \cup Interposed

TestOriginal(t) ==
  /\ InWrapper(t, "original") /\ HasOriginal(t)
  /\ Goto(t, "call")
  /\ UNCHANGED <<active, hooks_initialized, originals, trace, calls, stops,
                 computed, skipped, dropped, uninstalled>>

\* "No original ... function found": a warning, and the result is success, or
\* failure for a graph's or a context's allocation.
SkipOriginal(t) ==
  /\ InWrapper(t, "original") /\ ~HasOriginal(t)
  /\ Goto(t, "recheck")
  /\ skipped' = [skipped EXCEPT ![t] = @ \cup {stack[t][1].fn}]
  /\ UNCHANGED <<active, hooks_initialized, originals, trace, calls, stops,
                 computed, dropped, uninstalled>>

\* The original does the work, or calls a wrapped function that leads to it.
\* The call may use the pointer that was tested, whatever it is by now.
CallOriginal(t) ==
  LET below == <<[stack[t][1] EXCEPT !.pc = "recheck", !.i = 1]>> \o Tail(stack[t])
  IN  /\ InWrapper(t, "call")
      /\ IF Inner[stack[t][1].fn] = None
         THEN /\ computed' = [computed EXCEPT ![t] = @ + 1]
              /\ Goto(t, "recheck")
              /\ UNCHANGED calls
         ELSE /\ Enter(t, Inner[stack[t][1].fn], below)
              /\ UNCHANGED computed
      /\ UNCHANGED <<active, hooks_initialized, originals, trace, stops, skipped,
                     dropped, uninstalled>>

\* Or the pointer is read again, and is null by now: the program ends.
CallNull(t) ==
  /\ InWrapper(t, "call") /\ ~HasOriginal(t)
  /\ Goto(t, "crashed")
  /\ UNCHANGED <<active, hooks_initialized, originals, trace, calls, stops,
                 computed, skipped, dropped, uninstalled>>

Crashed == \E t \in Threads : InWrapper(t, "crashed")

Return(t) ==
  /\ InWrapper(t, "return")
  /\ stack' = [stack EXCEPT ![t] = Tail(@)]
  /\ UNCHANGED <<active, hooks_initialized, originals, trace, calls, stops,
                 computed, skipped, dropped, uninstalled>>

-----------------------------------------------------------------------------
(* Functions for the program itself *)

\* ggml_viz_hook_tensor_free(): no wrapper records that a tensor is freed.
FreeTensor(t, n) ==
  /\ stack[t] = <<>> /\ calls < MaxCalls
  /\ calls' = calls + 1
  /\ Record(Event("TENSOR_FREE", n, 0, calls + 1))
  /\ UNCHANGED <<active, hooks_initialized, originals, stack, stops, computed, skipped,
                 uninstalled>>

\* uninstall_ggml_hooks() leaves hooks_initialized as it is.  Without originals
\* it changes nothing.  The model has one call of it.
Uninstall ==
  /\ originals # {} /\ ~uninstalled
  /\ uninstalled' = TRUE
  /\ originals' = {}
  /\ UNCHANGED <<active, hooks_initialized, stack, trace, calls, stops, computed,
                 skipped, dropped>>

Next ==
  /\ ~Crashed
  /\ \/ Start \/ Stop \/ Uninstall
     \/ \E t \in Threads :
          \/ \E f \in Uses[t] : CallWrapper(t, f)
          \/ \E n \in ToSet(Graph[t]) : FreeTensor(t, n)
          \/ AutoStart(t) \/ Check(t) \/ RecordEvents(t)
          \/ CheckInstalled(t) \/ Install(t) \/ SetInitialized(t)
          \/ TestOriginal(t) \/ SkipOriginal(t)
          \/ CallOriginal(t) \/ CallNull(t) \/ Return(t)

Spec == Init /\ [][Next]_vars

-----------------------------------------------------------------------------
(* Properties *)

\* The innermost wrapper of t has its original behind it.
PastOriginal(t) == \E label \in {"recheck", "after", "return"} : InWrapper(t, label)

\* A call of a wrapped function does the original's work once, or not at all and
\* then because a wrapper on the way has skipped its original, however many
\* wrappers the call goes through.  A wrapper skips an original that dlsym()
\* finds only after uninstall_ggml_hooks(), which nothing but the program calls
\* and which no later call gets over (hooks_initialized stays set); two threads
\* that install the hooks at once never make each other do so, and never make
\* each other call a null pointer.
WorkDoneOrSkipped ==
  \A t \in Threads :
    /\ computed[t] <= 1
    /\ PastOriginal(t) => (computed[t] = 1 <=> skipped[t] = {})
    /\ skipped[t] \cap Found # {} \/ InWrapper(t, "crashed") => uninstalled

\* As long as nobody uninstalls the hooks, a wrapped function does what it does
\* without them: the library "works with any existing GGML binary", which then
\* runs "normally", whether it is preloaded or linked (README.md).
ComputedOnce ==
  \A t \in Threads : PastOriginal(t) /\ ~uninstalled => computed[t] = 1

\* BEGIN and END of one tensor, with nothing of that tensor in between.
Adjacent(events) ==
  {p \in [begin : DOMAIN events, end : DOMAIN events] :
     LET ptr == events[p.begin].ptr
     IN  /\ p.begin < p.end /\ events[p.end].ptr = ptr
         /\ events[p.begin].type = "OP_COMPUTE_BEGIN"
         /\ events[p.end].type = "OP_COMPUTE_END"
         /\ \A k \in p.begin + 1 .. p.end - 1 :
              ~(events[k].type \in OpTypes /\ events[k].ptr = ptr)}

\* The bars of the timeline are the operations of which the trace has BEGIN and
\* END next to each other, each once and by their start, and, when no record
\* was lost, both ends of a bar come from one call, although wrappers nest on
\* the same graph, and sessions start and end in the middle of a call
\* (TraceReader::get_op_timings(), TimelineWidget::process_events()).
TimingsOfOneCall ==
  LET bars == ProcessEvents(trace)
  IN  /\ ToSet(bars) = Adjacent(trace)
      /\ \A j, k \in DOMAIN bars : j < k => bars[j].begin < bars[k].begin
      /\ ~dropped => \A k \in DOMAIN bars :
           trace[bars[k].begin].call = trace[bars[k].end].call

\* The tensors that are live after the first n events: allocated, and not freed
\* since.
IsFree(e, ptr) == e.type = "TENSOR_FREE" /\ e.ptr = ptr

Live(events, n) ==
  {ptr \in {events[i].ptr : i \in 1..n} :
     \E i \in 1..n : /\ events[i].type = "TENSOR_ALLOC" /\ events[i].ptr = ptr
                     /\ \A k \in i + 1 .. n : ~IsFree(events[k], ptr)}

LiveBytes(events, n) == SumFunctionOnSet(Size, Live(events, n))

\* A tensor that is live is allocated again.
Reallocated(events) ==
  \E i \in DOMAIN events :
    events[i].type = "TENSOR_ALLOC" /\ events[i].ptr \in Live(events, i - 1)

\* The statistics of any trace: what is leaked is what is live at its end, and,
\* if no live tensor was allocated again, the usage is the same and the peak is
\* the largest there was (TraceReader::update_memory_stats()).
MemoryAccounted ==
  LET stats == MemoryStats(trace)
      live(n) == LiveBytes(trace, n)
  IN  /\ LeakedBytes(stats) = live(Len(trace))
      /\ stats.current_usage = stats.bytes_allocated - stats.bytes_freed
      /\ stats.total_allocations + stats.total_frees = Len(GetMemoryEvents(trace))
      /\ ~Reallocated(trace) =>
           /\ stats.current_usage = LeakedBytes(stats)
           /\ \A n \in 0..Len(trace) : live(n) <= stats.peak_usage
           /\ \E n \in 0..Len(trace) : live(n) = stats.peak_usage

\* Memory in use is never more than what the live tensors take
\* (the live analytics call it the current memory usage).
UsageIsLive ==
  MemoryStats(trace).current_usage = LiveBytes(trace, Len(trace))
=============================================================================
