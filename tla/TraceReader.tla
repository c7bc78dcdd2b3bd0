----------------------------- MODULE TraceReader -----------------------------
(***************************************************************************)
(* What a trace says (TraceReader in src/utils/trace_reader.cpp): the      *)
(* operators compute from a sequence of events what the getters compute    *)
(* from events_.  An event is                                              *)
(*   [type |-> ..., ptr |-> the graph or tensor, size |-> bytes of it,     *)
(*    call |-> the interposed call that recorded it],                      *)
(* and its position in the trace stands for its timestamp.  The field call *)
(* is not in the code: it says where an event came from.  A pointer of     *)
(* ggml is never reused for another tensor here; the code cannot tell the  *)
(* two apart either.                                                       *)
(***************************************************************************)
EXTENDS Integers, SequencesExt

GraphTypes == {"GRAPH_COMPUTE_BEGIN", "GRAPH_COMPUTE_END"}
OpTypes == {"OP_COMPUTE_BEGIN", "OP_COMPUTE_END"}
MemoryTypes == {"TENSOR_ALLOC", "TENSOR_FREE"}

OfTypes(events, types) ==
  FoldLeft(LAMBDA kept, e : IF e.type \in types THEN Append(kept, e) ELSE kept, <<>>, events)

GetGraphEvents(events) == OfTypes(events, GraphTypes)
GetMemoryEvents(events) == OfTypes(events, MemoryTypes)
GetAllocEvents(events) == OfTypes(events, {"TENSOR_ALLOC"})
GetFreeEvents(events) == OfTypes(events, {"TENSOR_FREE"})

TotalDuration(events) == IF Len(events) < 2 THEN 0 ELSE Len(events) - 1

-----------------------------------------------------------------------------
(* Timings of operations *)

\* map[x] = v and map.erase(x)
Put(f, x, v) == [y \in DOMAIN f \cup {x} |-> IF y = x THEN v ELSE f[y]]

Forget(f, x) == [y \in DOMAIN f \ {x} |-> f[y]]

Timing(acc, events, i) == [begin |-> acc.pending[events[i].ptr], end |-> i]

\* One event of get_op_timings(): pending holds the last BEGIN of a tensor that
\* has had no END yet, by position.
\* Mutant of PairOp: the BEGIN stays pending when it has been used.
PairOpAgain(acc, events, i) ==
  LET e == events[i]
  IN  CASE e.type = "OP_COMPUTE_BEGIN" ->
             [timings |-> acc.timings, pending |-> Put(acc.pending, e.ptr, i)]
        [] e.type = "OP_COMPUTE_END" /\ e.ptr \in DOMAIN acc.pending ->
             [timings |-> Append(acc.timings, Timing(acc, events, i)),
              pending |-> acc.pending]
        [] OTHER -> acc

PairOp(acc, events, i) ==
  LET e == events[i]
  IN  CASE e.type = "OP_COMPUTE_BEGIN" ->
             [timings |-> acc.timings, pending |-> Put(acc.pending, e.ptr, i)]
        [] e.type = "OP_COMPUTE_END" /\ e.ptr \in DOMAIN acc.pending ->
             [timings |-> Append(acc.timings, Timing(acc, events, i)),
              pending |-> Forget(acc.pending, e.ptr)]
        [] OTHER -> acc

PairedOps(events) ==
  FoldLeftDomain(LAMBDA acc, i : PairOp(acc, events, i),
                 [timings |-> <<>>, pending |-> <<>>], events).timings

\* std::sort by an integer that is computed from an element.  What is equal
\* stays in order here; the code promises no order for it.
InsertBy(sorted, x, key) ==
  InsertAt(sorted, Min({i \in DOMAIN sorted : key[sorted[i]] > key[x]} \cup {Len(sorted) + 1}), x)

SortedBy(s, key) == FoldLeft(LAMBDA sorted, x : InsertBy(sorted, x, key), <<>>, s)

\* get_op_timings(): longest first.
GetOpTimings(events) ==
  LET timings == PairedOps(events)
  IN  SortedBy(timings, [x \in ToSet(timings) |-> x.begin - x.end])

\* The bars of the timeline widget, by their start.
ProcessEvents(events) ==
  LET timings == GetOpTimings(events)
  IN  SortedBy(timings, [x \in ToSet(timings) |-> x.begin])

-----------------------------------------------------------------------------
(* Memory *)

EmptyStats == [total_allocations |-> 0, total_frees |-> 0,
               bytes_allocated |-> 0, bytes_freed |-> 0,
               current_usage |-> 0, peak_usage |-> 0,
               allocations |-> <<>>, freed_pointers |-> {}]

\* An ALLOC replaces the size of a pointer that is allocated already, and adds
\* its own to the usage all the same.
CountAlloc(stats, e) ==
  LET usage == stats.current_usage + e.size
  IN  [total_allocations |-> stats.total_allocations + 1,
       total_frees |-> stats.total_frees,
       bytes_allocated |-> stats.bytes_allocated + e.size,
       bytes_freed |-> stats.bytes_freed,
       current_usage |-> usage,
       peak_usage |-> IF usage > stats.peak_usage THEN usage ELSE stats.peak_usage,
       allocations |-> Put(stats.allocations, e.ptr, e.size),
       freed_pointers |-> stats.freed_pointers \ {e.ptr}]

FirstFree(stats, e) ==
  e.ptr \notin stats.freed_pointers /\ e.ptr \in DOMAIN stats.allocations

\* A second FREE and the FREE of an unknown pointer are counted and reported.
FreeCounted(stats, e, allocations) ==
  LET size == IF FirstFree(stats, e) THEN stats.allocations[e.ptr] ELSE 0
  IN  [total_allocations |-> stats.total_allocations,
       total_frees |-> stats.total_frees + 1,
       bytes_allocated |-> stats.bytes_allocated,
       bytes_freed |-> stats.bytes_freed + size,
       current_usage |-> stats.current_usage - size,
       peak_usage |-> stats.peak_usage,
       allocations |-> allocations,
       freed_pointers |-> stats.freed_pointers \cup IF FirstFree(stats, e) THEN {e.ptr} ELSE {}]

\* Mutant of CountFree: a freed pointer stays allocated.
CountFreeKept(stats, e) == FreeCounted(stats, e, stats.allocations)

CountFree(stats, e) ==
  FreeCounted(stats, e, IF FirstFree(stats, e) THEN Forget(stats.allocations, e.ptr)
                                               ELSE stats.allocations)

CountEvent(stats, e) ==
  CASE e.type = "TENSOR_ALLOC" -> CountAlloc(stats, e)
    [] e.type = "TENSOR_FREE" -> CountFree(stats, e)
    [] OTHER -> stats

\* update_memory_stats()
MemoryStats(events) == FoldLeft(CountEvent, EmptyStats, events)

LeakedBytes(stats) == SumFunction(stats.allocations)
=============================================================================
