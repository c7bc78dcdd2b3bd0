------------------------------ MODULE GGMLHook ------------------------------
(***************************************************************************)
(* The GGMLHook singleton (src/instrumentation/ggml_hook.cpp): the life of *)
(* a trace around the ring buffer.  start() resets the counters and opens  *)
(* the trace file, the on_* functions record events and flush, stop()      *)
(* writes what is left and closes the file.  stop() is called by the owner *)
(* of the hook, by record_event at the event limit, by the atexit function *)
(* and by the signal handlers of ggml_viz_init.cpp; start() by the owner   *)
(* and, when GGML_VIZ_OUTPUT is set, by the interposed compute functions.  *)
(*                                                                         *)
(* The steps inside the ring are those of EventRing.  The history          *)
(* variables published and copied are those of the current session: they   *)
(* are emptied with write_pos_ and read_pos_.                              *)
(***************************************************************************)
EXTENDS EventRing

CONSTANTS
  Starters,     \* threads that call start()
  Stoppers,     \* threads that call stop()
  Signalled,    \* threads that may receive SIGINT or SIGTERM
  AutoStart,    \* TRUE: a compute call starts an inactive hook
  QuietStart,   \* TRUE: no thread records from the call of start() to its
                \* return (the hook is started when the library is loaded)
  max_events,   \* instrumentation.max_events
  write_to_file,\* output.write_to_file
  FLUSH_EVERY,  \* record_event flushes at multiples of this (0x1000)
  MaxStarts     \* bound of the model: start() and reset_stats() calls

ASSUME CallerAssumption ==
  /\ Starters \cup Stoppers \cup Signalled \subseteq Flushers
  /\ Producers \subseteq Flushers
ASSUME ConfigAssumption ==
  /\ max_events \in Nat \ {0} /\ FLUSH_EVERY \in Nat \ {0} /\ MaxStarts \in Nat
  /\ {AutoStart, QuietStart, write_to_file} \subseteq BOOLEAN

VARIABLES
  active,       \* active_
  event_count,
  output_file,  \* the open stream, 0 when it is nullptr
  opened,       \* number of successful fopen calls, also names the streams
  trace,        \* the events in the file at output.filename
  call,         \* the outermost call each thread is in
  stopping,     \* the thread is inside stop()
  starts,       \* number of start() and reset_stats() calls so far
  exited        \* the process has ended

hookVars == <<active, event_count, output_file, opened, trace, call, stopping,
              starts, exited>>
vars == <<ringVars, hookVars>>

\* Everything of the ring but the threads' places.
ringData == <<event_buffer, positions, dropped_events, file_mutex, locals,
              records, history>>

Calls == {"none", "op", "graph_end", "start", "reset", "stop", "signal"}

Init ==
  /\ RingInit
  /\ active = FALSE
  /\ event_count = 0
  /\ output_file = 0
  /\ opened = 0
  /\ trace = <<>>
  /\ call = [t \in Threads |-> "none"]
  /\ stopping = [t \in Threads |-> FALSE]
  /\ starts = 0
  /\ exited = FALSE

\* No thread is inside start() or reset_stats().
NoneResets == \A t \in Threads : call[t] \notin {"start", "reset"}

\* A thread leaves record_event, a flush or stop().  The call it is in may have
\* more to do: on_graph_compute_end flushes once more, a signal handler ends
\* the process.
Return(t) ==
  /\ pc' = [pc EXCEPT ![t] = IF call[t] = "graph_end" /\ write_to_file
                             THEN "f_lock" ELSE "idle"]
  /\ call' = [call EXCEPT ![t] = "none"]
  /\ exited' = (call[t] = "signal")

-----------------------------------------------------------------------------
(* start() *)

EnterStart(t) ==
  /\ Goto(t, "idle", "s_active")
  /\ starts < MaxStarts
  /\ starts' = starts + 1
  /\ call' = [call EXCEPT ![t] = "start"]
  /\ UNCHANGED <<ringData, active, event_count, output_file, opened, trace,
                 stopping, exited>>

BeginStart(t) ==
  /\ QuietStart => \A p \in Producers : pc[p] = "idle"
  /\ EnterStart(t)

\* An interposed compute function finds the hook inactive.
AutoStartHook(t) ==
  /\ AutoStart
  /\ ~active
  /\ EnterStart(t)

\* reset_stats() does nothing to an active hook.
BeginReset(t) ==
  /\ Goto(t, "idle", "s_count")
  /\ ~active
  /\ QuietStart => \A p \in Producers : pc[p] = "idle"
  /\ starts < MaxStarts
  /\ starts' = starts + 1
  /\ call' = [call EXCEPT ![t] = "reset"]
  /\ UNCHANGED <<ringData, active, event_count, output_file, opened, trace,
                 stopping, exited>>

StartExchange(t) ==
  /\ pc[t] = "s_active"
  /\ active' = TRUE
  /\ IF active
     THEN Return(t)
     ELSE /\ pc' = [pc EXCEPT ![t] = "s_count"]
          /\ UNCHANGED <<call, exited>>
  /\ UNCHANGED <<ringData, event_count, output_file, opened, trace, stopping,
                 starts>>

\* Mutant of ResetCount: the events of the last session still count.
CountKept(t) ==
  /\ Goto(t, "s_count", "s_write")
  /\ UNCHANGED <<ringData, hookVars>>

ResetCount(t) ==
  /\ Goto(t, "s_count", "s_write")
  /\ event_count' = 0
  /\ UNCHANGED <<ringData, active, output_file, opened, trace, call, stopping,
                 starts, exited>>

ResetWritePos(t) ==
  /\ Goto(t, "s_write", "s_read")
  /\ write_pos' = 0
  /\ published' = <<>>
  /\ UNCHANGED <<event_buffer, read_pos, dropped_events, file_mutex, locals,
                 records, copied, hookVars>>

ResetReadPos(t) ==
  /\ Goto(t, "s_read", "s_dropped")
  /\ read_pos' = 0
  /\ copied' = <<>>
  /\ UNCHANGED <<event_buffer, write_pos, dropped_events, file_mutex, locals,
                 records, published, hookVars>>

ResetDropped(t) ==
  /\ pc[t] = "s_dropped"
  /\ dropped_events' = 0
  /\ IF write_to_file /\ call[t] = "start"
     THEN /\ pc' = [pc EXCEPT ![t] = "s_open"]
          /\ UNCHANGED <<call, exited>>
     ELSE Return(t)
  /\ UNCHANGED <<event_buffer, positions, file_mutex, locals, records, history,
                 active, event_count, output_file, opened, trace, stopping,
                 starts>>

\* Mutant of OpenFile: the file is opened to append.
OpenToAppend(t) ==
  /\ pc[t] = "s_open"
  /\ opened' = opened + 1
  /\ output_file' = opened + 1
  /\ Return(t)
  /\ UNCHANGED <<ringData, active, event_count, trace, stopping, starts>>

\* fopen(..., "wb") empties the file of the previous session.
OpenFile(t) ==
  /\ pc[t] = "s_open"
  /\ opened' = opened + 1
  /\ output_file' = opened + 1
  /\ trace' = <<>>
  /\ Return(t)
  /\ UNCHANGED <<ringData, active, event_count, stopping, starts>>

\* Mutant of OpenFails: the hook stays active without a file.
OpenFailsActive(t) ==
  /\ pc[t] = "s_open"
  /\ output_file' = 0
  /\ Return(t)
  /\ UNCHANGED <<ringData, active, event_count, opened, trace, stopping, starts>>

OpenFails(t) ==
  /\ pc[t] = "s_open"
  /\ output_file' = 0
  /\ active' = FALSE
  /\ Return(t)
  /\ UNCHANGED <<ringData, event_count, opened, trace, stopping, starts>>

-----------------------------------------------------------------------------
(* on_op_compute_begin and its like (k = "op"), on_graph_compute_end (k =  *)
(* "graph_end"), and record_event                                          *)

EnterHook(t, k) ==
  /\ Goto(t, "idle", "h_active")
  /\ active
  /\ NewEvent(t)
  /\ call' = [call EXCEPT ![t] = k]
  /\ UNCHANGED <<event_buffer, positions, dropped_events, file_mutex, head,
                 tail, history, active, event_count, output_file, opened,
                 trace, stopping, starts, exited>>

RecheckActive(t) ==
  /\ pc[t] = "h_active"
  /\ IF active
     THEN /\ pc' = [pc EXCEPT ![t] = "h_limit"]
          /\ UNCHANGED <<call, exited>>
     ELSE Return(t)
  /\ UNCHANGED <<ringData, active, event_count, output_file, opened, trace,
                 stopping, starts>>

\* Mutant of CheckLimit: one event too many.
CheckLimitLate(t) ==
  /\ Goto(t, "h_limit", IF event_count > max_events THEN "x_active" ELSE "r_head")
  /\ UNCHANGED <<ringData, hookVars>>

CheckLimit(t) ==
  /\ Goto(t, "h_limit", IF event_count >= max_events THEN "x_active" ELSE "r_head")
  /\ UNCHANGED <<ringData, hookVars>>

CountEvent(t) ==
  /\ pc[t] = "r_count"
  /\ event_count' = event_count + 1
  /\ IF write_to_file /\ (event_count + 1) % FLUSH_EVERY = 0
     THEN /\ pc' = [pc EXCEPT ![t] = "f_lock"]
          /\ UNCHANGED <<call, exited>>
     ELSE Return(t)
  /\ UNCHANGED <<ringData, active, output_file, opened, trace, stopping, starts>>

LeaveRecord(t) ==
  /\ pc[t] = "r_end"
  /\ Return(t)
  /\ UNCHANGED <<ringData, active, event_count, output_file, opened, trace,
                 stopping, starts>>

-----------------------------------------------------------------------------
(* flush_to_file under file_mutex_ *)

\* Mutants of LockFileMutex: it does not wait, or stop() does not flush.
LockMutexUnguarded(t) ==
  /\ Goto(t, "f_lock", "f_check")
  /\ file_mutex' = t
  /\ UNCHANGED <<event_buffer, positions, dropped_events, locals, records,
                 history, hookVars>>

StopWithoutFlush(t) ==
  /\ Goto(t, "f_lock", IF stopping[t] THEN "f_done" ELSE "f_check")
  /\ file_mutex = NoThread
  /\ file_mutex' = t
  /\ UNCHANGED <<event_buffer, positions, dropped_events, locals, records,
                 history, hookVars>>

LockFileMutex(t) ==
  /\ Goto(t, "f_lock", "f_check")
  /\ file_mutex = NoThread
  /\ file_mutex' = t
  /\ UNCHANGED <<event_buffer, positions, dropped_events, locals, records,
                 history, hookVars>>

\* Mutant of FlushCheckFile: the early return leaves the mutex locked.
EarlyReturnLocked(t) ==
  /\ Goto(t, "f_check", IF output_file = 0 THEN "idle" ELSE "f_write")
  /\ UNCHANGED <<ringData, hookVars>>

FlushCheckFile(t) ==
  /\ Goto(t, "f_check", IF output_file = 0 THEN "f_done" ELSE "f_write")
  /\ UNCHANGED <<ringData, hookVars>>

\* fwrite on the stream output_file_ names now; a null stream crashes.
WriteEvent(t) ==
  /\ output_file # 0
  /\ FlushCopy(t)
  /\ trace' = Append(trace, event_buffer[Slot(tail[t])])
  /\ UNCHANGED <<active, event_count, output_file, opened, call, stopping,
                 starts, exited>>

WriteToNull(t) ==
  /\ Goto(t, "f_copy", "crashed")
  /\ tail[t] < head[t]
  /\ output_file = 0
  /\ UNCHANGED <<ringData, hookVars>>

\* The same after read_pos_ was seen to move (EventRing's LateSteps).
LateWrite(t) ==
  /\ pc[t] = "f_late"
  /\ output_file # 0
  /\ LateCopy(t)
  /\ trace' = Append(trace, event_buffer[Slot(tail[t])])
  /\ UNCHANGED <<active, event_count, output_file, opened, call, stopping,
                 starts, exited>>

LateWriteToNull(t) ==
  /\ Goto(t, "f_late", "crashed")
  /\ tail[t] < head[t]
  /\ output_file = 0
  /\ UNCHANGED <<ringData, hookVars>>

Unlock(t) ==
  /\ pc[t] = "f_done"
  /\ ~stopping[t]
  /\ file_mutex' = NoThread
  /\ Return(t)
  /\ UNCHANGED <<event_buffer, positions, dropped_events, locals, records,
                 history, active, event_count, output_file, opened, trace,
                 stopping, starts>>

-----------------------------------------------------------------------------
(* stop() *)

BeginStop(t) ==
  /\ Goto(t, "idle", "x_active")
  /\ call' = [call EXCEPT ![t] = "stop"]
  /\ UNCHANGED <<ringData, active, event_count, output_file, opened, trace,
                 stopping, starts, exited>>

\* The handler of SIGINT and SIGTERM runs on whatever thread the signal
\* interrupts and never gives control back: it calls stop() and exit(0).
Signal(t) ==
  /\ \A u \in Threads : call[u] # "signal"
  /\ starts > 0
  /\ pc[t] \notin {"crashed", "threw"}
  /\ pc' = [pc EXCEPT ![t] = "x_active"]
  /\ call' = [call EXCEPT ![t] = "signal"]
  /\ stopping' = [stopping EXCEPT ![t] = FALSE]
  /\ UNCHANGED <<ringData, active, event_count, output_file, opened, trace,
                 starts, exited>>

\* Mutant of StopExchange: a second stop() goes on as well.
StopTwice(t) ==
  /\ Goto(t, "x_active", "x_file")
  /\ active' = FALSE
  /\ UNCHANGED <<ringData, event_count, output_file, opened, trace, call,
                 stopping, starts, exited>>

StopExchange(t) ==
  /\ pc[t] = "x_active"
  /\ active' = FALSE
  /\ IF active
     THEN /\ pc' = [pc EXCEPT ![t] = "x_file"]
          /\ UNCHANGED <<call, exited>>
     ELSE Return(t)
  /\ UNCHANGED <<ringData, event_count, output_file, opened, trace, stopping,
                 starts>>

\* output_file_ is tested before the mutex is taken.
StopCheckFile(t) ==
  /\ pc[t] = "x_file"
  /\ IF output_file = 0
     THEN /\ Return(t)
          /\ UNCHANGED stopping
     ELSE /\ pc' = [pc EXCEPT ![t] = "f_lock"]
          /\ stopping' = [stopping EXCEPT ![t] = TRUE]
          /\ UNCHANGED <<call, exited>>
  /\ UNCHANGED <<ringData, active, event_count, output_file, opened, trace,
                 starts>>

CloseFile(t) ==
  /\ pc[t] = "f_done"
  /\ stopping[t]
  /\ output_file # 0
  /\ output_file' = 0
  /\ file_mutex' = NoThread
  /\ stopping' = [stopping EXCEPT ![t] = FALSE]
  /\ Return(t)
  /\ UNCHANGED <<event_buffer, positions, dropped_events, locals, records,
                 history, active, event_count, opened, trace, starts>>

\* fclose(nullptr): the file was closed since output_file_ was tested.
CloseNull(t) ==
  /\ Goto(t, "f_done", "crashed")
  /\ stopping[t]
  /\ output_file = 0
  /\ UNCHANGED <<ringData, hookVars>>

-----------------------------------------------------------------------------
StartSteps(t) ==
  \/ StartExchange(t) \/ ResetCount(t) \/ ResetWritePos(t) \/ ResetReadPos(t)
  \/ ResetDropped(t) \/ OpenFile(t) \/ OpenFails(t)

HookRecordSteps(t) ==
  \/ RecheckActive(t) \/ CheckLimit(t) \/ CountEvent(t) \/ LeaveRecord(t)
  \/ RecordSteps(t) /\ UNCHANGED hookVars

HookFlushSteps(t) ==
  \/ LockFileMutex(t) \/ FlushCheckFile(t) \/ WriteEvent(t) \/ WriteToNull(t)
  \/ Unlock(t)
  \/ (FlushLoadWrite(t) \/ FlushLoadRead(t) \/ FlushStore(t)) /\ UNCHANGED hookVars

HookLateSteps(t) ==
  /\ ~StoreAfterReads
  /\ \/ LateWrite(t) \/ LateWriteToNull(t)
     \/ pc[t] = "c_late" /\ LateCopy(t) /\ UNCHANGED hookVars
     \/ (GiveBackEarly(t) \/ EndLate(t)) /\ UNCHANGED hookVars

StopSteps(t) ==
  \/ StopExchange(t) \/ StopCheckFile(t) \/ CloseFile(t) \/ CloseNull(t)

\* A thread goes on with the call it is in.
Continue(t) ==
  \/ StartSteps(t)
  \/ HookRecordSteps(t)
  \/ HookFlushSteps(t)
  \/ StopSteps(t)
  \/ ConsumeSteps(t) /\ UNCHANGED hookVars
  \/ HookLateSteps(t)

\* A thread makes a new call.
Enter(t) ==
  \/ t \in Starters /\ (BeginStart(t) \/ BeginReset(t))
  \/ t \in Producers /\ AutoStartHook(t)
  \/ /\ t \in Producers
     /\ QuietStart => NoneResets
     /\ \E k \in {"op", "graph_end"} : EnterHook(t, k)
  \/ t \in Stoppers /\ BeginStop(t)
  \/ t \in Readers /\ active /\ BeginConsume(t) /\ UNCHANGED hookVars

Next ==
  /\ ~exited
  /\ \E t \in Threads : \/ Enter(t)
                        \/ Continue(t)
                        \/ t \in Signalled /\ Signal(t)

Spec == Init /\ [][Next]_vars

\* A thread that is inside a call is scheduled again; calls, signals and the
\* choice of the caller are not owed to anyone.
Fairness == \A t \in Threads : WF_vars(~exited /\ Continue(t))
FairSpec == Spec /\ Fairness

-----------------------------------------------------------------------------
(* Properties *)

HookPC == {"idle", "crashed", "h_active", "h_limit", "s_active", "s_count",
           "s_write", "s_read", "s_dropped", "s_open", "x_active", "x_file",
           "f_lock", "f_check"}

\* Every variable of the hook has its type.
HookTypeOK ==
  /\ pc \in [Threads -> HookPC \cup RecordPC \cup ConsumePC \cup FlushPC]
  /\ active \in BOOLEAN /\ exited \in BOOLEAN
  /\ event_count \in Nat /\ starts \in 0 .. MaxStarts
  /\ opened \in Nat /\ output_file \in 0 .. opened
  /\ trace \in Seq(Half)
  /\ call \in [Threads -> Calls]
  /\ stopping \in [Threads -> BOOLEAN]
  /\ file_mutex \in Threads \cup {NoThread}

\* The file holds the events of the current session in the order they were
\* published, each one once and whole (when fopen failed, the file and its
\* events are those of an earlier session).  Needs StoreAfterReads.
TraceInOrder ==
  (active \/ published # <<>>) /\ NoneResets =>
    /\ Len(trace) <= Len(published)
    /\ \A i \in 1 .. Len(trace) : trace[i] = Whole(published[i])

\* Once stop() has closed the file, what the trace lacks are the events of
\* record_event calls that had passed the test of active_ before stop()
\* cleared it: at most one for each recording thread.
LittleLostAtStop ==
  (~active /\ output_file = 0 /\ opened > 0 /\ NoneResets /\
     \A t \in Threads : pc[t] # "x_file")
    => Len(published) <= Len(trace) + Cardinality(Producers)

\* The hook implements the trace session: an event is recorded when write_pos_
\* is stored, saved when it is written, and the file is closed by stop().
Session == INSTANCE TraceSession WITH
             Event    <- {Whole(e) : e \in 1 .. MaxRecords},
             Late     <- Cardinality(Producers),
             recorded <- Accepted,
             saved    <- trace,
             open     <- output_file # 0

\* From one start() to the next, whatever the threads do: the file is the
\* beginning of what was recorded, only grows, and is closed with at most one
\* event missing for each recording thread.
SessionSpec == Session!Spec

\* The limit check and the increment of event_count_ are apart: each recording
\* thread but one can exceed max_events by one event.
LimitRespected ==
  event_count <= max_events + Cardinality(Producers) - 1

\* stop() reports the number of published events.
CountExact ==
  (\A t \in Threads : call[t] \in {"none", "stop"} /\ pc[t] \notin RecordPC)
    => event_count = Len(published)

\* An active hook that writes to a file has one open.
ActiveHasFile ==
  active /\ write_to_file /\ NoneResets => output_file # 0

\* No null stream is used and no thread dies of an exception.
NoCrash == \A t \in Threads : pc[t] \notin {"crashed", "threw"}

\* "model never blocks" (RING_BUFFER_ANALYSIS.md, section 1): a call that only
\* records an event does not find file_mutex_ held by another thread, neither for
\* its flush nor for the stop() at the event limit.
RecordNeverWaits ==
  \A t \in Threads :
    call[t] = "op" /\ pc[t] = "f_lock" => file_mutex \in {NoThread, t}

\* Every call returns: nobody waits for ever for file_mutex_.
CallsReturn ==
  \A t \in Threads : pc[t] # "idle" ~> pc[t] = "idle"

\* "Event limit reached, stopping trace": a trace that was stopped at the limit
\* is kept until the owner of the hook starts a new one.
TraceKept ==
  [][ (\A t \in Starters : call[t] # "start") => Len(trace') >= Len(trace) ]_trace

\* "Received SIGINT - saving trace before exit": the handler ends the process.
SignalExits ==
  (\E t \in Threads : call[t] = "signal") ~> exited

=============================================================================
