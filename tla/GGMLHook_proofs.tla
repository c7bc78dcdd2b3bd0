--------------------------- MODULE GGMLHook_proofs ---------------------------
(***************************************************************************)
(* Proofs about GGMLHook: what holds however the hook is started, stopped  *)
(* and interrupted, and what the documented use of the library adds.       *)
(***************************************************************************)
EXTENDS GGMLHook, EventRing_proofs

-----------------------------------------------------------------------------
(* Types, for any use. *)

\* The steps inside the ring keep the types of its data.
LEMMA RingDataStep ==
  ASSUME DataTypes, NEW t \in Threads,
         \/ RecordSteps(t) \/ ConsumeSteps(t) \/ FlushSteps(t)
         \/ GiveBackEarly(t) \/ LateCopy(t) \/ EndLate(t)
  PROVE  DataTypes'
<1> USE DEF DataTypes, positions, locals, history, Goto
<1>1. CASE LoadHead(t) \/ FlushLoadWrite(t) \/ ConsumeLoadHead(t)
  <2>1. head' \in [Threads -> Nat] /\ DOMAIN pc' = Threads
    BY <1>1 DEF LoadHead, FlushLoadWrite, ConsumeLoadHead
  <2> QED
    BY <1>1, <2>1 DEF LoadHead, FlushLoadWrite, ConsumeLoadHead
<1>2. CASE LoadTail(t) \/ FlushLoadRead(t) \/ ConsumeLoadTail(t)
  <2>1. tail' \in [Threads -> Nat] /\ DOMAIN pc' = Threads
    BY <1>2 DEF LoadTail, FlushLoadRead, ConsumeLoadTail
  <2> QED
    BY <1>2, <2>1 DEF LoadTail, FlushLoadRead, ConsumeLoadTail
<1>3. CASE DropEvent(t)
  BY <1>3 DEF DropEvent
<1>4. CASE Publish(t)
  BY <1>4 DEF Publish
<1>5. CASE ConsumeStore(t) \/ FlushStore(t)
  BY <1>5 DEF ConsumeStore, FlushStore, StoreReadPos
<1>9. CASE GiveBackEarly(t) \/ EndLate(t)
  <2>1. read_pos' \in Nat /\ DOMAIN pc' = Threads
    BY <1>9 DEF GiveBackEarly, EndLate, StoreReadPos
  <2> QED
    BY <1>9, <2>1 DEF GiveBackEarly, EndLate
<1>7. CASE WriteFirst(t)
  BY <1>7 DEF WriteFirst, Half
<1>8. CASE WriteSecond(t)
  BY <1>8 DEF WriteSecond, Half
<1>6. CASE ConsumeCopy(t) \/ FlushCopy(t) \/ LateCopy(t)
  <2>1. event_buffer[Slot(tail[t])] \in Half
    BY SlotRange
  <2>2. /\ copied' = Append(copied, event_buffer[Slot(tail[t])])
        /\ tail' = [tail EXCEPT ![t] = @ + 1]
    BY <1>6 DEF ConsumeCopy, FlushCopy, LateCopy, CopySlot
  <2>3. copied' \in Seq(Half)
    BY <2>1, <2>2
  <2>4. tail' \in [Threads -> Nat]
    BY <2>2
  <2>5. UNCHANGED <<event_buffer, write_pos, read_pos, dropped_events,
                    file_mutex, pc, head, event, records, published>>
    BY <1>6 DEF ConsumeCopy, FlushCopy, LateCopy
  <2> QED
    BY <2>3, <2>4, <2>5
<1> QED
  BY <1>1, <1>2, <1>3, <1>4, <1>5, <1>6, <1>7, <1>8, <1>9
     DEF RecordSteps, ConsumeSteps, FlushSteps

\* A thread that leaves a call goes to a place of its own.
LEMMA ReturnTypes ==
  ASSUME HookTypeOK, DOMAIN pc = Threads, NEW t \in Threads, Return(t)
  PROVE  /\ DOMAIN pc' = Threads
         /\ pc' \in [Threads -> HookPC \cup RecordPC \cup ConsumePC \cup FlushPC]
         /\ call' \in [Threads -> Calls] /\ exited' \in BOOLEAN
<1>1. DOMAIN pc' = Threads
  BY DEF Return
<1>2. pc' \in [Threads -> HookPC \cup RecordPC \cup ConsumePC \cup FlushPC]
  BY DEF HookTypeOK, Return, HookPC
<1>3. call' \in [Threads -> Calls]
  BY DEF HookTypeOK, Return, Calls
<1>4. exited' \in BOOLEAN
  BY Zenon DEF Return
<1> QED
  BY <1>1, <1>2, <1>3, <1>4

\* Most steps of the hook leave the ring's data alone.
LEMMA DataKept ==
  ASSUME DataTypes, UNCHANGED ringData, DOMAIN pc' = Threads
  PROVE  DataTypes' /\ UNCHANGED file_mutex
BY DEF DataTypes, ringData, positions, locals, history

\* The steps of start() keep the types.
LEMMA StartTypes ==
  ASSUME DataTypes, HookTypeOK, NEW t \in Threads, StartSteps(t)
  PROVE  DataTypes' /\ HookTypeOK'
<1> USE DEF Goto, hookVars
<1>0. DOMAIN pc = Threads
  BY DEF DataTypes
<1>1. CASE StartExchange(t)
  <2>1. CASE active
    BY <1>0, <1>1, <2>1, ReturnTypes, DataKept DEF StartExchange, HookTypeOK
  <2>2. CASE ~active
    BY <1>0, <1>1, <2>2, DataKept DEF StartExchange, HookTypeOK, HookPC
  <2> QED
    BY <2>1, <2>2
<1>2. CASE ResetCount(t)
  BY <1>0, <1>2, DataKept DEF ResetCount, HookTypeOK, HookPC
<1>3. CASE ResetWritePos(t)
  BY <1>3 DEF ResetWritePos, HookTypeOK, HookPC, DataTypes, locals
<1>4. CASE ResetReadPos(t)
  BY <1>4 DEF ResetReadPos, HookTypeOK, HookPC, DataTypes, locals
<1>5. CASE ResetDropped(t)
  <2>1. /\ DOMAIN pc' = Threads
        /\ pc' \in [Threads -> HookPC \cup RecordPC \cup ConsumePC \cup FlushPC]
        /\ call' \in [Threads -> Calls] /\ exited' \in BOOLEAN
    BY <1>0, <1>5, ReturnTypes DEF ResetDropped, HookTypeOK, HookPC
  <2> QED
    BY <1>5, <2>1 DEF ResetDropped, HookTypeOK, DataTypes, positions, locals, history
<1>6. CASE OpenFile(t)
  BY <1>0, <1>6, ReturnTypes, DataKept DEF OpenFile, HookTypeOK
<1>7. CASE OpenFails(t)
  <2>1. /\ DOMAIN pc' = Threads
        /\ pc' \in [Threads -> HookPC \cup RecordPC \cup ConsumePC \cup FlushPC]
        /\ call' \in [Threads -> Calls] /\ exited' \in BOOLEAN
    BY <1>0, <1>7, ReturnTypes DEF OpenFails
  <2>2. DataTypes' /\ UNCHANGED file_mutex
    BY <1>7, <2>1, DataKept DEF OpenFails
  <2>3. output_file' = 0 /\ active' = FALSE /\ UNCHANGED <<opened, event_count, trace, stopping, starts>>
    BY <1>7 DEF OpenFails
  <2>4. active' \in BOOLEAN
    BY <2>3
  <2>5. output_file' \in 0 .. opened'
    BY <2>3 DEF HookTypeOK
  <2> QED
    BY <1>7, <2>1, <2>2, <2>3, <2>4, <2>5 DEF HookTypeOK
<1> QED
  BY <1>1, <1>2, <1>3, <1>4, <1>5, <1>6, <1>7 DEF StartSteps

\* The steps of the on_* functions and of record_event keep the types.
LEMMA RecordTypes ==
  ASSUME DataTypes, HookTypeOK, NEW t \in Threads, HookRecordSteps(t)
  PROVE  DataTypes' /\ HookTypeOK'
<1> USE DEF Goto
<1>0. DOMAIN pc = Threads
  BY DEF DataTypes
<1>1. CASE RecheckActive(t)
  <2>1. CASE active
    BY <1>0, <1>1, <2>1, DataKept DEF RecheckActive, HookTypeOK, HookPC
  <2>2. CASE ~active
    BY <1>0, <1>1, <2>2, ReturnTypes, DataKept DEF RecheckActive, HookTypeOK
  <2> QED
    BY <2>1, <2>2
<1>2. CASE CheckLimit(t)
  BY <1>0, <1>2, DataKept DEF CheckLimit, hookVars, HookTypeOK, HookPC, RecordPC
<1>3. CASE CountEvent(t)
  <2>1. /\ DOMAIN pc' = Threads
        /\ pc' \in [Threads -> HookPC \cup RecordPC \cup ConsumePC \cup FlushPC]
        /\ call' \in [Threads -> Calls] /\ exited' \in BOOLEAN
    BY <1>0, <1>3, ReturnTypes DEF CountEvent, HookTypeOK, HookPC
  <2>2. event_count' \in Nat /\ UNCHANGED ringData
    BY <1>3 DEF CountEvent, HookTypeOK
  <2> QED
    BY <1>3, <2>1, <2>2, DataKept DEF CountEvent, HookTypeOK, ringData
<1>4. CASE LeaveRecord(t)
  BY <1>0, <1>4, ReturnTypes, DataKept DEF LeaveRecord, HookTypeOK, ringData
<1>5. CASE RecordSteps(t) /\ UNCHANGED hookVars
  <2>1. DataTypes'
    BY <1>5, RingDataStep
  <2>2. /\ pc' \in [Threads -> HookPC \cup RecordPC \cup ConsumePC \cup FlushPC]
        /\ UNCHANGED file_mutex
    BY <1>5 DEF RecordSteps, LoadHead, LoadTail, DropEvent, WriteFirst, WriteSecond,
                Publish, HookTypeOK, RecordPC
  <2> QED
    BY <1>5, <2>1, <2>2 DEF HookTypeOK, hookVars
<1> QED
  BY <1>1, <1>2, <1>3, <1>4, <1>5 DEF HookRecordSteps

\* The steps of flush_to_file and of its callers keep the types.
LEMMA FlushTypes ==
  ASSUME DataTypes, HookTypeOK, NEW t \in Threads, HookFlushSteps(t)
  PROVE  DataTypes' /\ HookTypeOK'
<1> USE DEF Goto
<1>0. DOMAIN pc = Threads
  BY DEF DataTypes
<1>1. CASE LockFileMutex(t)
  BY <1>1 DEF LockFileMutex, hookVars, HookTypeOK, HookPC, DataTypes, positions,
              locals, history
<1>2. CASE FlushCheckFile(t)
  BY <1>0, <1>2, DataKept DEF FlushCheckFile, hookVars, HookTypeOK, FlushPC
<1>3. CASE WriteEvent(t)
  <2>1. DataTypes'
    BY <1>3, RingDataStep DEF WriteEvent, FlushSteps
  <2>2. event_buffer[Slot(tail[t])] \in Half
    BY SlotRange DEF DataTypes
  <2> QED
    BY <1>3, <2>1, <2>2 DEF WriteEvent, FlushCopy, HookTypeOK
<1>4. CASE WriteToNull(t)
  BY <1>0, <1>4, DataKept DEF WriteToNull, hookVars, HookTypeOK, HookPC
<1>5. CASE Unlock(t)
  <2>1. /\ DOMAIN pc' = Threads
        /\ pc' \in [Threads -> HookPC \cup RecordPC \cup ConsumePC \cup FlushPC]
        /\ call' \in [Threads -> Calls] /\ exited' \in BOOLEAN
    BY <1>0, <1>5, ReturnTypes DEF Unlock
  <2> QED
    BY <1>5, <2>1 DEF Unlock, HookTypeOK, DataTypes, positions, locals, history
<1>6. CASE (FlushLoadWrite(t) \/ FlushLoadRead(t) \/ FlushStore(t)) /\ UNCHANGED hookVars
  <2>1. DataTypes'
    BY <1>6, RingDataStep DEF FlushSteps
  <2>2. /\ pc' \in [Threads -> HookPC \cup RecordPC \cup ConsumePC \cup FlushPC]
        /\ UNCHANGED file_mutex
    BY <1>6 DEF FlushLoadWrite, FlushLoadRead, FlushStore, HookTypeOK, FlushPC
  <2> QED
    BY <1>6, <2>1, <2>2 DEF HookTypeOK, hookVars
<1> QED
  BY <1>1, <1>2, <1>3, <1>4, <1>5, <1>6 DEF HookFlushSteps

\* The steps of stop() keep the types.
LEMMA StopTypes ==
  ASSUME DataTypes, HookTypeOK, NEW t \in Threads, StopSteps(t)
  PROVE  DataTypes' /\ HookTypeOK'
<1> USE DEF Goto
<1>0. DOMAIN pc = Threads
  BY DEF DataTypes
<1>1. CASE StopExchange(t)
  <2>1. CASE active
    BY <1>0, <1>1, <2>1, DataKept DEF StopExchange, HookTypeOK, HookPC
  <2>2. CASE ~active
    BY <1>0, <1>1, <2>2, ReturnTypes, DataKept DEF StopExchange, HookTypeOK
  <2> QED
    BY <2>1, <2>2
<1>2. CASE StopCheckFile(t)
  <2>1. CASE output_file = 0
    BY <1>0, <1>2, <2>1, ReturnTypes, DataKept DEF StopCheckFile, HookTypeOK, ringData
  <2>2. CASE output_file # 0
    <3>1. DOMAIN pc' = Threads /\ UNCHANGED ringData
      BY <1>0, <1>2, <2>2 DEF StopCheckFile
    <3>2. stopping' \in [Threads -> BOOLEAN]
      BY <1>2, <2>2 DEF StopCheckFile, HookTypeOK
    <3> QED
      BY <1>2, <2>2, <3>1, <3>2, DataKept DEF StopCheckFile, HookTypeOK, HookPC
  <2> QED
    BY <2>1, <2>2
<1>3. CASE CloseFile(t)
  <2>1. /\ DOMAIN pc' = Threads
        /\ pc' \in [Threads -> HookPC \cup RecordPC \cup ConsumePC \cup FlushPC]
        /\ call' \in [Threads -> Calls] /\ exited' \in BOOLEAN
    BY <1>0, <1>3, ReturnTypes DEF CloseFile
  <2>2. DataTypes'
    BY <1>3, <2>1 DEF CloseFile, DataTypes, positions, locals, history
  <2>3. stopping' \in [Threads -> BOOLEAN] /\ output_file' \in 0 .. opened'
    BY <1>3 DEF CloseFile, HookTypeOK
  <2> QED
    BY <1>3, <2>1, <2>2, <2>3 DEF CloseFile, HookTypeOK
<1>4. CASE CloseNull(t)
  BY <1>0, <1>4, DataKept DEF CloseNull, hookVars, HookTypeOK, HookPC
<1> QED
  BY <1>1, <1>2, <1>3, <1>4 DEF StopSteps

\* The steps of a consumer whose store of read_pos_ was seen early keep them.
LEMMA LateTypes ==
  ASSUME DataTypes, HookTypeOK, NEW t \in Threads, HookLateSteps(t)
  PROVE  DataTypes' /\ HookTypeOK'
<1>0. DOMAIN pc = Threads
  BY DEF DataTypes
<1>1. CASE LateWrite(t)
  <2>1. DataTypes'
    BY <1>1, RingDataStep DEF LateWrite
  <2>2. event_buffer[Slot(tail[t])] \in Half
    BY SlotRange DEF DataTypes
  <2> QED
    BY <1>1, <2>1, <2>2 DEF LateWrite, LateCopy, HookTypeOK
<1>2. CASE LateWriteToNull(t)
  BY <1>0, <1>2, DataKept DEF LateWriteToNull, Goto, hookVars, HookTypeOK, HookPC
<1>3. CASE (LateCopy(t) \/ GiveBackEarly(t) \/ EndLate(t)) /\ UNCHANGED hookVars
  <2>1. DataTypes'
    BY <1>3, RingDataStep
  <2>2. /\ pc' \in [Threads -> HookPC \cup RecordPC \cup ConsumePC \cup FlushPC]
        /\ UNCHANGED file_mutex
    BY <1>3 DEF LateCopy, GiveBackEarly, EndLate, HookTypeOK, HookPC, ConsumePC, FlushPC
  <2> QED
    BY <1>3, <2>1, <2>2 DEF HookTypeOK, hookVars
<1> QED
  BY <1>1, <1>2, <1>3 DEF HookLateSteps

\* New calls keep the types.
LEMMA EnterTypes ==
  ASSUME DataTypes, HookTypeOK, NEW t \in Threads, Enter(t)
  PROVE  DataTypes' /\ HookTypeOK'
<1> USE DEF Goto
<1>0. DOMAIN pc = Threads
  BY DEF DataTypes
<1>1. CASE EnterStart(t)
  BY <1>0, <1>1, DataKept, ConfigAssumption DEF EnterStart, HookTypeOK, HookPC, Calls
<1>2. CASE BeginReset(t)
  BY <1>0, <1>2, DataKept, ConfigAssumption DEF BeginReset, HookTypeOK, HookPC, Calls
<1>3. ASSUME NEW k \in {"op", "graph_end"}, EnterHook(t, k)
      PROVE  DataTypes' /\ HookTypeOK'
  BY <1>3, SMTT(30) DEF EnterHook, NewEvent, HookTypeOK, HookPC, Calls, DataTypes, positions, history
<1>4. CASE BeginStop(t)
  BY <1>0, <1>4, DataKept DEF BeginStop, HookTypeOK, HookPC, Calls
<1>5. CASE BeginConsume(t) /\ UNCHANGED hookVars
  BY <1>5 DEF BeginConsume, hookVars, HookTypeOK, ConsumePC, DataTypes, positions,
              locals, history
<1> QED
  BY <1>1, <1>2, <1>3, <1>4, <1>5 DEF Enter, BeginStart, AutoStartHook

\* Every step of the hook keeps the types.
LEMMA HookTypesStep ==
  ASSUME DataTypes, HookTypeOK, [Next]_vars
  PROVE  DataTypes' /\ HookTypeOK'
<1>1. ASSUME NEW t \in Threads, ConsumeSteps(t) /\ UNCHANGED hookVars
      PROVE  DataTypes' /\ HookTypeOK'
  <2>1. DataTypes'
    BY <1>1, RingDataStep
  <2>2. /\ pc' \in [Threads -> HookPC \cup RecordPC \cup ConsumePC \cup FlushPC]
        /\ UNCHANGED file_mutex
    BY <1>1 DEF ConsumeSteps, ConsumeLoadTail, ConsumeLoadHead, ConsumeCopy,
                ConsumeStore, Goto, HookTypeOK, HookPC, ConsumePC
  <2> QED
    BY <1>1, <2>1, <2>2 DEF HookTypeOK, hookVars
<1>2. ASSUME NEW t \in Threads, Signal(t)
      PROVE  DataTypes' /\ HookTypeOK'
  <2>1. DOMAIN pc' = Threads
    BY <1>2 DEF Signal, DataTypes
  <2>2. stopping' \in [Threads -> BOOLEAN] /\ call' \in [Threads -> Calls]
    BY <1>2 DEF Signal, HookTypeOK, Calls
  <2> QED
    BY <1>2, <2>1, <2>2, DataKept DEF Signal, HookTypeOK, HookPC
<1>3. CASE UNCHANGED vars
  BY <1>3 DEF vars, ringVars, hookVars, DataTypes, HookTypeOK, positions, locals, history
<1> QED
  BY <1>1, <1>2, <1>3, StartTypes, RecordTypes, FlushTypes, LateTypes, StopTypes,
     EnterTypes
     DEF Next, Continue

\* The types hold initially.
LEMMA HookTypesInit == Init => HookTypeOK /\ DataTypes
<1> SUFFICES ASSUME Init
             PROVE  HookTypeOK /\ DataTypes
  OBVIOUS
<1> USE DEF Init, RingInit
<1>1. DataTypes
  BY SizeAssumption DEF DataTypes, Half, Whole
<1>2. /\ pc \in [Threads -> HookPC \cup RecordPC \cup ConsumePC \cup FlushPC]
      /\ call \in [Threads -> Calls] /\ stopping \in [Threads -> BOOLEAN]
  BY DEF HookPC, Calls
<1>3. active \in BOOLEAN /\ exited \in BOOLEAN
  OBVIOUS
<1> QED
  BY <1>1, <1>2, <1>3, ConfigAssumption DEF HookTypeOK

\* Every variable of the hook and of the ring has its type in every reachable
\* state, with signals, restarts and any threads.
THEOREM HookTypesCorrect == Spec => []HookTypeOK
<1>1. HookTypeOK /\ DataTypes /\ [Next]_vars => (HookTypeOK /\ DataTypes)'
  BY HookTypesStep
<1> QED
  BY <1>1, HookTypesInit, PTL DEF Spec

-----------------------------------------------------------------------------
(* Places and the file mutex, for any use. *)

\* One step of thread t.
ThreadStep(t) == Enter(t) \/ Continue(t) \/ (t \in Signalled /\ Signal(t))

\* The places of start() and reset_stats().
StartPC == {"s_active", "s_count", "s_write", "s_read", "s_dropped", "s_open"}

\* A thread is only in functions that it may call.
HookRoles ==
  \A t \in Threads :
    /\ pc[t] \in RecordPC \cup {"h_active", "h_limit"} => t \in Producers
    /\ pc[t] \in ConsumePC => t \in Readers
    /\ pc[t] \notin ConsumePC \cup {"idle"} => t \in Flushers

\* A thread between lock and unlock of file_mutex_ holds it.
MutexHeld ==
  \A t \in Threads : pc[t] \in FlushPC \cup {"f_check"} => file_mutex = t

\* A step moves no other thread.
LEMMA OthersStay ==
  ASSUME DataTypes, HookTypeOK, NEW t \in Threads, ThreadStep(t)
  PROVE  \A u \in Threads \ {t} :
           pc'[u] = pc[u] /\ call'[u] = call[u] /\ stopping'[u] = stopping[u]
<1> SUFFICES ASSUME NEW u \in Threads, u # t
             PROVE  pc'[u] = pc[u] /\ call'[u] = call[u] /\ stopping'[u] = stopping[u]
  OBVIOUS
<1> USE DEF DataTypes, HookTypeOK, Goto, Return, hookVars
<1>1. CASE Enter(t)
  BY <1>1 DEF Enter, BeginStart, BeginReset, AutoStartHook, EnterStart, EnterHook,
              BeginStop, BeginConsume
<1>2. CASE StartSteps(t)
  BY <1>2 DEF StartSteps, StartExchange, ResetCount, ResetWritePos, ResetReadPos,
              ResetDropped, OpenFile, OpenFails
<1>3. CASE HookRecordSteps(t)
  BY <1>3 DEF HookRecordSteps, RecheckActive, CheckLimit, CountEvent, LeaveRecord,
              RecordSteps, LoadHead, LoadTail, DropEvent, WriteFirst, WriteSecond, Publish
<1>4. CASE HookFlushSteps(t)
  BY <1>4 DEF HookFlushSteps, LockFileMutex, FlushCheckFile, WriteEvent, FlushCopy,
              WriteToNull, Unlock, FlushLoadWrite, FlushLoadRead, FlushStore
<1>5. CASE StopSteps(t)
  BY <1>5 DEF StopSteps, StopExchange, StopCheckFile, CloseFile, CloseNull
<1>6. CASE ConsumeSteps(t) /\ UNCHANGED hookVars
  BY <1>6 DEF ConsumeSteps, ConsumeLoadTail, ConsumeLoadHead, ConsumeCopy, ConsumeStore
<1>7. CASE Signal(t)
  BY <1>7 DEF Signal
<1>8. CASE HookLateSteps(t)
  BY <1>8 DEF HookLateSteps, LateWrite, LateWriteToNull, LateCopy, GiveBackEarly, EndLate,
              CopyPC, LatePC
<1> QED
  BY <1>1, <1>2, <1>3, <1>4, <1>5, <1>6, <1>7, <1>8 DEF ThreadStep, Continue

\* The steps of a thread keep it in functions that it may call.
LEMMA RolesStep ==
  ASSUME DataTypes, HookTypeOK, HookRoles, NEW t \in Threads, ThreadStep(t)
  PROVE  HookRoles'
<1> SUFFICES /\ pc'[t] \in RecordPC \cup {"h_active", "h_limit"} => t \in Producers
             /\ pc'[t] \in ConsumePC => t \in Readers
             /\ pc'[t] \notin ConsumePC \cup {"idle"} => t \in Flushers
  BY OthersStay DEF HookRoles
<1> USE CallerAssumption
    DEF HookRoles, RecordPC, ConsumePC, DataTypes, Goto, Return, hookVars
<1>1. CASE Enter(t)
  BY <1>1 DEF Enter, BeginStart, BeginReset, AutoStartHook, EnterStart, EnterHook,
              BeginStop, BeginConsume
<1>2. CASE StartSteps(t)
  BY <1>2 DEF StartSteps, StartExchange, ResetCount, ResetWritePos, ResetReadPos,
              ResetDropped, OpenFile, OpenFails
<1>3. CASE HookRecordSteps(t)
  BY <1>3 DEF HookRecordSteps, RecheckActive, CheckLimit, CountEvent, LeaveRecord,
              RecordSteps, LoadHead, LoadTail, DropEvent, WriteFirst, WriteSecond, Publish
<1>4. CASE HookFlushSteps(t)
  BY <1>4 DEF HookFlushSteps, LockFileMutex, FlushCheckFile, WriteEvent, FlushCopy,
              WriteToNull, Unlock, FlushLoadWrite, FlushLoadRead, FlushStore
<1>5. CASE StopSteps(t)
  BY <1>5 DEF StopSteps, StopExchange, StopCheckFile, CloseFile, CloseNull
<1>6. CASE ConsumeSteps(t) /\ UNCHANGED hookVars
  BY <1>6 DEF ConsumeSteps, ConsumeLoadTail, ConsumeLoadHead, ConsumeCopy, ConsumeStore
<1>7. CASE t \in Signalled /\ Signal(t)
  BY <1>7 DEF Signal
<1>8. CASE HookLateSteps(t)
  BY <1>8 DEF HookLateSteps, LateWrite, LateWriteToNull, LateCopy, GiveBackEarly, EndLate,
              CopyPC, LatePC
<1> QED
  BY <1>1, <1>2, <1>3, <1>4, <1>5, <1>6, <1>7, <1>8 DEF ThreadStep, Continue

\* The steps of a thread keep file_mutex_ with the thread that locked it.
LEMMA MutexStep ==
  ASSUME DataTypes, HookTypeOK, MutexHeld, NEW t \in Threads, ThreadStep(t)
  PROVE  MutexHeld'
<1>0. DOMAIN pc = Threads /\ \A u \in Threads \ {t} : pc'[u] = pc[u]
  BY OthersStay DEF DataTypes
<1> USE <1>0 DEF FlushPC, Goto, hookVars, ringData
<1>1. ASSUME UNCHANGED file_mutex,
             pc'[t] \in FlushPC \cup {"f_check"} => pc[t] \in FlushPC \cup {"f_check"}
      PROVE  MutexHeld'
  BY <1>1, Zenon DEF MutexHeld
<1>2. CASE LockFileMutex(t)
  BY <1>2, ThreadAssumption DEF LockFileMutex, MutexHeld
<1>3. CASE Unlock(t) \/ CloseFile(t)
  <2>1. pc'[t] \in {"f_lock", "idle"}
    BY <1>3 DEF Unlock, CloseFile, Return
  <2>2. file_mutex = t
    BY <1>3 DEF Unlock, CloseFile, MutexHeld
  <2> QED
    BY <2>1, <2>2 DEF MutexHeld
<1>4. CASE Enter(t)
  BY <1>4, <1>1 DEF Enter, BeginStart, BeginReset, AutoStartHook, EnterStart, EnterHook,
              BeginStop, BeginConsume
<1>5. CASE StartSteps(t)
  BY <1>5, <1>1 DEF StartSteps, StartExchange, ResetCount, ResetWritePos, ResetReadPos,
              ResetDropped, OpenFile, OpenFails, Return
<1>6. CASE HookRecordSteps(t)
  <2>1. pc'[t] \notin FlushPC \cup {"f_check"} /\ UNCHANGED file_mutex
    BY <1>6 DEF HookRecordSteps, RecheckActive, CheckLimit, CountEvent, LeaveRecord,
                RecordSteps, LoadHead, LoadTail, DropEvent, WriteFirst, WriteSecond, Publish,
                Return
  <2> QED
    BY <1>1, <2>1
<1>7. CASE \/ FlushCheckFile(t) \/ WriteEvent(t) \/ WriteToNull(t)
           \/ (FlushLoadWrite(t) \/ FlushLoadRead(t) \/ FlushStore(t)) /\ UNCHANGED hookVars
  BY <1>7, <1>1 DEF FlushCheckFile, WriteEvent, FlushCopy, WriteToNull,
              FlushLoadWrite, FlushLoadRead, FlushStore
<1>8. CASE StopExchange(t) \/ StopCheckFile(t) \/ CloseNull(t)
  <2>1. UNCHANGED file_mutex
    BY <1>8 DEF StopExchange, StopCheckFile, CloseNull
  <2>2. pc'[t] \notin FlushPC \cup {"f_check"}
    BY <1>8 DEF StopExchange, StopCheckFile, CloseNull, Return
  <2> QED
    BY <2>1, <2>2, <1>1
<1>9. CASE ConsumeSteps(t) /\ UNCHANGED hookVars
  BY <1>9, <1>1 DEF ConsumeSteps, ConsumeLoadTail, ConsumeLoadHead, ConsumeCopy, ConsumeStore
<1>10. CASE Signal(t)
  BY <1>10, <1>1 DEF Signal
<1>11. CASE HookLateSteps(t)
  BY <1>11, <1>1 DEF HookLateSteps, LateWrite, LateWriteToNull, LateCopy, GiveBackEarly, EndLate,
              CopyPC, LatePC
<1> QED
  BY <1>2, <1>3, <1>4, <1>5, <1>6, <1>7, <1>8, <1>9, <1>10, <1>11
     DEF ThreadStep, Continue, HookFlushSteps, StopSteps

\* What holds of the places of the threads however the hook is used.
PlacesInv == HookTypeOK /\ DataTypes /\ HookRoles /\ MutexHeld

\* Every thread is where it may be, and between lock and unlock of file_mutex_
\* it holds the mutex, in every reachable state.
LEMMA PlacesCorrect == Spec => []PlacesInv
<1>1. Init => PlacesInv
  <2>1. Init => HookRoles /\ MutexHeld
    <3> SUFFICES ASSUME Init, NEW t \in Threads
                 PROVE  pc[t] = "idle"
      BY DEF HookRoles, MutexHeld, RecordPC, ConsumePC, FlushPC
    <3> QED
      BY DEF Init, RingInit
  <2> QED
    BY <2>1, HookTypesInit DEF PlacesInv
<1>2. PlacesInv /\ [Next]_vars => PlacesInv'
  <2> SUFFICES ASSUME PlacesInv, [Next]_vars
               PROVE  PlacesInv'
    OBVIOUS
  <2> USE DEF PlacesInv
  <2>1. ASSUME NEW t \in Threads, ThreadStep(t)
        PROVE  HookRoles' /\ MutexHeld'
    BY <2>1, RolesStep, MutexStep
  <2>2. CASE UNCHANGED vars
    <3>1. HookRoles' /\ MutexHeld'
      BY <2>2 DEF vars, ringVars, HookRoles, MutexHeld
    <3> QED
      BY <3>1, HookTypesStep
  <2> QED
    BY <2>1, <2>2, HookTypesStep DEF Next, ThreadStep
<1> QED
  BY <1>1, <1>2, PTL DEF Spec

\* Whoever flushes - a recording thread, stop() in the owner, in a producer at
\* the event limit or in a signal handler - at most one thread is inside
\* flush_to_file, the holder of file_mutex_.
THEOREM HookFlushersExclude == Spec => []FlushExclusive
<1>1. PlacesInv => FlushExclusive
  BY DEF PlacesInv, MutexHeld, FlushExclusive
<1> QED
  BY <1>1, PlacesCorrect, PTL

-----------------------------------------------------------------------------
(* The event limit, for any use. *)

\* The places of a call of record_event that has passed the test of the limit
\* and not yet added to event_count_.
Admitted == RecordPC \ {"r_end"}

\* Each call that passed the test of the limit may add one event; all of them
\* but the first passed it before one of the others added its own.
LimitInv ==
  event_count + Cardinality(InRecord(Admitted))
    <= max_events + Cardinality(Producers) - 1

\* The steps of a thread keep the calls that may still count within the limit.
LEMMA LimitStep ==
  ASSUME IsFiniteSet(Producers), PlacesInv, LimitInv,
         NEW t \in Threads, ThreadStep(t)
  PROVE  LimitInv'
<1> USE DEF PlacesInv
<1>1. /\ IsFiniteSet(InRecord(Admitted)) /\ IsFiniteSet(InRecord(Admitted)')
      /\ Cardinality(InRecord(Admitted)) \in Nat
      /\ Cardinality(InRecord(Admitted)') \in Nat
      /\ Cardinality(Producers) \in Nat
      /\ Cardinality(InRecord(Admitted)') <= Cardinality(Producers)
  BY FS_Subset, FS_CardinalityType DEF InRecord
<1>2. event_count \in Nat /\ max_events \in Nat \ {0}
  BY ConfigAssumption DEF HookTypeOK
<1>3. ASSUME event_count' = event_count, pc'[t] \in Admitted => pc[t] \in Admitted
      PROVE  LimitInv'
  <2>1. InRecord(Admitted)' \subseteq InRecord(Admitted)
    BY <1>3, OthersStay DEF InRecord, Threads
  <2>2. Cardinality(InRecord(Admitted)') <= Cardinality(InRecord(Admitted))
    BY <1>1, <2>1, FS_Subset
  <2> QED
    BY <1>1, <1>2, <1>3, <2>2 DEF LimitInv
<1>4. CASE CheckLimit(t)
  <2>1. CASE event_count >= max_events
    BY <1>3, <1>4, <2>1 DEF CheckLimit, Goto, DataTypes, hookVars, Admitted, RecordPC
  <2>2. CASE event_count < max_events
    <3>1. event_count' = event_count
      BY <1>4 DEF CheckLimit, hookVars
    <3> QED
      BY <1>1, <1>2, <2>2, <3>1 DEF LimitInv
  <2> QED
    BY <1>2, <2>1, <2>2
<1>5. CASE CountEvent(t)
  <2>1. t \in Producers /\ pc[t] \in Admitted
    BY <1>5 DEF CountEvent, HookRoles, Admitted, RecordPC
  <2>2. pc'[t] \notin Admitted
    BY <1>5 DEF CountEvent, Return, DataTypes, Admitted, RecordPC
  <2>3. Cardinality(InRecord(Admitted)') = Cardinality(InRecord(Admitted)) - 1
    BY <1>1, <2>1, <2>2, OthersStay, OneLeaves DEF Threads
  <2>4. event_count' = event_count + 1
    BY <1>5 DEF CountEvent
  <2> QED
    BY <1>1, <1>2, <2>3, <2>4 DEF LimitInv
<1>6. CASE ResetCount(t)
  <2>1. event_count' = 0
    BY <1>6 DEF ResetCount
  <2> QED
    BY <1>1, <1>2, <2>1 DEF LimitInv
<1> USE <1>3 DEF DataTypes, Goto, hookVars, Admitted, RecordPC
<1> HIDE DEF LimitInv
<1>7. CASE Enter(t)
  BY <1>7 DEF Enter, BeginStart, BeginReset, AutoStartHook, EnterStart, EnterHook,
              BeginStop, BeginConsume
<1>8. CASE StartSteps(t)
  BY <1>6, <1>8 DEF StartSteps, StartExchange, ResetWritePos, ResetReadPos, ResetDropped,
              OpenFile, OpenFails, Return
<1>9. CASE HookRecordSteps(t)
  BY <1>4, <1>5, <1>9 DEF HookRecordSteps, RecheckActive, LeaveRecord, RecordSteps,
              LoadHead, LoadTail, DropEvent, WriteFirst, WriteSecond, Publish, Return
<1>10. CASE HookFlushSteps(t)
  BY <1>10 DEF HookFlushSteps, LockFileMutex, FlushCheckFile, WriteEvent, FlushCopy,
              WriteToNull, Unlock, FlushLoadWrite, FlushLoadRead, FlushStore, Return
<1>11. CASE StopSteps(t)
  BY <1>11 DEF StopSteps, StopExchange, StopCheckFile, CloseFile, CloseNull, Return
<1>12. CASE ConsumeSteps(t) /\ UNCHANGED hookVars
  BY <1>12 DEF ConsumeSteps, ConsumeLoadTail, ConsumeLoadHead, ConsumeCopy, ConsumeStore
<1>13. CASE Signal(t)
  BY <1>13 DEF Signal
<1>14. CASE HookLateSteps(t)
  BY <1>14 DEF HookLateSteps, LateWrite, LateWriteToNull, LateCopy, GiveBackEarly, EndLate,
              CopyPC, LatePC
<1> QED
  BY <1>7, <1>8, <1>9, <1>10, <1>11, <1>12, <1>13, <1>14 DEF ThreadStep, Continue

\* Whatever starts, stops, resets or interrupts the hook, and however many
\* threads record, event_count_ exceeds max_events by less than one event for
\* each thread that records.
THEOREM LimitCorrect ==
  ASSUME IsFiniteSet(Producers)
  PROVE  Spec => []LimitRespected
<1>1. Init => LimitInv
  <2> SUFFICES ASSUME Init
               PROVE  LimitInv
    OBVIOUS
  <2>1. InRecord(Admitted) = {} /\ event_count = 0
    BY DEF Init, RingInit, InRecord, Threads, Admitted, RecordPC
  <2>2. Cardinality(InRecord(Admitted)) = 0 /\ Cardinality(Producers) \in Nat
    BY <2>1, FS_EmptySet, FS_CardinalityType
  <2> QED
    BY <2>1, <2>2, ConfigAssumption DEF LimitInv
<1>2. PlacesInv /\ LimitInv /\ [Next]_vars => LimitInv'
  <2> SUFFICES ASSUME PlacesInv, LimitInv, [Next]_vars
               PROVE  LimitInv'
    OBVIOUS
  <2>1. CASE UNCHANGED vars
    BY <2>1 DEF vars, ringVars, hookVars, LimitInv, InRecord
  <2> QED
    BY <2>1, LimitStep DEF Next, ThreadStep
<1>3. PlacesInv /\ LimitInv => LimitRespected
  <2> SUFFICES ASSUME PlacesInv, LimitInv
               PROVE  LimitRespected
    OBVIOUS
  <2>1. Cardinality(InRecord(Admitted)) \in Nat /\ Cardinality(Producers) \in Nat
    BY FS_Subset, FS_CardinalityType DEF InRecord
  <2> QED
    BY <2>1, ConfigAssumption DEF LimitInv, LimitRespected, PlacesInv, HookTypeOK
<1> QED
  BY <1>1, <1>2, <1>3, PlacesCorrect, PTL DEF Spec

-----------------------------------------------------------------------------
(* The documented use of the library: one thread starts, resets and stops  *)
(* the hook, no thread records while it is being started, nobody reads the *)
(* ring, and no signal comes.  Any number of threads record.               *)

LibraryUse ==
  /\ QuietStart /\ ~AutoStart /\ Signalled = {} /\ Readers = {}
  /\ \A s, u \in Starters \cup Stoppers : s = u

\* A thread that has found active_ set and is on its way to close the file.
Stopping(t) == pc[t] = "x_file" \/ stopping[t]

\* The places of each call; start() and reset_stats() run alone.
CallPlaces ==
  \A t \in Threads :
    /\ call[t] \in {"start", "reset"} <=> pc[t] \in StartPC
    /\ pc[t] # "idle" => t \in Producers \cup Starters \cup Stoppers
    /\ pc[t] \in StartPC =>
         t \in Starters /\ \A u \in Threads \ {t} : pc[u] = "idle"
    /\ stopping[t] => pc[t] \in FlushPC \cup {"f_lock", "f_check"}

\* At most one thread is closing the file; until it does, the file is open.
FileInv ==
  /\ \A t, u \in Threads : Stopping(t) /\ Stopping(u) => t = u
  /\ \A t \in Threads :
       /\ Stopping(t) => ~active
       /\ stopping[t] => output_file # 0
       /\ pc[t] = "x_file" /\ write_to_file => output_file # 0
       /\ pc[t] \in {"f_write", "f_read", "f_copy", "f_late"} => output_file # 0
       /\ pc[t] # "crashed"
       /\ call[t] = "reset" => ~active /\ pc[t] \notin {"s_active", "s_open"}
  /\ active /\ write_to_file =>
       output_file # 0 \/ \E t \in Threads : pc[t] \in StartPC \ {"s_active"}
  /\ ~write_to_file =>
       /\ opened = 0 /\ output_file = 0
       /\ \A t \in Threads : pc[t] # "s_open"

\* The invariant of the documented use.
SessionInv == PlacesInv /\ CallPlaces /\ FileInv

\* A thread that is inside a call disturbs no start() or reset_stats().
LEMMA CallsKept ==
  ASSUME SessionInv, NEW t \in Threads, ThreadStep(t), pc[t] # "idle",
         call'[t] \in {"start", "reset"} <=> pc'[t] \in StartPC,
         pc'[t] \in StartPC => pc[t] \in StartPC,
         stopping'[t] => pc'[t] \in FlushPC \cup {"f_lock", "f_check"}
  PROVE  CallPlaces'
<1>1. \A u \in Threads \ {t} :
        pc'[u] = pc[u] /\ call'[u] = call[u] /\ stopping'[u] = stopping[u]
  BY OthersStay DEF SessionInv, PlacesInv
<1> QED
  BY <1>1 DEF SessionInv, CallPlaces, StartPC

\* The steps of a thread keep the calls in their places.
LEMMA CallsStep ==
  ASSUME LibraryUse, SessionInv, NEW t \in Threads, ThreadStep(t)
  PROVE  CallPlaces'
<1>0. /\ DOMAIN pc = Threads /\ call \in [Threads -> Calls]
      /\ stopping \in [Threads -> BOOLEAN]
  BY DEF SessionInv, PlacesInv, DataTypes, HookTypeOK
<1>i. /\ call[t] \in {"start", "reset"} <=> pc[t] \in StartPC
      /\ stopping[t] => pc[t] \in FlushPC \cup {"f_lock", "f_check"}
      /\ stopping[t] => output_file # 0
      /\ call[t] = "reset" => pc[t] # "s_active"
  BY DEF SessionInv, CallPlaces, FileInv
<1>o. \A u \in Threads \ {t} :
        pc'[u] = pc[u] /\ call'[u] = call[u] /\ stopping'[u] = stopping[u]
  BY OthersStay DEF SessionInv, PlacesInv
<1> USE DEF Goto, hookVars, StartPC, FlushPC
<1>1. CASE Enter(t)
  <2>1. CASE t \in Starters /\ (BeginStart(t) \/ BeginReset(t))
    <3>1. /\ pc[t] = "idle" /\ pc'[t] \in {"s_active", "s_count"}
          /\ call'[t] \in {"start", "reset"} /\ stopping'[t] = stopping[t]
      BY <1>0, <2>1 DEF BeginStart, BeginReset, EnterStart
    <3>2. \A p \in Producers : pc[p] = "idle"
      BY <2>1 DEF BeginStart, BeginReset, LibraryUse
    <3>3. \A u \in Threads \ {t} : pc[u] = "idle"
      BY <2>1, <3>2 DEF LibraryUse, SessionInv, CallPlaces
    <3> QED
      BY <1>i, <1>o, <2>1, <3>1, <3>3 DEF SessionInv, CallPlaces
  <2>2. CASE t \in Stoppers /\ BeginStop(t)
    <3>1. /\ pc[t] = "idle" /\ pc'[t] = "x_active"
          /\ call'[t] = "stop" /\ stopping'[t] = stopping[t]
      BY <1>0, <2>2 DEF BeginStop
    <3>2. \A u \in Threads \ {t} : pc[u] \notin StartPC
      BY <2>2 DEF LibraryUse, SessionInv, CallPlaces
    <3> QED
      BY <1>i, <1>o, <2>2, <3>1, <3>2 DEF SessionInv, CallPlaces
  <2>3. CASE /\ t \in Producers
             /\ QuietStart => NoneResets
             /\ \E k \in {"op", "graph_end"} : EnterHook(t, k)
    <3>1. /\ pc[t] = "idle" /\ pc'[t] = "h_active"
          /\ call'[t] \in {"op", "graph_end"} /\ stopping'[t] = stopping[t]
      BY <1>0, <2>3 DEF EnterHook
    <3>2. \A u \in Threads : pc[u] \notin StartPC
      BY <2>3 DEF NoneResets, LibraryUse, SessionInv, CallPlaces
    <3> QED
      BY <1>i, <1>o, <2>3, <3>1, <3>2 DEF SessionInv, CallPlaces
  <2> QED
    BY <1>1, <2>1, <2>2, <2>3 DEF Enter, AutoStartHook, LibraryUse
<1> USE <1>0, <1>i, CallsKept
<1>2. CASE StartSteps(t)
  BY <1>2 DEF StartSteps, StartExchange, ResetCount, ResetWritePos, ResetReadPos,
              ResetDropped, OpenFile, OpenFails, Return
<1>3. CASE HookRecordSteps(t)
  BY <1>3 DEF HookRecordSteps, RecheckActive, CheckLimit, CountEvent, LeaveRecord,
              RecordSteps, LoadHead, LoadTail, DropEvent, WriteFirst, WriteSecond,
              Publish, Return
<1>4. CASE HookFlushSteps(t)
  BY <1>4 DEF HookFlushSteps, LockFileMutex, FlushCheckFile, WriteEvent, FlushCopy,
              WriteToNull, Unlock, FlushLoadWrite, FlushLoadRead, FlushStore, Return
<1>5. CASE StopSteps(t)
  BY <1>5 DEF StopSteps, StopExchange, StopCheckFile, CloseFile, CloseNull, Return
<1>6. CASE ConsumeSteps(t)
  BY <1>6 DEF ConsumeSteps, ConsumeLoadTail, ConsumeLoadHead, ConsumeCopy, ConsumeStore,
              SessionInv, PlacesInv, HookRoles, LibraryUse, ConsumePC
<1>7. CASE HookLateSteps(t)
  BY <1>7 DEF HookLateSteps, LateWrite, LateWriteToNull, LateCopy, GiveBackEarly, EndLate,
              CopyPC, LatePC
<1> QED
  BY <1>1, <1>2, <1>3, <1>4, <1>5, <1>6, <1>7 DEF ThreadStep, Continue, LibraryUse

\* A step that neither opens, closes nor is about to close the file.
LEMMA FileKept ==
  ASSUME SessionInv, NEW t \in Threads, ThreadStep(t),
         UNCHANGED <<active, output_file, opened>>,
         stopping'[t] => stopping[t],
         pc'[t] \notin {"x_file", "crashed", "s_open"},
         pc'[t] \in {"f_write", "f_read", "f_copy", "f_late"} =>
           pc[t] \in {"f_write", "f_read", "f_copy", "f_late"},
         call'[t] = "reset" => call[t] = "reset" /\ pc'[t] # "s_active",
         pc[t] \in StartPC \ {"s_active"} => pc'[t] \in StartPC \ {"s_active"}
  PROVE  FileInv'
<1>1. \A u \in Threads \ {t} :
        pc'[u] = pc[u] /\ call'[u] = call[u] /\ stopping'[u] = stopping[u]
  BY OthersStay DEF SessionInv, PlacesInv
<1>2. /\ \A u, v \in Threads : Stopping(u)' /\ Stopping(v)' => u = v
      /\ \A u \in Threads : Stopping(u)' => ~active'
  BY <1>1 DEF SessionInv, FileInv, Stopping
<1>3. \A u \in Threads :
        /\ stopping'[u] => output_file' # 0
        /\ pc'[u] = "x_file" /\ write_to_file => output_file' # 0
        /\ pc'[u] \in {"f_write", "f_read", "f_copy", "f_late"} => output_file' # 0
        /\ pc'[u] # "crashed"
        /\ call'[u] = "reset" => ~active' /\ pc'[u] \notin {"s_active", "s_open"}
  BY <1>1 DEF SessionInv, FileInv
<1>4. /\ active' /\ write_to_file =>
           output_file' # 0 \/ \E u \in Threads : pc'[u] \in StartPC \ {"s_active"}
      /\ ~write_to_file =>
           /\ opened' = 0 /\ output_file' = 0
           /\ \A u \in Threads : pc'[u] # "s_open"
  BY <1>1 DEF SessionInv, FileInv
<1> QED
  BY <1>2, <1>3, <1>4 DEF FileInv

\* The steps of a thread keep the file open until the thread that stops the
\* hook closes it.
LEMMA FileStep ==
  ASSUME LibraryUse, SessionInv, NEW t \in Threads, ThreadStep(t)
  PROVE  FileInv'
<1>0. /\ DOMAIN pc = Threads /\ call \in [Threads -> Calls]
      /\ stopping \in [Threads -> BOOLEAN]
      /\ active \in BOOLEAN /\ opened \in Nat
  BY DEF SessionInv, PlacesInv, DataTypes, HookTypeOK
<1>i. /\ call[t] \in {"start", "reset"} <=> pc[t] \in StartPC
      /\ stopping[t] => pc[t] \in FlushPC \cup {"f_lock", "f_check"}
      /\ Stopping(t) => ~active
      /\ stopping[t] => output_file # 0
      /\ pc[t] \in {"f_write", "f_read", "f_copy", "f_late"} => output_file # 0
      /\ call[t] = "reset" => pc[t] \notin {"s_active", "s_open"}
  BY DEF SessionInv, CallPlaces, FileInv
<1>o. \A u \in Threads \ {t} :
        pc'[u] = pc[u] /\ call'[u] = call[u] /\ stopping'[u] = stopping[u]
  BY OthersStay DEF SessionInv, PlacesInv
<1>a. pc[t] \in StartPC =>
        \A u \in Threads \ {t} : /\ pc[u] = "idle" /\ ~stopping[u]
                                 /\ call[u] \notin {"start", "reset"}
  BY DEF SessionInv, CallPlaces, StartPC, FlushPC
<1> USE DEF Goto, hookVars, StartPC, FlushPC
<1>1. CASE StartExchange(t)
  <2>1. CASE active
    BY <1>0, <1>i, <1>1, <2>1, FileKept DEF StartExchange, Return
  <2>2. CASE ~active
    <3>1. /\ active' = TRUE /\ pc'[t] = "s_count" /\ call' = call
          /\ UNCHANGED <<output_file, opened, stopping>>
      BY <1>0, <1>1, <2>2 DEF StartExchange
    <3> QED
      BY <1>0, <1>i, <1>o, <1>a, <1>1, <3>1
         DEF StartExchange, SessionInv, FileInv, Stopping
  <2> QED
    BY <2>1, <2>2
<1>2. CASE ResetDropped(t)
  <2>1. CASE write_to_file /\ call[t] = "start"
    <3>1. /\ pc'[t] = "s_open"
          /\ UNCHANGED <<active, output_file, opened, call, stopping>>
      BY <1>0, <1>2, <2>1 DEF ResetDropped
    <3> QED
      BY <1>0, <1>i, <1>o, <1>a, <1>2, <2>1, <3>1
         DEF ResetDropped, SessionInv, FileInv, Stopping
  <2>2. CASE ~(write_to_file /\ call[t] = "start")
    <3>1. /\ pc'[t] = "idle" /\ call'[t] = "none"
          /\ UNCHANGED <<active, output_file, opened, stopping>>
      BY <1>0, <1>i, <1>2, <2>2 DEF ResetDropped, Return
    <3>2. active /\ write_to_file => call[t] = "start"
      BY <1>i, <1>2 DEF ResetDropped, SessionInv, FileInv
    <3> QED
      BY <1>0, <1>i, <1>o, <1>a, <1>2, <2>2, <3>1, <3>2
         DEF ResetDropped, SessionInv, FileInv, Stopping
  <2> QED
    BY <2>1, <2>2
<1>3. CASE OpenFile(t)
  <2>1. /\ pc'[t] = "idle" /\ call'[t] = "none" /\ output_file' # 0
        /\ write_to_file /\ UNCHANGED <<active, stopping>>
    BY <1>0, <1>i, <1>3 DEF OpenFile, Return, SessionInv, FileInv
  <2> QED
    BY <1>0, <1>i, <1>o, <1>a, <1>3, <2>1 DEF OpenFile, SessionInv, FileInv, Stopping
<1>4. CASE OpenFails(t)
  <2>1. /\ pc'[t] = "idle" /\ call'[t] = "none" /\ ~active'
        /\ write_to_file /\ UNCHANGED stopping
    BY <1>0, <1>i, <1>4 DEF OpenFails, Return, SessionInv, FileInv
  <2> QED
    BY <1>0, <1>i, <1>o, <1>a, <1>4, <2>1 DEF OpenFails, SessionInv, FileInv, Stopping
<1>5. CASE FlushCheckFile(t)
  <2>1. /\ pc'[t] = "f_done" \/ (pc'[t] = "f_write" /\ output_file # 0)
        /\ UNCHANGED <<active, output_file, opened, call, stopping>>
    BY <1>0, <1>5 DEF FlushCheckFile
  <2>2. pc[t] \notin StartPC
    BY <1>5 DEF FlushCheckFile
  <2> QED
    BY <1>0, <1>i, <1>o, <2>1, <2>2 DEF SessionInv, FileInv, Stopping
<1>6. CASE StopExchange(t)
  <2>1. CASE active
    <3>1. /\ pc'[t] = "x_file" /\ ~active'
          /\ UNCHANGED <<output_file, opened, call, stopping>>
      BY <1>0, <1>6, <2>1 DEF StopExchange
    <3>2. \A u \in Threads : ~Stopping(u)
      BY <2>1 DEF SessionInv, FileInv
    <3>3. \A u \in Threads : pc[u] \notin StartPC
      BY <1>6 DEF StopExchange, SessionInv, CallPlaces
    <3> QED
      BY <1>0, <1>i, <1>o, <2>1, <3>1, <3>2, <3>3 DEF SessionInv, FileInv, Stopping
  <2>2. CASE ~active
    BY <1>0, <1>i, <1>6, <2>2, FileKept DEF StopExchange, Return
  <2> QED
    BY <2>1, <2>2
<1>7. CASE StopCheckFile(t)
  <2>1. CASE output_file = 0
    BY <1>0, <1>i, <1>7, <2>1, FileKept DEF StopCheckFile, Return
  <2>2. CASE output_file # 0
    <3>1. /\ pc[t] = "x_file" /\ pc'[t] = "f_lock"
          /\ UNCHANGED <<active, output_file, opened, call>>
      BY <1>0, <1>7, <2>2 DEF StopCheckFile
    <3>2. \A u \in Threads \ {t} : ~Stopping(u)
      BY <3>1 DEF SessionInv, FileInv, Stopping
    <3> QED
      BY <1>0, <1>i, <1>o, <2>2, <3>1, <3>2 DEF SessionInv, FileInv, Stopping
  <2> QED
    BY <2>1, <2>2
<1>8. CASE CloseFile(t)
  <2>1. /\ pc[t] = "f_done" /\ stopping[t] /\ ~stopping'[t]
        /\ pc'[t] \in {"idle", "f_lock"} /\ call'[t] = "none"
        /\ output_file' = 0 /\ UNCHANGED <<active, opened>>
    BY <1>0, <1>8 DEF CloseFile, Return
  <2>2. \A u \in Threads \ {t} : /\ ~Stopping(u)
                                   /\ pc[u] \notin {"f_write", "f_read", "f_copy", "f_late"}
    BY <2>1 DEF SessionInv, PlacesInv, MutexHeld, FileInv, Stopping
  <2> QED
    BY <1>0, <1>i, <1>o, <2>1, <2>2 DEF SessionInv, FileInv, Stopping
<1>9. CASE BeginReset(t)
  <2>1. /\ pc'[t] = "s_count" /\ ~active
        /\ UNCHANGED <<active, output_file, opened, stopping>>
    BY <1>0, <1>9 DEF BeginReset
  <2>2. pc[t] = "idle"
    BY <1>9 DEF BeginReset
  <2> QED
    BY <1>0, <1>i, <1>o, <2>1, <2>2 DEF SessionInv, FileInv, Stopping
<1> USE <1>0, <1>i, FileKept
<1>11. CASE Enter(t)
  BY <1>9, <1>11
     DEF Enter, BeginStart, AutoStartHook, EnterStart, EnterHook, BeginStop, LibraryUse
<1>12. CASE ResetCount(t) \/ ResetWritePos(t) \/ ResetReadPos(t)
  BY <1>12 DEF ResetCount, ResetWritePos, ResetReadPos
<1>13. CASE HookRecordSteps(t)
  BY <1>13 DEF HookRecordSteps, RecheckActive, CheckLimit, CountEvent, LeaveRecord,
              RecordSteps, LoadHead, LoadTail, DropEvent, WriteFirst, WriteSecond,
              Publish, Return
<1>14. CASE \/ LockFileMutex(t) \/ WriteEvent(t) \/ WriteToNull(t) \/ Unlock(t)
            \/ (FlushLoadWrite(t) \/ FlushLoadRead(t) \/ FlushStore(t)) /\ UNCHANGED hookVars
  BY <1>14 DEF LockFileMutex, FlushCheckFile, WriteEvent, FlushCopy,
              WriteToNull, Unlock, FlushLoadWrite, FlushLoadRead, FlushStore, Return
<1>15. CASE CloseNull(t)
  BY <1>15 DEF CloseNull
<1>16. CASE ConsumeSteps(t)
  BY <1>16 DEF ConsumeSteps, ConsumeLoadTail, ConsumeLoadHead, ConsumeCopy, ConsumeStore,
               SessionInv, PlacesInv, HookRoles, LibraryUse, ConsumePC
<1>17. CASE HookLateSteps(t)
  BY <1>17 DEF HookLateSteps, LateWrite, LateWriteToNull, LateCopy, GiveBackEarly, EndLate,
              CopyPC, LatePC
<1> QED
  BY <1>1, <1>2, <1>3, <1>4, <1>5, <1>6, <1>7, <1>8, <1>11, <1>12, <1>13, <1>14,
     <1>15, <1>16, <1>17
     DEF ThreadStep, Continue, StartSteps, HookFlushSteps, StopSteps, LibraryUse

\* In the documented use the places of the calls and the state of the file fit
\* together in every reachable state.
LEMMA SessionCorrect ==
  ASSUME LibraryUse
  PROVE  Spec => []SessionInv
<1>1. Init => CallPlaces /\ FileInv
  <2> SUFFICES ASSUME Init
               PROVE  CallPlaces /\ FileInv
    OBVIOUS
  <2>1. /\ \A t \in Threads : pc[t] = "idle" /\ call[t] = "none" /\ stopping[t] = FALSE
        /\ active = FALSE /\ opened = 0 /\ output_file = 0
    BY DEF Init, RingInit
  <2> QED
    BY <2>1 DEF CallPlaces, FileInv, Stopping, StartPC
<1>2. PlacesInv /\ PlacesInv' /\ CallPlaces /\ FileInv /\ [Next]_vars
        => (CallPlaces /\ FileInv)'
  <2> SUFFICES ASSUME PlacesInv, CallPlaces, FileInv, [Next]_vars
               PROVE  CallPlaces' /\ FileInv'
    OBVIOUS
  <2>1. CASE UNCHANGED vars
    <3>1. UNCHANGED <<pc, call, stopping, active, output_file, opened>>
      BY <2>1 DEF vars, ringVars, hookVars
    <3> QED
      BY <3>1 DEF CallPlaces, FileInv, Stopping
  <2> QED
    BY <2>1, CallsStep, FileStep DEF SessionInv, Next, ThreadStep
<1> QED
  BY <1>1, <1>2, PlacesCorrect, PTL DEF Spec, SessionInv

\* No call ever writes to or closes a null stream, and no thread dies of an
\* exception: stop() tests output_file_ before it takes file_mutex_, but only
\* one thread can have found active_ set, and nothing else closes the file.
THEOREM NothingCrashes ==
  ASSUME LibraryUse
  PROVE  Spec => []NoCrash
<1>1. SessionInv => NoCrash
  BY DEF LibraryUse, SessionInv, PlacesInv, HookRoles, FileInv, NoCrash, ConsumePC
<1> QED
  BY <1>1, SessionCorrect, PTL

\* While the hook is active and nobody is starting it, the trace file is open.
THEOREM ActiveWithFile ==
  ASSUME LibraryUse
  PROVE  Spec => []ActiveHasFile
<1>1. SessionInv => ActiveHasFile
  BY DEF SessionInv, CallPlaces, FileInv, ActiveHasFile, NoneResets
<1> QED
  BY <1>1, SessionCorrect, PTL

\* Each published event is counted or about to be.
CountInv ==
  /\ IsFiniteSet(InRecord({"r_count"}))
  /\ IF \E t \in Threads : pc[t] = "s_write"
     THEN event_count = 0
     ELSE event_count + Cardinality(InRecord({"r_count"})) = Len(published)

\* The steps of a thread keep the count.
LEMMA CountStep ==
  ASSUME LibraryUse, SessionInv, CountInv, NEW t \in Threads, ThreadStep(t)
  PROVE  CountInv'
<1>0. /\ DOMAIN pc = Threads /\ published \in Seq(Nat) /\ event \in [Threads -> Nat]
      /\ event_count \in Nat
  BY DEF SessionInv, PlacesInv, DataTypes, HookTypeOK
<1>o. \A u \in Threads \ {t} : pc'[u] = pc[u]
  BY OthersStay DEF SessionInv, PlacesInv
<1>p. /\ Producers \subseteq Threads
      /\ pc[t] \in RecordPC => t \in Producers
  BY DEF Threads, SessionInv, PlacesInv, HookRoles
<1>c. Cardinality(InRecord({"r_count"})) \in Nat
  BY FS_CardinalityType DEF CountInv
<1>n. \A u \in Threads : pc[u] = "s_write" /\ pc[t] \notin {"idle", "s_write"} => FALSE
  BY DEF SessionInv, CallPlaces, StartPC
<1>1. ASSUME UNCHANGED <<event_count, published>>,
             pc'[t] # "s_write", pc[t] # "s_write",
             pc'[t] = "r_count" <=> pc[t] = "r_count"
      PROVE  CountInv'
  <2>1. InRecord({"r_count"})' = InRecord({"r_count"})
    BY <1>1, <1>o, <1>p, NoneCrosses
  <2> QED
    BY <1>1, <1>o, <2>1 DEF CountInv
<1>2. CASE ResetCount(t)
  <2>1. event_count' = 0 /\ pc[t] = "s_count" /\ pc'[t] = "s_write"
    BY <1>0, <1>2 DEF ResetCount, Goto
  <2>2. InRecord({"r_count"})' = InRecord({"r_count"})
    BY <1>o, <1>p, <2>1, NoneCrosses
  <2> QED
    BY <2>1, <2>2 DEF CountInv
<1>3. CASE ResetWritePos(t)
  <2>1. /\ pc[t] = "s_write" /\ pc'[t] = "s_read" /\ published' = <<>>
        /\ event_count' = event_count
    BY <1>0, <1>3 DEF ResetWritePos, Goto, hookVars
  <2>2. \A u \in Threads \ {t} : pc[u] = "idle"
    BY <2>1 DEF SessionInv, CallPlaces, StartPC
  <2>3. InRecord({"r_count"})' = {}
    BY <1>o, <1>p, <2>1, <2>2 DEF InRecord
  <2>4. event_count = 0
    BY <2>1 DEF CountInv
  <2>5. \A u \in Threads : pc'[u] # "s_write"
    BY <1>o, <2>1, <2>2
  <2>6. /\ IsFiniteSet(InRecord({"r_count"})')
        /\ Cardinality(InRecord({"r_count"})') = 0
    BY <2>3, FS_EmptySet
  <2>7. Len(published') = 0 /\ event_count' = 0
    BY <2>1, <2>4
  <2> QED
    BY <2>5, <2>6, <2>7 DEF CountInv
<1>4. CASE Publish(t) /\ UNCHANGED hookVars
  <2>1. /\ pc[t] = "r_publish" /\ pc'[t] = "r_count"
        /\ Len(published') = Len(published) + 1 /\ event_count' = event_count
    BY <1>0, <1>4 DEF Publish, Goto, hookVars
  <2>2. t \in Producers
    BY <1>p, <2>1 DEF RecordPC
  <2>3. /\ IsFiniteSet(InRecord({"r_count"})')
        /\ Cardinality(InRecord({"r_count"})') = Cardinality(InRecord({"r_count"})) + 1
    BY <1>o, <1>p, <2>1, <2>2, OneEnters DEF CountInv
  <2>4. \A u \in Threads : pc[u] # "s_write" /\ pc'[u] # "s_write"
    BY <1>n, <1>o, <2>1
  <2>5. event_count + Cardinality(InRecord({"r_count"})) = Len(published)
    BY <2>4 DEF CountInv
  <2>6. event_count' + Cardinality(InRecord({"r_count"})') = Len(published')
    BY <1>0, <1>c, <2>1, <2>3, <2>5
  <2> QED
    BY <2>3, <2>4, <2>6 DEF CountInv
<1>5. CASE CountEvent(t)
  <2>1. /\ pc[t] = "r_count" /\ pc'[t] \in {"f_lock", "idle"}
        /\ event_count' = event_count + 1 /\ published' = published
    BY <1>0, <1>5 DEF CountEvent, Return, ringData, history
  <2>2. t \in Producers
    BY <1>p, <2>1 DEF RecordPC
  <2>3. /\ IsFiniteSet(InRecord({"r_count"})')
        /\ Cardinality(InRecord({"r_count"})') = Cardinality(InRecord({"r_count"})) - 1
    BY <1>o, <1>p, <2>1, <2>2, OneLeaves DEF CountInv
  <2>4. \A u \in Threads : pc[u] # "s_write" /\ pc'[u] # "s_write"
    BY <1>n, <1>o, <2>1
  <2> QED
    BY <1>0, <1>c, <2>1, <2>3, <2>4 DEF CountInv
<1> HIDE DEF CountInv
<1> USE <1>0, <1>1 DEF Goto, hookVars, ringData, history
<1>6. CASE Enter(t)
  BY <1>6 DEF Enter, BeginStart, BeginReset, AutoStartHook, EnterStart, EnterHook,
              BeginStop, BeginConsume
<1>7. CASE StartSteps(t)
  BY <1>2, <1>3, <1>7
     DEF StartSteps, StartExchange, ResetReadPos, ResetDropped, OpenFile, OpenFails, Return
<1>8. CASE HookRecordSteps(t)
  BY <1>4, <1>5, <1>8
     DEF HookRecordSteps, RecheckActive, CheckLimit, LeaveRecord, RecordSteps, LoadHead,
         LoadTail, DropEvent, WriteFirst, WriteSecond, Return
<1>9. CASE HookFlushSteps(t)
  BY <1>9 DEF HookFlushSteps, LockFileMutex, FlushCheckFile, WriteEvent, FlushCopy,
              WriteToNull, Unlock, FlushLoadWrite, FlushLoadRead, FlushStore, Return
<1>10. CASE StopSteps(t)
  BY <1>10 DEF StopSteps, StopExchange, StopCheckFile, CloseFile, CloseNull, Return
<1>11. CASE ConsumeSteps(t) /\ UNCHANGED hookVars
  BY <1>11 DEF ConsumeSteps, ConsumeLoadTail, ConsumeLoadHead, ConsumeCopy, ConsumeStore
<1>12. CASE HookLateSteps(t)
  BY <1>12 DEF HookLateSteps, LateWrite, LateWriteToNull, LateCopy, GiveBackEarly, EndLate,
              CopyPC, LatePC
<1> QED
  BY <1>6, <1>7, <1>8, <1>9, <1>10, <1>11, <1>12 DEF ThreadStep, Continue, LibraryUse

\* Between calls, event_count_ - what stop() reports - is the number of events
\* that were published in the session, however many threads recorded them and
\* however often the hook was restarted.
THEOREM CountCorrect ==
  ASSUME LibraryUse
  PROVE  Spec => []CountExact
<1>1. Init => CountInv
  <2> SUFFICES ASSUME Init
               PROVE  CountInv
    OBVIOUS
  <2>1. /\ InRecord({"r_count"}) = {} /\ event_count = 0 /\ Len(published) = 0
        /\ \A t \in Threads : pc[t] # "s_write"
    BY DEF Init, RingInit, InRecord, Threads
  <2>2. /\ IsFiniteSet(InRecord({"r_count"}))
        /\ Cardinality(InRecord({"r_count"})) = 0
    BY <2>1, FS_EmptySet
  <2> QED
    BY <2>1, <2>2 DEF CountInv
<1>2. SessionInv /\ CountInv /\ [Next]_vars => CountInv'
  <2> SUFFICES ASSUME SessionInv, CountInv, [Next]_vars
               PROVE  CountInv'
    OBVIOUS
  <2>1. CASE UNCHANGED vars
    BY <2>1 DEF vars, ringVars, hookVars, CountInv, InRecord
  <2> QED
    BY <2>1, CountStep DEF Next, ThreadStep
<1>3. SessionInv /\ CountInv => CountExact
  <2> SUFFICES ASSUME SessionInv, CountInv,
                      \A t \in Threads : call[t] \in {"none", "stop"} /\ pc[t] \notin RecordPC
               PROVE  event_count = Len(published)
    BY DEF CountExact
  <2>1. \A t \in Threads : pc[t] # "s_write"
    BY DEF SessionInv, CallPlaces, StartPC
  <2>2. InRecord({"r_count"}) = {}
    BY DEF InRecord, RecordPC, Threads
  <2>3. Cardinality(InRecord({"r_count"})) = 0 /\ event_count \in Nat
    BY <2>2, FS_EmptySet DEF SessionInv, PlacesInv, HookTypeOK
  <2> QED
    BY <2>1, <2>2, <2>3 DEF CountInv
<1> QED
  BY <1>1, <1>2, <1>3, SessionCorrect, PTL DEF Spec

-----------------------------------------------------------------------------
(* The documented use with one thread that records: the contents of the    *)
(* trace file.  From here on a store of read_pos_ is seen after the reads  *)
(* that precede it (StoreAfterReads, assumed by every theorem below): the  *)
(* code's relaxed stores do not promise it, x86-64 does.                   *)

\* The places of start() and reset_stats() after the exchange of active_.
ResetPC == StartPC \ {"s_active"}

\* There is a session, or something left of one: its events are published or
\* on their way.
Loaded ==
  \/ active
  \/ published # <<>>
  \/ \E p \in Producers : pc[p] \in RecordPC \cup {"h_limit"}

\* The ring is in order except between the two resets of its positions, and
\* what was read from it is what the file holds.
TraceInv ==
  /\ IF \E t \in Threads : pc[t] = "s_read"
     THEN write_pos = 0 /\ published = <<>>
     ELSE RingInv
  /\ \A t \in Threads :
       pc[t] \in {"s_dropped", "s_open"} => published = <<>> /\ copied = <<>>
  /\ Loaded /\ (\A t \in Threads : pc[t] \notin ResetPC) => trace = copied
  /\ ~write_to_file => trace = <<>> /\ copied = <<>>

\* A thread that makes a step is or will be inside a call.
LEMMA StepsInCalls ==
  ASSUME SessionInv, NEW t \in Threads, ThreadStep(t)
  PROVE  pc[t] # "idle" \/ pc'[t] # "idle"
<1>0. DOMAIN pc = Threads
  BY DEF SessionInv, PlacesInv, DataTypes
<1> USE <1>0 DEF Goto
<1>1. CASE Enter(t)
  BY <1>1 DEF Enter, BeginStart, BeginReset, AutoStartHook, EnterStart, EnterHook,
              BeginStop, BeginConsume
<1>2. CASE StartSteps(t)
  BY <1>2 DEF StartSteps, StartExchange, ResetCount, ResetWritePos, ResetReadPos,
              ResetDropped, OpenFile, OpenFails
<1>3. CASE HookRecordSteps(t)
  BY <1>3 DEF HookRecordSteps, RecheckActive, CheckLimit, CountEvent, LeaveRecord,
              RecordSteps, LoadHead, LoadTail, DropEvent, WriteFirst, WriteSecond, Publish
<1>4. CASE HookFlushSteps(t)
  BY <1>4 DEF HookFlushSteps, LockFileMutex, FlushCheckFile, WriteEvent, FlushCopy,
              WriteToNull, Unlock, FlushLoadWrite, FlushLoadRead, FlushStore
<1>5. CASE StopSteps(t)
  BY <1>5 DEF StopSteps, StopExchange, StopCheckFile, CloseFile, CloseNull
<1>6. CASE ConsumeSteps(t) /\ UNCHANGED hookVars
  BY <1>6 DEF ConsumeSteps, ConsumeLoadTail, ConsumeLoadHead, ConsumeCopy, ConsumeStore
<1>7. CASE Signal(t)
  BY <1>7 DEF Signal
<1>8. CASE HookLateSteps(t)
  BY <1>8 DEF HookLateSteps, LateWrite, LateWriteToNull, LateCopy, GiveBackEarly, EndLate,
              CopyPC, LatePC
<1> QED
  BY <1>1, <1>2, <1>3, <1>4, <1>5, <1>6, <1>7, <1>8 DEF ThreadStep, Continue

\* While a thread is inside start() or reset_stats(), no other one moves.
LEMMA StartAlone ==
  ASSUME LibraryUse, SessionInv, NEW t \in Threads, ThreadStep(t),
         NEW u \in Threads, pc[u] \in StartPC
  PROVE  u = t
<1> SUFFICES ASSUME u # t
             PROVE  FALSE
  OBVIOUS
<1>1. pc'[u] = pc[u]
  BY OthersStay DEF SessionInv, PlacesInv
<1>2. pc[t] = "idle" /\ pc'[t] = "idle"
  BY <1>1, CallsStep DEF SessionInv, CallPlaces
<1> QED
  BY <1>2, StepsInCalls

\* A step that leaves the ring alone and neither enters nor leaves its inner
\* places keeps the ring in order.
LEMMA RingKept ==
  ASSUME DataTypes, DataTypes', RingInv, Roles', FlushExclusive', NEW t \in Threads,
         \A u \in Threads \ {t} : pc'[u] = pc[u] /\ event'[u] = event[u],
         pc[t] \notin CopyPC,
         pc'[t] \notin {"r_tail", "r_first", "r_second", "r_publish", "c_head", "f_read",
                        "c_copy", "f_copy", "threw"},
         UNCHANGED <<event_buffer, write_pos, read_pos, head, tail, published, copied>>
  PROVE  RingInv'
<1> USE DEF RingInv, CopyPC
<1>1. OwnPosition' /\ PendingInSlots' /\ (ReadInOrder => ReadInOrder')
  BY DEF OwnPosition, PendingInSlots, ReadInOrder
<1>2. ProducerKnows'
  <2> SUFFICES ASSUME NEW u \in Producers,
                      pc'[u] \in {"r_tail", "r_first", "r_second", "r_publish"}
               PROVE  u # t /\ u \in Threads
    BY DEF ProducerKnows
  <2> QED
    BY DEF Threads
<1>3. ConsumerKnows'
  BY DEF ConsumerKnows
<1>4. CopiedSoFar => CopiedSoFar'
  BY DEF CopiedSoFar
<1>5. ReaderBehindWriter'
  BY DEF ReaderBehindWriter
<1> QED
  BY <1>1, <1>2, <1>3, <1>4, <1>5

\* Outside start() and reset_stats() every step keeps the ring in order.
LEMMA HookRingStep ==
  ASSUME LibraryUse, SingleProducer, StoreAfterReads, SessionInv, PlacesInv', RingInv,
         NEW t \in Threads, ThreadStep(t), pc[t] \notin StartPC
  PROVE  RingInv'
<1>0. /\ DataTypes /\ DataTypes' /\ Roles' /\ FlushExclusive' /\ SingleConsumer
      /\ \A u \in Threads \ {t} : pc'[u] = pc[u]
  <2>1. Roles' /\ FlushExclusive'
    BY DEF PlacesInv, HookRoles, MutexHeld, Roles, FlushExclusive, RecordPC, ConsumePC,
           FlushPC
  <2> QED
    BY <2>1, OthersStay DEF SessionInv, PlacesInv, LibraryUse, SingleConsumer
<1>1. CASE RecordSteps(t)
  <2>1. t \in Producers
    BY <1>1 DEF SessionInv, PlacesInv, HookRoles, RecordPC, RecordSteps, LoadHead, LoadTail,
                DropEvent, WriteFirst, WriteSecond, Publish, Goto
  <2> QED
    BY <1>0, <1>1, <2>1, ProducerStep DEF RecordCall
<1>2. CASE FlushSteps(t)
  <2>1. t \in Flushers
    BY <1>2 DEF SessionInv, PlacesInv, HookRoles, ConsumePC, FlushSteps, FlushLoadWrite,
                FlushLoadRead, FlushCopy, FlushStore, Goto
  <2> QED
    BY <1>0, <1>2, <2>1, FlusherStep
<1>3. ASSUME pc[t] \notin CopyPC,
             pc'[t] \notin {"r_tail", "r_first", "r_second", "r_publish", "c_head", "f_read",
                            "c_copy", "f_copy", "threw"},
             \A u \in Threads \ {t} : event'[u] = event[u],
             UNCHANGED <<event_buffer, positions, head, tail, history>>
      PROVE  RingInv'
  BY <1>0, <1>3, RingKept DEF positions, history
<1> DOMAIN pc = Threads /\ event \in [Threads -> Nat]
  BY <1>0 DEF DataTypes
<1> USE DEF Goto, hookVars, ringData, locals, CopyPC
<1>4. CASE Enter(t)
  <2>1. /\ pc[t] = "idle" /\ pc'[t] \in {"s_active", "s_count", "h_active", "x_active"}
        /\ UNCHANGED <<event_buffer, positions, head, tail, history>>
    BY <1>4 DEF Enter, BeginStart, BeginReset, AutoStartHook, EnterStart, EnterHook,
                BeginStop, LibraryUse
  <2>2. \A u \in Threads \ {t} : event'[u] = event[u]
    BY <1>4 DEF Enter, BeginStart, BeginReset, AutoStartHook, EnterStart, EnterHook,
                NewEvent, BeginStop, LibraryUse
  <2> QED
    BY <1>3, <2>1, <2>2
<1>5. CASE RecheckActive(t) \/ CheckLimit(t) \/ CountEvent(t) \/ LeaveRecord(t)
  <2>1. UNCHANGED <<event_buffer, positions, head, tail, event, history>>
    BY <1>5 DEF RecheckActive, CheckLimit, CountEvent, LeaveRecord
  <2>2. /\ pc[t] \in {"h_active", "h_limit", "r_count", "r_end"}
        /\ pc'[t] \in {"h_limit", "x_active", "r_head", "f_lock", "idle"}
    BY <1>5 DEF RecheckActive, CheckLimit, CountEvent, LeaveRecord, Return
  <2> QED
    BY <1>3, <2>1, <2>2
<1>6. CASE LockFileMutex(t) \/ FlushCheckFile(t) \/ Unlock(t)
  <2>1. UNCHANGED <<event_buffer, positions, head, tail, event, history>>
    BY <1>6 DEF LockFileMutex, FlushCheckFile, Unlock
  <2>2. /\ pc[t] \in {"f_lock", "f_check", "f_done"}
        /\ pc'[t] \in {"f_check", "f_done", "f_write", "f_lock", "idle"}
    BY <1>6 DEF LockFileMutex, FlushCheckFile, Unlock, Return
  <2> QED
    BY <1>3, <2>1, <2>2
<1>7. CASE StopSteps(t)
  <2>1. UNCHANGED <<event_buffer, positions, head, tail, event, history>>
    BY <1>7 DEF StopSteps, StopExchange, StopCheckFile, CloseFile, CloseNull
  <2>2. /\ pc[t] \in {"x_active", "x_file", "f_done"}
        /\ pc'[t] \in {"x_file", "f_lock", "idle", "crashed"}
    BY <1>7 DEF StopSteps, StopExchange, StopCheckFile, CloseFile, CloseNull, Return
  <2> QED
    BY <1>3, <2>1, <2>2
<1>8. CASE WriteToNull(t)
  BY <1>8 DEF WriteToNull, SessionInv, FileInv
<1>9. CASE ConsumeSteps(t)
  BY <1>9 DEF ConsumeSteps, ConsumeLoadTail, ConsumeLoadHead, ConsumeCopy, ConsumeStore,
              SessionInv, PlacesInv, HookRoles, LibraryUse, ConsumePC
<1>10. CASE StartSteps(t)
  BY <1>10 DEF StartSteps, StartExchange, ResetCount, ResetWritePos, ResetReadPos,
               ResetDropped, OpenFile, OpenFails, StartPC
<1>11. CASE HookRecordSteps(t)
  BY <1>1, <1>5, <1>11 DEF HookRecordSteps
<1>12. CASE HookFlushSteps(t)
  BY <1>2, <1>6, <1>8, <1>12 DEF HookFlushSteps, WriteEvent, FlushSteps
<1> QED
  BY <1>4, <1>7, <1>9, <1>10, <1>11, <1>12 DEF ThreadStep, Continue, HookLateSteps, LibraryUse

\* The steps inside start() and reset_stats() empty the ring and, in the end,
\* the file.
LEMMA ResetTraceStep ==
  ASSUME LibraryUse, SessionInv, SessionInv', TraceInv, NEW t \in Threads, StartSteps(t)
  PROVE  TraceInv'
<1>0. /\ DOMAIN pc = Threads /\ DataTypes /\ DataTypes'
      /\ call[t] \in {"start", "reset"}
      /\ \A u \in Threads \ {t} : pc[u] = "idle" /\ pc'[u] = "idle"
  <2>1. pc[t] \in StartPC
    BY DEF StartSteps, StartExchange, ResetCount, ResetWritePos, ResetReadPos, ResetDropped,
           OpenFile, OpenFails, StartPC, Goto
  <2> QED
    BY <2>1, OthersStay, ZenonT(30)
       DEF SessionInv, CallPlaces, PlacesInv, DataTypes, ThreadStep, Continue
<1>f. /\ call[t] = "reset" => ~active /\ pc[t] # "s_open"
      /\ ~write_to_file => pc[t] # "s_open"
  BY DEF SessionInv, FileInv
<1>p. Producers \subseteq Threads
  BY DEF Threads
<1>r. ASSUME pc[t] \in StartPC, pc'[t] \in StartPC \cup {"idle"}, RingInv,
             UNCHANGED <<event_buffer, positions, head, tail, event, history>>
      PROVE  RingInv'
  <2>1. Roles' /\ FlushExclusive'
    BY DEF SessionInv, PlacesInv, HookRoles, MutexHeld, Roles, FlushExclusive, RecordPC,
           ConsumePC, FlushPC
  <2> QED
    BY <1>0, <1>r, <2>1, RingKept DEF StartPC, CopyPC, positions, history
<1> USE DEF Goto, hookVars, ringData, locals, StartPC, ResetPC
<1>1. CASE StartExchange(t)
  <2>1. /\ pc[t] = "s_active" /\ pc'[t] \in {"s_count", "idle"}
        /\ pc'[t] = "idle" => active
        /\ UNCHANGED <<ringData, trace>>
    BY <1>0, <1>1 DEF StartExchange, Return
  <2>2. RingInv /\ RingInv'
    BY <1>0, <1>r, <2>1 DEF TraceInv
  <2>3. pc'[t] = "idle" => trace = copied
    BY <1>0, <2>1 DEF TraceInv, Loaded
  <2> QED
    BY <1>0, <2>1, <2>2, <2>3 DEF TraceInv, history
<1>2. CASE ResetCount(t)
  <2>1. /\ pc[t] = "s_count" /\ pc'[t] = "s_write"
        /\ UNCHANGED <<ringData, trace>>
    BY <1>0, <1>2 DEF ResetCount
  <2>2. RingInv'
    BY <1>0, <1>r, <2>1 DEF TraceInv
  <2> QED
    BY <1>0, <2>1, <2>2 DEF TraceInv, history
<1>3. CASE ResetWritePos(t)
  <2>1. /\ pc'[t] = "s_read" /\ write_pos' = 0 /\ published' = <<>>
        /\ UNCHANGED <<trace, copied>>
    BY <1>0, <1>3 DEF ResetWritePos
  <2> QED
    BY <1>0, <2>1 DEF TraceInv
<1>4. CASE ResetReadPos(t)
  <2>1. /\ pc[t] = "s_read" /\ pc'[t] = "s_dropped" /\ read_pos' = 0 /\ copied' = <<>>
        /\ UNCHANGED <<event_buffer, write_pos, head, tail, event, published, trace>>
    BY <1>0, <1>4 DEF ResetReadPos
  <2>2. write_pos' = 0 /\ published' = <<>>
    BY <2>1 DEF TraceInv
  <2>3. \A u \in Threads : pc'[u] \in {"idle", "s_dropped"}
    BY <1>0, <2>1
  <2>4. RingInv'
    BY <1>p, <2>1, <2>2, <2>3, SizeAssumption
       DEF RingInv, Roles, FlushExclusive, OwnPosition, PendingInSlots, ProducerKnows,
           ConsumerKnows, CopiedSoFar, ReadInOrder, ReaderBehindWriter, RecordPC, ConsumePC,
           FlushPC, CopyPC
  <2> QED
    BY <1>0, <2>1, <2>2, <2>3, <2>4 DEF TraceInv
<1>d. pc[t] \in {"s_dropped", "s_open"} => RingInv /\ published = <<>> /\ copied = <<>>
  BY <1>0 DEF TraceInv
<1>e. ASSUME pc'[t] = "idle", ~active', published' = <<>>
      PROVE  ~Loaded'
  BY <1>0, <1>e, <1>p DEF Loaded, RecordPC
<1>5. CASE ResetDropped(t)
  <2>1. /\ pc[t] = "s_dropped" /\ pc'[t] \in {"s_open", "idle"}
        /\ pc'[t] = "idle" => call[t] = "reset" \/ ~write_to_file
        /\ UNCHANGED <<event_buffer, positions, head, tail, event, history, active, trace>>
    BY <1>0, <1>5 DEF ResetDropped, Return
  <2>2. RingInv'
    BY <1>r, <1>d, <2>1
  <2>3. published' = <<>> /\ copied' = <<>>
    BY <1>d, <2>1 DEF history
  <2>4. pc'[t] = "idle" /\ Loaded' => trace' = copied'
    BY <1>f, <1>e, <2>1, <2>3 DEF TraceInv
  <2> QED
    BY <1>0, <2>1, <2>2, <2>3, <2>4 DEF TraceInv
<1>6. CASE OpenFile(t)
  <2>1. /\ pc[t] = "s_open" /\ pc'[t] = "idle" /\ trace' = <<>>
        /\ UNCHANGED ringData
    BY <1>0, <1>6 DEF OpenFile, Return
  <2>2. RingInv'
    BY <1>r, <1>d, <2>1
  <2>3. copied' = <<>>
    BY <1>d, <2>1 DEF history
  <2> QED
    BY <1>0, <2>1, <2>2, <2>3 DEF TraceInv
<1>7. CASE OpenFails(t)
  <2>1. /\ pc[t] = "s_open" /\ pc'[t] = "idle" /\ ~active'
        /\ UNCHANGED <<ringData, trace>>
    BY <1>0, <1>7 DEF OpenFails, Return
  <2>2. RingInv'
    BY <1>r, <1>d, <2>1
  <2>3. published' = <<>> /\ copied' = <<>>
    BY <1>d, <2>1 DEF history
  <2>4. ~Loaded'
    BY <1>e, <2>1, <2>3
  <2> QED
    BY <1>0, <1>f, <2>1, <2>2, <2>3, <2>4 DEF TraceInv
<1> QED
  BY <1>1, <1>2, <1>3, <1>4, <1>5, <1>6, <1>7 DEF StartSteps

\* The other steps are made outside start() and reset_stats().  They leave the
\* file and what was read from the ring alone or add the same event to both,
\* and they begin no session.
LEMMA OtherSteps ==
  ASSUME LibraryUse, StoreAfterReads, SessionInv, NEW t \in Threads, ThreadStep(t), ~StartSteps(t)
  PROVE  /\ pc[t] \notin StartPC
         /\ pc'[t] \notin {"s_write", "s_read", "s_dropped", "s_open"}
         /\ \/ UNCHANGED <<trace, copied>>
            \/ /\ output_file # 0
               /\ trace' = Append(trace, event_buffer[Slot(tail[t])])
               /\ copied' = Append(copied, event_buffer[Slot(tail[t])])
         /\ active' => active
         /\ published' = published \/ pc[t] = "r_publish"
         /\ pc'[t] \in RecordPC \cup {"h_limit"} =>
              pc[t] \in RecordPC \cup {"h_limit"} \/ active
<1>0. DOMAIN pc = Threads
  BY DEF SessionInv, PlacesInv, DataTypes
<1> USE <1>0 DEF Goto, hookVars, ringData, history, StartPC, RecordPC
<1>1. CASE Enter(t)
  BY <1>1 DEF Enter, BeginStart, BeginReset, AutoStartHook, EnterStart, EnterHook,
              BeginStop, LibraryUse
<1>2. CASE RecheckActive(t) \/ CheckLimit(t) \/ CountEvent(t) \/ LeaveRecord(t)
  BY <1>2 DEF RecheckActive, CheckLimit, CountEvent, LeaveRecord, Return
<1>3. CASE RecordSteps(t) /\ UNCHANGED hookVars
  BY <1>3 DEF RecordSteps, LoadHead, LoadTail, DropEvent, WriteFirst, WriteSecond, Publish
<1>4. CASE LockFileMutex(t) \/ FlushCheckFile(t) \/ WriteToNull(t) \/ Unlock(t)
  BY <1>4 DEF LockFileMutex, FlushCheckFile, WriteToNull, Unlock, Return
<1>5. CASE (FlushLoadWrite(t) \/ FlushLoadRead(t) \/ FlushStore(t)) /\ UNCHANGED hookVars
  BY <1>5 DEF FlushLoadWrite, FlushLoadRead, FlushStore
<1>6. CASE WriteEvent(t)
  BY <1>6 DEF WriteEvent, FlushCopy, CopySlot
<1>7. CASE StopSteps(t)
  BY <1>7 DEF StopSteps, StopExchange, StopCheckFile, CloseFile, CloseNull, Return
<1>8. CASE ConsumeSteps(t)
  BY <1>8 DEF ConsumeSteps, ConsumeLoadTail, ConsumeLoadHead, ConsumeCopy, ConsumeStore,
              SessionInv, PlacesInv, HookRoles, LibraryUse, ConsumePC
<1> QED
  BY <1>1, <1>2, <1>3, <1>4, <1>5, <1>6, <1>7, <1>8
     DEF ThreadStep, Continue, HookLateSteps, HookRecordSteps, HookFlushSteps, LibraryUse

\* Every step keeps the trace.
LEMMA TraceStep ==
  ASSUME LibraryUse, SingleProducer, StoreAfterReads, SessionInv, SessionInv', TraceInv,
         NEW t \in Threads, ThreadStep(t)
  PROVE  TraceInv'
<1>1. CASE StartSteps(t)
  BY <1>1, ResetTraceStep
<1>2. CASE ~StartSteps(t)
  <2>1. /\ pc[t] \notin StartPC
        /\ pc'[t] \notin {"s_write", "s_read", "s_dropped", "s_open"}
    BY <1>2, OtherSteps
  <2>2. /\ \A u \in Threads : pc[u] \notin StartPC
        /\ \A u \in Threads \ {t} : pc'[u] = pc[u]
    BY <2>1, StartAlone, OthersStay DEF SessionInv, PlacesInv
  <2>3. RingInv
    BY <2>2 DEF TraceInv, StartPC
  <2>4. RingInv'
    BY <2>1, <2>3, HookRingStep DEF SessionInv
  <2>5. \A u \in Threads : pc'[u] \notin {"s_read", "s_dropped", "s_open"}
    BY <2>1, <2>2 DEF StartPC
  <2>6. Loaded' => Loaded
    <3>1. /\ active' => active
          /\ published' = published \/ pc[t] = "r_publish"
          /\ pc'[t] \in RecordPC \cup {"h_limit"} =>
               pc[t] \in RecordPC \cup {"h_limit"} \/ active
      BY <1>2, OtherSteps
    <3>2. Producers \subseteq Threads /\ (pc[t] = "r_publish" => t \in Producers)
      BY DEF Threads, SessionInv, PlacesInv, HookRoles, RecordPC
    <3> QED
      BY <2>2, <3>1, <3>2 DEF Loaded, RecordPC
  <2>7. trace = copied => trace' = copied'
    BY <1>2, OtherSteps
  <2>8. ~write_to_file => trace' = <<>> /\ copied' = <<>>
    BY <1>2, OtherSteps DEF SessionInv, FileInv, TraceInv
  <2>9. Loaded => trace = copied
    BY <2>2 DEF TraceInv, ResetPC
  <2> QED
    BY <2>4, <2>5, <2>6, <2>7, <2>8, <2>9 DEF TraceInv
<1> QED
  BY <1>1, <1>2

\* In the documented use with one thread that records, the ring and the file
\* are in order in every reachable state.
LEMMA TraceCorrect ==
  ASSUME LibraryUse, SingleProducer, StoreAfterReads
  PROVE  Spec => [](SessionInv /\ TraceInv)
<1>1. Init => TraceInv
  <2> SUFFICES ASSUME Init
               PROVE  TraceInv
    OBVIOUS
  <2>1. RingInv
    BY SizeAssumption
       DEF Init, RingInit, RingInv, Roles, FlushExclusive, OwnPosition, PendingInSlots,
           ProducerKnows, ConsumerKnows, CopiedSoFar, ReadInOrder,
           ReaderBehindWriter, RecordPC, ConsumePC, FlushPC, CopyPC, Threads
  <2>2. /\ \A u \in Threads : pc[u] = "idle"
        /\ trace = <<>> /\ copied = <<>>
    BY DEF Init, RingInit
  <2> QED
    BY <2>1, <2>2 DEF TraceInv
<1>2. SessionInv /\ SessionInv' /\ TraceInv /\ [Next]_vars => TraceInv'
  <2> SUFFICES ASSUME SessionInv, SessionInv', TraceInv, [Next]_vars
               PROVE  TraceInv'
    OBVIOUS
  <2>1. CASE UNCHANGED vars
    BY <2>1
       DEF vars, ringVars, hookVars, TraceInv, Loaded, RingInv, Roles, FlushExclusive,
           OwnPosition, PendingInSlots, ProducerKnows, ConsumerKnows, CopiedSoFar,
           ReadInOrder, ReaderBehindWriter
  <2> QED
    BY <2>1, TraceStep DEF Next, ThreadStep
<1> QED
  BY <1>1, <1>2, SessionCorrect, PTL DEF Spec

\* The file holds the events of the session in the order they were published,
\* each one once and whole, at every moment and through every restart: whoever
\* flushes, wherever the thread that records is, and when it is that thread
\* that stops the hook at the limit.  With stores seen in order.
THEOREM TraceInOrderCorrect ==
  ASSUME LibraryUse, SingleProducer, StoreAfterReads
  PROVE  Spec => []TraceInOrder
<1>1. SessionInv /\ TraceInv => TraceInOrder
  <2> SUFFICES ASSUME SessionInv, TraceInv, active \/ published # <<>>, NoneResets
               PROVE  /\ Len(trace) <= Len(published)
                      /\ \A i \in 1 .. Len(trace) : trace[i] = Whole(published[i])
    BY DEF TraceInOrder
  <2>1. \A u \in Threads : pc[u] \notin StartPC
    BY DEF NoneResets, SessionInv, CallPlaces
  <2>2. RingInv /\ trace = copied
    BY <2>1 DEF TraceInv, Loaded, StartPC, ResetPC
  <2> QED
    BY <2>2 DEF RingInv, ReadInOrder
<1> QED
  BY <1>1, TraceCorrect, PTL

-----------------------------------------------------------------------------
(* The documented use with one thread that records: what stop() loses.     *)

\* The places of a call that has found the hook active and may still publish
\* its event.
PassedPC == {"h_limit", "r_head", "r_tail", "r_first", "r_second", "r_publish"}

\* stop() has closed the file and nobody has started the hook again.
Closed ==
  /\ ~active /\ output_file = 0 /\ opened > 0 /\ NoneResets
  /\ \A t \in Threads : pc[t] # "x_file"

\* Beyond the events that the last flush has read, there are at most those
\* that were on their way when stop() cleared active_.
LossInv ==
  /\ \A t \in Threads : stopping[t] =>
       /\ pc[t] \in {"f_read", "f_copy"} =>
            Len(published) + Cardinality(InRecord(PassedPC))
              <= head[t] + Cardinality(Producers)
       /\ pc[t] = "f_done" =>
            Len(published) + Cardinality(InRecord(PassedPC))
              <= Len(copied) + Cardinality(Producers)
  /\ Closed =>
       Len(published) + Cardinality(InRecord(PassedPC)) <= Len(trace) + Cardinality(Producers)

\* At most one thread records, so the sets counted here are finite.
LEMMA LateCount ==
  ASSUME SingleProducer
  PROVE  /\ IsFiniteSet(Producers) /\ Cardinality(Producers) \in Nat
         /\ IsFiniteSet(InRecord(PassedPC)) /\ Cardinality(InRecord(PassedPC)) \in Nat
         /\ IsFiniteSet(InRecord(PassedPC)') /\ Cardinality(InRecord(PassedPC)') \in Nat
         /\ Cardinality(InRecord(PassedPC)) <= Cardinality(Producers)
         /\ Cardinality(InRecord(PassedPC)') <= Cardinality(Producers)
<1>1. Producers = {} \/ \E p : Producers = {p}
  BY DEF SingleProducer
<1>2. IsFiniteSet(Producers)
  BY <1>1, FS_EmptySet, FS_Singleton
<1>3. InRecord(PassedPC) \subseteq Producers /\ InRecord(PassedPC)' \subseteq Producers
  BY DEF InRecord
<1> QED
  BY <1>2, <1>3, FS_Subset, FS_CardinalityType

\* A step that publishes nothing, lets no further call pass and is none of the
\* steps of stop() loses nothing more.
LEMMA LossKept ==
  ASSUME SingleProducer, SessionInv, LossInv, NEW t \in Threads, ThreadStep(t),
         UNCHANGED <<published, output_file, opened>>,
         active => active',
         Len(copied) <= Len(copied'), Len(trace) <= Len(trace'),
         Len(trace) \in Nat, Len(trace') \in Nat, Len(copied') \in Nat,
         \A u \in Threads \ {t} : head'[u] = head[u],
         stopping'[t] => pc'[t] \notin {"f_read", "f_copy", "f_done"},
         call[t] \in {"start", "reset"} => call'[t] \in {"start", "reset"},
         pc[t] # "x_file",
         pc'[t] \in PassedPC => pc[t] \in PassedPC
  PROVE  LossInv'
<1>1. \A u \in Threads \ {t} :
        pc'[u] = pc[u] /\ call'[u] = call[u] /\ stopping'[u] = stopping[u]
  BY OthersStay DEF SessionInv, PlacesInv
<1>2. /\ published \in Seq(Nat) /\ copied \in Seq(Half)
      /\ head \in [Threads -> Nat] /\ Len(copied') \in Nat
  BY DEF SessionInv, PlacesInv, DataTypes
<1>3. Cardinality(InRecord(PassedPC)') <= Cardinality(InRecord(PassedPC))
  <2>1. InRecord(PassedPC)' \subseteq InRecord(PassedPC)
    BY <1>1 DEF InRecord, Threads
  <2> QED
    BY <2>1, LateCount, FS_Subset
<1>4. Closed' => Closed
  BY <1>1 DEF Closed, NoneResets
<1>5. Len(published') = Len(published) /\ Len(published) \in Nat /\ Len(copied) \in Nat
  BY <1>2
<1>6. Closed' => Len(published') + Cardinality(InRecord(PassedPC)')
                   <= Len(trace') + Cardinality(Producers)
  BY <1>3, <1>4, <1>5, LateCount DEF LossInv
<1>7. ASSUME NEW u \in Threads, stopping'[u]
      PROVE  /\ pc'[u] \in {"f_read", "f_copy"} =>
                  Len(published') + Cardinality(InRecord(PassedPC)')
                    <= head'[u] + Cardinality(Producers)
             /\ pc'[u] = "f_done" =>
                  Len(published') + Cardinality(InRecord(PassedPC)')
                    <= Len(copied') + Cardinality(Producers)
  <2>1. CASE u = t
    BY <1>7, <2>1
  <2>2. CASE u # t
    <3>1. stopping[u] /\ pc'[u] = pc[u] /\ head'[u] = head[u] /\ head[u] \in Nat
      BY <1>1, <1>2, <1>7, <2>2
    <3>2. /\ pc[u] \in {"f_read", "f_copy"} =>
               Len(published) + Cardinality(InRecord(PassedPC))
                 <= head[u] + Cardinality(Producers)
          /\ pc[u] = "f_done" =>
               Len(published) + Cardinality(InRecord(PassedPC))
                 <= Len(copied) + Cardinality(Producers)
      BY <3>1 DEF LossInv
    <3> QED
      BY <1>2, <1>3, <1>5, <3>1, <3>2, LateCount
  <2> QED
    BY <2>1, <2>2
<1> QED
  BY <1>6, <1>7 DEF LossInv

\* The steps inside start() and reset_stats() begin with nothing to lose.
LEMMA ResetLossStep ==
  ASSUME LibraryUse, SingleProducer, StoreAfterReads, SessionInv, SessionInv', TraceInv, LossInv,
         NEW t \in Threads, StartSteps(t)
  PROVE  LossInv'
<1>1. pc[t] \in StartPC /\ \A u \in Threads \ {t} : pc[u] = "idle"
  <2>1. pc[t] \in StartPC
    BY DEF StartSteps, StartExchange, ResetCount, ResetWritePos, ResetReadPos, ResetDropped,
           OpenFile, OpenFails, StartPC, Goto
  <2> QED
    BY <2>1 DEF SessionInv, CallPlaces
<1>2. \A u \in Threads \ {t} : pc'[u] = "idle"
  BY <1>1, OthersStay DEF SessionInv, PlacesInv, ThreadStep, Continue
<1>3. pc'[t] \in StartPC \cup {"idle"}
  BY <1>1 DEF StartSteps, StartExchange, ResetCount, ResetWritePos, ResetReadPos,
              ResetDropped, OpenFile, OpenFails, Return, StartPC, Goto, SessionInv,
              CallPlaces, PlacesInv, DataTypes
<1>4. \A u \in Threads : ~stopping'[u]
  BY <1>2, <1>3 DEF SessionInv, CallPlaces, StartPC, FlushPC
<1>5. InRecord(PassedPC)' = {}
  BY <1>2, <1>3 DEF InRecord, PassedPC, StartPC, Threads
<1>6. Closed' => published' = <<>>
  <2> SUFFICES ASSUME Closed'
               PROVE  published' = <<>>
    OBVIOUS
  <2>1. pc'[t] = "idle" /\ ~active' /\ output_file' = 0
    BY <1>3 DEF Closed, NoneResets, SessionInv, CallPlaces
  <2>2. DOMAIN pc = Threads
    BY DEF SessionInv, PlacesInv, DataTypes
  <2>3. (ResetDropped(t) \/ OpenFails(t)) /\ UNCHANGED published
    BY <2>1, <2>2
       DEF StartSteps, StartExchange, ResetCount, ResetWritePos, ResetReadPos, ResetDropped,
           OpenFile, OpenFails, Goto, ringData, history, SessionInv, PlacesInv, HookTypeOK
  <2> QED
    BY <2>3 DEF ResetDropped, OpenFails, TraceInv
<1>7. Closed' => Len(published') + Cardinality(InRecord(PassedPC)')
                   <= Len(trace') + Cardinality(Producers)
  <2>1. Len(trace') \in Nat
    BY DEF SessionInv, PlacesInv, HookTypeOK
  <2>2. Cardinality(InRecord(PassedPC)') = 0 /\ Cardinality(Producers) \in Nat
    BY <1>5, FS_EmptySet, LateCount
  <2> QED
    BY <1>6, <2>1, <2>2
<1> QED
  BY <1>4, <1>7 DEF LossInv

\* The steps that look at active_ or close the file: those of stop(), and the
\* test that lets a call of record_event pass.
LEMMA StopLossStep ==
  ASSUME LibraryUse, SingleProducer, StoreAfterReads, SessionInv, SessionInv', TraceInv, LossInv,
         NEW t \in Threads, StopSteps(t) \/ RecheckActive(t)
  PROVE  LossInv'
<1>0. /\ DOMAIN pc = Threads /\ active \in BOOLEAN
      /\ stopping \in [Threads -> BOOLEAN] /\ call \in [Threads -> Calls]
      /\ Len(copied) \in Nat /\ Len(trace) \in Nat /\ Len(published) \in Nat
      /\ Len(copied') \in Nat /\ Len(trace') \in Nat
  <2>1. /\ DOMAIN pc = Threads /\ active \in BOOLEAN
        /\ stopping \in [Threads -> BOOLEAN] /\ call \in [Threads -> Calls]
    BY DEF SessionInv, PlacesInv, DataTypes, HookTypeOK
  <2>2. /\ copied \in Seq(Half) /\ trace \in Seq(Half) /\ published \in Seq(Nat)
        /\ copied' \in Seq(Half) /\ trace' \in Seq(Half)
    BY DEF SessionInv, PlacesInv, DataTypes, HookTypeOK
  <2>3. /\ Len(copied) \in Nat /\ Len(trace) \in Nat /\ Len(published) \in Nat
        /\ Len(copied') \in Nat /\ Len(trace') \in Nat
    BY <2>2
  <2> QED
    BY <2>1, <2>3
<1>i. /\ call[t] \in {"start", "reset"} <=> pc[t] \in StartPC
      /\ stopping[t] => pc[t] \in FlushPC \cup {"f_lock", "f_check"}
  BY DEF SessionInv, CallPlaces
<1>s. ThreadStep(t)
  BY DEF ThreadStep, Continue, HookRecordSteps
<1>o. \A u \in Threads \ {t} :
        pc'[u] = pc[u] /\ call'[u] = call[u] /\ stopping'[u] = stopping[u]
  BY <1>s, OthersStay DEF SessionInv, PlacesInv
<1>q. ASSUME \A u \in Threads : ~stopping'[u], ~Closed'
      PROVE  LossInv'
  BY <1>q DEF LossInv
<1> USE DEF Goto, hookVars, ringData, locals, history, PassedPC
<1>1. CASE StopExchange(t)
  <2>1. CASE active
    <3>1. \A u \in Threads : ~stopping[u]
      BY <2>1 DEF SessionInv, FileInv, Stopping
    <3>2. pc'[t] = "x_file" /\ stopping' = stopping
      BY <1>0, <1>1, <2>1 DEF StopExchange
    <3> QED
      BY <1>q, <3>1, <3>2 DEF Closed
  <2>2. CASE ~active
    <3>1. /\ pc[t] = "x_active" /\ pc'[t] \in {"idle", "f_lock"} /\ ~active'
          /\ UNCHANGED <<published, output_file, opened, copied, trace, head, stopping>>
      BY <1>0, <1>1, <2>2 DEF StopExchange, Return
    <3> QED
      BY <1>0, <1>i, <1>s, <2>2, <3>1, LossKept DEF StartPC
  <2> QED
    BY <2>1, <2>2
<1>2. CASE StopCheckFile(t)
  <2>1. pc[t] = "x_file" /\ \A u \in Threads \ {t} : ~stopping[u]
    BY <1>2 DEF StopCheckFile, SessionInv, FileInv, Stopping
  <2>2. ~stopping[t]
    BY <1>i, <2>1 DEF FlushPC
  <2>3. CASE output_file = 0
    <3>1. opened' = 0 /\ UNCHANGED stopping
      BY <1>2, <2>1, <2>3 DEF StopCheckFile, SessionInv, FileInv
    <3> QED
      BY <1>q, <2>1, <2>2, <3>1 DEF Closed
  <2>4. CASE output_file # 0
    <3>1. pc'[t] = "f_lock" /\ output_file' # 0
      BY <1>0, <1>2, <2>4 DEF StopCheckFile
    <3>2. \A u \in Threads \ {t} : ~stopping'[u]
      BY <1>o, <2>1
    <3> QED
      BY <3>1, <3>2 DEF LossInv, Closed
  <2> QED
    BY <2>3, <2>4
<1>3. CASE CloseFile(t)
  <2>1. /\ pc[t] = "f_done" /\ stopping[t] /\ ~stopping'[t]
        /\ pc'[t] \in {"idle", "f_lock"}
        /\ UNCHANGED <<published, copied, trace>>
    BY <1>0, <1>3 DEF CloseFile, Return
  <2>2. \A u \in Threads \ {t} : ~stopping'[u]
    BY <1>o, <2>1 DEF SessionInv, FileInv, Stopping
  <2>3. Len(published) + Cardinality(InRecord(PassedPC)) <= Len(copied) + Cardinality(Producers)
    BY <2>1 DEF LossInv
  <2>4. InRecord(PassedPC)' = InRecord(PassedPC)
    BY <1>o, <2>1, NoneCrosses DEF Threads
  <2>5. \A u \in Threads : pc[u] \notin ResetPC
    BY <1>s, <2>1, StartAlone DEF ResetPC, StartPC
  <2>6. CASE Loaded
    <3>1. trace = copied
      BY <2>5, <2>6 DEF TraceInv
    <3> QED
      BY <2>1, <2>2, <2>3, <2>4, <3>1 DEF LossInv
  <2>7. CASE ~Loaded
    <3>1. published = <<>> /\ InRecord(PassedPC) = {}
      BY <2>7 DEF Loaded, InRecord, RecordPC
    <3>2. Len(published) + Cardinality(InRecord(PassedPC)) <= Len(trace) + Cardinality(Producers)
      BY <1>0, <3>1, FS_EmptySet, LateCount
    <3> QED
      BY <2>1, <2>2, <2>4, <3>2 DEF LossInv
  <2> QED
    BY <2>6, <2>7
<1>4. CASE CloseNull(t)
  BY <1>4 DEF CloseNull, SessionInv, FileInv
<1>5. CASE RecheckActive(t)
  <2>1. CASE active
    <3>1. \A u \in Threads : ~stopping[u]
      BY <2>1 DEF SessionInv, FileInv, Stopping
    <3>2. active' /\ stopping' = stopping
      BY <1>5, <2>1 DEF RecheckActive
    <3> QED
      BY <1>q, <3>1, <3>2 DEF Closed
  <2>2. CASE ~active
    <3>1. /\ pc[t] = "h_active" /\ pc'[t] \in {"idle", "f_lock"}
          /\ UNCHANGED <<published, output_file, opened, copied, trace, head, stopping>>
      BY <1>0, <1>5, <2>2 DEF RecheckActive, Return
    <3> QED
      BY <1>0, <1>i, <1>s, <2>2, <3>1, LossKept DEF StartPC
  <2> QED
    BY <2>1, <2>2
<1> QED
  BY <1>1, <1>2, <1>3, <1>4, <1>5 DEF StopSteps

\* A flush that has loaded write_pos_ carries the bound along to its end: what
\* it has loaded, it reads.
LEMMA LossCarried ==
  ASSUME SingleProducer, SessionInv, LossInv, NEW t \in Threads, ThreadStep(t),
         UNCHANGED <<published, active, output_file, opened, call, stopping, head>>,
         Len(copied) \in Nat, Len(trace) \in Nat,
         Len(copied') \in Nat, Len(trace') \in Nat,
         Len(copied) <= Len(copied'), Len(trace) <= Len(trace'),
         pc[t] \in {"f_read", "f_copy"}, pc'[t] \in {"f_copy", "f_done"},
         pc'[t] = "f_done" => head[t] = Len(copied')
  PROVE  LossInv'
<1>1. \A u \in Threads \ {t} : pc'[u] = pc[u]
  BY OthersStay DEF SessionInv, PlacesInv
<1>2. InRecord(PassedPC)' = InRecord(PassedPC)
  BY <1>1, NoneCrosses DEF PassedPC, Threads
<1>3. /\ Len(published) \in Nat /\ head \in [Threads -> Nat]
      /\ Cardinality(InRecord(PassedPC)) \in Nat /\ Cardinality(Producers) \in Nat
  <2>1. published \in Seq(Nat) /\ head \in [Threads -> Nat]
    BY DEF SessionInv, PlacesInv, DataTypes
  <2> QED
    BY <2>1, LateCount
<1>4. Closed' => Closed
  BY <1>1 DEF Closed, NoneResets
<1>5. Closed' => Len(published') + Cardinality(InRecord(PassedPC)')
                   <= Len(trace') + Cardinality(Producers)
  <2>1. Closed' => Len(published) + Cardinality(InRecord(PassedPC))
                     <= Len(trace) + Cardinality(Producers)
    BY <1>4 DEF LossInv
  <2> QED
    BY <1>2, <1>3, <2>1
<1>6. ASSUME NEW u \in Threads, stopping'[u]
      PROVE  /\ pc'[u] \in {"f_read", "f_copy"} =>
                  Len(published') + Cardinality(InRecord(PassedPC)')
                    <= head'[u] + Cardinality(Producers)
             /\ pc'[u] = "f_done" =>
                  Len(published') + Cardinality(InRecord(PassedPC)')
                    <= Len(copied') + Cardinality(Producers)
  <2>1. /\ pc[u] \in {"f_read", "f_copy"} =>
             Len(published) + Cardinality(InRecord(PassedPC))
               <= head[u] + Cardinality(Producers)
        /\ pc[u] = "f_done" =>
             Len(published) + Cardinality(InRecord(PassedPC))
               <= Len(copied) + Cardinality(Producers)
    BY <1>6 DEF LossInv
  <2>2. CASE u = t
    BY <1>2, <1>3, <2>1, <2>2
  <2>3. CASE u # t
    BY <1>1, <1>2, <1>3, <2>1, <2>3, SMTT(30)
  <2> QED
    BY <2>2, <2>3
<1> QED
  BY <1>5, <1>6 DEF LossInv

\* The steps of a flush.  A flush of stop() first loads write_pos_, then reads
\* every event up to there.
LEMMA FlushLossStep ==
  ASSUME LibraryUse, SingleProducer, StoreAfterReads, SessionInv, SessionInv', LossInv, RingInv,
         NEW t \in Threads, HookFlushSteps(t)
  PROVE  LossInv'
<1>0. /\ DOMAIN pc = Threads /\ head \in [Threads -> Nat] /\ tail \in [Threads -> Nat]
      /\ stopping \in [Threads -> BOOLEAN] /\ call \in [Threads -> Calls]
      /\ event_buffer \in [0 .. BUFFER_SIZE-1 -> Half]
  BY DEF SessionInv, PlacesInv, DataTypes, HookTypeOK
<1>1. /\ Len(copied) \in Nat /\ Len(trace) \in Nat /\ Len(published) \in Nat
      /\ Len(copied') \in Nat /\ Len(trace') \in Nat
  <2>1. /\ copied \in Seq(Half) /\ trace \in Seq(Half) /\ published \in Seq(Nat)
        /\ copied' \in Seq(Half) /\ trace' \in Seq(Half)
    BY DEF SessionInv, PlacesInv, DataTypes, HookTypeOK
  <2> QED
    BY <2>1
<1>i. /\ call[t] \in {"start", "reset"} <=> pc[t] \in StartPC
      /\ stopping[t] => output_file # 0
  BY DEF SessionInv, CallPlaces, FileInv
<1>s. ThreadStep(t)
  BY DEF ThreadStep, Continue
<1>o. \A u \in Threads \ {t} :
        pc'[u] = pc[u] /\ call'[u] = call[u] /\ stopping'[u] = stopping[u]
  BY <1>s, OthersStay DEF SessionInv, PlacesInv
<1> USE DEF Goto, hookVars, ringData, locals, history, StartPC, PassedPC
<1>2. CASE LockFileMutex(t)
  <2>1. /\ pc[t] = "f_lock" /\ pc'[t] = "f_check"
        /\ UNCHANGED <<published, output_file, opened, active, copied, trace, head, call>>
    BY <1>0, <1>2 DEF LockFileMutex
  <2>2. /\ call[t] \notin {"start", "reset"} /\ pc'[t] \notin PassedPC
        /\ pc'[t] \notin {"f_read", "f_copy", "f_done"} /\ pc[t] # "x_file"
        /\ Len(copied) <= Len(copied') /\ Len(trace) <= Len(trace')
    BY <1>1, <1>i, <2>1
  <2> QED
    BY <1>1, <1>s, <2>1, <2>2, LossKept
<1>3. CASE FlushCheckFile(t)
  <2>1. /\ pc[t] = "f_check" /\ pc'[t] \in {"f_done", "f_write"}
        /\ output_file # 0 => pc'[t] = "f_write"
        /\ UNCHANGED <<published, output_file, opened, active, copied, trace, head, call,
                       stopping>>
    BY <1>0, <1>3 DEF FlushCheckFile
  <2>2. /\ call[t] \notin {"start", "reset"} /\ pc'[t] \notin PassedPC
        /\ stopping'[t] => pc'[t] \notin {"f_read", "f_copy", "f_done"}
        /\ pc[t] # "x_file"
        /\ Len(copied) <= Len(copied') /\ Len(trace) <= Len(trace')
    BY <1>1, <1>i, <2>1
  <2> QED
    BY <1>1, <1>s, <2>1, <2>2, LossKept
<1>4. CASE Unlock(t)
  <2>1. /\ pc[t] = "f_done" /\ pc'[t] \in {"idle", "f_lock"} /\ ~stopping'[t]
        /\ UNCHANGED <<published, output_file, opened, active, copied, trace, head>>
    BY <1>0, <1>4 DEF Unlock, Return
  <2> QED
    BY <1>0, <1>1, <1>i, <1>s, <2>1, LossKept, SMTT(30)
<1>5. CASE WriteToNull(t)
  BY <1>5 DEF WriteToNull, SessionInv, FileInv
<1>6. CASE FlushLoadWrite(t) /\ UNCHANGED hookVars
  <2>1. /\ pc[t] = "f_write" /\ pc'[t] = "f_read" /\ head'[t] = Len(published)
        /\ UNCHANGED <<published, output_file, opened, active, copied, trace, call, stopping>>
        /\ \A u \in Threads \ {t} : head'[u] = head[u]
    BY <1>0, <1>6 DEF FlushLoadWrite, RingInv, OwnPosition
  <2>2. InRecord(PassedPC)' = InRecord(PassedPC)
    BY <1>o, <2>1, NoneCrosses DEF Threads
  <2>3. Len(published) + Cardinality(InRecord(PassedPC)) <= head'[t] + Cardinality(Producers)
    BY <1>1, <2>1, LateCount
  <2>4. Closed' => Closed
    BY <1>o, <2>1 DEF Closed, NoneResets
  <2>5. Closed' => Len(published') + Cardinality(InRecord(PassedPC)')
                     <= Len(trace') + Cardinality(Producers)
    BY <2>1, <2>2, <2>4 DEF LossInv
  <2>6. ASSUME NEW u \in Threads, stopping'[u]
        PROVE  /\ pc'[u] \in {"f_read", "f_copy"} =>
                    Len(published') + Cardinality(InRecord(PassedPC)')
                      <= head'[u] + Cardinality(Producers)
               /\ pc'[u] = "f_done" =>
                    Len(published') + Cardinality(InRecord(PassedPC)')
                      <= Len(copied') + Cardinality(Producers)
    BY <1>o, <2>1, <2>2, <2>3, <2>6 DEF LossInv
  <2> QED
    BY <2>5, <2>6 DEF LossInv
<1>7. CASE FlushLoadRead(t) /\ UNCHANGED hookVars
  <2>1. /\ pc[t] = "f_read" /\ pc'[t] = "f_copy"
        /\ UNCHANGED <<published, output_file, opened, active, copied, trace, head, call,
                       stopping>>
    BY <1>0, <1>7 DEF FlushLoadRead
  <2> QED
    BY <1>o, <1>s, <2>1, LossCarried
<1>8. CASE WriteEvent(t)
  <2>1. /\ pc[t] = "f_copy" /\ pc'[t] = "f_copy" /\ output_file # 0
        /\ UNCHANGED <<published, output_file, opened, active, head, call, stopping>>
        /\ Len(copied) <= Len(copied') /\ Len(trace) <= Len(trace')
    BY <1>0, <1>8 DEF WriteEvent, FlushCopy, CopySlot
  <2> QED
    BY <1>o, <1>s, <2>1, LossCarried
<1>9. CASE FlushStore(t) /\ UNCHANGED hookVars
  <2>1. /\ pc[t] = "f_copy" /\ pc'[t] = "f_done" /\ ~(tail[t] < head[t])
        /\ UNCHANGED <<published, output_file, opened, active, copied, trace, head, call,
                       stopping>>
    BY <1>0, <1>9 DEF FlushStore
  <2>2. Len(copied) = head[t]
    <3>1. tail[t] <= head[t] /\ Len(copied) = tail[t]
      BY <2>1 DEF RingInv, ConsumerKnows, CopiedSoFar, CopyPC
    <3> QED
      BY <1>0, <2>1, <3>1
  <2> QED
    BY <1>o, <1>s, <2>1, <2>2, LossCarried
<1> QED
  BY <1>2, <1>3, <1>4, <1>5, <1>6, <1>7, <1>8, <1>9 DEF HookFlushSteps

\* Every step of a thread keeps the bound.
LEMMA LossStep ==
  ASSUME LibraryUse, SingleProducer, StoreAfterReads, SessionInv, SessionInv', TraceInv, LossInv,
         NEW t \in Threads, ThreadStep(t)
  PROVE  LossInv'
<1>0. /\ DOMAIN pc = Threads /\ head \in [Threads -> Nat]
      /\ stopping \in [Threads -> BOOLEAN] /\ call \in [Threads -> Calls]
  BY DEF SessionInv, PlacesInv, DataTypes, HookTypeOK
<1>1. /\ published \in Seq(Nat) /\ event \in [Threads -> Nat]
      /\ Len(copied) \in Nat /\ Len(trace) \in Nat /\ Len(published) \in Nat
  <2>1. copied \in Seq(Half) /\ trace \in Seq(Half) /\ published \in Seq(Nat)
    BY DEF SessionInv, PlacesInv, DataTypes, HookTypeOK
  <2>2. Len(copied) \in Nat /\ Len(trace) \in Nat /\ Len(published) \in Nat
    BY <2>1
  <2> QED
    BY <2>1, <2>2 DEF SessionInv, PlacesInv, DataTypes
<1>i. /\ call[t] \in {"start", "reset"} <=> pc[t] \in StartPC
      /\ stopping[t] => pc[t] \in FlushPC \cup {"f_lock", "f_check"}
      /\ pc[t] \in RecordPC => t \in Producers
  BY DEF SessionInv, PlacesInv, CallPlaces, HookRoles
<1>o. \A u \in Threads \ {t} :
        pc'[u] = pc[u] /\ call'[u] = call[u] /\ stopping'[u] = stopping[u]
  BY OthersStay DEF SessionInv, PlacesInv
<1> USE DEF Goto, hookVars, ringData, locals, history, StartPC, FlushPC
<1>2. ASSUME UNCHANGED <<published, output_file, opened, active, copied, trace>>,
             \A u \in Threads \ {t} : head'[u] = head[u],
             pc[t] \notin StartPC, pc[t] # "x_file", ~stopping'[t],
             pc'[t] \in PassedPC => pc[t] \in PassedPC
      PROVE  LossInv'
  BY <1>1, <1>2, <1>i, LossKept
<1>3. CASE Enter(t)
  <2>1. /\ pc[t] = "idle" /\ pc'[t] \notin PassedPC
        /\ UNCHANGED <<published, output_file, opened, active, copied, trace, head, stopping>>
    BY <1>0, <1>3 DEF Enter, BeginStart, BeginReset, AutoStartHook, EnterStart, EnterHook,
                      BeginStop, LibraryUse, PassedPC
  <2> QED
    BY <1>2, <1>i, <2>1
<1>4. CASE Publish(t) /\ UNCHANGED hookVars
  <2>1. /\ pc[t] = "r_publish" /\ pc'[t] = "r_count"
        /\ Len(published') = Len(published) + 1
        /\ UNCHANGED <<copied, trace, head, active, output_file, opened, call, stopping>>
    BY <1>0, <1>1, <1>4 DEF Publish
  <2>2. Cardinality(InRecord(PassedPC)') = Cardinality(InRecord(PassedPC)) - 1
    BY <1>i, <1>o, <2>1, LateCount, OneLeaves DEF PassedPC, RecordPC, Threads
  <2>3. Len(published') + Cardinality(InRecord(PassedPC)')
          = Len(published) + Cardinality(InRecord(PassedPC))
    BY <1>1, <2>1, <2>2, LateCount
  <2>4. Closed' => Closed
    BY <1>o, <2>1 DEF Closed, NoneResets
  <2>5. \A u \in Threads : stopping[u] /\ pc'[u] \in {"f_read", "f_copy", "f_done"}
                             => pc'[u] = pc[u]
    BY <1>i, <1>o, <2>1
  <2> QED
    BY <2>1, <2>3, <2>4, <2>5 DEF LossInv
<1>5. CASE CheckLimit(t) \/ CountEvent(t) \/ LeaveRecord(t)
  <2>1. /\ pc[t] \in {"h_limit", "r_count", "r_end"}
        /\ pc'[t] \in PassedPC => pc[t] \in PassedPC
        /\ UNCHANGED <<published, output_file, opened, active, copied, trace, head, stopping>>
    BY <1>0, <1>5 DEF CheckLimit, CountEvent, LeaveRecord, Return, PassedPC
  <2> QED
    BY <1>2, <1>i, <2>1
<1>6. CASE /\ LoadHead(t) \/ LoadTail(t) \/ DropEvent(t) \/ WriteFirst(t) \/ WriteSecond(t)
           /\ UNCHANGED hookVars
  <2>1. /\ pc[t] \in RecordPC
        /\ pc'[t] \in PassedPC => pc[t] \in PassedPC
        /\ UNCHANGED <<published, output_file, opened, active, copied, trace, stopping>>
        /\ \A u \in Threads \ {t} : head'[u] = head[u]
    BY <1>0, <1>6
       DEF LoadHead, LoadTail, DropEvent, WriteFirst, WriteSecond, PassedPC, RecordPC
  <2> QED
    BY <1>2, <1>i, <2>1 DEF RecordPC
<1>7. CASE HookFlushSteps(t)
  <2>1. pc[t] \notin StartPC
    BY <1>7 DEF HookFlushSteps, LockFileMutex, FlushCheckFile, WriteEvent, FlushCopy,
                WriteToNull, Unlock, FlushLoadWrite, FlushLoadRead, FlushStore
  <2>2. RingInv
    BY <2>1, StartAlone DEF TraceInv
  <2> QED
    BY <1>7, <2>2, FlushLossStep
<1>8. CASE ConsumeSteps(t)
  BY <1>8 DEF ConsumeSteps, ConsumeLoadTail, ConsumeLoadHead, ConsumeCopy, ConsumeStore,
              SessionInv, PlacesInv, HookRoles, LibraryUse, ConsumePC
<1>9. CASE StartSteps(t)
  BY <1>9, ResetLossStep
<1>10. CASE StopSteps(t) \/ RecheckActive(t)
  BY <1>10, StopLossStep
<1> QED
  BY <1>3, <1>4, <1>5, <1>6, <1>7, <1>8, <1>9, <1>10
     DEF ThreadStep, Continue, HookLateSteps, HookRecordSteps, RecordSteps, LibraryUse

\* What stop() loses stays bounded in every reachable state.
LEMMA LossCorrect ==
  ASSUME LibraryUse, SingleProducer, StoreAfterReads
  PROVE  Spec => []LossInv
<1>1. Init => LossInv
  <2> SUFFICES ASSUME Init
               PROVE  LossInv
    OBVIOUS
  <2>1. opened = 0 /\ \A t \in Threads : stopping[t] = FALSE
    BY DEF Init
  <2> QED
    BY <2>1 DEF LossInv, Closed
<1>2. SessionInv /\ TraceInv /\ LossInv /\ (SessionInv /\ TraceInv)' /\ [Next]_vars
        => LossInv'
  <2> SUFFICES ASSUME SessionInv, SessionInv', TraceInv, LossInv, [Next]_vars
               PROVE  LossInv'
    OBVIOUS
  <2>1. CASE UNCHANGED vars
    BY <2>1 DEF vars, ringVars, hookVars, LossInv, Closed, NoneResets, InRecord
  <2> QED
    BY <2>1, LossStep DEF Next, ThreadStep
<1> QED
  BY <1>1, <1>2, TraceCorrect, PTL DEF Spec

\* Once stop() has closed the file and nobody has started the hook again, the
\* trace lacks at most the one event that was being recorded when stop()
\* cleared active_: the flush that stop() makes under file_mutex_ reads
\* everything else, whichever steps of the recording thread come between.  With
\* stores seen in order.
THEOREM LittleLostCorrect ==
  ASSUME LibraryUse, SingleProducer, StoreAfterReads
  PROVE  Spec => []LittleLostAtStop
<1>1. SessionInv /\ TraceInv /\ LossInv => LittleLostAtStop
  <2> SUFFICES ASSUME SessionInv, LossInv, Closed
               PROVE  Len(published) <= Len(trace) + Cardinality(Producers)
    BY DEF LittleLostAtStop, Closed
  <2>1. published \in Seq(Nat) /\ trace \in Seq(Half)
    BY DEF SessionInv, PlacesInv, DataTypes, HookTypeOK
  <2>2. Len(published) + Cardinality(InRecord(PassedPC)) <= Len(trace) + Cardinality(Producers)
    BY DEF LossInv
  <2> QED
    BY <2>1, <2>2, LateCount
<1> QED
  BY <1>1, TraceCorrect, LossCorrect, PTL

-----------------------------------------------------------------------------
(* The documented use with one thread that records and a hook that writes  *)
(* to a file: the hook implements the trace session.                       *)

\* The events being recorded are numbered within the bound on the calls.
HookEventsNumbered ==
  /\ records <= MaxRecords
  /\ \A t \in Producers :
       pc[t] \in RecordPC \cup {"h_active", "h_limit"} => event[t] \in 1 .. MaxRecords

\* A file is open only during a session and until stop() has closed it, and no
\* event passes the test of active_ before the first file was opened.
HandleInv ==
  /\ output_file # 0 =>
       \/ active /\ \A t \in Threads : pc[t] \notin ResetPC
       \/ \E t \in Threads : Stopping(t)
  /\ \A t \in Threads : call[t] = "start" /\ pc[t] \in ResetPC => active
  /\ write_to_file /\ opened = 0 => \A t \in Threads : pc[t] \notin PassedPC

\* The steps of a thread number the events.
LEMMA NumbersStep ==
  ASSUME LibraryUse, StoreAfterReads, SessionInv, HookEventsNumbered, NEW t \in Threads, ThreadStep(t)
  PROVE  HookEventsNumbered'
<1>0. /\ DOMAIN pc = Threads /\ event \in [Threads -> Nat] /\ records \in Nat
      /\ Producers \subseteq Threads
      /\ \A u \in Threads \ {t} : pc'[u] = pc[u]
  BY OthersStay DEF SessionInv, PlacesInv, DataTypes, Threads
<1> USE DEF Goto, hookVars, ringData, locals, RecordPC
<1>1. ASSUME UNCHANGED <<records, event>>,
             pc'[t] \in RecordPC \cup {"h_active", "h_limit"} =>
               pc[t] \in RecordPC \cup {"h_active", "h_limit"}
      PROVE  HookEventsNumbered'
  BY <1>0, <1>1 DEF HookEventsNumbered
<1>2. CASE \E k \in {"op", "graph_end"} : EnterHook(t, k)
  <2>1. /\ records < MaxRecords /\ records' = records + 1
        /\ event' = [event EXCEPT ![t] = records + 1]
    BY <1>2 DEF EnterHook, NewEvent
  <2>2. records' <= MaxRecords /\ event'[t] \in 1 .. MaxRecords
    BY <1>0, <2>1, BoundAssumption
  <2>3. \A u \in Threads \ {t} : event'[u] = event[u]
    BY <1>0, <2>1
  <2> QED
    BY <1>0, <2>2, <2>3 DEF HookEventsNumbered
<1>3. CASE Enter(t)
  BY <1>0, <1>1, <1>2, <1>3
     DEF Enter, BeginStart, BeginReset, AutoStartHook, EnterStart, BeginStop, LibraryUse
<1>4. CASE StartSteps(t)
  BY <1>0, <1>1, <1>4 DEF StartSteps, StartExchange, ResetCount, ResetWritePos, ResetReadPos,
                    ResetDropped, OpenFile, OpenFails, Return
<1>5. CASE HookRecordSteps(t)
  BY <1>0, <1>1, <1>5 DEF HookRecordSteps, RecheckActive, CheckLimit, CountEvent, LeaveRecord,
                    RecordSteps, LoadHead, LoadTail, DropEvent, WriteFirst, WriteSecond,
                    Publish, Return
<1>6. CASE HookFlushSteps(t)
  BY <1>0, <1>1, <1>6 DEF HookFlushSteps, LockFileMutex, FlushCheckFile, WriteEvent, FlushCopy,
                    CopySlot, WriteToNull, Unlock, FlushLoadWrite, FlushLoadRead,
                    FlushStore, Return
<1>7. CASE StopSteps(t)
  BY <1>0, <1>1, <1>7 DEF StopSteps, StopExchange, StopCheckFile, CloseFile, CloseNull, Return
<1>8. CASE ConsumeSteps(t)
  BY <1>8 DEF ConsumeSteps, ConsumeLoadTail, ConsumeLoadHead, ConsumeCopy, ConsumeStore,
              SessionInv, PlacesInv, HookRoles, LibraryUse, ConsumePC
<1> QED
  BY <1>3, <1>4, <1>5, <1>6, <1>7, <1>8 DEF ThreadStep, Continue, HookLateSteps, LibraryUse

\* The steps of a thread keep the file open only during a session.
LEMMA HandleStep ==
  ASSUME LibraryUse, StoreAfterReads, SessionInv, SessionInv', HandleInv, NEW t \in Threads, ThreadStep(t)
  PROVE  HandleInv'
<1>0. /\ DOMAIN pc = Threads /\ call \in [Threads -> Calls]
      /\ stopping \in [Threads -> BOOLEAN]
      /\ active \in BOOLEAN /\ opened \in Nat /\ output_file \in 0 .. opened
  BY DEF SessionInv, PlacesInv, DataTypes, HookTypeOK
<1>o. \A u \in Threads \ {t} :
        pc'[u] = pc[u] /\ call'[u] = call[u] /\ stopping'[u] = stopping[u]
  BY OthersStay DEF SessionInv, PlacesInv
<1>i. /\ call[t] \in {"start", "reset"} <=> pc[t] \in StartPC
      /\ stopping[t] => pc[t] \in FlushPC \cup {"f_lock", "f_check"}
      /\ call[t] = "reset" => pc[t] \notin {"s_active", "s_open"}
  BY DEF SessionInv, CallPlaces, FileInv
\* Inside start() and reset_stats() the thread is alone.
<1>a. ASSUME pc[t] \in StartPC \/ pc'[t] \in StartPC
      PROVE  \A u \in Threads \ {t} : /\ pc[u] = "idle" /\ pc'[u] = "idle"
                                      /\ ~Stopping(u) /\ ~Stopping(u)'
                                      /\ call[u] \notin {"start", "reset"}
                                      /\ call'[u] \notin {"start", "reset"}
  <2>1. \A u \in Threads \ {t} : pc[u] = "idle" /\ pc'[u] = "idle"
    BY <1>a, <1>o DEF SessionInv, CallPlaces
  <2> QED
    BY <1>o, <2>1 DEF SessionInv, CallPlaces, Stopping, StartPC, FlushPC
<1> USE DEF Goto, hookVars, StartPC, ResetPC, PassedPC
<1>k. ASSUME UNCHANGED <<active, output_file, opened>>,
             pc'[t] \in ResetPC => pc[t] \in ResetPC /\ call'[t] = call[t],
             Stopping(t) => Stopping(t)',
             pc'[t] \in PassedPC => pc[t] \in PassedPC
      PROVE  HandleInv'
  <2>1. \A u \in Threads \ {t} : Stopping(u)' = Stopping(u)
    BY <1>o DEF Stopping
  <2> QED
    BY <1>o, <1>k, <2>1, Zenon DEF HandleInv
<1>1. CASE BeginReset(t)
  <2>1. /\ pc[t] = "idle" /\ pc'[t] = "s_count" /\ ~active /\ call'[t] = "reset"
        /\ UNCHANGED <<active, output_file, opened, stopping>>
    BY <1>0, <1>1 DEF BeginReset
  <2>2. output_file = 0
    BY <1>a, <1>i, <2>1 DEF HandleInv, Stopping, FlushPC
  <2> QED
    BY <1>a, <2>1, <2>2 DEF HandleInv
<1>2. CASE StartExchange(t)
  <2>1. CASE active
    <3>1. pc'[t] = "idle" /\ UNCHANGED <<active, output_file, opened, stopping>>
      BY <1>0, <1>i, <1>2, <2>1 DEF StartExchange, Return
    <3> QED
      BY <1>2, <1>i, <1>k, <3>1 DEF StartExchange, Stopping, FlushPC
  <2>2. CASE ~active
    <3>1. /\ pc[t] = "s_active" /\ pc'[t] = "s_count" /\ active'
          /\ UNCHANGED <<output_file, opened>>
      BY <1>0, <1>2, <2>2 DEF StartExchange
    <3>2. output_file = 0
      BY <1>a, <1>i, <2>2, <3>1 DEF HandleInv, Stopping, FlushPC
    <3> QED
      BY <1>a, <3>1, <3>2 DEF HandleInv
  <2> QED
    BY <2>1, <2>2
<1>3. CASE OpenFile(t)
  <2>1. /\ pc[t] = "s_open" /\ pc'[t] = "idle" /\ opened' = opened + 1 /\ active' = active
    BY <1>0, <1>i, <1>3 DEF OpenFile, Return
  <2>2. active
    BY <1>i, <2>1 DEF HandleInv
  <2> QED
    BY <1>0, <1>a, <2>1, <2>2 DEF HandleInv
<1>4. CASE OpenFails(t)
  <2>1. pc[t] = "s_open" /\ pc'[t] = "idle" /\ output_file' = 0
    BY <1>0, <1>i, <1>4 DEF OpenFails, Return
  <2> QED
    BY <1>a, <2>1 DEF HandleInv
<1>5. CASE RecheckActive(t)
  <2>1. CASE active
    <3>1. /\ pc[t] = "h_active" /\ pc'[t] = "h_limit"
          /\ UNCHANGED <<active, output_file, opened, call, stopping>>
      BY <1>0, <1>5, <2>1 DEF RecheckActive
    <3>2. \A u \in Threads : pc[u] \notin StartPC
      BY <3>1 DEF SessionInv, CallPlaces
    <3>3. write_to_file => output_file # 0
      BY <2>1, <3>2 DEF SessionInv, FileInv
    <3>4. \A u \in Threads : pc'[u] \notin ResetPC
      BY <1>o, <3>1, <3>2
    <3> QED
      BY <1>0, <2>1, <3>1, <3>3, <3>4 DEF HandleInv
  <2>2. CASE ~active
    BY <1>0, <1>5, <1>k, <2>2 DEF RecheckActive, Return, Stopping
  <2> QED
    BY <2>1, <2>2
<1>6. CASE StopExchange(t)
  <2>1. CASE active
    <3>1. pc[t] = "x_active" /\ pc'[t] = "x_file" /\ UNCHANGED <<output_file, opened, call>>
      BY <1>0, <1>6, <2>1 DEF StopExchange
    <3>2. Stopping(t)'
      BY <3>1 DEF Stopping
    <3>3. \A u \in Threads : pc'[u] \notin StartPC
      BY <1>o, <3>1 DEF SessionInv, CallPlaces
    <3> QED
      BY <1>o, <3>1, <3>2, <3>3 DEF HandleInv
  <2>2. CASE ~active
    BY <1>0, <1>6, <1>k, <2>2 DEF StopExchange, Return, Stopping
  <2> QED
    BY <2>1, <2>2
<1>7. CASE StopCheckFile(t) \/ CloseFile(t)
  <2>1. /\ output_file' = 0 \/ Stopping(t)'
        /\ pc[t] \in {"x_file", "f_done"}
        /\ pc'[t] \in {"f_lock", "idle"} /\ UNCHANGED <<active, opened>>
    BY <1>0, <1>7 DEF StopCheckFile, CloseFile, Return, Stopping
  <2>2. \A u \in Threads : pc'[u] \notin StartPC
    BY <1>o, <2>1 DEF SessionInv, CallPlaces
  <2> QED
    BY <1>o, <2>1, <2>2 DEF HandleInv
<1>8. CASE Enter(t)
  <2>1. CASE ~BeginReset(t)
    <3>1. /\ pc[t] = "idle" /\ pc'[t] \in {"s_active", "h_active", "x_active"}
          /\ UNCHANGED <<active, output_file, opened, stopping>>
      BY <1>0, <1>8, <2>1
         DEF Enter, BeginStart, AutoStartHook, EnterStart, EnterHook, BeginStop, LibraryUse
    <3> QED
      BY <1>k, <3>1 DEF Stopping
  <2> QED
    BY <1>1, <2>1
<1>9. CASE ResetCount(t) \/ ResetWritePos(t) \/ ResetReadPos(t) \/ ResetDropped(t)
  <2>1. /\ UNCHANGED <<active, output_file, opened, stopping>>
        /\ pc[t] \in ResetPC /\ pc'[t] \in ResetPC \cup {"idle"}
        /\ pc'[t] \in ResetPC => call'[t] = call[t]
    BY <1>0, <1>i, <1>9 DEF ResetCount, ResetWritePos, ResetReadPos, ResetDropped, Return
  <2> QED
    BY <1>k, <2>1 DEF Stopping
<1>10. CASE \/ CheckLimit(t) \/ CountEvent(t) \/ LeaveRecord(t)
            \/ RecordSteps(t) /\ UNCHANGED hookVars
  <2>1. /\ UNCHANGED <<active, output_file, opened, stopping>>
        /\ pc[t] \in RecordPC \cup {"h_limit"} /\ pc'[t] \notin ResetPC
        /\ pc'[t] \in PassedPC => pc[t] \in PassedPC
    BY <1>0, <1>10
       DEF CheckLimit, CountEvent, LeaveRecord, RecordSteps, LoadHead, LoadTail, DropEvent,
           WriteFirst, WriteSecond, Publish, Return, RecordPC
  <2> QED
    BY <1>k, <2>1 DEF Stopping, RecordPC
<1>11. CASE HookFlushSteps(t)
  <2>1. /\ UNCHANGED <<active, output_file, opened, stopping>>
        /\ pc[t] \in FlushPC \cup {"f_lock", "f_check"}
        /\ pc'[t] \notin ResetPC \cup PassedPC
    BY <1>0, <1>11
       DEF HookFlushSteps, LockFileMutex, FlushCheckFile, WriteEvent, FlushCopy, WriteToNull,
           Unlock, FlushLoadWrite, FlushLoadRead, FlushStore, Return, FlushPC
  <2> QED
    BY <1>k, <2>1 DEF Stopping, FlushPC
<1>12. CASE CloseNull(t)
  BY <1>12 DEF CloseNull, SessionInv, FileInv
<1>13. CASE ConsumeSteps(t)
  BY <1>13 DEF ConsumeSteps, ConsumeLoadTail, ConsumeLoadHead, ConsumeCopy, ConsumeStore,
               SessionInv, PlacesInv, HookRoles, LibraryUse, ConsumePC
<1> QED
  BY <1>2, <1>3, <1>4, <1>5, <1>6, <1>7, <1>8, <1>9, <1>10, <1>11, <1>12, <1>13
     DEF ThreadStep, Continue, HookLateSteps, StartSteps, HookRecordSteps, StopSteps, LibraryUse

\* A step that publishes no event, writes none and leaves the stream alone does
\* nothing to the session.
LEMMA SessionKept ==
  ASSUME UNCHANGED <<published, trace, output_file>>
  PROVE  UNCHANGED Session!vars
BY DEF Session!vars, Accepted

\* The stream of the session, and the file as its beginning.
LEMMA FileIsCurrent ==
  ASSUME SessionInv, ReadInOrder, trace = copied
  PROVE  Session!Current
<1>1. /\ published \in Seq(Nat) /\ copied \in Seq(Half)
  BY DEF SessionInv, PlacesInv, DataTypes
<1>2. /\ Len(Accepted) = Len(published) /\ Len(trace) \in Nat
      /\ Len(trace) <= Len(published)
  BY <1>1 DEF Accepted, ReadInOrder
<1>3. \A i \in 1 .. Len(trace) : trace[i] = Accepted[i]
  BY <1>1, <1>2 DEF Accepted, ReadInOrder
<1>4. trace = SubSeq(Accepted, 1, Len(trace))
  <2>1. SubSeq(Accepted, 1, Len(trace)) = [i \in 1 .. Len(trace) |-> Accepted[i]]
    BY <1>1, <1>2 DEF Accepted
  <2>2. trace = [i \in 1 .. Len(trace) |-> trace[i]]
    BY <1>1
  <2> QED
    BY <1>3, <2>1, <2>2
<1> QED
  BY <1>2, <1>4 DEF Session!Current

\* Where the hook runs outside start() and reset_stats(), with a session.
LEMMA SessionRuns ==
  ASSUME StoreAfterReads, SessionInv, TraceInv, Loaded, NEW t \in Threads, pc[t] # "idle", pc[t] \notin StartPC
  PROVE  RingInv /\ trace = copied /\ Session!Current
<1>1. \A u \in Threads : pc[u] \notin StartPC
  BY DEF SessionInv, CallPlaces
<1>2. RingInv /\ trace = copied
  BY <1>1 DEF TraceInv, StartPC, ResetPC
<1> QED
  BY <1>2, FileIsCurrent DEF RingInv

\* The store of write_pos_ records the event: into the open file, or as the
\* one that came too late.
LEMMA PublishRecords ==
  ASSUME LibraryUse, SingleProducer, StoreAfterReads, write_to_file, SessionInv, TraceInv, LossInv', HandleInv,
         HookEventsNumbered, NEW t \in Threads, Publish(t), UNCHANGED hookVars
  PROVE  Session!Record
<1>1. /\ pc[t] = "r_publish" /\ t \in Producers
      /\ published' = Append(published, event[t]) /\ published \in Seq(Nat)
      /\ event[t] \in 1 .. MaxRecords
      /\ pc'[t] = "r_count" /\ \A u \in Threads \ {t} : pc'[u] = pc[u]
  BY DEF Publish, Goto, SessionInv, PlacesInv, DataTypes, HookRoles, RecordPC,
         HookEventsNumbered
<1>2. Loaded
  BY <1>1 DEF Loaded, RecordPC
<1>3. Session!Current
  BY <1>1, <1>2, SessionRuns DEF StartPC
<1>4. Accepted' = Append(Accepted, Whole(event[t]))
  BY <1>1 DEF Accepted
<1>5. ASSUME output_file = 0
      PROVE  Len(Accepted) < Len(trace) + Cardinality(Producers)
  <2>1. \A u \in Threads : pc[u] \notin StartPC
    BY <1>1 DEF SessionInv, CallPlaces, StartPC
  <2>2. ~active
    BY <1>5, <2>1 DEF SessionInv, FileInv
  <2>3. opened > 0
    <3>1. opened # 0
      BY <1>1 DEF HandleInv, PassedPC
    <3> QED
      BY <3>1 DEF SessionInv, PlacesInv, HookTypeOK
  <2>4. NoneResets
    BY <2>1 DEF NoneResets, SessionInv, CallPlaces
  <2>5. \A u \in Threads : pc[u] # "x_file"
    BY <1>5 DEF SessionInv, FileInv
  <2>6. Closed'
    BY <1>1, <1>5, <2>2, <2>3, <2>4, <2>5 DEF Closed, NoneResets, hookVars
  <2>7. Len(published') + Cardinality(InRecord(PassedPC)') <= Len(trace) + Cardinality(Producers)
    BY <2>6 DEF LossInv, hookVars
  <2>8. Len(published') = Len(published) + 1 /\ Len(Accepted) = Len(published)
    BY <1>1 DEF Accepted
  <2>9. Len(published) \in Nat /\ Len(trace) \in Nat
    BY <1>1 DEF SessionInv, PlacesInv, HookTypeOK
  <2> QED
    BY <2>7, <2>8, <2>9, LateCount
<1>6. UNCHANGED <<trace, output_file>>
  BY DEF hookVars
<1>7. Whole(event[t]) \in {Whole(e) : e \in 1 .. MaxRecords}
  BY <1>1
<1> QED
  BY <1>3, <1>4, <1>5, <1>6, <1>7 DEF Session!Record

\* What is in an open file was read from the ring in this session.
FileFollows == output_file # 0 => trace = copied

\* Every step keeps the open file with the ring.
LEMMA FollowsStep ==
  ASSUME LibraryUse, StoreAfterReads, SessionInv, SessionInv', TraceInv, HandleInv, FileFollows,
         NEW t \in Threads, ThreadStep(t)
  PROVE  FileFollows'
<1>0. DOMAIN pc = Threads
  BY DEF SessionInv, PlacesInv, DataTypes
<1>1. CASE ~StartSteps(t)
  <2>1. \/ UNCHANGED <<trace, copied>>
        \/ /\ trace' = Append(trace, event_buffer[Slot(tail[t])])
           /\ copied' = Append(copied, event_buffer[Slot(tail[t])])
           /\ output_file # 0
    BY <1>1, OtherSteps
  <2>2. output_file' # 0 => output_file # 0
    BY <1>1
       DEF ThreadStep, Continue, HookLateSteps, Enter, BeginStart, BeginReset, AutoStartHook, EnterStart,
           EnterHook, BeginStop, LibraryUse, HookRecordSteps, RecheckActive, CheckLimit,
           CountEvent, LeaveRecord, HookFlushSteps, LockFileMutex, FlushCheckFile, WriteEvent,
           WriteToNull, Unlock, StopSteps, StopExchange, StopCheckFile, CloseFile, CloseNull,
           hookVars
  <2> QED
    BY <2>1, <2>2 DEF FileFollows
<1>2. CASE OpenFile(t)
  BY <1>2 DEF OpenFile, TraceInv, FileFollows, ringData, history
<1>3. CASE OpenFails(t)
  BY <1>3 DEF OpenFails, FileFollows
<1>4. CASE ResetReadPos(t)
  <2>1. pc[t] = "s_read" /\ output_file' = output_file
    BY <1>4 DEF ResetReadPos, Goto, hookVars
  <2>2. \A u \in Threads : ~Stopping(u)
    BY <2>1 DEF SessionInv, CallPlaces, Stopping, StartPC, FlushPC
  <2>3. output_file = 0
    BY <2>1, <2>2 DEF HandleInv, ResetPC, StartPC
  <2> QED
    BY <2>1, <2>3 DEF FileFollows
<1>5. CASE StartExchange(t) \/ ResetCount(t) \/ ResetWritePos(t) \/ ResetDropped(t)
  BY <1>5
     DEF StartExchange, ResetCount, ResetWritePos, ResetDropped, FileFollows, ringData,
         history, hookVars
<1> QED
  BY <1>1, <1>2, <1>3, <1>4, <1>5 DEF StartSteps

\* What is written is the next event of the session.
LEMMA WriteSaves ==
  ASSUME StoreAfterReads, SessionInv, SessionInv', TraceInv', FileFollows', NEW t \in Threads,
         WriteEvent(t)
  PROVE  Session!Save
<1>1. /\ pc[t] = "f_copy" /\ output_file # 0
      /\ trace' = Append(trace, event_buffer[Slot(tail[t])])
      /\ UNCHANGED <<pc, published, output_file>>
  BY DEF WriteEvent, FlushCopy, CopySlot
<1>2. RingInv'
  BY <1>1 DEF TraceInv, SessionInv, CallPlaces, StartPC
<1>3. Session!Current'
  <2>1. SessionInv' /\ ReadInOrder' /\ (trace = copied)'
    BY <1>1, <1>2 DEF RingInv, FileFollows
  <2> QED
    BY <2>1, FileIsCurrent, PTL
<1>4. Len(trace') = Len(trace) + 1 /\ Len(trace) \in Nat /\ Accepted' = Accepted
  <2>1. trace \in Seq(Half)
    BY DEF SessionInv, PlacesInv, HookTypeOK
  <2> QED
    BY <1>1, <2>1 DEF Accepted
<1>5. /\ trace' = SubSeq(Accepted, 1, Len(trace'))
      /\ Len(trace') \in Len(trace) + 1 .. Len(Accepted)
  <2>1. Len(Accepted) \in Nat
    BY DEF Accepted, SessionInv, PlacesInv, DataTypes
  <2> QED
    BY <1>3, <1>4, <2>1 DEF Session!Current
<1> QED
  BY <1>1, <1>4, <1>5 DEF Session!Save

\* stop() closes the file when all but the late events are in it.
LEMMA CloseCloses ==
  ASSUME SingleProducer, StoreAfterReads, SessionInv, TraceInv, LossInv, FileFollows, NEW t \in Threads,
         CloseFile(t)
  PROVE  Session!Close
<1>1. /\ pc[t] = "f_done" /\ stopping[t] /\ output_file # 0 /\ output_file' = 0
      /\ UNCHANGED <<trace, published>>
  BY DEF CloseFile, history
<1>2. /\ Len(published) \in Nat /\ Len(trace) \in Nat /\ Len(Accepted) = Len(published)
      /\ Accepted' = Accepted
  <2>1. published \in Seq(Nat) /\ trace \in Seq(Half)
    BY DEF SessionInv, PlacesInv, DataTypes, HookTypeOK
  <2> QED
    BY <1>1, <2>1 DEF Accepted
<1>3. trace = copied
  BY <1>1 DEF FileFollows
<1>4. RingInv
  BY <1>1 DEF TraceInv, SessionInv, CallPlaces, StartPC
<1>5. Session!Current
  BY <1>3, <1>4, FileIsCurrent DEF RingInv
<1>6. Len(published) + Cardinality(InRecord(PassedPC)) <= Len(trace) + Cardinality(Producers)
  BY <1>1, <1>3 DEF LossInv
<1>7. Len(Accepted) <= Len(trace) + Cardinality(Producers)
  BY <1>2, <1>6, LateCount
<1> QED
  BY <1>1, <1>2, <1>5, <1>7 DEF Session!Close

\* The steps of start() and reset_stats() forget the last session and open the
\* file of the next one.
LEMMA ResetForgets ==
  ASSUME SessionInv, TraceInv, HandleInv, NEW t \in Threads, StartSteps(t)
  PROVE  Session!Forget \/ Session!Open \/ UNCHANGED Session!vars
<1>1. pc[t] \in ResetPC => output_file = 0
  <2>1. ASSUME pc[t] \in ResetPC
        PROVE  \A u \in Threads : ~Stopping(u)
    BY <2>1 DEF SessionInv, CallPlaces, Stopping, StartPC, ResetPC, FlushPC
  <2> QED
    BY <2>1 DEF HandleInv
<1>2. CASE ResetWritePos(t)
  <2>1. pc[t] = "s_write" /\ published' = <<>> /\ UNCHANGED <<trace, output_file>>
    BY <1>2 DEF ResetWritePos, Goto, hookVars
  <2> QED
    BY <1>1, <2>1 DEF Session!Forget, Accepted, ResetPC, StartPC
<1>3. CASE OpenFile(t)
  <2>1. /\ pc[t] = "s_open" /\ trace' = <<>> /\ output_file' # 0
        /\ UNCHANGED published
    BY <1>3 DEF OpenFile, ringData, history, SessionInv, PlacesInv, HookTypeOK
  <2>2. published = <<>> /\ output_file = 0
    BY <1>1, <2>1 DEF TraceInv, ResetPC, StartPC
  <2> QED
    BY <2>1, <2>2 DEF Session!Open, Accepted
<1>4. CASE OpenFails(t)
  <2>1. pc[t] = "s_open" /\ output_file' = 0 /\ UNCHANGED <<trace, published>>
    BY <1>4 DEF OpenFails, ringData, history
  <2> QED
    BY <1>1, <2>1, SessionKept DEF ResetPC, StartPC
<1>5. CASE StartExchange(t) \/ ResetCount(t) \/ ResetReadPos(t) \/ ResetDropped(t)
  BY <1>5, SessionKept
     DEF StartExchange, ResetCount, ResetReadPos, ResetDropped, ringData, history, hookVars
<1> QED
  BY <1>2, <1>3, <1>4, <1>5 DEF StartSteps

\* Every step of a thread is a step of the session or none.
LEMMA SessionStep ==
  ASSUME LibraryUse, SingleProducer, StoreAfterReads, write_to_file, SessionInv, SessionInv', TraceInv,
         TraceInv', LossInv, LossInv', HandleInv, FileFollows, FileFollows',
         HookEventsNumbered, NEW t \in Threads, ThreadStep(t)
  PROVE  Session!Next \/ UNCHANGED Session!vars
<1> USE SessionKept DEF hookVars, ringData, history, Session!Next
<1>1. CASE Enter(t)
  BY <1>1 DEF Enter, BeginStart, BeginReset, AutoStartHook, EnterStart, EnterHook,
              BeginStop, LibraryUse
<1>2. CASE StartSteps(t)
  BY <1>2, ResetForgets
<1>3. CASE RecheckActive(t) \/ CheckLimit(t) \/ CountEvent(t) \/ LeaveRecord(t)
  BY <1>3 DEF RecheckActive, CheckLimit, CountEvent, LeaveRecord
<1>4. CASE RecordSteps(t) /\ UNCHANGED hookVars
  BY <1>4, PublishRecords
     DEF RecordSteps, LoadHead, LoadTail, DropEvent, WriteFirst, WriteSecond
<1>5. CASE WriteEvent(t)
  BY <1>5, WriteSaves
<1>6. CASE \/ LockFileMutex(t) \/ FlushCheckFile(t) \/ WriteToNull(t) \/ Unlock(t)
           \/ (FlushLoadWrite(t) \/ FlushLoadRead(t) \/ FlushStore(t)) /\ UNCHANGED hookVars
  BY <1>6 DEF LockFileMutex, FlushCheckFile, WriteToNull, Unlock, FlushLoadWrite,
              FlushLoadRead, FlushStore
<1>7. CASE CloseFile(t)
  BY <1>7, CloseCloses
<1>8. CASE StopExchange(t) \/ StopCheckFile(t) \/ CloseNull(t)
  BY <1>8 DEF StopExchange, StopCheckFile, CloseNull
<1>9. CASE ConsumeSteps(t)
  BY <1>9 DEF ConsumeSteps, ConsumeLoadTail, ConsumeLoadHead, ConsumeCopy, ConsumeStore,
              SessionInv, PlacesInv, HookRoles, LibraryUse, ConsumePC, Goto
<1> QED
  BY <1>1, <1>2, <1>3, <1>4, <1>5, <1>6, <1>7, <1>8, <1>9
     DEF ThreadStep, Continue, HookLateSteps, HookRecordSteps, HookFlushSteps, StopSteps, LibraryUse

\* In the documented use with one thread that records, the events, the open
\* file and what stop() loses fit together in every reachable state.
LEMMA HandleCorrect ==
  ASSUME LibraryUse, SingleProducer, StoreAfterReads
  PROVE  Spec => [](HandleInv /\ FileFollows /\ HookEventsNumbered)
<1>1. Init => HandleInv /\ FileFollows /\ HookEventsNumbered
  <2> SUFFICES ASSUME Init
               PROVE  HandleInv /\ FileFollows /\ HookEventsNumbered
    OBVIOUS
  <2>1. /\ output_file = 0 /\ records = 0
        /\ \A u \in Threads : pc[u] = "idle"
    BY DEF Init, RingInit
  <2> QED
    BY <2>1, BoundAssumption
       DEF HandleInv, FileFollows, HookEventsNumbered, PassedPC, ResetPC, StartPC, RecordPC,
           Threads
<1>2. /\ SessionInv /\ TraceInv /\ (SessionInv /\ TraceInv)'
      /\ HandleInv /\ FileFollows /\ HookEventsNumbered /\ [Next]_vars
      => (HandleInv /\ FileFollows /\ HookEventsNumbered)'
  <2> SUFFICES ASSUME SessionInv, TraceInv, SessionInv', HandleInv, FileFollows,
                      HookEventsNumbered, [Next]_vars
               PROVE  HandleInv' /\ FileFollows' /\ HookEventsNumbered'
    OBVIOUS
  <2>1. CASE UNCHANGED vars
    BY <2>1 DEF vars, ringVars, hookVars, HandleInv, FileFollows, HookEventsNumbered, Stopping
  <2> QED
    BY <2>1, HandleStep, FollowsStep, NumbersStep DEF Next, ThreadStep
<1> QED
  BY <1>1, <1>2, TraceCorrect, PTL DEF Spec

\* The hook implements the trace session: from one start() to the next, and
\* whatever the recording thread and the owner do in between, the file is the
\* beginning of what was recorded in the session, only grows, and is closed by
\* stop() with at most one event missing.  With stores seen in order.
THEOREM HookImplementsSession ==
  ASSUME LibraryUse, SingleProducer, StoreAfterReads, write_to_file
  PROVE  Spec => SessionSpec
<1>1. Init => Session!Init
  BY DEF Init, RingInit, Session!Init, Accepted
<1>2. /\ SessionInv /\ TraceInv /\ (SessionInv /\ TraceInv)' /\ LossInv /\ LossInv'
      /\ HandleInv /\ FileFollows /\ HookEventsNumbered /\ FileFollows'
      /\ [Next]_vars
      => [Session!Next]_Session!vars
  <2> SUFFICES ASSUME SessionInv, TraceInv, SessionInv', TraceInv', LossInv, LossInv',
                      HandleInv, FileFollows, FileFollows', HookEventsNumbered, [Next]_vars
               PROVE  Session!Next \/ UNCHANGED Session!vars
    OBVIOUS
  <2>1. CASE UNCHANGED vars
    BY <2>1, SessionKept DEF vars, ringVars, hookVars
  <2> QED
    BY <2>1, SessionStep DEF Next, ThreadStep
<1> QED
  BY <1>1, <1>2, TraceCorrect, LossCorrect, HandleCorrect, PTL DEF Spec, SessionSpec,
     Session!Spec
=============================================================================
