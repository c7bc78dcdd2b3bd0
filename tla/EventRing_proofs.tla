--------------------------- MODULE EventRing_proofs ---------------------------
(***************************************************************************)
(* Proofs about EventRing, for every set of threads and every buffer size; *)
(* with one producer and one consumer, the ring implements the bounded     *)
(* lossy queue of EventQueue.                                              *)
(***************************************************************************)
EXTENDS EventRing, Integers, SequenceTheorems, FiniteSetTheorems, TLAPS

-----------------------------------------------------------------------------
(* Slots. *)

\* The index of a position is a slot of the buffer.
LEMMA SlotRange ==
  ASSUME NEW i \in Nat
  PROVE  Slot(i) \in 0 .. BUFFER_SIZE-1
BY SizeAssumption DEF Slot

\* Two different positions less than a turn apart have different slots.
LEMMA SlotDistinct ==
  ASSUME NEW i \in Nat, NEW j \in Nat, i < j, j < i + BUFFER_SIZE
  PROVE  Slot(i) # Slot(j)
<1> DEFINE a == i \div BUFFER_SIZE
           b == j \div BUFFER_SIZE
<1>1. /\ a \in Int
      /\ i = BUFFER_SIZE * a + Slot(i)
  BY SizeAssumption DEF Slot
<1>2. /\ b \in Int
      /\ j = BUFFER_SIZE * b + Slot(j)
  BY SizeAssumption DEF Slot
<1> HIDE DEF a, b
<1>3. SUFFICES ASSUME Slot(i) = Slot(j)
               PROVE  FALSE
  OBVIOUS
<1>4. j - i = BUFFER_SIZE * b - BUFFER_SIZE * a
  BY <1>1, <1>2, <1>3, SizeAssumption, SlotRange
<1>5. j - i = BUFFER_SIZE * (b - a)
  BY <1>1, <1>2, <1>4, SizeAssumption
<1>6. CASE b - a <= 0
  BY <1>1, <1>2, <1>5, <1>6, SizeAssumption
<1>7. CASE b - a >= 1
  BY <1>1, <1>2, <1>5, <1>7, SizeAssumption
<1> QED
  BY <1>1, <1>2, <1>6, <1>7

\* Positions a whole turn apart have the same slot.
LEMMA SlotTurn ==
  ASSUME NEW i \in Nat
  PROVE  Slot(i + BUFFER_SIZE) = Slot(i)
<1> DEFINE a == i \div BUFFER_SIZE
           b == (i + BUFFER_SIZE) \div BUFFER_SIZE
           d == b - a - 1
<1>1. /\ a \in Int
      /\ i = BUFFER_SIZE * a + Slot(i)
  BY SizeAssumption DEF Slot
<1>2. /\ b \in Int
      /\ i + BUFFER_SIZE = BUFFER_SIZE * b + Slot(i + BUFFER_SIZE)
  BY SizeAssumption DEF Slot
<1>3. /\ Slot(i) \in 0 .. BUFFER_SIZE-1
      /\ Slot(i + BUFFER_SIZE) \in 0 .. BUFFER_SIZE-1
  BY SlotRange, SizeAssumption
<1> HIDE DEF a, b
<1>4. BUFFER_SIZE * b - BUFFER_SIZE * a - BUFFER_SIZE = Slot(i) - Slot(i + BUFFER_SIZE)
  BY <1>1, <1>2, <1>3, SizeAssumption
<1>5. /\ d \in Int
      /\ BUFFER_SIZE * d = Slot(i) - Slot(i + BUFFER_SIZE)
  BY <1>1, <1>2, <1>4, SizeAssumption
<1> HIDE DEF d
<1>6. CASE d <= -1
  BY <1>3, <1>5, <1>6, SizeAssumption
<1>7. CASE d >= 1
  BY <1>3, <1>5, <1>7, SizeAssumption
<1>8. CASE d = 0
  BY <1>3, <1>5, <1>8, SizeAssumption
<1> QED
  BY <1>5, <1>6, <1>7, <1>8

\* Positions fewer than BUFFER_SIZE apart share a slot, in the sense of the
\* full test, exactly when BUFFER_SIZE - 1 events are pending.
LEMMA FullMeansFull ==
  ASSUME NEW h \in Nat, NEW r \in Nat, r <= h, h < r + BUFFER_SIZE
  PROVE  Full(h, r) <=> h - r = BUFFER_SIZE - 1
<1>1. CASE h + 1 < r + BUFFER_SIZE
  BY <1>1, SlotDistinct, SizeAssumption DEF Full
<1>2. CASE h + 1 = r + BUFFER_SIZE
  BY <1>2, SlotTurn, SizeAssumption DEF Full
<1> QED
  BY <1>1, <1>2, SizeAssumption

-----------------------------------------------------------------------------
\* All the steps of a producer.
RecordCall(t) ==
  BeginRecord(t) \/ RecordSteps(t) \/ EndRecord(t) \/ FlushAfterRecord(t)

-----------------------------------------------------------------------------
(* Types. *)

\* Every variable of the ring has its type in every reachable state.
THEOREM TypeCorrect == RingSpec => []TypeOK
<1>1. RingInit => TypeOK
  BY SizeAssumption DEF RingInit, TypeOK, Half, Whole
<1>2. ASSUME TypeOK, [RingNext]_ringVars
      PROVE  TypeOK'
  <2> USE <1>2 DEF TypeOK, RecordPC, ConsumePC, FlushPC, positions, locals, history
  <2>1. ASSUME NEW t \in Producers, RecordCall(t)
        PROVE  TypeOK'
    <3> t \in Threads
      BY DEF Threads
    <3>1. CASE BeginRecord(t)
      BY <3>1 DEF BeginRecord, NewEvent, Goto
    <3>2. CASE LoadHead(t)
      BY <3>2 DEF LoadHead, Goto
    <3>3. CASE LoadTail(t)
      BY <3>3 DEF LoadTail, Goto
    <3>4. CASE DropEvent(t)
      BY <3>4 DEF DropEvent, Goto
    <3>5. CASE WriteFirst(t)
      BY <3>5 DEF WriteFirst, Goto, Half
    <3>6. CASE WriteSecond(t)
      BY <3>6 DEF WriteSecond, Goto, Half
    <3>7. CASE Publish(t)
      BY <3>7 DEF Publish, Goto
    <3>8. CASE EndRecord(t)
      BY <3>8 DEF EndRecord, Goto
    <3>9. CASE FlushAfterRecord(t)
      BY <3>9 DEF FlushAfterRecord, Goto
    <3> QED
      BY <2>1, <3>1, <3>2, <3>3, <3>4, <3>5, <3>6, <3>7, <3>8, <3>9
         DEF RecordCall, RecordSteps
  <2>2. ASSUME NEW t \in Readers, BeginConsume(t) \/ ConsumeSteps(t)
        PROVE  TypeOK'
    <3> t \in Threads
      BY DEF Threads
    <3>1. CASE BeginConsume(t)
      BY <3>1 DEF BeginConsume, Goto
    <3>2. CASE ConsumeLoadTail(t)
      BY <3>2 DEF ConsumeLoadTail, Goto
    <3>3. CASE ConsumeLoadHead(t)
      BY <3>3 DEF ConsumeLoadHead, Goto
    <3>4. CASE ConsumeCopy(t)
      <4>1. event_buffer[Slot(tail[t])] \in Half
        BY SlotRange
      <4>2. copied' \in Seq(Half)
        BY <3>4, <4>1 DEF ConsumeCopy, CopySlot
      <4> QED
        BY <3>4, <4>2 DEF ConsumeCopy, CopySlot
    <3>5. CASE ConsumeStore(t)
      BY <3>5 DEF ConsumeStore, StoreReadPos, Goto
    <3> QED
      BY <2>2, <3>1, <3>2, <3>3, <3>4, <3>5 DEF ConsumeSteps
  <2>3. ASSUME NEW t \in Flushers,
               BeginFlush(t) \/ LockFile(t) \/ FlushSteps(t) \/ UnlockFile(t)
        PROVE  TypeOK'
    <3> t \in Threads
      BY DEF Threads
    <3>1. CASE BeginFlush(t)
      BY <3>1 DEF BeginFlush, Goto
    <3>2. CASE LockFile(t)
      BY <3>2 DEF LockFile, Goto
    <3>3. CASE FlushLoadWrite(t)
      BY <3>3 DEF FlushLoadWrite, Goto
    <3>4. CASE FlushLoadRead(t)
      BY <3>4 DEF FlushLoadRead, Goto
    <3>5. CASE FlushCopy(t)
      <4>1. event_buffer[Slot(tail[t])] \in Half
        BY SlotRange
      <4>2. copied' \in Seq(Half)
        BY <3>5, <4>1 DEF FlushCopy, CopySlot
      <4> QED
        BY <3>5, <4>2 DEF FlushCopy, CopySlot
    <3>6. CASE FlushStore(t)
      BY <3>6 DEF FlushStore, StoreReadPos, Goto
    <3>7. CASE UnlockFile(t)
      BY <3>7 DEF UnlockFile, Goto
    <3> QED
      BY <2>3, <3>1, <3>2, <3>3, <3>4, <3>5, <3>6, <3>7 DEF FlushSteps
  <2>4. ASSUME NEW t \in Readers \cup Flushers, LateSteps(t)
        PROVE  TypeOK'
    <3> t \in Threads
      BY DEF Threads
    <3>1. CASE GiveBackEarly(t)
      BY <3>1 DEF GiveBackEarly, StoreReadPos
    <3>2. CASE LateCopy(t)
      <4>1. event_buffer[Slot(tail[t])] \in Half
        BY SlotRange
      <4>2. copied' \in Seq(Half)
        BY <3>2, <4>1 DEF LateCopy, CopySlot
      <4> QED
        BY <3>2, <4>2 DEF LateCopy, CopySlot
    <3>3. CASE EndLate(t)
      BY <3>3 DEF EndLate
    <3> QED
      BY <2>4, <3>1, <3>2, <3>3 DEF LateSteps
  <2>5. CASE UNCHANGED ringVars
    BY <2>5 DEF ringVars
  <2> QED
    BY <1>2, <2>1, <2>2, <2>3, <2>4, <2>5 DEF RingNext, RecordCall
<1> QED
  BY <1>1, <1>2, PTL DEF RingSpec
-----------------------------------------------------------------------------
(* The file mutex, for any threads. *)

\* However many threads flush, whatever else they do, flush_to_file runs in the
\* holder of file_mutex_ alone.
THEOREM FlushersExclude == RingSpec => []FlushExclusive
<1>1. RingInit => FlushExclusive
  BY DEF RingInit, FlushExclusive, FlushPC
<1>2. TypeOK /\ FlushExclusive /\ [RingNext]_ringVars => FlushExclusive'
  <2> SUFFICES ASSUME TypeOK, FlushExclusive, [RingNext]_ringVars
               PROVE  FlushExclusive'
    OBVIOUS
  <2> USE DEF TypeOK, FlushExclusive, FlushPC, Goto
  <2>1. ASSUME NEW t \in Producers, RecordCall(t)
        PROVE  FlushExclusive'
    BY <2>1 DEF RecordCall, RecordSteps, BeginRecord, LoadHead, LoadTail, DropEvent,
                WriteFirst, WriteSecond, Publish, EndRecord, FlushAfterRecord, Threads
  <2>2. ASSUME NEW t \in Readers, BeginConsume(t) \/ ConsumeSteps(t)
        PROVE  FlushExclusive'
    BY <2>2 DEF ConsumeSteps, BeginConsume, ConsumeLoadTail, ConsumeLoadHead,
                ConsumeCopy, ConsumeStore, Threads
  <2>3. ASSUME NEW t \in Flushers,
               BeginFlush(t) \/ LockFile(t) \/ FlushSteps(t) \/ UnlockFile(t)
        PROVE  FlushExclusive'
    <3>1. CASE BeginFlush(t) \/ FlushSteps(t)
      BY <3>1 DEF BeginFlush, FlushSteps, FlushLoadWrite, FlushLoadRead,
                  FlushCopy, FlushStore, Threads
    <3>2. CASE LockFile(t)
      BY <3>2, ThreadAssumption DEF LockFile, Threads
    <3>3. CASE UnlockFile(t)
      BY <3>3 DEF UnlockFile, Threads
    <3> QED
      BY <2>3, <3>1, <3>2, <3>3
  <2>4. ASSUME NEW t \in Readers \cup Flushers, LateSteps(t)
        PROVE  FlushExclusive'
    BY <2>4 DEF LateSteps, GiveBackEarly, LateCopy, EndLate, CopyPC, LatePC, Threads
  <2>5. CASE UNCHANGED ringVars
    BY <2>5 DEF ringVars
  <2> QED
    BY <2>1, <2>2, <2>3, <2>4, <2>5 DEF RingNext, RecordCall
<1> QED
  BY <1>1, <1>2, TypeCorrect, PTL DEF RingSpec

-----------------------------------------------------------------------------
(* One producer, any consumers. *)

\* The producer works at write_pos, and no thread has seen a position beyond it.
SeenPositions ==
  /\ OwnPosition
  /\ \A t \in Threads : pc[t] \in RecordPC => t \in Producers
  /\ \A t \in Producers :
       pc[t] \in {"r_tail", "r_first", "r_second", "r_publish"} => head[t] = write_pos
  /\ \A t \in Threads : head[t] <= write_pos /\ tail[t] <= write_pos
  /\ ReaderBehindWriter

\* One producer's events have positions of their own, and read_pos_ never
\* passes write_pos_, even when several readers and flushers consume at the
\* same time: consume_available_events never counts a negative number of events.
THEOREM OneProducer ==
  ASSUME SingleProducer
  PROVE  RingSpec => [](OwnPosition /\ ReaderBehindWriter)
<1>1. RingInit => SeenPositions
  BY DEF RingInit, SeenPositions, OwnPosition, ReaderBehindWriter, RecordPC, Threads
<1>2. TypeOK /\ SeenPositions /\ [RingNext]_ringVars => SeenPositions'
  <2> SUFFICES ASSUME TypeOK, SeenPositions, [RingNext]_ringVars
               PROVE  SeenPositions'
    OBVIOUS
  <2> USE DEF TypeOK, SeenPositions, OwnPosition, ReaderBehindWriter, RecordPC,
              ConsumePC, FlushPC, Goto, positions, locals, history
  <2>1. ASSUME NEW t \in Producers, RecordCall(t)
        PROVE  SeenPositions'
    <3> t \in Threads /\ \A u \in Producers : u = t
      BY DEF Threads, SingleProducer
    <3>1. CASE Publish(t)
      <4>1. Len(published') = Len(published) + 1
        BY <3>1 DEF Publish
      <4> QED
        BY <3>1, <4>1 DEF Publish
    <3>2. CASE BeginRecord(t)
      BY <3>2 DEF BeginRecord, NewEvent
    <3>3. CASE LoadHead(t)
      BY <3>3 DEF LoadHead
    <3>4. CASE LoadTail(t)
      BY <3>4 DEF LoadTail
    <3>5. CASE DropEvent(t) \/ WriteFirst(t) \/ WriteSecond(t) \/ EndRecord(t)
      BY SMTT(30), <3>5 DEF DropEvent, WriteFirst, WriteSecond, EndRecord
    <3>6. CASE FlushAfterRecord(t)
      BY <3>6 DEF FlushAfterRecord
    <3> QED
      BY <2>1, <3>1, <3>2, <3>3, <3>4, <3>5, <3>6 DEF RecordCall, RecordSteps
  <2>2. ASSUME NEW t \in Readers, BeginConsume(t) \/ ConsumeSteps(t)
        PROVE  SeenPositions'
    <3> t \in Threads
      BY DEF Threads
    <3>1. CASE BeginConsume(t)
      BY <3>1 DEF BeginConsume
    <3>2. CASE ConsumeLoadTail(t)
      BY <3>2 DEF ConsumeLoadTail
    <3>3. CASE ConsumeLoadHead(t)
      BY <3>3 DEF ConsumeLoadHead
    <3>4. CASE ConsumeCopy(t)
      BY <3>4 DEF ConsumeCopy, CopySlot
    <3>5. CASE ConsumeStore(t)
      BY <3>5 DEF ConsumeStore, StoreReadPos
    <3> QED
      BY <2>2, <3>1, <3>2, <3>3, <3>4, <3>5 DEF ConsumeSteps
  <2>3. ASSUME NEW t \in Flushers,
               BeginFlush(t) \/ LockFile(t) \/ FlushSteps(t) \/ UnlockFile(t)
        PROVE  SeenPositions'
    <3> t \in Threads
      BY DEF Threads
    <3>1. CASE BeginFlush(t)
      BY <3>1 DEF BeginFlush
    <3>6. CASE LockFile(t)
      BY <3>6 DEF LockFile
    <3>7. CASE UnlockFile(t)
      BY <3>7 DEF UnlockFile
    <3>2. CASE FlushLoadWrite(t)
      BY <3>2 DEF FlushLoadWrite
    <3>3. CASE FlushLoadRead(t)
      BY <3>3 DEF FlushLoadRead
    <3>4. CASE FlushCopy(t)
      BY <3>4 DEF FlushCopy, CopySlot
    <3>5. CASE FlushStore(t)
      BY <3>5 DEF FlushStore, StoreReadPos
    <3> QED
      BY <2>3, <3>1, <3>2, <3>3, <3>4, <3>5, <3>6, <3>7 DEF FlushSteps
  <2>4. ASSUME NEW t \in Readers \cup Flushers, LateSteps(t)
        PROVE  SeenPositions'
    <3> t \in Threads
      BY DEF Threads
    <3>1. CASE GiveBackEarly(t)
      BY <3>1 DEF GiveBackEarly, CopyPC, StoreReadPos
    <3>2. CASE LateCopy(t)
      BY <3>2 DEF LateCopy, LatePC, CopySlot
    <3>3. CASE EndLate(t)
      BY <3>3 DEF EndLate, LatePC
    <3> QED
      BY <2>4, <3>1, <3>2, <3>3 DEF LateSteps
  <2>5. CASE UNCHANGED ringVars
    BY <2>5 DEF ringVars
  <2> QED
    BY <2>1, <2>2, <2>3, <2>4, <2>5 DEF RingNext, RecordCall
<1>3. SeenPositions => OwnPosition /\ ReaderBehindWriter
  BY DEF SeenPositions
<1> QED
  BY <1>1, <1>2, <1>3, TypeCorrect, PTL DEF RingSpec

-----------------------------------------------------------------------------
(* The ring with one producer and one consumer. *)

\* The types of the ring's data, wherever the threads are: the callers of the
\* ring have places of their own (module GGMLHook).
DataTypes ==
  /\ event_buffer \in [0 .. BUFFER_SIZE-1 -> Half]
  /\ write_pos \in Nat /\ read_pos \in Nat /\ dropped_events \in Nat
  /\ file_mutex \in Threads \cup {NoThread}
  /\ DOMAIN pc = Threads
  /\ head \in [Threads -> Nat] /\ tail \in [Threads -> Nat]
  /\ event \in [Threads -> Nat]
  /\ records \in Nat
  /\ published \in Seq(Nat)
  /\ copied \in Seq(Half)

\* The slot at write_pos is not among the pending ones.
LEMMA FreeSlot ==
  ASSUME DataTypes, PendingInSlots, NEW i \in read_pos .. write_pos-1
  PROVE  /\ i \in Nat
         /\ Slot(i) # Slot(write_pos)
BY SlotDistinct, SizeAssumption DEF DataTypes, PendingInSlots

\* Steps of record_event that only move the thread and its locals leave the
\* conjuncts about the shared state and about the consumers as they are.
LEMMA ProducerLocalStep ==
  ASSUME DataTypes, DataTypes', RingInv, NEW t \in Producers,
         pc[t] \in RecordPC \cup {"idle"},
         NEW to \in RecordPC \cup {"idle", "f_lock"}, pc' = [pc EXCEPT ![t] = to],
         \A u \in Threads \ {t} : head'[u] = head[u] /\ tail'[u] = tail[u],
         UNCHANGED <<positions, file_mutex, history>>
  PROVE  /\ Roles' /\ FlushExclusive' /\ OwnPosition' /\ ConsumerKnows'
         /\ ReaderBehindWriter' /\ (StoreAfterReads => CopiedSoFar' /\ ReadInOrder')
<1> t \in Threads
  BY DEF Threads
<1> USE DEF RingInv, RecordPC, ConsumePC, FlushPC, CopyPC, positions, history
<1>1. Roles' /\ FlushExclusive'
  BY DEF Roles, FlushExclusive, DataTypes
<1>2. OwnPosition' /\ ReaderBehindWriter' /\ (StoreAfterReads => ReadInOrder')
  BY DEF OwnPosition, ReadInOrder, ReaderBehindWriter, DataTypes
<1>3. ConsumerKnows'
  BY DEF ConsumerKnows, DataTypes
<1>4. StoreAfterReads => CopiedSoFar'
  BY DEF CopiedSoFar, DataTypes
<1> QED
  BY <1>1, <1>2, <1>3, <1>4

\* The steps of the producer preserve the invariant.
LEMMA ProducerStep ==
  ASSUME SingleProducer, DataTypes, DataTypes', RingInv,
         NEW t \in Producers, RecordCall(t)
  PROVE  RingInv'
<1> t \in Threads
  BY DEF Threads
<1> USE DEF RingInv, RecordPC, positions, locals, history
<1>1. CASE BeginRecord(t)
  <2> USE <1>1 DEF BeginRecord, NewEvent, Goto
  <2>1. PendingInSlots' /\ ProducerKnows'
    BY DEF PendingInSlots, ProducerKnows, DataTypes
  <2> QED
    BY <2>1, ProducerLocalStep
<1>2. CASE LoadHead(t)
  <2> USE <1>2 DEF LoadHead, Goto
  <2>1. PendingInSlots' /\ ProducerKnows'
    BY DEF PendingInSlots, ProducerKnows, SingleProducer, DataTypes
  <2> QED
    BY <2>1, ProducerLocalStep DEF DataTypes
<1>3. CASE LoadTail(t)
  <2> USE <1>3 DEF LoadTail, Goto
  <2>1. head[t] = write_pos /\ (~Full(head[t], read_pos) =>
                                  write_pos + 1 < read_pos + BUFFER_SIZE)
    BY FullMeansFull, SizeAssumption
       DEF ProducerKnows, PendingInSlots, DataTypes
  <2>2. PendingInSlots' /\ ProducerKnows'
    BY <2>1 DEF PendingInSlots, ProducerKnows, SingleProducer, DataTypes
  <2> QED
    BY <2>2, ProducerLocalStep DEF DataTypes
<1>4. CASE DropEvent(t)
  <2> USE <1>4 DEF DropEvent, Goto
  <2>1. PendingInSlots'
    BY DEF PendingInSlots
  <2>2. ProducerKnows'
    BY DEF ProducerKnows, SingleProducer, DataTypes
  <2> QED
    BY <2>1, <2>2, ProducerLocalStep
<1>5. CASE WriteFirst(t)
  <2> USE <1>5 DEF WriteFirst, Goto
  <2>1. head[t] = write_pos /\ Slot(write_pos) \in 0 .. BUFFER_SIZE-1
    BY SlotRange DEF ProducerKnows, DataTypes
  <2>2. PendingInSlots'
    <3>1. ASSUME NEW i \in read_pos .. write_pos-1
          PROVE  event_buffer'[Slot(i)] = event_buffer[Slot(i)]
      BY <2>1, FreeSlot, SlotRange DEF DataTypes
    <3> QED
      BY <3>1 DEF PendingInSlots
  <2>3. ProducerKnows'
    BY SMTT(30), <2>1 DEF ProducerKnows, SingleProducer, DataTypes, Half
  <2> QED
    BY <2>2, <2>3, ProducerLocalStep
<1>6. CASE WriteSecond(t)
  <2> USE <1>6 DEF WriteSecond, Goto
  <2>1. head[t] = write_pos /\ Slot(write_pos) \in 0 .. BUFFER_SIZE-1
    BY SlotRange DEF ProducerKnows, DataTypes
  <2>2. PendingInSlots'
    <3>1. ASSUME NEW i \in read_pos .. write_pos-1
          PROVE  event_buffer'[Slot(i)] = event_buffer[Slot(i)]
      BY <2>1, FreeSlot, SlotRange DEF DataTypes
    <3> QED
      BY <3>1 DEF PendingInSlots
  <2>3. ProducerKnows'
    BY ZenonT(30), <2>1 DEF ProducerKnows, SingleProducer, DataTypes, Half, Whole
  <2> QED
    BY <2>2, <2>3, ProducerLocalStep
<1>7. CASE Publish(t)
  <2> USE <1>7 DEF Publish, Goto
  <2>1. /\ head[t] = write_pos
        /\ write_pos + 1 < read_pos + BUFFER_SIZE
        /\ event_buffer[Slot(write_pos)] = Whole(event[t])
    BY DEF ProducerKnows
  <2>2. /\ Len(published') = Len(published) + 1
        /\ \A i \in 1 .. Len(published) : published'[i] = published[i]
        /\ published'[Len(published) + 1] = event[t]
    BY DEF DataTypes
  <2>3. OwnPosition' /\ write_pos' = write_pos + 1
    BY <2>1, <2>2 DEF OwnPosition
  <2>4. PendingInSlots'
    <3>1. ASSUME NEW i \in read_pos .. write_pos
          PROVE  event_buffer'[Slot(i)] = Whole(published'[i+1])
      <4>1. CASE i = write_pos
        BY <2>1, <2>2, <4>1 DEF OwnPosition
      <4>2. CASE i \in read_pos .. write_pos-1
        BY <2>2, <4>2 DEF PendingInSlots, OwnPosition, DataTypes
      <4>3. i = write_pos \/ i \in read_pos .. write_pos-1
        BY DEF DataTypes
      <4> QED
        BY <4>1, <4>2, <4>3
    <3>2. write_pos'-1 = write_pos /\ read_pos' = read_pos
      BY <2>3 DEF DataTypes
    <3>3. read_pos' <= write_pos' /\ write_pos' < read_pos' + BUFFER_SIZE
      BY <2>1, <2>3, SizeAssumption DEF PendingInSlots, DataTypes
    <3> QED
      BY <3>1, <3>2, <3>3 DEF PendingInSlots
  <2>5. ProducerKnows'
    BY DEF ProducerKnows, SingleProducer, DataTypes
  <2>6. ConsumerKnows'
    BY <2>3 DEF ConsumerKnows, CopyPC, DataTypes
  <2>7. StoreAfterReads => ReadInOrder'
    BY <2>2 DEF ReadInOrder, DataTypes
  <2>8. Roles' /\ FlushExclusive'
    BY DEF Roles, FlushExclusive, ConsumePC, FlushPC, DataTypes
  <2>9. ReaderBehindWriter' /\ (StoreAfterReads => CopiedSoFar')
    BY <2>3 DEF CopiedSoFar, ReaderBehindWriter, CopyPC, DataTypes
  <2> QED
    BY <2>3, <2>4, <2>5, <2>6, <2>7, <2>8, <2>9
<1>8. CASE EndRecord(t)
  <2> USE <1>8 DEF EndRecord, Goto
  <2>1. PendingInSlots'
    BY DEF PendingInSlots
  <2>2. ProducerKnows'
    BY DEF ProducerKnows, SingleProducer, DataTypes
  <2> QED
    BY <2>1, <2>2, ProducerLocalStep
<1>9. CASE FlushAfterRecord(t)
  <2> USE <1>9 DEF FlushAfterRecord, Goto
  <2>1. PendingInSlots'
    BY DEF PendingInSlots
  <2>2. ProducerKnows'
    BY DEF ProducerKnows, SingleProducer, DataTypes
  <2> QED
    BY <2>1, <2>2, ProducerLocalStep
<1> QED
  BY <1>1, <1>2, <1>3, <1>4, <1>5, <1>6, <1>7, <1>8, <1>9
     DEF RecordCall, RecordSteps

-----------------------------------------------------------------------------
\* At most one thread is consuming: the only reader, or the thread that
\* flushes under file_mutex_.
LEMMA OnlyConsumer ==
  ASSUME SingleConsumer, RingInv,
         NEW t \in Threads, pc[t] \in ConsumePC \cup FlushPC,
         NEW u \in Threads, pc[u] \in ConsumePC \cup FlushPC
  PROVE  u = t
BY DEF SingleConsumer, RingInv, Roles, FlushExclusive, ConsumePC, FlushPC

\* A step of a consumer that touches neither the slots nor what the producer
\* works with preserves the conjuncts about the producer's side.
LEMMA ConsumerLocalStep ==
  ASSUME DataTypes, DataTypes', RingInv, NEW t \in Threads,
         NEW to \in ConsumePC \cup FlushPC \cup {"idle", "f_lock"},
         pc' = [pc EXCEPT ![t] = to],
         \A u \in Threads : pc[u] \in RecordPC =>
                              head'[u] = head[u] /\ event'[u] = event[u],
         pc[t] \notin RecordPC,
         UNCHANGED <<event_buffer, positions, published>>
  PROVE  OwnPosition' /\ PendingInSlots' /\ ProducerKnows'
<1> USE DEF RingInv, RecordPC, ConsumePC, FlushPC, positions
<1>1. OwnPosition'
  BY DEF OwnPosition
<1>2. PendingInSlots'
  BY DEF PendingInSlots
<1>3. ProducerKnows'
  BY ZenonT(30) DEF ProducerKnows, Threads, DataTypes
<1> QED
  BY <1>1, <1>2, <1>3

\* The steps of consume_available_events preserve the invariant.
LEMMA ReaderStep ==
  ASSUME SingleConsumer, DataTypes, DataTypes', RingInv,
         NEW t \in Readers, BeginConsume(t) \/ ConsumeSteps(t)
  PROVE  RingInv'
<1> t \in Threads
  BY DEF Threads
<1> USE DEF RingInv, positions, locals, history
<1>1. CASE BeginConsume(t)
  <2> USE <1>1 DEF BeginConsume, Goto
  <2>1. OwnPosition' /\ PendingInSlots' /\ ProducerKnows'
    BY ConsumerLocalStep DEF RecordPC, ConsumePC
  <2>2. Roles' /\ FlushExclusive'
    BY DEF Roles, FlushExclusive, RecordPC, ConsumePC, FlushPC, DataTypes
  <2>3. ConsumerKnows' /\ (StoreAfterReads => CopiedSoFar')
    BY DEF ConsumerKnows, CopiedSoFar, CopyPC, DataTypes
  <2>4. ReaderBehindWriter' /\ (StoreAfterReads => ReadInOrder')
    BY DEF ReadInOrder, ReaderBehindWriter, DataTypes
  <2> QED
    BY <2>1, <2>2, <2>3, <2>4
<1>2. CASE ConsumeLoadTail(t)
  <2> USE <1>2 DEF ConsumeLoadTail, Goto
  <2>1. OwnPosition' /\ PendingInSlots' /\ ProducerKnows'
    BY ConsumerLocalStep DEF RecordPC, ConsumePC
  <2>2. Roles' /\ FlushExclusive'
    BY DEF Roles, FlushExclusive, RecordPC, ConsumePC, FlushPC, DataTypes
  <2>3. ConsumerKnows' /\ (StoreAfterReads => CopiedSoFar')
    BY DEF ConsumerKnows, CopiedSoFar, CopyPC, DataTypes
  <2>4. ReaderBehindWriter' /\ (StoreAfterReads => ReadInOrder')
    BY DEF ReadInOrder, ReaderBehindWriter, DataTypes
  <2> QED
    BY <2>1, <2>2, <2>3, <2>4
<1>3. CASE ConsumeLoadHead(t)
  <2> USE <1>3 DEF ConsumeLoadHead, Goto
  <2>1. /\ tail[t] = read_pos
        /\ read_pos <= write_pos
        /\ \A u \in Threads : pc[u] \notin CopyPC
    BY OnlyConsumer DEF ConsumerKnows, PendingInSlots, ConsumePC, FlushPC, CopyPC
  <2>2. OwnPosition' /\ PendingInSlots' /\ ProducerKnows'
    BY <2>1, ConsumerLocalStep DEF RecordPC, ConsumePC, DataTypes
  <2>3. Roles' /\ FlushExclusive'
    BY DEF Roles, FlushExclusive, RecordPC, ConsumePC, FlushPC, DataTypes
  <2>4. ConsumerKnows' /\ (StoreAfterReads => CopiedSoFar')
    BY <2>1 DEF ConsumerKnows, CopiedSoFar, CopyPC, DataTypes
  <2>5. ReaderBehindWriter' /\ (StoreAfterReads => ReadInOrder')
    BY <2>1 DEF ReadInOrder, ReaderBehindWriter, DataTypes
  <2> QED
    BY <2>2, <2>3, <2>4, <2>5
<1>4. CASE ConsumeCopy(t)
  <2> USE <1>4 DEF ConsumeCopy, CopySlot
  <2>1. /\ read_pos <= tail[t] /\ head[t] <= write_pos
        /\ StoreAfterReads => Len(copied) = tail[t]
        /\ \A u \in Threads : pc[u] \in CopyPC => u = t
    BY OnlyConsumer
       DEF ConsumerKnows, CopiedSoFar, ConsumePC, FlushPC, CopyPC
  <2>2. event_buffer[Slot(tail[t])] = Whole(published[tail[t] + 1])
    BY <2>1 DEF PendingInSlots, DataTypes
  <2>3. OwnPosition' /\ PendingInSlots' /\ ProducerKnows'
    BY DEF OwnPosition, PendingInSlots, ProducerKnows, DataTypes
  <2>4. Roles' /\ FlushExclusive' /\ ReaderBehindWriter'
    BY DEF Roles, FlushExclusive, ReaderBehindWriter
  <2>5. /\ Len(copied') = Len(copied) + 1
        /\ \A i \in 1 .. Len(copied) : copied'[i] = copied[i]
        /\ copied'[Len(copied) + 1] = event_buffer[Slot(tail[t])]
    BY SlotRange DEF DataTypes
  <2>6. ConsumerKnows' /\ (StoreAfterReads => CopiedSoFar')
    BY <2>1, <2>5 DEF ConsumerKnows, CopiedSoFar, CopyPC, DataTypes
  <2>7. StoreAfterReads => ReadInOrder'
    BY SMTT(30), <2>1, <2>2, <2>5 DEF ReadInOrder, OwnPosition, DataTypes
  <2> QED
    BY <2>3, <2>4, <2>6, <2>7
<1>5. CASE ConsumeStore(t)
  <2> USE <1>5 DEF ConsumeStore, StoreReadPos, Goto
  <2>1. /\ read_pos <= head[t] /\ head[t] <= write_pos
        /\ StoreAfterReads => Len(copied) = head[t]
        /\ \A u \in Threads \ {t} : pc[u] \notin ConsumePC \cup FlushPC
    BY OnlyConsumer
       DEF ConsumerKnows, CopiedSoFar, ConsumePC, FlushPC, CopyPC
  <2>2. OwnPosition'
    BY DEF OwnPosition
  <2>3. PendingInSlots'
    BY <2>1, SizeAssumption DEF PendingInSlots, DataTypes
  <2>4. ProducerKnows'
    BY <2>1, SizeAssumption DEF ProducerKnows, Threads, RecordPC, ConsumePC, DataTypes
  <2>5. Roles' /\ FlushExclusive'
    BY DEF Roles, FlushExclusive, RecordPC, ConsumePC, FlushPC, DataTypes
  <2>6. ConsumerKnows' /\ (StoreAfterReads => CopiedSoFar')
    BY <2>1 DEF ConsumerKnows, CopiedSoFar, ConsumePC, FlushPC, CopyPC, DataTypes
  <2>7. ReaderBehindWriter' /\ (StoreAfterReads => ReadInOrder')
    BY <2>1 DEF ReadInOrder, ReaderBehindWriter, DataTypes
  <2> QED
    BY <2>2, <2>3, <2>4, <2>5, <2>6, <2>7
<1> QED
  BY <1>1, <1>2, <1>3, <1>4, <1>5 DEF ConsumeSteps

\* The steps of flush_to_file, and of locking and unlocking file_mutex_,
\* preserve the invariant.
LEMMA FlusherStep ==
  ASSUME SingleConsumer, DataTypes, DataTypes', RingInv, NEW t \in Flushers,
         BeginFlush(t) \/ LockFile(t) \/ FlushSteps(t) \/ UnlockFile(t)
  PROVE  RingInv'
<1> t \in Threads
  BY DEF Threads
<1> USE DEF RingInv, positions, locals, history
<1>1. CASE BeginFlush(t)
  <2> USE <1>1 DEF BeginFlush, Goto
  <2>1. OwnPosition' /\ PendingInSlots' /\ ProducerKnows'
    BY ConsumerLocalStep DEF RecordPC
  <2>2. Roles' /\ FlushExclusive'
    BY DEF Roles, FlushExclusive, RecordPC, ConsumePC, FlushPC, DataTypes
  <2>3. ConsumerKnows' /\ (StoreAfterReads => CopiedSoFar')
    BY DEF ConsumerKnows, CopiedSoFar, CopyPC, DataTypes
  <2>4. ReaderBehindWriter' /\ (StoreAfterReads => ReadInOrder')
    BY DEF ReadInOrder, ReaderBehindWriter, DataTypes
  <2> QED
    BY <2>1, <2>2, <2>3, <2>4
<1>2. CASE LockFile(t)
  <2> USE <1>2 DEF LockFile, Goto
  <2>1. OwnPosition' /\ PendingInSlots' /\ ProducerKnows'
    BY ConsumerLocalStep DEF RecordPC, FlushPC
  <2>2. Roles' /\ FlushExclusive'
    BY ThreadAssumption
       DEF Roles, FlushExclusive, RecordPC, ConsumePC, FlushPC, DataTypes
  <2>3. ConsumerKnows' /\ (StoreAfterReads => CopiedSoFar')
    BY DEF ConsumerKnows, CopiedSoFar, CopyPC, DataTypes
  <2>4. ReaderBehindWriter' /\ (StoreAfterReads => ReadInOrder')
    BY DEF ReadInOrder, ReaderBehindWriter, DataTypes
  <2> QED
    BY <2>1, <2>2, <2>3, <2>4
<1>3. CASE FlushLoadWrite(t)
  <2> USE <1>3 DEF FlushLoadWrite, Goto
  <2>1. OwnPosition' /\ PendingInSlots' /\ ProducerKnows'
    BY ConsumerLocalStep DEF RecordPC, FlushPC, DataTypes
  <2>2. Roles' /\ FlushExclusive'
    BY DEF Roles, FlushExclusive, RecordPC, ConsumePC, FlushPC, DataTypes
  <2>3. ConsumerKnows' /\ (StoreAfterReads => CopiedSoFar')
    BY DEF ConsumerKnows, CopiedSoFar, CopyPC, PendingInSlots, DataTypes
  <2>4. ReaderBehindWriter' /\ (StoreAfterReads => ReadInOrder')
    BY DEF ReadInOrder, ReaderBehindWriter, DataTypes
  <2> QED
    BY <2>1, <2>2, <2>3, <2>4
<1>4. CASE FlushLoadRead(t)
  <2> USE <1>4 DEF FlushLoadRead, Goto
  <2>1. /\ read_pos <= head[t] /\ head[t] <= write_pos
        /\ \A u \in Threads : pc[u] \notin CopyPC
    BY OnlyConsumer DEF ConsumerKnows, ConsumePC, FlushPC, CopyPC
  <2>2. OwnPosition' /\ PendingInSlots' /\ ProducerKnows'
    BY ConsumerLocalStep DEF RecordPC, FlushPC, DataTypes
  <2>3. Roles' /\ FlushExclusive'
    BY DEF Roles, FlushExclusive, RecordPC, ConsumePC, FlushPC, DataTypes
  <2>4. ConsumerKnows' /\ (StoreAfterReads => CopiedSoFar')
    BY <2>1 DEF ConsumerKnows, CopiedSoFar, CopyPC, DataTypes
  <2>5. ReaderBehindWriter' /\ (StoreAfterReads => ReadInOrder')
    BY DEF ReadInOrder, ReaderBehindWriter, DataTypes
  <2> QED
    BY <2>2, <2>3, <2>4, <2>5
<1>5. CASE FlushCopy(t)
  <2> USE <1>5 DEF FlushCopy, CopySlot
  <2>1. /\ read_pos <= tail[t] /\ head[t] <= write_pos
        /\ StoreAfterReads => Len(copied) = tail[t]
        /\ \A u \in Threads : pc[u] \in CopyPC => u = t
    BY OnlyConsumer
       DEF ConsumerKnows, CopiedSoFar, ConsumePC, FlushPC, CopyPC
  <2>2. event_buffer[Slot(tail[t])] = Whole(published[tail[t] + 1])
    BY <2>1 DEF PendingInSlots, DataTypes
  <2>3. OwnPosition' /\ PendingInSlots' /\ ProducerKnows'
    BY DEF OwnPosition, PendingInSlots, ProducerKnows, DataTypes
  <2>4. Roles' /\ FlushExclusive' /\ ReaderBehindWriter'
    BY DEF Roles, FlushExclusive, ReaderBehindWriter
  <2>5. /\ Len(copied') = Len(copied) + 1
        /\ \A i \in 1 .. Len(copied) : copied'[i] = copied[i]
        /\ copied'[Len(copied) + 1] = event_buffer[Slot(tail[t])]
    BY SlotRange DEF DataTypes
  <2>6. ConsumerKnows' /\ (StoreAfterReads => CopiedSoFar')
    BY <2>1, <2>5 DEF ConsumerKnows, CopiedSoFar, CopyPC, DataTypes
  <2>7. StoreAfterReads => ReadInOrder'
    BY SMTT(30), <2>1, <2>2, <2>5 DEF ReadInOrder, OwnPosition, DataTypes
  <2> QED
    BY <2>3, <2>4, <2>6, <2>7
<1>6. CASE FlushStore(t)
  <2> USE <1>6 DEF FlushStore, StoreReadPos, Goto
  <2>1. /\ read_pos <= tail[t] /\ tail[t] <= write_pos
        /\ StoreAfterReads => Len(copied) = tail[t]
        /\ \A u \in Threads \ {t} : pc[u] \notin ConsumePC \cup FlushPC
    BY OnlyConsumer
       DEF ConsumerKnows, CopiedSoFar, ConsumePC, FlushPC, CopyPC, DataTypes
  <2>2. OwnPosition'
    BY DEF OwnPosition
  <2>3. PendingInSlots'
    BY SMTT(30), <2>1, SizeAssumption DEF PendingInSlots, DataTypes
  <2>4. ProducerKnows'
    BY <2>1, SizeAssumption DEF ProducerKnows, Threads, RecordPC, FlushPC, DataTypes
  <2>5. Roles' /\ FlushExclusive'
    BY DEF Roles, FlushExclusive, RecordPC, ConsumePC, FlushPC, DataTypes
  <2>6. ConsumerKnows' /\ (StoreAfterReads => CopiedSoFar')
    BY <2>1 DEF ConsumerKnows, CopiedSoFar, ConsumePC, FlushPC, CopyPC, DataTypes
  <2>7. ReaderBehindWriter' /\ (StoreAfterReads => ReadInOrder')
    BY <2>1 DEF ReadInOrder, ReaderBehindWriter, DataTypes
  <2> QED
    BY <2>2, <2>3, <2>4, <2>5, <2>6, <2>7
<1>7. CASE UnlockFile(t)
  <2> USE <1>7 DEF UnlockFile, Goto
  <2>1. \A u \in Threads \ {t} : pc[u] \notin FlushPC
    BY OnlyConsumer DEF FlushPC
  <2>2. OwnPosition' /\ PendingInSlots' /\ ProducerKnows'
    BY ConsumerLocalStep DEF RecordPC
  <2>3. Roles' /\ FlushExclusive'
    BY <2>1 DEF Roles, FlushExclusive, RecordPC, ConsumePC, FlushPC, DataTypes
  <2>4. ConsumerKnows' /\ (StoreAfterReads => CopiedSoFar')
    BY DEF ConsumerKnows, CopiedSoFar, CopyPC, DataTypes
  <2>5. ReaderBehindWriter' /\ (StoreAfterReads => ReadInOrder')
    BY DEF ReadInOrder, ReaderBehindWriter, DataTypes
  <2> QED
    BY <2>2, <2>3, <2>4, <2>5
<1> QED
  BY <1>1, <1>2, <1>3, <1>4, <1>5, <1>6, <1>7 DEF FlushSteps

\* Where read_pos_ may be seen to move before the slots are read, the invariant
\* is preserved too: it then says nothing of what was read.
LEMMA LateStep ==
  ASSUME SingleConsumer, DataTypes, DataTypes', RingInv,
         NEW t \in Readers \cup Flushers, LateSteps(t)
  PROVE  RingInv'
<1> t \in Threads /\ ~StoreAfterReads
  BY DEF Threads, LateSteps
<1> USE DEF RingInv, positions, locals, history
<1>1. CASE GiveBackEarly(t)
  <2> USE <1>1 DEF GiveBackEarly, StoreReadPos, CopyPC
  <2>1. /\ read_pos <= head[t] /\ head[t] <= write_pos
        /\ \A u \in Threads \ {t} : pc[u] \notin ConsumePC \cup FlushPC
    BY OnlyConsumer DEF ConsumerKnows, ConsumePC, FlushPC, DataTypes
  <2>2. OwnPosition' /\ ReaderBehindWriter'
    BY <2>1 DEF OwnPosition, ReaderBehindWriter, DataTypes
  <2>3. PendingInSlots'
    BY <2>1, SizeAssumption DEF PendingInSlots, DataTypes
  <2>4. ProducerKnows'
    BY <2>1, SizeAssumption DEF ProducerKnows, Threads, RecordPC, DataTypes
  <2>5. Roles' /\ FlushExclusive'
    BY DEF Roles, FlushExclusive, RecordPC, ConsumePC, FlushPC, DataTypes
  <2>6. ConsumerKnows'
    BY <2>1 DEF ConsumerKnows, ConsumePC, FlushPC, DataTypes
  <2> QED
    BY <2>2, <2>3, <2>4, <2>5, <2>6
<1>2. CASE LateCopy(t)
  <2> USE <1>2 DEF LateCopy, CopySlot, LatePC
  <2>1. OwnPosition' /\ PendingInSlots' /\ ProducerKnows'
    BY DEF OwnPosition, PendingInSlots, ProducerKnows, DataTypes
  <2>2. Roles' /\ FlushExclusive' /\ ReaderBehindWriter'
    BY DEF Roles, FlushExclusive, ReaderBehindWriter
  <2>3. ConsumerKnows'
    BY DEF ConsumerKnows, CopyPC, DataTypes
  <2> QED
    BY <2>1, <2>2, <2>3
<1>3. CASE EndLate(t)
  <2> USE <1>3 DEF EndLate, LatePC
  <2>1. OwnPosition' /\ PendingInSlots' /\ ProducerKnows'
    BY ConsumerLocalStep DEF RecordPC, FlushPC
  <2>2. Roles' /\ FlushExclusive'
    BY DEF Roles, FlushExclusive, RecordPC, ConsumePC, FlushPC, DataTypes
  <2>3. ConsumerKnows'
    BY DEF ConsumerKnows, CopyPC, DataTypes
  <2>4. ReaderBehindWriter'
    BY DEF ReaderBehindWriter, DataTypes
  <2> QED
    BY <2>1, <2>2, <2>3, <2>4
<1> QED
  BY <1>1, <1>2, <1>3 DEF LateSteps

\* With one producer and one consumer, whichever way the consumer reads and in
\* whatever order its accesses are seen, the invariant of the ring holds in every
\* reachable state.
THEOREM RingInvariant ==
  ASSUME SingleProducer, SingleConsumer
  PROVE  RingSpec => []RingInv
<1>1. RingInit => RingInv
  BY SizeAssumption
     DEF RingInit, RingInv, Roles, FlushExclusive, OwnPosition, PendingInSlots,
         ProducerKnows, ConsumerKnows, CopiedSoFar, ReadInOrder,
         ReaderBehindWriter, RecordPC, ConsumePC, FlushPC, CopyPC, Threads
<1>t. TypeOK => DataTypes
  BY DEF TypeOK, DataTypes
<1>2. DataTypes /\ DataTypes' /\ RingInv /\ [RingNext]_ringVars => RingInv'
  <2> SUFFICES ASSUME DataTypes, DataTypes', RingInv, [RingNext]_ringVars
               PROVE  RingInv'
    OBVIOUS
  <2>1. CASE UNCHANGED ringVars
    BY <2>1
       DEF ringVars, RingInv, Roles, FlushExclusive, OwnPosition,
           PendingInSlots, ProducerKnows, ConsumerKnows, CopiedSoFar,
           ReadInOrder, ReaderBehindWriter
  <2> QED
    BY <2>1, ProducerStep, ReaderStep, FlusherStep, LateStep DEF RingNext, RecordCall
<1> QED
  BY <1>1, <1>2, <1>t, TypeCorrect, PTL DEF RingSpec

\* The consumers together read the published events in order, each one once
\* and whole: nothing is lost, repeated, reordered or torn, where a slot is seen
\* to be given back only after it was read.
THEOREM InOrder ==
  ASSUME SingleProducer, SingleConsumer, StoreAfterReads
  PROVE  RingSpec => []ReadInOrder
BY RingInvariant, PTL DEF RingInv

\* What has not been given back is not overwritten and is as many events as the
\* positions say, in whatever order the consumer's accesses are seen.
THEOREM PendingStays ==
  ASSUME SingleProducer, SingleConsumer
  PROVE  RingSpec => [](PendingInSlots /\ ReaderBehindWriter)
BY RingInvariant, PTL DEF RingInv

\* No slot is overwritten before its event has been read, where a slot is seen
\* to be given back only after it was read.
THEOREM NoOverwrite ==
  ASSUME SingleProducer, SingleConsumer, StoreAfterReads
  PROVE  RingSpec => []UnreadSlotsIntact
<1>1. TypeOK /\ RingInv => UnreadSlotsIntact
  <2> SUFFICES ASSUME TypeOK, RingInv, NEW i \in 1 .. Len(published)
               PROVE  \/ event_buffer[Slot(i-1)] = Whole(published[i])
                      \/ \E j \in 1 .. Len(copied) : copied[j] = Whole(published[i])
    BY DEF UnreadSlotsIntact
  <2>1. CASE i <= Len(copied)
    BY <2>1 DEF RingInv, ReadInOrder, TypeOK
  <2>2. CASE i > Len(copied)
    <3>1. read_pos <= Len(copied)
      BY DEF RingInv, CopiedSoFar, ConsumerKnows, TypeOK
    <3>2. i - 1 \in read_pos .. write_pos-1
      BY <2>2, <3>1 DEF RingInv, OwnPosition, TypeOK
    <3> QED
      BY <3>2 DEF RingInv, PendingInSlots, TypeOK
  <2> QED
    BY <2>1, <2>2 DEF TypeOK
<1> QED
  BY <1>1, TypeCorrect, RingInvariant, PTL

-----------------------------------------------------------------------------
(* Counting, for any threads. *)

\* The places between the test of a call and its outcome.
Undecided == RecordPC \ {"r_count", "r_end"}

\* A thread that enters a set of places is one thread more in it.
LEMMA OneEnters ==
  ASSUME NEW S, IsFiniteSet(InRecord(S)), NEW t \in Producers,
         pc[t] \notin S, pc'[t] \in S, \A u \in Producers \ {t} : pc'[u] = pc[u]
  PROVE  /\ IsFiniteSet(InRecord(S)')
         /\ Cardinality(InRecord(S)') = Cardinality(InRecord(S)) + 1
<1>1. InRecord(S)' = InRecord(S) \cup {t} /\ t \notin InRecord(S)
  BY DEF InRecord
<1> QED
  BY <1>1, FS_AddElement

\* A thread that leaves a set of places is one thread less in it.
LEMMA OneLeaves ==
  ASSUME NEW S, IsFiniteSet(InRecord(S)), NEW t \in Producers,
         pc[t] \in S, pc'[t] \notin S, \A u \in Producers \ {t} : pc'[u] = pc[u]
  PROVE  /\ IsFiniteSet(InRecord(S)')
         /\ Cardinality(InRecord(S)') = Cardinality(InRecord(S)) - 1
         /\ Cardinality(InRecord(S)') \in Nat
<1>1. InRecord(S)' = InRecord(S) \ {t} /\ t \in InRecord(S)
  BY DEF InRecord
<1> QED
  BY <1>1, FS_RemoveElement, FS_CardinalityType

\* The producers in a set of places are the same while none crosses its border.
LEMMA NoneCrosses ==
  ASSUME NEW S, \A u \in Producers : pc'[u] \in S <=> pc[u] \in S
  PROVE  InRecord(S)' = InRecord(S)
BY DEF InRecord

\* However many threads record, read and flush, and whatever they do to each
\* other's slots and positions, a call of record_event that has ended is
\* published or counted as dropped, never neither and never both.
THEOREM EveryCallCounted == RingSpec => []EveryRecordCounted
<1> DEFINE Count == IsFiniteSet(InRecord(Undecided)) /\ EveryRecordCounted
<1>p. Producers \subseteq Threads
  BY DEF Threads
<1>1. RingInit => Count
  <2> SUFFICES ASSUME RingInit
               PROVE  Count
    OBVIOUS
  <2>1. InRecord(Undecided) = {}
    BY DEF RingInit, InRecord, Threads, Undecided, RecordPC
  <2>2. /\ IsFiniteSet(InRecord(Undecided))
        /\ Cardinality(InRecord(Undecided)) = 0
    BY <2>1, FS_EmptySet
  <2>3. records = 0 /\ dropped_events = 0 /\ Len(published) = 0
    BY DEF RingInit
  <2> QED
    BY <2>2, <2>3 DEF EveryRecordCounted, Undecided
<1>2. TypeOK /\ Count /\ [RingNext]_ringVars => Count'
  <2> SUFFICES ASSUME TypeOK, Count, [RingNext]_ringVars
               PROVE  Count'
    OBVIOUS
  <2> USE DEF Goto, positions, locals, history
  <2>1. Cardinality(InRecord(Undecided)) \in Nat
    BY FS_CardinalityType
  <2>2. ASSUME UNCHANGED <<records, published, dropped_events>>,
               \A u \in Producers : pc'[u] \in Undecided <=> pc[u] \in Undecided
        PROVE  Count'
    <3>1. InRecord(Undecided)' = InRecord(Undecided)
      BY <2>2, NoneCrosses
    <3> QED
      BY <2>2, <3>1 DEF EveryRecordCounted, Undecided
  <2>3. ASSUME NEW t \in Producers, RecordCall(t)
        PROVE  Count'
    <3>1. CASE BeginRecord(t)
      <4>1. /\ pc[t] \notin Undecided /\ pc'[t] \in Undecided
            /\ \A u \in Producers \ {t} : pc'[u] = pc[u]
        BY <3>1, <1>p DEF BeginRecord, TypeOK, Undecided, RecordPC
      <4>2. /\ IsFiniteSet(InRecord(Undecided)')
            /\ Cardinality(InRecord(Undecided)') = Cardinality(InRecord(Undecided)) + 1
        BY <4>1, OneEnters
      <4>3. records' = records + 1 /\ UNCHANGED <<published, dropped_events>>
        BY <3>1 DEF BeginRecord, NewEvent
      <4> QED
        BY <4>2, <4>3, <2>1 DEF EveryRecordCounted, Undecided, TypeOK
    <3>2. CASE \/ LoadHead(t) \/ LoadTail(t) \/ WriteFirst(t) \/ WriteSecond(t)
               \/ EndRecord(t) \/ FlushAfterRecord(t)
      <4>1. /\ pc'[t] \in Undecided <=> pc[t] \in Undecided
            /\ \A u \in Producers \ {t} : pc'[u] = pc[u]
        BY <3>2, <1>p DEF LoadHead, LoadTail, WriteFirst, WriteSecond, EndRecord,
                          FlushAfterRecord, TypeOK, Undecided, RecordPC
      <4>2. UNCHANGED <<records, published, dropped_events>>
        BY <3>2 DEF LoadHead, LoadTail, WriteFirst, WriteSecond, EndRecord,
                    FlushAfterRecord
      <4> QED
        BY <4>1, <4>2, <2>2
    <3>3. CASE DropEvent(t)
      <4>1. /\ pc[t] \in Undecided /\ pc'[t] \notin Undecided
            /\ \A u \in Producers \ {t} : pc'[u] = pc[u]
        BY <3>3, <1>p DEF DropEvent, TypeOK, Undecided, RecordPC
      <4>2. /\ IsFiniteSet(InRecord(Undecided)')
            /\ Cardinality(InRecord(Undecided)') = Cardinality(InRecord(Undecided)) - 1
        BY <4>1, OneLeaves
      <4>3. dropped_events' = dropped_events + 1 /\ UNCHANGED <<published, records>>
        BY <3>3 DEF DropEvent
      <4> QED
        BY <4>2, <4>3, <2>1 DEF EveryRecordCounted, Undecided, TypeOK
    <3>4. CASE Publish(t)
      <4>1. /\ pc[t] \in Undecided /\ pc'[t] \notin Undecided
            /\ \A u \in Producers \ {t} : pc'[u] = pc[u]
        BY <3>4, <1>p DEF Publish, TypeOK, Undecided, RecordPC
      <4>2. /\ IsFiniteSet(InRecord(Undecided)')
            /\ Cardinality(InRecord(Undecided)') = Cardinality(InRecord(Undecided)) - 1
        BY <4>1, OneLeaves
      <4>3. Len(published') = Len(published) + 1 /\ UNCHANGED <<dropped_events, records>>
        BY <3>4 DEF Publish, TypeOK
      <4> QED
        BY <4>2, <4>3, <2>1 DEF EveryRecordCounted, Undecided, TypeOK
    <3> QED
      BY <2>3, <3>1, <3>2, <3>3, <3>4 DEF RecordCall, RecordSteps
  <2>4. ASSUME NEW t \in Readers, BeginConsume(t) \/ ConsumeSteps(t)
        PROVE  Count'
    <3>1. /\ UNCHANGED <<records, published, dropped_events>>
          /\ \A u \in Producers : pc'[u] \in Undecided <=> pc[u] \in Undecided
      BY <2>4, <1>p DEF ConsumeSteps, BeginConsume, ConsumeLoadTail, ConsumeLoadHead,
                        ConsumeCopy, ConsumeStore, CopySlot, TypeOK, Undecided, RecordPC
    <3> QED
      BY <3>1, <2>2
  <2>5. ASSUME NEW t \in Flushers,
               BeginFlush(t) \/ LockFile(t) \/ FlushSteps(t) \/ UnlockFile(t)
        PROVE  Count'
    <3>1. /\ UNCHANGED <<records, published, dropped_events>>
          /\ \A u \in Producers : pc'[u] \in Undecided <=> pc[u] \in Undecided
      BY <2>5, <1>p DEF FlushSteps, BeginFlush, LockFile, UnlockFile, FlushLoadWrite,
                        FlushLoadRead, FlushCopy, FlushStore, CopySlot, TypeOK,
                        Undecided, RecordPC
    <3> QED
      BY <3>1, <2>2
  <2>6. ASSUME NEW t \in Readers \cup Flushers, LateSteps(t)
        PROVE  Count'
    <3>1. /\ UNCHANGED <<records, published, dropped_events>>
          /\ \A u \in Producers : pc'[u] \in Undecided <=> pc[u] \in Undecided
      BY <2>6, <1>p DEF LateSteps, GiveBackEarly, LateCopy, EndLate, CopySlot, CopyPC,
                        LatePC, TypeOK, Undecided, RecordPC
    <3> QED
      BY <3>1, <2>2
  <2>7. CASE UNCHANGED ringVars
    BY <2>7, <2>2 DEF ringVars
  <2> QED
    BY <2>3, <2>4, <2>5, <2>6, <2>7 DEF RingNext, RecordCall
<1>3. Count => EveryRecordCounted
  OBVIOUS
<1> QED
  BY <1>1, <1>2, <1>3, TypeCorrect, PTL DEF RingSpec

-----------------------------------------------------------------------------
(* The ring implements the queue. *)

\* The event being recorded is one that record_event was called with.
EventsNumbered ==
  /\ records <= MaxRecords
  /\ \A t \in Producers : pc[t] \in RecordPC => event[t] \in 1 .. MaxRecords

\* The events being recorded are numbered within the bound on the calls.
LEMMA EventNumbers == RingSpec => []EventsNumbered
<1>1. RingInit => EventsNumbered
  BY BoundAssumption DEF RingInit, EventsNumbered, RecordPC, Threads
<1>2. TypeOK /\ EventsNumbered /\ [RingNext]_ringVars => EventsNumbered'
  <2> SUFFICES ASSUME TypeOK, EventsNumbered, [RingNext]_ringVars
               PROVE  EventsNumbered'
    OBVIOUS
  <2> USE BoundAssumption
      DEF TypeOK, EventsNumbered, Goto, RecordPC, Threads, locals
  <2>1. ASSUME NEW t \in Producers, BeginRecord(t)
        PROVE  EventsNumbered'
    BY <2>1 DEF BeginRecord, NewEvent
  <2>2. ASSUME NEW t \in Producers,
               RecordSteps(t) \/ EndRecord(t) \/ FlushAfterRecord(t)
        PROVE  EventsNumbered'
    BY <2>2 DEF RecordSteps, LoadHead, LoadTail, DropEvent, WriteFirst,
                WriteSecond, Publish, EndRecord, FlushAfterRecord
  <2>3. ASSUME NEW t \in Readers, BeginConsume(t) \/ ConsumeSteps(t)
        PROVE  EventsNumbered'
    BY <2>3 DEF BeginConsume, ConsumeSteps, ConsumeLoadTail, ConsumeLoadHead,
                ConsumeCopy, CopySlot, ConsumeStore
  <2>4. ASSUME NEW t \in Flushers,
               BeginFlush(t) \/ LockFile(t) \/ FlushSteps(t) \/ UnlockFile(t)
        PROVE  EventsNumbered'
    BY <2>4 DEF BeginFlush, LockFile, FlushSteps, FlushLoadWrite,
                FlushLoadRead, FlushCopy, CopySlot, FlushStore, UnlockFile
  <2>5. ASSUME NEW t \in Readers \cup Flushers, LateSteps(t)
        PROVE  EventsNumbered'
    BY <2>5 DEF LateSteps, GiveBackEarly, LateCopy, EndLate, CopyPC, LatePC, CopySlot
  <2>6. CASE UNCHANGED ringVars
    BY <2>6 DEF ringVars
  <2> QED
    BY <2>1, <2>2, <2>3, <2>4, <2>5, <2>6 DEF RingNext
<1> QED
  BY <1>1, <1>2, TypeCorrect, PTL DEF RingSpec

-----------------------------------------------------------------------------
(* The mapped variables. *)

\* The first n published events, whole.
FirstPublished(n) == [i \in 1 .. n |-> Whole(published[i])]

\* What has been delivered are the events below read_pos.
LEMMA DeliveredIs ==
  TypeOK /\ RingInv /\ StoreAfterReads =>
    /\ Delivered = FirstPublished(read_pos)
    /\ Len(Delivered) = read_pos
    /\ read_pos <= Len(published)
<1> SUFFICES ASSUME TypeOK, RingInv, StoreAfterReads
             PROVE  /\ Delivered = FirstPublished(read_pos)
                    /\ Len(Delivered) = read_pos
                    /\ read_pos <= Len(published)
  OBVIOUS
<1>1. read_pos <= Len(copied) /\ Len(copied) <= Len(published)
  BY DEF RingInv, CopiedSoFar, ConsumerKnows, ReadInOrder, TypeOK
<1>2. \A i \in 1 .. read_pos : copied[i] = Whole(published[i]) /\ copied[i] \in Half
  BY <1>1 DEF RingInv, ReadInOrder, TypeOK
<1>3. Delivered = [i \in 1 .. read_pos |-> copied[i]]
  BY <1>1 DEF Delivered, TypeOK
<1>4. Delivered = FirstPublished(read_pos)
  BY <1>2, <1>3 DEF FirstPublished
<1>5. Len(Delivered) = read_pos
  BY <1>2, SubSeqProperties DEF Delivered, TypeOK
<1> QED
  BY <1>1, <1>4, <1>5

\* The same after a step.
LEMMA DeliveredIsNext ==
  TypeOK' /\ RingInv' /\ StoreAfterReads => (Delivered = FirstPublished(read_pos))'
<1>1. (TypeOK /\ RingInv /\ StoreAfterReads => Delivered = FirstPublished(read_pos))'
  BY DeliveredIs, PTL
<1> QED
  BY <1>1

\* What has been accepted is the sequence of published events.
LEMMA AcceptedIs ==
  ASSUME TypeOK, RingInv
  PROVE  /\ Accepted = FirstPublished(write_pos)
         /\ Accepted \in Seq(Half)
         /\ Len(Accepted) = write_pos
<1>1. \A i \in 1 .. Len(published) : Whole(published[i]) \in Half
  BY DEF TypeOK, Half, Whole
<1>2. Accepted \in Seq(Half) /\ Len(Accepted) = Len(published)
  BY <1>1 DEF Accepted, TypeOK
<1> QED
  BY <1>2 DEF Accepted, FirstPublished, RingInv, OwnPosition
\* The refused events: those counted, and the one about to be counted.
LEMMA RefusedIs ==
  SingleProducer =>
    \A t \in Producers :
      Refused = dropped_events + (IF pc[t] = "r_drop" THEN 1 ELSE 0)
<1> SUFFICES ASSUME SingleProducer, NEW t \in Producers
             PROVE  Refused = dropped_events + (IF pc[t] = "r_drop" THEN 1 ELSE 0)
  OBVIOUS
<1>1. CASE pc[t] = "r_drop"
  <2>1. InRecord({"r_drop"}) = {t}
    BY <1>1 DEF InRecord, SingleProducer
  <2> QED
    BY <1>1, <2>1, FS_Singleton DEF Refused
<1>2. CASE pc[t] # "r_drop"
  <2>1. InRecord({"r_drop"}) = {}
    BY <1>2 DEF InRecord, SingleProducer
  <2> QED
    BY <1>2, <2>1, FS_EmptySet DEF Refused
<1> QED
  BY <1>1, <1>2

\* The same after a step.
LEMMA RefusedIsNext ==
  SingleProducer =>
    (\A t \in Producers :
       Refused = dropped_events + (IF pc[t] = "r_drop" THEN 1 ELSE 0))'
<1>1. (SingleProducer =>
         \A t \in Producers :
           Refused = dropped_events + (IF pc[t] = "r_drop" THEN 1 ELSE 0))'
  BY RefusedIs, PTL
<1> QED
  BY <1>1 DEF SingleProducer

-----------------------------------------------------------------------------
(* The steps. *)

\* A step that publishes nothing, leaves read_pos and the counter of dropped
\* events alone and moves no producer into or out of "r_drop" is not seen.
LEMMA Unseen ==
  ASSUME StoreAfterReads, TypeOK, TypeOK', RingInv, RingInv',
         UNCHANGED <<published, read_pos, dropped_events>>,
         \A u \in Producers : pc[u] = "r_drop" <=> pc'[u] = "r_drop"
  PROVE  UNCHANGED Queue!vars
<1>1. Accepted' = Accepted
  BY DEF Accepted
<1>2. Delivered' = Delivered
  <2>1. /\ Delivered = FirstPublished(read_pos)
        /\ Delivered' = FirstPublished(read_pos)'
    BY DeliveredIs, DeliveredIsNext
  <2> QED
    BY <2>1 DEF FirstPublished
<1>3. InRecord({"r_drop"})' = InRecord({"r_drop"})
  BY DEF InRecord
<1>4. Refused' = Refused
  BY <1>3 DEF Refused
<1> QED
  BY <1>1, <1>2, <1>4 DEF Queue!vars

\* The store of read_pos_ delivers what was read, or nothing.
LEMMA StoreDelivers ==
  ASSUME StoreAfterReads, TypeOK, TypeOK', RingInv, RingInv',
         read_pos <= read_pos', read_pos' <= write_pos,
         UNCHANGED <<published, write_pos, dropped_events>>,
         \A u \in Producers : pc[u] = "r_drop" <=> pc'[u] = "r_drop"
  PROVE  Queue!Next \/ UNCHANGED Queue!vars
<1>1. CASE read_pos' = read_pos
  BY <1>1, Unseen
<1>2. CASE read_pos' > read_pos
  <2>1. Accepted' = Accepted
    BY DEF Accepted
  <2>2. Refused' = Refused
    BY DEF Refused, InRecord
  <2>3. /\ Len(Delivered) = read_pos
        /\ Delivered' = FirstPublished(read_pos')
    <3>1. Delivered' = FirstPublished(read_pos)'
      BY DeliveredIsNext
    <3> QED
      BY <3>1, DeliveredIs DEF FirstPublished
  <2>4. /\ Accepted = FirstPublished(write_pos)
        /\ Len(Accepted) = write_pos
        /\ Accepted \in Seq(Half)
    BY AcceptedIs
  <2>5. SubSeq(Accepted, 1, read_pos') = FirstPublished(read_pos')
    <3>1. SubSeq(Accepted, 1, read_pos') = [i \in 1 .. read_pos' |-> Accepted[i]]
      BY <1>2, <2>4 DEF TypeOK
    <3>2. \A i \in 1 .. read_pos' : Accepted[i] = Whole(published[i])
      BY <2>4 DEF FirstPublished, TypeOK
    <3> QED
      BY <3>1, <3>2 DEF FirstPublished
  <2>6. read_pos' \in Len(Delivered)+1 .. Len(Accepted)
    BY <1>2, <2>3, <2>4 DEF TypeOK
  <2>7. Queue!Deliver
    BY <2>1, <2>2, <2>3, <2>5, <2>6 DEF Queue!Deliver
  <2> QED
    BY <2>7 DEF Queue!Next
<1> QED
  BY <1>1, <1>2 DEF TypeOK

\* The store of write_pos_ is accepted: there is room.
LEMMA PublishAccepts ==
  ASSUME SingleProducer, StoreAfterReads, TypeOK, TypeOK', RingInv, RingInv', EventsNumbered,
         NEW t \in Producers, Publish(t)
  PROVE  Queue!Accept
<1> t \in Threads
  BY DEF Threads
<1> USE DEF Publish, Goto, locals
<1>1. /\ head[t] = write_pos
      /\ write_pos + 1 < read_pos + BUFFER_SIZE
      /\ event[t] \in 1 .. MaxRecords
  BY DEF RingInv, ProducerKnows, EventsNumbered, RecordPC
<1>2. Queue!Pending < BUFFER_SIZE - 1
  <2>1. Len(Accepted) = write_pos /\ Len(Delivered) = read_pos
    BY AcceptedIs, DeliveredIs
  <2> QED
    BY <1>1, <2>1, SizeAssumption DEF Queue!Pending, TypeOK
<1>3. Accepted' = Append(Accepted, Whole(event[t]))
  <2>1. published' = Append(published, event[t])
    OBVIOUS
  <2> QED
    BY <2>1 DEF Accepted, TypeOK
<1>4. Delivered' = Delivered
  BY DEF Delivered
<1>5. Refused' = Refused
  <2>1. InRecord({"r_drop"})' = InRecord({"r_drop"})
    BY DEF InRecord, TypeOK
  <2> QED
    BY <2>1 DEF Refused
<1> QED
  BY <1>1, <1>2, <1>3, <1>4, <1>5 DEF Queue!Accept

\* Finding both positions on one slot refuses the event: the queue is full.
LEMMA LoadTailRefuses ==
  ASSUME SingleProducer, StoreAfterReads, TypeOK, TypeOK', RingInv, RingInv',
         NEW t \in Producers, LoadTail(t)
  PROVE  Queue!Refuse \/ UNCHANGED Queue!vars
<1> t \in Threads
  BY DEF Threads
<1> USE DEF LoadTail, Goto, positions, history
<1>1. CASE ~Full(head[t], read_pos)
  <2>1. \A u \in Producers : pc[u] = "r_drop" <=> pc'[u] = "r_drop"
    BY <1>1 DEF TypeOK, Threads
  <2> QED
    BY <2>1, Unseen
<1>2. CASE Full(head[t], read_pos)
  <2>1. write_pos - read_pos = BUFFER_SIZE - 1
    BY <1>2, FullMeansFull DEF RingInv, ProducerKnows, PendingInSlots, TypeOK
  <2>2. Queue!Pending = BUFFER_SIZE - 1
    <3>1. Len(Accepted) = write_pos /\ Len(Delivered) = read_pos
      BY AcceptedIs, DeliveredIs
    <3> QED
      BY <2>1, <3>1 DEF Queue!Pending
  <2>3. Refused' = Refused + 1
    <3>1. Refused = dropped_events
      BY RefusedIs DEF TypeOK
    <3>2. Refused' = dropped_events' + (IF pc'[t] = "r_drop" THEN 1 ELSE 0)
      BY RefusedIsNext
    <3> QED
      BY <1>2, <3>1, <3>2 DEF TypeOK
  <2>4. Accepted' = Accepted /\ Delivered' = Delivered
    BY DEF Accepted, Delivered
  <2> QED
    BY <2>2, <2>3, <2>4 DEF Queue!Refuse
<1> QED
  BY <1>1, <1>2

\* Counting the dropped event is not seen: it was refused before.
LEMMA DropUnseen ==
  ASSUME SingleProducer, TypeOK, TypeOK', NEW t \in Producers, DropEvent(t)
  PROVE  UNCHANGED Queue!vars
<1> t \in Threads
  BY DEF Threads
<1> USE DEF DropEvent, Goto, positions, history
<1>1. Refused' = dropped_events' + (IF pc'[t] = "r_drop" THEN 1 ELSE 0)
  BY RefusedIsNext
<1>2. Refused' = Refused
  BY <1>1, RefusedIs DEF TypeOK
<1> QED
  BY <1>2 DEF Queue!vars, Accepted, Delivered

\* Every step of the ring is a step of the queue or is not seen by it.
LEMMA StepSimulates ==
  ASSUME SingleProducer, SingleConsumer, StoreAfterReads, TypeOK, TypeOK',
         RingInv, RingInv', EventsNumbered, [RingNext]_ringVars
  PROVE  Queue!Next \/ UNCHANGED Queue!vars
<1> USE DEF positions, locals, history, Goto
<1>1. ASSUME NEW t \in Producers, RecordCall(t)
      PROVE  Queue!Next \/ UNCHANGED Queue!vars
  <2>1. CASE BeginRecord(t) \/ LoadHead(t) \/ WriteFirst(t) \/ WriteSecond(t)
             \/ EndRecord(t) \/ FlushAfterRecord(t)
    BY <2>1, Unseen
       DEF BeginRecord, LoadHead, WriteFirst, WriteSecond, EndRecord,
           FlushAfterRecord, TypeOK, Threads
  <2> QED
    BY <1>1, <2>1, LoadTailRefuses, DropUnseen, PublishAccepts
       DEF RecordCall, RecordSteps, Queue!Next
<1>2. ASSUME NEW t \in Readers, BeginConsume(t) \/ ConsumeSteps(t)
      PROVE  Queue!Next \/ UNCHANGED Queue!vars
  <2>1. CASE ConsumeStore(t)
    BY <2>1, StoreDelivers
       DEF ConsumeStore, StoreReadPos, RingInv, ConsumerKnows, CopyPC, TypeOK,
           Threads
  <2>2. CASE BeginConsume(t) \/ ConsumeLoadTail(t) \/ ConsumeLoadHead(t)
             \/ ConsumeCopy(t)
    BY <2>2, Unseen
       DEF BeginConsume, ConsumeLoadTail, ConsumeLoadHead, ConsumeCopy, TypeOK,
           Threads
  <2> QED
    BY <1>2, <2>1, <2>2 DEF ConsumeSteps
<1>3. ASSUME NEW t \in Flushers,
             BeginFlush(t) \/ LockFile(t) \/ FlushSteps(t) \/ UnlockFile(t)
      PROVE  Queue!Next \/ UNCHANGED Queue!vars
  <2>1. CASE FlushStore(t)
    BY <2>1, StoreDelivers
       DEF FlushStore, StoreReadPos, RingInv, ConsumerKnows, CopyPC, TypeOK,
           Threads
  <2>2. CASE BeginFlush(t) \/ LockFile(t) \/ FlushLoadWrite(t)
             \/ FlushLoadRead(t) \/ FlushCopy(t) \/ UnlockFile(t)
    BY <2>2, Unseen
       DEF BeginFlush, LockFile, FlushLoadWrite, FlushLoadRead, FlushCopy,
           UnlockFile, TypeOK, Threads
  <2> QED
    BY <1>3, <2>1, <2>2 DEF FlushSteps
<1>4. CASE UNCHANGED ringVars
  BY <1>4 DEF ringVars, Queue!vars, Accepted, Delivered, Refused, InRecord
<1> QED
  BY <1>1, <1>2, <1>3, <1>4 DEF RingNext, RecordCall, LateSteps

\* The ring with one producer and one consumer implements the bounded lossy
\* queue, where a slot is seen to be given back only after it was read.
THEOREM RingImplementsQueue ==
  ASSUME SingleProducer, SingleConsumer, StoreAfterReads
  PROVE  RingSpec => QueueSpec
<1>1. RingInit => Queue!Init
  <2> SUFFICES ASSUME RingInit
               PROVE  Queue!Init
    OBVIOUS
  <2> USE DEF RingInit
  <2>1. Accepted = <<>> /\ Delivered = <<>>
    BY DEF Accepted, Delivered
  <2>2. InRecord({"r_drop"}) = {}
    BY DEF InRecord, Threads
  <2>3. Refused = 0
    <3>1. Cardinality(InRecord({"r_drop"})) = 0
      BY <2>2, FS_EmptySet
    <3> QED
      BY <3>1 DEF Refused
  <2> QED
    BY <2>1, <2>3 DEF Queue!Init
<1>2. /\ TypeOK /\ TypeOK' /\ RingInv /\ RingInv' /\ EventsNumbered
      /\ [RingNext]_ringVars
      => [Queue!Next]_Queue!vars
  BY StepSimulates
<1> QED
  BY <1>1, <1>2, TypeCorrect, RingInvariant, EventNumbers, PTL
     DEF RingSpec, QueueSpec, Queue!Spec
=============================================================================
