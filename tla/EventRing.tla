------------------------------ MODULE EventRing ------------------------------
(***************************************************************************)
(* The ring buffer of GGMLHook (src/instrumentation/ggml_hook.{hpp,cpp}):  *)
(* record_event on one side, consume_available_events (the GUI thread, the *)
(* live collector) and flush_to_file (any thread that holds file_mutex_)   *)
(* on the other.  Every access to a shared variable is a step of its own;  *)
(* the copy of an Event into its slot takes two, so that a reader can find *)
(* a half-written slot.  The steps of a thread are seen in their order,    *)
(* with one exception that the code leaves open: both consumers store      *)
(* read_pos_ relaxed, and it may be seen before their reads of the slots   *)
(* (StoreAfterReads).                                                      *)
(*                                                                         *)
(* Nothing in the code limits how many threads are on each side, so the    *)
(* threads are parameters.  Starting and stopping the hook is added by     *)
(* module GGMLHook, which reuses the steps defined here.                   *)
(*                                                                         *)
(* Events are numbered in the order of the record_event calls; number 0 is *)
(* the content of a slot that was never written.                           *)
(***************************************************************************)
EXTENDS Naturals, Sequences, FiniteSets

CONSTANTS
  Producers,    \* threads that call record_event
  Readers,      \* threads that call consume_available_events
  Flushers,     \* threads that call flush_to_file
  NoThread,     \* file_mutex_ is free
  BUFFER_SIZE,  \* number of slots, a power of two
  StoreAfterReads, \* TRUE: a store of read_pos_ is seen after the reads of the
                \* slots that precede it.  x86-64 does not reorder them; the
                \* code's memory_order_relaxed allows it, and ARM does it
  MaxRecords    \* bound of the model: record_event calls in a behaviour

Threads == Producers \cup Readers \cup Flushers

ASSUME ThreadAssumption == NoThread \notin Threads
ASSUME SizeAssumption == BUFFER_SIZE \in Nat \ {0}
ASSUME OrderAssumption == StoreAfterReads \in BOOLEAN
ASSUME BoundAssumption == MaxRecords \in Nat

VARIABLES
  event_buffer,    \* the slots, each in two halves
  write_pos,       \* next position to write; positions only grow
  read_pos,        \* next position to read
  dropped_events,
  file_mutex,      \* the thread that holds file_mutex_
  pc,              \* where each thread is
  head,            \* each thread's copy of write_pos
  tail,            \* each thread's copy of read_pos; also its loop counter
  event,           \* the event each producer is recording
  records,         \* number of record_event calls so far
  published,       \* history: the events stored under a new write_pos
  copied           \* history: the slot contents consumers read, in order

positions == <<write_pos, read_pos>>
locals    == <<head, tail, event>>
history   == <<published, copied>>
ringVars  == <<event_buffer, write_pos, read_pos, dropped_events, file_mutex,
               pc, head, tail, event, records, published, copied>>

\* An Event that is completely in its slot.
Whole(e) == [first |-> e, second |-> e]

\* pos & (BUFFER_SIZE - 1)
Slot(pos) == pos % BUFFER_SIZE

Goto(t, from, to) ==
  /\ pc[t] = from
  /\ pc' = [pc EXCEPT ![t] = to]

RingInit ==
  /\ event_buffer = [i \in 0 .. BUFFER_SIZE-1 |-> Whole(0)]
  /\ write_pos = 0
  /\ read_pos = 0
  /\ dropped_events = 0
  /\ file_mutex = NoThread
  /\ pc = [t \in Threads |-> "idle"]
  /\ head = [t \in Threads |-> 0]
  /\ tail = [t \in Threads |-> 0]
  /\ event = [t \in Threads |-> 0]
  /\ records = 0
  /\ published = <<>>
  /\ copied = <<>>

-----------------------------------------------------------------------------
(* record_event: from the loads of the two positions to the store of      *)
(* write_pos_, and the flush that may follow.  The tests of active_ and of *)
(* the event limit that come first, with the limit's stop(), are           *)
(* GGMLHook's.                                                             *)

\* A caller builds an event and hands it to record_event.
NewEvent(t) ==
  /\ records < MaxRecords
  /\ records' = records + 1
  /\ event' = [event EXCEPT ![t] = records + 1]

BeginRecord(t) ==
  /\ Goto(t, "idle", "r_head")
  /\ NewEvent(t)
  /\ UNCHANGED <<event_buffer, positions, dropped_events, file_mutex,
                 head, tail, history>>

LoadHead(t) ==
  /\ Goto(t, "r_head", "r_tail")
  /\ head' = [head EXCEPT ![t] = write_pos]
  /\ UNCHANGED <<event_buffer, positions, dropped_events, file_mutex,
                 tail, event, records, history>>

\* Mutants of Full: the test comes too late, or one slot too early.
FullLate(h, r) == h = r + BUFFER_SIZE + 1
FullEarly(h, r) == Slot(h + 2) = Slot(r) \/ Slot(h + 1) = Slot(r)

\* The buffer counts as full when the next position and the read position
\* fall on the same slot; how far apart they are is not looked at.
Full(h, r) == Slot(h + 1) = Slot(r)

LoadTail(t) ==
  /\ Goto(t, "r_tail", IF Full(head[t], read_pos) THEN "r_drop" ELSE "r_first")
  /\ tail' = [tail EXCEPT ![t] = read_pos]
  /\ UNCHANGED <<event_buffer, positions, dropped_events, file_mutex,
                 head, event, records, history>>

\* Mutants of DropEvent: it is not counted, it counts down, or the producer
\* waits for room instead.
DropUncounted(t) ==
  /\ Goto(t, "r_drop", "r_end")
  /\ UNCHANGED <<event_buffer, positions, dropped_events, file_mutex, locals,
                 records, history>>

DropDecrements(t) ==
  /\ Goto(t, "r_drop", "r_end")
  /\ dropped_events' = dropped_events - 1
  /\ UNCHANGED <<event_buffer, positions, file_mutex, locals, records, history>>

DropWaits(t) ==
  /\ Goto(t, "r_drop", "r_head")
  /\ UNCHANGED <<event_buffer, positions, dropped_events, file_mutex, locals,
                 records, history>>

DropEvent(t) ==
  /\ Goto(t, "r_drop", "r_end")
  /\ dropped_events' = dropped_events + 1
  /\ UNCHANGED <<event_buffer, positions, file_mutex, locals, records, history>>

WriteFirst(t) ==
  /\ Goto(t, "r_first", "r_second")
  /\ event_buffer' = [event_buffer EXCEPT ![Slot(head[t])].first = event[t]]
  /\ UNCHANGED <<positions, dropped_events, file_mutex, locals, records, history>>

WriteSecond(t) ==
  /\ Goto(t, "r_second", "r_publish")
  /\ event_buffer' = [event_buffer EXCEPT ![Slot(head[t])].second = event[t]]
  /\ UNCHANGED <<positions, dropped_events, file_mutex, locals, records, history>>

Publish(t) ==
  /\ Goto(t, "r_publish", "r_count")
  /\ write_pos' = head[t] + 1
  /\ published' = Append(published, event[t])
  /\ UNCHANGED <<event_buffer, read_pos, dropped_events, file_mutex, locals,
                 records, copied>>

EndRecord(t) ==
  /\ pc[t] \in {"r_count", "r_end"}
  /\ pc' = [pc EXCEPT ![t] = "idle"]
  /\ UNCHANGED <<event_buffer, positions, dropped_events, file_mutex, locals,
                 records, history>>

\* Every so many events the call flushes before it returns, and waits for
\* file_mutex_ to do so.  The event counter is GGMLHook's; here any published
\* event may be the one.
FlushAfterRecord(t) ==
  /\ t \in Flushers
  /\ Goto(t, "r_count", "f_lock")
  /\ UNCHANGED <<event_buffer, positions, dropped_events, file_mutex, locals,
                 records, history>>

-----------------------------------------------------------------------------
(* What both consumers do with a slot and with read_pos_.                  *)

CopySlot(t) ==
  /\ tail[t] < head[t]
  /\ copied' = Append(copied, event_buffer[Slot(tail[t])])
  /\ tail' = [tail EXCEPT ![t] = @ + 1]

\* Mutant of StoreReadPos: it is forgotten.
StoreForgotten(pos) == read_pos' = read_pos

StoreReadPos(pos) == read_pos' = pos

(* consume_available_events *)

BeginConsume(t) ==
  /\ Goto(t, "idle", "c_tail")
  /\ UNCHANGED <<event_buffer, positions, dropped_events, file_mutex, locals,
                 records, history>>

ConsumeLoadTail(t) ==
  /\ Goto(t, "c_tail", "c_head")
  /\ tail' = [tail EXCEPT ![t] = read_pos]
  /\ UNCHANGED <<event_buffer, positions, dropped_events, file_mutex, head,
                 event, records, history>>

\* Mutant of ConsumeLoadHead: a single available event is not worth a copy.
LoadHeadLazy(t) ==
  /\ Goto(t, "c_head", IF write_pos <= tail[t] + 1 THEN "idle" ELSE "c_copy")
  /\ head' = [head EXCEPT ![t] = write_pos]
  /\ UNCHANGED <<event_buffer, positions, dropped_events, file_mutex, tail,
                 event, records, history>>

\* head - tail is unsigned: when it is negative, reserve() is asked for almost
\* 2^64 elements and throws std::length_error (update_live_data catches it, the
\* collector's loop does not).
ConsumeLoadHead(t) ==
  /\ Goto(t, "c_head", IF write_pos = tail[t] THEN "idle"
                       ELSE IF write_pos < tail[t] THEN "threw" ELSE "c_copy")
  /\ head' = [head EXCEPT ![t] = write_pos]
  /\ UNCHANGED <<event_buffer, positions, dropped_events, file_mutex, tail,
                 event, records, history>>

ConsumeCopy(t) ==
  /\ pc[t] = "c_copy"
  /\ CopySlot(t)
  /\ UNCHANGED <<event_buffer, positions, dropped_events, file_mutex, pc, head,
                 event, records, published>>

ConsumeStore(t) ==
  /\ Goto(t, "c_copy", "idle")
  /\ tail[t] = head[t]
  /\ StoreReadPos(head[t])
  /\ UNCHANGED <<event_buffer, write_pos, dropped_events, file_mutex, locals,
                 records, history>>

-----------------------------------------------------------------------------
(* flush_to_file, called with file_mutex_ held; the file is open.          *)

BeginFlush(t) ==
  /\ Goto(t, "idle", "f_lock")
  /\ UNCHANGED <<event_buffer, positions, dropped_events, file_mutex, locals,
                 records, history>>

LockFile(t) ==
  /\ Goto(t, "f_lock", "f_write")
  /\ file_mutex = NoThread
  /\ file_mutex' = t
  /\ UNCHANGED <<event_buffer, positions, dropped_events, locals, records,
                 history>>

FlushLoadWrite(t) ==
  /\ Goto(t, "f_write", "f_read")
  /\ head' = [head EXCEPT ![t] = write_pos]
  /\ UNCHANGED <<event_buffer, positions, dropped_events, file_mutex, tail,
                 event, records, history>>

FlushLoadRead(t) ==
  /\ Goto(t, "f_read", "f_copy")
  /\ tail' = [tail EXCEPT ![t] = read_pos]
  /\ UNCHANGED <<event_buffer, positions, dropped_events, file_mutex, head,
                 event, records, history>>

\* One turn of the loop writes one event to the file.
FlushCopy(t) ==
  /\ pc[t] = "f_copy"
  /\ CopySlot(t)
  /\ UNCHANGED <<event_buffer, positions, dropped_events, file_mutex, pc, head,
                 event, records, published>>

FlushStore(t) ==
  /\ Goto(t, "f_copy", "f_done")
  /\ ~(tail[t] < head[t])
  /\ StoreReadPos(tail[t])
  /\ UNCHANGED <<event_buffer, write_pos, dropped_events, file_mutex, locals,
                 records, history>>

UnlockFile(t) ==
  /\ Goto(t, "f_done", "idle")
  /\ file_mutex' = NoThread
  /\ UNCHANGED <<event_buffer, positions, dropped_events, locals, records,
                 history>>

-----------------------------------------------------------------------------
(* Without StoreAfterReads: while slots are still to be read, both         *)
(* consumers' store of read_pos_ may be seen; its value is known since the *)
(* loads of the positions.                                                 *)

CopyPC == {"c_copy", "f_copy"}
LatePC == {"c_late", "f_late"}

GiveBackEarly(t) ==
  /\ pc[t] \in CopyPC
  /\ tail[t] < head[t]
  /\ pc' = [pc EXCEPT ![t] = IF @ = "c_copy" THEN "c_late" ELSE "f_late"]
  /\ StoreReadPos(head[t])
  /\ UNCHANGED <<event_buffer, write_pos, dropped_events, file_mutex, locals,
                 records, history>>

LateCopy(t) ==
  /\ pc[t] \in LatePC
  /\ CopySlot(t)
  /\ UNCHANGED <<event_buffer, positions, dropped_events, file_mutex, pc, head,
                 event, records, published>>

EndLate(t) ==
  /\ pc[t] \in LatePC
  /\ ~(tail[t] < head[t])
  /\ pc' = [pc EXCEPT ![t] = IF @ = "c_late" THEN "idle" ELSE "f_done"]
  /\ UNCHANGED <<event_buffer, positions, dropped_events, file_mutex, locals,
                 records, history>>

LateSteps(t) ==
  /\ ~StoreAfterReads
  /\ GiveBackEarly(t) \/ LateCopy(t) \/ EndLate(t)

-----------------------------------------------------------------------------
RecordSteps(t) ==
  \/ LoadHead(t) \/ LoadTail(t) \/ DropEvent(t)
  \/ WriteFirst(t) \/ WriteSecond(t) \/ Publish(t)

ConsumeSteps(t) ==
  \/ ConsumeLoadTail(t) \/ ConsumeLoadHead(t) \/ ConsumeCopy(t)
  \/ ConsumeStore(t)

FlushSteps(t) ==
  \/ FlushLoadWrite(t) \/ FlushLoadRead(t) \/ FlushCopy(t) \/ FlushStore(t)

RingNext ==
  \/ \E t \in Producers : \/ BeginRecord(t) \/ RecordSteps(t)
                          \/ EndRecord(t) \/ FlushAfterRecord(t)
  \/ \E t \in Readers : BeginConsume(t) \/ ConsumeSteps(t)
  \/ \E t \in Flushers :
       BeginFlush(t) \/ LockFile(t) \/ FlushSteps(t) \/ UnlockFile(t)
  \/ \E t \in Readers \cup Flushers : LateSteps(t)

RingSpec == RingInit /\ [][RingNext]_ringVars

(***************************************************************************)
(* A thread inside a call goes on.  A reader polls for ever: the GUI calls *)
(* update_live_data in every frame, the collector loops until it is        *)
(* stopped.  Whether a producer records or flushes again is up to the      *)
(* model it runs.                                                          *)
(***************************************************************************)
ProducerFairness ==
  \A t \in Producers :
    WF_ringVars(RecordSteps(t) \/ EndRecord(t) \/ FlushAfterRecord(t))
ReaderFairness ==
  \A t \in Readers : WF_ringVars(BeginConsume(t) \/ ConsumeSteps(t) \/ LateSteps(t))
FlusherFairness ==
  \A t \in Flushers :
    WF_ringVars(LockFile(t) \/ FlushSteps(t) \/ LateSteps(t) \/ UnlockFile(t))

\* Only the producers are scheduled: everyone else may stop anywhere.
ProducerOnlySpec == RingSpec /\ ProducerFairness
FairRingSpec == RingSpec /\ ProducerFairness /\ ReaderFairness /\ FlusherFairness

-----------------------------------------------------------------------------
(* Properties *)

RecordPC  == {"r_head", "r_tail", "r_drop", "r_first", "r_second", "r_publish",
              "r_count", "r_end"}
ConsumePC == {"c_tail", "c_head", "c_copy", "c_late", "threw"}
FlushPC   == {"f_write", "f_read", "f_copy", "f_late", "f_done"}

Half == [first : Nat, second : Nat]

\* Every variable has its type (the ring's slots, positions and locals).
TypeOK ==
  /\ event_buffer \in [0 .. BUFFER_SIZE-1 -> Half]
  /\ write_pos \in Nat /\ read_pos \in Nat /\ dropped_events \in Nat
  /\ file_mutex \in Threads \cup {NoThread}
  /\ pc \in [Threads -> RecordPC \cup ConsumePC \cup FlushPC \cup {"idle", "f_lock"}]
  /\ head \in [Threads -> Nat] /\ tail \in [Threads -> Nat]
  /\ event \in [Threads -> Nat]
  /\ records \in Nat
  /\ published \in Seq(Nat)
  /\ copied \in Seq(Half)

\* flush_to_file runs in at most one thread at a time, the holder of
\* file_mutex_ (on_graph_compute_end, record_event and stop all lock it first).
FlushExclusive ==
  \A t \in Threads : pc[t] \in FlushPC => file_mutex = t

\* "Producer never overwrites unread slots" (RING_BUFFER_ANALYSIS.md, section
\* 5): an event that was published is still in its slot until a consumer has
\* read it.  Needs StoreAfterReads.
UnreadSlotsIntact ==
  \A i \in 1 .. Len(published) :
    \/ event_buffer[Slot(i-1)] = Whole(published[i])
    \/ \E j \in 1 .. Len(copied) : copied[j] = Whole(published[i])

\* The consumers together read the published events, each one once, in the
\* order they were published, and whole ("Consumer never sees half-written
\* events", same section).  True where read_pos_ is seen to move only after the
\* slots were read (StoreAfterReads); the code's relaxed stores do not ask for
\* that, and without it a producer can write into the slot under the copy.
ReadInOrder ==
  /\ Len(copied) <= Len(published)
  /\ \A i \in 1 .. Len(copied) : copied[i] = Whole(published[i])

\* record_event stores each event under a position of its own: no two
\* producers take the same slot for the same write_pos_.
OwnPosition == write_pos = Len(published)

\* read_pos_ never passes write_pos_, so consume_available_events never
\* computes a negative number of available events.
ReaderBehindWriter ==
  /\ read_pos <= write_pos
  /\ \A t \in Threads : pc[t] # "threw"

\* The producers at one of the steps S of record_event.
InRecord(S) == {t \in Producers : pc[t] \in S}

\* Every call of record_event either publishes its event, counts it as dropped
\* or is still running: an event is never refused without being counted.
EveryRecordCounted ==
  records = Len(published) + dropped_events
            + Cardinality(InRecord(RecordPC \ {"r_count", "r_end"}))

\* With StoreAfterReads the ring implements the bounded lossy queue: its events
\* are accepted when write_pos_ is stored, refused when the positions are found
\* on one slot, and delivered when read_pos_ is stored.
Accepted  == [i \in 1 .. Len(published) |-> Whole(published[i])]
Delivered == SubSeq(copied, 1, read_pos)
Refused   == dropped_events + Cardinality(InRecord({"r_drop"}))

Queue == INSTANCE EventQueue WITH
           Event     <- {Whole(e) : e \in 1 .. MaxRecords},
           Capacity  <- BUFFER_SIZE - 1,
           accepted  <- Accepted,
           delivered <- Delivered,
           refused   <- Refused

QueueSpec == Queue!Spec

-----------------------------------------------------------------------------
(* The intended use: one producer, and one consumer, which is either a     *)
(* reader or whichever thread flushes under file_mutex_.                   *)

SingleProducer == \A p, q \in Producers : p = q
SingleConsumer == /\ \A c, d \in Readers : c = d
                  /\ Readers = {} \/ Flushers = {}

\* A thread is inside a function that its role lets it call.
Roles ==
  \A t \in Threads : /\ pc[t] \in RecordPC => t \in Producers
                     /\ pc[t] \in ConsumePC => t \in Readers
                     /\ pc[t] \in FlushPC => t \in Flushers

\* The pending events, those not given back yet, are at most BUFFER_SIZE - 1,
\* each one in its slot.
PendingInSlots ==
  /\ read_pos <= write_pos
  /\ write_pos < read_pos + BUFFER_SIZE
  /\ \A i \in read_pos .. write_pos-1 :
       event_buffer[Slot(i)] = Whole(published[i+1])

\* What a producer knows between its loads and its store.
ProducerKnows ==
  \A t \in Producers :
    /\ pc[t] \in {"r_tail", "r_first", "r_second", "r_publish"} =>
         head[t] = write_pos
    /\ pc[t] \in {"r_first", "r_second", "r_publish"} =>
         write_pos + 1 < read_pos + BUFFER_SIZE
    /\ pc[t] = "r_second" => event_buffer[Slot(head[t])].first = event[t]
    /\ pc[t] = "r_publish" => event_buffer[Slot(head[t])] = Whole(event[t])

\* What a consumer knows between its loads and its store.
ConsumerKnows ==
  \A t \in Threads :
    /\ pc[t] = "c_head" => tail[t] = read_pos
    /\ pc[t] = "f_read" => read_pos <= head[t] /\ head[t] <= write_pos
    /\ pc[t] \in CopyPC =>
         read_pos <= tail[t] /\ tail[t] <= head[t] /\ head[t] <= write_pos

\* How many events have been read.
CopiedSoFar ==
  /\ \A t \in Threads : pc[t] \in CopyPC => Len(copied) = tail[t]
  /\ (\A t \in Threads : pc[t] \notin CopyPC) => Len(copied) = read_pos

\* The inductive invariant of the ring with one producer and one consumer.  The
\* positions and the pending events are right on every processor, what was read
\* only with StoreAfterReads.
RingInv ==
  /\ Roles /\ FlushExclusive /\ OwnPosition /\ PendingInSlots
  /\ ProducerKnows /\ ConsumerKnows /\ ReaderBehindWriter
  /\ StoreAfterReads => CopiedSoFar /\ ReadInOrder

-----------------------------------------------------------------------------
\* record_event gets its event into the ring, or drops it, without waiting for
\* anyone: with only the producers scheduled, and every consumer stopped at an
\* arbitrary place.  The rest of the call does wait: for file_mutex_, to flush
\* or, at the event limit, to stop the hook (RecordNeverWaits in GGMLHook).
PublishesOrDrops ==
  \A t \in Producers : pc[t] = "r_head" ~> pc[t] \in {"r_count", "r_end"}

\* Every published event is read in the end, by a consumer that keeps polling.
EverythingRead ==
  \A n \in 1 .. MaxRecords : Len(published) >= n ~> Len(copied) >= n
=============================================================================
