----------------------------- MODULE LiveStream -----------------------------
(***************************************************************************)
(* Live streaming (src/server/live_data_collector.hpp): LiveDataCollector  *)
(* polls the hook's ring in a thread of its own and hands each batch to    *)
(* LiveStreamServer, which queues the events, accepts HTTP clients in      *)
(* another thread and serves each of them in a detached one.  The owner    *)
(* starts, stops and in the end destroys the server.                       *)
(*                                                                         *)
(* The ring is used through its promise (EventQueue): the collector takes  *)
(* all pending events at once, in order.  A client may stop reading its    *)
(* stream: then send(), which has no timeout, blocks its thread until the  *)
(* client reads again or the connection breaks.                            *)
(***************************************************************************)
EXTENDS Naturals, FiniteSets, SequencesExt

CONSTANTS
  Clients,     \* the connections that may be made
  QUEUE_LIMIT, \* most events event_queue_ keeps (10000)
  SEND_BATCH,  \* most events a client takes at once (10)
  NoThread,    \* queue_mutex_ is free
  MaxEvents,   \* bound of the model: events recorded
  MaxStarts    \* bound of the model: start() calls

Collector == "collector"
Threads == Clients \cup {Collector}

ASSUME StreamAssumption ==
  /\ QUEUE_LIMIT \in Nat \ {0} /\ SEND_BATCH \in Nat \ {0}
  /\ MaxEvents \in Nat /\ MaxStarts \in Nat
  /\ NoThread \notin Threads /\ Collector \notin Clients

VARIABLES
  recorded,       \* number of events recorded so far, which also numbers them
  ring,           \* the events in the hook's ring
  server_running, \* server_running_
  running,        \* running_ of the collector
  owner,          \* where the owner is
  collector,      \* where the collector thread is
  server,         \* where the server thread is
  client,         \* where each client's thread is
  batch,          \* the events each thread holds
  event_queue,
  queue_mutex,    \* the thread that holds queue_mutex_
  connected_clients,
  starts,         \* number of start() calls so far
  received        \* history: the events each client was sent

source == <<recorded, ring>>
flags  == <<server_running, running, owner, starts>>
queue  == <<event_queue, queue_mutex>>
vars   == <<recorded, ring, server_running, running, owner,
            collector, server, client, batch, event_queue, queue_mutex,
            connected_clients, starts, received>>

Init ==
  /\ recorded = 0 /\ ring = <<>>
  /\ server_running = FALSE /\ running = FALSE /\ owner = "idle" /\ starts = 0
  /\ collector = "none" /\ server = "none"
  /\ client = [c \in Clients |-> "none"]
  /\ batch = [t \in Threads |-> <<>>]
  /\ event_queue = <<>> /\ queue_mutex = NoThread
  /\ connected_clients = 0
  /\ received = [c \in Clients |-> <<>>]

-----------------------------------------------------------------------------
(* The hook *)

Record ==
  /\ recorded < MaxEvents
  /\ recorded' = recorded + 1
  /\ ring' = Append(ring, recorded + 1)
  /\ UNCHANGED <<flags, collector, server, client, batch, queue,
                 connected_clients, received>>

-----------------------------------------------------------------------------
(* The owner *)

StartServer ==
  /\ owner = "idle" /\ ~server_running /\ starts < MaxStarts
  /\ starts' = starts + 1
  /\ server_running' = TRUE
  /\ owner' = "start_collector"
  /\ UNCHANGED <<source, running, collector, server, client, batch, queue,
                 connected_clients, received>>

StartCollector ==
  /\ owner = "start_collector"
  /\ running' = TRUE
  /\ collector' = "check"
  /\ owner' = "start_thread"
  /\ UNCHANGED <<source, server_running, starts, server, client, batch, queue,
                 connected_clients, received>>

StartThread ==
  /\ owner = "start_thread"
  /\ server' = "listen"
  /\ owner' = "idle"
  /\ UNCHANGED <<source, server_running, running, starts, collector, client,
                 batch, queue, connected_clients, received>>

\* Mutant of StopServer: the collector is joined without being told to stop.
StopServerOnly ==
  /\ owner = "idle" /\ server_running
  /\ server_running' = FALSE
  /\ owner' = "join_collector"
  /\ UNCHANGED <<source, running, starts, collector, server, client, batch, queue,
                 connected_clients, received>>

\* stop() of a running server, also called by the destructor.
StopServer ==
  /\ owner = "idle" /\ server_running
  /\ server_running' = FALSE
  /\ owner' = "stop_collector"
  /\ UNCHANGED <<source, running, starts, collector, server, client, batch, queue,
                 connected_clients, received>>

StopCollector ==
  /\ owner = "stop_collector"
  /\ running' = FALSE
  /\ owner' = "join_collector"
  /\ UNCHANGED <<source, server_running, starts, collector, server, client, batch,
                 queue, connected_clients, received>>

JoinCollector ==
  /\ owner = "join_collector" /\ collector = "done"
  /\ owner' = "join_server"
  /\ UNCHANGED <<source, server_running, running, starts, collector, server,
                 client, batch, queue, connected_clients, received>>

JoinServer ==
  /\ owner = "join_server" /\ server = "done"
  /\ owner' = "idle"
  /\ UNCHANGED <<source, server_running, running, starts, collector, server,
                 client, batch, queue, connected_clients, received>>

-----------------------------------------------------------------------------
(* collector_loop and handle_new_events *)

\* The loop ends when running_ is cleared.
PollEnds ==
  /\ collector = "check" /\ ~running
  /\ collector' = "done"
  /\ UNCHANGED <<source, flags, server, client, batch, queue,
                 connected_clients, received>>

\* A turn of the loop that finds the hook active and events in its ring; one that
\* does not changes nothing.
Poll ==
  /\ collector = "check" /\ running /\ ring # <<>>
  /\ batch' = [batch EXCEPT ![Collector] = ring]
  /\ ring' = <<>>
  /\ collector' = "lock"
  /\ UNCHANGED <<recorded, flags, server, client, queue, connected_clients,
                 received>>

LockForBatch ==
  /\ collector = "lock"
  /\ queue_mutex = NoThread
  /\ queue_mutex' = Collector
  /\ collector' = "push"
  /\ UNCHANGED <<source, flags, server, client, batch, event_queue,
                 connected_clients, received>>

\* Mutants of Newest: the newest events are thrown away instead of the oldest,
\* or the limit is taken for one more than it is.
Oldest(q) == SubSeq(q, 1, IF Len(q) > QUEUE_LIMIT THEN QUEUE_LIMIT ELSE Len(q))

NewestAndOne(q) ==
  SubSeq(q, 1 + (IF Len(q) > QUEUE_LIMIT + 1 THEN Len(q) - QUEUE_LIMIT - 1 ELSE 0),
         Len(q))

\* What remains of the queue when the oldest events over the limit are gone.
Newest(q) ==
  SubSeq(q, 1 + (IF Len(q) > QUEUE_LIMIT THEN Len(q) - QUEUE_LIMIT ELSE 0), Len(q))

PushBatch ==
  /\ collector = "push"
  /\ event_queue' = Newest(event_queue \o batch[Collector])
  /\ batch' = [batch EXCEPT ![Collector] = <<>>]
  /\ queue_mutex' = NoThread
  /\ collector' = "check"
  /\ UNCHANGED <<source, flags, server, client, connected_clients, received>>

-----------------------------------------------------------------------------
(* start_http_server *)

\* socket(), bind() or listen() fails: the thread ends, the server goes on
\* counting as running.
ListenFails ==
  /\ server = "listen"
  /\ server' = "done"
  /\ UNCHANGED <<source, flags, collector, client, batch, queue,
                 connected_clients, received>>

Listen ==
  /\ server = "listen"
  /\ server' = "accept"
  /\ UNCHANGED <<source, flags, collector, client, batch, queue,
                 connected_clients, received>>

CheckAccepting ==
  /\ server = "accept"
  /\ server' = IF server_running THEN "select" ELSE "done"
  /\ UNCHANGED <<source, flags, collector, client, batch, queue,
                 connected_clients, received>>

\* select() gives up after a second.
SelectTimesOut ==
  /\ server = "select"
  /\ server' = "accept"
  /\ UNCHANGED <<source, flags, collector, client, batch, queue,
                 connected_clients, received>>

\* A connection came in, possibly since stop() cleared server_running_.
Accept(c) ==
  /\ server = "select"
  /\ server' = "accept"
  /\ client[c] = "none"
  /\ client' = [client EXCEPT ![c] = "begin"]
  /\ UNCHANGED <<source, flags, collector, batch, queue, connected_clients,
                 received>>

-----------------------------------------------------------------------------
(* handle_client and stream_events_to_client, in a detached thread *)

BeginClient(c) ==
  /\ client[c] = "begin"
  /\ connected_clients' = connected_clients + 1
  /\ client' = [client EXCEPT ![c] = "recv"]
  /\ UNCHANGED <<source, flags, collector, server, batch, queue, received>>

\* recv() fails, or the request is for the event stream, for the status, or for
\* the page.  The headers of a stream and the answers are the first bytes of the
\* connection and fit in its buffers: their send() returns, whatever it says.
ReceiveRequest(c) ==
  /\ client[c] = "recv"
  /\ \E next \in {"stream", "status", "end"} :
       client' = [client EXCEPT ![c] = next]
  /\ UNCHANGED <<source, flags, collector, server, batch, queue,
                 connected_clients, received>>

\* get_queue_size() takes the mutex and gives it back; the answer is sent.
SendStatus(c) ==
  /\ client[c] = "status"
  /\ queue_mutex = NoThread
  /\ client' = [client EXCEPT ![c] = "end"]
  /\ UNCHANGED <<source, flags, collector, server, batch, queue,
                 connected_clients, received>>

CheckRunning(c) ==
  /\ client[c] = "stream"
  /\ client' = [client EXCEPT ![c] = IF server_running THEN "lock" ELSE "end"]
  /\ UNCHANGED <<source, flags, collector, server, batch, queue,
                 connected_clients, received>>

LockForClient(c) ==
  /\ client[c] = "lock"
  /\ queue_mutex = NoThread
  /\ queue_mutex' = c
  /\ client' = [client EXCEPT ![c] = "take"]
  /\ UNCHANGED <<source, flags, collector, server, batch, event_queue,
                 connected_clients, received>>

\* Mutants of TakeEvents: the events stay in the queue, or the mutex is kept.
CopyEvents(c) ==
  LET k == IF Len(event_queue) < SEND_BATCH THEN Len(event_queue) ELSE SEND_BATCH
  IN
  /\ client[c] = "take"
  /\ batch' = [batch EXCEPT ![c] = SubSeq(event_queue, 1, k)]
  /\ queue_mutex' = NoThread
  /\ client' = [client EXCEPT ![c] = "send"]
  /\ UNCHANGED <<source, flags, collector, server, event_queue,
                 connected_clients, received>>

TakeLocked(c) ==
  LET k == IF Len(event_queue) < SEND_BATCH THEN Len(event_queue) ELSE SEND_BATCH
  IN
  /\ client[c] = "take"
  /\ batch' = [batch EXCEPT ![c] = SubSeq(event_queue, 1, k)]
  /\ event_queue' = SubSeq(event_queue, k + 1, Len(event_queue))
  /\ client' = [client EXCEPT ![c] = "send"]
  /\ UNCHANGED <<source, flags, collector, server, queue_mutex,
                 connected_clients, received>>

TakeEvents(c) ==
  LET k == IF Len(event_queue) < SEND_BATCH THEN Len(event_queue) ELSE SEND_BATCH
  IN
  /\ client[c] = "take"
  /\ batch' = [batch EXCEPT ![c] = SubSeq(event_queue, 1, k)]
  /\ event_queue' = SubSeq(event_queue, k + 1, Len(event_queue))
  /\ queue_mutex' = NoThread
  /\ client' = [client EXCEPT ![c] = "send"]
  /\ UNCHANGED <<source, flags, collector, server, connected_clients, received>>

SendEvent(c) ==
  /\ client[c] \in {"send", "blocked"} /\ batch[c] # <<>>
  /\ received' = [received EXCEPT ![c] = Append(@, Head(batch[c]))]
  /\ batch' = [batch EXCEPT ![c] = Tail(@)]
  /\ client' = [client EXCEPT ![c] = "send"]
  /\ UNCHANGED <<source, flags, collector, server, queue, connected_clients>>

\* The connection is full and the client does not read.
SendBlocks(c) ==
  /\ client[c] = "send" /\ batch[c] # <<>>
  /\ client' = [client EXCEPT ![c] = "blocked"]
  /\ UNCHANGED <<source, flags, collector, server, batch, queue,
                 connected_clients, received>>

BatchSent(c) ==
  /\ client[c] = "send" /\ batch[c] = <<>>
  /\ client' = [client EXCEPT ![c] = "stream"]
  /\ UNCHANGED <<source, flags, collector, server, batch, queue,
                 connected_clients, received>>

\* Mutant of SendFails: the count of clients is not given back.
SendFailsUncounted(c) ==
  /\ client[c] \in {"send", "blocked"} /\ batch[c] # <<>>
  /\ batch' = [batch EXCEPT ![c] = <<>>]
  /\ client' = [client EXCEPT ![c] = "gone"]
  /\ UNCHANGED <<source, flags, collector, server, queue, connected_clients,
                 received>>

\* The connection is broken, and what is left of the batch is lost.
SendFails(c) ==
  /\ client[c] \in {"send", "blocked"} /\ batch[c] # <<>>
  /\ batch' = [batch EXCEPT ![c] = <<>>]
  /\ client' = [client EXCEPT ![c] = "end"]
  /\ UNCHANGED <<source, flags, collector, server, queue, connected_clients,
                 received>>

EndClient(c) ==
  /\ client[c] = "end"
  /\ connected_clients' = connected_clients - 1
  /\ client' = [client EXCEPT ![c] = "gone"]
  /\ UNCHANGED <<source, flags, collector, server, batch, queue, received>>

-----------------------------------------------------------------------------
OwnerSteps == StartCollector \/ StartThread \/ StopCollector \/ JoinCollector \/ JoinServer
CollectorSteps == PollEnds \/ LockForBatch \/ PushBatch
ServerSteps == ListenFails \/ Listen \/ CheckAccepting \/ SelectTimesOut
ClientSteps(c) ==
  \/ BeginClient(c) \/ SendStatus(c)
  \/ CheckRunning(c) \/ LockForClient(c) \/ TakeEvents(c)
  \/ SendEvent(c) \/ SendBlocks(c) \/ SendFails(c) \/ BatchSent(c)
  \/ EndClient(c)

Next ==
  \/ Record
  \/ StartServer \/ StopServer \/ OwnerSteps
  \/ Poll \/ CollectorSteps
  \/ ServerSteps
  \/ \E c \in Clients :
       Accept(c) \/ ReceiveRequest(c) \/ ClientSteps(c)

Spec == Init /\ [][Next]_vars

(***************************************************************************)
(* The threads are scheduled, and a thread that waits for queue_mutex_ gets *)
(* it in the end: the others sleep between two turns (50 ms and 10 ms), so *)
(* it is free again and again.  recv() may wait for ever, and a blocked    *)
(* send() stay blocked: nothing is assumed of either, nor of a hook to be  *)
(* active when it is polled.                                               *)
(***************************************************************************)
Fairness ==
  /\ WF_vars(OwnerSteps) /\ WF_vars(ServerSteps)
  /\ SF_vars(CollectorSteps)
  /\ \A c \in Clients : SF_vars(client[c] # "blocked" /\ ClientSteps(c))
FairSpec == Spec /\ Fairness

-----------------------------------------------------------------------------
(* Properties *)

\* Every variable has its type.
TypeOK ==
  /\ {server_running, running} \subseteq BOOLEAN
  /\ Len(event_queue) <= QUEUE_LIMIT
  /\ queue_mutex \in Threads \cup {NoThread}
  /\ connected_clients \in 0 .. Cardinality(Clients)

\* Every client gets events in the order they were recorded, and an event that
\* one client got is not sent to another.
StreamsInOrder ==
  /\ \A c \in Clients : \A i, j \in 1 .. Len(received[c]) :
       i < j => received[c][i] < received[c][j]
  /\ \A c, d \in Clients :
       c # d => ToSet(received[c]) \cap ToSet(received[d]) = {}

\* An event is thrown away only when the queue is full, the oldest first: the
\* queue, then the batch being pushed, then the ring are the last events
\* recorded, without a gap.
NewestKept ==
  LET pending == event_queue \o batch[Collector] \o ring
  IN  pending = [i \in 1 .. Len(pending) |-> recorded - Len(pending) + i]

\* connected_clients_ counts the client threads that are past its increment
\* and not yet past its decrement.
ClientsCounted ==
  connected_clients =
    Cardinality({c \in Clients : client[c] \notin {"none", "begin", "gone"}})

\* stop() returns: the collector and the server thread come to their ends
\* whatever the clients do, also when their sends are blocked.
StopReturns == owner # "idle" ~> owner = "idle"

\* When the server has stopped for good, every client that was streaming comes
\* to its end, wherever it was: waiting for the queue, sending, or in between -
\* unless it does not read: stop() shuts no connection down, and its thread may
\* then stay in send() for ever, without keeping any other from its end.
StreamsEnd ==
  \A c \in Clients :
    client[c] \in {"stream", "lock", "take", "send"}
      ~> client[c] \in {"gone", "blocked"} \/ server_running
=============================================================================
