-------------------------- MODULE LiveStream_proofs --------------------------
(***************************************************************************)
(* Proofs about LiveStream: the queue between the collector and the        *)
(* clients loses only its oldest events, no client gets an event twice or  *)
(* out of order, and the clients are counted, for any number of clients,   *)
(* any limits, and any interleaving with start() and stop().               *)
(***************************************************************************)
EXTENDS LiveStream, Integers, SequenceTheorems, FiniteSetTheorems, TLAPS

-----------------------------------------------------------------------------
(* Sequences of numbered events. *)

\* The events of s are numbered one after another, the last one with n.
Numbered(s, n) == \A i \in 1 .. Len(s) : s[i] = n - Len(s) + i

\* The next event can be appended.
LEMMA NumberedAppend ==
  ASSUME NEW s \in Seq(Nat), NEW n \in Nat, Numbered(s, n)
  PROVE  /\ Append(s, n + 1) \in Seq(Nat) /\ Len(Append(s, n + 1)) = Len(s) + 1
         /\ Numbered(Append(s, n + 1), n + 1)
<1>1. /\ Append(s, n + 1) \in Seq(Nat) /\ Len(Append(s, n + 1)) = Len(s) + 1
      /\ \A i \in 1 .. Len(s) : Append(s, n + 1)[i] = s[i]
      /\ Append(s, n + 1)[Len(s) + 1] = n + 1
  BY AppendProperties
<1> QED
  BY <1>1 DEF Numbered

\* Two sequences follow one another exactly when their concatenation is
\* numbered.
LEMMA NumberedConcat ==
  ASSUME NEW r \in Seq(Nat), NEW s \in Seq(Nat), NEW n \in Int
  PROVE  /\ r \o s \in Seq(Nat) /\ Len(r \o s) = Len(r) + Len(s)
         /\ Numbered(r, n - Len(s)) /\ Numbered(s, n) => Numbered(r \o s, n)
<1>1. /\ r \o s \in Seq(Nat) /\ Len(r \o s) = Len(r) + Len(s)
      /\ \A i \in 1 .. Len(r) + Len(s) :
           (r \o s)[i] = IF i <= Len(r) THEN r[i] ELSE s[i - Len(r)]
  BY ConcatProperties
<1>2. ASSUME Numbered(r, n - Len(s)), Numbered(s, n), NEW i \in 1 .. Len(r \o s)
      PROVE  (r \o s)[i] = n - Len(r \o s) + i
  <2>0. Len(r) \in Nat /\ Len(s) \in Nat
    OBVIOUS
  <2>1. CASE i <= Len(r)
    BY <1>1, <1>2, <2>0, <2>1 DEF Numbered
  <2>2. CASE ~(i <= Len(r))
    <3>1. i - Len(r) \in 1 .. Len(s)
      BY <1>1, <1>2, <2>0, <2>2
    <3>2. s[i - Len(r)] = n - Len(s) + (i - Len(r))
      BY <1>2, <3>1 DEF Numbered
    <3> QED
      BY <1>1, <2>0, <2>2, <3>1, <3>2
  <2> QED
    BY <2>1, <2>2
<1> QED
  BY <1>1, <1>2 DEF Numbered

\* A piece of a numbered sequence is numbered.
LEMMA NumberedPiece ==
  ASSUME NEW s \in Seq(Nat), NEW n \in Int, Numbered(s, n),
         NEW a \in 1 .. Len(s) + 1, NEW b \in a - 1 .. Len(s)
  PROVE  /\ SubSeq(s, a, b) \in Seq(Nat) /\ Len(SubSeq(s, a, b)) = b - a + 1
         /\ \A i \in 1 .. b - a + 1 : SubSeq(s, a, b)[i] = s[a + i - 1]
         /\ Numbered(SubSeq(s, a, b), n - (Len(s) - b))
<1>0. Len(s) \in Nat /\ a \in Int /\ b \in Int
  OBVIOUS
<1>1. \A i \in a .. b : s[i] \in Nat
  BY <1>0, ElementOfSeq
<1>2. /\ SubSeq(s, a, b) \in Seq(Nat)
      /\ Len(SubSeq(s, a, b)) = IF a <= b THEN b - a + 1 ELSE 0
      /\ \A i \in 1 .. b - a + 1 : SubSeq(s, a, b)[i] = s[a + i - 1]
  BY <1>0, <1>1, SubSeqProperties, SMTT(30)
<1>3. Len(SubSeq(s, a, b)) = b - a + 1
  BY <1>0, <1>2
<1>4. ASSUME NEW i \in 1 .. b - a + 1
      PROVE  s[a + i - 1] = n - Len(s) + (a + i - 1)
  <2>1. a + i - 1 \in 1 .. Len(s)
    BY <1>0
  <2> QED
    BY <2>1 DEF Numbered
<1>5. ASSUME NEW i \in 1 .. Len(SubSeq(s, a, b))
      PROVE  SubSeq(s, a, b)[i] = n - (Len(s) - b) - Len(SubSeq(s, a, b)) + i
  <2>1. i \in 1 .. b - a + 1 /\ i \in Int
    BY <1>3
  <2>2. SubSeq(s, a, b)[i] = n - Len(s) + (a + i - 1)
    BY <1>2, <1>4, <2>1
  <2> QED
    BY <1>0, <1>3, <2>1, <2>2
<1>6. Numbered(SubSeq(s, a, b), n - (Len(s) - b))
  BY <1>5 DEF Numbered
<1> QED
  BY <1>2, <1>3, <1>6

-----------------------------------------------------------------------------
(* Types, and who is where. *)

\* The variables that events pass through.
EventTypes ==
  /\ recorded \in Nat /\ ring \in Seq(Nat) /\ event_queue \in Seq(Nat)
  /\ batch \in [Threads -> Seq(Nat)]
  /\ received \in [Clients -> Seq(Nat)]
  /\ DOMAIN client = Clients

\* The collector's thread is over before it is started again; only a thread
\* that is sending, or pushing, holds events; and who holds queue_mutex_ is
\* where it is used.
ThreadPlaces ==
  /\ owner \in {"start_collector", "start_thread"} => server_running
  /\ owner = "idle" /\ ~server_running => collector \in {"none", "done"}
  /\ owner \in {"start_collector", "join_server"} => collector \in {"none", "done"}
  /\ queue_mutex \in Threads \cup {NoThread}
  /\ queue_mutex = Collector <=> collector = "push"
  /\ collector \notin {"lock", "push"} => batch[Collector] = <<>>
  /\ \A c \in Clients : /\ queue_mutex = c <=> client[c] = "take"
                        /\ client[c] \notin {"send", "blocked"} => batch[c] = <<>>

\* What remains of the queue when a batch has been pushed.
LEMMA NewestIs ==
  ASSUME NEW q \in Seq(Nat)
  PROVE  \E a \in 1 .. Len(q) + 1 :
           /\ Newest(q) = SubSeq(q, a, Len(q))
           /\ Len(q) - a + 1 <= QUEUE_LIMIT
           /\ Newest(q) \in Seq(Nat) /\ Len(Newest(q)) <= QUEUE_LIMIT
<1> DEFINE a == 1 + (IF Len(q) > QUEUE_LIMIT THEN Len(q) - QUEUE_LIMIT ELSE 0)
<1>1. Len(q) \in Nat /\ QUEUE_LIMIT \in Nat
  BY StreamAssumption
<1>2. /\ a \in 1 .. Len(q) + 1 /\ a \in Int
      /\ Len(q) - a + 1 <= QUEUE_LIMIT
  BY <1>1
<1>3. Newest(q) = SubSeq(q, a, Len(q))
  BY DEF Newest
<1> HIDE DEF a
<1>4. \A i \in a .. Len(q) : q[i] \in Nat
  BY <1>1, <1>2, ElementOfSeq
<1>5. /\ SubSeq(q, a, Len(q)) \in Seq(Nat)
      /\ Len(SubSeq(q, a, Len(q))) = IF a <= Len(q) THEN Len(q) - a + 1 ELSE 0
  BY <1>1, <1>2, <1>4, SubSeqProperties
<1>6. Len(SubSeq(q, a, Len(q))) <= QUEUE_LIMIT
  BY <1>1, <1>2, <1>5
<1> QED
  BY <1>2, <1>3, <1>5, <1>6

\* It is no longer than the queue with the batch.
LEMMA NewestShorter ==
  ASSUME NEW q \in Seq(Nat)
  PROVE  Len(Newest(q)) \in Nat /\ Len(Newest(q)) <= Len(q)
<1>1. PICK a \in 1 .. Len(q) + 1 : Newest(q) = SubSeq(q, a, Len(q))
  BY NewestIs
<1>2. Len(q) \in Nat /\ a \in Int /\ \A i \in a .. Len(q) : q[i] \in Nat
  BY ElementOfSeq
<1>3. Len(SubSeq(q, a, Len(q))) = IF a <= Len(q) THEN Len(q) - a + 1 ELSE 0
  BY <1>2, SubSeqProperties
<1> QED
  BY <1>1, <1>2, <1>3

\* How many events a client takes from the queue.
Taken == IF Len(event_queue) < SEND_BATCH THEN Len(event_queue) ELSE SEND_BATCH

\* Every step keeps the types.
LEMMA EventTypesStep ==
  ASSUME EventTypes, [Next]_vars
  PROVE  EventTypes'
<1>0. Collector \in Threads /\ Clients \subseteq Threads
  BY DEF Threads
<1> USE DEF EventTypes, source, flags, queue
<1>1. CASE Record
  BY <1>1, AppendProperties DEF Record
<1>2. CASE StartServer \/ StopServer \/ OwnerSteps \/ ServerSteps
  BY <1>2 DEF StartServer, StopServer, OwnerSteps, StartCollector, StartThread,
              StopCollector, JoinCollector, JoinServer, ServerSteps, ListenFails, Listen,
              CheckAccepting, SelectTimesOut
<1>3. CASE Poll
  <2>1. ring' \in Seq(Nat)
    BY <1>3, EmptySeq DEF Poll
  <2>2. batch' \in [Threads -> Seq(Nat)]
    BY <1>0, <1>3 DEF Poll
  <2> QED
    BY <1>3, <2>1, <2>2 DEF Poll
<1>4. CASE PollEnds \/ LockForBatch
  BY <1>4 DEF PollEnds, LockForBatch
<1>5. CASE PushBatch
  <2>1. event_queue \o batch[Collector] \in Seq(Nat)
    BY <1>0, ConcatProperties
  <2>2. event_queue' \in Seq(Nat)
    BY <1>5, <2>1, NewestIs DEF PushBatch
  <2>3. batch' \in [Threads -> Seq(Nat)]
    BY <1>0, <1>5 DEF PushBatch
  <2> QED
    BY <1>5, <2>2, <2>3 DEF PushBatch
<1>6. ASSUME NEW c \in Clients,
             \/ Accept(c) \/ BeginClient(c) \/ ReceiveRequest(c) \/ SendStatus(c)
             \/ CheckRunning(c) \/ LockForClient(c) \/ SendBlocks(c) \/ BatchSent(c)
             \/ EndClient(c)
      PROVE  EventTypes'
  BY <1>6 DEF Accept, BeginClient, ReceiveRequest, SendStatus, CheckRunning,
              LockForClient, SendBlocks, BatchSent, EndClient
<1>7. ASSUME NEW c \in Clients, TakeEvents(c)
      PROVE  EventTypes'
  <2>1. Len(event_queue) \in Nat /\ Taken \in 0 .. Len(event_queue)
    BY StreamAssumption DEF Taken
  <2>2. /\ \A i \in 1 .. Taken : event_queue[i] \in Nat
        /\ \A i \in Taken + 1 .. Len(event_queue) : event_queue[i] \in Nat
    BY <2>1, ElementOfSeq
  <2>3. /\ SubSeq(event_queue, 1, Taken) \in Seq(Nat)
        /\ SubSeq(event_queue, Taken + 1, Len(event_queue)) \in Seq(Nat)
    BY <2>1, <2>2, SubSeqProperties
  <2>4. /\ event_queue' = SubSeq(event_queue, Taken + 1, Len(event_queue))
        /\ batch' = [batch EXCEPT ![c] = SubSeq(event_queue, 1, Taken)]
        /\ DOMAIN client' = Clients /\ UNCHANGED <<recorded, ring, received>>
    BY <1>7 DEF TakeEvents, Taken
  <2>5. batch' \in [Threads -> Seq(Nat)]
    BY <1>0, <2>3, <2>4
  <2> QED
    BY <2>3, <2>4, <2>5
<1>8. ASSUME NEW c \in Clients, SendEvent(c)
      PROVE  EventTypes'
  <2>1. batch[c] \in Seq(Nat) /\ batch[c] # <<>> /\ received[c] \in Seq(Nat)
    BY <1>0, <1>8 DEF SendEvent
  <2>2. Head(batch[c]) \in Nat /\ Tail(batch[c]) \in Seq(Nat)
    BY <2>1, HeadTailProperties
  <2>3. Append(received[c], Head(batch[c])) \in Seq(Nat)
    BY <2>1, <2>2, AppendProperties
  <2>4. /\ received' = [received EXCEPT ![c] = Append(received[c], Head(batch[c]))]
        /\ batch' = [batch EXCEPT ![c] = Tail(batch[c])]
        /\ DOMAIN client' = Clients /\ UNCHANGED <<recorded, ring, event_queue>>
    BY <1>8 DEF SendEvent
  <2>5. received' \in [Clients -> Seq(Nat)] /\ batch' \in [Threads -> Seq(Nat)]
    BY <1>0, <2>2, <2>3, <2>4
  <2> QED
    BY <2>4, <2>5
<1>9. ASSUME NEW c \in Clients, SendFails(c)
      PROVE  EventTypes'
  <2>1. batch' \in [Threads -> Seq(Nat)]
    BY <1>0, <1>9 DEF SendFails
  <2> QED
    BY <1>9, <2>1 DEF SendFails
<1>10. CASE UNCHANGED vars
  BY <1>10 DEF vars
<1> QED
  BY <1>1, <1>2, <1>3, <1>4, <1>5, <1>6, <1>7, <1>8, <1>9, <1>10
     DEF Next, CollectorSteps, ClientSteps

\* Every step keeps the threads in their places.
LEMMA PlacesStep ==
  ASSUME EventTypes, ThreadPlaces, [Next]_vars
  PROVE  ThreadPlaces'
<1>0. /\ Collector \in Threads /\ Clients \subseteq Threads /\ Collector \notin Clients
      /\ NoThread # Collector /\ NoThread \notin Clients
      /\ DOMAIN client = Clients /\ DOMAIN batch = Threads
  BY StreamAssumption DEF Threads, EventTypes
<1> HIDE DEF Collector, Threads
<1> USE DEF ThreadPlaces, source, flags, queue
<1>1. CASE Record \/ ServerSteps
  BY <1>1 DEF Record, ServerSteps, ListenFails, Listen, CheckAccepting,
              SelectTimesOut
<1>2. CASE StartServer \/ StopServer \/ OwnerSteps
  BY <1>2 DEF StartServer, StopServer, OwnerSteps, StartCollector, StartThread,
              StopCollector, JoinCollector, JoinServer
<1>3. CASE Poll \/ CollectorSteps
  BY <1>0, <1>3 DEF CollectorSteps, PollEnds, Poll, LockForBatch, PushBatch
<1>4. ASSUME NEW c \in Clients,
             \/ Accept(c) \/ BeginClient(c) \/ ReceiveRequest(c) \/ ClientSteps(c)
      PROVE  ThreadPlaces'
  BY <1>0, <1>4 DEF Accept, BeginClient, ReceiveRequest, SendStatus, ClientSteps,
              CheckRunning, LockForClient, TakeEvents, SendEvent, SendBlocks, BatchSent,
              SendFails, EndClient
<1>5. CASE UNCHANGED vars
  BY <1>5 DEF vars
<1> QED
  BY <1>1, <1>2, <1>3, <1>4, <1>5 DEF Next

\* Nothing has happened yet.
LEMMA PlacesInit == Init => EventTypes /\ ThreadPlaces
<1>1. <<>> \in Seq(Nat)
  BY EmptySeq
<1> QED
  BY <1>1, StreamAssumption DEF Init, EventTypes, ThreadPlaces, Threads

\* Types and places hold in every reachable state.
LEMMA PlacesCorrect == Spec => [](EventTypes /\ ThreadPlaces)
<1>1. Init => EventTypes /\ ThreadPlaces
  BY PlacesInit
<1>2. EventTypes /\ ThreadPlaces /\ [Next]_vars => (EventTypes /\ ThreadPlaces)'
  BY EventTypesStep, PlacesStep
<1> QED
  BY <1>1, <1>2, PTL DEF Spec

-----------------------------------------------------------------------------
(* The queue loses its oldest events only. *)

\* The ring, the batch of the collector and the queue follow one another.
QueueInv ==
  /\ Numbered(ring, recorded)
  /\ Numbered(batch[Collector], recorded - Len(ring))
  /\ Numbered(event_queue, recorded - Len(ring) - Len(batch[Collector]))

\* Every step keeps them following one another.
LEMMA QueueStep ==
  ASSUME EventTypes, ThreadPlaces, QueueInv, [Next]_vars
  PROVE  QueueInv'
<1>0. /\ batch[Collector] \in Seq(Nat) /\ Len(batch[Collector]) \in Nat
      /\ Len(ring) \in Nat /\ Len(event_queue) \in Nat /\ recorded \in Nat
      /\ DOMAIN batch = Threads
  BY DEF EventTypes, Threads
<1>1. ASSUME UNCHANGED <<recorded, ring, event_queue>>, batch'[Collector] = batch[Collector]
      PROVE  QueueInv'
  BY <1>1 DEF QueueInv, Numbered
<1>c. Collector \in Threads /\ \A c \in Clients : c # Collector /\ c \in Threads
  BY StreamAssumption DEF Threads
<1>2. CASE Record
  <2>1. /\ recorded' = recorded + 1 /\ ring' = Append(ring, recorded + 1)
        /\ UNCHANGED <<batch, event_queue>>
    BY <1>2 DEF Record, queue
  <2>2. Numbered(ring', recorded') /\ Len(ring') = Len(ring) + 1
    BY <2>1, NumberedAppend DEF EventTypes, QueueInv
  <2>3. recorded' - Len(ring') = recorded - Len(ring)
    BY <1>0, <2>1, <2>2
  <2> QED
    BY <2>1, <2>2, <2>3 DEF QueueInv
<1>3. CASE Poll
  <2>1. /\ collector = "check" /\ ring' = <<>> /\ batch'[Collector] = ring
        /\ UNCHANGED <<recorded, event_queue>>
    BY <1>0, <1>c, <1>3 DEF Poll, queue
  <2>2. batch[Collector] = <<>> /\ Len(ring') = 0 /\ Len(batch[Collector]) = 0
    BY <2>1 DEF ThreadPlaces
  <2>3. /\ recorded' - Len(ring') = recorded
        /\ recorded' - Len(ring') - Len(batch'[Collector])
             = recorded - Len(ring) - Len(batch[Collector])
    BY <1>0, <2>1, <2>2
  <2>4. Numbered(ring', recorded')
    BY <2>2 DEF Numbered
  <2> QED
    BY <2>1, <2>2, <2>3, <2>4 DEF QueueInv
<1>4. CASE PushBatch
  <2> DEFINE q == event_queue \o batch[Collector]
  <2>1. /\ event_queue' = Newest(q) /\ batch'[Collector] = <<>>
        /\ UNCHANGED <<recorded, ring>>
    BY <1>0, <1>c, <1>4 DEF PushBatch, source
  <2>2. q \in Seq(Nat) /\ Numbered(q, recorded - Len(ring))
    <3> DEFINE b == batch[Collector]
               n == recorded - Len(ring)
    <3>1. event_queue \in Seq(Nat) /\ b \in Seq(Nat) /\ n \in Int
      BY <1>0 DEF EventTypes
    <3>2. Numbered(event_queue, n - Len(b)) /\ Numbered(b, n)
      BY Zenon DEF QueueInv
    <3> HIDE DEF b, n
    <3>3. event_queue \o b \in Seq(Nat) /\ Numbered(event_queue \o b, n)
      BY <3>1, <3>2, NumberedConcat
    <3> QED
      BY <3>3 DEF b, n
  <2> HIDE DEF q
  <2>3. PICK a \in 1 .. Len(q) + 1 : Newest(q) = SubSeq(q, a, Len(q))
    BY <2>2, NewestIs
  <2>4. Len(q) \in Nat /\ Len(q) \in a - 1 .. Len(q) /\ recorded - Len(ring) \in Int
    BY <1>0, <2>2
  <2>5. Numbered(SubSeq(q, a, Len(q)), recorded - Len(ring) - (Len(q) - Len(q)))
    BY <2>2, <2>4, NumberedPiece
  <2>6. recorded - Len(ring) - (Len(q) - Len(q)) = recorded - Len(ring)
    BY <2>4
  <2>7. Len(batch'[Collector]) = 0 /\ Numbered(batch'[Collector], recorded' - Len(ring'))
    BY <2>1 DEF Numbered
  <2>8. recorded' - Len(ring') - Len(batch'[Collector]) = recorded - Len(ring)
    BY <1>0, <2>1, <2>7
  <2> QED
    BY <2>1, <2>3, <2>5, <2>6, <2>7, <2>8 DEF QueueInv
<1>5. ASSUME NEW c \in Clients, TakeEvents(c)
      PROVE  QueueInv'
  <2>1. /\ event_queue' = SubSeq(event_queue, Taken + 1, Len(event_queue))
        /\ batch'[Collector] = batch[Collector] /\ UNCHANGED <<recorded, ring>>
    BY <1>0, <1>c, <1>5 DEF TakeEvents, Taken, source
  <2> DEFINE n == recorded - Len(ring) - Len(batch[Collector])
  <2>2. /\ Taken + 1 \in 1 .. Len(event_queue) + 1
        /\ Len(event_queue) \in Taken + 1 - 1 .. Len(event_queue)
        /\ n \in Int /\ Numbered(event_queue, n) /\ event_queue \in Seq(Nat)
    <3>1. Taken \in 0 .. Len(event_queue)
      BY <1>0, StreamAssumption DEF Taken
    <3>2. n \in Int /\ event_queue \in Seq(Nat)
      BY <1>0 DEF EventTypes
    <3>3. Numbered(event_queue, n)
      BY Zenon DEF QueueInv
    <3>4. /\ Taken + 1 \in 1 .. Len(event_queue) + 1
          /\ Len(event_queue) \in Taken + 1 - 1 .. Len(event_queue)
      BY <1>0, <3>1
    <3> QED
      BY <3>2, <3>3, <3>4
  <2> HIDE DEF n
  <2>3. Numbered(event_queue', n - (Len(event_queue) - Len(event_queue)))
    BY <2>1, <2>2, NumberedPiece
  <2>4. n - (Len(event_queue) - Len(event_queue)) = n
    BY <1>0, <2>2
  <2> QED
    BY <2>1, <2>3, <2>4 DEF QueueInv, n
<1> USE <1>0, <1>1, <1>c DEF source, queue
<1>6. CASE \/ StartServer \/ StopServer \/ OwnerSteps \/ ServerSteps
           \/ PollEnds \/ LockForBatch
  BY <1>6 DEF StartServer, StopServer, OwnerSteps, StartCollector, StartThread,
              StopCollector, JoinCollector, JoinServer, ServerSteps, ListenFails, Listen,
              CheckAccepting, SelectTimesOut, PollEnds, LockForBatch
<1>7. ASSUME NEW c \in Clients,
             \/ Accept(c) \/ BeginClient(c) \/ ReceiveRequest(c) \/ SendStatus(c)
             \/ CheckRunning(c) \/ LockForClient(c)
             \/ SendEvent(c) \/ SendBlocks(c) \/ SendFails(c) \/ BatchSent(c) \/ EndClient(c)
      PROVE  QueueInv'
  BY <1>7 DEF Accept, BeginClient, ReceiveRequest, SendStatus, CheckRunning,
              LockForClient, SendBlocks, BatchSent, EndClient, SendEvent, SendFails
<1>8. CASE UNCHANGED vars
  BY <1>8 DEF vars
<1> QED
  BY <1>2, <1>3, <1>4, <1>5, <1>6, <1>7, <1>8 DEF Next, CollectorSteps, ClientSteps

\* They do in every reachable state.
LEMMA QueueCorrect == Spec => [](EventTypes /\ ThreadPlaces /\ QueueInv)
<1>1. Init => QueueInv
  BY DEF Init, QueueInv, Numbered, Threads
<1>2. EventTypes /\ ThreadPlaces /\ QueueInv /\ [Next]_vars => QueueInv'
  BY QueueStep
<1> QED
  BY <1>1, <1>2, PlacesCorrect, PTL DEF Spec

\* An event leaves the stream unsent only from the full end of the queue: what
\* is queued, being pushed or still in the hook's ring are the last events that
\* were recorded, in order and without a gap, at every moment.
THEOREM NewestCorrect == Spec => []NewestKept
<1>1. EventTypes /\ QueueInv => NewestKept
  <2> SUFFICES ASSUME EventTypes, QueueInv
               PROVE  NewestKept
    OBVIOUS
  <2> DEFINE b == batch[Collector]
             qb == event_queue \o b
             p == qb \o ring
  <2>1. b \in Seq(Nat) /\ ring \in Seq(Nat) /\ event_queue \in Seq(Nat) /\ recorded \in Nat
    BY DEF EventTypes, Threads
  <2>2. /\ Numbered(ring, recorded) /\ Numbered(b, recorded - Len(ring))
        /\ Numbered(event_queue, recorded - Len(ring) - Len(b))
    BY DEF QueueInv
  <2>3. qb \in Seq(Nat) /\ Numbered(qb, recorded - Len(ring))
    <3>1. recorded - Len(ring) \in Int
      BY <2>1
    <3> HIDE DEF b
    <3> QED
      BY <2>1, <2>2, <3>1, NumberedConcat
  <2>4. p \in Seq(Nat) /\ Numbered(p, recorded)
    <3>1. recorded \in Int
      BY <2>1
    <3> HIDE DEF qb
    <3> QED
      BY <2>1, <2>2, <2>3, <3>1, NumberedConcat
  <2> HIDE DEF p
  <2>5. p = [i \in 1 .. Len(p) |-> recorded - Len(p) + i]
    BY <2>4 DEF Numbered
  <2> QED
    BY <2>5 DEF NewestKept, p, qb
<1> QED
  BY <1>1, QueueCorrect, PTL

-----------------------------------------------------------------------------
(* What the clients get. *)

\* The events a client was sent, and those its thread is about to send.
Got(c) == received[c] \o batch[c]

\* The number of the last event that has left the queue.
Left == recorded - Len(ring) - Len(batch[Collector]) - Len(event_queue)

\* Every client has got events in order, none of them one that another has or
\* that is still to come.
GotInv ==
  /\ \A c \in Clients : \A i \in 1 .. Len(Got(c)) : Got(c)[i] <= Left
  /\ \A c \in Clients : \A i, j \in 1 .. Len(Got(c)) : i < j => Got(c)[i] < Got(c)[j]
  /\ \A c, d \in Clients : c # d =>
       \A i \in 1 .. Len(Got(c)), j \in 1 .. Len(Got(d)) : Got(c)[i] # Got(d)[j]

\* A concatenation, element by element.
LEMMA ConcatIs ==
  ASSUME NEW r \in Seq(Nat), NEW s \in Seq(Nat)
  PROVE  /\ Len(r) \in Nat /\ Len(s) \in Nat
         /\ r \o s \in Seq(Nat) /\ Len(r \o s) = Len(r) + Len(s)
         /\ Len(r \o s) \in Nat
         /\ \A i \in 1 .. Len(r \o s) : (r \o s)[i] \in Nat
         /\ \A i \in 1 .. Len(r) : i \in 1 .. Len(r \o s) /\ (r \o s)[i] = r[i]
         /\ \A i \in Len(r) + 1 .. Len(r) + Len(s) : (r \o s)[i] = s[i - Len(r)]
<1>1. /\ r \o s \in Seq(Nat) /\ Len(r \o s) = Len(r) + Len(s)
      /\ \A i \in 1 .. Len(r) + Len(s) :
           (r \o s)[i] = IF i <= Len(r) THEN r[i] ELSE s[i - Len(r)]
  BY ConcatProperties
<1>2. Len(r) \in Nat /\ Len(s) \in Nat
  OBVIOUS
<1>3. \A i \in 1 .. Len(r \o s) : (r \o s)[i] \in Nat
  BY <1>1, ElementOfSeq
<1>4. /\ \A i \in 1 .. Len(r) : i \in 1 .. Len(r \o s) /\ (r \o s)[i] = r[i]
      /\ \A i \in Len(r) + 1 .. Len(r) + Len(s) : (r \o s)[i] = s[i - Len(r)]
  BY <1>1, <1>2
<1> QED
  BY <1>1, <1>2, <1>3, <1>4

\* Sending one event leaves what a client has got as it was.
LEMMA OnePassedOn ==
  ASSUME NEW r \in Seq(Nat), NEW s \in Seq(Nat), s # <<>>
  PROVE  Append(r, Head(s)) \o Tail(s) = r \o s
<1> DEFINE h == <<Head(s)>>
           u == Tail(s)
<1>1. Head(s) \in Nat /\ h \in Seq(Nat)
  OBVIOUS
<1>2. u \in Seq(Nat)
  OBVIOUS
<1>3. Append(r, Head(s)) = r \o h
  BY <1>1, AppendIsConcat
<1>4. h \o u = s
  OBVIOUS
<1> HIDE DEF h, u
<1>5. (r \o h) \o u = r \o (h \o u)
  BY <1>1, <1>2, ConcatAssociative, SMTT(30)
<1>6. Append(r, Head(s)) \o u = r \o s
  BY <1>3, <1>4, <1>5
<1> QED
  BY <1>6 DEF u

\* What a client has got, now.
LEMMA GotIs ==
  ASSUME EventTypes, NEW c \in Clients
  PROVE  /\ Len(received[c]) \in Nat /\ Len(batch[c]) \in Nat /\ Len(Got(c)) \in Nat
         /\ Len(Got(c)) = Len(received[c]) + Len(batch[c])
         /\ \A i \in 1 .. Len(Got(c)) : Got(c)[i] \in Nat
         /\ \A i \in 1 .. Len(received[c]) :
              i \in 1 .. Len(Got(c)) /\ Got(c)[i] = received[c][i]
         /\ \A i \in Len(received[c]) + 1 .. Len(received[c]) + Len(batch[c]) :
              Got(c)[i] = batch[c][i - Len(received[c])]
<1>1. received[c] \in Seq(Nat) /\ batch[c] \in Seq(Nat)
  BY DEF EventTypes, Threads
<1> QED
  BY <1>1, ConcatIs DEF Got

\* What it has got after a step.
LEMMA GotWillBe ==
  ASSUME EventTypes', NEW c \in Clients
  PROVE  /\ Len(received'[c]) \in Nat /\ Len(batch'[c]) \in Nat /\ Len(Got(c)') \in Nat
         /\ Len(Got(c)') = Len(received'[c]) + Len(batch'[c])
         /\ \A i \in 1 .. Len(Got(c)') : Got(c)'[i] \in Nat
         /\ \A i \in 1 .. Len(received'[c]) : Got(c)'[i] = received'[c][i]
         /\ \A i \in Len(received'[c]) + 1 .. Len(received'[c]) + Len(batch'[c]) :
              Got(c)'[i] = batch'[c][i - Len(received'[c])]
<1>1. received'[c] \in Seq(Nat) /\ batch'[c] \in Seq(Nat)
  BY DEF EventTypes, Threads
<1> QED
  BY <1>1, ConcatIs DEF Got

\* A number.
LEMMA LeftType ==
  ASSUME EventTypes, EventTypes'
  PROVE  Left \in Int /\ Left' \in Int
BY DEF EventTypes, Left, Threads

\* When one client has got less, or the same, and nothing has come back to the
\* queue, the order is kept.
LEMMA GotLess ==
  ASSUME EventTypes, EventTypes', GotInv, Left <= Left',
         \A c \in Clients :
           /\ Len(Got(c)') <= Len(Got(c))
           /\ \A i \in 1 .. Len(Got(c)') : Got(c)'[i] = Got(c)[i]
  PROVE  GotInv'
<1>1. /\ \A c \in Clients : Len(Got(c)) \in Nat /\ Len(Got(c)') \in Nat
      /\ \A c \in Clients : \A i \in 1 .. Len(Got(c)') : Got(c)'[i] \in Nat
  BY GotIs, GotWillBe
<1>2. Left \in Int /\ Left' \in Int
  BY LeftType
<1>3. ASSUME NEW c \in Clients, NEW i \in 1 .. Len(Got(c)')
      PROVE  /\ i \in 1 .. Len(Got(c)) /\ Got(c)'[i] = Got(c)[i]
             /\ Got(c)'[i] \in Nat
  BY <1>1, <1>3
<1>4. ASSUME NEW c \in Clients, NEW i \in 1 .. Len(Got(c)')
      PROVE  Got(c)'[i] <= Left'
  <2>1. Got(c)'[i] <= Left
    BY <1>3, <1>4 DEF GotInv
  <2> QED
    BY <1>2, <1>3, <2>1
<1>5. ASSUME NEW c \in Clients, NEW i \in 1 .. Len(Got(c)'), NEW j \in 1 .. Len(Got(c)'), i < j
      PROVE  Got(c)'[i] < Got(c)'[j]
  BY <1>3, <1>5 DEF GotInv
<1>6. ASSUME NEW c \in Clients, NEW d \in Clients, c # d,
             NEW i \in 1 .. Len(Got(c)'), NEW j \in 1 .. Len(Got(d)')
      PROVE  Got(c)'[i] # Got(d)'[j]
  BY <1>3, <1>6 DEF GotInv
<1> QED
  BY <1>4, <1>5, <1>6 DEF GotInv

\* A client takes the oldest events of the queue, which nobody has.
LEMMA GotMore ==
  ASSUME EventTypes, EventTypes', ThreadPlaces, QueueInv, GotInv,
         NEW c \in Clients, TakeEvents(c)
  PROVE  GotInv'
<1>0. /\ Len(ring) \in Nat /\ Len(event_queue) \in Nat /\ recorded \in Nat
      /\ Len(batch[Collector]) \in Nat /\ DOMAIN batch = Threads
      /\ event_queue \in Seq(Nat) /\ Left \in Int
      /\ c \in Threads /\ Collector \in Threads /\ c # Collector
  BY LeftType, StreamAssumption DEF EventTypes, Threads
<1>k. Taken \in 0 .. Len(event_queue)
  BY <1>0, StreamAssumption DEF Taken
<1>1. /\ event_queue' = SubSeq(event_queue, Taken + 1, Len(event_queue))
      /\ batch' = [batch EXCEPT ![c] = SubSeq(event_queue, 1, Taken)]
      /\ UNCHANGED <<recorded, ring, received>> /\ client[c] = "take"
  BY DEF TakeEvents, Taken, source
<1>2. batch[c] = <<>>
  BY <1>1 DEF ThreadPlaces
<1>3. Numbered(event_queue, Left + Len(event_queue))
  <2>1. Left + Len(event_queue) = recorded - Len(ring) - Len(batch[Collector])
    BY <1>0 DEF Left
  <2> QED
    BY <2>1 DEF QueueInv
<1>4. \A i \in 1 .. Len(event_queue) : event_queue[i] = Left + i
  BY <1>0, <1>3 DEF Numbered
<1>5. /\ Len(batch'[c]) = Taken
      /\ \A i \in 1 .. Taken : batch'[c][i] = Left + i
  <2>1. batch'[c] = SubSeq(event_queue, 1, Taken)
    BY <1>0, <1>1
  <2>2. \A i \in 1 .. Taken : event_queue[i] \in Nat
    BY <1>0, <1>k, ElementOfSeq
  <2>3. /\ Len(SubSeq(event_queue, 1, Taken)) = IF 1 <= Taken THEN Taken - 1 + 1 ELSE 0
        /\ \A i \in 1 .. Taken - 1 + 1 :
             SubSeq(event_queue, 1, Taken)[i] = event_queue[1 + i - 1]
    BY <1>k, <2>2, SubSeqProperties
  <2>4. Len(batch'[c]) = Taken
    BY <1>k, <2>1, <2>3
  <2>5. ASSUME NEW i \in 1 .. Taken
        PROVE  batch'[c][i] = Left + i
    <3>1. i \in 1 .. Taken - 1 + 1 /\ 1 + i - 1 = i /\ i \in 1 .. Len(event_queue)
      BY <1>0, <1>k
    <3> QED
      BY <1>4, <2>1, <2>3, <3>1
  <2> QED
    BY <2>4, <2>5
<1>6. Left' = Left + Taken
  <2>1. Len(event_queue') = Len(event_queue) - Taken
    <3>1. \A i \in Taken + 1 .. Len(event_queue) : event_queue[i] \in Nat
      BY <1>0, <1>k, ElementOfSeq
    <3>2. Len(event_queue') = IF Taken + 1 <= Len(event_queue)
                              THEN Len(event_queue) - (Taken + 1) + 1 ELSE 0
      BY <1>0, <1>k, <1>1, <3>1, SubSeqProperties
    <3> QED
      BY <1>0, <1>k, <3>2
  <2>2. batch'[Collector] = batch[Collector]
    BY <1>0, <1>1
  <2>3. Left' = recorded - Len(ring) - Len(batch[Collector]) - (Len(event_queue) - Taken)
    BY <1>1, <2>1, <2>2 DEF Left
  <2>4. Taken \in Int
    BY <1>0, <1>k
  <2> QED
    BY <1>0, <2>3, <2>4 DEF Left
<1>7. /\ Len(Got(c)) \in Nat /\ Len(Got(c)') = Len(Got(c)) + Taken
      /\ \A i \in 1 .. Len(Got(c)) : Got(c)'[i] = Got(c)[i]
      /\ \A i \in Len(Got(c)) + 1 .. Len(Got(c)') : Got(c)'[i] = Left + (i - Len(Got(c)))
  <2>1. /\ Len(received[c]) \in Nat /\ Len(Got(c)) = Len(received[c])
        /\ \A i \in 1 .. Len(received[c]) : Got(c)[i] = received[c][i]
    <3>1. Len(batch[c]) = 0
      BY <1>2
    <3>2. /\ Len(received[c]) \in Nat /\ Len(Got(c)) = Len(received[c]) + Len(batch[c])
          /\ \A i \in 1 .. Len(received[c]) : Got(c)[i] = received[c][i]
      BY GotIs
    <3> QED
      BY <3>1, <3>2
  <2>2. /\ Len(Got(c)') = Len(received[c]) + Taken
        /\ \A i \in 1 .. Len(received[c]) : Got(c)'[i] = received[c][i]
        /\ \A i \in Len(received[c]) + 1 .. Len(received[c]) + Taken :
             Got(c)'[i] = batch'[c][i - Len(received[c])]
    <3>1. received'[c] = received[c]
      BY <1>1
    <3>2. /\ Len(Got(c)') = Len(received'[c]) + Len(batch'[c])
          /\ \A i \in 1 .. Len(received'[c]) : Got(c)'[i] = received'[c][i]
          /\ \A i \in Len(received'[c]) + 1 .. Len(received'[c]) + Len(batch'[c]) :
               Got(c)'[i] = batch'[c][i - Len(received'[c])]
      BY GotWillBe
    <3> QED
      BY <1>5, <3>1, <3>2
  <2>3. ASSUME NEW i \in Len(received[c]) + 1 .. Len(received[c]) + Taken
        PROVE  Got(c)'[i] = Left + (i - Len(received[c]))
    <3>1. i - Len(received[c]) \in 1 .. Taken
      BY <1>0, <1>k, <2>1
    <3> QED
      BY <1>5, <2>2, <3>1
  <2> QED
    BY <2>1, <2>2, <2>3
<1>8. \A d \in Clients : d # c => Got(d)' = Got(d)
  <2> SUFFICES ASSUME NEW d \in Clients, d # c
               PROVE  Got(d)' = Got(d)
    OBVIOUS
  <2>1. batch'[d] = batch[d] /\ received'[d] = received[d]
    BY <1>0, <1>1 DEF Threads
  <2> QED
    BY <2>1 DEF Got
<1>9. /\ \A d \in Clients : Len(Got(d)) \in Nat
      /\ \A d \in Clients : \A i \in 1 .. Len(Got(d)) : Got(d)[i] \in Nat
  BY GotIs
<1>10. ASSUME NEW d \in Clients, NEW i \in 1 .. Len(Got(d)')
       PROVE  /\ Got(d)'[i] <= Left'
              /\ i <= Len(Got(d)) => Got(d)'[i] = Got(d)[i] /\ Got(d)[i] <= Left
              /\ i > Len(Got(d)) => d = c /\ Got(d)'[i] = Left + (i - Len(Got(d)))
  <2>1. CASE i <= Len(Got(d))
    <3>1. i \in 1 .. Len(Got(d)) /\ Got(d)'[i] = Got(d)[i]
      BY <1>7, <1>8, <1>9, <1>10, <2>1
    <3>2. Got(d)[i] <= Left /\ Got(d)[i] \in Nat
      BY <1>9, <3>1 DEF GotInv
    <3> QED
      BY <1>0, <1>k, <1>6, <1>9, <2>1, <3>1, <3>2
  <2>2. CASE ~(i <= Len(Got(d)))
    <3>1. d = c
      BY <1>8, <1>9, <1>10, <2>2
    <3>2. i \in Len(Got(c)) + 1 .. Len(Got(c)') /\ Len(Got(c)') = Len(Got(c)) + Taken
      BY <1>k, <1>7, <1>10, <2>2, <3>1
    <3>3. Got(d)'[i] = Left + (i - Len(Got(c)))
      BY <1>7, <3>1, <3>2
    <3> QED
      BY <1>0, <1>k, <1>6, <1>7, <2>2, <3>1, <3>2, <3>3
  <2> QED
    BY <2>1, <2>2
<1>11. ASSUME NEW d \in Clients, NEW i \in 1 .. Len(Got(d)'), NEW j \in 1 .. Len(Got(d)'), i < j
       PROVE  Got(d)'[i] < Got(d)'[j]
  <2>1. CASE j <= Len(Got(d))
    <3>1. i \in 1 .. Len(Got(d)) /\ j \in 1 .. Len(Got(d))
      BY <1>9, <1>11, <2>1
    <3>2. Got(d)[i] < Got(d)[j]
      BY <1>11, <3>1 DEF GotInv
    <3> QED
      BY <1>10, <2>1, <1>9, <3>1, <3>2
  <2>2. CASE ~(j <= Len(Got(d)))
    <3>1. Got(d)'[j] = Left + (j - Len(Got(d)))
      BY <1>9, <1>10, <2>2
    <3>2. CASE i <= Len(Got(d))
      <4>1. Got(d)'[i] <= Left /\ Got(d)'[i] \in Nat
        <5>1. i \in 1 .. Len(Got(d))
          BY <1>9, <1>11, <3>2
        <5> QED
          BY <1>9, <1>10, <3>2, <5>1
      <4> QED
        BY <1>0, <1>9, <2>2, <3>1, <4>1
    <3>3. CASE ~(i <= Len(Got(d)))
      <4>1. Got(d)'[i] = Left + (i - Len(Got(d)))
        BY <1>9, <1>10, <3>3
      <4> QED
        BY <1>0, <1>9, <1>11, <3>1, <4>1
    <3> QED
      BY <3>2, <3>3
  <2> QED
    BY <2>1, <2>2
<1>12. ASSUME NEW d \in Clients, NEW e \in Clients, d # e,
              NEW i \in 1 .. Len(Got(d)'), NEW j \in 1 .. Len(Got(e)')
       PROVE  Got(d)'[i] # Got(e)'[j]
  <2>1. /\ i <= Len(Got(d)) => Got(d)'[i] = Got(d)[i] /\ Got(d)[i] <= Left
        /\ ~(i <= Len(Got(d))) => d = c /\ Got(d)'[i] = Left + (i - Len(Got(d)))
        /\ j <= Len(Got(e)) => Got(e)'[j] = Got(e)[j] /\ Got(e)[j] <= Left
        /\ ~(j <= Len(Got(e))) => e = c /\ Got(e)'[j] = Left + (j - Len(Got(e)))
    BY <1>9, <1>10
  <2>2. CASE i <= Len(Got(d)) /\ j <= Len(Got(e))
    <3>1. i \in 1 .. Len(Got(d)) /\ j \in 1 .. Len(Got(e))
      BY <1>9, <2>2
    <3>2. Got(d)[i] # Got(e)[j]
      BY <1>12, <3>1 DEF GotInv
    <3> QED
      BY <2>1, <2>2, <3>2
  <2>3. CASE ~(i <= Len(Got(d)))
    <3>1. e # c /\ j <= Len(Got(e))
      BY <1>12, <2>1, <2>3
    <3>2. Got(e)'[j] <= Left /\ Got(e)'[j] \in Nat
      <4>1. j \in 1 .. Len(Got(e))
        BY <1>9, <3>1
      <4> QED
        BY <1>9, <2>1, <3>1, <4>1
    <3> QED
      BY <1>0, <1>9, <2>1, <2>3, <3>2
  <2>4. CASE ~(j <= Len(Got(e)))
    <3>1. d # c /\ i <= Len(Got(d))
      BY <1>12, <2>1, <2>4
    <3>2. Got(d)'[i] <= Left /\ Got(d)'[i] \in Nat
      <4>1. i \in 1 .. Len(Got(d))
        BY <1>9, <3>1
      <4> QED
        BY <1>9, <2>1, <3>1, <4>1
    <3> QED
      BY <1>0, <1>9, <2>1, <2>4, <3>2
  <2> QED
    BY <2>2, <2>3, <2>4
<1> QED
  BY <1>10, <1>11, <1>12 DEF GotInv

\* Every step keeps what the clients have got in order.
LEMMA GotStep ==
  ASSUME EventTypes, EventTypes', ThreadPlaces, QueueInv, GotInv, [Next]_vars
  PROVE  GotInv'
<1>0. /\ Len(ring) \in Nat /\ Len(event_queue) \in Nat /\ recorded \in Nat
      /\ Len(batch[Collector]) \in Nat /\ Left \in Int
      /\ DOMAIN batch = Threads /\ DOMAIN received = Clients
      /\ Collector \in Threads /\ \A c \in Clients : c # Collector /\ c \in Threads
  BY LeftType, StreamAssumption DEF EventTypes, Threads
<1>1. ASSUME Left <= Left', \A c \in Clients : Got(c)' = Got(c)
      PROVE  GotInv'
  BY <1>1, GotIs, GotLess
<1>2. ASSUME UNCHANGED <<recorded, ring, event_queue, received>>,
             batch'[Collector] = batch[Collector],
             \A c \in Clients : batch'[c] = batch[c]
      PROVE  GotInv'
  <2>1. Left' = Left
    BY <1>2 DEF Left
  <2> QED
    BY <1>0, <1>1, <1>2, <2>1 DEF Got
<1>3. CASE Record
  <2>1. /\ recorded' = recorded + 1 /\ ring' = Append(ring, recorded + 1)
        /\ UNCHANGED <<batch, event_queue, received>>
    BY <1>3 DEF Record, queue
  <2>2. Len(ring') = Len(ring) + 1
    <3>1. ring \in Seq(Nat) /\ recorded + 1 \in Nat
      BY DEF EventTypes
    <3> QED
      BY <2>1, <3>1, AppendProperties
  <2>3. Left' = recorded + 1 - (Len(ring) + 1) - Len(batch[Collector]) - Len(event_queue)
    <3>1. recorded' = recorded + 1 /\ batch' = batch /\ event_queue' = event_queue
      BY <2>1
    <3>2. Left' = recorded' - Len(ring') - Len(batch'[Collector]) - Len(event_queue')
      BY DEF Left
    <3> QED
      BY <1>0, <2>2, <3>1, <3>2
  <2>4. Left <= Left'
    BY <1>0, <2>3 DEF Left
  <2> QED
    BY <1>1, <2>1, <2>4 DEF Got
<1>4. CASE Poll
  <2>1. /\ UNCHANGED <<recorded, event_queue, received>>
        /\ \A c \in Clients : batch'[c] = batch[c]
        /\ collector = "check" /\ ring' = <<>> /\ batch'[Collector] = ring
    BY <1>0, <1>4 DEF Poll, queue
  <2>2. Len(batch[Collector]) = 0 /\ Len(ring') = 0
    BY <2>1 DEF ThreadPlaces
  <2>3. Left' = recorded - 0 - Len(ring) - Len(event_queue)
    BY <2>1, <2>2 DEF Left
  <2>4. Left <= Left'
    BY <1>0, <2>2, <2>3 DEF Left
  <2> QED
    BY <1>1, <2>1, <2>4 DEF Got
<1>5. CASE PushBatch
  <2> DEFINE q == event_queue \o batch[Collector]
  <2>1. /\ event_queue' = Newest(q) /\ batch'[Collector] = <<>>
        /\ \A c \in Clients : batch'[c] = batch[c]
        /\ UNCHANGED <<recorded, ring, received>>
    BY <1>0, <1>5 DEF PushBatch, source
  <2>2. q \in Seq(Nat) /\ Len(q) = Len(event_queue) + Len(batch[Collector])
    <3>1. event_queue \in Seq(Nat) /\ batch[Collector] \in Seq(Nat)
      BY <1>0 DEF EventTypes
    <3> QED
      BY <3>1, ConcatIs
  <2> HIDE DEF q
  <2>3. Len(event_queue') \in Nat /\ Len(event_queue') <= Len(q)
    BY <2>1, <2>2, NewestShorter DEF EventTypes
  <2>4. Left' = recorded - Len(ring) - 0 - Len(event_queue')
    BY <2>1 DEF Left
  <2>5. Left <= Left'
    BY <1>0, <2>2, <2>3, <2>4 DEF Left
  <2> QED
    BY <1>1, <2>1, <2>5 DEF Got
<1>6. ASSUME NEW c \in Clients, TakeEvents(c)
      PROVE  GotInv'
  BY <1>6, GotMore
<1>7. ASSUME NEW c \in Clients, SendEvent(c)
      PROVE  GotInv'
  <2>1. /\ batch[c] # <<>>
        /\ received' = [received EXCEPT ![c] = Append(received[c], Head(batch[c]))]
        /\ batch' = [batch EXCEPT ![c] = Tail(batch[c])]
        /\ UNCHANGED <<recorded, ring, event_queue>>
    BY <1>7 DEF SendEvent, source, queue
  <2>2. Left' = Left
    BY <1>0, <2>1 DEF Left
  <2>3. Got(c)' = Got(c)
    <3>1. received[c] \in Seq(Nat) /\ batch[c] \in Seq(Nat)
      BY <1>0 DEF EventTypes
    <3>2. /\ Got(c)' = Append(received[c], Head(batch[c])) \o Tail(batch[c])
          /\ Got(c) = received[c] \o batch[c]
      BY <1>0, <2>1 DEF Got
    <3> QED
      BY <2>1, <3>1, <3>2, OnePassedOn
  <2>4. \A d \in Clients : d # c => Got(d)' = Got(d)
    BY <1>0, <2>1 DEF Got
  <2>5. Left <= Left'
    BY <1>0, <2>2
  <2> QED
    BY <1>1, <2>3, <2>4, <2>5
<1>8. ASSUME NEW c \in Clients, SendFails(c)
      PROVE  GotInv'
  <2>1. /\ batch' = [batch EXCEPT ![c] = <<>>]
        /\ UNCHANGED <<recorded, ring, event_queue, received>>
    BY <1>8 DEF SendFails, source, queue
  <2>2. Left <= Left'
    BY <1>0, <2>1 DEF Left
  <2>3. /\ Len(Got(c)') <= Len(Got(c))
        /\ \A i \in 1 .. Len(Got(c)') : Got(c)'[i] = Got(c)[i]
    <3>1. Len(batch'[c]) = 0 /\ received'[c] = received[c]
      BY <1>0, <2>1
    <3>2. /\ Len(received[c]) \in Nat /\ Len(batch[c]) \in Nat
          /\ Len(Got(c)) = Len(received[c]) + Len(batch[c])
          /\ \A i \in 1 .. Len(received[c]) : Got(c)[i] = received[c][i]
      BY GotIs
    <3>3. /\ Len(Got(c)') = Len(received'[c]) + Len(batch'[c])
          /\ \A i \in 1 .. Len(received'[c]) : Got(c)'[i] = received'[c][i]
      BY GotWillBe
    <3>4. Len(Got(c)') = Len(received[c]) /\ Len(Got(c)') <= Len(Got(c))
      <4> DEFINE l == Len(received[c])
                 m == Len(batch[c])
                 n == Len(Got(c))
      <4>1. l \in Nat /\ m \in Nat /\ n = l + m /\ Len(Got(c)') = l + 0
        BY <3>1, <3>2, <3>3
      <4> HIDE DEF l, m, n
      <4>2. Len(Got(c)') = l /\ Len(Got(c)') <= n
        BY <4>1
      <4> QED
        BY <4>2 DEF l, n
    <3>5. \A i \in 1 .. Len(received[c]) : Got(c)'[i] = Got(c)[i]
      BY <3>1, <3>2, <3>3
    <3> QED
      BY <3>4, <3>5
  <2>4. \A d \in Clients : d # c => Got(d)' = Got(d)
    BY <1>0, <2>1 DEF Got
  <2>5. \A d \in Clients : /\ Len(Got(d)') <= Len(Got(d))
                           /\ \A i \in 1 .. Len(Got(d)') : Got(d)'[i] = Got(d)[i]
    BY <2>3, <2>4, GotIs
  <2> QED
    BY <2>2, <2>5, GotLess
<1>9. CASE \/ StartServer \/ StopServer \/ OwnerSteps \/ ServerSteps
           \/ PollEnds \/ LockForBatch
  BY <1>2, <1>9
     DEF StartServer, StopServer, OwnerSteps, StartCollector, StartThread,
         StopCollector, JoinCollector, JoinServer, ServerSteps, ListenFails, Listen,
         CheckAccepting, SelectTimesOut, PollEnds, LockForBatch, source, queue
<1>10. ASSUME NEW c \in Clients,
              \/ Accept(c) \/ BeginClient(c) \/ ReceiveRequest(c) \/ SendStatus(c)
              \/ CheckRunning(c) \/ LockForClient(c) \/ SendBlocks(c) \/ BatchSent(c)
              \/ EndClient(c)
       PROVE  GotInv'
  BY <1>2, <1>10
     DEF Accept, BeginClient, ReceiveRequest, SendStatus, CheckRunning, LockForClient,
         SendBlocks, BatchSent, EndClient, source, queue
<1>11. CASE UNCHANGED vars
  BY <1>2, <1>11 DEF vars
<1> QED
  BY <1>3, <1>4, <1>5, <1>6, <1>7, <1>8, <1>9, <1>10, <1>11
     DEF Next, CollectorSteps, ClientSteps

\* Every client receives events in the order they were recorded, and no event
\* goes to two clients: whatever the collector, the other clients and the
\* owner do in between, and whichever sends fail.
THEOREM StreamsCorrect == Spec => []StreamsInOrder
<1>1. Init => GotInv
  <2> SUFFICES ASSUME Init, EventTypes
               PROVE  GotInv
    BY PlacesInit
  <2>1. \A c \in Clients : Len(Got(c)) = 0
    <3> SUFFICES ASSUME NEW c \in Clients
                 PROVE  Len(Got(c)) = 0
      OBVIOUS
    <3>1. received[c] = <<>> /\ batch[c] = <<>>
      BY DEF Init, Threads
    <3>2. Len(received[c]) = 0 /\ Len(batch[c]) = 0
      BY <3>1
    <3>3. Len(Got(c)) = Len(received[c]) + Len(batch[c])
      BY GotIs
    <3> QED
      BY <3>2, <3>3
  <2> QED
    BY <2>1 DEF GotInv
<1>2. /\ EventTypes /\ ThreadPlaces /\ QueueInv /\ GotInv
      /\ EventTypes' /\ [Next]_vars
      => GotInv'
  BY GotStep
<1>3. EventTypes /\ GotInv => StreamsInOrder
  <2> SUFFICES ASSUME EventTypes, GotInv
               PROVE  StreamsInOrder
    OBVIOUS
  <2>1. ASSUME NEW c \in Clients, NEW i \in 1 .. Len(received[c])
        PROVE  i \in 1 .. Len(Got(c)) /\ received[c][i] = Got(c)[i]
    <3>1. \A k \in 1 .. Len(received[c]) :
            k \in 1 .. Len(Got(c)) /\ Got(c)[k] = received[c][k]
      BY GotIs
    <3> QED
      BY <2>1, <3>1
  <2>2. ASSUME NEW c \in Clients, NEW i \in 1 .. Len(received[c]),
               NEW j \in 1 .. Len(received[c]), i < j
        PROVE  received[c][i] < received[c][j]
    BY <2>1, <2>2 DEF GotInv
  <2>3. ASSUME NEW c \in Clients, NEW d \in Clients, c # d
        PROVE  ToSet(received[c]) \cap ToSet(received[d]) = {}
    <3> SUFFICES ASSUME NEW i \in DOMAIN received[c], NEW j \in DOMAIN received[d]
                 PROVE  received[c][i] # received[d][j]
      BY DEF ToSet
    <3>1. received[c] \in Seq(Nat) /\ received[d] \in Seq(Nat)
      BY DEF EventTypes
    <3>2. i \in 1 .. Len(received[c]) /\ j \in 1 .. Len(received[d])
      BY <3>1, SMTT(30)
    <3> QED
      BY <2>1, <2>3, <3>2 DEF GotInv
  <2> QED
    BY <2>2, <2>3 DEF StreamsInOrder
<1> QED
  BY <1>1, <1>2, <1>3, QueueCorrect, PTL DEF Spec

-----------------------------------------------------------------------------
(* How many clients there are. *)

\* The clients that connected_clients_ stands for.
Counted == {c \in Clients : client[c] \notin {"none", "begin", "gone"}}

\* There are finitely many at any time, and they are counted.
CountInv == IsFiniteSet(Counted) /\ connected_clients = Cardinality(Counted)

\* Every step keeps the count.
LEMMA CountStep ==
  ASSUME DOMAIN client = Clients, CountInv, [Next]_vars
  PROVE  CountInv'
<1>1. ASSUME UNCHANGED connected_clients,
             \A c \in Clients : client'[c] \in {"none", "begin", "gone"}
                                  <=> client[c] \in {"none", "begin", "gone"}
      PROVE  CountInv'
  <2>1. Counted' = Counted
    BY <1>1 DEF Counted
  <2> QED
    BY <1>1, <2>1 DEF CountInv
<1>2. ASSUME NEW c \in Clients, BeginClient(c)
      PROVE  CountInv'
  <2>1. c \notin Counted /\ Counted' = Counted \cup {c}
    BY <1>2 DEF BeginClient, Counted
  <2>2. /\ IsFiniteSet(Counted')
        /\ Cardinality(Counted') = Cardinality(Counted) + 1
    BY <2>1, FS_AddElement DEF CountInv
  <2> QED
    BY <1>2, <2>2 DEF BeginClient, CountInv
<1>3. ASSUME NEW c \in Clients, EndClient(c)
      PROVE  CountInv'
  <2>1. c \in Counted /\ Counted' = Counted \ {c}
    BY <1>3 DEF EndClient, Counted
  <2>2. /\ IsFiniteSet(Counted')
        /\ Cardinality(Counted') = Cardinality(Counted) - 1
    BY <2>1, FS_RemoveElement DEF CountInv
  <2> QED
    BY <1>3, <2>2 DEF EndClient, CountInv
<1>4. CASE \/ Record \/ StartServer \/ StopServer \/ OwnerSteps
           \/ Poll \/ CollectorSteps \/ ServerSteps \/ UNCHANGED vars
  BY <1>1, <1>4
     DEF Record, StartServer, StopServer, OwnerSteps, StartCollector,
         StartThread, StopCollector, JoinCollector, JoinServer, CollectorSteps, PollEnds, Poll,
         LockForBatch, PushBatch, ServerSteps, ListenFails, Listen, CheckAccepting,
         SelectTimesOut, vars
<1>5. ASSUME NEW c \in Clients,
             \/ Accept(c) \/ ReceiveRequest(c) \/ SendStatus(c) \/ CheckRunning(c) \/ LockForClient(c)
             \/ TakeEvents(c) \/ SendEvent(c) \/ SendBlocks(c) \/ BatchSent(c) \/ SendFails(c)
      PROVE  CountInv'
  BY <1>1, <1>5
     DEF Accept, ReceiveRequest, SendStatus, CheckRunning, LockForClient, TakeEvents,
         SendEvent, SendBlocks, BatchSent, SendFails
<1> QED
  BY <1>2, <1>3, <1>4, <1>5 DEF Next, ClientSteps

\* They are in every reachable state.
LEMMA CountCorrect == Spec => []CountInv
<1>1. Init => CountInv
  <2> SUFFICES ASSUME Init
               PROVE  CountInv
    OBVIOUS
  <2>1. Counted = {} /\ connected_clients = 0
    BY DEF Init, Counted
  <2> QED
    BY <2>1, FS_EmptySet DEF CountInv
<1>2. EventTypes /\ CountInv /\ [Next]_vars => CountInv'
  BY CountStep DEF EventTypes
<1> QED
  BY <1>1, <1>2, PlacesCorrect, PTL DEF Spec

\* connected_clients_ is the number of client threads between its increment
\* and its decrement, however each of them ends.
THEOREM ClientsCorrect == Spec => []ClientsCounted
<1>1. CountInv => ClientsCounted
  BY DEF CountInv, ClientsCounted, Counted
<1> QED
  BY <1>1, CountCorrect, PTL

-----------------------------------------------------------------------------
(* Types *)

\* The flags are flags, and the queue is never over its limit.
LimitsInv ==
  /\ {server_running, running} \subseteq BOOLEAN
  /\ Len(event_queue) <= QUEUE_LIMIT

\* Every step keeps the queue within its limit.
LEMMA LimitsStep ==
  ASSUME EventTypes, LimitsInv, [Next]_vars
  PROVE  LimitsInv'
<1> USE DEF LimitsInv, source, flags, queue
<1>1. CASE PushBatch
  <2>1. event_queue \o batch[Collector] \in Seq(Nat)
    BY ConcatProperties DEF EventTypes, Threads
  <2>2. Len(event_queue') <= QUEUE_LIMIT
    BY <1>1, <2>1, NewestIs DEF PushBatch
  <2> QED
    BY <1>1, <2>2 DEF PushBatch
<1>2. ASSUME NEW c \in Clients, TakeEvents(c)
      PROVE  LimitsInv'
  <2>1. Len(event_queue) \in Nat /\ Taken \in 0 .. Len(event_queue) /\ QUEUE_LIMIT \in Nat
    BY StreamAssumption DEF Taken, EventTypes
  <2>2. \A i \in Taken + 1 .. Len(event_queue) : event_queue[i] \in Nat
    BY <2>1, ElementOfSeq DEF EventTypes
  <2>3. event_queue' = SubSeq(event_queue, Taken + 1, Len(event_queue))
    BY <1>2 DEF TakeEvents, Taken
  <2>4. Len(event_queue') = IF Taken + 1 <= Len(event_queue)
                            THEN Len(event_queue) - (Taken + 1) + 1 ELSE 0
    BY <2>1, <2>2, <2>3, SubSeqProperties
  <2>5. Len(event_queue') <= QUEUE_LIMIT
    BY <2>1, <2>4
  <2> QED
    BY <1>2, <2>5 DEF TakeEvents
<1>3. CASE \/ Record \/ StartServer \/ StopServer \/ OwnerSteps
           \/ PollEnds \/ Poll \/ LockForBatch \/ ServerSteps \/ UNCHANGED vars
  BY <1>3
     DEF Record, StartServer, StopServer, OwnerSteps, StartCollector,
         StartThread, StopCollector, JoinCollector, JoinServer, PollEnds, Poll, LockForBatch,
         ServerSteps, ListenFails, Listen, CheckAccepting, SelectTimesOut, vars
<1>4. ASSUME NEW c \in Clients,
             \/ Accept(c) \/ BeginClient(c) \/ ReceiveRequest(c) \/ SendStatus(c)
             \/ CheckRunning(c) \/ LockForClient(c) \/ SendEvent(c) \/ SendBlocks(c) \/ BatchSent(c)
             \/ SendFails(c) \/ EndClient(c)
      PROVE  LimitsInv'
  BY <1>4
     DEF Accept, BeginClient, ReceiveRequest, SendStatus, CheckRunning, LockForClient,
         SendEvent, SendBlocks, BatchSent, SendFails, EndClient
<1> QED
  BY <1>1, <1>2, <1>3, <1>4 DEF Next, CollectorSteps, ClientSteps

\* Every variable has its type: in particular the queue never holds more than
\* QUEUE_LIMIT events, and connected_clients_ never goes below 0 or above the
\* number of connections.
THEOREM StreamTypesCorrect ==
  ASSUME IsFiniteSet(Clients)
  PROVE  Spec => []TypeOK
<1>1. Init => LimitsInv
  <2> SUFFICES ASSUME Init
               PROVE  LimitsInv
    OBVIOUS
  <2>1. Len(event_queue) = 0 /\ 0 <= QUEUE_LIMIT
    BY StreamAssumption DEF Init
  <2>2. {server_running, running} \subseteq BOOLEAN
    BY DEF Init
  <2> QED
    BY <2>1, <2>2 DEF LimitsInv
<1>2. EventTypes /\ LimitsInv /\ [Next]_vars => LimitsInv'
  BY LimitsStep
<1>3. ThreadPlaces /\ CountInv /\ LimitsInv => TypeOK
  <2> SUFFICES ASSUME ThreadPlaces, CountInv, LimitsInv
               PROVE  connected_clients \in 0 .. Cardinality(Clients)
    BY DEF TypeOK, ThreadPlaces, LimitsInv
  <2>1. Counted \subseteq Clients
    BY DEF Counted
  <2>2. /\ Cardinality(Counted) \in Nat /\ Cardinality(Clients) \in Nat
        /\ Cardinality(Counted) <= Cardinality(Clients)
    BY <2>1, FS_Subset, FS_CardinalityType DEF CountInv
  <2> QED
    BY <2>2 DEF CountInv
<1> QED
  BY <1>1, <1>2, <1>3, PlacesCorrect, CountCorrect, PTL DEF Spec
=============================================================================
