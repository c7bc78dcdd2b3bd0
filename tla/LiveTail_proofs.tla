-------------------------- MODULE LiveTail_proofs --------------------------
(***************************************************************************)
(* Proofs about live mode, for a traced process that may start any number  *)
(* of traces: the types; that no event is shown twice, out of order or     *)
(* with a gap before it; and when reading the file shows all its events.   *)
(***************************************************************************)
EXTENDS LiveTail, Integers, SequenceTheorems, WellFoundedInduction, TLAPS

\* What live_events is made of.
Events == [event : Nat, reader : Nat]

-----------------------------------------------------------------------------
(* The operators of the model. *)

\* The bounds of the model are natural numbers.
LEMMA Bounds ==
  /\ max_events \in Nat /\ max_events > 0
  /\ MaxEvents \in Nat /\ MaxHookEvents \in Nat
  /\ MaxSessions \in Nat /\ MaxTime \in Nat
BY TailAssumption

\* Labelled numbers the events of one source with their reader.
LEMMA LabelledIs ==
  ASSUME NEW events \in Seq(Nat), NEW r \in Nat
  PROVE  /\ Labelled(events, r) \in Seq(Events)
         /\ Len(Labelled(events, r)) = Len(events)
         /\ \A i \in 1 .. Len(events) :
              Labelled(events, r)[i] = [event |-> events[i], reader |-> r]
<1> DEFINE f == Labelled(events, r)
<1>1. \A i \in 1 .. Len(events) : events[i] \in Nat
  OBVIOUS
<1>2. f \in [1 .. Len(events) -> Events]
  BY <1>1 DEF Labelled, Events
<1>3. Len(events) \in Nat
  OBVIOUS
<1>4. f \in Seq(Events) /\ Len(f) = Len(events)
  <2> HIDE DEF f
  <2> QED
    BY <1>2, <1>3, IsASeq, LenProperties
<1> QED
  BY <1>4 DEF Labelled

\* How many events Trim drops, and what it leaves.
Cut(events) == IF Len(events) > max_events THEN Len(events) - max_events ELSE 0

LEMMA TrimIs ==
  ASSUME NEW events \in Seq(Events)
  PROVE  /\ Trim(events) \in Seq(Events)
         /\ Cut(events) \in 0 .. Len(events)
         /\ Len(Trim(events)) = Len(events) - Cut(events)
         /\ Len(Trim(events)) <= max_events
         /\ Len(Trim(events)) < max_events => Cut(events) = 0
         /\ \A i \in 1 .. Len(Trim(events)) :
              Trim(events)[i] = events[Cut(events) + i]
<1>1. /\ Len(events) \in Nat /\ max_events \in Nat /\ max_events > 0
      /\ Trim(events) = SubSeq(events, 1 + Cut(events), Len(events))
  BY Bounds DEF Trim, Cut
<1>2. /\ Cut(events) \in 0 .. Len(events)
      /\ Len(events) - Cut(events) <= max_events
      /\ Len(events) - Cut(events) < max_events => Cut(events) = 0
  BY <1>1 DEF Cut
<1>3. /\ Trim(events) \in Seq(Events)
      /\ Len(Trim(events)) = Len(events) - Cut(events)
      /\ \A i \in 1 .. Len(Trim(events)) :
           Trim(events)[i] = events[Cut(events) + i]
  <2> DEFINE d == Cut(events)
  <2>1. d \in 0 .. Len(events)
    BY <1>2
  <2> HIDE DEF d
  <2>2. /\ SubSeq(events, 1 + d, Len(events)) \in Seq(Events)
        /\ Len(SubSeq(events, 1 + d, Len(events))) = Len(events) - d
        /\ \A i \in 1 .. Len(events) - d :
             SubSeq(events, 1 + d, Len(events))[i] = events[d + i]
    BY <1>1, <2>1, SubSeqProperties
  <2> QED
    BY <1>1, <2>2 DEF d
<1> QED
  BY <1>2, <1>3

-----------------------------------------------------------------------------
(* The types. *)

TailTypes ==
  /\ written \in 0 .. MaxEvents /\ hooked \in Nat
  /\ file \in Seq(1 .. MaxEvents)
  /\ live_events \in Seq(Events) /\ Len(live_events) <= max_events
  /\ reader \in Nat /\ last_file_event_count \in Nat

TailFlags ==
  header \in BOOLEAN /\ cut \in BOOLEAN /\ live_mode \in BOOLEAN /\ reloading \in BOOLEAN

\* What the GUI takes over when it reads the file.
Taken == SubSeq(file, StartIndex + 1, Len(file))

\* They are the events of the file from StartIndex on.
LEMMA TakenIs ==
  ASSUME TailTypes
  PROVE  /\ StartIndex \in 0 .. Len(file)
         /\ Taken \in Seq(1 .. MaxEvents) /\ Taken \in Seq(Nat)
         /\ Len(Taken) = Len(file) - StartIndex
         /\ \A i \in 1 .. Len(Taken) : Taken[i] = file[StartIndex + i]
<1>1. /\ Len(file) \in Nat /\ file \in Seq(1 .. MaxEvents)
      /\ StartIndex \in 0 .. Len(file)
  BY Bounds DEF TailTypes, StartIndex
<1>2. /\ Taken \in Seq(1 .. MaxEvents)
      /\ Len(Taken) = Len(file) - StartIndex
      /\ \A i \in 1 .. Len(Taken) : Taken[i] = file[StartIndex + i]
  <2> DEFINE k == StartIndex
  <2>1. k \in 0 .. Len(file)
    BY <1>1
  <2> HIDE DEF k
  <2>2. /\ SubSeq(file, k + 1, Len(file)) \in Seq(1 .. MaxEvents)
        /\ Len(SubSeq(file, k + 1, Len(file))) = Len(file) - k
        /\ \A i \in 1 .. Len(file) - k : SubSeq(file, k + 1, Len(file))[i] = file[k + i]
    <3> DEFINE n == Len(file)  m == k + 1
    <3>1. /\ m \in Int /\ n \in Int /\ n - m + 1 = n - k
          /\ (IF m <= n THEN n - m + 1 ELSE 0) = n - k
          /\ \A i \in 1 .. n - k : m + i - 1 = k + i
      BY <1>1, <2>1
    <3>2. \A i \in m .. n : file[i] \in 1 .. MaxEvents
      <4>1. \A i \in m .. n : i \in 1 .. Len(file)
        BY <1>1, <2>1
      <4>2. \A i \in 1 .. Len(file) : file[i] \in 1 .. MaxEvents
        BY <1>1, Bounds
      <4> QED
        BY <4>1, <4>2
    <3> HIDE DEF m, n
    <3>3. /\ SubSeq(file, m, n) \in Seq(1 .. MaxEvents)
          /\ Len(SubSeq(file, m, n)) = n - k
          /\ \A i \in 1 .. n - k : SubSeq(file, m, n)[i] = file[k + i]
      BY <3>1, <3>2, SubSeqProperties
    <3> QED
      BY <3>3 DEF m, n
  <2> QED
    BY <1>1, <2>2 DEF k, Taken
<1>3. Taken \in Seq(Nat)
  <2> DEFINE t == Taken
  <2>1. t \in Seq(1 .. MaxEvents)
    BY <1>2
  <2> HIDE DEF t
  <2>2. /\ t \in [1 .. Len(t) -> 1 .. MaxEvents]
        /\ Len(t) \in Nat
    BY <2>1, LenProperties
  <2>3. t \in [1 .. Len(t) -> Nat]
    BY <2>2, Bounds
  <2> QED
    BY <2>2, <2>3, IsASeq DEF t
<1> QED
  BY <1>1, <1>2, <1>3

\* What a step adds to live_events is a sequence of events.
LEMMA AddedTypes ==
  ASSUME NEW added \in Seq(Events), TailTypes,
         live_events' = Trim(live_events \o added)
  PROVE  live_events' \in Seq(Events) /\ Len(live_events') <= max_events
<1>1. live_events \o added \in Seq(Events)
  BY DEF TailTypes
<1> QED
  BY <1>1, TrimIs

LEMMA TypesStep == TailTypes /\ [Next]_vars => TailTypes'
<1> SUFFICES ASSUME TailTypes, [Next]_vars
             PROVE  TailTypes'
  OBVIOUS
<1> USE Bounds DEF TailTypes, fileVars, seen
<1>0. <<>> \in Seq(1 .. MaxEvents) /\ <<>> \in Seq(Events) /\ Len(<<>>) = 0
  BY EmptySeq
<1>1. CASE TraceStart
  BY <1>0, <1>1 DEF TraceStart
<1>2. CASE TraceHeader
  BY <1>2 DEF TraceHeader
<1>3. CASE TraceWrite
  <2>1. CASE file' = file
    BY <1>3, <2>1 DEF TraceWrite
  <2>2. CASE file' = Append(file, written + 1) /\ written' = written + 1
    <3>1. written + 1 \in 1 .. MaxEvents
      BY <1>3 DEF TraceWrite
    <3>2. file' \in Seq(1 .. MaxEvents)
      BY <2>2, <3>1, AppendProperties
    <3> QED
      BY <1>3, <2>2, <3>1, <3>2 DEF TraceWrite
  <2> QED
    BY <1>3, <2>1, <2>2 DEF TraceWrite
<1>4. CASE Tick
  BY <1>4 DEF Tick
<1>5. CASE ConsumeHook
  <2>1. <<hooked + 1>> \in Seq(Nat)
    OBVIOUS
  <2>2. Labelled(<<hooked + 1>>, 0) \in Seq(Events)
    BY <2>1, LabelledIs
  <2>3. live_events' \in Seq(Events) /\ Len(live_events') <= max_events
    BY <1>5, <2>2, AddedTypes DEF ConsumeHook
  <2> QED
    BY <1>5, <2>3 DEF ConsumeHook
<1>6. CASE StatFile
  BY <1>6 DEF StatFile
<1>7. CASE ReloadInvalid
  BY <1>7 DEF ReloadInvalid
<1>8. CASE Reload
  <2>1. Labelled(Taken, reader + 1) \in Seq(Events)
    BY TakenIs, LabelledIs
  <2>2. live_events' \in Seq(Events) /\ Len(live_events') <= max_events
    BY <1>8, <2>1, AddedTypes DEF Reload, Taken
  <2>3. last_file_event_count' \in Nat
    BY <1>8 DEF Reload
  <2> QED
    BY <1>8, <2>2, <2>3 DEF Reload
<1>9. CASE DisableLiveMode
  BY <1>0, <1>9 DEF DisableLiveMode
<1>10. CASE UNCHANGED vars
  BY <1>10 DEF vars
<1> QED
  BY <1>1, <1>2, <1>3, <1>4, <1>5, <1>6, <1>7, <1>8, <1>9, <1>10 DEF Next

LEMMA FlagsStep == TailFlags /\ [Next]_vars => TailFlags'
<1> SUFFICES ASSUME TailFlags, [Next]_vars
             PROVE  TailFlags'
  OBVIOUS
<1> USE DEF TailFlags, fileVars
<1>1. CASE TraceStart
  BY <1>1, Zenon DEF TraceStart
<1>2. CASE TraceHeader
  BY <1>2, Zenon DEF TraceHeader
<1>3. CASE TraceWrite
  BY <1>3, Zenon DEF TraceWrite
<1>4. CASE Tick
  BY <1>4, Zenon DEF Tick
<1>5. CASE ConsumeHook
  BY <1>5, Zenon DEF ConsumeHook
<1>6. CASE StatFile
  BY <1>6, Zenon DEF StatFile
<1>7. CASE ReloadInvalid
  BY <1>7, Zenon DEF ReloadInvalid
<1>8. CASE Reload
  BY <1>8, Zenon DEF Reload
<1>9. CASE DisableLiveMode
  BY <1>9, Zenon DEF DisableLiveMode
<1>10. CASE UNCHANGED vars
  BY <1>10, Zenon DEF vars
<1> QED
  BY <1>1, <1>2, <1>3, <1>4, <1>5, <1>6, <1>7, <1>8, <1>9, <1>10, Zenon DEF Next

LEMMA TypesInvariant == Spec => [](TailTypes /\ TailFlags)
<1>1. Init => TailTypes
  BY EmptySeq, Bounds DEF Init, TailTypes
<1>2. Init => TailFlags
  BY Zenon DEF Init, TailFlags
<1> QED
  BY <1>1, <1>2, TypesStep, FlagsStep, PTL DEF Spec

\* Every variable has its type, and live_events its limit, whatever the traced
\* process does: it may start traces at any moment and write any part of them.
THEOREM TailTypesCorrect == Spec => []TypeOK
<1>1. TailTypes /\ TailFlags => TypeOK
  <2> SUFFICES ASSUME TailTypes, TailFlags
               PROVE  TypeOK
    OBVIOUS
  <2>1. {header, cut, live_mode, reloading} \subseteq BOOLEAN
    BY Zenon DEF TailFlags
  <2>2. \A i \in 1 .. Len(live_events) :
          live_events[i].event \in Nat /\ live_events[i].reader \in Nat
    <3>1. \A i \in 1 .. Len(live_events) : live_events[i] \in Events
      BY DEF TailTypes
    <3> QED
      BY <3>1 DEF Events
  <2> QED
    BY <2>1, <2>2, Zenon DEF TailTypes, TypeOK
<1> QED
  BY <1>1, TypesInvariant, PTL

-----------------------------------------------------------------------------
(* The file: the last of the events written, numbered one after another.    *)

\* The number of the last event before the file's first, and that of the last
\* event of the file that the GUI has counted: none, if it has counted more than
\* the file has.
Base == written - Len(file)
Known == IF last_file_event_count <= Len(file) THEN Base + last_file_event_count ELSE Base

FileInv ==
  /\ session \in Nat /\ Len(file) <= written
  /\ session = 0 => ~header /\ written = 0
  /\ \A k \in 1 .. Len(file) : file[k] = Base + k
  /\ session <= 1 => Base = 0 /\ last_file_event_count <= Len(file)
  /\ live_mode /\ reader = 0 => last_file_event_count = 0
  /\ reloading => live_mode

\* What the numbers are, and how far reading the file gets.
LEMMA NumbersAre ==
  ASSUME TailTypes, FileInv
  PROVE  /\ Base \in Nat /\ Known \in Nat /\ Base <= Known /\ Known <= written
         /\ written = Base + Len(file) /\ Len(file) \in Nat
<1>1. /\ Len(file) \in Nat /\ written \in Nat /\ last_file_event_count \in Nat
      /\ Len(file) <= written
  BY LenProperties, Bounds DEF TailTypes, FileInv
<1> QED
  BY <1>1 DEF Base, Known

\* Reading the file counts its events, and starts after those that are counted.
LEMMA ReloadIs ==
  ASSUME TailTypes, FileInv, Reload
  PROVE  /\ live_mode /\ UNCHANGED <<file, written>>
         /\ Known = Base + StartIndex /\ Known' = written /\ Base' = Base
         /\ last_file_event_count' \in Nat
         /\ session <= 1 => last_file_event_count' <= Len(file)
<1>1. /\ Len(file) \in Nat /\ written \in Nat /\ last_file_event_count \in Nat
      /\ Len(file) <= written /\ live_mode /\ UNCHANGED <<file, written>>
  BY LenProperties, Bounds DEF TailTypes, FileInv, Reload, fileVars
<1>2. Known = Base + StartIndex
  BY <1>1 DEF FileInv, Known, Base, StartIndex
<1>3. last_file_event_count' =
        IF Len(file) > StartIndex THEN Len(file) ELSE last_file_event_count
  BY DEF Reload
<1>4. Known' = written
  BY <1>1, <1>3 DEF Known, Base, StartIndex
<1> QED
  BY <1>1, <1>2, <1>3, <1>4 DEF Base, FileInv

LEMMA FileStep ==
  ASSUME TailTypes, FileInv, [Next]_vars
  PROVE  FileInv'
<1>0. /\ Len(file) \in Nat /\ written \in Nat /\ last_file_event_count \in Nat
      /\ Len(file) <= written
  BY LenProperties, Bounds DEF TailTypes, FileInv
<1> USE Bounds DEF FileInv, Base, fileVars, seen
<1>1. CASE TraceStart
  <2>1. file' = <<>> /\ Len(file') = 0 /\ session' = session + 1 /\ written' = written
    BY <1>1 DEF TraceStart
  <2>2. session' <= 1 => session = 0
    BY <2>1
  <2> QED
    BY <1>0, <1>1, <2>1, <2>2 DEF TraceStart
<1>2. CASE TraceHeader
  BY <1>2 DEF TraceHeader
<1>3. CASE TraceWrite
  <2>1. CASE file' = file /\ written' = written
    BY <1>3, <2>1 DEF TraceWrite
  <2>2. CASE file' = Append(file, written + 1) /\ written' = written + 1
    <3>1. /\ Len(file') = Len(file) + 1
          /\ \A k \in 1 .. Len(file) : file'[k] = file[k]
          /\ file'[Len(file) + 1] = written + 1
      BY <2>2, AppendProperties DEF TailTypes
    <3>2. Base' = Base
      BY <1>0, <2>2, <3>1
    <3>3. \A k \in 1 .. Len(file) + 1 : k \in 1 .. Len(file) \/ k = Len(file) + 1
      BY <1>0
    <3>4. \A k \in 1 .. Len(file) + 1 : file'[k] = Base + k
      BY <1>0, <3>1, <3>3
    <3> QED
      BY <1>0, <1>3, <2>2, <3>1, <3>2, <3>4 DEF TraceWrite
  <2> QED
    BY <1>3, <2>1, <2>2 DEF TraceWrite
<1>4. CASE Tick
  BY <1>4 DEF Tick
<1>5. CASE ConsumeHook
  BY <1>5 DEF ConsumeHook
<1>6. CASE StatFile
  BY <1>6 DEF StatFile
<1>7. CASE ReloadInvalid
  BY <1>7 DEF ReloadInvalid
<1>8. CASE Reload
  <2>1. reader' # 0 /\ reloading' = FALSE /\ UNCHANGED <<session, header, file, written>>
    BY <1>8 DEF Reload, TailTypes
  <2> QED
    BY <1>8, <2>1, ReloadIs
<1>9. CASE DisableLiveMode
  BY <1>9 DEF DisableLiveMode
<1>10. CASE UNCHANGED vars
  BY <1>10 DEF vars
<1> QED
  BY <1>1, <1>2, <1>3, <1>4, <1>5, <1>6, <1>7, <1>8, <1>9, <1>10 DEF Next

-----------------------------------------------------------------------------
(* What live_events holds of the events up to number b, of which those after *)
(* number a are in the file.                                                 *)

Places(s) == {i \in 1 .. Len(s) : s[i].reader # 0}

\* They are in order, and with one event of the file the ones after it are there
\* too.
Listed(s, a, b) ==
  /\ \A i \in Places(s) : s[i].event \in 0 .. b
  /\ \A i, j \in Places(s) : i < j => s[i].event < s[j].event
  /\ \A i \in Places(s) : \A m \in a + 1 .. b :
       s[i].event > a /\ m > s[i].event => \E j \in Places(s) : s[j].event = m

\* All those of the file are there.
ListsAll(s, a, b) == \A m \in a + 1 .. b : \E j \in Places(s) : s[j].event = m

\* To drop the oldest events keeps the others, in order.
LEMMA TrimKeeps ==
  ASSUME NEW s \in Seq(Events), NEW a \in Nat, NEW b \in Nat, Listed(s, a, b)
  PROVE  /\ Listed(Trim(s), a, b)
         /\ Len(Trim(s)) < max_events /\ ListsAll(s, a, b) => ListsAll(Trim(s), a, b)
<1> DEFINE t == Trim(s)
           d == Cut(s)
<1>1. /\ t \in Seq(Events) /\ Len(s) \in Nat /\ d \in 0 .. Len(s)
      /\ Len(t) = Len(s) - d
      /\ Len(t) < max_events => d = 0
      /\ \A i \in 1 .. Len(t) : t[i] = s[d + i]
  BY TrimIs
<1> HIDE DEF t, d
<1>2. \A i \in Places(t) : d + i \in Places(s) /\ t[i] = s[d + i] /\ i \in Nat
  BY <1>1 DEF Places
<1>3. \A i \in Places(s) : i > d => i - d \in Places(t) /\ t[i - d] = s[i]
  BY <1>1 DEF Places
<1>4. \A i \in Places(s) : i \in Nat /\ s[i].event \in Nat
  <2>1. \A i \in Places(s) : i \in Nat /\ s[i] \in Events
    BY <1>1 DEF Places
  <2> QED
    BY <2>1 DEF Events
<1>5. \A i \in Places(t) : t[i].event \in 0 .. b
  BY <1>2 DEF Listed
<1>6. ASSUME NEW i \in Places(t), NEW j \in Places(t), i < j
      PROVE  t[i].event < t[j].event
  <2>1. d + i < d + j
    BY <1>1, <1>2, <1>6
  <2> QED
    BY <1>2, <2>1 DEF Listed
<1>7. ASSUME NEW i \in Places(t), NEW m \in a + 1 .. b,
             t[i].event > a, m > t[i].event
      PROVE  \E j \in Places(t) : t[j].event = m
  <2>1. PICK j \in Places(s) : s[j].event = m
    BY <1>2, <1>7 DEF Listed
  <2>2. ~(j < d + i) /\ j # d + i
    <3>1. d + i \in Places(s) /\ s[d + i].event < s[j].event
      BY <1>2, <1>7, <2>1
    <3>2. s[d + i].event \in Nat /\ s[j].event \in Nat
      BY <1>4, <2>1, <3>1
    <3>3. j < d + i => s[j].event < s[d + i].event
      BY <2>1, <3>1 DEF Listed
    <3> QED
      BY <3>1, <3>2, <3>3
  <2>3. j > d
    BY <1>1, <1>2, <1>4, <2>2
  <2> QED
    BY <1>3, <2>1, <2>3
<1>8. ASSUME Len(t) < max_events, ListsAll(s, a, b)
      PROVE  ListsAll(t, a, b)
  <2>1. d = 0
    BY <1>1, <1>8
  <2>2. \A i \in Places(s) : i > d
    BY <1>1, <2>1 DEF Places
  <2>3. \A i \in Places(s) : i - d \in Places(t) /\ t[i - d] = s[i]
    BY <1>3, <2>2
  <2> QED
    BY <1>8, <2>3 DEF ListsAll
<1> QED
  BY <1>5, <1>6, <1>7, <1>8 DEF Listed, t

\* The places of two joined sequences.
LEMMA JoinedPlaces ==
  ASSUME NEW s \in Seq(Events), NEW u \in Seq(Events)
  PROVE  /\ s \o u \in Seq(Events)
         /\ Len(s \o u) = Len(s) + Len(u) /\ Len(s) \in Nat /\ Len(u) \in Nat
         /\ \A i \in Places(s) : i \in Places(s \o u) /\ (s \o u)[i] = s[i]
         /\ \A i \in Places(u) :
              Len(s) + i \in Places(s \o u) /\ (s \o u)[Len(s) + i] = u[i]
         /\ \A i \in Places(s \o u) :
              i \in Nat /\ (i \in Places(s) \/ i - Len(s) \in Places(u))
<1>1. /\ s \o u \in Seq(Events)
      /\ Len(s \o u) = Len(s) + Len(u) /\ Len(s) \in Nat /\ Len(u) \in Nat
      /\ \A i \in 1 .. Len(s) + Len(u) :
           (s \o u)[i] = IF i <= Len(s) THEN s[i] ELSE u[i - Len(s)]
  BY ConcatProperties, LenProperties
<1> QED
  BY <1>1 DEF Places

\* Events of another source change nothing.
LEMMA OthersKeep ==
  ASSUME NEW s \in Seq(Events), NEW u \in Seq(Events), NEW a \in Nat, NEW b \in Nat,
         Places(u) = {}, Listed(s, a, b)
  PROVE  Listed(s \o u, a, b) /\ (ListsAll(s, a, b) => ListsAll(s \o u, a, b))
<1> DEFINE c == s \o u
<1>1. Places(c) = Places(s) /\ \A i \in Places(s) : c[i] = s[i]
  <2>1. \A i \in Places(s) : i \in Places(c) /\ c[i] = s[i]
    BY JoinedPlaces
  <2>2. \A i \in Places(c) : i \in Places(s)
    BY JoinedPlaces
  <2> QED
    BY <2>1, <2>2
<1> HIDE DEF c
<1>2. Listed(c, a, b) /\ (ListsAll(s, a, b) => ListsAll(c, a, b))
  BY <1>1 DEF Listed, ListsAll
<1> QED
  BY <1>2 DEF c

\* The next events of the file extend the list.
LEMMA FileExtends ==
  ASSUME NEW s \in Seq(Events), NEW u \in Seq(Events), NEW a \in Nat,
         NEW b \in Nat, NEW n \in Nat, a <= b, b <= n, Len(u) = n - b,
         \A i \in 1 .. n - b : u[i].reader # 0 /\ u[i].event = b + i,
         Listed(s, a, b)
  PROVE  Listed(s \o u, a, n) /\ (ListsAll(s, a, b) => ListsAll(s \o u, a, n))
<1> DEFINE c == s \o u
           l == Len(s)
<1>1. /\ l \in Nat
      /\ \A i \in Places(s) : i \in 1 .. l /\ i \in Places(c) /\ c[i] = s[i]
      /\ \A i \in Places(u) : l + i \in Places(c) /\ c[l + i] = u[i]
      /\ \A i \in Places(c) : i \in Nat /\ (i \in Places(s) \/ i - l \in Places(u))
  BY JoinedPlaces DEF Places
<1> HIDE DEF c, l
<1>2. Places(u) = 1 .. n - b
  BY DEF Places
<1>3. \A i \in Places(c) :
        \/ i \in Places(s) /\ i <= l /\ c[i] = s[i] /\ c[i].event \in 0 .. b
        \/ i > l /\ i - l \in 1 .. n - b /\ c[i].event = b + (i - l)
  <2> SUFFICES ASSUME NEW i \in Places(c)
               PROVE  \/ i \in Places(s) /\ i <= l /\ c[i] = s[i] /\ c[i].event \in 0 .. b
                      \/ i > l /\ i - l \in 1 .. n - b /\ c[i].event = b + (i - l)
    OBVIOUS
  <2>1. CASE i \in Places(s)
    BY <1>1, <2>1 DEF Listed
  <2>2. CASE i - l \in Places(u)
    <3>1. i - l \in 1 .. n - b /\ i = l + (i - l) /\ i > l
      BY <1>1, <1>2, <2>2
    <3>2. c[i] = u[i - l]
      BY <1>1, <2>2, <3>1
    <3> QED
      BY <3>1, <3>2
  <2> QED
    BY <1>1, <2>1, <2>2
<1>4. \A m \in b + 1 .. n : \E j \in Places(c) : c[j].event = m
  <2> SUFFICES ASSUME NEW m \in b + 1 .. n
               PROVE  \E j \in Places(c) : c[j].event = m
    OBVIOUS
  <2>1. m - b \in 1 .. n - b /\ b + (m - b) = m
    OBVIOUS
  <2>2. l + (m - b) \in Places(c) /\ c[l + (m - b)] = u[m - b] /\ u[m - b].event = m
    BY <1>1, <1>2, <2>1
  <2> QED
    BY <2>2
<1>5. \A i \in Places(c) : c[i].event \in 0 .. n
  BY <1>1, <1>3
<1>6. ASSUME NEW i \in Places(c), NEW j \in Places(c), i < j
      PROVE  c[i].event < c[j].event
  <2>1. CASE i \in Places(s) /\ j \in Places(s)
    BY <1>1, <1>6, <2>1 DEF Listed
  <2>2. CASE j > l /\ c[j].event = b + (j - l) /\ j - l \in 1 .. n - b
    <3>1. c[j].event > b
      BY <2>2
    <3>2. CASE c[i].event \in 0 .. b
      BY <2>2, <3>1, <3>2
    <3>3. CASE i > l /\ i - l \in 1 .. n - b /\ c[i].event = b + (i - l)
      <4>1. i - l < j - l /\ i - l \in Int /\ j - l \in Int
        BY <1>1, <1>6
      <4> QED
        BY <2>2, <3>3, <4>1
    <3> QED
      BY <1>3, <3>2, <3>3
  <2> QED
    BY <1>1, <1>3, <1>6, <2>1, <2>2
<1>7. ASSUME NEW i \in Places(c), NEW m \in a + 1 .. n,
             c[i].event > a, m > c[i].event
      PROVE  \E j \in Places(c) : c[j].event = m
  <2>1. CASE m > b
    <3>1. m \in b + 1 .. n
      BY <2>1
    <3> QED
      BY <1>4, <3>1
  <2>2. CASE m <= b
    <3>0. m \in a + 1 .. b /\ ~(m > b + (i - l) /\ i - l \in 1 .. n - b)
      BY <2>2
    <3>1. i \in Places(s) /\ c[i] = s[i] /\ m \in a + 1 .. b
      BY <1>3, <1>7, <3>0
    <3>2. PICK j \in Places(s) : s[j].event = m
      BY <1>7, <3>1 DEF Listed
    <3> QED
      BY <1>1, <3>2
  <2> QED
    BY <2>1, <2>2
<1>8. ListsAll(s, a, b) => ListsAll(c, a, n)
  <2> SUFFICES ASSUME ListsAll(s, a, b), NEW m \in a + 1 .. n
               PROVE  \E j \in Places(c) : c[j].event = m
    BY DEF ListsAll
  <2>1. CASE m > b
    <3>1. m \in b + 1 .. n
      BY <2>1
    <3> QED
      BY <1>4, <3>1
  <2>2. CASE m <= b
    <3>1. m \in a + 1 .. b
      BY <2>2
    <3>2. PICK j \in Places(s) : s[j].event = m
      BY <3>1 DEF ListsAll
    <3> QED
      BY <1>1, <3>2
  <2> QED
    BY <2>1, <2>2
<1> QED
  BY <1>5, <1>6, <1>7, <1>8 DEF Listed, c

\* Where the known part of the file lies does not matter when the list holds none
\* of it.
LEMMA ListedElsewhere ==
  ASSUME NEW s \in Seq(Events), NEW a \in Nat, NEW b \in Nat, NEW c \in Nat, NEW d \in Nat,
         Listed(s, a, b), b <= c, c <= d
  PROVE  Listed(s, c, d)
<1>1. \A i \in Places(s) : s[i].event \in 0 .. d /\ ~(s[i].event > c)
  BY DEF Listed
<1> QED
  BY <1>1 DEF Listed

\* While the GUI is in live mode, live_events holds the last of the events it
\* has counted, and all of them while there is room and only one trace.
Showing ==
  live_mode =>
    /\ Listed(live_events, Base, Known)
    /\ session <= 1 /\ Len(live_events) < max_events => ListsAll(live_events, Base, Known)

\* What is added to the list stays in it, but for what Trim drops.
LEMMA AddedShows ==
  ASSUME NEW u \in Seq(Events), NEW a \in Nat, NEW n \in Nat, TailTypes,
         live_events' = Trim(live_events \o u), Listed(live_events \o u, a, n),
         session <= 1 /\ Len(live_events) < max_events => ListsAll(live_events \o u, a, n)
  PROVE  /\ Listed(live_events', a, n)
         /\ session <= 1 /\ Len(live_events') < max_events => ListsAll(live_events', a, n)
<1> DEFINE s == live_events
<1>1. s \in Seq(Events)
  BY DEF TailTypes
<1>2. /\ s \o u \in Seq(Events) /\ Len(s \o u) = Len(s) + Len(u)
      /\ Len(s) \in Nat /\ Len(u) \in Nat
  BY <1>1, JoinedPlaces
<1>3. Len(s') < max_events => Len(s) < max_events
  <2>1. /\ Cut(s \o u) \in 0 .. Len(s \o u)
        /\ Len(s') = Len(s \o u) - Cut(s \o u)
        /\ Len(s') < max_events => Cut(s \o u) = 0
    BY <1>2, TrimIs
  <2> QED
    BY <1>2, <2>1, Bounds
<1> QED
  BY <1>2, <1>3, TrimKeeps

LEMMA ShowingStep ==
  TailTypes /\ FileInv /\ Showing /\ TailTypes' /\ FileInv' /\ [Next]_vars => Showing'
<1> SUFFICES ASSUME TailTypes, FileInv, Showing, TailTypes', FileInv', [Next]_vars,
                    live_mode'
             PROVE  /\ Listed(live_events', Base', Known')
                    /\ session' <= 1 /\ Len(live_events') < max_events
                         => ListsAll(live_events', Base', Known')
  BY DEF Showing, Listed, ListsAll, Places
<1> USE DEF fileVars, seen
<1> DEFINE s == live_events
<1>1. /\ Base \in Nat /\ Known \in Nat /\ Base <= Known /\ Known <= written
      /\ written = Base + Len(file) /\ Len(file) \in Nat /\ written \in Nat
      /\ s \in Seq(Events) /\ last_file_event_count \in Nat
  BY NumbersAre, Bounds DEF TailTypes
<1>2. /\ Base' \in Nat /\ Known' \in Nat /\ Base' <= Known' /\ Known' <= written'
      /\ written' = Base' + Len(file') /\ Len(file') \in Nat
  <2>1. /\ Len(file') \in Nat /\ written' \in Nat /\ last_file_event_count' \in Nat
        /\ Len(file') <= written'
    BY LenProperties, Bounds DEF TailTypes, FileInv
  <2> QED
    BY <2>1 DEF Base, Known
<1>3. CASE UNCHANGED <<live_mode, live_events, Base, Known, session>>
  BY <1>3 DEF Showing
<1>4. CASE ConsumeHook
  <2> DEFINE u == Labelled(<<hooked + 1>>, 0)
  <2>1. live_mode /\ s' = Trim(s \o u) /\ UNCHANGED <<Base, Known, session>>
    BY <1>4 DEF ConsumeHook, Base, Known
  <2>2. u \in Seq(Events) /\ Places(u) = {}
    <3> DEFINE h == <<hooked + 1>>
    <3>1. h \in Seq(Nat) /\ Len(h) = 1
      BY DEF TailTypes
    <3> HIDE DEF h
    <3>2. /\ Labelled(h, 0) \in Seq(Events) /\ Len(Labelled(h, 0)) = 1
          /\ \A i \in 1 .. 1 : Labelled(h, 0)[i] = [event |-> h[i], reader |-> 0]
      BY <3>1, LabelledIs
    <3>3. u \in Seq(Events) /\ Len(u) = 1 /\ u[1].reader = 0
      BY <3>2 DEF h
    <3> HIDE DEF u
    <3>4. \A i \in 1 .. Len(u) : i = 1
      BY <3>3
    <3> QED
      BY <3>3, <3>4 DEF Places
  <2> HIDE DEF u
  <2>3. /\ Listed(s \o u, Base, Known)
        /\ session <= 1 /\ Len(s) < max_events => ListsAll(s \o u, Base, Known)
    BY <1>1, <2>1, <2>2, OthersKeep DEF Showing
  <2> QED
    BY <1>1, <2>1, <2>2, <2>3, AddedShows
<1>5. CASE Reload
  <2> DEFINE u == Labelled(Taken, reader + 1)
             b == Base + StartIndex
             n == written
  <2>1. /\ live_mode /\ Known = b /\ Base' = Base /\ Known' = n
        /\ s' = Trim(s \o u) /\ session' = session
    BY <1>5, ReloadIs DEF Reload, Taken
  <2>2. /\ Taken \in Seq(Nat) /\ Len(Taken) = n - b /\ reader + 1 \in Nat /\ reader + 1 # 0
        /\ StartIndex \in 0 .. Len(file) /\ b \in Nat /\ Base <= b /\ b <= n
    <3>1. /\ Taken \in Seq(Nat) /\ StartIndex \in 0 .. Len(file)
          /\ Len(Taken) = Len(file) - StartIndex
      BY TakenIs
    <3>2. reader + 1 \in Nat /\ reader + 1 # 0
      BY DEF TailTypes
    <3>3. b \in Nat /\ Base <= b /\ b <= n /\ n - b = Len(file) - StartIndex
      BY <1>1, <3>1
    <3> QED
      BY <3>1, <3>2, <3>3
  <2>3. \A i \in 1 .. n - b : Taken[i] = b + i
    <3> SUFFICES ASSUME NEW i \in 1 .. n - b
                 PROVE  Taken[i] = b + i
      OBVIOUS
    <3>1. Taken[i] = file[StartIndex + i]
      BY <2>2, TakenIs
    <3>2. StartIndex + i \in 1 .. Len(file) /\ Base + (StartIndex + i) = b + i
      BY <1>1, <2>2
    <3> QED
      BY <3>1, <3>2 DEF FileInv
  <2>4. /\ u \in Seq(Events) /\ Len(u) = n - b
        /\ \A i \in 1 .. n - b : u[i] = [event |-> Taken[i], reader |-> reader + 1]
    BY <2>2, LabelledIs
  <2> HIDE DEF u
  <2>5. \A i \in 1 .. n - b : u[i].reader # 0 /\ u[i].event = b + i
    BY <2>2, <2>3, <2>4
  <2>6. /\ Listed(s, Base, b)
        /\ session <= 1 /\ Len(s) < max_events => ListsAll(s, Base, b)
    BY <2>1 DEF Showing
  <2> HIDE DEF b, n
  <2>7. n \in Nat
    BY <1>1 DEF n
  <2>8. /\ Listed(s \o u, Base, n)
        /\ session <= 1 /\ Len(s) < max_events => ListsAll(s \o u, Base, n)
    BY <1>1, <2>2, <2>4, <2>5, <2>6, <2>7, FileExtends
  <2> QED
    BY <1>1, <2>1, <2>4, <2>7, <2>8, AddedShows
<1>6. CASE DisableLiveMode
  BY <1>6 DEF DisableLiveMode
<1>7. CASE TraceStart
  <2>1. /\ live_mode /\ s' = s /\ written' = written /\ Len(file') = 0
        /\ session' = session + 1
    BY <1>7 DEF TraceStart
  <2>2. Base' = written /\ Known' = written
    BY <1>1, <1>2, <2>1 DEF Base
  <2>3. Listed(s, written, written)
    BY <1>1, <2>1, ListedElsewhere DEF Showing
  <2>4. ListsAll(s, written, written)
    BY <1>1 DEF ListsAll
  <2> QED
    BY <2>1, <2>2, <2>3, <2>4
<1>8. CASE TraceWrite
  <2>1. CASE UNCHANGED <<file, written>>
    BY <1>3, <1>8, <2>1 DEF TraceWrite, Base, Known
  <2>2. CASE file' = Append(file, written + 1) /\ written' = written + 1
    <3>1. Len(file') = Len(file) + 1 /\ last_file_event_count' = last_file_event_count
      BY <1>8, <2>2, AppendProperties DEF TraceWrite, TailTypes
    <3>2. Base' = Base
      BY <1>1, <2>2, <3>1 DEF Base
    <3>3. CASE last_file_event_count <= Len(file)
      <4>1. Known' = Known
        BY <1>1, <3>1, <3>2, <3>3 DEF Known
      <4> QED
        BY <1>3, <1>8, <3>2, <4>1 DEF TraceWrite
    <3>4. CASE ~(last_file_event_count <= Len(file))
      <4>1. Known = Base /\ ~(session <= 1) /\ live_mode /\ s' = s /\ session' = session
        BY <1>8, <3>4 DEF Known, FileInv, TraceWrite
      <4>2. Listed(s, Base, Known')
        BY <1>1, <1>2, <3>2, <4>1, ListedElsewhere DEF Showing
      <4> QED
        BY <3>2, <4>1, <4>2
    <3> QED
      BY <3>3, <3>4
  <2> QED
    BY <1>8, <2>1, <2>2 DEF TraceWrite
<1>9. CASE TraceHeader \/ Tick \/ StatFile \/ ReloadInvalid \/ UNCHANGED vars
  BY <1>3, <1>9 DEF TraceHeader, Tick, StatFile, ReloadInvalid, Base, Known, vars
<1> QED
  BY <1>4, <1>5, <1>6, <1>7, <1>8, <1>9 DEF Next

LEMMA ShowingInvariant == Spec => [](TailTypes /\ FileInv /\ Showing)
<1>1. Init => FileInv /\ Showing
  <2> SUFFICES ASSUME Init
               PROVE  FileInv /\ Showing
    OBVIOUS
  <2>1. Len(file) = 0 /\ Len(live_events) = 0 /\ last_file_event_count = 0 /\ written = 0
    BY DEF Init
  <2>2. Base = 0 /\ Known = 0
    BY <2>1 DEF Base, Known
  <2> QED
    BY <2>1, <2>2, Bounds DEF Init, FileInv, Showing, Listed, ListsAll, Places
<1>2. TailTypes /\ FileInv /\ [Next]_vars => FileInv'
  BY FileStep
<1> QED
  BY <1>1, <1>2, TypesInvariant, ShowingStep, PTL DEF Spec

\* Whatever traces are written into the file, the GUI shows no event twice or out
\* of order, and of the file as it is the last of the events it has counted,
\* without a gap; all of them, while there is room and the file is not replaced.
THEOREM TailInOrder == Spec => []ShownInOrder
<1>1. TailTypes /\ FileInv /\ Showing => ShownInOrder
  <2> DEFINE b == last_file_event_count
             l == Len(file)
             Here == {file[k] : k \in DOMAIN file}
             Counted(first) == {file[k] : k \in {i \in DOMAIN file : first < i /\ i <= b}}
  <2> SUFFICES ASSUME TailTypes, FileInv, Showing, live_mode
               PROVE  /\ \A i, j \in ShownPlaces :
                           i < j => live_events[i].event < live_events[j].event
                      /\ \E first \in 0 .. b :
                           /\ Shown \cap Here = Counted(first)
                           /\ session <= 1 /\ Len(live_events) < max_events => first = 0
    BY DEF ShownInOrder
  <2>1. /\ b \in Nat /\ l \in Nat /\ Base \in Nat /\ Known \in Nat /\ Base <= Known
        /\ DOMAIN file = 1 .. l /\ \A k \in 1 .. l : file[k] = Base + k
        /\ Known = IF b <= l THEN Base + b ELSE Base
        /\ session <= 1 => b <= l
    <3>1. DOMAIN file = 1 .. l
      BY DEF TailTypes
    <3> QED
      BY <3>1, NumbersAre DEF TailTypes, FileInv, Known
  <2>2. ShownPlaces = Places(live_events)
    BY DEF ShownPlaces, Places
  <2>3. /\ Listed(live_events, Base, Known)
        /\ session <= 1 /\ Len(live_events) < max_events
             => ListsAll(live_events, Base, Known)
    BY DEF Showing
  <2>4. \A i, j \in ShownPlaces :
          i < j => live_events[i].event < live_events[j].event
    BY <2>2, <2>3 DEF Listed
  <2>5. Shown \subseteq 0 .. Known
    BY <2>2, <2>3 DEF Shown, Listed
  <2>6. ASSUME NEW n \in Shown, NEW m \in Base + 1 .. Known, n > Base, m > n
        PROVE  m \in Shown
    BY <2>2, <2>3, <2>6 DEF Shown, Listed
  <2>7. session <= 1 /\ Len(live_events) < max_events => Base + 1 .. Known \subseteq Shown
    BY <2>2, <2>3 DEF Shown, ListsAll
  <2> HIDE DEF b, l
  <2> DEFINE New == {n \in Shown : n > Base}
  <2>8. Here = Base + 1 .. Base + l
    <3>1. \A n \in Base + 1 .. Base + l : n - Base \in 1 .. l /\ Base + (n - Base) = n
      BY <2>1
    <3>2. \A n \in Base + 1 .. Base + l : \E k \in DOMAIN file : file[k] = n
      BY <2>1, <3>1
    <3>3. \A k \in DOMAIN file : file[k] \in Base + 1 .. Base + l
      BY <2>1
    <3> QED
      BY <3>2, <3>3
  <2>9. Shown \cap Here = New
    <3>1. \A n \in New : n \in Base + 1 .. Base + l
      BY <2>1, <2>5
    <3> QED
      BY <2>1, <2>8, <3>1
  <2>10. ASSUME NEW first \in 0 .. b, b <= l
         PROVE  Counted(first) = Base + first + 1 .. Base + b
    <3>1. \A n \in Base + first + 1 .. Base + b :
            n - Base \in 1 .. l /\ first < n - Base /\ n - Base <= b /\ Base + (n - Base) = n
      BY <2>1, <2>10
    <3>2. \A n \in Base + first + 1 .. Base + b :
            \E k \in {i \in DOMAIN file : first < i /\ i <= b} : file[k] = n
      BY <2>1, <3>1
    <3>3. \A k \in {i \in DOMAIN file : first < i /\ i <= b} :
            file[k] \in Base + first + 1 .. Base + b
      BY <2>1, <2>10
    <3> QED
      BY <3>2, <3>3
  <2>11. \E first \in 0 .. b :
           /\ New = Counted(first)
           /\ session <= 1 /\ Len(live_events) < max_events => first = 0
    <3>1. CASE ~(b <= l)
      <4>1. \A n \in Shown : ~(n > Base)
        BY <2>1, <2>5, <3>1
      <4>2. \A i \in DOMAIN file : ~(b < i /\ i <= b)
        BY <2>1
      <4>3. New = {} /\ Counted(b) = {}
        BY <4>1, <4>2
      <4>4. b \in 0 .. b /\ ~(session <= 1)
        BY <2>1, <3>1
      <4> HIDE DEF New, Counted
      <4> QED
        BY <4>3, <4>4
    <3>2. CASE b <= l /\ session <= 1 /\ Len(live_events) < max_events
      <4>1. New = Base + 1 .. Base + b
        <5>1. \A n \in Shown : n > Base => n \in Base + 1 .. Base + b
          BY <2>1, <2>5, <3>2
        <5>2. \A n \in Base + 1 .. Base + b : n \in Shown /\ n > Base
          BY <2>1, <2>7, <3>2
        <5> QED
          BY <5>1, <5>2
      <4>2. 0 \in 0 .. b /\ Counted(0) = Base + 0 + 1 .. Base + b
        BY <2>1, <2>10, <3>2
      <4>3. Base + 0 + 1 = Base + 1
        BY <2>1
      <4> QED
        BY <4>1, <4>2, <4>3
    <3>3. CASE b <= l /\ New = {} /\ ~(session <= 1 /\ Len(live_events) < max_events)
      <4>1. b \in 0 .. b /\ Counted(b) = Base + b + 1 .. Base + b
        BY <2>1, <2>10, <3>3
      <4>2. Base + b + 1 .. Base + b = {}
        BY <2>1
      <4> QED
        BY <3>3, <4>1, <4>2
    <3>4. CASE b <= l /\ New # {} /\ ~(session <= 1 /\ Len(live_events) < max_events)
      <4>1. New \subseteq Nat
        <5>1. \A n \in Shown : n \in Nat
          BY <2>1, <2>5
        <5> QED
          BY <5>1
      <4>2. PICK n \in New : \A m \in New : <<m, n>> \notin OpToRel(<, Nat)
        BY <3>4, <4>1, WFMin, NatLessThanWellFounded, Zenon
      <4>3. \A m \in New : ~(m < n)
        BY <4>1, <4>2, Zenon DEF OpToRel
      <4>4. /\ n \in Base + 1 .. Base + b /\ n - Base - 1 \in 0 .. b
            /\ Base + (n - Base - 1) + 1 = n
        BY <2>1, <2>5, <3>4
      <4>5. New = n .. Base + b
        <5>1. \A m \in New : m \in n .. Base + b
          BY <2>1, <2>5, <3>4, <4>1, <4>3, <4>4
        <5>2. \A m \in n .. Base + b :
                m \in Base + 1 .. Known /\ (m = n \/ m > n) /\ m > Base
          BY <2>1, <3>4, <4>4
        <5>3. \A m \in n .. Base + b : m \in New
          BY <2>6, <4>4, <5>2
        <5> QED
          BY <5>1, <5>3
      <4>6. Counted(n - Base - 1) = Base + (n - Base - 1) + 1 .. Base + b
        BY <2>10, <3>4, <4>4
      <4> QED
        BY <3>4, <4>4, <4>5, <4>6
    <3> QED
      BY <3>1, <3>2, <3>3, <3>4
  <2> QED
    BY <2>4, <2>9, <2>11
<1> QED
  BY <1>1, ShowingInvariant, PTL

\* Whenever the GUI has read the file, and there is room, every event in the
\* file is shown, however often the file was replaced: unless it was replaced by
\* one with no fewer events than the GUI had counted.
THEOREM TailLoadsAll == Spec => AllLoaded
<1>1. /\ TailTypes /\ FileInv /\ Showing /\ TailTypes' /\ FileInv' /\ Showing'
      /\ [Next]_vars
      => [ reader' > reader /\ Len(live_events') < max_events /\ ~TakenForGrown =>
             \A i \in 1 .. Len(file) : file[i] \in Shown' ]_vars
  <2> SUFFICES ASSUME TailTypes, FileInv, Showing, Showing', [Next]_vars,
                      reader' > reader, Len(live_events') < max_events, ~TakenForGrown,
                      NEW i \in 1 .. Len(file)
               PROVE  file[i] \in Shown'
    OBVIOUS
  <2> DEFINE s == live_events
             u == Labelled(Taken, reader + 1)
  <2>1. Reload
    BY DEF Next, vars, TraceStart, TraceHeader, TraceWrite, Tick, ConsumeHook,
           StatFile, ReloadInvalid, DisableLiveMode, TailTypes, fileVars, seen
  <2>2. /\ Base \in Nat /\ Len(file) \in Nat /\ 1 \in 1 .. Len(file)
        /\ written = Base + Len(file) /\ file[1] = Base + 1 /\ file[i] = Base + i
        /\ s \in Seq(Events) /\ last_file_event_count \in Nat
    BY NumbersAre DEF FileInv, TailTypes
  <2>3. /\ live_mode /\ live_mode' /\ Known' = written /\ Base' = Base
        /\ s' = Trim(s \o u)
    BY <2>1, ReloadIs DEF Reload, Taken
  <2>4. /\ StartIndex \in 0 .. Len(file) /\ Taken \in Seq(Nat)
        /\ Len(Taken) = Len(file) - StartIndex
        /\ \A k \in 1 .. Len(Taken) : Taken[k] = file[StartIndex + k]
    BY TakenIs
  <2>5. /\ u \in Seq(Events) /\ Len(u) = Len(Taken)
        /\ \A k \in 1 .. Len(Taken) : u[k] = [event |-> Taken[k], reader |-> reader + 1]
    <3>1. reader + 1 \in Nat
      BY DEF TailTypes
    <3> QED
      BY <2>4, <3>1, LabelledIs
  <2> HIDE DEF u
  <2>6. s' = s \o u /\ s \o u \in Seq(Events)
    <3>1. /\ s \o u \in Seq(Events) /\ s' \in Seq(Events)
          /\ Len(s') = Len(s \o u) - Cut(s \o u) /\ Cut(s \o u) = 0
          /\ Len(s \o u) \in Nat
          /\ \A k \in 1 .. Len(s') : s'[k] = (s \o u)[Cut(s \o u) + k]
      BY <2>2, <2>3, <2>5, JoinedPlaces, TrimIs, LenProperties
    <3>2. Len(s') = Len(s \o u) /\ \A k \in 1 .. Len(s') : s'[k] = (s \o u)[k]
      BY <3>1
    <3> QED
      BY <3>1, <3>2, SeqEqual
  <2>7. \E j \in Places(s') : s'[j].event = Base + 1
    <3>1. CASE StartIndex = 0
      <4>1. 1 \in 1 .. Len(Taken) /\ StartIndex + 1 = 1
        BY <2>2, <2>4, <3>1
      <4>2. u[1] = [event |-> file[1], reader |-> reader + 1] /\ reader + 1 # 0
        BY <2>4, <2>5, <4>1 DEF TailTypes
      <4>3. 1 \in Places(u) /\ u[1].event = Base + 1
        BY <2>2, <2>5, <4>1, <4>2 DEF Places
      <4>4. Len(s) + 1 \in Places(s \o u) /\ (s \o u)[Len(s) + 1] = u[1]
        BY <2>2, <2>5, <4>3, JoinedPlaces
      <4> QED
        BY <2>6, <4>3, <4>4
    <3>2. CASE StartIndex # 0
      <4>1. file[1] \in Shown
        BY <2>2, <3>2 DEF TakenForGrown, StartIndex
      <4>2. PICK j \in Places(s) : s[j].event = Base + 1
        BY <2>2, <4>1 DEF Shown, ShownPlaces, Places
      <4> QED
        BY <2>2, <2>5, <2>6, <4>2, JoinedPlaces
    <3> QED
      BY <3>1, <3>2
  <2>8. \A m \in Base + 2 .. written : \E j \in Places(s') : s'[j].event = m
    <3>1. Listed(s', Base, written)
      BY <2>3 DEF Showing
    <3>2. \A m \in Base + 2 .. written : m \in Base + 1 .. written /\ m > Base + 1
      BY <2>2
    <3>3. Base + 1 > Base
      BY <2>2
    <3> QED
      BY <2>7, <3>1, <3>2, <3>3 DEF Listed
  <2>9. file[i] = Base + 1 \/ file[i] \in Base + 2 .. written
    BY <2>2
  <2>10. \E j \in Places(s') : s'[j].event = file[i]
    BY <2>7, <2>8, <2>9
  <2> QED
    BY <2>10 DEF Places, Shown, ShownPlaces
<1> QED
  BY <1>1, ShowingInvariant, PTL DEF Spec, AllLoaded
=============================================================================
