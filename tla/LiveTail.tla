------------------------------ MODULE LiveTail ------------------------------
(***************************************************************************)
(* Live mode of the GUI (ImGuiApp::update_live_data in                     *)
(* src/frontend/imgui_app.cpp): in every frame it takes the events of the  *)
(* hook in its own process, and it follows the trace file that a traced    *)
(* process writes.  When the file looks changed it reads the file from the *)
(* start with a new TraceReader and appends the events it has not seen to  *)
(* live_events.                                                            *)
(*                                                                         *)
(* The traced process is a GGMLHook: start() empties the file, then comes  *)
(* the header, then events, which stdio may cut anywhere.  The file system *)
(* gives modification times in whole seconds.  All records count as equal  *)
(* in size.                                                                *)
(***************************************************************************)
EXTENDS Naturals, Sequences

CONSTANTS
  max_events,    \* most events live_events keeps (50000)
  MaxEvents,     \* bound of the model: events the traced process writes
  MaxHookEvents, \* bound of the model: events of the GUI's own process
  MaxSessions,   \* bound of the model: start() calls of the traced process
  MaxTime        \* bound of the model: seconds

ASSUME TailAssumption ==
  /\ max_events \in Nat \ {0}
  /\ {MaxEvents, MaxHookEvents, MaxSessions, MaxTime} \subseteq Nat

VARIABLES
  session,      \* start() calls of the traced process; 0: there is no file
  file,         \* the complete events in the file
  header,       \* the file has its header
  cut,          \* the file ends in a part of an event
  written,      \* events written so far, which also numbers them
  mtime, now,   \* the file's modification time, and the time
  live_mode,
  live_events,  \* the events to show, each with the reader that owns its label
  reader,       \* live_trace_reader, 0 when it is empty; readers are numbered
  last_file_mod_time, last_file_size, last_file_event_count,
  reloading,    \* update_live_data is about to read the file
  stat,         \* what stat() said
  hooked        \* events of the GUI's own process so far

fileVars == <<session, file, header, cut, written, mtime>>
seen == <<last_file_mod_time, last_file_size, last_file_event_count>>
vars == <<session, file, header, cut, written, mtime, now, live_mode,
          live_events, reader, last_file_mod_time, last_file_size,
          last_file_event_count, reloading, stat, hooked>>

Size == IF header THEN 1 + 2 * Len(file) + (IF cut THEN 1 ELSE 0) ELSE 0

\* The events of one source; reader 0 stands for the hook of this process.
Labelled(events, r) == [i \in 1 .. Len(events) |-> [event |-> events[i], reader |-> r]]

Init ==
  /\ session = 0 /\ file = <<>> /\ header = FALSE /\ cut = FALSE
  /\ written = 0 /\ mtime = 0 /\ now = 1
  /\ live_mode = TRUE /\ live_events = <<>> /\ reader = 0
  /\ last_file_mod_time = 0 /\ last_file_size = 0 /\ last_file_event_count = 0
  /\ reloading = FALSE /\ stat = [mtime |-> 0, size |-> 0]
  /\ hooked = 0

-----------------------------------------------------------------------------
(* The traced process and the clock *)

TraceStart ==
  /\ session < MaxSessions
  /\ session' = session + 1
  /\ file' = <<>> /\ header' = FALSE /\ cut' = FALSE
  /\ mtime' = now
  /\ UNCHANGED <<written, now, live_mode, live_events, reader, seen, reloading,
                 stat, hooked>>

TraceHeader ==
  /\ session > 0 /\ ~header
  /\ header' = TRUE
  /\ mtime' = now
  /\ UNCHANGED <<session, file, cut, written, now, live_mode, live_events,
                 reader, seen, reloading, stat, hooked>>

\* stdio writes out its buffer: an event is completed, or cut in two.
TraceWrite ==
  /\ header /\ written < MaxEvents
  /\ \/ /\ file' = Append(file, written + 1)
        /\ written' = written + 1
        /\ cut' = FALSE
     \/ /\ ~cut
        /\ cut' = TRUE
        /\ UNCHANGED <<file, written>>
  /\ mtime' = now
  /\ UNCHANGED <<session, header, now, live_mode, live_events, reader, seen,
                 reloading, stat, hooked>>

Tick ==
  /\ now < MaxTime
  /\ now' = now + 1
  /\ UNCHANGED <<fileVars, live_mode, live_events, reader, seen, reloading,
                 stat, hooked>>

-----------------------------------------------------------------------------
(* update_live_data *)

\* Mutant of Trim: it leaves one too many.
TrimLate(events) ==
  SubSeq(events, 1 + (IF Len(events) > max_events + 1
                      THEN Len(events) - max_events - 1 ELSE 0), Len(events))

\* The oldest events go when there are more than max_events.
Trim(events) ==
  SubSeq(events, 1 + (IF Len(events) > max_events THEN Len(events) - max_events
                      ELSE 0), Len(events))

ConsumeHook ==
  /\ live_mode /\ ~reloading
  /\ hooked < MaxHookEvents
  /\ hooked' = hooked + 1
  /\ live_events' = Trim(live_events \o Labelled(<<hooked + 1>>, 0))
  /\ UNCHANGED <<fileVars, now, live_mode, reader, seen, reloading, stat>>

\* Mutant of Changed: only the modification time counts.
ChangedByTime == mtime > last_file_mod_time

Changed == mtime > last_file_mod_time \/ Size > last_file_size

StatFile ==
  /\ live_mode /\ ~reloading
  /\ session > 0
  /\ Changed
  /\ stat' = [mtime |-> mtime, size |-> Size]
  /\ reloading' = TRUE
  /\ UNCHANGED <<fileVars, now, live_mode, live_events, reader, seen, hooked>>

\* A file without a header gives no valid reader, and nothing is remembered.
ReloadInvalid ==
  /\ reloading /\ ~header
  /\ reloading' = FALSE
  /\ UNCHANGED <<fileVars, now, live_mode, live_events, reader, seen, stat,
                 hooked>>

\* Mutants of StartIndex: everything is taken again, or a file with fewer events
\* than were counted is not taken for another one.
StartAfresh == 0
StartCounted == IF reader # 0 THEN last_file_event_count ELSE 0

\* How many events of the file count as seen.
StartIndex ==
  IF reader # 0 /\ Len(file) >= last_file_event_count THEN last_file_event_count
  ELSE 0

Reload ==
  /\ reloading /\ header
  /\ reader' = reader + 1
  /\ live_events' =
       Trim(live_events \o
            Labelled(SubSeq(file, StartIndex + 1, Len(file)), reader + 1))
  /\ last_file_event_count' =
       IF Len(file) > StartIndex THEN Len(file) ELSE last_file_event_count
  /\ last_file_mod_time' = stat.mtime
  /\ last_file_size' = stat.size
  /\ reloading' = FALSE
  /\ UNCHANGED <<fileVars, now, live_mode, stat, hooked>>

\* load_trace_file() leaves live mode first, whatever comes of the loading.
\* last_file_event_count is a static variable and keeps its value.
DisableLiveMode ==
  /\ live_mode /\ ~reloading
  /\ live_mode' = FALSE
  /\ live_events' = <<>>
  /\ reader' = 0
  /\ last_file_mod_time' = 0
  /\ last_file_size' = 0
  /\ UNCHANGED <<fileVars, now, last_file_event_count, reloading, stat, hooked>>

Next ==
  \/ TraceStart \/ TraceHeader \/ TraceWrite \/ Tick
  \/ ConsumeHook \/ StatFile \/ ReloadInvalid \/ Reload \/ DisableLiveMode

Spec == Init /\ [][Next]_vars

\* The GUI renders frame after frame; the traced process may do what it likes.
FairSpec == Spec /\ WF_vars(StatFile \/ ReloadInvalid \/ Reload)

-----------------------------------------------------------------------------
(* Properties *)

\* Every variable has its type.
TypeOK ==
  /\ file \in Seq(1 .. MaxEvents)
  /\ {header, cut, live_mode, reloading} \subseteq BOOLEAN
  /\ Len(live_events) <= max_events
  /\ \A i \in 1 .. Len(live_events) :
       live_events[i].event \in Nat /\ live_events[i].reader \in Nat
  /\ reader \in Nat

\* The places and the numbers of the events shown that came from the file.
ShownPlaces == {i \in 1 .. Len(live_events) : live_events[i].reader # 0}
Shown == {live_events[i].event : i \in ShownPlaces}

\* No event is shown twice or out of order, and of the file as it is now the GUI
\* shows the last of the events it has counted, without a gap: all of them, when
\* there is room and the traced process has not replaced the file.
ShownInOrder ==
  live_mode =>
    /\ \A i, j \in ShownPlaces : i < j => live_events[i].event < live_events[j].event
    /\ \E first \in 0 .. last_file_event_count :
         /\ Shown \cap {file[k] : k \in DOMAIN file} =
              {file[k] : k \in {i \in DOMAIN file :
                                  first < i /\ i <= last_file_event_count}}
         /\ session <= 1 /\ Len(live_events) < max_events => first = 0

\* The file has as many events as the GUI has counted, but they are not those: it
\* was replaced since, and is taken for the old file grown.
TakenForGrown ==
  reader # 0 /\ last_file_event_count \in 1 .. Len(file) /\ file[1] \notin Shown

\* Once the GUI has read the file, every event in it is shown (while there is
\* room): of a file that has grown, and of one that was replaced, if it has fewer
\* events than were counted of the last one - which is all that update_live_data
\* can tell.
AllLoaded ==
  [][ reader' > reader /\ Len(live_events') < max_events /\ ~TakenForGrown =>
        \A i \in 1 .. Len(file) : file[i] \in Shown' ]_vars

\* "Detection and handling of file recreation/truncation" (CHANGELOG.md): however
\* the file was replaced, once the GUI has read it every event in it is shown.
RecreationHandled ==
  [][ reader' > reader /\ Len(live_events') < max_events =>
        \A i \in 1 .. Len(file) : file[i] \in Shown' ]_vars

\* "Owns label strings that Event::label pointers reference"
\* (trace_reader.hpp): the Events tab prints the labels of live_events, so
\* their reader must still be there.
LabelsOwned ==
  \A i \in 1 .. Len(live_events) : live_events[i].reader \in {0, reader}

\* Every event of a file that only grows is taken over in the end.  (A file that
\* replaces it within the same second, and is no larger, is never read.)
EverythingShown ==
  \A k \in 1 .. MaxEvents :
    Len(file) >= k ~> last_file_event_count >= k \/ session > 1 \/ ~live_mode
=============================================================================
