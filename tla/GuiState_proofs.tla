---------------------------- MODULE GuiState_proofs ----------------------------
(***************************************************************************)
(* Proofs about GuiState, for every set of traces and every bound of the   *)
(* live events.                                                            *)
(***************************************************************************)
EXTENDS GuiState, SequenceTheorems, TLAPS

-----------------------------------------------------------------------------
(* The trace and live mode. *)

\* What is loaded, what is said to be loaded and live mode stay consistent,
\* whatever is loaded, closed or refused.
THEOREM TraceStaysConsistent == Spec => []TraceConsistent
<1>1. Init => TraceConsistent
  BY GuiAssumption DEF Init, TraceConsistent
<1>2. TraceConsistent /\ [Next]_vars => TraceConsistent'
  <2> SUFFICES ASSUME TraceConsistent, [Next]_vars
               PROVE  TraceConsistent'
    OBVIOUS
  <2> USE DEF TraceConsistent, traceVars, liveVars
  <2>1. CASE UpdateLiveData
    <3>1. UNCHANGED <<trace_reader, trace_loaded, current_filename, live_mode>>
      BY <2>1 DEF UpdateLiveData
    <3> QED
      BY <3>1
  <2>2. CASE RenderMainMenuBar
    <3>1. /\ UNCHANGED live_mode
          /\ CloseTrace \/ UNCHANGED <<trace_reader, trace_loaded, current_filename>>
      BY <2>2 DEF RenderMainMenuBar
    <3>2. CASE CloseTrace
      BY <3>1, <3>2 DEF CloseTrace
    <3>3. CASE UNCHANGED <<trace_reader, trace_loaded, current_filename>>
      BY <3>1, <3>3
    <3> QED
      BY <3>1, <3>2, <3>3
  <2>3. CASE RenderFileBrowser
    <3>1. ASSUME NEW file \in Traces \cup Broken, LoadTraceFile(file)
          PROVE  TraceConsistent'
      <4>1. ~live_mode'
        BY <3>1 DEF LoadTraceFile, LeaveLiveMode, DisableLiveMode
      <4>2. CASE file \in Traces
        BY <3>1, <4>1, <4>2, GuiAssumption DEF LoadTraceFile, LoadSucceeds, LeaveLiveMode,
                                                DisableLiveMode
      <4>3. CASE file \notin Traces
        BY <3>1, <4>1, <4>3 DEF LoadTraceFile, LoadFails, LeaveLiveMode, DisableLiveMode
      <4> QED
        BY <4>2, <4>3
    <3>2. CASE UNCHANGED <<traceVars, liveVars>>
      BY <3>2
    <3> QED
      BY <2>3, <3>1, <3>2 DEF RenderFileBrowser
  <2>4. CASE RenderTimeline
    BY <2>4 DEF RenderTimeline
  <2>5. CASE SkipTimeline \/ PickListedEvent \/ SkipGraph \/ RenderGraph \/ RenderErrorPopup
    BY <2>5 DEF SkipTimeline, PickListedEvent, SkipGraph, RenderGraph, RenderErrorPopup
  <2>6. CASE UNCHANGED vars
    BY <2>6 DEF vars
  <2> QED
    BY <2>1, <2>2, <2>3, <2>4, <2>5, <2>6 DEF Next
<1> QED
  BY <1>1, <1>2, PTL DEF Spec

\* A step that shows an error has changed no trace and no selection.
THEOREM FailedLoadChangesNothing == Spec => FailedLoadKeepsTrace
<1> DEFINE Kept == error_message' = "error" /\ error_message # "error" =>
                     UNCHANGED <<traceVars, selectVars>>
<1>1. [Next]_vars => [Kept]_vars
  <2> SUFFICES ASSUME Next
               PROVE  Kept
    OBVIOUS
  <2>1. CASE RenderFileBrowser
    <3>1. ASSUME NEW file \in Traces \cup Broken, LoadTraceFile(file),
                 UNCHANGED <<widget_selected, picked>>
          PROVE  Kept
      BY <3>1 DEF LoadTraceFile, LoadSucceeds, LoadFails, selectVars
    <3> QED
      BY <2>1, <3>1 DEF RenderFileBrowser, selectVars
  <2>2. CASE UpdateLiveData \/ RenderMainMenuBar \/ RenderTimeline
    BY <2>2 DEF UpdateLiveData, RenderMainMenuBar, RenderTimeline
  <2>3. CASE SkipTimeline \/ PickListedEvent \/ SkipGraph \/ RenderGraph \/ RenderErrorPopup
    BY <2>3 DEF SkipTimeline, PickListedEvent, SkipGraph, RenderGraph, RenderErrorPopup
  <2> QED
    BY <2>1, <2>2, <2>3 DEF Next
<1> QED
  BY <1>1, PTL DEF Spec, FailedLoadKeepsTrace

-----------------------------------------------------------------------------
(* The view of the timeline. *)

\* There is room to scroll only where the data is larger than the view, or the
\* zoom is negative.
LEMMA ScrollRange ==
  ASSUME NEW z \in Zooms \cup TypedZooms
  PROVE  MaxScroll(z) \in Nat
<1>1. z = 1 \/ z = 2 \/ z = 4 \/ z = -2 \/ z = 0
  BY DEF Zooms, TypedZooms
<1>2. MaxScroll(z) = IF z > 2 THEN 4 - 8 \div z ELSE IF z < 0 THEN 4 + 8 \div (-z) ELSE 0
  BY DEF MaxScroll
<1> QED
  BY <1>1, <1>2

\* A clamped position is in the range of the zoom.
LEMMA Clamped ==
  ASSUME NEW z \in Zooms \cup TypedZooms, NEW s \in Int
  PROVE  Clamp(s, z) \in 0 .. MaxScroll(z) /\ Clamp(s, z) \in Int
<1>1. MaxScroll(z) \in Nat
  BY ScrollRange
<1> QED
  BY <1>1 DEF Clamp

\* The view is given by numbers that some slider or the wheel can set.
ViewTypes == zoom \in Zooms \cup TypedZooms /\ scroll \in Int

\* What may become of the view in a step.
LEMMA ViewSteps ==
  ASSUME ViewTypes, [Next]_vars
  PROVE  /\ ViewTypes'
         /\ InTrace' \/ TypeValue \/ UNCHANGED viewVars
              \/ (~InTrace /\ UNCHANGED last_duration)
<1> USE DEF viewVars
<1>0. /\ 2 \in Zooms /\ 0 \in 0 .. MaxScroll(2)
      /\ \A z \in Zooms : z \in Zooms \cup TypedZooms /\ MaxScroll(z) \in Nat
  BY ScrollRange DEF Zooms
<1>1. /\ FitZoom \in Zooms \cup TypedZooms /\ FitScroll \in Int
      /\ MaxScroll(FitZoom) \in Nat
  <2>1. FitZoom \in Zooms \cup TypedZooms /\ FitScroll \in Int
    BY <1>0 DEF FitZoom, FitScroll, ViewTypes
  <2> QED
    BY <2>1, ScrollRange
<1>2. ASSUME UNCHANGED viewVars
      PROVE  ViewTypes'
  BY <1>2 DEF ViewTypes
<1>3. \/ InTrace /\ FitZoom \in Zooms /\ FitScroll \in 0 .. MaxScroll(FitZoom)
      \/ ~InTrace /\ FitZoom = zoom /\ last_duration = DrawnCount
      \/ FitZoom = 2 /\ FitScroll = 0
  BY DEF InTrace, FitZoom, FitScroll
<1>4. CASE FitView
  <2>1. zoom' = FitZoom /\ scroll' = FitScroll /\ last_duration' = DrawnCount
    BY <1>4 DEF FitView
  <2>2. ViewTypes'
    BY <1>1, <2>1 DEF ViewTypes
  <2>3. InTrace' \/ (~InTrace /\ UNCHANGED last_duration)
    BY <1>0, <1>3, <2>1 DEF InTrace
  <2> QED
    BY <2>2, <2>3
<1>5. CASE AdjustView
  <2>1. ASSUME NEW s \in Int, zoom' \in Zooms, scroll' = Clamp(s, zoom')
        PROVE  ViewTypes' /\ InTrace'
    <3>1. Clamp(s, zoom') \in 0 .. MaxScroll(zoom') /\ Clamp(s, zoom') \in Int
      BY <1>0, <2>1, Clamped
    <3> QED
      BY <2>1, <3>1 DEF ViewTypes, InTrace
  <2>2. CASE zoom' = FitZoom /\ scroll' \in 0 .. MaxScroll(FitZoom)
    <3>1. ViewTypes'
      BY <1>1, <2>2 DEF ViewTypes
    <3>2. last_duration' = DrawnCount
      BY <1>5 DEF AdjustView
    <3>3. InTrace' \/ (~InTrace /\ UNCHANGED last_duration)
      BY <1>0, <1>3, <2>2, <3>2 DEF InTrace
    <3> QED
      BY <3>1, <3>3
  <2>3. \A d \in -2 .. 2 : FitScroll + d \in Int
    BY <1>1
  <2> QED
    BY <1>1, <1>5, <2>1, <2>2, <2>3 DEF AdjustView
<1>6. CASE TypeValue
  <2>1. CASE zoom' \in TypedZooms /\ scroll' = Clamp(FitScroll, zoom')
    BY <1>1, <1>6, <2>1, Clamped DEF ViewTypes
  <2>2. CASE zoom' = FitZoom /\ scroll' \in TypedScrolls
    BY <1>1, <1>6, <2>2 DEF ViewTypes, TypedScrolls
  <2> QED
    BY <1>6, <2>1, <2>2 DEF TypeValue
<1>7. CASE RenderTimeline
  <2>1. UNCHANGED viewVars \/ FitView \/ AdjustView \/ TypeValue
    BY <1>7 DEF RenderTimeline
  <2> QED
    BY <1>2, <1>4, <1>5, <1>6, <2>1
<1>8. CASE UpdateLiveData \/ RenderMainMenuBar \/ RenderFileBrowser
  BY <1>2, <1>8 DEF UpdateLiveData, RenderMainMenuBar, RenderFileBrowser
<1>9. CASE SkipTimeline \/ PickListedEvent \/ SkipGraph \/ RenderGraph \/ RenderErrorPopup
  BY <1>2, <1>9 DEF SkipTimeline, PickListedEvent, SkipGraph, RenderGraph, RenderErrorPopup
<1>10. CASE UNCHANGED vars
  BY <1>2, <1>10 DEF vars
<1> QED
  BY <1>7, <1>8, <1>9, <1>10 DEF Next

\* However the user zooms, scrolls and loads, the view leaves the trace only when
\* the user types a value that is out of it, and it is back at the latest when
\* data of another duration is drawn.
THEOREM ViewStaysInTrace == Spec => ViewInTrace
<1>1. Init => ViewTypes
  BY DEF Init, ViewTypes, Zooms
<1>2. ViewTypes /\ [Next]_vars => ViewTypes'
  BY ViewSteps
<1>3. ViewTypes /\ [Next]_vars
      => [InTrace' \/ TypeValue \/ (~InTrace /\ UNCHANGED last_duration)]_vars
  <2> SUFFICES ASSUME ViewTypes, [Next]_vars, UNCHANGED viewVars, ~InTrace'
               PROVE  ~InTrace /\ UNCHANGED last_duration
    BY ViewSteps
  <2> QED
    BY DEF InTrace, viewVars
<1> QED
  BY <1>1, <1>2, <1>3, PTL DEF Spec, ViewInTrace

-----------------------------------------------------------------------------
(* The selection.  It is kept as a position, by the application and by the   *)
(* timeline widget; the lists it indexes only grow as long as the hook gives *)
(* no events and live_events are not trimmed.                                *)

PositionsIn(source) == {source} \X Int

\* A span lists the positions of its source one after the other.
LEMMA SpanIs ==
  ASSUME NEW source, NEW a \in Int, NEW b \in Int, a <= b
  PROVE  /\ Span(source, a, b) \in Seq(PositionsIn(source))
         /\ Len(Span(source, a, b)) = b - a
         /\ \A i \in 1 .. b - a : Span(source, a, b)[i] = <<source, a + i - 1>>
<1>1. \A i \in 1 .. b - a : <<source, a + i - 1>> \in PositionsIn(source)
  BY DEF PositionsIn
<1>2. Span(source, a, b) \in [1 .. b - a -> PositionsIn(source)]
  BY <1>1 DEF Span
<1>3. b - a \in Nat
  OBVIOUS
<1> QED
  BY <1>2, <1>3 DEF Span

LEMMA SpanEmpty ==
  ASSUME NEW source, NEW a \in Int, NEW b \in Int, b <= a
  PROVE  Span(source, a, b) = <<>>
<1>1. 1 .. b - a = {}
  OBVIOUS
<1> QED
  BY <1>1 DEF Span

\* What was there and what is new are together what is there now.
LEMMA SpansJoin ==
  ASSUME NEW source, NEW a \in Int, NEW b \in Int, NEW c \in Int, a <= b, b <= c
  PROVE  Span(source, a, b) \o Span(source, b, c) = Span(source, a, c)
<1> DEFINE s == Span(source, a, b)
           u == Span(source, b, c)
           v == Span(source, a, c)
<1>a. a <= c
  OBVIOUS
<1>1. /\ s \in Seq(PositionsIn(source)) /\ Len(s) = b - a
      /\ \A i \in 1 .. b - a : s[i] = <<source, a + i - 1>>
  BY SpanIs
<1>2. /\ u \in Seq(PositionsIn(source)) /\ Len(u) = c - b
      /\ \A i \in 1 .. c - b : u[i] = <<source, b + i - 1>>
  BY SpanIs
<1>3. /\ v \in Seq(PositionsIn(source)) /\ Len(v) = c - a
      /\ \A i \in 1 .. c - a : v[i] = <<source, a + i - 1>>
  BY <1>a, SpanIs
<1> HIDE DEF s, u, v
<1>4. /\ s \o u \in Seq(PositionsIn(source)) /\ Len(s \o u) = c - a
      /\ \A i \in 1 .. c - a :
           (s \o u)[i] = IF i <= b - a THEN s[i] ELSE u[i - (b - a)]
  <2>1. /\ s \o u \in Seq(PositionsIn(source)) /\ Len(s \o u) = Len(s) + Len(u)
        /\ \A i \in 1 .. Len(s) + Len(u) :
             (s \o u)[i] = IF i <= Len(s) THEN s[i] ELSE u[i - Len(s)]
    BY <1>1, <1>2, ConcatProperties
  <2>2. Len(s) + Len(u) = c - a
    BY <1>1, <1>2
  <2> QED
    BY <1>1, <2>1, <2>2
<1>5. \A i \in 1 .. c - a : (s \o u)[i] = v[i]
  <2> SUFFICES ASSUME NEW i \in 1 .. c - a
               PROVE  (s \o u)[i] = v[i]
    OBVIOUS
  <2>1. CASE i <= b - a
    <3>1. i \in 1 .. b - a
      BY <2>1
    <3>2. (s \o u)[i] = s[i]
      BY <1>4, <2>1
    <3> QED
      BY <1>1, <1>3, <3>1, <3>2
  <2>2. CASE i > b - a
    <3> DEFINE j == i - (b - a)
    <3>1. j \in 1 .. c - b /\ b + j - 1 = a + i - 1
      BY <2>2
    <3>2. (s \o u)[i] = u[j]
      BY <1>4, <2>2
    <3> HIDE DEF j
    <3> QED
      BY <1>2, <1>3, <3>1, <3>2
  <2>3. i <= b - a \/ i > b - a
    OBVIOUS
  <2> QED
    BY <2>1, <2>2, <2>3
<1>6. s \o u = v
  <2>1. Len(s \o u) = Len(v) /\ \A i \in 1 .. Len(s \o u) : (s \o u)[i] = v[i]
    BY <1>3, <1>4, <1>5
  <2> QED
    BY <1>3, <1>4, <2>1, SeqEqual
<1> QED
  BY <1>6 DEF s, u, v

\* A list within the limit is not trimmed.
LEMMA NothingTrimmed ==
  ASSUME NEW S, NEW events \in Seq(S), Len(events) <= max_events
  PROVE  Trim(events) = events
<1>1. Len(events) \in Nat /\ max_events \in Nat
  BY GuiAssumption
<1>2. 1 + (IF Len(events) > max_events THEN Len(events) - max_events ELSE 0) = 1
  BY <1>1
<1>3. Trim(events) = SubSeq(events, 1, Len(events))
  BY <1>2, Zenon DEF Trim
<1> QED
  BY <1>3

\* Live mode has listed the followed file from its start, and nothing else.
LiveListed ==
  /\ TraceConsistent
  /\ live_trace_reader \in -1 .. MaxLive
  /\ hooked \in Nat
  /\ live_events = Span(Live, 0, Seen)

\* Both selections are the position of the event that was picked.
PositionPicked ==
  /\ widget_selected \in Int
  /\ selected_event \in {-1, widget_selected}
  /\ picked # None =>
       \E source : source # Hook /\ picked = <<source, widget_selected>>

\* What comes in goes to the end of what is listed.
LEMMA LiveStays ==
  ASSUME no_hook, MaxLive <= max_events, LiveListed, TraceConsistent', [Next]_vars
  PROVE  LiveListed'
<1> USE DEF LiveListed, liveVars
<1>1. CASE UNCHANGED liveVars
  BY <1>1 DEF Seen
<1>2. CASE DisableLiveMode
  <2>1. live_trace_reader' = -1 /\ live_events' = <<>> /\ UNCHANGED hooked
    BY <1>2 DEF DisableLiveMode
  <2>2. Seen' = 0
    BY <2>1 DEF Seen
  <2>3. -1 \in -1 .. MaxLive
    BY GuiAssumption
  <2> QED
    BY <2>1, <2>2, <2>3, SpanEmpty
<1>3. CASE UpdateLiveData
  <2>1. SUFFICES ASSUME NEW n \in live_trace_reader .. MaxLive,
                        live_events' = Trim(Trim(live_events \o Span(Hook, hooked, hooked))
                                              \o Span(Live, Seen, n)),
                        hooked' = hooked, live_trace_reader' = n
                 PROVE  LiveListed'
    <3>1. hooked .. hooked = {hooked}
      OBVIOUS
    <3> QED
      BY <1>1, <1>3, <3>1 DEF UpdateLiveData
  <2>2. /\ MaxLive \in Nat /\ live_trace_reader \in Int /\ n \in Int /\ Seen \in Int /\ Seen' \in Int
        /\ n \in -1 .. MaxLive /\ 0 <= Seen /\ Seen <= MaxLive /\ Seen <= Seen' /\ Seen' <= MaxLive
        /\ \/ Seen' = n
           \/ n <= Seen /\ Seen' = Seen
    BY <2>1, GuiAssumption DEF Seen
  <2> DEFINE was == Span(Live, 0, Seen)
  <2>3. was \in Seq(PositionsIn(Live)) /\ Len(was) <= max_events
    <3>1. was \in Seq(PositionsIn(Live)) /\ Len(was) = Seen - 0
      BY <2>2, SpanIs
    <3> QED
      BY <2>2, <3>1, GuiAssumption
  <2>4. Span(Hook, hooked, hooked) = <<>>
    BY SpanEmpty
  <2>5. was \o <<>> = was
    BY <2>3
  <2>6. Trim(was) = was
    BY <2>3, NothingTrimmed
  <2>7. live_events' = Trim(was \o Span(Live, Seen, n))
    BY <2>1, <2>4, <2>5, <2>6
  <2>8. was \o Span(Live, Seen, n) = Span(Live, 0, Seen')
    <3>1. CASE Seen' = n
      <4>1. 0 \in Int /\ 0 <= Seen /\ Seen <= n
        BY <2>2, <3>1
      <4> QED
        BY <2>2, <3>1, <4>1, SpansJoin, ZenonT(30)
    <3>2. CASE n <= Seen /\ Seen' = Seen
      <4>1. Span(Live, Seen, n) = <<>>
        BY <2>2, <3>2, SpanEmpty
      <4> QED
        BY <2>5, <3>2, <4>1
    <3> QED
      BY <2>2, <3>1, <3>2
  <2> DEFINE is == Span(Live, 0, Seen')
  <2>9. is \in Seq(PositionsIn(Live)) /\ Len(is) <= max_events
    <3>1. 0 \in Int /\ 0 <= Seen'
      BY <2>2
    <3>2. is \in Seq(PositionsIn(Live)) /\ Len(is) = Seen' - 0
      BY <2>2, <3>1, SpanIs
    <3> QED
      BY <2>2, <3>2, GuiAssumption
  <2>10. Trim(is) = is
    BY <2>9, NothingTrimmed
  <2>11. live_events' = is
    BY <2>7, <2>8, <2>10
  <2> QED
    BY <2>1, <2>2, <2>11
<1>4. CASE RenderFileBrowser
  BY <1>1, <1>2, <1>4 DEF RenderFileBrowser, LoadTraceFile, LeaveLiveMode
<1>5. CASE RenderMainMenuBar \/ RenderTimeline \/ RenderErrorPopup
  BY <1>1, <1>5 DEF RenderMainMenuBar, RenderTimeline, RenderErrorPopup
<1>6. CASE SkipTimeline \/ PickListedEvent \/ SkipGraph \/ RenderGraph
  BY <1>1, <1>6 DEF SkipTimeline, PickListedEvent, SkipGraph, RenderGraph
<1>7. CASE UNCHANGED vars
  BY <1>1, <1>7 DEF vars
<1> QED
  BY <1>3, <1>4, <1>5, <1>6, <1>7 DEF Next

\* The events that can be picked are those of one source, by their position.
LEMMA ListedIs ==
  ASSUME LiveListed
  PROVE  /\ Len(Listed) \in Nat
         /\ \E source : /\ source # Hook
                       /\ \A i \in 1 .. Len(Listed) : Listed[i] = <<source, i - 1>>
<1>1. ASSUME NEW source, NEW n \in Nat, source # Hook, Listed = Span(source, 0, n)
      PROVE  /\ Len(Listed) \in Nat
             /\ \E src : /\ src # Hook
                        /\ \A i \in 1 .. Len(Listed) : Listed[i] = <<src, i - 1>>
  <2>1. /\ Len(Listed) = n - 0
        /\ \A i \in 1 .. n - 0 : Listed[i] = <<source, 0 + i - 1>>
    BY SpanIs, <1>1
  <2>2. /\ Len(Listed) \in Nat
        /\ \A i \in 1 .. Len(Listed) : Listed[i] = <<source, i - 1>>
    BY <2>1
  <2> QED
    BY <1>1, <2>2
<1>2. CASE live_mode
  <2>1. Seen \in Nat
    BY DEF LiveListed, Seen
  <2>2. Listed = Span(Live, 0, Seen)
    BY <1>2 DEF LiveListed, Listed
  <2> QED
    BY <1>1, <2>1, <2>2, GuiAssumption
<1>3. CASE ~live_mode /\ trace_reader # None
  <2>1. trace_reader \in Traces
    BY <1>3 DEF LiveListed, TraceConsistent
  <2>2. Count[trace_reader] \in Nat /\ trace_reader # Hook
    BY <2>1, GuiAssumption
  <2>3. Listed = Span(trace_reader, 0, Count[trace_reader])
    BY <1>3 DEF Listed
  <2> QED
    BY <1>1, <2>2, <2>3
<1>4. CASE ~live_mode /\ trace_reader = None
  <2>1. Listed = Span(Live, 0, 0)
    BY <1>4, SpanEmpty DEF Listed
  <2> QED
    BY <1>1, <2>1, GuiAssumption
<1> QED
  BY <1>2, <1>3, <1>4

\* A pick changes both selections, and nothing else sets them to a position.
LEMMA PickStays ==
  ASSUME LiveListed, PositionPicked, [Next]_vars
  PROVE  PositionPicked'
<1> USE DEF PositionPicked, selectVars
<1>1. CASE UNCHANGED selectVars
  BY <1>1
<1>2. CASE RenderFileBrowser
  <2>1. UNCHANGED <<widget_selected, picked>>
    BY <1>2 DEF RenderFileBrowser
  <2>2. selected_event' \in {-1, selected_event}
    BY <1>2 DEF RenderFileBrowser, LoadTraceFile, LoadSucceeds, LoadFails
  <2> QED
    BY <2>1, <2>2
<1>3. CASE RenderTimeline
  <2>1. selected_event' = widget_selected'
    BY <1>3 DEF RenderTimeline
  <2>2. \/ UNCHANGED <<widget_selected, picked>>
        \/ \E i \in 0 .. DrawnCount - 2 : widget_selected' = i /\ picked' = <<Drawn, i>>
    BY <1>3 DEF RenderTimeline
  <2>3. CASE UNCHANGED <<widget_selected, picked>>
    BY <2>1, <2>3
  <2>4. ASSUME NEW i \in 0 .. DrawnCount - 2, widget_selected' = i, picked' = <<Drawn, i>>
        PROVE  PositionPicked'
    <3>1. Drawn \in {Live, trace_reader} /\ Drawn # None
      BY <1>3 DEF Drawn, RenderTimeline
    <3>2. Drawn # Hook
      BY <3>1, GuiAssumption DEF LiveListed, TraceConsistent
    <3> QED
      BY <2>1, <2>4, <3>2
  <2> QED
    BY <2>2, <2>3, <2>4
<1>4. CASE PickListedEvent
  <2>1. PICK i \in 1 .. Len(Listed) : Select(i - 1) /\ picked' = Listed[i]
    BY <1>4 DEF PickListedEvent
  <2>2. PICK source : /\ source # Hook
                      /\ \A k \in 1 .. Len(Listed) : Listed[k] = <<source, k - 1>>
    BY ListedIs
  <2>3. picked' = <<source, i - 1>> /\ i - 1 \in Int
    BY <2>1, <2>2
  <2>4. widget_selected' = i - 1 /\ selected_event' = i - 1
    BY <2>1 DEF Select
  <2> QED
    BY <2>2, <2>3, <2>4
<1>5. CASE UpdateLiveData \/ RenderMainMenuBar \/ RenderErrorPopup
  BY <1>1, <1>5 DEF UpdateLiveData, RenderMainMenuBar, RenderErrorPopup
<1>6. CASE SkipTimeline \/ SkipGraph \/ RenderGraph
  BY <1>1, <1>6 DEF SkipTimeline, SkipGraph, RenderGraph
<1>7. CASE UNCHANGED vars
  BY <1>1, <1>7 DEF vars
<1> QED
  BY <1>2, <1>3, <1>4, <1>5, <1>6, <1>7 DEF Next

\* While the source of the event the user picked last is on display, the
\* inspector shows that event or none, in every session without events of the
\* hook in which live_events are not trimmed: with either of the two the runs
\* gui_live_hook and gui_live_trim show another event.
THEOREM InspectorShowsPicked ==
  ASSUME no_hook, MaxLive <= max_events
  PROVE  Spec => []InspectedWasPicked
<1> DEFINE SelectionInv == LiveListed /\ PositionPicked
<1>1. Init => SelectionInv
  <2> SUFFICES ASSUME Init
               PROVE  SelectionInv
    OBVIOUS
  <2>1. Init => TraceConsistent
    BY GuiAssumption DEF Init, TraceConsistent
  <2>2. live_trace_reader = -1 /\ live_events = <<>> /\ hooked = 0
    BY DEF Init
  <2>3. Seen = 0
    BY <2>2 DEF Seen
  <2>4. LiveListed
    BY <2>1, <2>2, <2>3, SpanEmpty, GuiAssumption DEF LiveListed
  <2>5. PositionPicked
    BY DEF Init, PositionPicked
  <2> QED
    BY <2>4, <2>5
<1>2. TraceConsistent' /\ SelectionInv /\ [Next]_vars => SelectionInv'
  BY LiveStays, PickStays
<1>3. SelectionInv => InspectedWasPicked
  <2> SUFFICES ASSUME SelectionInv, Inspected # None, picked # None,
                      Display(picked) = Display(Inspected)
               PROVE  Inspected = picked
    BY DEF InspectedWasPicked
  <2>1. PICK source : /\ source # Hook
                      /\ \A k \in 1 .. Len(Listed) : Listed[k] = <<source, k - 1>>
    BY ListedIs
  <2>2. selected_event \in 0 .. Len(Listed) - 1 /\ Inspected = Listed[selected_event + 1]
    BY DEF Inspected
  <2>3. selected_event + 1 \in 1 .. Len(Listed) /\ selected_event = widget_selected
    BY <2>2, ListedIs DEF PositionPicked
  <2>4. Inspected = <<source, widget_selected>>
    BY <2>1, <2>2, <2>3
  <2>5. PICK other : other # Hook /\ picked = <<other, widget_selected>>
    BY DEF PositionPicked
  <2>6. other = source
    BY <2>1, <2>4, <2>5 DEF Display
  <2> QED
    BY <2>4, <2>5, <2>6
<1> QED
  BY <1>1, <1>2, <1>3, TraceStaysConsistent, PTL DEF Spec
=============================================================================
