------------------------------ MODULE GuiState ------------------------------
(***************************************************************************)
(* What the GUI shows (ImGuiApp in src/frontend/imgui_app.cpp and its      *)
(* widgets in src/frontend/imgui_widgets.cpp).  One thread renders frame   *)
(* after frame; a frame has the phases below, in this order, and the user  *)
(* may click one thing in it.  The state that outlives a frame is kept     *)
(* three times: the application's, the timeline widget's and the graph     *)
(* widget's.                                                               *)
(*                                                                         *)
(* A trace is a name and a number of events.  An event is identified by    *)
(* its source and its position there, from 0.  How live_events follow a    *)
(* file in detail is in LiveTail; here the file only grows.  ImGui decides *)
(* which windows get the mouse: the user may click whatever is drawn.      *)
(***************************************************************************)
EXTENDS Integers, SequencesExt

CONSTANTS
  Traces,      \* trace files that can be read
  Count,       \* Count[t]: how many events trace t has
  Broken,      \* paths that cannot be loaded: missing, empty, short, corrupt
  Live, Hook,  \* the two sources of live mode: the followed file and the hook
  None,
  no_hook,     \* --no-hook: live mode does not start the hook
  max_events,  \* most events live_events keeps (50000)
  MaxLive      \* bound of the model: events that arrive from each live source

ASSUME GuiAssumption ==
  /\ Count \in [Traces -> Nat]
  /\ no_hook \in BOOLEAN
  /\ max_events \in Nat \ {0} /\ MaxLive \in Nat
  /\ Traces \cap {Live, Hook, None} = {}
  /\ Live # Hook /\ None \notin {Live, Hook}

VARIABLES
  phase,             \* what render_frame() does next
  click,             \* the user's click of this frame is still to come
  trace_reader,      \* the trace loaded, or None
  trace_loaded,
  current_filename,  \* Live stands for "[Live Mode]", None for no name
  error_message,     \* "none", "warning" or "error"
  live_mode,
  live_events,       \* the events of live mode, as <<source, position>>
  live_trace_reader, \* how many events the live reader has, -1 without one
  hooked,            \* events the hook has given so far
  selected_event,    \* the application's selection, -1 without one
  widget_selected,   \* the timeline widget's selected_event_
  cached,            \* what the graph widget's cached_nodes_ were built from
  nodes_dirty,
  show_file_browser,
  zoom, scroll,      \* of the timeline: zoom in halves, scroll in quarters
  last_duration,     \* last_total_duration_ of the timeline widget
  picked             \* the event the user picked last (of the proof, not the code)

traceVars == <<trace_reader, trace_loaded, current_filename>>
liveVars == <<live_mode, live_events, live_trace_reader, hooked>>
viewVars == <<zoom, scroll, last_duration>>
graphVars == <<cached, nodes_dirty>>
selectVars == <<selected_event, widget_selected, picked>>
vars == <<phase, click, traceVars, error_message, liveVars, selectVars,
          graphVars, show_file_browser, viewVars>>

Phases == {"live", "menu", "browser", "timeline", "graph", "popup"}

\* Some zooms within the bounds of the wheel and of the slider, and some values
\* outside of them that the user may type into the sliders.
Zooms == {1, 2, 4}
TypedZooms == {-2, 0}
TypedScrolls == {-1, 9}

\* The events at the positions from .. to - 1 of a source.
Span(source, from, to) == [i \in 1 .. to - from |-> <<source, from + i - 1>>]

\* What the timeline and the graph are drawn from: the live reader in live
\* mode, once there is one, and the loaded trace otherwise.
Drawn == IF live_mode /\ live_trace_reader >= 0 THEN Live ELSE trace_reader
DrawnCount ==
  IF Drawn = Live THEN live_trace_reader
  ELSE IF Drawn = None THEN 0 ELSE Count[Drawn]

\* The events the Events tab lists and the tensor inspector looks up.
Listed ==
  IF live_mode THEN live_events
  ELSE IF trace_reader # None THEN Span(trace_reader, 0, Count[trace_reader])
  ELSE <<>>

\* The panels are drawn at all.
PanelsShown == (trace_loaded /\ trace_reader # None) \/ live_mode

-----------------------------------------------------------------------------
(* Loading and live mode *)

\* main(): an empty dashboard, live mode, or the trace of the command line,
\* whose failure only leaves a message.  The trace of --live --no-hook names
\* the file to follow and is not loaded.
Init ==
  /\ phase = "live" /\ click = TRUE
  /\ \E t \in Traces \cup {None} :
       /\ trace_reader = t
       /\ trace_loaded = (t # None)
       /\ live_mode \in (IF t = None THEN BOOLEAN ELSE {FALSE})
       /\ current_filename = (IF live_mode THEN Live ELSE t)
       /\ error_message \in (IF live_mode THEN {"none"}
                             ELSE IF t = None THEN {"none", "error"}
                             ELSE IF Count[t] = 0 THEN {"warning"} ELSE {"none"})
  /\ live_events = <<>> /\ live_trace_reader = -1 /\ hooked = 0
  /\ selected_event = -1 /\ widget_selected = -1 /\ picked = None
  /\ cached = None /\ nodes_dirty = TRUE
  /\ show_file_browser = FALSE
  /\ zoom = 2 /\ scroll = 0 /\ last_duration = 0

DisableLiveMode ==
  /\ live_mode' = FALSE
  /\ live_events' = <<>>
  /\ live_trace_reader' = -1
  /\ UNCHANGED hooked

\* Live mode is left before the file is looked at.
LeaveLiveMode == IF live_mode THEN DisableLiveMode ELSE UNCHANGED liveVars

\* Mutant of LoadFails: the reader is reset before the file is tested.
LoadFailsEmpty ==
  /\ trace_reader' = None
  /\ trace_loaded' = FALSE
  /\ error_message' = "error"
  /\ UNCHANGED <<current_filename, selected_event, show_file_browser>>

LoadFails ==
  /\ error_message' = "error"
  /\ UNCHANGED <<traceVars, selected_event, show_file_browser>>

\* A trace without events is loaded with a warning.  The browser closes.
LoadSucceeds(t) ==
  /\ trace_reader' = t
  /\ trace_loaded' = TRUE
  /\ current_filename' = t
  /\ error_message' = IF Count[t] = 0 THEN "warning" ELSE error_message
  /\ selected_event' = -1
  /\ show_file_browser' = FALSE

LoadTraceFile(file) ==
  /\ LeaveLiveMode
  /\ IF file \in Traces THEN LoadSucceeds(file) ELSE LoadFails

-----------------------------------------------------------------------------
(* The phases of render_frame() *)

Trim(events) ==
  SubSeq(events, 1 + (IF Len(events) > max_events THEN Len(events) - max_events
                      ELSE 0), Len(events))

\* How much of the followed file live_events have been given.
Seen == IF live_trace_reader < 0 THEN 0 ELSE live_trace_reader

\* update_live_data(): the hook's events first, then what is new in the file.
UpdateLiveData ==
  /\ phase = "live"
  /\ phase' = "menu" /\ click' = TRUE
  /\ \/ UNCHANGED liveVars
     \/ /\ live_mode
        /\ \E h \in hooked .. (IF no_hook THEN hooked ELSE MaxLive),
              n \in live_trace_reader .. MaxLive :
             /\ live_events' = Trim(Trim(live_events \o Span(Hook, hooked, h))
                                      \o Span(Live, Seen, n))
             /\ hooked' = h
             /\ live_trace_reader' = n
        /\ UNCHANGED live_mode
  /\ UNCHANGED <<traceVars, error_message, selectVars, graphVars,
                 show_file_browser, viewVars>>

\* The user clicks, or leaves it for a later phase.
Clicks == click /\ click' = FALSE
NoClick == UNCHANGED click

\* Mutant of CloseTrace: the reader goes and trace_loaded stays.
CloseTraceStillLoaded ==
  /\ trace_loaded
  /\ trace_reader' = None
  /\ UNCHANGED trace_loaded
  /\ current_filename' = None

\* The selections keep their values.
CloseTrace ==
  /\ trace_loaded
  /\ trace_reader' = None
  /\ trace_loaded' = FALSE
  /\ current_filename' = None

RenderMainMenuBar ==
  /\ phase = "menu" /\ phase' = "browser"
  /\ \/ NoClick /\ UNCHANGED <<traceVars, show_file_browser>>
     \/ Clicks /\ show_file_browser' = TRUE /\ UNCHANGED traceVars
     \/ Clicks /\ CloseTrace /\ UNCHANGED show_file_browser
  /\ UNCHANGED <<error_message, liveVars, selectVars, graphVars, viewVars>>

RenderFileBrowser ==
  /\ phase = "browser" /\ phase' = "timeline"
  /\ \/ /\ NoClick
        /\ UNCHANGED <<traceVars, error_message, liveVars, selected_event,
                       show_file_browser>>
     \/ /\ show_file_browser /\ Clicks
        /\ \E file \in Traces \cup Broken : LoadTraceFile(file)
     \/ /\ show_file_browser /\ Clicks
        /\ show_file_browser' = FALSE
        /\ UNCHANGED <<traceVars, error_message, liveVars, selected_event>>
  /\ UNCHANGED <<widget_selected, picked, graphVars, viewVars>>

\* No panels, or the user has hidden this one.
SkipTimeline ==
  /\ phase = "timeline" /\ phase' = "graph"
  /\ NoClick
  /\ UNCHANGED <<traceVars, error_message, liveVars, selectVars, graphVars,
                 show_file_browser, viewVars>>

\* 1 - 1 / zoom in quarters, or 0 if that is negative; with a negative zoom it
\* lies beyond the end of the trace.
MaxScroll(z) ==
  IF z > 2 THEN 4 - 8 \div z ELSE IF z < 0 THEN 4 + 8 \div (-z) ELSE 0

\* Mutant of Clamp: the two bounds are applied in the other order.
ClampSwapped(s, z) ==
  LET low == IF s < 0 THEN 0 ELSE s
  IN  IF z > 0 /\ low > 4 - 8 \div z THEN 4 - 8 \div z ELSE low

\* max(0, min(s, 1 - 1 / zoom)); the second bound is negative when zoom < 1.
Clamp(s, z) == IF s < 0 THEN 0 ELSE IF s > MaxScroll(z) THEN MaxScroll(z) ELSE s

\* The view fits all data again when the duration changes (a trace's duration
\* counts as a function of its number of events).
FitZoom == IF last_duration # DrawnCount THEN 2 ELSE zoom
FitScroll == IF last_duration # DrawnCount THEN 0 ELSE scroll
FitView == zoom' = FitZoom /\ scroll' = FitScroll /\ last_duration' = DrawnCount

\* After that the user may turn the wheel, which keeps the time under the mouse
\* in its place, or drag one of the sliders.
AdjustView ==
  /\ last_duration' = DrawnCount
  /\ \/ zoom' \in Zooms /\ scroll' = Clamp(FitScroll, zoom')
     \/ zoom' = FitZoom /\ scroll' \in 0 .. MaxScroll(FitZoom)
     \/ zoom' \in Zooms /\ \E d \in -2 .. 2 : scroll' = Clamp(FitScroll + d, zoom')

\* Ctrl+Click on a slider takes any number, as neither has the AlwaysClamp flag.
\* (One within the bounds is as good as dragged.)
TypeValue ==
  /\ last_duration' = DrawnCount
  /\ \/ zoom' \in TypedZooms /\ scroll' = Clamp(FitScroll, zoom')
     \/ zoom' = FitZoom /\ scroll' \in TypedScrolls

\* The Visual Timeline tab.  The widget's selection becomes the application's.
RenderTimeline ==
  /\ phase = "timeline" /\ phase' = "graph"
  /\ PanelsShown /\ Drawn # None
  /\ IF DrawnCount = 0
     THEN NoClick /\ UNCHANGED <<widget_selected, picked, viewVars>>
     ELSE \/ NoClick /\ FitView /\ UNCHANGED <<widget_selected, picked>>
          \/ Clicks /\ (AdjustView \/ TypeValue) /\ UNCHANGED <<widget_selected, picked>>
          \/ /\ Clicks /\ FitView
             /\ \E i \in 0 .. DrawnCount - 2 :   \* the begin of an operation
                  widget_selected' = i /\ picked' = <<Drawn, i>>
  /\ selected_event' = widget_selected'
  /\ UNCHANGED <<traceVars, error_message, liveVars, graphVars, show_file_browser>>

\* Mutant of Select: the timeline widget is not told.
SelectHere(i) == selected_event' = i /\ UNCHANGED widget_selected

Select(i) == selected_event' = i /\ widget_selected' = i

\* The Events tab.
PickListedEvent ==
  /\ phase = "timeline" /\ phase' = "graph"
  /\ PanelsShown /\ Clicks
  /\ \E i \in 1 .. Len(Listed) : Select(i - 1) /\ picked' = Listed[i]
  /\ UNCHANGED <<traceVars, error_message, liveVars, graphVars,
                 show_file_browser, viewVars>>

\* No panels, the graph is hidden, or it has no data.
SkipGraph ==
  /\ phase = "graph" /\ phase' = "popup"
  /\ NoClick
  /\ UNCHANGED <<traceVars, error_message, liveVars, selectVars, graphVars,
                 show_file_browser, viewVars>>

\* The nodes are built when nodes_dirty_ is set, which it is only at first.
RenderGraph ==
  /\ phase = "graph" /\ phase' = "popup"
  /\ PanelsShown /\ DrawnCount > 0
  /\ cached' = IF nodes_dirty THEN <<Drawn, DrawnCount>> ELSE cached
  /\ nodes_dirty' = FALSE
  /\ NoClick
  /\ UNCHANGED <<traceVars, error_message, liveVars, selectVars,
                 show_file_browser, viewVars>>

\* The tensor inspector and the memory view, which change nothing, come first.
RenderErrorPopup ==
  /\ phase = "popup" /\ phase' = "live"
  /\ \/ NoClick /\ UNCHANGED error_message
     \/ Clicks /\ error_message # "none" /\ error_message' = "none"
  /\ UNCHANGED <<traceVars, liveVars, selectVars, graphVars, show_file_browser,
                 viewVars>>

Next ==
  \/ UpdateLiveData \/ RenderMainMenuBar \/ RenderFileBrowser
  \/ SkipTimeline \/ RenderTimeline \/ PickListedEvent
  \/ SkipGraph \/ RenderGraph \/ RenderErrorPopup

Spec == Init /\ [][Next]_vars

-----------------------------------------------------------------------------
(* Properties *)

\* What the tensor inspector shows.
Inspected ==
  IF selected_event \in 0 .. Len(Listed) - 1 THEN Listed[selected_event + 1]
  ELSE None

\* What is on display when an event is: a trace, or live mode.
Display(e) == IF e[1] = Hook THEN Live ELSE e[1]

\* The menu bar dereferences trace_reader whenever trace_loaded is set outside
\* live mode, and prints current_filename as its name: whatever is loaded,
\* closed or refused, the flag means a reader, of the trace named there, and
\* never together with live mode.
TraceConsistent ==
  /\ trace_loaded \in BOOLEAN /\ live_mode \in BOOLEAN
  /\ trace_loaded <=> trace_reader # None
  /\ trace_loaded => trace_reader \in Traces /\ current_filename = trace_reader
  /\ trace_loaded => ~live_mode

\* "Sync selection between timeline widget and event details" (render_timeline_
\* view): as long as the source in which the user picked an event last is on
\* display, the inspector shows that event or none, although the selection is
\* kept in two places, as a position, and the lists behind it grow.
InspectedWasPicked ==
  (/\ PanelsShown /\ Inspected # None /\ picked # None
   /\ Display(picked) = Display(Inspected)) => Inspected = picked

\* An event that was picked in one trace is not shown in another.
SelectionFollowsTrace ==
  PanelsShown /\ Inspected # None => picked = Inspected

\* A file that cannot be loaded leaves the loaded trace as it is: its reader,
\* its name and the selection.
FailedLoadKeepsTrace ==
  [][ error_message' = "error" /\ error_message # "error" =>
        UNCHANGED <<traceVars, selectVars>> ]_vars

\* The visible part of the timeline lies within the trace, and starts at its
\* start when all of it fits.
InTrace == zoom \in Zooms /\ scroll \in 0 .. MaxScroll(zoom)

\* Only a value that the user types takes the view out of the trace, whatever is
\* zoomed, scrolled and loaded; and it is back when data of another duration is
\* drawn.
ViewInTrace ==
  [][ InTrace' \/ TypeValue \/ (~InTrace /\ UNCHANGED last_duration) ]_vars

\* "Rebuild graph if needed" (GraphWidget::render): the graph that is drawn is
\* the graph of what the panel says it shows.
GraphIsCurrent == [][ RenderGraph => cached' = <<Drawn, DrawnCount>> ]_vars
=============================================================================
