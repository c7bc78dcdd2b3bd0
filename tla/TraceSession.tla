---------------------------- MODULE TraceSession ----------------------------
(***************************************************************************)
(* What the trace file of GGMLHook promises to whoever reads it, during a  *)
(* session ("the GUI polls the trace file", README.md, live monitoring)    *)
(* and after it ("Destructor flushes data", ggml_hook.hpp): the file is    *)
(* the beginning of what was recorded in the session, it only grows until  *)
(* the next session opens it anew, and when it is closed it lacks a few    *)
(* events at most, however many were recorded.                             *)
(*                                                                         *)
(* The state is the stream of the events recorded in this session, the     *)
(* events in the file, and whether the file is open.                       *)
(***************************************************************************)
EXTENDS Naturals, Sequences

CONSTANTS
  Event,     \* the events
  Late       \* how many events the file may lack in the end

VARIABLES
  recorded,  \* the events of this session, in order
  saved,     \* the events in the file, in order
  open       \* the file is open

vars == <<recorded, saved, open>>

\* The file is the beginning of this session.
Current ==
  /\ Len(saved) <= Len(recorded)
  /\ saved = SubSeq(recorded, 1, Len(saved))

Init ==
  /\ recorded = <<>>
  /\ saved = <<>>
  /\ open = FALSE

\* The last session is over: its events are forgotten, its file stays.
Forget ==
  /\ ~open
  /\ recorded' = <<>>
  /\ UNCHANGED <<saved, open>>

\* A new session empties the file.
Open ==
  /\ ~open
  /\ recorded = <<>>
  /\ saved' = <<>>
  /\ open' = TRUE
  /\ UNCHANGED recorded

\* An event is recorded, into an open file or too late for it.
Record ==
  /\ Current
  /\ open \/ Len(recorded) < Len(saved) + Late
  /\ \E e \in Event : recorded' = Append(recorded, e)
  /\ UNCHANGED <<saved, open>>

\* The file takes everything up to the n-th event of the session.
Save ==
  /\ open
  /\ \E n \in Len(saved)+1 .. Len(recorded) : saved' = SubSeq(recorded, 1, n)
  /\ UNCHANGED <<recorded, open>>

Close ==
  /\ open
  /\ Current
  /\ Len(recorded) <= Len(saved) + Late
  /\ open' = FALSE
  /\ UNCHANGED <<recorded, saved>>

Next == Forget \/ Open \/ Record \/ Save \/ Close

Spec == Init /\ [][Next]_vars
=============================================================================
