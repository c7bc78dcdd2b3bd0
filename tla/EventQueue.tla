----------------------------- MODULE EventQueue -----------------------------
(***************************************************************************)
(* What the event buffer of GGMLHook promises to its two sides: a bounded  *)
(* first-in first-out queue that loses events only by refusing them when   *)
(* it is full.  The promise is that of docs/RING_BUFFER_ANALYSIS.md,       *)
(* sections 3 and 5: the model thread never waits ("when full, producer    *)
(* increments dropped_events and skips"), unread events are not            *)
(* overwritten, and the consumer sees whole events.                        *)
(*                                                                         *)
(* The state is the stream of all events the queue took, the stream of all *)
(* events it handed out, and the number it refused.                        *)
(***************************************************************************)
EXTENDS Naturals, Sequences

CONSTANTS
  Event,     \* the events
  Capacity   \* how many events the queue can hold

VARIABLES
  accepted,  \* the events taken, in order
  delivered, \* the events handed to a consumer, in order
  refused    \* how many events were refused

vars == <<accepted, delivered, refused>>

Pending == Len(accepted) - Len(delivered)

Init ==
  /\ accepted = <<>>
  /\ delivered = <<>>
  /\ refused = 0

Accept ==
  /\ Pending < Capacity
  /\ \E e \in Event : accepted' = Append(accepted, e)
  /\ UNCHANGED <<delivered, refused>>

Refuse ==
  /\ Pending = Capacity
  /\ refused' = refused + 1
  /\ UNCHANGED <<accepted, delivered>>

\* A consumer takes everything up to the n-th event of the stream.
Deliver ==
  /\ \E n \in Len(delivered)+1 .. Len(accepted) :
       delivered' = SubSeq(accepted, 1, n)
  /\ UNCHANGED <<accepted, refused>>

Next == Accept \/ Refuse \/ Deliver

Spec == Init /\ [][Next]_vars
=============================================================================
