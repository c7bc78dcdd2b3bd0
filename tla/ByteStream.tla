----------------------------- MODULE ByteStream -----------------------------
(***************************************************************************)
(* What a shared-memory region promises to its writer and its reader       *)
(* (src/ipc/ipc_common.hpp): a bounded stream of bytes.  write() puts all  *)
(* of its bytes in or none, read() takes all it was asked for or none, and *)
(* the bytes come out once, in the order they went in.                     *)
(***************************************************************************)
EXTENDS Naturals, Sequences

CONSTANTS
  Byte,      \* the bytes
  Capacity,  \* how many unread bytes the stream can hold
  MaxChunk   \* most bytes in one call

VARIABLES
  sent,      \* the bytes of all successful write() calls
  received   \* the bytes of all successful read() calls

vars == <<sent, received>>

Chunks == UNION {[1 .. n -> Byte] : n \in 1 .. MaxChunk}

Init == sent = <<>> /\ received = <<>>

Send ==
  /\ \E c \in Chunks : /\ Len(sent) + Len(c) - Len(received) <= Capacity
                       /\ sent' = sent \o c
  /\ UNCHANGED received

Receive ==
  /\ \E n \in 1 .. MaxChunk :
       /\ Len(received) + n <= Len(sent)
       /\ received' = SubSeq(sent, 1, Len(received) + n)
  /\ UNCHANGED sent

Next == Send \/ Receive

Spec == Init /\ [][Next]_vars
=============================================================================
