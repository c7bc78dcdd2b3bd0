------------------------------ MODULE ShmRing ------------------------------
(***************************************************************************)
(* Shared-memory regions (src/ipc/ipc_common.hpp, shm_posix.cpp and        *)
(* shm_windows.cpp): a named segment with a RingHeader and a ring of       *)
(* bytes.  A process gets a region with create() or open(), calls write()  *)
(* or read() on it, and destroys it.  Every access to the header and every *)
(* byte copied is a step; the load of capacity, which create() stores      *)
(* last, goes with that of the second position.                            *)
(*                                                                         *)
(* A name can stand for one segment after another: a POSIX creator unlinks *)
(* it, on Windows it goes with the last region.  Segments are numbered in  *)
(* the order the system made them.  Nothing in src/ calls these functions  *)
(* yet, so the processes' use of them is the interface's: "single-writer/  *)
(* multi-reader".                                                          *)
(***************************************************************************)
EXTENDS Naturals, Sequences, FiniteSets

CONSTANTS
  Creators,     \* processes that call create() for the name, and write()
  Openers,      \* processes that call open() for the name, and read()
  Platforms,    \* "posix" for shm_posix.cpp, "windows" for shm_windows.cpp
  SIZE,         \* the size given to create() and open(), a power of two
  WORD,         \* 2^32, the range of uint32_t
  MaxChunk,     \* bound of the model: bytes in one call
  MaxBytes,     \* bound of the model: bytes written in a behaviour
  MaxSegments   \* bound of the model: segments made in a behaviour

Processes == Creators \cup Openers
Segments == 1 .. MaxSegments
Chunk == 1 .. MaxChunk

ASSUME SegmentAssumption ==
  /\ SIZE \in Nat \ {0} /\ WORD \in Nat /\ WORD % SIZE = 0 /\ WORD > SIZE
  /\ MaxChunk \in Nat /\ MaxBytes \in Nat /\ MaxSegments \in Nat
  /\ Platforms \subseteq {"posix", "windows"}

VARIABLES
  platform,    \* what the program is compiled for
  linked,      \* the segment the name stands for, 0 if none
  made,        \* number of segments made so far
  head, tail, capacity, bytes,  \* what is in each segment
  sized,       \* the segments that have their full size
  region,      \* the segment each process has mapped, 0 if none
  is_creator,  \* is_creator_ of each process's region (on Windows: it has
               \* set up the header)
  pc,          \* where each process is
  h, t, cap,   \* each process's copies of head, tail and capacity
  n,           \* nbytes of the process's call
  buf,         \* the bytes of the process's call copied so far
  count,       \* number of bytes handed to write() so far
  sent, received  \* history: bytes written to and read from each segment

segment == <<head, tail, capacity, bytes>>
owner   == <<platform, linked, made, sized, region, is_creator>>
args    == <<h, t, cap, n, buf, count>>
history == <<sent, received>>
vars    == <<platform, linked, made, head, tail, capacity, bytes, sized, region,
             is_creator, pc, h, t, cap, n, buf, count, sent, received>>

\* x & (c - 1) on uint32_t; a capacity of 0 gives a mask of all ones.
Mask(x, c) == IF c = 0 THEN x % WORD ELSE x % c

FreeSpace(hd, tl, c) == Mask(tl + c + WORD - hd - 1, c)
Available(hd, tl, c) == Mask(hd + c + WORD - tl, c)

Goto(p, from, to) == pc[p] = from /\ pc' = [pc EXCEPT ![p] = to]

Windows == platform = "windows"

Init ==
  /\ platform \in Platforms
  /\ linked = 0 /\ made = 0 /\ sized = {}
  /\ head = [s \in Segments |-> 0]
  /\ tail = [s \in Segments |-> 0]
  /\ capacity = [s \in Segments |-> 0]
  /\ bytes = [s \in Segments |-> [i \in 0 .. SIZE-1 |-> 0]]
  /\ region = [p \in Processes |-> 0]
  /\ is_creator = [p \in Processes |-> FALSE]
  /\ pc = [p \in Processes |-> "idle"]
  /\ h = [p \in Processes |-> 0]
  /\ t = [p \in Processes |-> 0]
  /\ cap = [p \in Processes |-> 0]
  /\ n = [p \in Processes |-> 0]
  /\ buf = [p \in Processes |-> <<>>]
  /\ count = 0
  /\ sent = [s \in Segments |-> <<>>]
  /\ received = [s \in Segments |-> <<>>]

-----------------------------------------------------------------------------
(* createImpl *)

\* The system finds the segment of the name, or makes one, all zeros.
Attach(p) ==
  /\ region[p] = 0
  /\ IF linked = 0
     THEN /\ made < MaxSegments
          /\ made' = made + 1
          /\ linked' = made + 1
     ELSE UNCHANGED <<made, linked>>
  /\ region' = [region EXCEPT ![p] = linked']

\* shm_open(O_CREAT | O_RDWR)
ShmOpen(p) ==
  /\ ~Windows
  /\ Goto(p, "idle", "n_size")
  /\ Attach(p)
  /\ UNCHANGED <<platform, segment, sized, is_creator, args, history>>

Truncate(p) ==
  /\ Goto(p, "n_size", "n_head")
  /\ sized' = sized \cup {region[p]}
  /\ UNCHANGED <<platform, linked, made, region, is_creator, segment, args, history>>

\* ftruncate or mmap fails: the name is unlinked, whoever made the segment.
CreateFails(p) ==
  /\ ~Windows
  /\ pc[p] \in {"n_size", "n_head"}
  /\ pc' = [pc EXCEPT ![p] = "idle"]
  /\ region' = [region EXCEPT ![p] = 0]
  /\ linked' = 0
  /\ UNCHANGED <<platform, made, sized, is_creator, segment, args, history>>

\* CreateFileMapping makes the segment with its size; the header of one that
\* existed is left alone.
CreateMapping(p) ==
  /\ Windows
  /\ Goto(p, "idle", IF linked = 0 THEN "n_head" ELSE "idle")
  /\ Attach(p)
  /\ sized' = sized \cup {linked'}
  /\ UNCHANGED <<platform, is_creator, segment, args, history>>

InitHead(p) ==
  /\ Goto(p, "n_head", "n_tail")
  /\ head' = [head EXCEPT ![region[p]] = 0]
  /\ UNCHANGED <<tail, capacity, bytes, owner, args, history>>

InitTail(p) ==
  /\ Goto(p, "n_tail", "n_capacity")
  /\ tail' = [tail EXCEPT ![region[p]] = 0]
  /\ UNCHANGED <<head, capacity, bytes, owner, args, history>>

InitCapacity(p) ==
  /\ Goto(p, "n_capacity", "idle")
  /\ capacity' = [capacity EXCEPT ![region[p]] = SIZE]
  /\ is_creator' = [is_creator EXCEPT ![p] = TRUE]
  /\ UNCHANGED <<platform, head, tail, bytes, linked, made, sized, region, args, history>>

\* open(): shm_open without O_CREAT throws when there is no segment;
\* CreateFileMapping makes one, and never reports ERROR_FILE_NOT_FOUND.
Open(p) ==
  /\ pc[p] = "idle"
  /\ Windows \/ linked # 0
  /\ Attach(p)
  /\ sized' = IF Windows THEN sized \cup {linked'} ELSE sized
  /\ UNCHANGED <<platform, pc, is_creator, segment, args, history>>

\* Mutant of Destroy: every region unlinks the name.
DestroyUnlinks(p) ==
  /\ pc[p] = "idle"
  /\ region[p] # 0
  /\ region' = [region EXCEPT ![p] = 0]
  /\ is_creator' = [is_creator EXCEPT ![p] = FALSE]
  /\ linked' = 0
  /\ UNCHANGED <<platform, made, sized, pc, segment, args, history>>

\* The destructor.  The creator's unlinks the name, whatever it stands for
\* now; on Windows the segment goes with its last region.
Destroy(p) ==
  /\ pc[p] = "idle"
  /\ region[p] # 0
  /\ region' = [region EXCEPT ![p] = 0]
  /\ is_creator' = [is_creator EXCEPT ![p] = FALSE]
  /\ LET last == \A q \in Processes \ {p} : region[q] # linked
     IN  linked' = IF Windows THEN (IF last THEN 0 ELSE linked)
                   ELSE IF is_creator[p] THEN 0 ELSE linked
  /\ UNCHANGED <<platform, made, sized, pc, segment, args, history>>

-----------------------------------------------------------------------------
(* write() *)

BeginWrite(p, k) ==
  /\ region[p] # 0
  /\ Goto(p, "idle", "w_head")
  /\ count + k <= MaxBytes
  /\ count' = count + k
  /\ n' = [n EXCEPT ![p] = k]
  /\ buf' = [buf EXCEPT ![p] = <<>>]
  /\ UNCHANGED <<segment, owner, h, t, cap, history>>

WriteLoadHead(p) ==
  /\ Goto(p, "w_head", "w_tail")
  /\ region[p] \in sized
  /\ h' = [h EXCEPT ![p] = head[region[p]]]
  /\ UNCHANGED <<segment, owner, t, cap, n, buf, count, history>>

\* Mutant of WriteLoadTail: the free space is compared the wrong way round
\* at the boundary, as if the ring could be filled to the last byte.
FreeByOneMore(p) ==
  LET s == region[p] IN
  /\ Goto(p, "w_tail",
          IF n[p] > FreeSpace(h[p], tail[s], capacity[s]) + 1
          THEN "idle" ELSE "w_copy")
  /\ t' = [t EXCEPT ![p] = tail[s]]
  /\ cap' = [cap EXCEPT ![p] = capacity[s]]
  /\ UNCHANGED <<segment, owner, h, n, buf, count, history>>

WriteLoadTail(p) ==
  LET s == region[p] IN
  /\ Goto(p, "w_tail",
          IF n[p] > FreeSpace(h[p], tail[s], capacity[s]) THEN "idle" ELSE "w_copy")
  /\ t' = [t EXCEPT ![p] = tail[s]]
  /\ cap' = [cap EXCEPT ![p] = capacity[s]]
  /\ UNCHANGED <<segment, owner, h, n, buf, count, history>>

\* The bytes of a call are numbered up to count in the order they are handed
\* to write(); there is one writer.
WriteByte(p) ==
  LET i == Len(buf[p])
      b == count - n[p] + i + 1
  IN
  /\ pc[p] = "w_copy"
  /\ i < n[p]
  /\ Mask(h[p] + i, cap[p]) < SIZE
  /\ bytes' = [bytes EXCEPT ![region[p]][Mask(h[p] + i, cap[p])] = b]
  /\ buf' = [buf EXCEPT ![p] = Append(@, b)]
  /\ UNCHANGED <<head, tail, capacity, owner, pc, h, t, cap, n, count, history>>

WriteStoreHead(p) ==
  /\ Goto(p, "w_copy", "idle")
  /\ Len(buf[p]) = n[p]
  /\ head' = [head EXCEPT ![region[p]] = Mask(h[p] + n[p], cap[p])]
  /\ sent' = [sent EXCEPT ![region[p]] = @ \o buf[p]]
  /\ UNCHANGED <<tail, capacity, bytes, owner, args, received>>

-----------------------------------------------------------------------------
(* read() *)

BeginRead(p, k) ==
  /\ region[p] # 0
  /\ Goto(p, "idle", "r_head")
  /\ n' = [n EXCEPT ![p] = k]
  /\ buf' = [buf EXCEPT ![p] = <<>>]
  /\ UNCHANGED <<segment, owner, h, t, cap, count, history>>

ReadLoadHead(p) ==
  /\ Goto(p, "r_head", "r_tail")
  /\ region[p] \in sized
  /\ h' = [h EXCEPT ![p] = head[region[p]]]
  /\ UNCHANGED <<segment, owner, t, cap, n, buf, count, history>>

ReadLoadTail(p) ==
  LET s == region[p] IN
  /\ Goto(p, "r_tail",
          IF n[p] > Available(h[p], tail[s], capacity[s]) THEN "idle" ELSE "r_copy")
  /\ t' = [t EXCEPT ![p] = tail[s]]
  /\ cap' = [cap EXCEPT ![p] = capacity[s]]
  /\ UNCHANGED <<segment, owner, h, n, buf, count, history>>

ReadByte(p) ==
  LET i == Len(buf[p]) IN
  /\ pc[p] = "r_copy"
  /\ i < n[p]
  /\ buf' = [buf EXCEPT ![p] = Append(@, bytes[region[p]][Mask(t[p] + i, cap[p])])]
  /\ UNCHANGED <<segment, owner, pc, h, t, cap, n, count, history>>

ReadStoreTail(p) ==
  /\ Goto(p, "r_copy", "idle")
  /\ Len(buf[p]) = n[p]
  /\ tail' = [tail EXCEPT ![region[p]] = Mask(t[p] + n[p], cap[p])]
  /\ received' = [received EXCEPT ![region[p]] = @ \o buf[p]]
  /\ UNCHANGED <<head, capacity, bytes, owner, args, sent>>

\* The process dies: it touches a segment that has no size yet, or writes past
\* the end of one whose capacity is still 0.
Fault(p) ==
  /\ \/ pc[p] \in {"w_head", "r_head"} /\ region[p] \notin sized
     \/ /\ pc[p] = "w_copy"
        /\ Len(buf[p]) < n[p]
        /\ Mask(h[p] + Len(buf[p]), cap[p]) >= SIZE
  /\ pc' = [pc EXCEPT ![p] = "fault"]
  /\ UNCHANGED <<segment, owner, args, history>>

-----------------------------------------------------------------------------
CreateSteps(p) ==
  \/ ShmOpen(p) \/ CreateMapping(p) \/ Truncate(p) \/ CreateFails(p)
  \/ InitHead(p) \/ InitTail(p) \/ InitCapacity(p)

WriteSteps(p) ==
  \/ WriteLoadHead(p) \/ WriteLoadTail(p) \/ WriteByte(p) \/ WriteStoreHead(p)

ReadSteps(p) ==
  \/ ReadLoadHead(p) \/ ReadLoadTail(p) \/ ReadByte(p) \/ ReadStoreTail(p)

Next ==
  \/ \E p \in Creators : \/ CreateSteps(p)
                         \/ \E k \in Chunk : BeginWrite(p, k)
                         \/ WriteSteps(p)
  \/ \E p \in Openers : \/ Open(p)
                        \/ \E k \in Chunk : BeginRead(p, k)
                        \/ ReadSteps(p)
  \/ \E p \in Processes : Destroy(p) \/ Fault(p)

Spec == Init /\ [][Next]_vars

-----------------------------------------------------------------------------
(* Properties *)

\* Every variable has its type; on POSIX tail stays inside the ring.
TypeOK ==
  /\ linked \in 0 .. MaxSegments /\ made \in 0 .. MaxSegments
  /\ sized \subseteq Segments
  /\ {head, tail} \subseteq [Segments -> 0 .. WORD-1]
  /\ Windows \/ tail \in [Segments -> 0 .. SIZE-1]
  /\ capacity \in [Segments -> {0, SIZE}]
  /\ bytes \in [Segments -> [0 .. SIZE-1 -> 0 .. MaxBytes]]
  /\ region \in [Processes -> 0 .. MaxSegments]
  /\ is_creator \in [Processes -> BOOLEAN]

\* On POSIX, with one writer and one reader, every segment is a bounded stream
\* of bytes, also when the reader opens it before the writer has set up the
\* header.
Stream(s) == INSTANCE ByteStream WITH
               Byte     <- 1 .. MaxBytes,
               Capacity <- SIZE - 1,
               sent     <- sent[s],
               received <- received[s]
StreamSpec ==
  /\ \A s \in Segments : Stream(s)!Init
  /\ [][ Windows \/ \A s \in Segments : [Stream(s)!Next]_(Stream(s)!vars) ]_history

\* The readers of a segment together receive its bytes once and in order
\* (ipc_common.hpp: "lock-free single-writer/multi-reader design").
BytesInOrder ==
  \A s \in Segments :
    /\ Len(received[s]) <= Len(sent[s])
    /\ \A i \in 1 .. Len(received[s]) : received[s][i] = sent[s][i]

\* While the only creator has its region, the name leads to it: readers that
\* come and go do not take the name away.
NameKept ==
  \A p \in Processes : is_creator[p] => linked = region[p]

\* open() throws "shared-memory segment doesn't exist" unless a creator made
\* the segment (shm_windows.cpp).
OpenedWasCreated ==
  \A p \in Openers : region[p] # 0 =>
    \/ capacity[region[p]] # 0
    \/ \E q \in Creators : region[q] = region[p]
=============================================================================
