---------------------------- MODULE ShmRing_proofs ----------------------------
(***************************************************************************)
(* Proofs about ShmRing with one writer, for every size of the ring, every *)
(* number of segments made under the name, and, where it says so, for one  *)
(* reader or any number of them.                                           *)
(***************************************************************************)
EXTENDS ShmRing, Integers, SequenceTheorems, TLAPS

CreatePC == {"n_size", "n_head", "n_tail", "n_capacity"}
WritePC == {"w_head", "w_tail", "w_copy"}
ReadPC == {"r_head", "r_tail", "r_copy"}
Byte == 1 .. MaxBytes

\* The name stands for the segment its creator has mapped from the moment that
\* has been found or made until the region is destroyed.
NameInv(w) ==
  /\ made \in 0 .. MaxSegments /\ linked \in 0 .. made
  /\ region \in [Processes -> 0 .. made]
  /\ is_creator \in [Processes -> BOOLEAN]
  /\ DOMAIN pc = Processes
  /\ pc[w] \in {"idle", "fault"} \cup CreatePC \cup WritePC
  /\ \A p \in Openers : /\ pc[p] \in {"idle", "fault"} \cup ReadPC
                        /\ ~is_creator[p]
  /\ pc[w] \in CreatePC => ~is_creator[w]
  /\ pc[w] \in CreatePC \/ is_creator[w] => region[w] = linked /\ linked # 0

\* On POSIX a segment is set up once: the creator is the first to map it, and
\* has set up the one it writes to.
SetUpInv(w) ==
  /\ linked # 0 => region[w] = linked
  /\ pc[w] \in WritePC \/ (pc[w] = "idle" /\ region[w] # 0) => is_creator[w]
  /\ \A p \in Openers : pc[p] \in ReadPC => region[p] # 0
  /\ capacity \in [Segments -> {0, SIZE}]
  /\ \A s \in Segments : s > made => capacity[s] = 0
  /\ pc[w] \in CreatePC => capacity[region[w]] = 0
  /\ is_creator[w] => capacity[region[w]] = SIZE

DataTypes ==
  /\ head \in [Segments -> Nat] /\ tail \in [Segments -> Nat]
  /\ bytes \in [Segments -> [0 .. SIZE-1 -> Nat]]
  /\ sent \in [Segments -> Seq(Byte)] /\ received \in [Segments -> Seq(Byte)]
  /\ h \in [Processes -> Nat] /\ t \in [Processes -> Nat]
  /\ cap \in [Processes -> {0, SIZE}]
  /\ n \in [Processes -> 0 .. MaxChunk]
  /\ buf \in [Processes -> Seq(Nat)]
  /\ count \in 0 .. MaxBytes

\* The bytes that are sent and not yet received are in the ring, at their
\* places, and fewer than its size.
StreamInv(s) ==
  /\ Len(received[s]) <= Len(sent[s])
  /\ Len(sent[s]) < Len(received[s]) + SIZE
  /\ \A i \in 1 .. Len(received[s]) : received[s][i] = sent[s][i]
  /\ head[s] = Len(sent[s]) % SIZE
  /\ tail[s] = Len(received[s]) % SIZE
  /\ \A i \in Len(received[s]) + 1 .. Len(sent[s]) :
       bytes[s][(i - 1) % SIZE] = sent[s][i]
  /\ capacity[s] = 0 => sent[s] = <<>>

\* What the writer has copied is behind what is sent, where there is room.
WriterKnows(w) ==
  LET s == region[w] IN
  /\ pc[w] \in WritePC => n[w] > 0 /\ n[w] <= count
  /\ pc[w] \in {"w_head", "w_tail"} => buf[w] = <<>>
  /\ pc[w] \in {"w_tail", "w_copy"} => h[w] = head[s]
  /\ pc[w] = "w_copy" =>
       /\ cap[w] = SIZE
       /\ Len(buf[w]) <= n[w]
       /\ Len(sent[s]) + n[w] < Len(received[s]) + SIZE
       /\ \A j \in 1 .. Len(buf[w]) :
            /\ buf[w][j] \in Byte
            /\ bytes[s][(Len(sent[s]) + j - 1) % SIZE] = buf[w][j]

\* What the reader has copied comes next in what is sent; the head it has
\* loaded was one of the places since.
ReaderKnows(r) ==
  LET s == region[r] IN
  /\ pc[r] \in ReadPC => n[r] > 0
  /\ pc[r] \in {"r_head", "r_tail"} => buf[r] = <<>>
  /\ pc[r] = "r_tail" =>
       \E i \in Len(received[s]) .. Len(sent[s]) : h[r] = i % SIZE
  /\ pc[r] = "r_copy" =>
       /\ cap[r] = SIZE
       /\ t[r] = tail[s]
       /\ Len(buf[r]) <= n[r]
       /\ Len(received[s]) + n[r] <= Len(sent[s])
       /\ \A j \in 1 .. Len(buf[r]) : buf[r][j] = sent[s][Len(received[s]) + j]

-----------------------------------------------------------------------------
(* Remainders, of any positive modulus. *)

LEMMA Quotient ==
  ASSUME NEW a \in Int, NEW m \in Nat \ {0}
  PROVE  a % m \in 0 .. m-1 /\ \E q \in Int : a = m * q + (a % m)
<1>1. a % m \in 0 .. m-1 /\ a \div m \in Int /\ a = m * (a \div m) + (a % m)
  OBVIOUS
<1> QED
  BY <1>1

\* The quotient and the remainder are the only ones.
LEMMA Remainder ==
  ASSUME NEW m \in Nat \ {0}, NEW q \in Int, NEW r \in 0 .. m-1,
         NEW a \in Int, a = m * q + r
  PROVE  a % m = r
<1> DEFINE b == a % m
<1>1. PICK p \in Int : b \in 0 .. m-1 /\ a = m * p + b
  BY Quotient
<1> HIDE DEF b
<1> DEFINE d == p - q
<1>2. d \in Int /\ m * d = r - b
  BY <1>1
<1> HIDE DEF d
<1>3. CASE d <= -1
  BY <1>1, <1>2, <1>3
<1>4. CASE d >= 1
  BY <1>1, <1>2, <1>4
<1>5. CASE d = 0
  BY <1>1, <1>2, <1>5 DEF b
<1>6. d <= -1 \/ d = 0 \/ d >= 1
  BY <1>2
<1> QED
  BY <1>3, <1>4, <1>5, <1>6

\* Whole turns make no difference.
LEMMA WholeTurns ==
  ASSUME NEW a \in Int, NEW k \in Int, NEW m \in Nat \ {0}
  PROVE  (a + m * k) % m = a % m
<1> DEFINE r == a % m
           b == a + m * k
<1>1. PICK q \in Int : r \in 0 .. m-1 /\ a = m * q + r
  BY Quotient
<1> HIDE DEF r
<1> DEFINE p == q + k
<1>2. p \in Int /\ m * p = m * q + m * k /\ m * k \in Int
  BY <1>1
<1>3. b \in Int /\ b = m * p + r
  BY <1>1, <1>2
<1> HIDE DEF b, p
<1>4. b % m = r
  BY <1>1, <1>2, <1>3, Remainder
<1> QED
  BY <1>4 DEF b, r

\* A remainder can stand for its number in a sum.
LEMMA SumOfRemainder ==
  ASSUME NEW a \in Int, NEW b \in Int, NEW m \in Nat \ {0}
  PROVE  ((a % m) + b) % m = (a + b) % m
<1> DEFINE r == a % m
<1>1. PICK q \in Int : r \in 0 .. m-1 /\ a = m * q + r
  BY Quotient
<1> HIDE DEF r
<1> DEFINE c == r + b
<1>2. c \in Int /\ a + b = c + m * q
  BY <1>1
<1> HIDE DEF c
<1>3. (c + m * q) % m = c % m
  BY <1>1, <1>2, WholeTurns
<1> QED
  BY <1>2, <1>3 DEF c, r

\* Different numbers less than a turn apart have different remainders.
LEMMA DistinctRemainders ==
  ASSUME NEW m \in Nat \ {0}, NEW i \in Int, NEW j \in Int, i < j, j < i + m
  PROVE  i % m # j % m
<1> DEFINE a == i % m
           b == j % m
<1>1. PICK p \in Int : i = m * p + a
  BY Quotient
<1>2. PICK q \in Int : j = m * q + b
  BY Quotient
<1>3. a \in Int /\ b \in Int
  BY Quotient
<1> HIDE DEF a, b
<1>4. SUFFICES ASSUME a = b
               PROVE  FALSE
  BY DEF a, b
<1> DEFINE d == q - p
<1>5. d \in Int /\ j - i = m * d
  BY <1>1, <1>2, <1>3, <1>4
<1> HIDE DEF d
<1>6. CASE d <= 0
  BY <1>5, <1>6
<1>7. CASE d >= 1
  BY <1>5, <1>7
<1> QED
  BY <1>5, <1>6, <1>7

-----------------------------------------------------------------------------
(* The two spaces. *)

\* The room of a ring with a - b unread bytes: one byte stays free.
LEMMA FreeIs ==
  ASSUME NEW a \in Nat, NEW b \in Nat, b <= a, a < b + SIZE
  PROVE  FreeSpace(a % SIZE, b % SIZE, SIZE) = SIZE - 1 - (a - b)
<1> DEFINE hd == a % SIZE
           tl == b % SIZE
           left == SIZE - 1 - (a - b)
<1>1. /\ SIZE \in Nat \ {0} /\ WORD \in Int /\ WORD % SIZE = 0
      /\ a \in Int /\ b \in Int /\ SIZE \in Int
  BY SegmentAssumption
<1>2. PICK qa \in Int : hd \in 0 .. SIZE-1 /\ a = SIZE * qa + hd
  BY <1>1, Quotient
<1>3. PICK qb \in Int : tl \in 0 .. SIZE-1 /\ b = SIZE * qb + tl
  BY <1>1, Quotient
<1>4. PICK k \in Int : WORD = SIZE * k + 0
  BY <1>1, Quotient
<1> HIDE DEF hd, tl
<1> DEFINE q == k + qa - qb
           x == tl + SIZE + WORD - hd - 1
<1>5. q \in Int /\ left \in 0 .. SIZE-1 /\ x \in Int /\ x = SIZE * q + left
  <2> DEFINE ma == SIZE * qa
             mb == SIZE * qb
             mk == SIZE * k
  <2>1. ma \in Int /\ mb \in Int /\ mk \in Int /\ SIZE * q = mk + ma - mb
    BY <1>1, <1>2, <1>3, <1>4
  <2> HIDE DEF ma, mb, mk, q
  <2>2. a = ma + hd /\ b = mb + tl /\ WORD = mk
    BY <1>1, <1>2, <1>3, <1>4 DEF ma, mb, mk
  <2>3. hd \in Int /\ tl \in Int
    BY <1>2, <1>3
  <2>4. left \in 0 .. SIZE-1 /\ x \in Int /\ left \in Int
    BY <1>1, <2>3
  <2>5. x = mk + ma - mb + left
    BY <1>1, <2>1, <2>2, <2>3
  <2>6. q \in Int
    BY DEF q
  <2> QED
    BY <2>1, <2>4, <2>5, <2>6
<1> HIDE DEF q, left, x
<1>6. x % SIZE = left
  BY <1>1, <1>5, Remainder
<1>7. FreeSpace(hd, tl, SIZE) = x % SIZE
  BY <1>1 DEF FreeSpace, Mask, x
<1> QED
  BY <1>6, <1>7 DEF hd, tl, left

\* What there is to read of a ring with a - b unread bytes.
LEMMA AvailableIs ==
  ASSUME NEW a \in Nat, NEW b \in Nat, b <= a, a < b + SIZE
  PROVE  Available(a % SIZE, b % SIZE, SIZE) = a - b
<1> DEFINE hd == a % SIZE
           tl == b % SIZE
           there == a - b
<1>1. /\ SIZE \in Nat \ {0} /\ WORD \in Int /\ WORD % SIZE = 0
      /\ a \in Int /\ b \in Int /\ SIZE \in Int
  BY SegmentAssumption
<1>2. PICK qa \in Int : hd \in 0 .. SIZE-1 /\ a = SIZE * qa + hd
  BY <1>1, Quotient
<1>3. PICK qb \in Int : tl \in 0 .. SIZE-1 /\ b = SIZE * qb + tl
  BY <1>1, Quotient
<1>4. PICK k \in Int : WORD = SIZE * k + 0
  BY <1>1, Quotient
<1> HIDE DEF hd, tl
<1> DEFINE q == 1 + k + qb - qa
           x == hd + SIZE + WORD - tl
<1>5. q \in Int /\ there \in 0 .. SIZE-1 /\ x \in Int /\ x = SIZE * q + there
  <2> DEFINE ma == SIZE * qa
             mb == SIZE * qb
             mk == SIZE * k
  <2>1. ma \in Int /\ mb \in Int /\ mk \in Int /\ SIZE * q = SIZE + mk + mb - ma
    BY <1>1, <1>2, <1>3, <1>4
  <2> HIDE DEF ma, mb, mk, q
  <2>2. a = ma + hd /\ b = mb + tl /\ WORD = mk
    BY <1>1, <1>2, <1>3, <1>4 DEF ma, mb, mk
  <2>3. hd \in Int /\ tl \in Int
    BY <1>2, <1>3
  <2> QED
    BY <1>1, <2>1, <2>2, <2>3 DEF q
<1> HIDE DEF q, there, x
<1>6. x % SIZE = there
  BY <1>1, <1>5, Remainder
<1>7. Available(hd, tl, SIZE) = x % SIZE
  BY <1>1 DEF Available, Mask, x
<1> QED
  BY <1>6, <1>7 DEF hd, tl, there

\* There is nothing to read of a segment whose header is still all zeros.
LEMMA NothingAvailable == Available(0, 0, 0) = 0
<1>1. WORD \in Nat \ {0}
  BY SegmentAssumption
<1>2. WORD % WORD = 0
  BY <1>1, Remainder
<1>3. 0 + 0 + WORD - 0 = WORD
  BY <1>1
<1> QED
  BY <1>2, <1>3 DEF Available, Mask

\* The place in the ring of the byte that comes i bytes after a position.
LEMMA PlaceIs ==
  ASSUME NEW a \in Nat, NEW i \in Nat
  PROVE  Mask((a % SIZE) + i, SIZE) = (a + i) % SIZE /\ (a + i) % SIZE \in 0 .. SIZE-1
<1>1. SIZE \in Nat \ {0}
  BY SegmentAssumption
<1>2. Mask((a % SIZE) + i, SIZE) = ((a % SIZE) + i) % SIZE
  BY <1>1 DEF Mask
<1>3. a \in Int /\ i \in Int /\ a + i \in Int
  OBVIOUS
<1>4. ((a % SIZE) + i) % SIZE = (a + i) % SIZE
  BY <1>1, <1>3, SumOfRemainder
<1>5. (a + i) % SIZE \in 0 .. SIZE-1
  BY <1>1, <1>3, Quotient
<1> QED
  BY <1>2, <1>4, <1>5

-----------------------------------------------------------------------------
(* The name. *)

\* One process creates; it opens nothing.
SingleWriter(w) == Creators = {w} /\ w \notin Openers

LEMMA NameInit ==
  ASSUME NEW w, SingleWriter(w), Init
  PROVE  NameInv(w)
BY SegmentAssumption DEF Init, NameInv, SingleWriter, Processes, CreatePC, WritePC, ReadPC

\* A process that finds the segment of the name maps it; the others' regions
\* and the name they stand for are as they were.
LEMMA AttachStays ==
  ASSUME NEW w, SingleWriter(w), NameInv(w), NEW p \in Processes, Attach(p)
  PROVE  /\ made' \in 0 .. MaxSegments /\ linked' \in 0 .. made'
         /\ region' \in [Processes -> 0 .. made'] /\ region'[p] = linked'
         /\ linked' # 0 /\ made <= made'
         /\ \A q \in Processes \ {p} : region'[q] = region[q]
         /\ linked # 0 => linked' = linked
         /\ linked = 0 => linked' = made + 1 /\ made' = made + 1
         /\ linked # 0 => made' = made
BY SegmentAssumption DEF Attach, NameInv

LEMMA NameStays ==
  ASSUME NEW w, SingleWriter(w), NameInv(w), [Next]_vars
  PROVE  NameInv(w)'
<1> USE DEF NameInv, CreatePC, WritePC, ReadPC
<1>w. w \in Processes /\ \A p \in Openers : p \in Processes /\ p # w
  BY DEF SingleWriter, Processes
<1> DEFINE Same == UNCHANGED <<made, linked, region, is_creator>>
<1>1. CASE ShmOpen(w) \/ CreateMapping(w)
  <2>1. /\ Attach(w) /\ UNCHANGED is_creator /\ pc[w] = "idle"
        /\ \E to \in {"n_size", "n_head", "idle"} : pc' = [pc EXCEPT ![w] = to]
    BY <1>1 DEF ShmOpen, CreateMapping, Goto
  <2>2. ~is_creator[w]
    BY <2>1 DEF Attach
  <2>3. /\ made' \in 0 .. MaxSegments /\ linked' \in 0 .. made'
        /\ region' \in [Processes -> 0 .. made'] /\ region'[w] = linked' /\ linked' # 0
    BY <2>1, <1>w, AttachStays
  <2> QED
    BY <2>1, <2>2, <2>3, <1>w
<1>2. CASE Truncate(w) \/ InitHead(w) \/ InitTail(w)
  <2>1. Same /\ pc[w] \in CreatePC
        /\ \E to \in CreatePC : pc' = [pc EXCEPT ![w] = to]
    BY <1>2, <1>w DEF Truncate, InitHead, InitTail, Goto, owner
  <2> QED
    BY <2>1, <1>w
<1>3. CASE CreateFails(w)
  BY <1>3, <1>w DEF CreateFails
<1>4. CASE InitCapacity(w)
  BY <1>4, <1>w DEF InitCapacity, Goto
<1>5. ASSUME NEW p \in Openers, Open(p)
      PROVE  NameInv(w)'
  <2>1. Attach(p) /\ UNCHANGED <<is_creator, pc>>
    BY <1>5 DEF Open
  <2> QED
    BY <2>1, <1>w, AttachStays
<1>6. ASSUME NEW p \in Processes, Destroy(p)
      PROVE  NameInv(w)'
  <2>1. /\ pc[p] = "idle" /\ UNCHANGED <<made, pc>>
        /\ region' = [region EXCEPT ![p] = 0]
        /\ is_creator' = [is_creator EXCEPT ![p] = FALSE]
        /\ linked' \in {0, linked}
    BY <1>6 DEF Destroy
  <2>2. CASE p = w
    BY <2>1, <2>2, <1>w
  <2>3. CASE p # w
    <3>1. p \in Openers
      BY <2>3 DEF Processes, SingleWriter
    <3>2. region[w] = linked /\ linked # 0 => linked' = linked
      BY <1>6, <1>w, <2>3, <3>1 DEF Destroy
    <3> QED
      BY <2>1, <2>3, <3>1, <3>2, <1>w
  <2> QED
    BY <2>2, <2>3
<1>7. ASSUME (\E k \in Chunk : BeginWrite(w, k)) \/ WriteSteps(w)
      PROVE  NameInv(w)'
  <2>1. /\ Same /\ pc[w] \in {"idle"} \cup WritePC
        /\ \/ UNCHANGED pc
           \/ \E to \in {"idle"} \cup WritePC : pc' = [pc EXCEPT ![w] = to]
    BY <1>7, <1>w DEF BeginWrite, WriteSteps, WriteLoadHead, WriteLoadTail, WriteByte,
                      WriteStoreHead, Goto, owner
  <2> QED
    BY <2>1, <1>w
<1>8. ASSUME NEW p \in Openers, (\E k \in Chunk : BeginRead(p, k)) \/ ReadSteps(p)
      PROVE  NameInv(w)'
  <2>1. /\ Same
        /\ \/ UNCHANGED pc
           \/ \E to \in {"idle"} \cup ReadPC : pc' = [pc EXCEPT ![p] = to]
    BY <1>8, <1>w DEF BeginRead, ReadSteps, ReadLoadHead, ReadLoadTail, ReadByte,
                      ReadStoreTail, Goto, owner
  <2> QED
    BY <2>1, <1>w
<1>9. ASSUME NEW p \in Processes, Fault(p)
      PROVE  NameInv(w)'
  <2>1. Same /\ pc' = [pc EXCEPT ![p] = "fault"]
    BY <1>9 DEF Fault, owner
  <2>2. pc'[w] \in {pc[w], "fault"} /\ \A q \in Openers : pc'[q] \in {pc[q], "fault"}
    BY <2>1, <1>w
  <2> QED
    BY <2>1, <2>2, <1>w
<1>10. CASE UNCHANGED vars
  BY <1>10 DEF vars
<1> QED
  BY <1>1, <1>2, <1>3, <1>4, <1>5, <1>6, <1>7, <1>8, <1>9, <1>10
     DEF Next, CreateSteps, SingleWriter

\* While the only creator has its region, the name leads to it, on either
\* platform, with any number of readers that come and go.
THEOREM NameCorrect ==
  ASSUME NEW w, SingleWriter(w)
  PROVE  Spec => []NameKept
<1>1. Init => NameInv(w)
  BY NameInit
<1>2. NameInv(w) /\ [Next]_vars => NameInv(w)'
  BY NameStays
<1>3. NameInv(w) => NameKept
  <2> SUFFICES ASSUME NameInv(w), NEW p \in Processes, is_creator[p]
               PROVE  linked = region[p]
    BY DEF NameKept
  <2>1. p = w
    BY DEF NameInv, SingleWriter, Processes
  <2> QED
    BY <2>1 DEF NameInv
<1> QED
  BY <1>1, <1>2, <1>3, PTL DEF Spec

-----------------------------------------------------------------------------
(* Segments on POSIX. *)

LEMMA SetUpInit ==
  ASSUME NEW w, SingleWriter(w), Init
  PROVE  SetUpInv(w)
BY SegmentAssumption DEF Init, SetUpInv, SingleWriter, Processes, CreatePC, WritePC, ReadPC

\* The creator makes a segment of its own: nothing else makes one, and its
\* region is gone when the name is.
LEMMA SetUpStays ==
  ASSUME NEW w, SingleWriter(w), ~Windows, NameInv(w), NameInv(w)', SetUpInv(w), [Next]_vars
  PROVE  SetUpInv(w)'
<1> USE DEF SetUpInv, CreatePC, WritePC, ReadPC
<1>w. /\ w \in Processes /\ \A p \in Openers : p \in Processes /\ p # w
      /\ DOMAIN pc = Processes /\ region \in [Processes -> 0 .. made]
      /\ is_creator \in [Processes -> BOOLEAN]
      /\ made \in 0 .. MaxSegments /\ linked \in 0 .. made
      /\ MaxSegments \in Nat /\ SIZE \in Nat \ {0}
  BY SegmentAssumption DEF SingleWriter, Processes, NameInv
<1> DEFINE Same == UNCHANGED <<made, linked, region, is_creator>>
<1>1. CASE ShmOpen(w)
  <2>1. /\ Attach(w) /\ UNCHANGED <<is_creator, capacity>> /\ pc[w] = "idle"
        /\ pc' = [pc EXCEPT ![w] = "n_size"]
    BY <1>1 DEF ShmOpen, Goto, segment
  <2>2. /\ linked = 0 /\ region[w] = 0 /\ made' = made + 1 /\ made < MaxSegments
        /\ region'[w] = made + 1
    BY <2>1, <1>w DEF Attach
  <2>3. made + 1 \in Segments /\ made + 1 > made
    BY <2>2, <1>w DEF Segments
  <2>4. capacity[made + 1] = 0
    BY <2>3
  <2>5. ~is_creator[w]
    BY <2>2 DEF NameInv
  <2>6. \A s \in Segments : s > made' => s > made
    BY <2>2, <1>w DEF Segments
  <2>7. linked' = made + 1
    BY <2>1, <2>2 DEF Attach
  <2>8. \A p \in Openers : region'[p] = region[p] /\ pc'[p] = pc[p]
    BY <2>1, <1>w DEF Attach
  <2>9. pc'[w] = "n_size" /\ ~is_creator'[w]
    BY <2>1, <2>5, <1>w
  <2> QED
    BY <2>1, <2>2, <2>4, <2>6, <2>7, <2>8, <2>9
<1>2. CASE Truncate(w) \/ InitHead(w) \/ InitTail(w)
  <2>1. Same /\ UNCHANGED capacity /\ pc[w] \in CreatePC
        /\ \E to \in CreatePC : pc' = [pc EXCEPT ![w] = to]
    BY <1>2 DEF Truncate, InitHead, InitTail, Goto, owner, segment
  <2> QED
    BY <2>1, <1>w DEF NameInv
<1>3. CASE CreateFails(w)
  <2>1. /\ pc' = [pc EXCEPT ![w] = "idle"] /\ region' = [region EXCEPT ![w] = 0] /\ linked' = 0
        /\ UNCHANGED <<made, is_creator, capacity>> /\ pc[w] \in CreatePC
    BY <1>3 DEF CreateFails, segment
  <2>2. ~is_creator[w]
    BY <2>1 DEF NameInv
  <2> QED
    BY <2>1, <2>2, <1>w
<1>4. CASE InitCapacity(w)
  <2>1. /\ pc' = [pc EXCEPT ![w] = "idle"] /\ pc[w] = "n_capacity"
        /\ capacity' = [capacity EXCEPT ![region[w]] = SIZE]
        /\ is_creator' = [is_creator EXCEPT ![w] = TRUE]
        /\ UNCHANGED <<made, linked, region>>
    BY <1>4 DEF InitCapacity, Goto
  <2>2. region[w] \in Segments /\ region[w] <= made
    BY <2>1, <1>w DEF NameInv, Segments
  <2> QED
    BY <2>1, <2>2, <1>w DEF Segments
<1>5. ASSUME NEW p \in Openers, Open(p)
      PROVE  SetUpInv(w)'
  <2>1. Attach(p) /\ UNCHANGED <<is_creator, pc, capacity>> /\ linked # 0
    BY <1>5 DEF Open, segment
  <2>2. UNCHANGED <<made, linked>> /\ region' = [region EXCEPT ![p] = linked]
    BY <2>1 DEF Attach
  <2>3. region'[w] = region[w] /\ \A q \in Openers : region[q] # 0 => region'[q] # 0
    BY <2>1, <2>2, <1>w
  <2> QED
    BY <2>1, <2>2, <2>3
<1>6. ASSUME NEW p \in Processes, Destroy(p)
      PROVE  SetUpInv(w)'
  <2>1. /\ pc[p] = "idle" /\ UNCHANGED <<made, pc, capacity>>
        /\ region' = [region EXCEPT ![p] = 0]
        /\ is_creator' = [is_creator EXCEPT ![p] = FALSE]
        /\ linked' = IF is_creator[p] THEN 0 ELSE linked
    BY <1>6 DEF Destroy, segment
  <2>2. CASE p = w
    <3>1. region[w] # 0
      BY <1>6, <2>2 DEF Destroy
    <3>2. is_creator[w] /\ linked' = 0
      BY <2>1, <2>2, <3>1
    <3> QED
      BY <2>1, <2>2, <3>2, <1>w
  <2>3. CASE p # w
    <3>1. p \in Openers /\ ~is_creator[p]
      BY <2>3 DEF Processes, SingleWriter, NameInv
    <3> QED
      BY <2>1, <2>3, <3>1, <1>w
  <2> QED
    BY <2>2, <2>3
<1>7. ASSUME (\E k \in Chunk : BeginWrite(w, k)) \/ WriteSteps(w)
      PROVE  SetUpInv(w)'
  <2>1. /\ Same /\ UNCHANGED capacity /\ pc[w] \in {"idle"} \cup WritePC
        /\ pc[w] = "idle" => region[w] # 0
        /\ \/ UNCHANGED pc
           \/ \E to \in {"idle"} \cup WritePC : pc' = [pc EXCEPT ![w] = to]
    BY <1>7 DEF BeginWrite, WriteSteps, WriteLoadHead, WriteLoadTail, WriteByte,
                WriteStoreHead, Goto, owner, segment
  <2>2. is_creator[w]
    BY <2>1
  <2>3. pc'[w] \in {"idle"} \cup WritePC /\ \A p \in Openers : pc'[p] = pc[p]
    BY <2>1, <1>w
  <2> QED
    BY <2>1, <2>2, <2>3
<1>8. ASSUME NEW p \in Openers, (\E k \in Chunk : BeginRead(p, k)) \/ ReadSteps(p)
      PROVE  SetUpInv(w)'
  <2>1. /\ Same /\ UNCHANGED capacity
        /\ pc[p] \in {"idle"} \cup ReadPC /\ (pc[p] = "idle" => region[p] # 0)
        /\ \/ UNCHANGED pc
           \/ \E to \in {"idle"} \cup ReadPC : pc' = [pc EXCEPT ![p] = to]
    BY <1>8 DEF BeginRead, ReadSteps, ReadLoadHead, ReadLoadTail, ReadByte,
                ReadStoreTail, Goto, owner, segment
  <2>2. region[p] # 0 /\ pc'[w] = pc[w]
    BY <2>1, <1>w
  <2> QED
    BY <2>1, <2>2, <1>w
<1>9. ASSUME NEW p \in Processes, Fault(p)
      PROVE  SetUpInv(w)'
  <2>1. Same /\ UNCHANGED capacity /\ pc' = [pc EXCEPT ![p] = "fault"]
    BY <1>9 DEF Fault, owner, segment
  <2>2. pc'[w] \in {pc[w], "fault"} /\ \A q \in Openers : pc'[q] \in {pc[q], "fault"}
    BY <2>1, <1>w
  <2> QED
    BY <2>1, <2>2
<1>10. CASE UNCHANGED vars
  BY <1>10 DEF vars
<1>11. ~CreateMapping(w)
  BY DEF CreateMapping
<1> QED
  BY <1>1, <1>2, <1>3, <1>4, <1>5, <1>6, <1>7, <1>8, <1>9, <1>10, <1>11
     DEF Next, CreateSteps, SingleWriter

-----------------------------------------------------------------------------
(* The bytes on POSIX, with one reader. *)

SingleReader(r) == Openers = {r}

DataInv(w, r) ==
  /\ DataTypes /\ \A s \in Segments : StreamInv(s)
  /\ WriterKnows(w) /\ ReaderKnows(r)

RingInv(w, r) == NameInv(w) /\ SetUpInv(w) /\ DataInv(w, r)

LEMMA DataInit ==
  ASSUME NEW w, NEW r, SingleWriter(w), SingleReader(r), Init
  PROVE  DataInv(w, r)
<1> USE SegmentAssumption DEF Init
<1>1. w \in Processes /\ r \in Processes
  BY DEF SingleWriter, SingleReader, Processes
<1>2. DataTypes
  BY DEF DataTypes
<1>3. ASSUME NEW s \in Segments
      PROVE  StreamInv(s)
  <2>1. sent[s] = <<>> /\ received[s] = <<>> /\ head[s] = 0 /\ tail[s] = 0
    BY <1>3
  <2>2. 0 % SIZE = 0
    OBVIOUS
  <2>3. Len(sent[s]) = 0 /\ Len(received[s]) = 0
    BY <2>1
  <2> QED
    BY <2>1, <2>2, <2>3 DEF StreamInv
<1>4. WriterKnows(w) /\ ReaderKnows(r)
  BY <1>1 DEF WriterKnows, ReaderKnows, WritePC, ReadPC
<1> QED
  BY <1>2, <1>3, <1>4 DEF DataInv

\* Where the two processes and their segments are.
LEMMA Places ==
  ASSUME NEW w, NEW r, SingleWriter(w), SingleReader(r), RingInv(w, r)
  PROVE  /\ w \in Processes /\ r \in Processes /\ w # r /\ DOMAIN pc = Processes
         /\ pc[w] \in WritePC => /\ region[w] \in Segments
                                 /\ capacity[region[w]] = SIZE
         /\ pc[w] \in CreatePC => /\ region[w] \in Segments
                                  /\ capacity[region[w]] = 0
         /\ pc[r] \in ReadPC => region[r] \in Segments
         /\ region \in [Processes -> Nat]
         /\ SIZE \in Nat \ {0} /\ MaxChunk \in Nat /\ MaxBytes \in Nat
<1>1. /\ w \in Processes /\ r \in Processes /\ w # r /\ DOMAIN pc = Processes
      /\ SIZE \in Nat \ {0} /\ MaxChunk \in Nat /\ MaxBytes \in Nat /\ MaxSegments \in Nat
  BY SegmentAssumption DEF SingleWriter, SingleReader, Processes, RingInv, NameInv
<1>2. made \in 0 .. MaxSegments /\ region \in [Processes -> 0 .. made]
  BY DEF RingInv, NameInv
<1>3. region \in [Processes -> Nat]
  BY <1>1, <1>2
<1>4. \A p \in Processes : region[p] # 0 => region[p] \in Segments
  BY <1>1, <1>2 DEF Segments
<1>5. pc[w] \in WritePC => region[w] # 0 /\ capacity[region[w]] = SIZE
  BY DEF RingInv, NameInv, SetUpInv
<1>6. pc[w] \in CreatePC => region[w] # 0 /\ capacity[region[w]] = 0
  BY DEF RingInv, NameInv, SetUpInv
<1>7. pc[r] \in ReadPC => region[r] # 0
  BY DEF RingInv, SetUpInv, SingleReader
<1> QED
  BY <1>1, <1>3, <1>4, <1>5, <1>6, <1>7

\* A segment no step touches is as good as it was.
LEMMA StreamKeeps ==
  ASSUME NEW s, StreamInv(s),
         head'[s] = head[s], tail'[s] = tail[s], bytes'[s] = bytes[s],
         sent'[s] = sent[s], received'[s] = received[s], capacity'[s] # 0 \/ capacity[s] = 0
  PROVE  StreamInv(s)'
BY DEF StreamInv

\* What the writer knows stays true while bytes are read.
LEMMA WriterKeeps ==
  ASSUME NEW w, NEW s, DataTypes, DataTypes', w \in Processes, WriterKnows(w), s = region[w],
         pc'[w] \in WritePC => /\ s \in Segments /\ pc'[w] = pc[w] /\ region'[w] = s
                               /\ n'[w] = n[w] /\ buf'[w] = buf[w]
                               /\ h'[w] = h[w] /\ cap'[w] = cap[w] /\ count' = count
                               /\ head'[s] = head[s] /\ bytes'[s] = bytes[s]
                               /\ sent'[s] = sent[s]
                               /\ Len(received'[s]) >= Len(received[s])
  PROVE  WriterKnows(w)'
<1>1. CASE pc'[w] \notin WritePC
  BY <1>1 DEF WriterKnows, WritePC
<1>2. CASE pc'[w] \in {"w_head", "w_tail"}
  BY <1>2 DEF WriterKnows, WritePC
<1>3. CASE pc'[w] = "w_copy"
  <2> DEFINE a == Len(sent[s])
             b == Len(received[s])
             c == Len(received'[s])
  <2>1. /\ s \in Segments /\ pc[w] = "w_copy" /\ region'[w] = s /\ n'[w] = n[w] /\ buf'[w] = buf[w]
        /\ h'[w] = h[w] /\ cap'[w] = cap[w] /\ count' = count
        /\ head'[s] = head[s] /\ bytes'[s] = bytes[s] /\ sent'[s] = sent[s] /\ c >= b
    BY <1>3 DEF WritePC
  <2>2. a \in Nat /\ b \in Nat /\ c \in Nat /\ n[w] \in Nat
    <3>1. sent[s] \in Seq(Byte) /\ received[s] \in Seq(Byte) /\ received'[s] \in Seq(Byte)
      BY <2>1 DEF DataTypes
    <3>2. n[w] \in 0 .. MaxChunk
      BY DEF DataTypes
    <3> QED
      BY <3>1, <3>2, SegmentAssumption
  <2>3. a + n[w] < b + SIZE
    BY <2>1 DEF WriterKnows
  <2>4. a + n[w] < c + SIZE
    <3> HIDE DEF a, b, c
    <3> QED
      BY <2>1, <2>2, <2>3, SegmentAssumption
  <2> QED
    BY <1>3, <2>1, <2>4 DEF WriterKnows, WritePC
<1> QED
  BY <1>1, <1>2, <1>3 DEF WritePC

\* What the reader knows stays true while bytes are sent.
LEMMA ReaderKeeps ==
  ASSUME NEW r, NEW s, DataTypes, DataTypes', r \in Processes, ReaderKnows(r), s = region[r],
         pc'[r] \in ReadPC => /\ s \in Segments /\ pc'[r] = pc[r] /\ region'[r] = s
                              /\ n'[r] = n[r] /\ buf'[r] = buf[r]
                              /\ h'[r] = h[r] /\ t'[r] = t[r] /\ cap'[r] = cap[r]
                              /\ tail'[s] = tail[s] /\ received'[s] = received[s]
                              /\ Len(sent'[s]) >= Len(sent[s])
                              /\ \A i \in 1 .. Len(sent[s]) : sent'[s][i] = sent[s][i]
  PROVE  ReaderKnows(r)'
<1> DEFINE a == Len(sent[s])
           b == Len(received[s])
           c == Len(sent'[s])
<1>1. CASE pc'[r] \notin ReadPC
  BY <1>1 DEF ReaderKnows, ReadPC
<1>2. pc'[r] \in ReadPC => a \in Nat /\ b \in Nat /\ c \in Nat /\ n[r] \in Nat
  <2>1. pc'[r] \in ReadPC =>
          sent[s] \in Seq(Byte) /\ received[s] \in Seq(Byte) /\ sent'[s] \in Seq(Byte)
    BY DEF DataTypes
  <2>2. n[r] \in 0 .. MaxChunk
    BY DEF DataTypes
  <2> QED
    BY <2>1, <2>2, SegmentAssumption
<1>3. CASE pc'[r] = "r_head"
  BY <1>3 DEF ReaderKnows, ReadPC
<1>4. CASE pc'[r] = "r_tail"
  <2>1. /\ pc[r] = "r_tail" /\ region'[r] = s /\ n'[r] = n[r] /\ buf'[r] = buf[r]
        /\ h'[r] = h[r] /\ received'[s] = received[s] /\ c >= a
    BY <1>4 DEF ReadPC
  <2>2. PICK i \in b .. a : h[r] = i % SIZE
    BY <2>1 DEF ReaderKnows
  <2>3. i \in b .. c
    <3>1. a \in Nat /\ b \in Nat /\ c \in Nat
      BY <1>2, <1>4 DEF ReadPC
    <3> HIDE DEF a, b, c
    <3> QED
      BY <2>1, <3>1
  <2> QED
    BY <1>4, <2>1, <2>2, <2>3 DEF ReaderKnows, ReadPC
<1>5. CASE pc'[r] = "r_copy"
  <2>1. /\ pc[r] = "r_copy" /\ region'[r] = s /\ n'[r] = n[r] /\ buf'[r] = buf[r]
        /\ t'[r] = t[r] /\ cap'[r] = cap[r] /\ tail'[s] = tail[s]
        /\ received'[s] = received[s] /\ c >= a
        /\ \A i \in 1 .. a : sent'[s][i] = sent[s][i]
    BY <1>5 DEF ReadPC
  <2> DEFINE l == Len(buf[r])
  <2>2. l \in Nat /\ l <= n[r] /\ b + n[r] <= a
    BY <2>1 DEF ReaderKnows, DataTypes
  <2>3. b + n[r] <= c /\ \A j \in 1 .. l : b + j \in 1 .. a
    <3>1. a \in Nat /\ b \in Nat /\ c \in Nat /\ n[r] \in Nat
      BY <1>2, <1>5 DEF ReadPC
    <3> HIDE DEF a, b, c, l
    <3> QED
      BY <2>1, <2>2, <3>1
  <2>4. \A j \in 1 .. l : sent'[s][b + j] = sent[s][b + j]
    BY <2>1, <2>3
  <2> QED
    BY <1>5, <2>1, <2>2, <2>3, <2>4 DEF ReaderKnows, ReadPC
<1> QED
  BY <1>1, <1>3, <1>4, <1>5 DEF ReadPC

\* The numbers of a segment.
LEMMA SegmentIs ==
  ASSUME NEW w, NEW r, DataInv(w, r), NEW s \in Segments
  PROVE  /\ StreamInv(s)
         /\ sent[s] \in Seq(Byte) /\ received[s] \in Seq(Byte)
         /\ Len(sent[s]) \in Nat /\ Len(received[s]) \in Nat
         /\ Len(received[s]) <= Len(sent[s]) /\ Len(sent[s]) < Len(received[s]) + SIZE
         /\ head[s] = Len(sent[s]) % SIZE /\ tail[s] = Len(received[s]) % SIZE
         /\ head[s] \in Nat /\ tail[s] \in Nat /\ bytes[s] \in [0 .. SIZE-1 -> Nat]
<1>1. sent[s] \in Seq(Byte) /\ received[s] \in Seq(Byte)
  BY DEF DataInv, DataTypes
<1>2. head[s] \in Nat /\ tail[s] \in Nat /\ bytes[s] \in [0 .. SIZE-1 -> Nat]
  BY DEF DataInv, DataTypes
<1> QED
  BY <1>1, <1>2 DEF DataInv, StreamInv

\* The numbers of a process.
LEMMA ProcessIs ==
  ASSUME DataTypes, NEW p \in Processes
  PROVE  /\ h[p] \in Nat /\ t[p] \in Nat /\ cap[p] \in {0, SIZE} /\ n[p] \in Nat
         /\ buf[p] \in Seq(Nat) /\ Len(buf[p]) \in Nat /\ count \in Nat
<1>1. n[p] \in 0 .. MaxChunk /\ buf[p] \in Seq(Nat) /\ count \in 0 .. MaxBytes
  BY DEF DataTypes
<1>2. n[p] \in Nat /\ count \in Nat /\ Len(buf[p]) \in Nat
  BY <1>1, SegmentAssumption
<1> QED
  BY <1>1, <1>2 DEF DataTypes

\* Steps that only map, unmap and fail.
LEMMA DataQuiet ==
  ASSUME NEW w, NEW r, SingleWriter(w), SingleReader(r), RingInv(w, r),
         UNCHANGED <<segment, args, history>>,
         pc'[w] \in WritePC => pc'[w] = pc[w] /\ region'[w] = region[w],
         pc'[r] \in ReadPC => pc'[r] = pc[r] /\ region'[r] = region[r]
  PROVE  DataInv(w, r)'
<1> USE DEF DataInv, segment, args, history
<1>1. DataTypes /\ DataTypes' /\ \A s \in Segments : StreamInv(s)'
  <2>1. DataTypes /\ DataTypes'
    BY DEF RingInv, DataTypes
  <2>2. ASSUME NEW s \in Segments
        PROVE  StreamInv(s)'
    BY StreamKeeps DEF RingInv
  <2> QED
    BY <2>1, <2>2
<1>2. w \in Processes /\ r \in Processes
  BY Places
<1>3. WriterKnows(w)'
  <2>1. pc'[w] \in WritePC => region[w] \in Segments
    BY Places
  <2>2. pc'[w] \in WritePC => Len(received'[region[w]]) >= Len(received[region[w]])
    <3>1. ASSUME NEW s \in Segments
          PROVE  Len(received'[s]) >= Len(received[s])
      <4>1. received'[s] = received[s] /\ Len(received[s]) \in Nat
        BY SegmentIs DEF RingInv
      <4> QED
        BY <4>1
    <3> QED
      BY <2>1, <3>1
  <2> QED
    BY <1>1, <1>2, <2>1, <2>2, WriterKeeps DEF RingInv
<1>4. ReaderKnows(r)'
  <2>1. pc'[r] \in ReadPC => region[r] \in Segments
    BY Places
  <2>2. pc'[r] \in ReadPC => Len(sent'[region[r]]) >= Len(sent[region[r]])
    <3>1. ASSUME NEW s \in Segments
          PROVE  Len(sent'[s]) >= Len(sent[s])
      <4>1. sent'[s] = sent[s] /\ Len(sent[s]) \in Nat
        BY SegmentIs DEF RingInv
      <4> QED
        BY <4>1
    <3> QED
      BY <2>1, <3>1
  <2> QED
    BY <1>1, <1>2, <2>1, <2>2, ReaderKeeps DEF RingInv
<1> QED
  BY <1>1, <1>3, <1>4

\* The zeros the creator writes are there already.
LEMMA DataSetUp ==
  ASSUME NEW w, NEW r, SingleWriter(w), SingleReader(r), RingInv(w, r),
         InitHead(w) \/ InitTail(w) \/ InitCapacity(w)
  PROVE  DataInv(w, r)'
<1> DEFINE s == region[w]
<1>1. /\ pc[w] \in CreatePC /\ UNCHANGED <<bytes, region, args, history>>
      /\ pc' \in {[pc EXCEPT ![w] = "n_tail"], [pc EXCEPT ![w] = "n_capacity"],
                  [pc EXCEPT ![w] = "idle"]}
      /\ head' \in {head, [head EXCEPT ![s] = 0]}
      /\ tail' \in {tail, [tail EXCEPT ![s] = 0]}
      /\ capacity' \in {capacity, [capacity EXCEPT ![s] = SIZE]}
  BY DEF InitHead, InitTail, InitCapacity, Goto, CreatePC, owner
<1>2. /\ w \in Processes /\ r \in Processes /\ w # r /\ DOMAIN pc = Processes
      /\ s \in Segments /\ capacity[s] = 0 /\ SIZE \in Nat \ {0}
      /\ pc[r] \in ReadPC => region[r] \in Segments
  BY <1>1, Places
<1>3. DataTypes
  BY DEF RingInv, DataInv
<1>4. head[s] = 0 /\ tail[s] = 0
  <2>1. sent[s] = <<>> /\ head[s] = Len(sent[s]) % SIZE /\ tail[s] = Len(received[s]) % SIZE
    BY <1>2 DEF RingInv, DataInv, StreamInv
  <2>2. Len(sent[s]) = 0 /\ Len(received[s]) = 0
    <3>1. Len(sent[s]) = 0 /\ Len(received[s]) \in Nat /\ Len(received[s]) <= Len(sent[s])
      BY <1>2, <2>1, SegmentIs DEF RingInv
    <3> QED
      BY <3>1
  <2>3. 0 % SIZE = 0
    BY <1>2
  <2> QED
    BY <2>1, <2>2, <2>3
<1>5. UNCHANGED <<head, tail>>
  BY <1>1, <1>3, <1>4 DEF DataTypes
<1>6. \A u \in Segments : capacity'[u] # 0 \/ capacity[u] = 0
  BY <1>1, <1>2 DEF RingInv, SetUpInv
<1>7. DataTypes' /\ \A u \in Segments : StreamInv(u)'
  BY <1>1, <1>3, <1>5, <1>6, StreamKeeps DEF RingInv, DataInv, DataTypes, args, history
<1>8. pc'[w] \notin WritePC /\ pc'[r] = pc[r]
  BY <1>1, <1>2 DEF WritePC
<1>9. WriterKnows(w)'
  BY <1>8 DEF WriterKnows, WritePC
<1>10. ReaderKnows(r)'
  BY <1>1, <1>5, <1>8 DEF RingInv, DataInv, ReaderKnows, args, history
<1> QED
  BY <1>7, <1>9, <1>10 DEF DataInv

\* The segments are as they were: what the process that does not move knows is
\* still true.
LEMMA DataElsewhere ==
  ASSUME NEW w, NEW r, SingleWriter(w), SingleReader(r), RingInv(w, r),
         UNCHANGED <<segment, owner, history>>
  PROVE  /\ \A s \in Segments : StreamInv(s)'
         /\ /\ pc'[w] = pc[w] /\ n'[w] = n[w] /\ buf'[w] = buf[w]
            /\ h'[w] = h[w] /\ cap'[w] = cap[w] /\ count' = count
            => WriterKnows(w)'
         /\ /\ pc'[r] = pc[r] /\ n'[r] = n[r] /\ buf'[r] = buf[r]
            /\ h'[r] = h[r] /\ t'[r] = t[r] /\ cap'[r] = cap[r]
            => ReaderKnows(r)'
<1> USE DEF segment, owner, history, RingInv, DataInv
<1>1. \A s \in Segments : StreamInv(s)'
  BY StreamKeeps
<1>2. /\ pc'[w] = pc[w] /\ n'[w] = n[w] /\ buf'[w] = buf[w]
      /\ h'[w] = h[w] /\ cap'[w] = cap[w] /\ count' = count
      => WriterKnows(w)'
  BY DEF WriterKnows
<1>3. /\ pc'[r] = pc[r] /\ n'[r] = n[r] /\ buf'[r] = buf[r]
      /\ h'[r] = h[r] /\ t'[r] = t[r] /\ cap'[r] = cap[r]
      => ReaderKnows(r)'
  BY DEF ReaderKnows
<1> QED
  BY <1>1, <1>2, <1>3

LEMMA DataBeginWrite ==
  ASSUME NEW w, NEW r, SingleWriter(w), SingleReader(r), RingInv(w, r),
         NEW k \in Chunk, BeginWrite(w, k)
  PROVE  DataInv(w, r)'
<1>1. /\ UNCHANGED <<segment, owner, h, t, cap, history>>
      /\ pc' = [pc EXCEPT ![w] = "w_head"] /\ n' = [n EXCEPT ![w] = k]
      /\ buf' = [buf EXCEPT ![w] = <<>>]
      /\ count + k <= MaxBytes /\ count' = count + k
  BY DEF BeginWrite, Goto
<1>2. /\ w \in Processes /\ r \in Processes /\ w # r /\ DOMAIN pc = Processes
      /\ MaxBytes \in Nat /\ MaxChunk \in Nat
  BY Places
<1>3. DataTypes
  BY DEF RingInv, DataInv
<1>4. count \in Nat /\ k \in Nat /\ k > 0 /\ k \in 0 .. MaxChunk
  BY <1>2, <1>3 DEF DataTypes, Chunk
<1>5. count' \in 0 .. MaxBytes /\ n'[w] > 0 /\ n'[w] <= count' /\ buf'[w] = <<>>
  BY <1>1, <1>2, <1>3, <1>4 DEF DataTypes
<1>6. DataTypes'
  BY <1>1, <1>2, <1>3, <1>4, <1>5 DEF DataTypes, segment, history
<1>7. WriterKnows(w)'
  BY <1>1, <1>2, <1>5 DEF WriterKnows, WritePC
<1>8. ReaderKnows(r)' /\ \A s \in Segments : StreamInv(s)'
  BY <1>1, <1>2, <1>3, DataElsewhere DEF DataTypes
<1> QED
  BY <1>6, <1>7, <1>8 DEF DataInv

LEMMA DataWriteLoadHead ==
  ASSUME NEW w, NEW r, SingleWriter(w), SingleReader(r), RingInv(w, r), WriteLoadHead(w)
  PROVE  DataInv(w, r)'
<1> DEFINE s == region[w]
<1>1. /\ UNCHANGED <<segment, owner, t, cap, n, buf, count, history>>
      /\ pc[w] = "w_head" /\ pc' = [pc EXCEPT ![w] = "w_tail"]
      /\ h' = [h EXCEPT ![w] = head[s]]
  BY DEF WriteLoadHead, Goto
<1>2. /\ w \in Processes /\ r \in Processes /\ w # r /\ DOMAIN pc = Processes
      /\ s \in Segments
  BY <1>1, Places DEF WritePC
<1>3. DataTypes
  BY DEF RingInv, DataInv
<1>4. DataTypes' /\ h'[w] = head[s] /\ h'[r] = h[r]
  BY <1>1, <1>2, <1>3 DEF DataTypes, segment, history
<1>5. WriterKnows(w)'
  <2>1. n[w] > 0 /\ n[w] <= count /\ buf[w] = <<>>
    BY <1>1 DEF RingInv, DataInv, WriterKnows, WritePC
  <2> QED
    BY <1>1, <1>2, <1>4, <2>1 DEF WriterKnows, WritePC, owner, segment
<1>6. ReaderKnows(r)' /\ \A u \in Segments : StreamInv(u)'
  BY <1>1, <1>2, <1>4, DataElsewhere
<1> QED
  BY <1>4, <1>5, <1>6 DEF DataInv

\* The call goes on when there is room for all of its bytes.
LEMMA DataWriteLoadTail ==
  ASSUME NEW w, NEW r, SingleWriter(w), SingleReader(r), RingInv(w, r), WriteLoadTail(w)
  PROVE  DataInv(w, r)'
<1> DEFINE s == region[w]
           a == Len(sent[s])
           b == Len(received[s])
           full == n[w] > FreeSpace(h[w], tail[s], capacity[s])
<1>1. /\ UNCHANGED <<segment, owner, h, n, buf, count, history>>
      /\ pc[w] = "w_tail" /\ pc' = [pc EXCEPT ![w] = IF full THEN "idle" ELSE "w_copy"]
      /\ t' = [t EXCEPT ![w] = tail[s]] /\ cap' = [cap EXCEPT ![w] = capacity[s]]
  BY DEF WriteLoadTail, Goto
<1>2. /\ w \in Processes /\ r \in Processes /\ w # r /\ DOMAIN pc = Processes
      /\ s \in Segments /\ capacity[s] = SIZE /\ SIZE \in Nat \ {0}
  BY <1>1, Places DEF WritePC
<1>3. DataTypes
  BY DEF RingInv, DataInv
<1>4. /\ DataTypes' /\ cap'[w] = SIZE
      /\ h'[r] = h[r] /\ t'[r] = t[r] /\ cap'[r] = cap[r] /\ pc'[r] = pc[r]
  BY <1>1, <1>2, <1>3 DEF DataTypes, segment, history
<1>5. WriterKnows(w)'
  <2>1. n[w] > 0 /\ n[w] <= count /\ buf[w] = <<>> /\ h[w] = head[s]
    BY <1>1 DEF RingInv, DataInv, WriterKnows, WritePC
  <2>2. /\ a \in Nat /\ b \in Nat /\ b <= a /\ a < b + SIZE /\ n[w] \in Nat
        /\ h[w] = a % SIZE /\ tail[s] = b % SIZE
    BY <1>2, <1>3, <2>1, SegmentIs, ProcessIs DEF RingInv
  <2>3. FreeSpace(h[w], tail[s], capacity[s]) = SIZE - 1 - (a - b)
    <3> HIDE DEF a, b
    <3> QED
      BY <1>2, <2>2, FreeIs
  <2>4. ~full => a + n[w] < b + SIZE
    <3> HIDE DEF a, b
    <3> QED
      BY <1>2, <2>2, <2>3
  <2>5. pc'[w] = IF full THEN "idle" ELSE "w_copy"
    BY <1>1, <1>2
  <2>6. Len(buf[w]) = 0
    BY <2>1
  <2>7. Len(buf[w]) <= n[w]
    BY <2>2, <2>6
  <2> HIDE DEF full
  <2>8. CASE full
    BY <2>5, <2>8 DEF WriterKnows, WritePC
  <2>9. CASE ~full
    BY <1>1, <1>4, <2>1, <2>4, <2>5, <2>6, <2>7, <2>9
       DEF WriterKnows, WritePC, owner, segment, history
  <2> QED
    BY <2>8, <2>9
<1>6. ReaderKnows(r)' /\ \A u \in Segments : StreamInv(u)'
  BY <1>1, <1>4, DataElsewhere
<1> QED
  BY <1>4, <1>5, <1>6 DEF DataInv

LEMMA DataBeginRead ==
  ASSUME NEW w, NEW r, SingleWriter(w), SingleReader(r), RingInv(w, r),
         NEW k \in Chunk, BeginRead(r, k)
  PROVE  DataInv(w, r)'
<1>1. /\ UNCHANGED <<segment, owner, h, t, cap, count, history>>
      /\ pc' = [pc EXCEPT ![r] = "r_head"] /\ n' = [n EXCEPT ![r] = k]
      /\ buf' = [buf EXCEPT ![r] = <<>>]
  BY DEF BeginRead, Goto
<1>2. /\ w \in Processes /\ r \in Processes /\ w # r /\ DOMAIN pc = Processes
      /\ MaxChunk \in Nat
  BY Places
<1>3. DataTypes
  BY DEF RingInv, DataInv
<1>4. k \in Nat /\ k > 0 /\ k \in 0 .. MaxChunk
  BY <1>2 DEF Chunk
<1>5. DataTypes' /\ n'[r] > 0 /\ buf'[r] = <<>>
  BY <1>1, <1>2, <1>3, <1>4, SMTT(30) DEF DataTypes, segment, history
<1>6. ReaderKnows(r)'
  BY <1>1, <1>2, <1>5 DEF ReaderKnows, ReadPC
<1>7. WriterKnows(w)' /\ \A s \in Segments : StreamInv(s)'
  BY <1>1, <1>2, <1>3, DataElsewhere DEF DataTypes
<1> QED
  BY <1>5, <1>6, <1>7 DEF DataInv

LEMMA DataReadLoadHead ==
  ASSUME NEW w, NEW r, SingleWriter(w), SingleReader(r), RingInv(w, r), ReadLoadHead(r)
  PROVE  DataInv(w, r)'
<1> DEFINE s == region[r]
<1>1. /\ UNCHANGED <<segment, owner, t, cap, n, buf, count, history>>
      /\ pc[r] = "r_head" /\ pc' = [pc EXCEPT ![r] = "r_tail"]
      /\ h' = [h EXCEPT ![r] = head[s]]
  BY DEF ReadLoadHead, Goto
<1>2. /\ w \in Processes /\ r \in Processes /\ w # r /\ DOMAIN pc = Processes
      /\ s \in Segments
  BY <1>1, Places DEF ReadPC
<1>3. DataTypes
  BY DEF RingInv, DataInv
<1>4. DataTypes' /\ h'[r] = head[s] /\ h'[w] = h[w]
  BY <1>1, <1>2, <1>3 DEF DataTypes, segment, history
<1>5. ReaderKnows(r)'
  <2>1. n[r] > 0 /\ buf[r] = <<>>
    BY <1>1 DEF RingInv, DataInv, ReaderKnows, ReadPC
  <2>2. /\ h'[r] = Len(sent[s]) % SIZE
        /\ Len(sent[s]) \in Len(received[s]) .. Len(sent[s])
    <3>1. /\ head[s] = Len(sent[s]) % SIZE
          /\ Len(sent[s]) \in Nat /\ Len(received[s]) \in Nat /\ Len(received[s]) <= Len(sent[s])
      BY <1>2, SegmentIs DEF RingInv
    <3> QED
      BY <1>4, <3>1
  <2> QED
    BY <1>1, <1>2, <2>1, <2>2 DEF ReaderKnows, ReadPC, owner, segment, history
<1>6. WriterKnows(w)' /\ \A u \in Segments : StreamInv(u)'
  BY <1>1, <1>2, <1>4, DataElsewhere
<1> QED
  BY <1>4, <1>5, <1>6 DEF DataInv

\* The call goes on when all it asks for was there when the head was loaded;
\* a header that was not set up then shows nothing to read.
LEMMA DataReadLoadTail ==
  ASSUME NEW w, NEW r, SingleWriter(w), SingleReader(r), RingInv(w, r), ReadLoadTail(r)
  PROVE  DataInv(w, r)'
<1> DEFINE s == region[r]
           a == Len(sent[s])
           b == Len(received[s])
           short == n[r] > Available(h[r], tail[s], capacity[s])
<1>1. /\ UNCHANGED <<segment, owner, h, n, buf, count, history>>
      /\ pc[r] = "r_tail" /\ pc' = [pc EXCEPT ![r] = IF short THEN "idle" ELSE "r_copy"]
      /\ t' = [t EXCEPT ![r] = tail[s]] /\ cap' = [cap EXCEPT ![r] = capacity[s]]
  BY DEF ReadLoadTail, Goto
<1>2. /\ w \in Processes /\ r \in Processes /\ w # r /\ DOMAIN pc = Processes
      /\ s \in Segments /\ SIZE \in Nat \ {0} /\ capacity[s] \in {0, SIZE}
  <2>1. s \in Segments
    BY <1>1, Places DEF ReadPC
  <2>2. capacity[s] \in {0, SIZE}
    BY <2>1 DEF RingInv, SetUpInv
  <2> QED
    BY <2>1, <2>2, Places
<1>3. DataTypes
  BY DEF RingInv, DataInv
<1>4. /\ DataTypes' /\ cap'[r] = capacity[s] /\ t'[r] = tail[s]
      /\ h'[w] = h[w] /\ t'[w] = t[w] /\ cap'[w] = cap[w] /\ pc'[w] = pc[w]
  BY <1>1, <1>2, <1>3 DEF DataTypes, segment, history
<1>5. ReaderKnows(r)'
  <2>1. n[r] > 0 /\ buf[r] = <<>> /\ \E i \in b .. a : h[r] = i % SIZE
    BY <1>1 DEF RingInv, DataInv, ReaderKnows, ReadPC
  <2>2. PICK i \in b .. a : h[r] = i % SIZE
    BY <2>1
  <2>3. /\ a \in Nat /\ b \in Nat /\ b <= a /\ a < b + SIZE /\ n[r] \in Nat
        /\ tail[s] = b % SIZE
    BY <1>2, <1>3, SegmentIs, ProcessIs DEF RingInv
  <2>4. capacity[s] = 0 => short
    <3>1. SUFFICES ASSUME capacity[s] = 0
                   PROVE  short
      OBVIOUS
    <3>2. sent[s] = <<>>
      BY <1>2, <3>1 DEF RingInv, DataInv, StreamInv
    <3>3. a = 0
      BY <3>2
    <3> HIDE DEF a, b
    <3>4. i = 0 /\ b = 0
      BY <2>3, <3>3
    <3>5. 0 % SIZE = 0
      BY <1>2
    <3>6. h[r] = 0 /\ tail[s] = 0
      BY <2>2, <2>3, <3>4, <3>5
    <3>7. Available(h[r], tail[s], capacity[s]) = 0
      BY <3>1, <3>6, NothingAvailable
    <3> QED
      BY <2>1, <3>7
  <2>5. ~short => capacity[s] = SIZE /\ b + n[r] <= a
    <3>1. SUFFICES ASSUME ~short
                   PROVE  capacity[s] = SIZE /\ b + n[r] <= a
      OBVIOUS
    <3>2. capacity[s] = SIZE
      BY <1>2, <2>4, <3>1
    <3> HIDE DEF a, b
    <3>3. i \in Nat /\ b <= i /\ i < b + SIZE /\ i <= a
      BY <1>2, <2>3
    <3>4. Available(h[r], tail[s], capacity[s]) = i - b
      BY <2>2, <2>3, <3>2, <3>3, AvailableIs
    <3>5. n[r] <= i - b
      BY <2>3, <3>1, <3>3, <3>4
    <3> QED
      BY <2>3, <3>2, <3>3, <3>5
  <2>6. pc'[r] = IF short THEN "idle" ELSE "r_copy"
    BY <1>1, <1>2
  <2>7. Len(buf[r]) = 0
    BY <2>1
  <2>8. Len(buf[r]) <= n[r]
    BY <2>3, <2>7
  <2> HIDE DEF short
  <2>9. CASE short
    BY <2>6, <2>9 DEF ReaderKnows, ReadPC
  <2>10. CASE ~short
    BY <1>1, <1>4, <2>1, <2>5, <2>6, <2>7, <2>8, <2>10
       DEF ReaderKnows, ReadPC, owner, segment, history
  <2> QED
    BY <2>9, <2>10
<1>6. WriterKnows(w)' /\ \A u \in Segments : StreamInv(u)'
  BY <1>1, <1>4, DataElsewhere
<1> QED
  BY <1>4, <1>5, <1>6 DEF DataInv

\* A byte is copied to a free place: no unread byte is there, and none of the
\* call's own.
LEMMA DataWriteByte ==
  ASSUME NEW w, NEW r, SingleWriter(w), SingleReader(r), RingInv(w, r), WriteByte(w)
  PROVE  DataInv(w, r)'
<1> DEFINE s == region[w]
           a == Len(sent[s])
           b == Len(received[s])
           i == Len(buf[w])
           x == count - n[w] + i + 1
           place == (a + i) % SIZE
<1>1. /\ UNCHANGED <<head, tail, capacity, owner, pc, h, t, cap, n, count, history>>
      /\ pc[w] = "w_copy" /\ i < n[w]
      /\ bytes' = [bytes EXCEPT ![s][Mask(h[w] + i, cap[w])] = x]
      /\ buf' = [buf EXCEPT ![w] = Append(@, x)]
  BY DEF WriteByte
<1>2. /\ w \in Processes /\ r \in Processes /\ w # r /\ s \in Segments
      /\ SIZE \in Nat \ {0} /\ MaxBytes \in Nat
  BY <1>1, Places DEF WritePC
<1>3. DataTypes /\ StreamInv(s)
  BY <1>2 DEF RingInv, DataInv
<1>4. /\ n[w] <= count /\ cap[w] = SIZE /\ h[w] = head[s] /\ a + n[w] < b + SIZE
      /\ \A j \in 1 .. i : /\ buf[w][j] \in Byte
                           /\ bytes[s][(a + j - 1) % SIZE] = buf[w][j]
  BY <1>1 DEF RingInv, DataInv, WriterKnows, WritePC
<1>5. /\ a \in Nat /\ b \in Nat /\ b <= a /\ a < b + SIZE /\ h[w] = a % SIZE
      /\ i \in Nat /\ n[w] \in Nat /\ count \in Nat /\ count <= MaxBytes
      /\ bytes[s] \in [0 .. SIZE-1 -> Nat] /\ buf[w] \in Seq(Nat)
  <2>1. count <= MaxBytes
    BY <1>2, <1>3 DEF DataTypes
  <2> QED
    BY <1>2, <1>3, <1>4, <2>1, SegmentIs, ProcessIs DEF RingInv
<1> HIDE DEF a, b, i
<1>a. /\ i < n[w] /\ n[w] <= count /\ count <= MaxBytes /\ a + n[w] < b + SIZE
      /\ a \in Nat /\ b \in Nat /\ b <= a /\ i \in Nat /\ n[w] \in Nat /\ count \in Nat
      /\ SIZE \in Nat \ {0} /\ MaxBytes \in Nat
  BY <1>1, <1>2, <1>4, <1>5
<1>6. x \in Byte /\ x \in Nat
  BY <1>a DEF Byte
<1>7. Mask(h[w] + i, cap[w]) = place /\ place \in 0 .. SIZE-1
  BY <1>4, <1>5, PlaceIs
<1> HIDE DEF x, place
<1>8. /\ bytes'[s] = [bytes[s] EXCEPT ![place] = x]
      /\ \A u \in Segments \ {s} : bytes'[u] = bytes[u]
      /\ bytes' \in [Segments -> [0 .. SIZE-1 -> Nat]]
  BY <1>1, <1>2, <1>3, <1>6, <1>7 DEF DataTypes
<1>9. buf'[w] = Append(buf[w], x) /\ buf' \in [Processes -> Seq(Nat)]
      /\ buf'[r] = buf[r]
  <2> DEFINE y == Append(buf[w], x)
  <2>1. y \in Seq(Nat)
    BY <1>5, <1>6
  <2>2. buf \in [Processes -> Seq(Nat)] /\ buf' = [buf EXCEPT ![w] = y]
    BY <1>1, <1>3 DEF DataTypes
  <2> HIDE DEF y
  <2>3. buf'[w] = y /\ buf' \in [Processes -> Seq(Nat)] /\ buf'[r] = buf[r]
    BY <1>2, <2>1, <2>2
  <2> QED
    BY <2>3 DEF y
<1>10. DataTypes'
  BY <1>1, <1>3, <1>8, <1>9 DEF DataTypes, history
<1>11. \A k \in Int : b <= k /\ k < a + i => k % SIZE # place
  <2> SUFFICES ASSUME NEW k \in Int, b <= k, k < a + i
               PROVE  k % SIZE # place
    OBVIOUS
  <2> DEFINE m == a + i
  <2>1. m \in Int /\ k < m /\ m < k + SIZE
    BY <1>a
  <2> HIDE DEF m
  <2>2. k % SIZE # m % SIZE
    BY <1>2, <2>1, DistinctRemainders
  <2> QED
    BY <2>2 DEF m, place
<1>12. \A k \in Int : b <= k /\ k < a + i => bytes'[s][k % SIZE] = bytes[s][k % SIZE]
  <2>1. \A k \in Int : k % SIZE \in 0 .. SIZE-1
    BY <1>2, Quotient
  <2> QED
    BY <1>5, <1>8, <1>11, <2>1
<1>13. StreamInv(s)'
  <2>1. \A k \in b + 1 .. a : k - 1 \in Int /\ b <= k - 1 /\ k - 1 < a + i
    BY <1>5
  <2>2. \A k \in b + 1 .. a : bytes[s][(k - 1) % SIZE] = sent[s][k]
    BY <1>3 DEF StreamInv, a, b
  <2>3. \A k \in b + 1 .. a : bytes'[s][(k - 1) % SIZE] = sent[s][k]
    BY <1>12, <2>1, <2>2
  <2>4. /\ head'[s] = head[s] /\ tail'[s] = tail[s] /\ capacity'[s] = capacity[s]
        /\ sent'[s] = sent[s] /\ received'[s] = received[s] /\ region'[w] = region[w]
    BY <1>1 DEF history, owner
  <2>5. (bytes[s])' = bytes'[s]
    BY <2>4
  <2> QED
    BY <1>3, <2>3, <2>4, <2>5 DEF StreamInv, a, b
<1>14. \A u \in Segments : StreamInv(u)'
  <2> SUFFICES ASSUME NEW u \in Segments, u # s
               PROVE  StreamInv(u)'
    BY <1>1, <1>13 DEF owner
  <2>1. StreamInv(u) /\ bytes'[u] = bytes[u]
    BY <1>8 DEF RingInv, DataInv
  <2> QED
    BY <1>1, <2>1, StreamKeeps DEF history
<1>15. WriterKnows(w)'
  <2> DEFINE l == Len(buf'[w])
             Copied(j) == /\ buf'[w][j] \in Byte
                          /\ bytes'[s][(a + j - 1) % SIZE] = buf'[w][j]
  <2>1. l = i + 1 /\ l <= n[w]
        /\ \A j \in 1 .. i : buf'[w][j] = buf[w][j]
    BY <1>1, <1>5, <1>9 DEF i
  <2>6. buf'[w][i + 1] = x
    BY <1>5, <1>9 DEF i
  <2>2. ASSUME NEW j \in 1 .. i
        PROVE  Copied(j)
    <3> DEFINE k == a + j - 1
    <3>1. k \in Int /\ b <= k /\ k < a + i
      BY <1>5
    <3>2. bytes'[s][k % SIZE] = bytes[s][k % SIZE]
      BY <1>12, <3>1
    <3> QED
      BY <1>4, <2>1, <3>2
  <2>3. Copied(i + 1)
    <3>1. a + (i + 1) - 1 = a + i
      BY <1>5
    <3>2. bytes'[s][place] = x
      BY <1>5, <1>7, <1>8
    <3>3. (a + (i + 1) - 1) % SIZE = place
      BY <3>1 DEF place
    <3>4. x \in Byte
      BY <1>6
    <3>5. bytes'[s][(a + (i + 1) - 1) % SIZE] = x
      BY <3>2, <3>3
    <3> QED
      BY <2>6, <3>4, <3>5
  <2>4. \A j \in 1 .. l : Copied(j)
    <3>1. \A j \in 1 .. l : j \in 1 .. i \/ j = i + 1
      BY <1>5, <2>1
    <3> HIDE DEF Copied, l
    <3> QED
      BY <2>2, <2>3, <3>1
  <2>5. n[w] > 0
    BY <1>1, <1>5
  <2> QED
    BY <1>1, <1>4, <2>1, <2>4, <2>5 DEF WriterKnows, WritePC, owner, history, a, b
<1>16. ReaderKnows(r)'
  BY <1>1, <1>9 DEF RingInv, DataInv, ReaderKnows, owner, history
<1> QED
  BY <1>10, <1>14, <1>15, <1>16 DEF DataInv

\* What has been copied is sent.
LEMMA SentIs ==
  ASSUME NEW w, NEW r, SingleWriter(w), SingleReader(r), RingInv(w, r), WriteStoreHead(w)
  PROVE  LET s == region[w]
             a == Len(sent[s])
             m == n[w]
         IN  /\ s \in Segments /\ buf[w] \in Seq(Byte) /\ Len(buf[w]) = m
             /\ m \in 1 .. MaxChunk
             /\ sent' = [sent EXCEPT ![s] = @ \o buf[w]]
             /\ head' = [head EXCEPT ![s] = (a + m) % SIZE]
             /\ sent[s] \o buf[w] \in Seq(Byte) /\ Len(sent[s] \o buf[w]) = a + m
             /\ \A i \in 1 .. a : (sent[s] \o buf[w])[i] = sent[s][i]
             /\ \A j \in 1 .. m : (sent[s] \o buf[w])[a + j] = buf[w][j]
             /\ a \in Nat /\ a + m < Len(received[s]) + SIZE
<1> DEFINE s == region[w]
           a == Len(sent[s])
           m == n[w]
<1>1. /\ pc[w] = "w_copy" /\ Len(buf[w]) = m
      /\ head' = [head EXCEPT ![s] = Mask(h[w] + m, cap[w])]
      /\ sent' = [sent EXCEPT ![s] = @ \o buf[w]]
  BY DEF WriteStoreHead, Goto
<1>2. /\ w \in Processes /\ s \in Segments /\ SIZE \in Nat \ {0} /\ MaxChunk \in Nat
  BY <1>1, Places DEF WritePC
<1>3. DataTypes
  BY DEF RingInv, DataInv
<1>4. /\ m > 0 /\ cap[w] = SIZE /\ h[w] = head[s] /\ a + m < Len(received[s]) + SIZE
      /\ \A j \in 1 .. Len(buf[w]) : buf[w][j] \in Byte
  BY <1>1 DEF RingInv, DataInv, WriterKnows, WritePC
<1>5. /\ a \in Nat /\ sent[s] \in Seq(Byte) /\ h[w] = a % SIZE
      /\ m \in Nat /\ buf[w] \in Seq(Nat)
  BY <1>2, <1>3, <1>4, SegmentIs, ProcessIs DEF RingInv
<1>6. m \in 1 .. MaxChunk
  BY <1>2, <1>3, <1>4 DEF DataTypes
<1>7. buf[w] \in Seq(Byte)
  <2>1. buf[w] \in [1 .. Len(buf[w]) -> Byte]
    BY <1>4, <1>5
  <2>2. buf[w] \in [1 .. m -> Byte]
    BY <1>1, <2>1
  <2> HIDE DEF m
  <2> QED
    BY <1>5, <2>2, SeqDef
<1>8. Mask(h[w] + m, cap[w]) = (a + m) % SIZE
  <2> HIDE DEF a, m
  <2> QED
    BY <1>4, <1>5, PlaceIs
<1>9. /\ sent[s] \o buf[w] \in Seq(Byte) /\ Len(sent[s] \o buf[w]) = a + m
      /\ \A i \in 1 .. a + m :
           (sent[s] \o buf[w])[i] = IF i <= a THEN sent[s][i] ELSE buf[w][i - a]
  <2> DEFINE l == Len(buf[w])
  <2>1. /\ sent[s] \o buf[w] \in Seq(Byte) /\ Len(sent[s] \o buf[w]) = a + l
        /\ \A i \in 1 .. a + l :
             (sent[s] \o buf[w])[i] = IF i <= a THEN sent[s][i] ELSE buf[w][i - a]
    BY <1>5, <1>7, ConcatProperties
  <2>2. l = m
    BY <1>1
  <2> HIDE DEF a, m, l
  <2> QED
    BY <2>1, <2>2
<1> HIDE DEF s
<1>10. /\ \A i \in 1 .. a : (sent[s] \o buf[w])[i] = sent[s][i]
       /\ \A j \in 1 .. m : (sent[s] \o buf[w])[a + j] = buf[w][j]
  <2> DEFINE c == sent[s] \o buf[w]
  <2>1. \A i \in 1 .. a + m : c[i] = IF i <= a THEN sent[s][i] ELSE buf[w][i - a]
    BY <1>9
  <2>2. \A i \in 1 .. a : i \in 1 .. a + m /\ i <= a
    BY <1>5
  <2>3. \A j \in 1 .. m : a + j \in 1 .. a + m /\ ~(a + j <= a) /\ (a + j) - a = j
    BY <1>5
  <2> HIDE DEF a, m, c
  <2>4. \A i \in 1 .. a : c[i] = sent[s][i]
    BY <2>1, <2>2
  <2>5. \A j \in 1 .. m : c[a + j] = buf[w][j]
    BY <2>1, <2>3
  <2> QED
    BY <2>4, <2>5 DEF c
<1> QED
  BY <1>1, <1>2, <1>4, <1>5, <1>6, <1>7, <1>8, <1>9, <1>10 DEF s

LEMMA DataWriteStoreHead ==
  ASSUME NEW w, NEW r, SingleWriter(w), SingleReader(r), RingInv(w, r), WriteStoreHead(w)
  PROVE  DataInv(w, r)'
<1> DEFINE s == region[w]
           a == Len(sent[s])
           b == Len(received[s])
           m == n[w]
           c == sent[s] \o buf[w]
<1>1. /\ UNCHANGED <<tail, capacity, bytes, owner, args, received>>
      /\ pc[w] = "w_copy" /\ pc' = [pc EXCEPT ![w] = "idle"]
  BY DEF WriteStoreHead, Goto
<1>2. /\ w \in Processes /\ r \in Processes /\ w # r /\ DOMAIN pc = Processes
      /\ SIZE \in Nat \ {0} /\ s \in Segments /\ capacity[s] = SIZE
  BY <1>1, Places DEF WritePC
<1>3. DataTypes /\ StreamInv(s)
  BY <1>2 DEF RingInv, DataInv
<1>4. /\ Len(buf[w]) = m /\ m \in 1 .. MaxChunk
      /\ sent' = [sent EXCEPT ![s] = c] /\ head' = [head EXCEPT ![s] = (a + m) % SIZE]
      /\ c \in Seq(Byte) /\ Len(c) = a + m
      /\ \A i \in 1 .. a : c[i] = sent[s][i]
      /\ \A j \in 1 .. m : c[a + j] = buf[w][j]
      /\ a + m < b + SIZE
  BY SentIs
<1>5. /\ a \in Nat /\ b \in Nat /\ b <= a /\ m \in Nat
  BY <1>2, <1>3, SegmentIs, ProcessIs DEF RingInv
<1>6. (a + m) % SIZE \in Nat
  <2> DEFINE d == a + m
  <2>1. d \in Int
    BY <1>5
  <2> HIDE DEF d
  <2>2. d % SIZE \in 0 .. SIZE-1
    BY <1>2, <2>1, Quotient
  <2> QED
    BY <1>2, <2>2 DEF d
<1> HIDE DEF c
<1>7. /\ sent'[s] = c /\ head'[s] = (a + m) % SIZE
      /\ \A u \in Segments \ {s} : sent'[u] = sent[u] /\ head'[u] = head[u]
      /\ sent' \in [Segments -> Seq(Byte)] /\ head' \in [Segments -> Nat]
  <2> DEFINE d == (a + m) % SIZE
  <2>1. d \in Nat
    BY <1>6
  <2>2. head' = [head EXCEPT ![s] = d]
    BY <1>4
  <2> HIDE DEF d
  <2>3. sent \in [Segments -> Seq(Byte)] /\ head \in [Segments -> Nat]
    BY <1>3 DEF DataTypes
  <2>4. /\ sent'[s] = c /\ sent' \in [Segments -> Seq(Byte)]
        /\ \A u \in Segments \ {s} : sent'[u] = sent[u]
    BY <1>2, <1>4, <2>3
  <2>5. /\ head'[s] = d /\ head' \in [Segments -> Nat]
        /\ \A u \in Segments \ {s} : head'[u] = head[u]
    BY <1>2, <2>1, <2>2, <2>3
  <2> QED
    BY <2>4, <2>5 DEF d
<1>8. DataTypes'
  BY <1>1, <1>3, <1>7 DEF DataTypes, args
<1>9. StreamInv(s)'
  <2>1. /\ b <= a + m /\ a + m < b + SIZE
    BY <1>4, <1>5
  <2>2. \A i \in 1 .. b : received[s][i] = c[i]
    <3>1. \A i \in 1 .. b : received[s][i] = sent[s][i]
      BY <1>3 DEF StreamInv
    <3>2. \A i \in 1 .. b : i \in 1 .. a
      BY <1>5
    <3> HIDE DEF b
    <3> QED
      BY <1>4, <3>1, <3>2
  <2>3. \A k \in b + 1 .. a + m : bytes[s][(k - 1) % SIZE] = c[k]
    <3> SUFFICES ASSUME NEW k \in b + 1 .. a + m
                 PROVE  bytes[s][(k - 1) % SIZE] = c[k]
      OBVIOUS
    <3>1. CASE k <= a
      <4>1. k \in b + 1 .. a /\ k \in 1 .. a
        BY <1>5, <3>1
      <4>2. bytes[s][(k - 1) % SIZE] = sent[s][k]
        BY <1>3, <4>1 DEF StreamInv
      <4>3. c[k] = sent[s][k]
        BY <1>4, <4>1
      <4> QED
        BY <4>2, <4>3
    <3>2. CASE k > a
      <4> DEFINE j == k - a
      <4>1. j \in 1 .. m /\ a + j = k /\ a + j - 1 = k - 1
        BY <1>5, <3>2
      <4>2. \A i \in 1 .. m : bytes[s][(a + i - 1) % SIZE] = buf[w][i]
        BY <1>1, <1>4 DEF RingInv, DataInv, WriterKnows, WritePC
      <4> HIDE DEF j, a, m
      <4>3. bytes[s][(a + j - 1) % SIZE] = buf[w][j] /\ c[a + j] = buf[w][j]
        BY <1>4, <4>1, <4>2
      <4> QED
        BY <4>1, <4>3
    <3>3. k <= a \/ k > a
      BY <1>5
    <3> QED
      BY <3>1, <3>2, <3>3
  <2>4. /\ received'[s] = received[s] /\ tail'[s] = tail[s] /\ bytes'[s] = bytes[s]
        /\ capacity'[s] # 0 /\ tail[s] = b % SIZE /\ region' = region
    BY <1>1, <1>2, <1>3 DEF owner, StreamInv
  <2>5. Len(sent'[s]) = a + m
    BY <1>4, <1>7
  <2> HIDE DEF a, m
  <2> QED
    BY <1>7, <2>1, <2>2, <2>3, <2>4, <2>5 DEF StreamInv
<1>10. \A u \in Segments : StreamInv(u)'
  <2> SUFFICES ASSUME NEW u \in Segments, u # s
               PROVE  StreamInv(u)'
    BY <1>1, <1>9 DEF owner
  <2>1. StreamInv(u) /\ sent'[u] = sent[u] /\ head'[u] = head[u]
    BY <1>7 DEF RingInv, DataInv
  <2> QED
    BY <1>1, <2>1, StreamKeeps
<1>11. WriterKnows(w)'
  <2>1. pc'[w] = "idle"
    BY <1>1, <1>2
  <2> QED
    BY <2>1 DEF WriterKnows, WritePC
<1>12. ReaderKnows(r)'
  <2> DEFINE u == region[r]
  <2>1. pc'[r] \in ReadPC => u \in Segments
    BY <1>1, <1>2, Places
  <2>2. ASSUME NEW v \in Segments
        PROVE  /\ Len(sent'[v]) >= Len(sent[v])
               /\ \A i \in 1 .. Len(sent[v]) : sent'[v][i] = sent[v][i]
    <3>1. CASE v = s
      BY <1>4, <1>5, <1>7, <3>1
    <3>2. CASE v # s
      <4>1. sent'[v] = sent[v] /\ Len(sent[v]) \in Nat
        BY <1>7, <3>2, SegmentIs DEF RingInv
      <4> QED
        BY <4>1
    <3> QED
      BY <3>1, <3>2
  <2>3. ReaderKnows(r) /\ pc'[r] = pc[r] /\ region'[r] = u
    BY <1>1, <1>2 DEF RingInv, DataInv, owner
  <2> QED
    BY <1>1, <1>2, <1>3, <1>8, <2>1, <2>2, <2>3, ReaderKeeps DEF args
<1> QED
  BY <1>8, <1>10, <1>11, <1>12 DEF DataInv

\* The byte that is copied is the next one of what is sent.
LEMMA DataReadByte ==
  ASSUME NEW w, NEW r, SingleWriter(w), SingleReader(r), RingInv(w, r), ReadByte(r)
  PROVE  DataInv(w, r)'
<1> DEFINE s == region[r]
           a == Len(sent[s])
           b == Len(received[s])
           i == Len(buf[r])
           x == bytes[s][Mask(t[r] + i, cap[r])]
<1>1. /\ UNCHANGED <<segment, owner, pc, h, t, cap, n, count, history>>
      /\ pc[r] = "r_copy" /\ i < n[r]
      /\ buf' = [buf EXCEPT ![r] = Append(@, x)]
  BY DEF ReadByte
<1>2. /\ w \in Processes /\ r \in Processes /\ w # r /\ s \in Segments
      /\ SIZE \in Nat \ {0}
  BY <1>1, Places DEF ReadPC
<1>3. DataTypes /\ StreamInv(s)
  BY <1>2 DEF RingInv, DataInv
<1>4. /\ cap[r] = SIZE /\ t[r] = tail[s] /\ b + n[r] <= a /\ n[r] > 0
      /\ \A j \in 1 .. i : buf[r][j] = sent[s][b + j]
  BY <1>1 DEF RingInv, DataInv, ReaderKnows, ReadPC
<1>5. /\ a \in Nat /\ b \in Nat /\ t[r] = b % SIZE /\ sent[s] \in Seq(Byte)
      /\ i \in Nat /\ n[r] \in Nat /\ buf[r] \in Seq(Nat)
  BY <1>2, <1>3, <1>4, SegmentIs, ProcessIs DEF RingInv
<1>6. x = sent[s][b + i + 1] /\ b + i + 1 \in 1 .. a
  <2> DEFINE k == b + i + 1
  <2> HIDE DEF i
  <2>1. Mask(t[r] + i, cap[r]) = (b + i) % SIZE
    <3> HIDE DEF b
    <3> QED
      BY <1>4, <1>5, PlaceIs
  <2>2. k \in b + 1 .. a /\ k \in 1 .. a /\ k - 1 = b + i
    BY <1>1, <1>4, <1>5
  <2>3. \A j \in b + 1 .. a : bytes[s][(j - 1) % SIZE] = sent[s][j]
    BY <1>3 DEF StreamInv
  <2> HIDE DEF k, a, b
  <2>4. bytes[s][(k - 1) % SIZE] = sent[s][k]
    BY <2>2, <2>3
  <2>5. (b + i) % SIZE = (k - 1) % SIZE
    BY <2>2
  <2>6. bytes[s][Mask(t[r] + i, cap[r])] = sent[s][k]
    BY <2>1, <2>4, <2>5
  <2> QED
    BY <2>2, <2>6 DEF k
<1>7. x \in Nat
  <2> DEFINE k == b + i + 1
             q == sent[s]
  <2>1. q \in Seq(Byte) /\ k \in 1 .. Len(q)
    BY <1>5, <1>6
  <2>2. x = q[k]
    BY <1>6
  <2> HIDE DEF k, q, x
  <2>3. q[k] \in Byte
    BY <2>1, ElementOfSeq
  <2> QED
    BY <2>2, <2>3, SegmentAssumption DEF Byte
<1> HIDE DEF x
<1>8. /\ buf'[r] = Append(buf[r], x) /\ buf' \in [Processes -> Seq(Nat)]
      /\ buf'[w] = buf[w]
  <2> DEFINE y == Append(buf[r], x)
  <2>1. y \in Seq(Nat)
    BY <1>5, <1>7
  <2>2. buf \in [Processes -> Seq(Nat)] /\ buf' = [buf EXCEPT ![r] = y]
    BY <1>1, <1>3 DEF DataTypes
  <2> HIDE DEF y
  <2>3. buf'[r] = y /\ buf' \in [Processes -> Seq(Nat)] /\ buf'[w] = buf[w]
    BY <1>2, <2>1, <2>2
  <2> QED
    BY <2>3 DEF y
<1>9. DataTypes'
  BY <1>1, <1>3, <1>8 DEF DataTypes, segment, history
<1>10. ReaderKnows(r)'
  <2> DEFINE l == Len(buf'[r])
  <2>1. /\ l = i + 1 /\ l <= n[r]
        /\ \A j \in 1 .. i : buf'[r][j] = buf[r][j]
    BY <1>1, <1>5, <1>8
  <2>2. buf'[r][i + 1] = x
    BY <1>5, <1>8
  <2> HIDE DEF i, l
  <2>3. \A j \in 1 .. l : buf'[r][j] = sent[s][b + j]
    <3> SUFFICES ASSUME NEW j \in 1 .. l
                 PROVE  buf'[r][j] = sent[s][b + j]
      OBVIOUS
    <3>1. j \in 1 .. i \/ j = i + 1
      BY <1>5, <2>1
    <3>2. CASE j \in 1 .. i
      <4> HIDE DEF b
      <4> QED
        BY <1>4, <2>1, <3>2
    <3>3. CASE j = i + 1
      <4>1. b \in Nat /\ i \in Nat
        BY <1>5
      <4>2. buf'[r][j] = x
        BY <2>2, <3>3
      <4> HIDE DEF b
      <4>3. b + j = b + i + 1
        BY <3>3, <4>1
      <4> QED
        BY <1>6, <4>2, <4>3
    <3> QED
      BY <3>1, <3>2, <3>3
  <2> QED
    BY <1>1, <1>4, <2>1, <2>3 DEF ReaderKnows, ReadPC, segment, owner, history, l
<1>11. WriterKnows(w)' /\ \A u \in Segments : StreamInv(u)'
  BY <1>1, <1>8, DataElsewhere
<1> QED
  BY <1>9, <1>10, <1>11 DEF DataInv

\* What has been copied is received, and was sent next.
LEMMA ReceivedIs ==
  ASSUME NEW w, NEW r, SingleWriter(w), SingleReader(r), RingInv(w, r), ReadStoreTail(r)
  PROVE  LET s == region[r]
             b == Len(received[s])
             m == n[r]
             c == received[s] \o buf[r]
         IN  /\ s \in Segments /\ m \in 1 .. MaxChunk
             /\ received' = [received EXCEPT ![s] = c]
             /\ tail' = [tail EXCEPT ![s] = (b + m) % SIZE]
             /\ c \in Seq(Byte) /\ Len(c) = b + m
             /\ \A i \in 1 .. b + m : c[i] = sent[s][i]
             /\ b \in Nat /\ b + m <= Len(sent[s])
<1> DEFINE s == region[r]
           a == Len(sent[s])
           b == Len(received[s])
           m == n[r]
           c == received[s] \o buf[r]
<1>1. /\ pc[r] = "r_copy" /\ Len(buf[r]) = m
      /\ tail' = [tail EXCEPT ![s] = Mask(t[r] + m, cap[r])]
      /\ received' = [received EXCEPT ![s] = c]
  BY DEF ReadStoreTail, Goto
<1>2. /\ r \in Processes /\ s \in Segments /\ SIZE \in Nat \ {0} /\ MaxChunk \in Nat
  BY <1>1, Places DEF ReadPC
<1>3. DataTypes /\ StreamInv(s)
  BY <1>2 DEF RingInv, DataInv
<1>4. /\ m > 0 /\ cap[r] = SIZE /\ t[r] = tail[s] /\ b + m <= a
      /\ \A j \in 1 .. Len(buf[r]) : buf[r][j] = sent[s][b + j]
  BY <1>1 DEF RingInv, DataInv, ReaderKnows, ReadPC
<1>5. /\ a \in Nat /\ b \in Nat /\ sent[s] \in Seq(Byte) /\ received[s] \in Seq(Byte)
      /\ t[r] = b % SIZE /\ m \in Nat /\ buf[r] \in Seq(Nat)
  BY <1>2, <1>3, <1>4, SegmentIs, ProcessIs DEF RingInv
<1>6. m \in 1 .. MaxChunk
  BY <1>2, <1>3, <1>4 DEF DataTypes
<1>7. buf[r] \in Seq(Byte)
  <2>1. \A j \in 1 .. m : b + j \in 1 .. a
    BY <1>4, <1>5
  <2>2. \A k \in 1 .. a : sent[s][k] \in Byte
    BY <1>5, ElementOfSeq
  <2> HIDE DEF a, b
  <2>3. \A j \in 1 .. Len(buf[r]) : buf[r][j] \in Byte
    BY <1>1, <1>4, <2>1, <2>2
  <2>4. buf[r] \in [1 .. Len(buf[r]) -> Byte]
    BY <1>5, <2>3
  <2>5. buf[r] \in [1 .. m -> Byte]
    BY <1>1, <2>4
  <2> HIDE DEF m
  <2> QED
    BY <1>5, <2>5, SeqDef
<1>8. Mask(t[r] + m, cap[r]) = (b + m) % SIZE
  <2> HIDE DEF b, m
  <2> QED
    BY <1>4, <1>5, PlaceIs
<1>9. /\ c \in Seq(Byte) /\ Len(c) = b + m
      /\ \A i \in 1 .. b + m : c[i] = IF i <= b THEN received[s][i] ELSE buf[r][i - b]
  <2> DEFINE l == Len(buf[r])
  <2>1. /\ c \in Seq(Byte) /\ Len(c) = b + l
        /\ \A i \in 1 .. b + l : c[i] = IF i <= b THEN received[s][i] ELSE buf[r][i - b]
    BY <1>5, <1>7, ConcatProperties
  <2>2. l = m
    BY <1>1
  <2> HIDE DEF b, m, l
  <2> QED
    BY <2>1, <2>2
<1> HIDE DEF c
<1>10. \A i \in 1 .. b + m : c[i] = sent[s][i]
  <2> SUFFICES ASSUME NEW i \in 1 .. b + m
               PROVE  c[i] = sent[s][i]
    OBVIOUS
  <2>1. CASE i <= b
    <3>1. i \in 1 .. b
      BY <1>5, <2>1
    <3>2. received[s][i] = sent[s][i]
      BY <1>3, <3>1 DEF StreamInv
    <3> HIDE DEF b
    <3> QED
      BY <1>9, <2>1, <3>2
  <2>2. CASE i > b
    <3> DEFINE j == i - b
    <3>1. j \in 1 .. m /\ b + j = i /\ ~(i <= b)
      BY <1>5, <2>2
    <3>2. \A k \in 1 .. m : buf[r][k] = sent[s][b + k]
      BY <1>1, <1>4
    <3>3. c[i] = buf[r][j]
      BY <1>9, <3>1
    <3> HIDE DEF j, b, m
    <3> QED
      BY <3>1, <3>2, <3>3
  <2>3. i <= b \/ i > b
    BY <1>5
  <2> QED
    BY <2>1, <2>2, <2>3
<1> HIDE DEF s
<1> QED
  BY <1>1, <1>2, <1>4, <1>5, <1>6, <1>8, <1>9, <1>10 DEF s, c

LEMMA DataReadStoreTail ==
  ASSUME NEW w, NEW r, SingleWriter(w), SingleReader(r), RingInv(w, r), ReadStoreTail(r)
  PROVE  DataInv(w, r)'
<1> DEFINE s == region[r]
           a == Len(sent[s])
           b == Len(received[s])
           m == n[r]
           c == received[s] \o buf[r]
<1>1. /\ UNCHANGED <<head, capacity, bytes, owner, args, sent>>
      /\ pc[r] = "r_copy" /\ pc' = [pc EXCEPT ![r] = "idle"]
  BY DEF ReadStoreTail, Goto
<1>2. /\ w \in Processes /\ r \in Processes /\ w # r /\ DOMAIN pc = Processes
      /\ SIZE \in Nat \ {0} /\ s \in Segments
  BY <1>1, Places DEF ReadPC
<1>3. DataTypes /\ StreamInv(s)
  BY <1>2 DEF RingInv, DataInv
<1>4. /\ m \in 1 .. MaxChunk
      /\ received' = [received EXCEPT ![s] = c] /\ tail' = [tail EXCEPT ![s] = (b + m) % SIZE]
      /\ c \in Seq(Byte) /\ Len(c) = b + m
      /\ \A i \in 1 .. b + m : c[i] = sent[s][i]
      /\ b + m <= a
  BY ReceivedIs
<1>5. /\ a \in Nat /\ b \in Nat /\ b <= a /\ a < b + SIZE /\ m \in Nat
  BY <1>2, <1>3, SegmentIs, ProcessIs DEF RingInv
<1> HIDE DEF c
<1>6. /\ received'[s] = c /\ tail'[s] = (b + m) % SIZE
      /\ \A u \in Segments \ {s} : received'[u] = received[u] /\ tail'[u] = tail[u]
      /\ received' \in [Segments -> Seq(Byte)] /\ tail' \in [Segments -> Nat]
  <2> DEFINE e == b + m
             d == e % SIZE
  <2>1. e \in Int
    BY <1>5
  <2>2. d \in 0 .. SIZE-1
    <3> HIDE DEF e
    <3> QED
      BY <1>2, <2>1, Quotient DEF d
  <2>3. d \in Nat
    BY <1>2, <2>2
  <2>4. tail' = [tail EXCEPT ![s] = d]
    BY <1>4
  <2> HIDE DEF d, e
  <2>5. received \in [Segments -> Seq(Byte)] /\ tail \in [Segments -> Nat]
    BY <1>3 DEF DataTypes
  <2>6. /\ received'[s] = c /\ received' \in [Segments -> Seq(Byte)]
        /\ \A u \in Segments \ {s} : received'[u] = received[u]
    BY <1>2, <1>4, <2>5
  <2>7. /\ tail'[s] = d /\ tail' \in [Segments -> Nat]
        /\ \A u \in Segments \ {s} : tail'[u] = tail[u]
    BY <1>2, <2>3, <2>4, <2>5
  <2> QED
    BY <2>6, <2>7 DEF d, e
<1>7. DataTypes'
  BY <1>1, <1>3, <1>6 DEF DataTypes, args
<1>8. StreamInv(s)'
  <2>1. b + m <= a /\ a < b + m + SIZE /\ \A k \in b + m + 1 .. a : k \in b + 1 .. a
    BY <1>2, <1>4, <1>5, SMTT(30)
  <2>2. \A k \in b + 1 .. a : bytes[s][(k - 1) % SIZE] = sent[s][k]
    BY <1>3 DEF StreamInv
  <2>3. /\ sent'[s] = sent[s] /\ head'[s] = head[s] /\ bytes'[s] = bytes[s]
        /\ capacity'[s] = capacity[s] /\ region' = region
    BY <1>1 DEF owner
  <2>4. Len(received'[s]) = b + m
    BY <1>4, <1>6
  <2>5. head[s] = a % SIZE /\ (capacity[s] = 0 => sent[s] = <<>>)
    BY <1>3 DEF StreamInv
  <2>6. \A k \in b + m + 1 .. a : bytes[s][(k - 1) % SIZE] = sent[s][k]
    BY <2>1, <2>2
  <2> DEFINE e == b + m
  <2>7. /\ received'[s] = c /\ Len(c) = e /\ tail'[s] = e % SIZE
        /\ e <= a /\ a < e + SIZE /\ head'[s] = a % SIZE
        /\ \A i \in 1 .. e : c[i] = sent[s][i]
        /\ \A k \in e + 1 .. a : bytes[s][(k - 1) % SIZE] = sent[s][k]
    BY <1>4, <1>6, <2>1, <2>3, <2>5, <2>6
  <2> HIDE DEF e
  <2> QED
    BY <2>3, <2>5, <2>7 DEF StreamInv
<1>9. \A u \in Segments : StreamInv(u)'
  <2> SUFFICES ASSUME NEW u \in Segments, u # s
               PROVE  StreamInv(u)'
    BY <1>1, <1>8 DEF owner
  <2>1. StreamInv(u) /\ received'[u] = received[u] /\ tail'[u] = tail[u]
    BY <1>6 DEF RingInv, DataInv
  <2> QED
    BY <1>1, <2>1, StreamKeeps
<1>10. ReaderKnows(r)'
  <2>1. pc'[r] = "idle"
    BY <1>1, <1>2
  <2> QED
    BY <2>1 DEF ReaderKnows, ReadPC
<1>11. WriterKnows(w)'
  <2> DEFINE u == region[w]
  <2>1. pc'[w] \in WritePC => u \in Segments
    BY <1>1, <1>2, Places
  <2>2. ASSUME NEW v \in Segments
        PROVE  Len(received'[v]) >= Len(received[v])
    <3>1. CASE v = s
      BY <1>4, <1>5, <1>6, <3>1
    <3>2. CASE v # s
      <4>1. received'[v] = received[v] /\ Len(received[v]) \in Nat
        BY <1>6, <3>2, SegmentIs DEF RingInv
      <4> QED
        BY <4>1
    <3> QED
      BY <3>1, <3>2
  <2>3. WriterKnows(w) /\ pc'[w] = pc[w] /\ region'[w] = u
    BY <1>1, <1>2 DEF RingInv, DataInv, owner
  <2> QED
    BY <1>1, <1>2, <1>3, <1>7, <2>1, <2>2, <2>3, WriterKeeps DEF args
<1> QED
  BY <1>7, <1>9, <1>10, <1>11 DEF DataInv

LEMMA RingStays ==
  ASSUME NEW w, NEW r, SingleWriter(w), SingleReader(r), ~Windows, RingInv(w, r), [Next]_vars
  PROVE  RingInv(w, r)'
<1>1. NameInv(w)' /\ SetUpInv(w)'
  BY NameStays, SetUpStays DEF RingInv
<1>2. /\ w \in Processes /\ r \in Processes /\ w # r /\ DOMAIN pc = Processes
      /\ region \in [Processes -> Nat]
  BY Places
<1> USE DEF WritePC, ReadPC
<1>3. CASE ShmOpen(w) \/ Truncate(w) \/ CreateFails(w)
  <2>1. /\ UNCHANGED <<segment, args, history>>
        /\ \E to \in {"idle", "n_size", "n_head"} : pc' = [pc EXCEPT ![w] = to]
        /\ \/ Attach(w)
           \/ UNCHANGED region
           \/ region' = [region EXCEPT ![w] = 0]
    BY <1>3 DEF ShmOpen, Truncate, CreateFails, Goto
  <2>2. region'[r] = region[r] /\ pc'[r] = pc[r] /\ pc'[w] \notin WritePC
    BY <1>2, <2>1 DEF Attach
  <2>3. DataInv(w, r)'
    BY <2>1, <2>2, DataQuiet
  <2> QED
    BY <1>1, <2>3 DEF RingInv
<1>4. CASE InitHead(w) \/ InitTail(w) \/ InitCapacity(w)
  BY <1>1, <1>4, DataSetUp DEF RingInv
<1>5. CASE Open(r)
  <2>1. UNCHANGED <<segment, args, history, pc>> /\ pc[r] = "idle" /\ Attach(r)
    BY <1>5 DEF Open
  <2>2. region'[w] = region[w]
    BY <1>2, <2>1 DEF Attach
  <2>3. DataInv(w, r)'
    BY <2>1, <2>2, DataQuiet
  <2> QED
    BY <1>1, <2>3 DEF RingInv
<1>6. ASSUME NEW p \in Processes, Destroy(p) \/ Fault(p)
      PROVE  RingInv(w, r)'
  <2>1. /\ UNCHANGED <<segment, args, history>>
        /\ \/ pc[p] = "idle" /\ UNCHANGED pc /\ region' = [region EXCEPT ![p] = 0]
           \/ pc' = [pc EXCEPT ![p] = "fault"] /\ UNCHANGED region
    BY <1>6 DEF Destroy, Fault, owner
  <2>2. /\ pc'[w] \in WritePC => pc'[w] = pc[w] /\ region'[w] = region[w]
        /\ pc'[r] \in ReadPC => pc'[r] = pc[r] /\ region'[r] = region[r]
    BY <1>2, <2>1
  <2>3. DataInv(w, r)'
    BY <2>1, <2>2, DataQuiet
  <2> QED
    BY <1>1, <2>3 DEF RingInv
<1>7. CASE (\E k \in Chunk : BeginWrite(w, k)) \/ WriteSteps(w)
  BY <1>1, <1>7, DataBeginWrite, DataWriteLoadHead, DataWriteLoadTail, DataWriteByte,
     DataWriteStoreHead DEF RingInv, WriteSteps
<1>8. CASE (\E k \in Chunk : BeginRead(r, k)) \/ ReadSteps(r)
  BY <1>1, <1>8, DataBeginRead, DataReadLoadHead, DataReadLoadTail, DataReadByte,
     DataReadStoreTail DEF RingInv, ReadSteps
<1>9. CASE UNCHANGED vars
  BY <1>1, <1>9, DataQuiet DEF RingInv, vars, segment, args, history
<1>10. ~CreateMapping(w)
  BY DEF CreateMapping
<1> QED
  BY <1>3, <1>4, <1>5, <1>6, <1>7, <1>8, <1>9, <1>10
     DEF Next, CreateSteps, SingleWriter, SingleReader

-----------------------------------------------------------------------------
(* The stream of a segment. *)

\* Only the last step of a call is seen in the streams, and only in the one of
\* the segment the process has mapped.
LEMMA StepSimulates ==
  ASSUME NEW w, NEW r, SingleWriter(w), SingleReader(r), RingInv(w, r), [Next]_vars,
         NEW s \in Segments
  PROVE  [Stream(s)!Next]_(Stream(s)!vars)
<1> USE DEF Stream!vars
<1>1. CASE WriteStoreHead(w)
  <2> DEFINE u == region[w]
             a == Len(sent[u])
             m == n[w]
  <2>1. /\ buf[w] \in Seq(Byte) /\ Len(buf[w]) = m /\ m \in 1 .. MaxChunk
        /\ sent' = [sent EXCEPT ![u] = @ \o buf[w]]
        /\ a \in Nat /\ a + m < Len(received[u]) + SIZE
        /\ u \in Segments
    BY <1>1, SentIs
  <2>2. UNCHANGED received /\ sent \in [Segments -> Seq(Byte)]
        /\ SIZE \in Nat \ {0} /\ MaxChunk \in Nat
    BY <1>1, Places DEF WriteStoreHead, RingInv, DataInv, DataTypes
  <2>3. CASE s # u
    BY <2>1, <2>2, <2>3
  <2>4. CASE s = u
    <3>1. sent'[s] = sent[s] \o buf[w]
      BY <2>1, <2>2, <2>4
    <3>2. Len(sent[s]) + Len(buf[w]) - Len(received[s]) <= SIZE - 1
      <4>1. Len(received[s]) \in Nat
        BY SegmentIs DEF RingInv
      <4> QED
        BY <2>1, <2>2, <2>4, <4>1, SMTT(30)
    <3>3. buf[w] \in [1 .. Len(buf[w]) -> Byte]
      BY <2>1
    <3>4. buf[w] \in [1 .. m -> 1 .. MaxBytes]
      BY <2>1, <3>3 DEF Byte
    <3> HIDE DEF m
    <3>5. buf[w] \in Stream(s)!Chunks
      BY <2>1, <3>4 DEF Stream!Chunks
    <3>6. Stream(s)!Send
      BY <2>2, <3>1, <3>2, <3>5 DEF Stream!Send
    <3> QED
      BY <3>6 DEF Stream!Next
  <2> QED
    BY <2>3, <2>4
<1>2. CASE ReadStoreTail(r)
  <2> DEFINE u == region[r]
             b == Len(received[u])
             m == n[r]
             c == received[u] \o buf[r]
  <2>1. /\ u \in Segments /\ m \in 1 .. MaxChunk
        /\ received' = [received EXCEPT ![u] = c]
        /\ c \in Seq(Byte) /\ Len(c) = b + m
        /\ \A i \in 1 .. b + m : c[i] = sent[u][i]
        /\ b \in Nat /\ b + m <= Len(sent[u])
    BY <1>2, ReceivedIs
  <2>2. UNCHANGED sent /\ received \in [Segments -> Seq(Byte)]
    BY <1>2 DEF ReadStoreTail, RingInv, DataInv, DataTypes
  <2>3. sent[s] \in Seq(Byte) /\ Len(sent[s]) \in Nat /\ MaxChunk \in Nat
    BY SegmentIs, Places DEF RingInv
  <2> HIDE DEF c
  <2>4. CASE s # u
    BY <2>1, <2>2, <2>4
  <2>5. CASE s = u
    <3> DEFINE e == b + m
    <3>1. received'[s] = c
      BY <2>1, <2>2, <2>5
    <3>2. e \in 0 .. Len(sent[s])
      BY <2>1, <2>3, <2>5
    <3>3. /\ c \in Seq(Byte) /\ Len(c) = e /\ \A i \in 1 .. e : c[i] = sent[s][i]
      BY <2>1, <2>5
    <3> HIDE DEF e
    <3>4. c = SubSeq(sent[s], 1, e)
      <4> DEFINE v == SubSeq(sent[s], 1, e)
      <4>1. v \in Seq(Byte) /\ Len(v) = e /\ \A i \in 1 .. e : v[i] = sent[s][i]
        BY <2>3, <3>2
      <4> HIDE DEF v
      <4>2. v = c
        BY <3>3, <4>1, SeqEqual
      <4> QED
        BY <4>2 DEF v
    <3>5. Stream(s)!Receive
      <4>1. e = Len(received[s]) + m /\ e <= Len(sent[s])
        BY <2>3, <2>5, <3>2 DEF e
      <4> QED
        BY <2>1, <2>2, <3>1, <3>4, <4>1 DEF Stream!Receive
    <3> QED
      BY <3>5 DEF Stream!Next
  <2> QED
    BY <2>4, <2>5
<1>3. CASE UNCHANGED history
  BY <1>3 DEF history
<1>4. CASE CreateSteps(w)
  BY <1>3, <1>4 DEF CreateSteps, ShmOpen, CreateMapping, Truncate, CreateFails, InitHead,
                    InitTail, InitCapacity
<1>5. CASE (\E k \in Chunk : BeginWrite(w, k)) \/ WriteLoadHead(w) \/ WriteLoadTail(w)
           \/ WriteByte(w)
  BY <1>3, <1>5 DEF BeginWrite, WriteLoadHead, WriteLoadTail, WriteByte
<1>6. CASE Open(r) \/ (\E k \in Chunk : BeginRead(r, k)) \/ ReadLoadHead(r) \/ ReadLoadTail(r)
           \/ ReadByte(r)
  BY <1>3, <1>6 DEF Open, BeginRead, ReadLoadHead, ReadLoadTail, ReadByte
<1>7. ASSUME NEW p \in Processes, Destroy(p) \/ Fault(p)
      PROVE  UNCHANGED history
  BY <1>7 DEF Destroy, Fault
<1>8. CASE UNCHANGED vars
  BY <1>3, <1>8 DEF vars, history
<1> QED
  BY <1>1, <1>2, <1>3, <1>4, <1>5, <1>6, <1>7, <1>8
     DEF Next, WriteSteps, ReadSteps, SingleWriter, SingleReader

\* On POSIX, with one writer and one reader, the bytes of every segment are a
\* bounded stream: write() puts all its bytes in or none, read() takes all it
\* was asked for or none, in the order they were sent, for every size of the
\* ring and however the calls, the creation of the segment and its destruction
\* are interleaved.
THEOREM RingImplementsStream ==
  ASSUME NEW w, NEW r, SingleWriter(w), SingleReader(r)
  PROVE  Spec => StreamSpec
<1> DEFINE Inv == Windows \/ RingInv(w, r)
           Simulates == Windows \/ \A s \in Segments : [Stream(s)!Next]_(Stream(s)!vars)
<1>1. Init => Inv /\ \A s \in Segments : Stream(s)!Init
  <2>1. Init => RingInv(w, r)
    BY NameInit, SetUpInit, DataInit DEF RingInv
  <2>2. ASSUME Init, NEW s \in Segments
        PROVE  Stream(s)!Init
    BY <2>2 DEF Init, Stream!Init
  <2> QED
    BY <2>1, <2>2
<1>2. Inv /\ [Next]_vars => Inv'
  <2> SUFFICES ASSUME Inv, [Next]_vars
               PROVE  Inv'
    OBVIOUS
  <2>1. UNCHANGED platform
    BY DEF Next, vars, owner, CreateSteps, ShmOpen, CreateMapping, Truncate, CreateFails,
           InitHead, InitTail, InitCapacity, BeginWrite, WriteSteps, WriteLoadHead,
           WriteLoadTail, WriteByte, WriteStoreHead, Open, BeginRead, ReadSteps,
           ReadLoadHead, ReadLoadTail, ReadByte, ReadStoreTail, Destroy, Fault
  <2>2. CASE Windows
    BY <2>1, <2>2 DEF Windows
  <2>3. CASE ~Windows
    BY <2>3, RingStays
  <2> QED
    BY <2>2, <2>3
<1>3. Inv /\ [Next]_vars => [Simulates]_history
  <2> SUFFICES ASSUME ~Windows, RingInv(w, r), [Next]_vars, NEW s \in Segments
               PROVE  [Stream(s)!Next]_(Stream(s)!vars)
    OBVIOUS
  <2> QED
    BY StepSimulates
<1> QED
  BY <1>1, <1>2, <1>3, PTL DEF Spec, StreamSpec
=============================================================================
