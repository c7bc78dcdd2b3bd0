--------------------------- MODULE Interpose_proofs ---------------------------
(***************************************************************************)
(* Proofs about Interpose and the operators of TraceReader that it uses.   *)
(* However many threads call wrapped functions, through however many       *)
(* wrappers: each call's work is done once unless an original was not      *)
(* found, or was forgotten; the bars that are computed from the trace are  *)
(* its adjacent BEGIN and END, of one call if no record was lost; and the  *)
(* statistics of its memory add up.  The getters of TraceReader are folds  *)
(* and a sort: what they have after k events is proved by induction on k,  *)
(* with a set of numbers in place of a predicate (NatSet).  The parts, in  *)
(* order: stacks and the work (WorkInv); induction and folds; sorting;     *)
(* BEGIN and END (BarsAre); sums; memory (Accounted); what the wrappers    *)
(* record, and who owns an open BEGIN (TimingInv); what the trace says.    *)
(***************************************************************************)
EXTENDS Interpose, FiniteSetTheorems, WellFoundedInduction, TLAPS

\* Where a wrapper is before and after it calls the original.
Pre == {"auto", "check", "before", "init", "install", "flag", "original", "call",
        "crashed"}
Post == {"recheck", "after", "return"}

Frames == [fn : Fns, call : Nat, pc : Pre \cup Post, i : Nat]

StackTypes ==
  /\ stack \in [Threads -> Seq(Frames)]
  /\ computed \in [Threads -> Nat]
  /\ calls \in Nat
  /\ originals \subseteq Overrides

\* The wrappers that wait for an inner one are past their original.
OuterWait ==
  \A t \in Threads : \A k \in 2 .. Len(stack[t]) : stack[t][k].pc = "recheck"

\* Whoever gets as far as the original finds the pointers set that can be.
PointersSet ==
  ~uninstalled =>
    /\ hooks_initialized => Found \subseteq originals
    /\ \A t \in Threads :
         /\ InWrapper(t, "flag") \/ (InWrapper(t, "original") /\ stack[t][1].fn \in Overrides) =>
              Found \subseteq originals
         /\ InWrapper(t, "call") => HasOriginal(t)

\* The work is done, or left out, between the innermost wrapper's two halves.
WorkDone ==
  /\ skipped \in [Threads -> SUBSET Fns]
  /\ \A t \in Threads :
       /\ computed[t] <= 1
       /\ stack[t] # <<>> /\ stack[t][1].pc \in Pre => computed[t] = 0 /\ skipped[t] = {}
       /\ stack[t] # <<>> /\ stack[t][1].pc \in Post => (computed[t] = 1 <=> skipped[t] = {})
       /\ skipped[t] \cap Found # {} \/ InWrapper(t, "crashed") => uninstalled

WorkInv == StackTypes /\ OuterWait /\ PointersSet /\ WorkDone

-----------------------------------------------------------------------------
(* Stacks *)

AtIndex(frame, n) == frame.i = n

\* The innermost wrapper goes on; nothing else changes.
LEMMA TopChanges ==
  ASSUME StackTypes, NEW t \in Threads, stack[t] # <<>>,
         NEW label \in Pre \cup Post, NEW n \in Nat,
         stack' = [stack EXCEPT ![t][1].pc = label, ![t][1].i = n]
  PROVE  /\ stack' \in [Threads -> Seq(Frames)]
         /\ Len(stack'[t]) = Len(stack[t]) /\ stack'[t] # <<>>
         /\ stack'[t][1].pc = label /\ stack'[t][1].fn = stack[t][1].fn
         /\ AtIndex(stack'[t][1], n) /\ stack'[t][1].call = stack[t][1].call
         /\ \A k \in 2 .. Len(stack[t]) : stack'[t][k] = stack[t][k]
         /\ \A u \in Threads : u # t => stack'[u] = stack[u]
<1> DEFINE s == stack[t]
           top == [s[1] EXCEPT !.pc = label, !.i = n]
<1>1. s \in Seq(Frames) /\ Len(s) \in Nat /\ Len(s) > 0 /\ DOMAIN s = 1 .. Len(s)
  BY DEF StackTypes
<1>2. s[1] \in Frames /\ top \in Frames /\ top.pc = label /\ top.fn = s[1].fn
      /\ AtIndex(top, n) /\ top.call = s[1].call
  <2>1. s[1] \in Frames
    BY ONLY <1>1
  <2> QED
    BY <2>1 DEF Frames, AtIndex
<1>3. stack' = [stack EXCEPT ![t] = [s EXCEPT ![1] = top]]
  BY <1>1, <1>2 DEF StackTypes, Frames
<1> HIDE DEF top
<1>4. /\ [s EXCEPT ![1] = top] \in Seq(Frames)
      /\ Len([s EXCEPT ![1] = top]) = Len(s)
      /\ \A k \in 1 .. Len(s) : [s EXCEPT ![1] = top][k] = IF k = 1 THEN top ELSE s[k]
  BY <1>1, <1>2
<1>5. stack'[t] = [s EXCEPT ![1] = top] /\ \A u \in Threads : u # t => stack'[u] = stack[u]
  BY <1>3 DEF StackTypes
<1>6. stack' \in [Threads -> Seq(Frames)]
  BY <1>3, <1>4 DEF StackTypes
<1> QED
  BY <1>1, <1>2, <1>4, <1>5, <1>6

\* A wrapper is entered on top of those that wait.
LEMMA WrapperEntered ==
  ASSUME StackTypes, NEW t \in Threads, NEW frame \in Frames, NEW below \in Seq(Frames),
         stack' = [stack EXCEPT ![t] = <<frame>> \o below]
  PROVE  /\ stack' \in [Threads -> Seq(Frames)]
         /\ Len(stack'[t]) = Len(below) + 1 /\ stack'[t] # <<>>
         /\ stack'[t][1] = frame
         /\ \A k \in 2 .. Len(stack'[t]) : stack'[t][k] = below[k - 1]
         /\ \A u \in Threads : u # t => stack'[u] = stack[u]
<1> DEFINE s == <<frame>> \o below
<1>1. /\ s \in Seq(Frames) /\ Len(s) = Len(below) + 1 /\ s[1] = frame
      /\ \A k \in 2 .. Len(s) : s[k] = below[k - 1]
  OBVIOUS
<1>2. s # <<>>
  BY <1>1
<1> HIDE DEF s
<1>3. stack' = [stack EXCEPT ![t] = s]
  BY DEF s
<1> QED
  BY <1>1, <1>2, <1>3 DEF StackTypes

\* A wrapper is left for the one that waits.
LEMMA WrapperLeft ==
  ASSUME StackTypes, NEW t \in Threads, stack[t] # <<>>,
         stack' = [stack EXCEPT ![t] = Tail(@)]
  PROVE  /\ stack' \in [Threads -> Seq(Frames)]
         /\ Len(stack[t]) \in Nat /\ Len(stack'[t]) = Len(stack[t]) - 1
         /\ \A k \in 1 .. Len(stack'[t]) :
              k + 1 \in 2 .. Len(stack[t]) /\ stack'[t][k] = stack[t][k + 1]
         /\ \A u \in Threads : u # t => stack'[u] = stack[u]
<1> DEFINE s == stack[t]
<1>1. s \in Seq(Frames) /\ s # <<>>
  BY DEF StackTypes
<1> HIDE DEF s
<1>2. /\ Tail(s) \in Seq(Frames) /\ Len(Tail(s)) = Len(s) - 1 /\ Len(s) \in Nat
      /\ \A k \in 1 .. Len(Tail(s)) : Tail(s)[k] = s[k + 1]
  BY <1>1
<1>3. stack' = [stack EXCEPT ![t] = Tail(s)]
  BY DEF s
<1>4. stack'[t] = Tail(s) /\ \A u \in Threads : u # t => stack'[u] = stack[u]
  BY <1>3 DEF StackTypes
<1>5. stack' \in [Threads -> Seq(Frames)]
  BY <1>2, <1>3 DEF StackTypes
<1> QED
  BY <1>2, <1>4, <1>5 DEF s

\* The innermost wrapper of a thread is a frame.
LEMMA TopFrame ==
  ASSUME StackTypes, NEW t \in Threads, stack[t] # <<>>
  PROVE  /\ stack[t][1] \in Frames /\ Len(stack[t]) \in Nat /\ Len(stack[t]) >= 1
         /\ stack[t][1].fn \in Fns /\ stack[t][1].pc \in Pre \cup Post
         /\ stack[t][1].i \in Nat
<1>1. stack[t] \in Seq(Frames)
  BY DEF StackTypes
<1>2. stack[t][1] \in Frames /\ Len(stack[t]) \in Nat /\ Len(stack[t]) >= 1
  BY <1>1
<1> QED
  BY <1>2 DEF Frames

\* A wrapper that stays in its half, and is let through only when the pointers
\* are set.
LEMMA HalfKept ==
  ASSUME WorkInv, NEW t \in Threads, stack[t] # <<>>,
         NEW label \in Pre \cup Post, NEW n \in Nat,
         Advance(t, label, n),
         stack[t][1].pc \in Pre <=> label \in Pre,
         UNCHANGED <<calls, computed, skipped, uninstalled>>,
         originals \subseteq originals', originals' \subseteq Overrides,
         ~uninstalled =>
           /\ hooks_initialized' => hooks_initialized \/ Found \subseteq originals'
           /\ label = "flag" \/ (label = "original" /\ stack[t][1].fn \in Overrides) =>
                Found \subseteq originals'
           /\ label = "call" => HasOriginal(t)
           /\ label # "crashed"
  PROVE  WorkInv'
<1>1. /\ stack' \in [Threads -> Seq(Frames)]
      /\ Len(stack'[t]) = Len(stack[t]) /\ stack'[t] # <<>>
      /\ stack'[t][1].pc = label /\ stack'[t][1].fn = stack[t][1].fn
      /\ \A k \in 2 .. Len(stack[t]) : stack'[t][k] = stack[t][k]
      /\ \A u \in Threads : u # t => stack'[u] = stack[u]
  BY TopChanges DEF WorkInv, Advance
<1>2. StackTypes'
  BY <1>1 DEF WorkInv, StackTypes
<1>3. OuterWait'
  BY <1>1 DEF WorkInv, OuterWait
<1>4. stack[t][1].pc \in Post <=> label \in Post
  BY TopFrame DEF WorkInv, Pre, Post
<1>5. WorkDone'
  BY <1>1, <1>4 DEF WorkInv, WorkDone, InWrapper
<1>6. PointersSet'
  BY <1>1 DEF WorkInv, PointersSet, InWrapper, HasOriginal
<1> QED
  BY <1>2, <1>3, <1>5, <1>6 DEF WorkInv

\* A thread leaves the originals alone, and is not at one.
LEMMA PointersKept ==
  ASSUME PointersSet, NEW t \in Threads, \A u \in Threads : u # t => stack'[u] = stack[u],
         stack'[t] # <<>> => stack'[t][1].pc \in {"auto", "recheck"},
         UNCHANGED <<hooks_initialized, originals, uninstalled>>
  PROVE  PointersSet'
<1>1. \A u \in Threads \ {t} :
         /\ InWrapper(u, "flag")' <=> InWrapper(u, "flag")
         /\ InWrapper(u, "original")' <=> InWrapper(u, "original")
         /\ InWrapper(u, "call")' <=> InWrapper(u, "call")
         /\ HasOriginal(u)' <=> HasOriginal(u)
  BY DEF InWrapper, HasOriginal
<1>2. ~InWrapper(t, "flag")' /\ ~InWrapper(t, "original")' /\ ~InWrapper(t, "call")'
  BY DEF InWrapper
<1> QED
  BY <1>1, <1>2 DEF PointersSet

\* The original was done, or left out because there is none or it was reset.
LEMMA HalfCrossed ==
  ASSUME WorkInv, NEW t \in Threads, stack[t] # <<>>, stack[t][1].pc \in {"original", "call"},
         Goto(t, "recheck"),
         UNCHANGED <<hooks_initialized, originals, calls, uninstalled>>,
         \/ computed' = [computed EXCEPT ![t] = @ + 1] /\ UNCHANGED skipped
         \/ /\ UNCHANGED computed
            /\ skipped' = [skipped EXCEPT ![t] = @ \cup {stack[t][1].fn}]
            /\ stack[t][1].fn \in Found => uninstalled
  PROVE  WorkInv'
<1>1. /\ stack' \in [Threads -> Seq(Frames)]
      /\ Len(stack'[t]) = Len(stack[t]) /\ stack'[t] # <<>>
      /\ stack'[t][1].pc = "recheck"
      /\ \A k \in 2 .. Len(stack[t]) : stack'[t][k] = stack[t][k]
      /\ \A u \in Threads : u # t => stack'[u] = stack[u]
  <2>1. "recheck" \in Pre \cup Post /\ 1 \in Nat
    BY DEF Post
  <2> QED
    BY <2>1, TopChanges DEF WorkInv, Goto, Advance
<1>2. /\ computed[t] = 0 /\ skipped[t] = {} /\ stack[t][1].fn \in Fns
      /\ computed \in [Threads -> Nat] /\ skipped \in [Threads -> SUBSET Fns]
  BY TopFrame DEF WorkInv, WorkDone, StackTypes, Pre
<1>3. /\ computed' \in [Threads -> Nat] /\ skipped' \in [Threads -> SUBSET Fns]
      /\ \A u \in Threads : u # t => computed'[u] = computed[u] /\ skipped'[u] = skipped[u]
      /\ \/ computed'[t] = 1 /\ skipped'[t] = {}
         \/ /\ computed'[t] = 0 /\ skipped'[t] = {stack[t][1].fn}
            /\ stack[t][1].fn \in Found => uninstalled
  <2>1. CASE computed' = [computed EXCEPT ![t] = @ + 1] /\ UNCHANGED skipped
    BY ONLY <1>2, <2>1
  <2>2. CASE /\ UNCHANGED computed
             /\ skipped' = [skipped EXCEPT ![t] = @ \cup {stack[t][1].fn}]
             /\ stack[t][1].fn \in Found => uninstalled
    BY ONLY <1>2, <2>2
  <2> QED
    BY <2>1, <2>2
<1>4. StackTypes'
  BY <1>1, <1>3 DEF WorkInv, StackTypes
<1>5. OuterWait'
  BY <1>1 DEF WorkInv, OuterWait
<1>6. WorkDone'
  <2> SUFFICES ASSUME NEW u \in Threads
               PROVE  /\ computed'[u] <= 1
                      /\ stack'[u] # <<>> /\ stack'[u][1].pc \in Pre =>
                           computed'[u] = 0 /\ skipped'[u] = {}
                      /\ stack'[u] # <<>> /\ stack'[u][1].pc \in Post =>
                           (computed'[u] = 1 <=> skipped'[u] = {})
                      /\ skipped'[u] \cap Found # {} \/ InWrapper(u, "crashed")' =>
                           uninstalled'
    BY <1>3 DEF WorkDone
  <2>1. CASE u = t
    <3>1. stack'[u][1].pc = "recheck" /\ "recheck" \notin Pre /\ ~InWrapper(u, "crashed")'
      BY <1>1, <2>1 DEF Pre, InWrapper
    <3>2. /\ computed'[u] <= 1 /\ (computed'[u] = 1 <=> skipped'[u] = {})
          /\ skipped'[u] \cap Found # {} => uninstalled
      BY ONLY <1>3, <2>1
    <3> QED
      BY <3>1, <3>2
  <2>2. CASE u # t
    BY <1>1, <1>3, <2>2 DEF WorkInv, WorkDone, InWrapper
  <2> QED
    BY <2>1, <2>2
<1>7. PointersSet'
  BY <1>1, PointersKept DEF WorkInv
<1> QED
  BY <1>4, <1>5, <1>6, <1>7 DEF WorkInv

\* A wrapper returns to one that waits, or to the program.
LEMMA WrapperReturned ==
  ASSUME StackTypes, OuterWait, NEW t \in Threads, Return(t)
  PROVE  /\ StackTypes' /\ OuterWait'
         /\ Len(stack[t]) \in Nat /\ Len(stack'[t]) = Len(stack[t]) - 1
         /\ stack'[t] # <<>> => 1 \in 1 .. Len(stack'[t])
         /\ \A k \in 1 .. Len(stack'[t]) :
              stack'[t][k] = stack[t][k + 1] /\ stack'[t][k].pc = "recheck"
         /\ \A u \in Threads : u # t => stack'[u] = stack[u]
<1>1. /\ stack[t] # <<>> /\ stack' = [stack EXCEPT ![t] = Tail(@)]
      /\ UNCHANGED <<originals, calls, computed>>
  BY DEF Return, InWrapper
<1>2. /\ stack' \in [Threads -> Seq(Frames)]
      /\ Len(stack[t]) \in Nat /\ Len(stack'[t]) = Len(stack[t]) - 1
      /\ \A k \in 1 .. Len(stack'[t]) :
            k + 1 \in 2 .. Len(stack[t]) /\ stack'[t][k] = stack[t][k + 1]
      /\ \A u \in Threads : u # t => stack'[u] = stack[u]
  BY <1>1, WrapperLeft
<1>3. stack'[t] # <<>> => 1 \in 1 .. Len(stack'[t])
  BY <1>2
<1>4. \A k \in 1 .. Len(stack'[t]) : stack'[t][k].pc = "recheck"
  BY <1>2 DEF OuterWait
<1>5. StackTypes'
  BY <1>1, <1>2 DEF StackTypes
<1>6. OuterWait'
  BY <1>2, <1>4 DEF OuterWait
<1> QED
  BY <1>2, <1>3, <1>4, <1>5, <1>6

\* The program calls a wrapped function.
LEMMA WrapperCalled ==
  ASSUME StackTypes, OuterWait, NEW t \in Threads, NEW f \in Fns, CallWrapper(t, f)
  PROVE  /\ StackTypes' /\ OuterWait'
         /\ stack'[t] # <<>> /\ stack'[t][1].pc = "auto" /\ stack'[t][1].i = 1
         /\ \A u \in Threads : u # t => stack'[u] = stack[u]
<1> DEFINE frame == [fn |-> f, call |-> calls + 1, pc |-> "auto", i |-> 1]
<1>1. /\ frame \in Frames /\ frame.pc = "auto" /\ frame.i = 1
      /\ stack' = [stack EXCEPT ![t] = <<frame>> \o <<>>]
  BY DEF CallWrapper, Enter, Frames, Pre, StackTypes
<1> HIDE DEF frame
<1>2. /\ stack' \in [Threads -> Seq(Frames)]
      /\ Len(stack'[t]) = 1 /\ stack'[t] # <<>>
      /\ stack'[t][1] = frame
      /\ \A u \in Threads : u # t => stack'[u] = stack[u]
  <2>1. <<frame>> \o <<>> = <<frame>>
    OBVIOUS
  <2>2. /\ <<frame>> \in Seq(Frames) /\ Len(<<frame>>) = 1 /\ <<frame>> # <<>>
        /\ <<frame>>[1] = frame
    BY <1>1
  <2>3. stack' = [stack EXCEPT ![t] = <<frame>>]
    BY <1>1, <2>1
  <2> QED
    BY <2>2, <2>3 DEF StackTypes
<1>3. /\ calls' = calls + 1 /\ computed' = [computed EXCEPT ![t] = 0]
      /\ UNCHANGED originals
  BY DEF CallWrapper, Enter
<1>4. StackTypes'
  BY <1>2, <1>3 DEF StackTypes
<1>5. \A u \in Threads : \A k \in 2 .. Len(stack'[u]) : stack'[u][k].pc = "recheck"
  BY <1>2 DEF OuterWait
<1> QED
  BY <1>1, <1>2, <1>4, <1>5 DEF OuterWait

\* A wrapper waits for the one its original calls.
LEMMA InnerEntered ==
  ASSUME StackTypes, OuterWait, NEW t \in Threads, stack[t] # <<>>,
         Inner[stack[t][1].fn] # None,
         Enter(t, Inner[stack[t][1].fn],
               <<[stack[t][1] EXCEPT !.pc = "recheck", !.i = 1]>> \o Tail(stack[t])),
         UNCHANGED <<originals, computed>>
  PROVE  /\ StackTypes' /\ OuterWait'
         /\ stack'[t] # <<>> /\ stack'[t][1].pc = "auto" /\ stack'[t][1].i = 1
         /\ Len(stack'[t]) = Len(stack[t]) + 1
         /\ stack'[t][2].fn = stack[t][1].fn /\ stack'[t][2].call = stack[t][1].call
         /\ stack'[t][2].pc = "recheck"
         /\ \A k \in 2 .. Len(stack[t]) : stack'[t][k + 1] = stack[t][k]
         /\ \A u \in Threads : u # t => stack'[u] = stack[u]
<1> DEFINE f == Inner[stack[t][1].fn]
           frame == [fn |-> f, call |-> calls + 1, pc |-> "auto", i |-> 1]
           top == [stack[t][1] EXCEPT !.pc = "recheck", !.i = 1]
           rest == Tail(stack[t])
           below == <<top>> \o rest
<1>1. /\ stack' = [stack EXCEPT ![t] = <<frame>> \o below]
      /\ calls' = calls + 1
  BY DEF Enter
<1>2. stack[t][1] \in Frames /\ stack[t][1].fn \in Fns
  BY TopFrame
<1>3. f \in Fns
  BY <1>2, InterposeAssumption
<1>4. frame \in Frames /\ frame.pc = "auto" /\ frame.i = 1
  BY <1>3 DEF Frames, Pre, StackTypes
<1>5. /\ top \in Frames /\ top.pc = "recheck"
      /\ top.fn = stack[t][1].fn /\ top.call = stack[t][1].call
  BY <1>2 DEF Frames, Post
<1>6. stack[t] \in Seq(Frames)
  BY DEF StackTypes
<1> HIDE DEF frame, top
<1>7. /\ rest \in Seq(Frames) /\ Len(rest) = Len(stack[t]) - 1
      /\ Len(stack[t]) \in Nat
      /\ \A k \in 1 .. Len(rest) : rest[k] = stack[t][k + 1]
  BY <1>6
<1> HIDE DEF rest
<1>8. /\ below \in Seq(Frames) /\ Len(below) = Len(stack[t]) /\ below[1] = top
      /\ \A k \in 2 .. Len(below) : below[k] = rest[k - 1]
  BY <1>5, <1>7
<1> HIDE DEF below
<1>9. \A k \in 2 .. Len(stack[t]) : below[k] = stack[t][k]
  <2> SUFFICES ASSUME NEW k \in 2 .. Len(stack[t])
               PROVE  below[k] = stack[t][k]
    OBVIOUS
  <2>1. k - 1 \in 1 .. Len(rest) /\ (k - 1) + 1 = k
    BY <1>7
  <2> QED
    BY <1>7, <1>8, <2>1
<1>10. /\ stack' \in [Threads -> Seq(Frames)]
       /\ Len(stack'[t]) = Len(below) + 1 /\ stack'[t] # <<>>
       /\ stack'[t][1] = frame
       /\ \A k \in 2 .. Len(stack'[t]) : stack'[t][k] = below[k - 1]
       /\ \A u \in Threads : u # t => stack'[u] = stack[u]
  BY <1>1, <1>4, <1>8, WrapperEntered
<1>11. stack'[t][2] = top
  BY <1>2, <1>7, <1>8, <1>10, TopFrame
<1>12. \A k \in 2 .. Len(stack[t]) : stack'[t][k + 1] = stack[t][k]
  <2> SUFFICES ASSUME NEW k \in 2 .. Len(stack[t])
               PROVE  stack'[t][k + 1] = stack[t][k]
    OBVIOUS
  <2>1. k + 1 \in 2 .. Len(stack'[t]) /\ (k + 1) - 1 = k
    BY <1>7, <1>8, <1>10
  <2> QED
    BY <1>9, <1>10, <2>1
<1>13. StackTypes'
  BY <1>1, <1>10 DEF StackTypes
<1>14. \A k \in 2 .. Len(stack'[t]) : stack'[t][k].pc = "recheck"
  <2> SUFFICES ASSUME NEW k \in 2 .. Len(stack'[t])
               PROVE  stack'[t][k].pc = "recheck"
    OBVIOUS
  <2>1. CASE k = 2
    BY <1>5, <1>11, <2>1
  <2>2. CASE k # 2
    <3>1. k - 1 \in 2 .. Len(stack[t]) /\ (k - 1) + 1 = k
      BY <1>7, <1>8, <1>10, <2>2
    <3> QED
      BY <1>12, <3>1 DEF OuterWait
  <2> QED
    BY <2>1, <2>2
<1>15. OuterWait'
  BY <1>10, <1>14 DEF OuterWait
<1> QED
  BY <1>4, <1>5, <1>8, <1>10, <1>11, <1>12, <1>13, <1>15

LEMMA EnterKeeps ==
  ASSUME WorkInv, NEW t \in Threads, stack[t] # <<>>, stack[t][1].pc = "call",
         Inner[stack[t][1].fn] # None,
         Enter(t, Inner[stack[t][1].fn],
               <<[stack[t][1] EXCEPT !.pc = "recheck", !.i = 1]>> \o Tail(stack[t])),
         UNCHANGED <<hooks_initialized, originals, computed, skipped, uninstalled>>
  PROVE  WorkInv'
<1>1. /\ StackTypes' /\ OuterWait'
      /\ stack'[t] # <<>> /\ stack'[t][1].pc = "auto"
      /\ \A u \in Threads : u # t => stack'[u] = stack[u]
  <2>1. StackTypes /\ OuterWait /\ UNCHANGED <<originals, computed>>
    BY DEF WorkInv
  <2> QED
    BY <2>1, InnerEntered
<1>2. PointersSet'
  BY <1>1, PointersKept DEF WorkInv
<1>3. computed[t] = 0 /\ skipped[t] = {}
  BY DEF WorkInv, WorkDone, Pre
<1>4. WorkDone'
  BY <1>1, <1>3 DEF WorkInv, WorkDone, InWrapper, Pre, Post
<1> QED
  BY <1>1, <1>2, <1>4 DEF WorkInv

-----------------------------------------------------------------------------
(* Steps *)

LEMMA WorkInitially == Init => WorkInv
BY InterposeAssumption
   DEF Init, WorkInv, StackTypes, OuterWait, PointersSet, WorkDone, InWrapper

LEMMA WorkPreserved == WorkInv /\ [Next]_vars => WorkInv'
<1> SUFFICES ASSUME WorkInv, [Next]_vars
             PROVE  WorkInv'
  OBVIOUS
<1>0. \A t \in Threads : stack[t] # <<>> => stack[t][1].pc \in Pre \cup Post
  BY TopFrame DEF WorkInv
<1>1. CASE Start \/ Stop \/ UNCHANGED vars \/ \E t \in Threads, n \in Nodes : FreeTensor(t, n)
  <2>1. /\ UNCHANGED <<hooks_initialized, originals, stack, computed, skipped, uninstalled>>
        /\ calls' = calls \/ calls' = calls + 1
    BY <1>1 DEF Start, Stop, vars, FreeTensor
  <2> QED
    BY <2>1 DEF WorkInv, StackTypes, OuterWait, PointersSet, WorkDone, InWrapper, HasOriginal
<1>2. CASE Uninstall
  BY <1>2 DEF Uninstall, WorkInv, StackTypes, OuterWait, PointersSet, WorkDone, InWrapper
<1>3. ASSUME NEW t \in Threads, NEW f \in Fns, CallWrapper(t, f)
      PROVE  WorkInv'
  <2>1. /\ StackTypes' /\ OuterWait'
        /\ stack'[t] # <<>> /\ stack'[t][1].pc = "auto"
        /\ \A u \in Threads : u # t => stack'[u] = stack[u]
    BY <1>3, WrapperCalled DEF WorkInv
  <2>2. /\ computed' = [computed EXCEPT ![t] = 0] /\ skipped' = [skipped EXCEPT ![t] = {}]
        /\ UNCHANGED <<hooks_initialized, originals, uninstalled>>
    BY <1>3 DEF CallWrapper
  <2>3. PointersSet'
    BY <2>1, <2>2, PointersKept DEF WorkInv
  <2>4. WorkDone'
    BY <2>1, <2>2 DEF WorkInv, WorkDone, StackTypes, InWrapper, Post
  <2> QED
    BY <2>1, <2>3, <2>4 DEF WorkInv
<1>4. ASSUME NEW t \in Threads, AutoStart(t) \/ Check(t) \/ RecordEvents(t)
      PROVE  WorkInv'
  <2>1. PICK label \in {"check", "before", "init", "original", "after", "return", stack[t][1].pc},
             n \in Nat :
          /\ stack[t] # <<>> /\ Advance(t, label, n)
          /\ stack[t][1].pc \in {"auto", "check", "before", "recheck", "after"}
          /\ stack[t][1].pc \in {"recheck", "after"} <=> label \in {"recheck", "after", "return"}
          /\ label = "original" => stack[t][1].fn \notin Overrides
          /\ UNCHANGED <<hooks_initialized, originals, calls, computed, skipped, uninstalled>>
    <3>1. stack[t] # <<>> => stack[t][1].i + 1 \in Nat
      BY TopFrame DEF WorkInv
    <3> USE DEF InWrapper, Goto, ToOriginal
    <3>2. CASE AutoStart(t)
      BY <3>2 DEF AutoStart
    <3>3. CASE Check(t)
      BY <3>3 DEF Check
    <3>4. CASE RecordEvents(t)
      BY <3>1, <3>4 DEF RecordEvents, RecordAll
    <3> QED
      BY <1>4, <3>2, <3>3, <3>4
  <2>2. label \in Pre \cup Post /\ label \notin {"flag", "call", "crashed"}
        /\ (stack[t][1].pc \in Pre <=> label \in Pre)
    BY <2>1 DEF Pre, Post
  <2>3. originals \subseteq Overrides
    BY DEF WorkInv, StackTypes
  <2> QED
    BY <2>1, <2>2, <2>3, HalfKept
<1>5. ASSUME NEW t \in Threads, CheckInstalled(t)
      PROVE  WorkInv'
  <2>1. PICK label \in {"original", "install"} :
          /\ stack[t] # <<>> /\ stack[t][1].pc = "init" /\ Advance(t, label, 1)
          /\ label = "original" => hooks_initialized
          /\ UNCHANGED <<hooks_initialized, originals, calls, computed, skipped, uninstalled>>
    BY <1>5 DEF CheckInstalled, InWrapper, Goto
  <2>2. label \in Pre \cup Post /\ (stack[t][1].pc \in Pre <=> label \in Pre) /\ 1 \in Nat
    BY <2>1 DEF Pre
  <2>3. /\ ~uninstalled /\ hooks_initialized => Found \subseteq originals
        /\ originals \subseteq Overrides
    BY DEF WorkInv, PointersSet, StackTypes
  <2> QED
    BY <2>1, <2>2, <2>3, HalfKept
<1>6. ASSUME NEW t \in Threads, Install(t)
      PROVE  WorkInv'
  <2>1. /\ stack[t] # <<>> /\ stack[t][1].pc = "install" /\ Advance(t, "flag", 1)
        /\ originals' = originals \cup Found
        /\ UNCHANGED <<hooks_initialized, calls, computed, skipped, uninstalled>>
    BY <1>6 DEF Install, InWrapper, Goto
  <2>2. /\ originals \subseteq originals' /\ originals' \subseteq Overrides
        /\ Found \subseteq originals'
    BY <2>1, InterposeAssumption DEF WorkInv, StackTypes
  <2>3. "flag" \in Pre \cup Post /\ (stack[t][1].pc \in Pre <=> "flag" \in Pre) /\ 1 \in Nat
    BY <2>1 DEF Pre
  <2> QED
    BY <2>1, <2>2, <2>3, HalfKept
<1>7. ASSUME NEW t \in Threads, SetInitialized(t)
      PROVE  WorkInv'
  <2>1. /\ stack[t] # <<>> /\ stack[t][1].pc = "flag" /\ Advance(t, "original", 1)
        /\ UNCHANGED <<originals, calls, computed, skipped, uninstalled>>
    BY <1>7 DEF SetInitialized, InWrapper, Goto
  <2>2. /\ ~uninstalled => Found \subseteq originals
        /\ originals \subseteq Overrides
    BY <2>1 DEF WorkInv, PointersSet, StackTypes, InWrapper
  <2>3. /\ "original" \in Pre \cup Post /\ 1 \in Nat
        /\ stack[t][1].pc \in Pre <=> "original" \in Pre
    BY <2>1 DEF Pre
  <2> QED
    BY <2>1, <2>2, <2>3, HalfKept
<1>8. ASSUME NEW t \in Threads, CallOriginal(t)
      PROVE  WorkInv'
  <2>1. /\ stack[t] # <<>> /\ stack[t][1].pc = "call"
        /\ UNCHANGED <<hooks_initialized, originals, skipped, uninstalled>>
    BY <1>8 DEF CallOriginal, InWrapper
  <2>2. CASE Inner[stack[t][1].fn] = None
    <3>1. /\ computed' = [computed EXCEPT ![t] = @ + 1] /\ Goto(t, "recheck")
          /\ UNCHANGED calls
      BY <1>8, <2>2 DEF CallOriginal
    <3> QED
      BY <2>1, <3>1, HalfCrossed
  <2>3. CASE Inner[stack[t][1].fn] # None
    <3>1. /\ Enter(t, Inner[stack[t][1].fn],
                   <<[stack[t][1] EXCEPT !.pc = "recheck", !.i = 1]>> \o Tail(stack[t]))
          /\ UNCHANGED <<hooks_initialized, originals, computed, skipped, uninstalled>>
      BY <1>8, <2>1, <2>3 DEF CallOriginal
    <3> QED
      BY <2>1, <2>3, <3>1, EnterKeeps
  <2> QED
    BY <2>2, <2>3
<1>9. ASSUME NEW t \in Threads, SkipOriginal(t)
      PROVE  WorkInv'
  <2>1. /\ stack[t] # <<>> /\ stack[t][1].pc = "original" /\ Goto(t, "recheck")
        /\ stack[t][1].fn \in Overrides \ originals
        /\ skipped' = [skipped EXCEPT ![t] = @ \cup {stack[t][1].fn}]
        /\ UNCHANGED <<hooks_initialized, originals, calls, computed, uninstalled>>
    BY <1>9, TopFrame DEF SkipOriginal, InWrapper, HasOriginal, Fns, WorkInv
  <2>2. stack[t][1].fn \in Found => uninstalled
    BY <2>1 DEF WorkInv, PointersSet, InWrapper
  <2> QED
    BY <2>1, <2>2, HalfCrossed
<1>10. ASSUME NEW t \in Threads, TestOriginal(t)
       PROVE  WorkInv'
  <2>1. /\ stack[t] # <<>> /\ stack[t][1].pc = "original" /\ Advance(t, "call", 1)
        /\ HasOriginal(t)
        /\ UNCHANGED <<hooks_initialized, originals, calls, computed, skipped, uninstalled>>
    BY <1>10 DEF TestOriginal, InWrapper, Goto
  <2>2. /\ "call" \in Pre \cup Post /\ 1 \in Nat
        /\ stack[t][1].pc \in Pre <=> "call" \in Pre
    BY <2>1 DEF Pre
  <2>3. originals \subseteq Overrides
    BY DEF WorkInv, StackTypes
  <2> QED
    BY <2>1, <2>2, <2>3, HalfKept
<1>11. ASSUME NEW t \in Threads, CallNull(t)
       PROVE  WorkInv'
  <2>1. /\ stack[t] # <<>> /\ stack[t][1].pc = "call" /\ Advance(t, "crashed", 1)
        /\ ~HasOriginal(t)
        /\ UNCHANGED <<hooks_initialized, originals, calls, computed, skipped, uninstalled>>
    BY <1>11 DEF CallNull, InWrapper, Goto
  <2>2. /\ "crashed" \in Pre \cup Post /\ 1 \in Nat
        /\ stack[t][1].pc \in Pre <=> "crashed" \in Pre
    BY <2>1 DEF Pre
  <2>3. uninstalled /\ originals \subseteq Overrides
    BY <2>1 DEF WorkInv, PointersSet, StackTypes, InWrapper
  <2> QED
    BY <2>1, <2>2, <2>3, HalfKept
<1>12. ASSUME NEW t \in Threads, Return(t)
      PROVE  WorkInv'
  <2>1. /\ stack[t] # <<>> /\ stack[t][1].pc = "return"
        /\ stack' = [stack EXCEPT ![t] = Tail(@)]
        /\ UNCHANGED <<hooks_initialized, originals, calls, computed, skipped, uninstalled>>
    BY <1>12 DEF Return, InWrapper
  <2>2. /\ StackTypes' /\ OuterWait'
        /\ stack'[t] # <<>> => 1 \in 1 .. Len(stack'[t])
        /\ \A k \in 1 .. Len(stack'[t]) : stack'[t][k].pc = "recheck"
        /\ \A u \in Threads : u # t => stack'[u] = stack[u]
    BY <1>12, WrapperReturned DEF WorkInv
  <2>3. stack'[t] # <<>> => stack'[t][1].pc = "recheck"
    BY <2>2
  <2>4. PointersSet'
    BY <2>1, <2>2, <2>3, PointersKept DEF WorkInv
  <2>5. WorkDone'
    BY <2>1, <2>2, <2>3 DEF WorkInv, WorkDone, InWrapper, Pre, Post
  <2> QED
    BY <2>2, <2>4, <2>5 DEF WorkInv
<1> QED
  BY <1>1, <1>2, <1>3, <1>4, <1>5, <1>6, <1>7, <1>8, <1>9, <1>10,
     <1>11, <1>12, InterposeAssumption
     DEF Next, Nodes, ToSet

\* A call does its work once, or leaves it out because dlsym() did not find an
\* original or the hooks were uninstalled; there is no other way to skip an
\* original or to call a null pointer.  For every set of originals that dlsym()
\* finds (none of them in a preloaded library, all of them where the program is
\* linked otherwise), and every number of threads, functions and wrappers inside
\* wrappers.
THEOREM WorkAccountedFor == Spec => []WorkDoneOrSkipped
<1>1. WorkInv => WorkDoneOrSkipped
  BY DEF WorkInv, WorkDone, WorkDoneOrSkipped, PastOriginal, InWrapper, Post
<1> QED
  BY <1>1, WorkInitially, WorkPreserved, PTL DEF Spec

-----------------------------------------------------------------------------
(* Induction and folds *)

\* A set that holds 0 and the successor of each of its numbers holds them all:
\* the form of induction that a set's members can be proved by.
LEMMA NatSet ==
  ASSUME NEW S, 0 \in S, \A n \in Nat : n \in S => n + 1 \in S
  PROVE  \A n \in Nat : n \in S
<1> SUFFICES ASSUME ~(\A n \in Nat : n \in S)
             PROVE  FALSE
  OBVIOUS
<1> DEFINE T == Nat \ S
<1>1. T \subseteq Nat /\ T # {}
  OBVIOUS
<1> HIDE DEF T
<1>2. PICK n \in T : \A m \in T : <<m, n>> \notin OpToRel(<, Nat)
  BY <1>1, WFMin, NatLessThanWellFounded, Zenon
<1>3. \A m \in T : ~(m < n)
  BY <1>1, <1>2, Zenon DEF OpToRel
<1>4. n # 0 /\ n \in Nat /\ n \notin S
  BY <1>1 DEF T
<1>5. n - 1 \in Nat /\ n - 1 < n /\ (n - 1) + 1 = n
  BY <1>4
<1>6. n - 1 \in S
  BY <1>3, <1>5 DEF T
<1>7. (n - 1) + 1 \in S
  BY <1>5, <1>6
<1> QED
  BY <1>4, <1>5, <1>7

\* The same up to a bound.
LEMMA UpTo ==
  ASSUME NEW N \in Nat, NEW S, 0 \in S, \A n \in 0 .. N - 1 : n \in S => n + 1 \in S
  PROVE  \A n \in 0 .. N : n \in S
<1> DEFINE T == S \cup {n \in Nat : n > N}
<1>1. \A n \in Nat : n \in T => n + 1 \in T
  OBVIOUS
<1>2. 0 \in T
  OBVIOUS
<1> HIDE DEF T
<1>3. \A n \in Nat : n \in T
  BY <1>1, <1>2, NatSet
<1> QED
  BY <1>3 DEF T

\* What Max returns of a set of numbers up to n that holds n.
LEMMA MaxIs ==
  ASSUME NEW n \in Nat, NEW x \in SUBSET (1 .. n), n \in x
  PROVE  Max(x) = n
<1>1. \A y \in x : n >= y
  OBVIOUS
<1>2. \A y \in x : (\A z \in x : y >= z) => y = n
  OBVIOUS
<1> QED
  BY <1>1, <1>2, Zenon DEF Max

\* A set of numbers below N has a largest.
LEMMA MaxIn ==
  ASSUME NEW n \in Nat, NEW x \in SUBSET (1 .. n), x # {}
  PROVE  Max(x) \in x
<1> DEFINE T == {n - y : y \in x}
<1>1. T \subseteq Nat /\ T # {}
  <2>1. PICK y \in x : TRUE
    OBVIOUS
  <2>2. n - y \in T
    OBVIOUS
  <2>3. \A z \in x : n - z \in Nat
    OBVIOUS
  <2> QED
    BY <2>2, <2>3
<1> HIDE DEF T
<1>2. PICK m \in T : \A k \in T : <<k, m>> \notin OpToRel(<, Nat)
  BY <1>1, WFMin, NatLessThanWellFounded, Zenon
<1>3. \A k \in T : ~(k < m)
  BY <1>1, <1>2, Zenon DEF OpToRel
<1>4. PICK y \in x : m = n - y
  BY DEF T
<1>5. \A z \in x : n - z \in T
  BY DEF T
<1>6. \A z \in x : y >= z
  BY <1>3, <1>4, <1>5
<1> QED
  BY <1>6, Zenon DEF Max

\* What a fold from the left computes for each set of positions.
IsFold(g, N, base, step) ==
  \A x \in SUBSET (1 .. N) :
    g[x] = IF x = {} THEN base ELSE step[<<g[x \ {Max(x)}], Max(x)>>]

\* A fold from the left exists whatever the step is.
LEMMA FoldExists ==
  ASSUME NEW N \in Nat, NEW Acc, NEW base \in Acc, NEW step \in [Acc \X (1 .. N) -> Acc]
  PROVE  \E g \in [SUBSET (1 .. N) -> Acc] : IsFold(g, N, base, step)
<1> DEFINE S == {n \in 0 .. N : \E g \in [SUBSET (1 .. n) -> Acc] : IsFold(g, n, base, step)}
<1>1. 0 \in S
  <2> DEFINE g == [x \in SUBSET (1 .. 0) |-> base]
  <2>1. \A x \in SUBSET (1 .. 0) : x = {}
    OBVIOUS
  <2>2. IsFold(g, 0, base, step)
    BY <2>1 DEF IsFold
  <2>3. g \in [SUBSET (1 .. 0) -> Acc]
    OBVIOUS
  <2> QED
    BY <2>2, <2>3
<1>2. ASSUME NEW n \in 0 .. N - 1, n \in S
      PROVE  n + 1 \in S
  <2>1. PICK p \in [SUBSET (1 .. n) -> Acc] : IsFold(p, n, base, step)
    BY <1>2
  <2> DEFINE g == [x \in SUBSET (1 .. n + 1) |->
                     IF n + 1 \in x THEN step[<<p[x \ {n + 1}], n + 1>>] ELSE p[x]]
  <2>2. n + 1 \in Nat /\ n + 1 \in 1 .. N /\ n + 1 \in 0 .. N
    OBVIOUS
  <2>3. ASSUME NEW x \in SUBSET (1 .. n + 1), n + 1 \in x
        PROVE  /\ x \ {n + 1} \in SUBSET (1 .. n) /\ Max(x) = n + 1 /\ x # {}
               /\ n + 1 \notin x \ {n + 1} /\ x \ {n + 1} \in SUBSET (1 .. n + 1)
    BY <2>2, <2>3, MaxIs
  <2>4. ASSUME NEW x \in SUBSET (1 .. n + 1), n + 1 \notin x
        PROVE  x \in SUBSET (1 .. n)
    BY <2>4
  <2>5. ASSUME NEW x \in SUBSET (1 .. n + 1)
        PROVE  g[x] = IF x = {} THEN base ELSE step[<<g[x \ {Max(x)}], Max(x)>>]
    <3>1. CASE n + 1 \in x
      <4>1. g[x] = step[<<p[x \ {n + 1}], n + 1>>]
        BY <3>1
      <4>2. g[x \ {n + 1}] = p[x \ {n + 1}]
        BY <2>3, <3>1
      <4> QED
        BY <2>3, <3>1, <4>1, <4>2
    <3>2. CASE n + 1 \notin x
      <4>1. x \in SUBSET (1 .. n)
        BY <2>4, <3>2
      <4>2. g[x] = p[x]
        BY <3>2
      <4>3. p[x] = IF x = {} THEN base ELSE step[<<p[x \ {Max(x)}], Max(x)>>]
        BY <2>1, <4>1 DEF IsFold
      <4>4. x \ {Max(x)} \in SUBSET (1 .. n + 1) /\ n + 1 \notin x \ {Max(x)}
        BY <3>2
      <4>5. g[x \ {Max(x)}] = p[x \ {Max(x)}]
        BY <4>4
      <4> QED
        BY <4>2, <4>3, <4>5
    <3> QED
      BY <3>1, <3>2
  <2>6. ASSUME NEW x \in SUBSET (1 .. n + 1)
        PROVE  g[x] \in Acc
    <3>1. CASE n + 1 \in x
      <4>1. p[x \ {n + 1}] \in Acc
        BY <2>3, <3>1
      <4> QED
        BY <2>2, <3>1, <4>1
    <3>2. CASE n + 1 \notin x
      BY <2>4, <3>2
    <3> QED
      BY <3>1, <3>2
  <2>7. g = [x \in SUBSET (1 .. n + 1) |-> g[x]]
    OBVIOUS
  <2> HIDE DEF g
  <2>8. IsFold(g, n + 1, base, step) /\ g \in [SUBSET (1 .. n + 1) -> Acc]
    BY <2>5, <2>6, <2>7, Zenon DEF IsFold
  <2> QED
    BY <2>2, <2>8
<1> HIDE DEF S
<1>3. N \in S
  BY <1>1, <1>2, UpTo
<1> QED
  BY <1>3 DEF S

-----------------------------------------------------------------------------
(* Sorting *)

\* What Min of a set of numbers is.
LEMMA MinIs ==
  ASSUME NEW T \in SUBSET Nat, T # {}
  PROVE  Min(T) \in T /\ \A y \in T : Min(T) <= y
<1>1. PICK n \in T : \A m \in T : <<m, n>> \notin OpToRel(<, Nat)
  BY WFMin, NatLessThanWellFounded, Zenon
<1>2. \A m \in T : ~(m < n)
  BY <1>1, Zenon DEF OpToRel
<1>3. \A m \in T : n =< m
  BY <1>2
<1> QED
  BY <1>3, Zenon DEF Min

\* What InsertAt puts where.
LEMMA InsertAtIs ==
  ASSUME NEW S, NEW s \in Seq(S), NEW x \in S, NEW i \in 1 .. Len(s) + 1
  PROVE  /\ InsertAt(s, i, x) \in Seq(S) /\ Len(InsertAt(s, i, x)) = Len(s) + 1
         /\ \A j \in 1 .. Len(s) + 1 :
              InsertAt(s, i, x)[j] = IF j < i THEN s[j] ELSE IF j = i THEN x ELSE s[j - 1]
<1> DEFINE a == SubSeq(s, 1, i - 1)
           b == SubSeq(s, i, Len(s))
<1>1. /\ a \in Seq(S) /\ Len(a) = i - 1 /\ \A j \in 1 .. i - 1 : a[j] = s[j]
  OBVIOUS
<1>2. /\ b \in Seq(S) /\ Len(b) = Len(s) - i + 1
      /\ \A j \in 1 .. Len(s) - i + 1 : b[j] = s[i + j - 1]
  OBVIOUS
<1>3. InsertAt(s, i, x) = (a \o <<x>>) \o b
  BY DEF InsertAt
<1> HIDE DEF a, b
<1>4. /\ a \o <<x>> \in Seq(S) /\ Len(a \o <<x>>) = i
      /\ \A j \in 1 .. i : (a \o <<x>>)[j] = IF j = i THEN x ELSE a[j]
  BY <1>1
<1> DEFINE c == a \o <<x>>
<1>5. c \in Seq(S) /\ Len(c) = i /\ \A j \in 1 .. i : c[j] = IF j = i THEN x ELSE s[j]
  BY <1>1, <1>4
<1>6. InsertAt(s, i, x) = c \o b
  BY <1>3
<1> HIDE DEF c
<1>7. /\ c \o b \in Seq(S) /\ Len(c \o b) = Len(s) + 1
      /\ \A j \in 1 .. Len(s) + 1 : (c \o b)[j] = IF j <= i THEN c[j] ELSE b[j - i]
  <2>1. \A j \in 1 .. Len(c) + Len(b) :
          (c \o b)[j] = IF j <= Len(c) THEN c[j] ELSE b[j - Len(c)]
    <3>1. b \in Seq(S) /\ c \in Seq(S)
      BY <1>2, <1>5
    <3> QED
      BY ONLY <3>1
  <2>2. c \o b \in Seq(S) /\ Len(c \o b) = Len(c) + Len(b)
    <3>1. b \in Seq(S) /\ c \in Seq(S)
      BY <1>2, <1>5
    <3> QED
      BY ONLY <3>1
  <2>3. Len(c) = i /\ Len(c) + Len(b) = Len(s) + 1
    BY <1>2, <1>5
  <2> QED
    BY <2>1, <2>2, <2>3
<1>8. \A j \in 1 .. Len(s) + 1 : j > i => j - i \in 1 .. Len(s) - i + 1 /\ i + (j - i) - 1 = j - 1
  OBVIOUS
<1>9. \A j \in 1 .. Len(s) + 1 : j > i => b[j - i] = s[j - 1]
  BY <1>2, <1>8
<1> QED
  BY <1>5, <1>6, <1>7, <1>9

\* An element goes behind what is not greater and before the rest.
LEMMA InsertByIs ==
  ASSUME NEW S, NEW s \in Seq(S), NEW x \in S, NEW key \in [S -> Int]
  PROVE  \E i \in 1 .. Len(s) + 1 :
           /\ InsertBy(s, x, key) = InsertAt(s, i, x)
           /\ \A j \in 1 .. i - 1 : key[s[j]] <= key[x]
           /\ i <= Len(s) => key[s[i]] > key[x]
<1> DEFINE T == {j \in DOMAIN s : key[s[j]] > key[x]} \cup {Len(s) + 1}
           i == Min(T)
<1>1. DOMAIN s = 1 .. Len(s) /\ Len(s) \in Nat /\ \A j \in 1 .. Len(s) : s[j] \in S
  OBVIOUS
<1>2. T \in SUBSET Nat /\ T # {} /\ T \subseteq 1 .. Len(s) + 1
  BY <1>1
<1>3. \A j \in 1 .. Len(s) : key[s[j]] > key[x] => j \in T
  BY <1>1
<1>4. \A j \in T : j <= Len(s) => key[s[j]] > key[x]
  BY <1>1
<1>5. InsertBy(s, x, key) = InsertAt(s, i, x)
  BY DEF InsertBy
<1> HIDE DEF T
<1>6. i \in T /\ \A j \in T : i <= j
  BY <1>2, MinIs
<1> HIDE DEF i
<1>7. \A j \in 1 .. i - 1 : j \in 1 .. Len(s) /\ ~(key[s[j]] > key[x])
  BY <1>1, <1>2, <1>3, <1>6
<1>8. \A j \in 1 .. i - 1 : key[s[j]] <= key[x]
  BY <1>1, <1>7
<1> QED
  BY <1>2, <1>4, <1>5, <1>6, <1>8

\* SortedBy is a fold over the numbers of its elements.
LEMMA SortFold ==
  ASSUME NEW S, NEW s \in Seq(S), NEW key \in [S -> Int]
  PROVE  \E h : /\ h[0] = <<>>
                /\ \A k \in 1 .. Len(s) : h[k] = InsertBy(h[k - 1], s[k], key)
                /\ SortedBy(s, key) = h[Len(s)]
<1> DEFINE N == Len(s)
           Acc == Seq(S)
           step == [p \in Acc \X (1 .. N) |-> InsertBy(p[1], s[p[2]], key)]
<1>1. N \in Nat /\ DOMAIN s = 1 .. N /\ \A k \in 1 .. N : s[k] \in S
  OBVIOUS
<1>2. ASSUME NEW a \in Acc, NEW k \in 1 .. N
      PROVE  InsertBy(a, s[k], key) \in Acc
  <2>1. PICK i \in 1 .. Len(a) + 1 : InsertBy(a, s[k], key) = InsertAt(a, i, s[k])
    BY <1>1, InsertByIs
  <2>2. a \in Seq(S) /\ s[k] \in S
    BY <1>1
  <2>3. InsertAt(a, i, s[k]) \in Seq(S)
    BY ONLY <2>2, i \in 1 .. Len(a) + 1, InsertAtIs
  <2> QED
    BY <2>1, <2>3
<1>3. step \in [Acc \X (1 .. N) -> Acc]
  BY <1>2
<1>4. <<>> \in Acc
  OBVIOUS
<1>5. \A a \in Acc, k \in 1 .. N : step[<<a, k>>] = InsertBy(a, s[k], key)
  OBVIOUS
<1> HIDE DEF step, Acc, N
<1>6. PICK g \in [SUBSET (1 .. N) -> Acc] : IsFold(g, N, <<>>, step)
  BY <1>1, <1>3, <1>4, FoldExists
<1>7. ASSUME NEW x \in SUBSET (1 .. N), x # {}
      PROVE  Max(x) \in x
  BY <1>1, <1>7, MaxIn
<1>8. g = [x \in SUBSET (DOMAIN s) |->
             IF x = {} THEN <<>> ELSE LET y == Max(x) IN InsertBy(g[x \ {y}], s[y], key)]
  <2>1. \A x \in SUBSET (1 .. N) : x # {} =>
          step[<<g[x \ {Max(x)}], Max(x)>>] = InsertBy(g[x \ {Max(x)}], s[Max(x)], key)
    BY <1>5, <1>6, <1>7
  <2>2. g = [x \in SUBSET (1 .. N) |-> g[x]]
    BY <1>6
  <2> QED
    BY <1>1, <1>6, <2>1, <2>2 DEF IsFold
<1> DEFINE Iter == LET iter[x \in SUBSET (DOMAIN s)] ==
                         IF x = {} THEN <<>>
                         ELSE LET y == Max(x) IN InsertBy(iter[x \ {y}], s[y], key)
                   IN  iter
           h == [k \in 0 .. N |-> Iter[1 .. k]]
<1>9. Iter = [x \in SUBSET (DOMAIN s) |->
                IF x = {} THEN <<>> ELSE LET y == Max(x) IN InsertBy(Iter[x \ {y}], s[y], key)]
  BY <1>8, Zenon
<1>10. SortedBy(s, key) = Iter[DOMAIN s]
  BY DEF SortedBy, FoldLeft, MapThenFoldSet
<1> HIDE DEF Iter
<1>11. h[0] = <<>>
  BY <1>1, <1>9
<1>12. ASSUME NEW k \in 1 .. N
       PROVE  h[k] = InsertBy(h[k - 1], s[k], key)
  <2>0. k \in 1 .. k /\ k \in Nat /\ 1 .. k \subseteq 1 .. N /\ 1 .. k - 1 \subseteq 1 .. N
    BY <1>1
  <2>1. /\ 1 .. k \in SUBSET (1 .. N) /\ 1 .. k # {} /\ (1 .. k) \ {k} = 1 .. k - 1
        /\ 1 .. k - 1 \in SUBSET (1 .. N) /\ k \in 1 .. k /\ k \in Nat
    <3>1. \A j : j \in (1 .. k) \ {k} <=> j \in 1 .. k - 1
      BY <2>0
    <3> QED
      BY <2>0, <3>1
  <2>2. Max(1 .. k) = k
    BY <2>1, MaxIs
  <2>3. Iter[1 .. k] = InsertBy(Iter[1 .. k - 1], s[k], key)
    BY <1>1, <1>9, <2>1, <2>2
  <2> QED
    BY <1>1, <2>3
<1>13. SortedBy(s, key) = h[N]
  BY <1>1, <1>10
<1> HIDE DEF h
<1>14. /\ h[0] = <<>>
       /\ \A k \in 1 .. N : h[k] = InsertBy(h[k - 1], s[k], key)
       /\ SortedBy(s, key) = h[N]
  BY <1>11, <1>12, <1>13
<1> QED
  BY <1>14 DEF N

Distinct(s) == \A i, j \in 1 .. Len(s) : i # j => s[i] # s[j]

\* r is what an insertion sort has made of the first k elements of s.
SortedUpTo(r, s, k, key, S) ==
  /\ r \in Seq(S) /\ Len(r) = k
  /\ \A i, j \in 1 .. k : i < j => key[r[i]] <= key[r[j]]
  /\ \A j \in 1 .. k : \E i \in 1 .. k : r[j] = s[i]
  /\ \A i \in 1 .. k : \E j \in 1 .. k : r[j] = s[i]
  /\ Distinct(s) => \A i, j \in 1 .. k : i # j => r[i] # r[j]

\* One more element is sorted in.
LEMMA SortStep ==
  ASSUME NEW S, NEW s \in Seq(S), NEW key \in [S -> Int], NEW k \in 0 .. Len(s) - 1, NEW r,
         SortedUpTo(r, s, k, key, S)
  PROVE  SortedUpTo(InsertBy(r, s[k + 1], key), s, k + 1, key, S)
<1> DEFINE x == s[k + 1]
           q == InsertBy(r, x, key)
<1>1. Len(s) \in Nat /\ x \in S /\ k \in Nat /\ k + 1 \in 1 .. Len(s)
  OBVIOUS
<1>2. r \in Seq(S) /\ Len(r) = k /\ \A j \in 1 .. k : r[j] \in S
  <2>1. r \in Seq(S) /\ Len(r) = k
    BY DEF SortedUpTo
  <2> QED
    BY <2>1
<1>3. PICK i \in 1 .. k + 1 :
        /\ q = InsertAt(r, i, x)
        /\ \A j \in 1 .. i - 1 : key[r[j]] <= key[x]
        /\ i <= k => key[r[i]] > key[x]
  BY <1>1, <1>2, InsertByIs
<1> HIDE DEF q, x
<1>4. /\ q \in Seq(S) /\ Len(q) = k + 1
      /\ q[i] = x
      /\ \A m \in 1 .. k : (m < i => q[m] = r[m]) /\ (m >= i => q[m + 1] = r[m])
  <2>1. /\ q \in Seq(S) /\ Len(q) = Len(r) + 1
        /\ \A j \in 1 .. Len(r) + 1 :
             q[j] = IF j < i THEN r[j] ELSE IF j = i THEN x ELSE r[j - 1]
    <3>1. i \in 1 .. Len(r) + 1 /\ r \in Seq(S) /\ x \in S
      BY <1>1, <1>2
    <3>2. /\ InsertAt(r, i, x) \in Seq(S) /\ Len(InsertAt(r, i, x)) = Len(r) + 1
          /\ \A j \in 1 .. Len(r) + 1 :
               InsertAt(r, i, x)[j] = IF j < i THEN r[j] ELSE IF j = i THEN x ELSE r[j - 1]
      BY ONLY <3>1, InsertAtIs
    <3> QED
      BY <1>3, <3>2
  <2>2. \A j \in 1 .. k + 1 :
             q[j] = IF j < i THEN r[j] ELSE IF j = i THEN x ELSE r[j - 1]
    BY <1>2, <2>1
  <2>3. q[i] = x
    BY <2>2
  <2>4. ASSUME NEW m \in 1 .. k
        PROVE  (m < i => q[m] = r[m]) /\ (m >= i => q[m + 1] = r[m])
    <3>1. m \in 1 .. k + 1 /\ m + 1 \in 1 .. k + 1 /\ (m + 1) - 1 = m
      BY <1>1
    <3>2. m < i => q[m] = r[m]
      BY <2>2, <3>1
    <3>3. m >= i => ~(m + 1 < i) /\ m + 1 # i
      BY <1>1
    <3>4. m >= i => q[m + 1] = r[m]
      BY <2>2, <3>1, <3>3
    <3> QED
      BY <3>2, <3>4
  <2> QED
    BY <1>2, <2>1, <2>3, <2>4
<1>5. \A j \in 1 .. k + 1 :
        \/ j = i /\ q[j] = x
        \/ j < i /\ j \in 1 .. k /\ q[j] = r[j]
        \/ j > i /\ j - 1 \in 1 .. k /\ j - 1 >= i /\ q[j] = r[j - 1]
  <2> SUFFICES ASSUME NEW j \in 1 .. k + 1
               PROVE  \/ j = i /\ q[j] = x
                      \/ j < i /\ j \in 1 .. k /\ q[j] = r[j]
                      \/ j > i /\ j - 1 \in 1 .. k /\ j - 1 >= i /\ q[j] = r[j - 1]
    OBVIOUS
  <2>1. CASE j = i
    BY <1>4, <2>1
  <2>2. CASE j < i
    <3>1. j \in 1 .. k
      BY <1>1, <2>2
    <3> QED
      BY <1>4, <2>2, <3>1
  <2>3. CASE j > i
    <3>1. j - 1 \in 1 .. k /\ j - 1 >= i /\ (j - 1) + 1 = j
      BY <1>1, <2>3
    <3>2. q[(j - 1) + 1] = r[j - 1]
      BY <1>4, <3>1
    <3> QED
      BY <2>3, <3>1, <3>2
  <2> QED
    BY <1>1, <2>1, <2>2, <2>3
<1>6. \A j \in 1 .. k : j >= i => key[r[j]] > key[x]
  <2> SUFFICES ASSUME NEW j \in 1 .. k, j >= i
               PROVE  key[r[j]] > key[x]
    OBVIOUS
  <2>1. i \in 1 .. k /\ (i = j \/ i < j)
    BY <1>1
  <2>2. i < j => key[r[i]] <= key[r[j]]
    BY <2>1 DEF SortedUpTo
  <2>3. key[r[i]] \in Int /\ key[r[j]] \in Int /\ key[x] \in Int
    BY <1>1, <1>2, <2>1
  <2> QED
    BY <1>3, <2>1, <2>2, <2>3
<1>7. ASSUME NEW a \in 1 .. k + 1, NEW b \in 1 .. k + 1, a < b
      PROVE  key[q[a]] <= key[q[b]]
  <2>1. \A j, l \in 1 .. k : j < l => key[r[j]] <= key[r[l]]
    BY DEF SortedUpTo
  <2>2. \A j \in 1 .. k : key[r[j]] \in Int
    BY <1>2
  <2>3. key[x] \in Int
    BY <1>1
  <2>4. CASE b < i
    <3>1. a \in 1 .. k /\ b \in 1 .. k /\ q[a] = r[a] /\ q[b] = r[b]
      BY <1>1, <1>5, <1>7, <2>4
    <3> QED
      BY <1>7, <2>1, <3>1
  <2>5. CASE b = i
    <3>1. a \in 1 .. i - 1 /\ q[a] = r[a] /\ q[b] = x
      BY <1>1, <1>5, <1>7, <2>5
    <3> QED
      BY <1>3, <3>1
  <2>6. CASE b > i
    <3>1. b - 1 \in 1 .. k /\ b - 1 >= i /\ q[b] = r[b - 1]
      BY <1>1, <1>5, <2>6
    <3>2. CASE a < i
      <4>1. a \in 1 .. k /\ q[a] = r[a] /\ a < b - 1
        BY <1>1, <1>5, <3>1, <3>2
      <4> QED
        BY <2>1, <3>1, <4>1
    <3>3. CASE a = i
      <4>1. key[r[b - 1]] > key[x] /\ q[a] = x
        BY <1>4, <1>6, <3>1, <3>3
      <4>2. key[r[b - 1]] \in Int
        BY <2>2, <3>1
      <4>3. key[x] <= key[r[b - 1]]
        BY <2>3, <4>1, <4>2
      <4> QED
        BY <3>1, <4>1, <4>3
    <3>4. CASE a > i
      <4>1. a - 1 \in 1 .. k /\ q[a] = r[a - 1] /\ a - 1 < b - 1
        BY <1>1, <1>5, <1>7, <3>4
      <4> QED
        BY <2>1, <3>1, <4>1
    <3> QED
      BY <1>1, <3>2, <3>3, <3>4
  <2> QED
    BY <1>1, <2>4, <2>5, <2>6
<1>8. ASSUME NEW j \in 1 .. k + 1
      PROVE  \E l \in 1 .. k + 1 : q[j] = s[l]
  <2>1. CASE j = i
    BY <1>1, <1>4, <2>1 DEF x
  <2>2. CASE j # i
    <3>1. PICK a \in 1 .. k : q[j] = r[a]
      BY <1>5, <2>2
    <3>2. PICK l \in 1 .. k : r[a] = s[l]
      BY DEF SortedUpTo
    <3> QED
      BY <1>1, <3>1, <3>2
  <2> QED
    BY <2>1, <2>2
<1>9. ASSUME NEW l \in 1 .. k + 1
      PROVE  \E j \in 1 .. k + 1 : q[j] = s[l]
  <2>1. CASE l = k + 1
    <3>1. q[i] = s[l] /\ i \in 1 .. k + 1
      BY <1>4, <2>1 DEF x
    <3> QED
      BY <3>1
  <2>2. CASE l # k + 1
    <3>1. l \in 1 .. k
      BY <1>1, <2>2
    <3>2. PICK a \in 1 .. k : r[a] = s[l]
      BY <3>1 DEF SortedUpTo
    <3>3. a < i => q[a] = s[l]
      BY <1>4, <3>2
    <3>4. a >= i => q[a + 1] = s[l]
      BY <1>4, <3>2
    <3>5. a \in 1 .. k + 1 /\ a + 1 \in 1 .. k + 1
      BY <1>1
    <3> QED
      BY <1>1, <3>3, <3>4, <3>5
  <2> QED
    BY <2>1, <2>2
<1>10. ASSUME Distinct(s), NEW a \in 1 .. k + 1, NEW b \in 1 .. k + 1, a # b
       PROVE  q[a] # q[b]
  <2>1. \A j, l \in 1 .. k : j # l => r[j] # r[l]
    BY <1>10 DEF SortedUpTo
  <2>2. \A j \in 1 .. k : r[j] # x
    <3> SUFFICES ASSUME NEW j \in 1 .. k
                 PROVE  r[j] # x
      OBVIOUS
    <3>1. PICK l \in 1 .. k : r[j] = s[l]
      BY DEF SortedUpTo
    <3>2. l \in 1 .. Len(s) /\ l # k + 1
      BY <1>1
    <3> QED
      BY <1>1, <1>10, <3>1, <3>2 DEF Distinct, x
  <2>3. \A j, l \in 1 .. k + 1 : j < l => q[j] # q[l]
    <3> SUFFICES ASSUME NEW j \in 1 .. k + 1, NEW l \in 1 .. k + 1, j < l
                 PROVE  q[j] # q[l]
      OBVIOUS
    <3>1. CASE l <= i
      <4>1. j < i /\ j \in 1 .. k /\ q[j] = r[j]
        BY <1>1, <1>5, <3>1
      <4>2. (l = i /\ q[l] = x) \/ (l \in 1 .. k /\ q[l] = r[l])
        BY <1>1, <1>5, <3>1
      <4> QED
        BY <2>1, <2>2, <4>1, <4>2
    <3>2. CASE l > i
      <4>1. l - 1 \in 1 .. k /\ l - 1 >= i /\ q[l] = r[l - 1]
        BY <1>1, <1>5, <3>2
      <4>2. CASE j = i
        BY <1>4, <2>2, <4>1, <4>2
      <4>3. CASE j < i
        <5>1. j \in 1 .. k /\ j # l - 1 /\ q[j] = r[j]
          BY <1>1, <1>5, <4>1, <4>3
        <5> QED
          BY <2>1, <4>1, <5>1
      <4>4. CASE j > i
        <5>1. j - 1 \in 1 .. k /\ q[j] = r[j - 1]
          BY <1>5, <4>4
        <5>2. j - 1 # l - 1
          BY <1>1
        <5> QED
          BY <2>1, <4>1, <5>1, <5>2
      <4> QED
        BY <1>1, <4>2, <4>3, <4>4
    <3> QED
      BY <1>1, <3>1, <3>2
  <2>4. a < b \/ b < a
    BY <1>1, <1>10
  <2> QED
    BY <2>3, <2>4
<1> QED
  BY <1>4, <1>7, <1>8, <1>9, <1>10 DEF SortedUpTo, q, x

\* Sorting keeps the elements and puts them in order.
LEMMA SortedByIs ==
  ASSUME NEW s, NEW key, s \in Seq(ToSet(s)), key \in [ToSet(s) -> Int]
  PROVE  /\ SortedBy(s, key) \in Seq(ToSet(s)) /\ Len(SortedBy(s, key)) = Len(s)
         /\ \A i, j \in 1 .. Len(s) :
              i < j => key[SortedBy(s, key)[i]] <= key[SortedBy(s, key)[j]]
         /\ ToSet(SortedBy(s, key)) = ToSet(s)
         /\ Distinct(s) => Distinct(SortedBy(s, key))
<1> DEFINE S == ToSet(s)
           N == Len(s)
<1>1. N \in Nat /\ DOMAIN s = 1 .. N
  OBVIOUS
<1>2. s \in Seq(S) /\ key \in [S -> Int]
  OBVIOUS
<1>3. \A x : x \in S <=> \E i \in 1 .. N : s[i] = x
  BY <1>1 DEF ToSet
<1> HIDE DEF S
<1>4. PICK h : /\ h[0] = <<>>
               /\ \A k \in 1 .. N : h[k] = InsertBy(h[k - 1], s[k], key)
               /\ SortedBy(s, key) = h[N]
  BY <1>2, SortFold
<1> DEFINE T == {k \in 0 .. N : SortedUpTo(h[k], s, k, key, S)}
<1>5. 0 \in T
  <2>1. <<>> \in Seq(S) /\ Len(<<>>) = 0 /\ 1 .. 0 = {}
    OBVIOUS
  <2>2. SortedUpTo(<<>>, s, 0, key, S)
    BY <2>1 DEF SortedUpTo
  <2> QED
    BY <1>1, <1>4, <2>2
<1>6. ASSUME NEW k \in 0 .. N - 1, k \in T
      PROVE  k + 1 \in T
  <2>1. k + 1 \in 1 .. N /\ (k + 1) - 1 = k /\ k + 1 \in 0 .. N
    BY <1>1
  <2>2. h[k + 1] = InsertBy(h[k], s[k + 1], key)
    BY <1>4, <2>1
  <2>3. SortedUpTo(h[k], s, k, key, S)
    BY <1>6
  <2> QED
    BY <1>2, <2>1, <2>2, <2>3, SortStep
<1> HIDE DEF T, N
<1>7. N \in T
  <2>1. N \in Nat /\ 0 \in T /\ \A k \in 0 .. N - 1 : k \in T => k + 1 \in T
    BY <1>1, <1>5, <1>6
  <2>2. \A k \in 0 .. N : k \in T
    BY ONLY <2>1, UpTo
  <2> QED
    BY <2>1, <2>2
<1> DEFINE r == SortedBy(s, key)
<1>8. SortedUpTo(r, s, N, key, S)
  BY <1>4, <1>7 DEF T
<1> HIDE DEF r
<1>9. r \in Seq(S) /\ Len(r) = N
  BY <1>8 DEF SortedUpTo
<1>10. DOMAIN r = 1 .. N
  BY <1>9
<1>11. ToSet(r) = S
  <2>1. \A x : x \in ToSet(r) <=> \E i \in 1 .. N : r[i] = x
    BY <1>10 DEF ToSet
  <2>2. /\ \A j \in 1 .. N : \E i \in 1 .. N : r[j] = s[i]
        /\ \A i \in 1 .. N : \E j \in 1 .. N : r[j] = s[i]
    BY <1>8 DEF SortedUpTo
  <2>3. \A x : x \in ToSet(r) <=> x \in S
    BY <1>3, <2>1, <2>2
  <2> QED
    BY <2>3
<1>12. Distinct(s) => Distinct(r)
  BY <1>8, <1>9 DEF SortedUpTo, Distinct
<1>13. \A i, j \in 1 .. N : i < j => key[r[i]] <= key[r[j]]
  BY <1>8 DEF SortedUpTo
<1> QED
  BY <1>9, <1>11, <1>12, <1>13 DEF r, N, S

-----------------------------------------------------------------------------
(* BEGIN and END *)

IsOpOf(e, ptr) == e.type \in OpTypes /\ e.ptr = ptr

\* The BEGIN at i is the last operation event of its tensor among the first k.
OpenAt(events, k, i) ==
  /\ i \in 1 .. k /\ events[i].type = "OP_COMPUTE_BEGIN"
  /\ \A j \in i + 1 .. k : ~IsOpOf(events[j], events[i].ptr)

\* The pairs of positions that are a bar.
PairAt(events, p) ==
  /\ events[p.end].type = "OP_COMPUTE_END" /\ events[p.end].ptr = events[p.begin].ptr
  /\ OpenAt(events, p.end - 1, p.begin)

Positions(events) == [begin : 1 .. Len(events), end : 1 .. Len(events)]

Paired(events) == {p \in Positions(events) : PairAt(events, p)}

\* What one more event leaves open.
LEMMA OpenStep ==
  ASSUME NEW events, NEW k \in Nat
  PROVE  /\ \A i \in 1 .. k : OpenAt(events, k + 1, i) <=>
              OpenAt(events, k, i) /\ ~IsOpOf(events[k + 1], events[i].ptr)
         /\ OpenAt(events, k + 1, k + 1) <=> events[k + 1].type = "OP_COMPUTE_BEGIN"
<1>1. ASSUME NEW i \in 1 .. k
      PROVE  OpenAt(events, k + 1, i) <=>
               OpenAt(events, k, i) /\ ~IsOpOf(events[k + 1], events[i].ptr)
  <2>1. /\ i \in 1 .. k + 1
        /\ \A j : j \in i + 1 .. k + 1 <=> j \in i + 1 .. k \/ j = k + 1
    OBVIOUS
  <2> QED
    BY <2>1 DEF OpenAt
<1>2. k + 1 \in 1 .. k + 1 /\ (k + 1) + 1 .. k + 1 = {}
  OBVIOUS
<1> QED
  BY <1>1, <1>2 DEF OpenAt

\* acc is what get_op_timings() has after k events.
PendingIn(events) ==
  UNION {[D -> 1 .. Len(events)] : D \in SUBSET {events[i].ptr : i \in 1 .. Len(events)}}

PairAcc(events) == [timings : Seq(Positions(events)), pending : PendingIn(events)]

PairedUpTo(acc, events, k) ==
  /\ acc \in PairAcc(events)
  /\ \A ptr \in DOMAIN acc.pending :
       OpenAt(events, k, acc.pending[ptr]) /\ events[acc.pending[ptr]].ptr = ptr
  /\ \A i \in 1 .. k :
       OpenAt(events, k, i) =>
         events[i].ptr \in DOMAIN acc.pending /\ acc.pending[events[i].ptr] = i
  /\ \A j \in 1 .. Len(acc.timings) : PairAt(events, acc.timings[j]) /\ acc.timings[j].end <= k
  /\ \A p \in Paired(events) :
       p.end <= k => \E j \in 1 .. Len(acc.timings) : acc.timings[j] = p
  /\ Distinct(acc.timings)

\* One step is well typed.
LEMMA PairOpType ==
  ASSUME NEW events, Len(events) \in Nat, NEW acc \in PairAcc(events), NEW k \in 1 .. Len(events)
  PROVE  PairOp(acc, events, k) \in PairAcc(events)
<1> DEFINE ptr == events[k].ptr
           P == {events[i].ptr : i \in 1 .. Len(events)}
<1>1. /\ acc.timings \in Seq(Positions(events))
      /\ acc = [timings |-> acc.timings, pending |-> acc.pending]
      /\ acc.pending \in PendingIn(events)
  BY DEF PairAcc
<1>2. PICK D \in SUBSET P : acc.pending \in [D -> 1 .. Len(events)]
  BY <1>1 DEF PendingIn
<1>3. ptr \in P
  OBVIOUS
<1>4. Put(acc.pending, ptr, k) \in PendingIn(events)
  <2>1. Put(acc.pending, ptr, k) \in [D \cup {ptr} -> 1 .. Len(events)]
    BY <1>2 DEF Put
  <2>2. D \cup {ptr} \in SUBSET P
    BY <1>2, <1>3
  <2> QED
    BY <2>1, <2>2, Zenon DEF PendingIn
<1>5. Forget(acc.pending, ptr) \in PendingIn(events)
  <2>1. Forget(acc.pending, ptr) \in [D \ {ptr} -> 1 .. Len(events)]
    BY <1>2 DEF Forget
  <2>2. D \ {ptr} \in SUBSET P
    BY <1>2
  <2> QED
    BY <2>1, <2>2, Zenon DEF PendingIn
<1>6. ASSUME ptr \in DOMAIN acc.pending
      PROVE  Append(acc.timings, Timing(acc, events, k)) \in Seq(Positions(events))
  <2>1. Timing(acc, events, k) \in Positions(events)
    BY <1>2, <1>6 DEF Timing, Positions
  <2> QED
    BY <1>1, <2>1
<1> HIDE DEF ptr
<1>7. PairOp(acc, events, k) = acc \/
      \E ts \in Seq(Positions(events)), pe \in PendingIn(events) :
        PairOp(acc, events, k) = [timings |-> ts, pending |-> pe]
  BY <1>1, <1>4, <1>5, <1>6, Zenon DEF PairOp, ptr
<1> QED
  BY <1>7 DEF PairAcc

\* A pair ends at its END.
LEMMA PairEnds ==
  ASSUME NEW events, NEW k \in Nat, NEW p \in Paired(events), p.end <= k + 1, ~(p.end <= k)
  PROVE  /\ p.end = k + 1 /\ events[k + 1].type = "OP_COMPUTE_END"
         /\ events[k + 1].ptr = events[p.begin].ptr
         /\ p.begin \in 1 .. k /\ OpenAt(events, k, p.begin)
<1>1. p \in Positions(events) /\ PairAt(events, p)
  BY DEF Paired
<1>2. p.end \in 1 .. Len(events)
  BY <1>1 DEF Positions
<1>3. p.end = k + 1
  BY <1>2
<1>4. (k + 1) - 1 = k
  OBVIOUS
<1>5. OpenAt(events, k, p.begin)
  BY <1>1, <1>3, <1>4 DEF PairAt
<1> QED
  BY <1>1, <1>3, <1>5 DEF PairAt, OpenAt

\* One more event of get_op_timings().
LEMMA PairStep ==
  ASSUME NEW events, Len(events) \in Nat, NEW k \in 0 .. Len(events) - 1, NEW acc,
         PairedUpTo(acc, events, k)
  PROVE  PairedUpTo(PairOp(acc, events, k + 1), events, k + 1)
<1> DEFINE e == events[k + 1]
           new == PairOp(acc, events, k + 1)
           ts == acc.timings
           pe == acc.pending
<1>1. /\ k \in Nat /\ k + 1 \in 1 .. Len(events) /\ k <= k + 1
      /\ \A i \in 1 .. k + 1 : i \in 1 .. k \/ i = k + 1
  OBVIOUS
<1>2. /\ acc \in PairAcc(events) /\ ts \in Seq(Positions(events)) /\ pe \in PendingIn(events)
  BY DEF PairedUpTo, PairAcc
<1>3. new \in PairAcc(events)
  BY <1>1, <1>2, PairOpType
<1>4. /\ \A ptr \in DOMAIN pe : OpenAt(events, k, pe[ptr]) /\ events[pe[ptr]].ptr = ptr
      /\ \A i \in 1 .. k : OpenAt(events, k, i) =>
           events[i].ptr \in DOMAIN pe /\ pe[events[i].ptr] = i
      /\ \A j \in 1 .. Len(ts) : PairAt(events, ts[j]) /\ ts[j].end <= k
      /\ \A p \in Paired(events) : p.end <= k => \E j \in 1 .. Len(ts) : ts[j] = p
      /\ Distinct(ts)
  BY DEF PairedUpTo
<1>5. \A ptr \in DOMAIN pe : pe[ptr] \in 1 .. k
  BY <1>4 DEF OpenAt
<1>6. /\ \A i \in 1 .. k : OpenAt(events, k + 1, i) <=>
              OpenAt(events, k, i) /\ ~IsOpOf(e, events[i].ptr)
      /\ OpenAt(events, k + 1, k + 1) <=> e.type = "OP_COMPUTE_BEGIN"
  BY <1>1, OpenStep
<1>7. /\ Len(ts) \in Nat
      /\ \A j \in 1 .. Len(ts) : ts[j] \in Positions(events) /\ ts[j].end \in 1 .. Len(events)
  <2>1. \A j \in 1 .. Len(ts) : ts[j] \in Positions(events)
    BY <1>2
  <2> QED
    BY <1>2, <2>1 DEF Positions
<1>8. \A j \in 1 .. Len(ts) : ts[j].end <= k + 1
  BY <1>1, <1>4, <1>7
<1> HIDE DEF new, e, ts, pe
<1>9. CASE e.type = "OP_COMPUTE_BEGIN"
  <2>1. new.timings = ts /\ new.pending = Put(pe, e.ptr, k + 1)
    BY <1>9 DEF PairOp, new, e, ts, pe
  <2>2. /\ DOMAIN new.pending = DOMAIN pe \cup {e.ptr}
        /\ new.pending[e.ptr] = k + 1
        /\ \A ptr \in DOMAIN pe : ptr # e.ptr => new.pending[ptr] = pe[ptr]
    BY <2>1 DEF Put
  <2>3. ASSUME NEW ptr \in DOMAIN new.pending
        PROVE  OpenAt(events, k + 1, new.pending[ptr]) /\ events[new.pending[ptr]].ptr = ptr
    <3>1. CASE ptr = e.ptr
      BY <1>6, <1>9, <2>2, <3>1 DEF e
    <3>2. CASE ptr # e.ptr
      <4>1. ptr \in DOMAIN pe /\ new.pending[ptr] = pe[ptr]
        BY <2>2, <3>2
      <4>2. ~IsOpOf(e, events[pe[ptr]].ptr)
        BY <1>4, <3>2, <4>1 DEF IsOpOf
      <4> QED
        BY <1>4, <1>5, <1>6, <4>1, <4>2
    <3> QED
      BY <3>1, <3>2
  <2>4. ASSUME NEW i \in 1 .. k + 1, OpenAt(events, k + 1, i)
        PROVE  events[i].ptr \in DOMAIN new.pending /\ new.pending[events[i].ptr] = i
    <3>1. CASE i = k + 1
      BY <2>2, <3>1 DEF e
    <3>2. CASE i \in 1 .. k
      <4>1. OpenAt(events, k, i) /\ ~IsOpOf(e, events[i].ptr)
        BY <1>6, <2>4, <3>2
      <4>2. events[i].ptr # e.ptr
        BY <1>9, <4>1 DEF IsOpOf, OpTypes
      <4> QED
        BY <1>4, <2>2, <3>2, <4>1, <4>2
    <3> QED
      BY <1>1, <3>1, <3>2
  <2>5. \A p \in Paired(events) : p.end <= k + 1 => p.end <= k
    BY <1>1, <1>9, PairEnds DEF e
  <2> QED
    BY <1>3, <1>4, <1>8, <2>1, <2>3, <2>4, <2>5 DEF PairedUpTo, new
<1>10. CASE e.type = "OP_COMPUTE_END" /\ e.ptr \in DOMAIN pe
  <2> DEFINE b == pe[e.ptr]
             p0 == [begin |-> b, end |-> k + 1]
  <2>1. new.timings = Append(ts, p0) /\ new.pending = Forget(pe, e.ptr)
    BY <1>10 DEF PairOp, Timing, new, e, ts, pe
  <2>2. DOMAIN new.pending = DOMAIN pe \ {e.ptr} /\ \A ptr \in DOMAIN new.pending : new.pending[ptr] = pe[ptr]
    BY <2>1 DEF Forget
  <2>3. b \in 1 .. k /\ OpenAt(events, k, b) /\ events[b].ptr = e.ptr
    BY <1>4, <1>5, <1>10
  <2>4. p0 \in Positions(events) /\ PairAt(events, p0) /\ p0.end = k + 1 /\ p0.begin = b
    <3>1. b \in 1 .. Len(events) /\ (k + 1) - 1 = k
      BY <1>1, <2>3
    <3> QED
      BY <1>1, <1>10, <2>3, <3>1 DEF Positions, PairAt, e
  <2> HIDE DEF b, p0
  <2>5. /\ Len(new.timings) = Len(ts) + 1 /\ new.timings[Len(ts) + 1] = p0
        /\ \A j \in 1 .. Len(ts) : new.timings[j] = ts[j]
    BY <1>2, <1>7, <2>1, <2>4 DEF ts
  <2>6. \A j \in 1 .. Len(ts) + 1 : j \in 1 .. Len(ts) \/ j = Len(ts) + 1
    BY <1>7
  <2>7. ASSUME NEW ptr \in DOMAIN new.pending
        PROVE  OpenAt(events, k + 1, new.pending[ptr]) /\ events[new.pending[ptr]].ptr = ptr
    <3>1. ptr \in DOMAIN pe /\ ptr # e.ptr /\ new.pending[ptr] = pe[ptr]
      BY <2>2
    <3>2. ~IsOpOf(e, events[pe[ptr]].ptr)
      BY <1>4, <3>1 DEF IsOpOf
    <3> QED
      BY <1>4, <1>5, <1>6, <3>1, <3>2
  <2>8. ASSUME NEW i \in 1 .. k + 1, OpenAt(events, k + 1, i)
        PROVE  events[i].ptr \in DOMAIN new.pending /\ new.pending[events[i].ptr] = i
    <3>1. i # k + 1
      BY <1>6, <1>10, <2>8
    <3>2. i \in 1 .. k
      BY <1>1, <3>1
    <3>3. OpenAt(events, k, i) /\ ~IsOpOf(e, events[i].ptr)
      BY <1>6, <2>8, <3>2
    <3>4. events[i].ptr # e.ptr
      BY <1>10, <3>3 DEF IsOpOf, OpTypes
    <3> QED
      BY <1>4, <2>2, <3>2, <3>3, <3>4
  <2>9. ASSUME NEW j \in 1 .. Len(new.timings)
        PROVE  PairAt(events, new.timings[j]) /\ new.timings[j].end <= k + 1
    BY <1>1, <1>4, <1>8, <2>4, <2>5, <2>6, SMTT(30)
  <2>10. ASSUME NEW p \in Paired(events), p.end <= k + 1
         PROVE  \E j \in 1 .. Len(new.timings) : new.timings[j] = p
    <3>1. CASE p.end <= k
      <4>1. PICK j \in 1 .. Len(ts) : ts[j] = p
        BY <1>4, <3>1
      <4>2. j \in 1 .. Len(new.timings) /\ new.timings[j] = p
        BY <1>7, <2>5, <4>1
      <4> QED
        BY <4>2
    <3>2. CASE ~(p.end <= k)
      <4>1. /\ p.end = k + 1 /\ e.ptr = events[p.begin].ptr
            /\ p.begin \in 1 .. k /\ OpenAt(events, k, p.begin)
        BY <1>1, <2>10, <3>2, PairEnds DEF e
      <4>2. p.begin = b
        BY <1>4, <4>1 DEF b
      <4>3. p = [begin |-> p.begin, end |-> p.end]
        BY DEF Paired, Positions
      <4>4. p = p0
        BY <4>1, <4>2, <4>3 DEF p0
      <4>5. Len(ts) + 1 \in 1 .. Len(new.timings)
        BY <1>7, <2>5
      <4> QED
        BY <2>5, <4>4, <4>5
    <3> QED
      BY <3>1, <3>2
  <2>11. Distinct(new.timings)
    <3>1. \A j \in 1 .. Len(ts) : ts[j] # p0
      <4> SUFFICES ASSUME NEW j \in 1 .. Len(ts), ts[j] = p0
                   PROVE  FALSE
        OBVIOUS
      <4>1. k + 1 <= k
        BY <1>4, <2>4
      <4> QED
        BY <1>1, <4>1
    <3>2. \A i, j \in 1 .. Len(ts) : i # j => ts[i] # ts[j]
      BY <1>4 DEF Distinct
    <3>3. \A i, j \in 1 .. Len(ts) + 1 : i # j => new.timings[i] # new.timings[j]
      BY ONLY <2>5, <2>6, <3>1, <3>2
    <3> QED
      BY <2>5, <3>3 DEF Distinct
  <2> QED
    BY <1>3, <2>7, <2>8, <2>9, <2>10, <2>11 DEF PairedUpTo, new
<1>11. CASE ~(e.type = "OP_COMPUTE_BEGIN") /\ ~(e.type = "OP_COMPUTE_END" /\ e.ptr \in DOMAIN pe)
  <2>1. new = acc
    BY <1>11 DEF PairOp, new, e, ts, pe
  <2>2. \A i \in 1 .. k : OpenAt(events, k, i) => ~IsOpOf(e, events[i].ptr)
    BY <1>4, <1>11 DEF IsOpOf, OpTypes
  <2>3. \A i \in 1 .. k : OpenAt(events, k + 1, i) <=> OpenAt(events, k, i)
    BY <1>6, <2>2
  <2>4. ~OpenAt(events, k + 1, k + 1)
    BY <1>6, <1>11
  <2>5. \A ptr \in DOMAIN pe : OpenAt(events, k + 1, pe[ptr]) /\ events[pe[ptr]].ptr = ptr
    BY <1>4, <1>5, <2>3
  <2>6. \A i \in 1 .. k + 1 : OpenAt(events, k + 1, i) =>
           events[i].ptr \in DOMAIN pe /\ pe[events[i].ptr] = i
    BY <1>1, <1>4, <2>3, <2>4
  <2>7. ASSUME NEW p \in Paired(events), p.end <= k + 1
        PROVE  p.end <= k
    <3>1. SUFFICES ASSUME ~(p.end <= k)
                   PROVE  FALSE
      OBVIOUS
    <3>2. /\ e.type = "OP_COMPUTE_END" /\ e.ptr = events[p.begin].ptr
          /\ p.begin \in 1 .. k /\ OpenAt(events, k, p.begin)
      BY <1>1, <2>7, <3>1, PairEnds DEF e
    <3> QED
      BY <1>4, <1>11, <3>2
  <2> QED
    BY <1>2, <1>4, <1>8, <2>1, <2>5, <2>6, <2>7 DEF PairedUpTo, new, ts, pe
<1> QED
  BY <1>9, <1>10, <1>11

\* get_op_timings() has the pairs of the trace, each once.
LEMMA PairedOpsAre ==
  ASSUME NEW events, Len(events) \in Nat, DOMAIN events = 1 .. Len(events)
  PROVE  \E acc : PairedUpTo(acc, events, Len(events)) /\ PairedOps(events) = acc.timings
<1> DEFINE N == Len(events)
           Acc == PairAcc(events)
           base == [timings |-> <<>>, pending |-> <<>>]
           step == [p \in Acc \X (1 .. N) |-> PairOp(p[1], events, p[2])]
           index == [i \in DOMAIN events |-> i]
<1>1. N \in Nat /\ DOMAIN index = 1 .. N /\ \A k \in 1 .. N : index[k] = k
  OBVIOUS
<1>2. step \in [Acc \X (1 .. N) -> Acc]
  BY PairOpType
<1>3. base \in Acc
  <2>1. <<>> \in Seq(Positions(events))
    OBVIOUS
  <2>2. <<>> \in [{} -> 1 .. Len(events)]
    OBVIOUS
  <2>3. <<>> \in PendingIn(events)
    BY <2>2, Zenon DEF PendingIn
  <2> QED
    BY <2>1, <2>3 DEF PairAcc
<1>4. \A a \in Acc, k \in 1 .. N : step[<<a, k>>] = PairOp(a, events, k)
  OBVIOUS
<1>5. PairedUpTo(base, events, 0)
  <2>1. /\ base.timings = <<>> /\ base.pending = <<>> /\ DOMAIN base.pending = {}
        /\ Len(base.timings) = 0
    OBVIOUS
  <2>2. \A p \in Paired(events) : ~(p.end <= 0)
    BY DEF Paired, Positions
  <2> HIDE DEF base, Acc
  <2> QED
    BY <1>3, <2>1, <2>2 DEF PairedUpTo, Distinct, Acc
<1> HIDE DEF step, Acc, N, base
<1>6. PICK g \in [SUBSET (1 .. N) -> Acc] : IsFold(g, N, base, step)
  BY <1>1, <1>2, <1>3, FoldExists
<1>7. \A x \in SUBSET (1 .. N) : x # {} => Max(x) \in x
  BY <1>1, MaxIn
<1> HIDE DEF index
<1>8. g = [x \in SUBSET (DOMAIN index) |->
             IF x = {} THEN base ELSE LET y == Max(x) IN PairOp(g[x \ {y}], events, index[y])]
  <2>1. \A x \in SUBSET (1 .. N) : x # {} =>
          step[<<g[x \ {Max(x)}], Max(x)>>] = PairOp(g[x \ {Max(x)}], events, index[Max(x)])
    BY <1>1, <1>4, <1>6, <1>7
  <2>2. g = [x \in SUBSET (1 .. N) |-> g[x]]
    BY <1>6
  <2> QED
    BY <1>1, <1>6, <2>1, <2>2 DEF IsFold
<1> DEFINE Iter == LET iter[x \in SUBSET (DOMAIN index)] ==
                         IF x = {} THEN base
                         ELSE LET y == Max(x) IN PairOp(iter[x \ {y}], events, index[y])
                   IN  iter
<1>9. Iter = [x \in SUBSET (DOMAIN index) |->
                IF x = {} THEN base ELSE LET y == Max(x) IN PairOp(Iter[x \ {y}], events, index[y])]
  BY <1>8, Zenon
<1>10. PairedOps(events) = Iter[DOMAIN index].timings
  BY DEF PairedOps, FoldLeftDomain, FoldLeft, MapThenFoldSet, index, base
<1> HIDE DEF Iter
<1> DEFINE T == {k \in 0 .. N : PairedUpTo(Iter[1 .. k], events, k)}
<1>11. 0 \in T
  <2>1. 1 .. 0 = {} /\ {} \in SUBSET (1 .. N) /\ 0 \in 0 .. N
    BY <1>1
  <2>2. Iter[{}] = base
    BY <1>1, <1>9, <2>1
  <2> QED
    BY <1>5, <2>1, <2>2
<1>12. ASSUME NEW k \in 0 .. N - 1, k \in T
       PROVE  k + 1 \in T
  <2>1. k \in Nat /\ k + 1 \in Nat /\ k + 1 \in 1 .. N /\ k + 1 \in 0 .. N /\ k \in 0 .. Len(events) - 1
    BY <1>1 DEF N
  <2>2. /\ 1 .. k + 1 \in SUBSET (1 .. N) /\ 1 .. k \in SUBSET (1 .. N)
        /\ k + 1 \in 1 .. k + 1 /\ 1 .. k + 1 # {}
    <3>1. k + 1 \in 1 .. k + 1
      BY <2>1
    <3>2. k + 1 <= N /\ \A j \in 1 .. k + 1 : j \in 1 .. N
      BY <1>1, <2>1
    <3>3. \A j \in 1 .. k : j \in 1 .. N
      BY <1>1, <2>1
    <3> QED
      BY <3>1, <3>2, <3>3
  <2>3. (1 .. k + 1) \ {k + 1} = 1 .. k
    <3>1. \A j : j \in (1 .. k + 1) \ {k + 1} <=> j \in 1 .. k
      BY <2>1
    <3> QED
      BY <3>1
  <2>4. Max(1 .. k + 1) = k + 1
    BY <2>1, <2>2, MaxIs
  <2>5. Iter[1 .. k + 1] = PairOp(Iter[1 .. k], events, k + 1)
    <3>1. index[k + 1] = k + 1
      BY <1>1, <2>1
    <3> QED
      BY <1>1, <1>9, <2>2, <2>3, <2>4, <3>1
  <2> QED
    BY <1>1, <1>12, <2>1, <2>5, PairStep DEF N
<1> HIDE DEF T
<1>13. N \in T
  <2>1. N \in Nat /\ 0 \in T /\ \A k \in 0 .. N - 1 : k \in T => k + 1 \in T
    BY <1>1, <1>11, <1>12
  <2>2. \A k \in 0 .. N : k \in T
    BY ONLY <2>1, UpTo
  <2> QED
    BY <2>1, <2>2
<1> QED
  BY <1>1, <1>10, <1>13 DEF T, N

\* The bars of the timeline: the pairs of the trace by their start.
LEMMA BarsAre ==
  ASSUME NEW events, Len(events) \in Nat, DOMAIN events = 1 .. Len(events)
  PROVE  LET bars == ProcessEvents(events)
         IN  /\ ToSet(bars) = Paired(events)
             /\ DOMAIN bars = 1 .. Len(bars) /\ Len(bars) \in Nat
             /\ \A j, k \in DOMAIN bars : j < k => bars[j].begin < bars[k].begin
<1>1. PICK acc : PairedUpTo(acc, events, Len(events)) /\ PairedOps(events) = acc.timings
  BY PairedOpsAre
<1> DEFINE ts == PairedOps(events)
           key == [x \in ToSet(ts) |-> x.begin - x.end]
           us == SortedBy(ts, key)
           byBegin == [x \in ToSet(us) |-> x.begin]
           bars == SortedBy(us, byBegin)
<1>2. /\ ts \in Seq(Positions(events)) /\ Distinct(ts)
      /\ \A j \in 1 .. Len(ts) : PairAt(events, ts[j])
      /\ \A p \in Paired(events) :
           p.end <= Len(events) => \E j \in 1 .. Len(ts) : ts[j] = p
  BY <1>1 DEF PairedUpTo, PairAcc
<1> HIDE DEF ts
<1>3. /\ Len(ts) \in Nat /\ DOMAIN ts = 1 .. Len(ts)
      /\ \A j \in 1 .. Len(ts) : ts[j] \in Positions(events)
  BY <1>2
<1>4. \A x : x \in ToSet(ts) <=> \E j \in 1 .. Len(ts) : ts[j] = x
  BY <1>3 DEF ToSet
<1>5. ToSet(ts) = Paired(events)
  <2>1. \A p \in Paired(events) : p.end <= Len(events)
    <3> SUFFICES ASSUME NEW p \in Paired(events)
                 PROVE  p.end <= Len(events)
      OBVIOUS
    <3>1. p.end \in 1 .. Len(events)
      BY DEF Paired, Positions
    <3> QED
      BY <3>1
  <2>2. \A x : x \in ToSet(ts) <=> x \in Paired(events)
    BY <1>2, <1>3, <1>4, <2>1 DEF Paired
  <2> QED
    BY <2>2
<1>6. \A p \in Paired(events) : p.begin \in Int /\ p.end \in Int
  <2> SUFFICES ASSUME NEW p \in Paired(events)
               PROVE  p.begin \in Int /\ p.end \in Int
    OBVIOUS
  <2>1. p.begin \in 1 .. Len(events) /\ p.end \in 1 .. Len(events)
    BY DEF Paired, Positions
  <2> QED
    BY <2>1
<1>7. ts \in Seq(ToSet(ts)) /\ key \in [ToSet(ts) -> Int]
  <2>1. \A j \in 1 .. Len(ts) : ts[j] \in ToSet(ts)
    BY <1>4
  <2>2. ts \in Seq(ToSet(ts))
    BY <1>2, <1>3, <2>1
  <2>3. \A x \in ToSet(ts) : x.begin - x.end \in Int
    BY <1>5, <1>6
  <2> QED
    BY <2>2, <2>3
<1> HIDE DEF key
<1>8. us \in Seq(ToSet(ts)) /\ ToSet(us) = ToSet(ts) /\ Distinct(us)
  BY <1>2, <1>7, SortedByIs
<1> HIDE DEF us
<1>9. us \in Seq(ToSet(us)) /\ byBegin \in [ToSet(us) -> Int]
  BY <1>5, <1>6, <1>8
<1>10. \A x \in ToSet(us) : byBegin[x] = x.begin
  OBVIOUS
<1> HIDE DEF byBegin
<1>11. /\ bars \in Seq(ToSet(us)) /\ Len(bars) = Len(us) /\ Distinct(bars)
       /\ \A i, j \in 1 .. Len(us) : i < j => byBegin[bars[i]] <= byBegin[bars[j]]
       /\ ToSet(bars) = ToSet(us)
  BY <1>8, <1>9, SortedByIs
<1>12. bars = ProcessEvents(events)
  BY DEF ProcessEvents, GetOpTimings, ts, key, us, byBegin
<1> HIDE DEF bars
<1>13. /\ DOMAIN bars = 1 .. Len(bars) /\ Len(bars) \in Nat
       /\ \A j \in 1 .. Len(bars) : bars[j] \in Paired(events)
  <2>1. DOMAIN bars = 1 .. Len(bars) /\ Len(bars) \in Nat
    BY <1>11
  <2>2. \A j \in 1 .. Len(bars) : bars[j] \in ToSet(us)
    BY <1>11
  <2> QED
    BY <1>5, <1>8, <2>1, <2>2
<1>14. ASSUME NEW p \in Paired(events), NEW q \in Paired(events), p.begin = q.begin
       PROVE  p = q
  <2>1. /\ p \in Positions(events) /\ PairAt(events, p)
        /\ q \in Positions(events) /\ PairAt(events, q)
    BY DEF Paired
  <2>2. ~(p.end < q.end)
    <3> SUFFICES ASSUME p.end < q.end
                 PROVE  FALSE
      OBVIOUS
    <3>1. p.end \in p.begin + 1 .. q.end - 1
      BY <2>1, <1>14 DEF PairAt, OpenAt, Positions
    <3>2. ~IsOpOf(events[p.end], events[q.begin].ptr)
      BY <1>14, <2>1, <3>1 DEF PairAt, OpenAt
    <3> QED
      BY <1>14, <2>1, <3>2 DEF PairAt, IsOpOf, OpTypes
  <2>3. ~(q.end < p.end)
    <3> SUFFICES ASSUME q.end < p.end
                 PROVE  FALSE
      OBVIOUS
    <3>1. q.end \in q.begin + 1 .. p.end - 1
      BY <2>1, <1>14 DEF PairAt, OpenAt, Positions
    <3>2. ~IsOpOf(events[q.end], events[p.begin].ptr)
      BY <1>14, <2>1, <3>1 DEF PairAt, OpenAt
    <3> QED
      BY <1>14, <2>1, <3>2 DEF PairAt, IsOpOf, OpTypes
  <2>4. p.end = q.end
    BY <2>1, <2>2, <2>3 DEF Positions
  <2> QED
    BY <1>14, <2>1, <2>4 DEF Positions
<1>15. ASSUME NEW j \in 1 .. Len(bars), NEW k \in 1 .. Len(bars), j < k
       PROVE  bars[j].begin < bars[k].begin
  <2>1. bars[j].begin <= bars[k].begin
    BY <1>5, <1>8, <1>10, <1>11, <1>13, <1>15
  <2>2. bars[j] # bars[k]
    BY <1>11, <1>15 DEF Distinct
  <2>3. bars[j].begin # bars[k].begin
    BY <1>13, <1>14, <2>2
  <2> QED
    BY <1>6, <1>13, <2>1, <2>3
<1> QED
  BY <1>5, <1>8, <1>11, <1>12, <1>13, <1>15

-----------------------------------------------------------------------------
(* Sums *)

\* w gives each subset of D the sum of f over it.
IsMeasure(w, D, f) ==
  /\ w \in [SUBSET D -> Int] /\ w[{}] = 0
  /\ \A A \in SUBSET D : \A x \in D \ A : w[A \cup {x}] = w[A] + f[x]

\* One more element to sum over.
LEMMA MeasureExtends ==
  ASSUME NEW D, NEW d, d \notin D, NEW f, \A x \in D \cup {d} : f[x] \in Int,
         NEW w, IsMeasure(w, D, f)
  PROVE  \E v : IsMeasure(v, D \cup {d}, f)
<1> DEFINE E == D \cup {d}
           v == [A \in SUBSET E |-> IF d \in A THEN w[A \ {d}] + f[d] ELSE w[A]]
<1>1. /\ w \in [SUBSET D -> Int] /\ w[{}] = 0
      /\ \A A \in SUBSET D : \A x \in D \ A : w[A \cup {x}] = w[A] + f[x]
  BY DEF IsMeasure
<1>2. \A A \in SUBSET E : (d \in A => A \ {d} \in SUBSET D) /\ (d \notin A => A \in SUBSET D)
  OBVIOUS
<1>3. v \in [SUBSET E -> Int]
  BY <1>1, <1>2
<1>4. v[{}] = 0
  BY <1>1
<1>5. ASSUME NEW A \in SUBSET E, NEW x \in E \ A
      PROVE  v[A \cup {x}] = v[A] + f[x]
  <2>1. A \cup {x} \in SUBSET E
    OBVIOUS
  <2>2. CASE x = d
    <3>1. (A \cup {x}) \ {d} = A /\ d \in A \cup {x} /\ d \notin A
      BY <2>2
    <3> QED
      BY <2>1, <2>2, <3>1
  <2>3. CASE x # d
    <3>1. x \in D
      BY <2>3
    <3>2. CASE d \in A
      <4>1. /\ (A \cup {x}) \ {d} = (A \ {d}) \cup {x} /\ d \in A \cup {x}
            /\ A \ {d} \in SUBSET D /\ x \in D \ (A \ {d})
        BY <2>3, <3>1, <3>2
      <4>2. w[(A \ {d}) \cup {x}] = w[A \ {d}] + f[x]
        BY <1>1, <4>1
      <4>3. v[A \cup {x}] = w[(A \ {d}) \cup {x}] + f[d] /\ v[A] = w[A \ {d}] + f[d]
        BY <2>1, <3>2, <4>1
      <4>4. w[A \ {d}] \in Int /\ w[(A \ {d}) \cup {x}] \in Int
        <5>1. (A \ {d}) \cup {x} \in SUBSET D
          BY <4>1, <3>1
        <5> QED
          BY <1>1, <4>1, <5>1
      <4>5. f[x] \in Int /\ f[d] \in Int
        BY <3>1
      <4> QED
        BY <4>2, <4>3, <4>4, <4>5
    <3>3. CASE d \notin A
      <4>1. d \notin A \cup {x} /\ A \in SUBSET D /\ x \in D \ A
        BY <2>3, <3>1, <3>3
      <4> QED
        BY <1>1, <2>1, <3>3, <4>1
    <3> QED
      BY <3>2, <3>3
  <2> QED
    BY <2>2, <2>3
<1> HIDE DEF v, E
<1>6. IsMeasure(v, E, f)
  BY <1>3, <1>4, <1>5 DEF IsMeasure
<1> QED
  BY <1>6 DEF E

\* There is a measure on every finite set.
LEMMA MeasureExists ==
  ASSUME NEW D, IsFiniteSet(D), NEW f, \A x \in D : f[x] \in Int
  PROVE  \E w : IsMeasure(w, D, f)
<1> DEFINE Has(A) == \E w : IsMeasure(w, A, f)
           S == {n \in Nat : \A A \in SUBSET D : Cardinality(A) = n => Has(A)}
<1>1. 0 \in S
  <2>1. ASSUME NEW A \in SUBSET D, Cardinality(A) = 0
        PROVE  Has(A)
    <3>1. A = {}
      BY <2>1, FS_EmptySet, FS_Subset
    <3>2. [x \in SUBSET {} |-> 0] \in [SUBSET {} -> Int] /\ [x \in SUBSET {} |-> 0][{}] = 0
      OBVIOUS
    <3>3. IsMeasure([x \in SUBSET {} |-> 0], {}, f)
      BY <3>2 DEF IsMeasure
    <3> QED
      BY <3>1, <3>3
  <2> QED
    BY <2>1
<1>2. ASSUME NEW n \in Nat, n \in S
      PROVE  n + 1 \in S
  <2>1. ASSUME NEW A \in SUBSET D, Cardinality(A) = n + 1
        PROVE  Has(A)
    <3>1. IsFiniteSet(A) /\ n + 1 # 0
      BY FS_Subset
    <3>2. PICK d \in A : TRUE
      BY <2>1, <3>1, FS_EmptySet
    <3> DEFINE B == A \ {d}
    <3>3. B \in SUBSET D /\ Cardinality(B) = n
      <4>1. Cardinality(B) = Cardinality(A) - 1
        BY <3>1, <3>2, FS_RemoveElement
      <4> QED
        BY <2>1, <4>1
    <3>4. PICK w : IsMeasure(w, B, f)
      BY <1>2, <3>3
    <3>5. d \notin B /\ B \cup {d} = A /\ \A x \in B \cup {d} : f[x] \in Int
      BY <3>2
    <3> HIDE DEF B
    <3> QED
      BY <3>4, <3>5, MeasureExtends
  <2> QED
    BY <2>1
<1> HIDE DEF S
<1>3. Cardinality(D) \in S
  <2>1. Cardinality(D) \in Nat
    BY FS_CardinalityType
  <2> QED
    BY <1>1, <1>2, <2>1, NatSet
<1> QED
  BY <1>3 DEF S

\* The sum of a function over a set is what any measure of a larger set says.
LEMMA SumIs ==
  ASSUME NEW D, IsFiniteSet(D), NEW f, \A x \in D : f[x] \in Int,
         NEW w, IsMeasure(w, D, f), NEW A \in SUBSET D
  PROVE  SumFunctionOnSet(f, A) = w[A]
<1> DEFINE Iter == LET iter[s \in SUBSET A] ==
                         IF s = {} THEN 0
                         ELSE LET x == CHOOSE y \in s : TRUE IN f[x] + iter[s \ {x}]
                   IN  iter
           g == [s \in SUBSET A |-> w[s]]
<1>1. /\ w \in [SUBSET D -> Int] /\ w[{}] = 0
      /\ \A B \in SUBSET D : \A x \in D \ B : w[B \cup {x}] = w[B] + f[x]
  BY DEF IsMeasure
<1>2. ASSUME NEW s \in SUBSET D, NEW x \in s
      PROVE  w[s] = f[x] + w[s \ {x}]
  <2>1. s \ {x} \in SUBSET D /\ x \in D \ (s \ {x}) /\ (s \ {x}) \cup {x} = s
    OBVIOUS
  <2>2. w[s] = w[s \ {x}] + f[x]
    BY <1>1, <2>1
  <2>3. x \in D /\ w[s \ {x}] \in Int /\ f[x] \in Int
    BY <1>1, <2>1
  <2> QED
    BY <2>2, <2>3
<1>3. \A s \in SUBSET A : s # {} => (CHOOSE y \in s : TRUE) \in s
  OBVIOUS
<1>4. g = [s \in SUBSET A |->
             IF s = {} THEN 0 ELSE LET x == CHOOSE y \in s : TRUE IN f[x] + g[s \ {x}]]
  <2>1. ASSUME NEW s \in SUBSET A
        PROVE  g[s] = IF s = {} THEN 0
                      ELSE LET x == CHOOSE y \in s : TRUE IN f[x] + g[s \ {x}]
    <3> DEFINE x == CHOOSE y \in s : TRUE
    <3>1. s # {} => x \in s
      OBVIOUS
    <3> HIDE DEF x
    <3>2. s # {} => w[s] = f[x] + w[s \ {x}]
      BY <1>2, <3>1
    <3>3. g[s] = w[s] /\ g[s \ {x}] = w[s \ {x}]
      OBVIOUS
    <3>4. g[s] = IF s = {} THEN 0 ELSE f[x] + g[s \ {x}]
      BY <1>1, <3>2, <3>3
    <3> QED
      BY <3>4 DEF x
  <2> HIDE DEF g
  <2>2. g = [s \in SUBSET A |-> g[s]]
    BY DEF g
  <2> QED
    BY <2>1, <2>2
<1> HIDE DEF g
<1>5. Iter = [s \in SUBSET A |->
                IF s = {} THEN 0 ELSE LET x == CHOOSE y \in s : TRUE IN f[x] + Iter[s \ {x}]]
  BY <1>4, Zenon
<1>6. SumFunctionOnSet(f, A) = Iter[A]
  BY DEF SumFunctionOnSet, FoldFunctionOnSet, MapThenFoldSet
<1> HIDE DEF Iter
<1> DEFINE S == {n \in Nat : \A s \in SUBSET A : Cardinality(s) = n => Iter[s] = w[s]}
<1>7. IsFiniteSet(A)
  BY FS_Subset
<1>8. 0 \in S
  <2>1. \A s \in SUBSET A : Cardinality(s) = 0 => s = {}
    BY <1>7, FS_EmptySet, FS_Subset
  <2>2. Iter[{}] = 0
    BY <1>5
  <2> QED
    BY <1>1, <2>1, <2>2
<1>9. ASSUME NEW n \in Nat, n \in S
      PROVE  n + 1 \in S
  <2>1. ASSUME NEW s \in SUBSET A, Cardinality(s) = n + 1
        PROVE  Iter[s] = w[s]
    <3>1. IsFiniteSet(s) /\ s # {}
      BY <1>7, <2>1, FS_EmptySet, FS_Subset
    <3> DEFINE x == CHOOSE y \in s : TRUE
    <3>2. x \in s
      BY <3>1
    <3>3. Iter[s] = f[x] + Iter[s \ {x}]
      BY <1>5, <3>1
    <3> HIDE DEF x
    <3>4. s \ {x} \in SUBSET A /\ Cardinality(s \ {x}) = n
      <4>1. Cardinality(s \ {x}) = Cardinality(s) - 1
        BY <3>1, <3>2, FS_RemoveElement
      <4> QED
        BY <2>1, <4>1
    <3>5. Iter[s \ {x}] = w[s \ {x}]
      BY <1>9, <3>4
    <3> QED
      BY <1>2, <3>2, <3>3, <3>5
  <2> QED
    BY <2>1
<1> HIDE DEF S
<1>10. Cardinality(A) \in S
  <2>1. Cardinality(A) \in Nat
    BY <1>7, FS_CardinalityType
  <2> QED
    BY <1>8, <1>9, <2>1, NatSet
<1> QED
  BY <1>6, <1>10 DEF S

\* The sum over nothing.
LEMMA SumEmpty == ASSUME NEW f PROVE SumFunctionOnSet(f, {}) = 0
<1> DEFINE w == [s \in SUBSET {} |-> 0]
<1>1. w \in [SUBSET {} -> Int] /\ w[{}] = 0
  OBVIOUS
<1>2. IsMeasure(w, {}, f)
  BY <1>1 DEF IsMeasure
<1> HIDE DEF w
<1>3. {} \in SUBSET {}
  OBVIOUS
<1> QED
  BY <1>1, <1>2, <1>3, FS_EmptySet, SumIs

\* An element more adds its value.
LEMMA SumAdd ==
  ASSUME NEW A, IsFiniteSet(A), NEW d, d \notin A, NEW f, \A x \in A \cup {d} : f[x] \in Int
  PROVE  /\ SumFunctionOnSet(f, A) \in Int
         /\ SumFunctionOnSet(f, A \cup {d}) = SumFunctionOnSet(f, A) + f[d]
<1> DEFINE D == A \cup {d}
<1>1. IsFiniteSet(D)
  BY FS_AddElement
<1>2. A \in SUBSET D /\ D \in SUBSET D /\ d \in D \ A
  OBVIOUS
<1>3. \A x \in D : f[x] \in Int
  OBVIOUS
<1> HIDE DEF D
<1>4. PICK w : IsMeasure(w, D, f)
  BY <1>1, <1>3, MeasureExists
<1>5. SumFunctionOnSet(f, A) = w[A] /\ SumFunctionOnSet(f, D) = w[D]
  BY <1>1, <1>2, <1>3, <1>4, SumIs
<1>6. w[A] \in Int /\ w[A \cup {d}] = w[A] + f[d]
  BY <1>2, <1>4 DEF IsMeasure
<1> QED
  BY <1>5, <1>6 DEF D

\* Functions that agree on a set have one sum over it.
LEMMA SumSame ==
  ASSUME NEW A, IsFiniteSet(A), NEW f, NEW g, \A x \in A : f[x] = g[x] /\ f[x] \in Int
  PROVE  SumFunctionOnSet(f, A) = SumFunctionOnSet(g, A)
<1>1. PICK w : IsMeasure(w, A, f)
  BY MeasureExists
<1>2. IsMeasure(w, A, g)
  BY <1>1 DEF IsMeasure
<1>3. A \in SUBSET A
  OBVIOUS
<1> QED
  BY <1>1, <1>2, <1>3, SumIs

-----------------------------------------------------------------------------
(* Memory *)

\* What the trace says of tensors: where they are and how large.
Sized(events) ==
  \A i \in 1 .. Len(events) :
    events[i].type = "TENSOR_ALLOC" =>
      events[i].size = Size[events[i].ptr] /\ Size[events[i].ptr] \in Nat

\* What one more event makes live, or no longer so.
LEMMA LiveStep ==
  ASSUME NEW events, NEW k \in Nat
  PROVE  Live(events, k + 1) =
           CASE events[k + 1].type = "TENSOR_ALLOC" -> Live(events, k) \cup {events[k + 1].ptr}
             [] events[k + 1].type = "TENSOR_FREE" -> Live(events, k) \ {events[k + 1].ptr}
             [] OTHER -> Live(events, k)
<1> DEFINE e == events[k + 1]
           L(n, ptr) == \E i \in 1 .. n :
                          /\ events[i].type = "TENSOR_ALLOC" /\ events[i].ptr = ptr
                          /\ \A j \in i + 1 .. n : ~IsFree(events[j], ptr)
<1>1. \A n, ptr : ptr \in Live(events, n) <=> L(n, ptr)
  BY DEF Live
<1>2. ASSUME NEW ptr
      PROVE  L(k + 1, ptr) <=>
               \/ e.type = "TENSOR_ALLOC" /\ e.ptr = ptr
               \/ L(k, ptr) /\ ~IsFree(e, ptr)
  <2>1. ASSUME e.type = "TENSOR_ALLOC", e.ptr = ptr
        PROVE  L(k + 1, ptr)
    <3>1. k + 1 \in 1 .. k + 1 /\ (k + 1) + 1 .. k + 1 = {}
      OBVIOUS
    <3> QED
      BY <2>1, <3>1
  <2>2. ASSUME L(k, ptr), ~IsFree(e, ptr)
        PROVE  L(k + 1, ptr)
    <3>1. PICK i \in 1 .. k : /\ events[i].type = "TENSOR_ALLOC" /\ events[i].ptr = ptr
                              /\ \A j \in i + 1 .. k : ~IsFree(events[j], ptr)
      BY <2>2
    <3>2. i \in 1 .. k + 1 /\ \A j \in i + 1 .. k + 1 : j \in i + 1 .. k \/ j = k + 1
      OBVIOUS
    <3> QED
      BY <2>2, <3>1, <3>2
  <2>3. ASSUME L(k + 1, ptr), ~(e.type = "TENSOR_ALLOC" /\ e.ptr = ptr)
        PROVE  L(k, ptr) /\ ~IsFree(e, ptr)
    <3>1. PICK i \in 1 .. k + 1 : /\ events[i].type = "TENSOR_ALLOC" /\ events[i].ptr = ptr
                                  /\ \A j \in i + 1 .. k + 1 : ~IsFree(events[j], ptr)
      BY <2>3
    <3>2. i # k + 1
      BY <2>3, <3>1
    <3>3. i \in 1 .. k /\ k + 1 \in i + 1 .. k + 1 /\ \A j \in i + 1 .. k : j \in i + 1 .. k + 1
      BY <3>2
    <3> QED
      BY <3>1, <3>3
  <2> QED
    BY <2>1, <2>2, <2>3
<1> HIDE DEF L
<1>3. CASE e.type = "TENSOR_ALLOC"
  <2>1. \A ptr : ~IsFree(e, ptr)
    BY <1>3 DEF IsFree
  <2>2. \A ptr : ptr \in Live(events, k + 1) <=> ptr \in Live(events, k) \/ ptr = e.ptr
    BY <1>1, <1>2, <1>3, <2>1
  <2>3. Live(events, k + 1) = Live(events, k) \cup {e.ptr}
    BY <2>2
  <2> QED
    BY <1>3, <2>3
<1>4. CASE e.type = "TENSOR_FREE"
  <2>1. \A ptr : ptr \in Live(events, k + 1) <=> ptr \in Live(events, k) /\ ptr # e.ptr
    BY <1>1, <1>2, <1>4 DEF IsFree
  <2>2. Live(events, k + 1) = Live(events, k) \ {e.ptr}
    BY <2>1
  <2> QED
    BY <1>4, <2>2
<1>5. CASE e.type # "TENSOR_ALLOC" /\ e.type # "TENSOR_FREE"
  <2>1. \A ptr : ptr \in Live(events, k + 1) <=> ptr \in Live(events, k)
    BY <1>1, <1>2, <1>5 DEF IsFree
  <2>2. Live(events, k + 1) = Live(events, k)
    BY <2>1
  <2> QED
    BY <1>5, <2>2
<1> QED
  BY <1>3, <1>4, <1>5

\* No live tensor is allocated again among the first k events.
Fresh(events, k) ==
  \A i \in 1 .. k : events[i].type = "TENSOR_ALLOC" => events[i].ptr \notin Live(events, i - 1)

PtrsOf(events) == {events[i].ptr : i \in 1 .. Len(events)}

Stats(P) ==
  [total_allocations : Nat, total_frees : Nat, bytes_allocated : Int, bytes_freed : Int,
   current_usage : Int, peak_usage : Int,
   allocations : UNION {[D -> Nat] : D \in SUBSET P}, freed_pointers : SUBSET P]

\* stats is what update_memory_stats() has after k events, of which kept are the
\* memory events.
CountedUpTo(stats, kept, events, k) ==
  /\ stats \in Stats(PtrsOf(events))
  /\ IsFiniteSet(Live(events, k)) /\ DOMAIN stats.allocations = Live(events, k)
  /\ \A ptr \in Live(events, k) : stats.allocations[ptr] = Size[ptr] /\ Size[ptr] \in Nat
  /\ stats.freed_pointers \cap Live(events, k) = {}
  /\ stats.current_usage = stats.bytes_allocated - stats.bytes_freed
  /\ stats.total_allocations + stats.total_frees = kept
  /\ \A n \in 0 .. k : LiveBytes(events, n) \in Int
  /\ Fresh(events, k) =>
       /\ stats.current_usage = LiveBytes(events, k)
       /\ \A n \in 0 .. k : LiveBytes(events, n) <= stats.peak_usage
       /\ \E n \in 0 .. k : LiveBytes(events, n) = stats.peak_usage

\* One event of update_memory_stats() is well typed.
LEMMA CountEventType ==
  ASSUME NEW events, Len(events) \in Nat, Sized(events),
         NEW stats \in Stats(PtrsOf(events)), NEW k \in 1 .. Len(events)
  PROVE  CountEvent(stats, events[k]) \in Stats(PtrsOf(events))
<1> DEFINE e == events[k]
           P == PtrsOf(events)
           F == UNION {[D -> Nat] : D \in SUBSET P}
<1>1. e.ptr \in P
  BY DEF PtrsOf
<1> HIDE DEF P
<1>2. /\ stats.total_allocations \in Nat /\ stats.total_frees \in Nat
      /\ stats.bytes_allocated \in Int /\ stats.bytes_freed \in Int
      /\ stats.current_usage \in Int /\ stats.peak_usage \in Int
      /\ stats.allocations \in F /\ stats.freed_pointers \in SUBSET P
  BY DEF Stats, P
<1>3. PICK D \in SUBSET P : stats.allocations \in [D -> Nat]
  BY <1>2
<1> HIDE DEF F
<1>4. CASE e.type = "TENSOR_ALLOC"
  <2>1. e.size \in Nat
    BY <1>4 DEF Sized
  <2>2. Put(stats.allocations, e.ptr, e.size) \in F
    <3>1. Put(stats.allocations, e.ptr, e.size) \in [D \cup {e.ptr} -> Nat]
      BY <1>3, <2>1 DEF Put
    <3>2. D \cup {e.ptr} \in SUBSET P
      BY <1>1
    <3> QED
      BY <3>1, <3>2, Zenon DEF F
  <2>3. CountEvent(stats, e) = CountAlloc(stats, e)
    BY <1>4 DEF CountEvent
  <2> HIDE DEF e
  <2>4. /\ stats.total_allocations + 1 \in Nat /\ stats.bytes_allocated + e.size \in Int
        /\ stats.current_usage + e.size \in Int
    <3>1. /\ stats.total_allocations \in Nat /\ stats.bytes_allocated \in Int
          /\ stats.current_usage \in Int
      BY <1>2
    <3> QED
      BY ONLY <2>1, <3>1, SMTT(30)
  <2>5. stats.freed_pointers \ {e.ptr} \in SUBSET P
    BY <1>2
  <2> QED
    BY <1>2, <2>2, <2>3, <2>4, <2>5 DEF CountAlloc, Stats, F, P, e
<1>5. CASE e.type = "TENSOR_FREE"
  <2> DEFINE size == IF FirstFree(stats, e) THEN stats.allocations[e.ptr] ELSE 0
             left == IF FirstFree(stats, e) THEN Forget(stats.allocations, e.ptr)
                                            ELSE stats.allocations
             freed == stats.freed_pointers \cup IF FirstFree(stats, e) THEN {e.ptr} ELSE {}
  <2>1. size \in Nat
    BY <1>3 DEF FirstFree
  <2>2. left \in F
    <3>1. Forget(stats.allocations, e.ptr) \in [D \ {e.ptr} -> Nat]
      BY <1>3 DEF Forget
    <3>2. Forget(stats.allocations, e.ptr) \in F
      BY <3>1, Zenon DEF F
    <3> QED
      BY <1>2, <3>2
  <2>3. freed \in SUBSET P
    BY <1>1, <1>2
  <2>4. CountEvent(stats, e) = FreeCounted(stats, e, left)
    BY <1>5 DEF CountEvent, CountFree
  <2>5. FreeCounted(stats, e, left) =
          [total_allocations |-> stats.total_allocations,
           total_frees |-> stats.total_frees + 1,
           bytes_allocated |-> stats.bytes_allocated,
           bytes_freed |-> stats.bytes_freed + size,
           current_usage |-> stats.current_usage - size,
           peak_usage |-> stats.peak_usage,
           allocations |-> left, freed_pointers |-> freed]
    BY DEF FreeCounted
  <2> HIDE DEF e, size, left, freed
  <2>6. /\ stats.total_frees + 1 \in Nat /\ stats.bytes_freed + size \in Int
        /\ stats.current_usage - size \in Int
    <3>1. /\ stats.total_frees \in Nat /\ stats.bytes_freed \in Int
          /\ stats.current_usage \in Int
      BY <1>2
    <3> QED
      BY ONLY <2>1, <3>1
  <2> QED
    BY <1>2, <2>2, <2>3, <2>4, <2>5, <2>6 DEF Stats, F, P, e
<1>6. CASE e.type # "TENSOR_ALLOC" /\ e.type # "TENSOR_FREE"
  BY <1>6 DEF CountEvent
<1> QED
  BY <1>4, <1>5, <1>6

\* The bytes that are live, with one of the tensors taken out.
LEMMA LiveSum ==
  ASSUME NEW events, NEW k \in Nat, IsFiniteSet(Live(events, k)),
         \A ptr \in Live(events, k) : Size[ptr] \in Nat
  PROVE  /\ LiveBytes(events, k) \in Int
         /\ \A ptr \in Live(events, k) :
              /\ SumFunctionOnSet(Size, Live(events, k) \ {ptr}) \in Int
              /\ LiveBytes(events, k) =
                   SumFunctionOnSet(Size, Live(events, k) \ {ptr}) + Size[ptr]
<1> DEFINE A == Live(events, k)
<1>1. ASSUME NEW ptr \in A
      PROVE  /\ SumFunctionOnSet(Size, A \ {ptr}) \in Int
             /\ SumFunctionOnSet(Size, A) = SumFunctionOnSet(Size, A \ {ptr}) + Size[ptr]
  <2> DEFINE B == A \ {ptr}
  <2>1. IsFiniteSet(B) /\ ptr \notin B /\ B \cup {ptr} = A /\ \A x \in B \cup {ptr} : Size[x] \in Int
    BY FS_RemoveElement
  <2> HIDE DEF A, B
  <2>2. /\ SumFunctionOnSet(Size, B) \in Int
        /\ SumFunctionOnSet(Size, B \cup {ptr}) = SumFunctionOnSet(Size, B) + Size[ptr]
    BY <2>1, SumAdd
  <2> QED
    BY <2>1, <2>2 DEF B
<1>2. SumFunctionOnSet(Size, A) \in Int
  <2>1. CASE A = {}
    BY <2>1, SumEmpty
  <2>2. CASE A # {}
    <3>1. PICK ptr \in A : TRUE
      BY <2>2
    <3>2. Size[ptr] \in Int
      OBVIOUS
    <3> DEFINE rest == SumFunctionOnSet(Size, A \ {ptr})
    <3>3. rest \in Int /\ SumFunctionOnSet(Size, A) = rest + Size[ptr]
      BY <1>1
    <3> HIDE DEF rest, A
    <3> QED
      BY <3>2, <3>3
  <2> QED
    BY <2>1, <2>2
<1> QED
  BY <1>1, <1>2 DEF LiveBytes

\* One more event of update_memory_stats().
LEMMA CountStep ==
  ASSUME NEW events, Len(events) \in Nat, Sized(events),
         NEW k \in 0 .. Len(events) - 1, NEW stats, NEW kept, CountedUpTo(stats, kept, events, k)
  PROVE  CountedUpTo(CountEvent(stats, events[k + 1]),
                     IF events[k + 1].type \in MemoryTypes THEN kept + 1 ELSE kept, events, k + 1)
<1> DEFINE e == events[k + 1]
           new == CountEvent(stats, e)
           live == Live(events, k)
           live2 == Live(events, k + 1)
           alloc == stats.allocations
           bytes == LiveBytes(events, k)
           bytes2 == LiveBytes(events, k + 1)
           P == PtrsOf(events)
<1>1. /\ k \in Nat /\ k + 1 \in 1 .. Len(events) /\ (k + 1) - 1 = k
      /\ \A n : n \in 0 .. k + 1 <=> n \in 0 .. k \/ n = k + 1
      /\ \A n : n \in 1 .. k + 1 <=> n \in 1 .. k \/ n = k + 1
  OBVIOUS
<1>2. stats \in Stats(P) /\ new \in Stats(P)
  BY <1>1, CountEventType DEF CountedUpTo
<1>3. /\ IsFiniteSet(live) /\ DOMAIN alloc = live
      /\ \A ptr \in live : alloc[ptr] = Size[ptr] /\ Size[ptr] \in Nat
      /\ stats.freed_pointers \cap live = {}
      /\ stats.current_usage = stats.bytes_allocated - stats.bytes_freed
      /\ stats.total_allocations + stats.total_frees = kept
  BY DEF CountedUpTo
<1>4. Fresh(events, k) =>
        /\ stats.current_usage = bytes
        /\ \A n \in 0 .. k : LiveBytes(events, n) <= stats.peak_usage
        /\ \E n \in 0 .. k : LiveBytes(events, n) = stats.peak_usage
  BY DEF CountedUpTo
<1>5. /\ bytes \in Int
      /\ \A ptr \in live :
           /\ SumFunctionOnSet(Size, live \ {ptr}) \in Int
           /\ bytes = SumFunctionOnSet(Size, live \ {ptr}) + Size[ptr]
  BY <1>1, <1>3, LiveSum
<1>6. /\ live2 = CASE e.type = "TENSOR_ALLOC" -> live \cup {e.ptr}
                   [] e.type = "TENSOR_FREE" -> live \ {e.ptr}
                   [] OTHER -> live
  BY <1>1, LiveStep
<1>7. Fresh(events, k + 1) =>
        Fresh(events, k) /\ (e.type = "TENSOR_ALLOC" => e.ptr \notin live)
  BY <1>1 DEF Fresh
<1>8. /\ stats.total_allocations \in Nat /\ stats.total_frees \in Nat
      /\ stats.bytes_allocated \in Int /\ stats.bytes_freed \in Int
      /\ stats.current_usage \in Int /\ stats.peak_usage \in Int
  BY <1>2 DEF Stats
<1>9. bytes2 = SumFunctionOnSet(Size, live2) /\ bytes = SumFunctionOnSet(Size, live)
  BY DEF LiveBytes
<1>10. e.type = "TENSOR_ALLOC" => e.size = Size[e.ptr] /\ Size[e.ptr] \in Nat
  BY <1>1 DEF Sized
<1>11. bytes2 \in Int => \A n \in 0 .. k + 1 : LiveBytes(events, n) \in Int
  BY <1>1 DEF CountedUpTo
<1> DEFINE kept2 == IF e.type \in MemoryTypes THEN kept + 1 ELSE kept
<1> HIDE DEF new, live, live2, bytes, bytes2, alloc, P
<1>12. CASE e.type = "TENSOR_ALLOC"
  <2>1. /\ new.total_allocations = stats.total_allocations + 1
        /\ new.total_frees = stats.total_frees
        /\ new.bytes_allocated = stats.bytes_allocated + e.size
        /\ new.bytes_freed = stats.bytes_freed
        /\ new.current_usage = stats.current_usage + e.size
        /\ new.peak_usage = IF new.current_usage > stats.peak_usage THEN new.current_usage
                                                                  ELSE stats.peak_usage
        /\ new.allocations = Put(alloc, e.ptr, e.size)
        /\ new.freed_pointers = stats.freed_pointers \ {e.ptr}
    BY <1>12 DEF new, CountEvent, CountAlloc, alloc
  <2>2. live2 = live \cup {e.ptr} /\ kept2 = kept + 1
    BY <1>6, <1>12 DEF MemoryTypes
  <2> HIDE DEF e, kept2
  <2>3. IsFiniteSet(live2)
    BY <1>3, <2>2, FS_AddElement
  <2>4. DOMAIN new.allocations = live2 /\
        \A ptr \in live2 : new.allocations[ptr] = Size[ptr] /\ Size[ptr] \in Nat
    BY <1>3, <1>10, <1>12, <2>1, <2>2 DEF Put
  <2>5. new.freed_pointers \cap live2 = {}
    <3>1. stats.freed_pointers \cap live = {}
      BY <1>3
    <3>2. new.freed_pointers = stats.freed_pointers \ {e.ptr} /\ live2 = live \cup {e.ptr}
      BY <2>1, <2>2
    <3> QED
      BY ONLY <3>1, <3>2
  <2>6. new.current_usage = new.bytes_allocated - new.bytes_freed
    BY <1>3, <1>8, <1>10, <1>12, <2>1, SMTT(30)
  <2>7. new.total_allocations + new.total_frees = kept2
    BY <1>3, <1>8, <2>1, <2>2
  <2>9. bytes2 \in Int
    <3>1. Live(events, k + 1) = live2
      BY DEF live2
    <3> QED
      BY <1>1, <2>3, <2>4, <3>1, LiveSum DEF bytes2
  <2>8. ASSUME Fresh(events, k + 1)
        PROVE  /\ new.current_usage = bytes2
               /\ \A n \in 0 .. k + 1 : LiveBytes(events, n) <= new.peak_usage
               /\ \E n \in 0 .. k + 1 : LiveBytes(events, n) = new.peak_usage
    <3>1. Fresh(events, k) /\ e.ptr \notin live
      BY <1>7, <1>12, <2>8
    <3>2. \A x \in live \cup {e.ptr} : Size[x] \in Int
      BY <1>3, <1>10, <1>12
    <3>3. bytes2 = bytes + Size[e.ptr]
      BY <1>3, <1>9, <2>2, <3>1, <3>2, SumAdd
    <3>4. new.current_usage = bytes2 /\ bytes2 \in Int
      BY <1>4, <1>5, <1>10, <1>12, <2>1, <3>1, <3>3, SMTT(30)
    <3>5. new.peak_usage = (IF bytes2 > stats.peak_usage THEN bytes2 ELSE stats.peak_usage)
      BY <2>1, <3>4
    <3>6. \A n \in 0 .. k + 1 : LiveBytes(events, n) <= new.peak_usage
      <4> SUFFICES ASSUME NEW n \in 0 .. k + 1
                   PROVE  LiveBytes(events, n) <= new.peak_usage
        OBVIOUS
      <4>1. CASE n = k + 1
        BY <1>8, <3>4, <3>5, <4>1 DEF bytes2
      <4>2. CASE n \in 0 .. k
        <5>1. LiveBytes(events, n) <= stats.peak_usage
          BY <1>4, <3>1, <4>2
        <5>2. LiveBytes(events, n) \in Int
          BY <4>2 DEF CountedUpTo
        <5> QED
          BY <1>8, <3>4, <3>5, <5>1, <5>2
      <4> QED
        BY <1>1, <4>1, <4>2
    <3>7. \E n \in 0 .. k + 1 : LiveBytes(events, n) = new.peak_usage
      <4>1. PICK m \in 0 .. k : LiveBytes(events, m) = stats.peak_usage
        BY <1>4, <3>1
      <4>2. m \in 0 .. k + 1 /\ k + 1 \in 0 .. k + 1
        BY <1>1
      <4> QED
        BY <3>5, <4>1, <4>2 DEF bytes2
    <3> QED
      BY <3>4, <3>6, <3>7
  <2> QED
    BY <1>2, <1>11, <2>3, <2>4, <2>5, <2>6, <2>7, <2>8, <2>9
       DEF CountedUpTo, e, new, live2, bytes2, P, kept2
<1>13. CASE e.type = "TENSOR_FREE"
  <2> DEFINE known == e.ptr \in live
  <2>1. FirstFree(stats, e) <=> known
    BY <1>3 DEF FirstFree, alloc
  <2>2. /\ new.total_allocations = stats.total_allocations
        /\ new.total_frees = stats.total_frees + 1
        /\ new.bytes_allocated = stats.bytes_allocated
        /\ new.bytes_freed = stats.bytes_freed + (IF known THEN alloc[e.ptr] ELSE 0)
        /\ new.current_usage = stats.current_usage - (IF known THEN alloc[e.ptr] ELSE 0)
        /\ new.peak_usage = stats.peak_usage
        /\ new.allocations = (IF known THEN Forget(alloc, e.ptr) ELSE alloc)
        /\ new.freed_pointers = stats.freed_pointers \cup IF known THEN {e.ptr} ELSE {}
    BY <1>13, <2>1 DEF new, CountEvent, CountFree, FreeCounted, alloc
  <2>3. live2 = live \ {e.ptr} /\ kept2 = kept + 1
    BY <1>6, <1>13 DEF MemoryTypes
  <2> HIDE DEF e, kept2
  <2>4. IsFiniteSet(live2)
    BY <1>3, <2>3, FS_RemoveElement
  <2>5. /\ DOMAIN new.allocations = live2
        /\ \A ptr \in live2 : new.allocations[ptr] = Size[ptr] /\ Size[ptr] \in Nat
    <3>1. CASE known
      BY <1>3, <2>2, <2>3, <3>1 DEF Forget
    <3>2. CASE ~known
      BY <1>3, <2>2, <2>3, <3>2
    <3> QED
      BY <3>1, <3>2
  <2>6. new.freed_pointers \cap live2 = {}
    BY <1>3, <2>2, <2>3
  <2>7. known => alloc[e.ptr] = Size[e.ptr] /\ Size[e.ptr] \in Nat
    BY <1>3
  <2>8. new.current_usage = new.bytes_allocated - new.bytes_freed
    BY <1>3, <1>8, <2>2, <2>7, SMTT(30)
  <2>9. new.total_allocations + new.total_frees = kept2
    <3>1. /\ new.total_allocations = stats.total_allocations
          /\ new.total_frees = stats.total_frees + 1
          /\ kept = stats.total_allocations + stats.total_frees
      BY <1>3, <2>2
    <3>2. stats.total_allocations + (stats.total_frees + 1) = kept + 1
      BY <1>8, <3>1
    <3> QED
      BY <2>3, <3>1, <3>2
  <2>10. bytes2 = bytes - (IF known THEN Size[e.ptr] ELSE 0) /\ bytes2 \in Int
    <3>1. CASE known
      BY <1>5, <1>9, <2>3, <2>7, <3>1
    <3>2. CASE ~known
      <4>1. live2 = live
        BY <2>3, <3>2
      <4> QED
        BY <1>5, <1>9, <3>2, <4>1
    <3> QED
      BY <3>1, <3>2
  <2>11. ASSUME Fresh(events, k + 1)
         PROVE  /\ new.current_usage = bytes2
                /\ \A n \in 0 .. k + 1 : LiveBytes(events, n) <= new.peak_usage
                /\ \E n \in 0 .. k + 1 : LiveBytes(events, n) = new.peak_usage
    <3>1. Fresh(events, k)
      BY <1>7, <2>11
    <3>2. new.current_usage = bytes2
      BY <1>4, <2>2, <2>7, <2>10, <3>1
    <3>3. bytes <= stats.peak_usage
      BY <1>1, <1>4, <3>1 DEF bytes
    <3>4. bytes2 <= new.peak_usage
      BY <1>5, <1>8, <2>2, <2>7, <2>10, <3>3
    <3> QED
      BY <1>1, <1>4, <2>2, <3>1, <3>2, <3>4 DEF bytes2
  <2> QED
    BY <1>2, <1>11, <2>4, <2>5, <2>6, <2>8, <2>9, <2>10, <2>11
       DEF CountedUpTo, e, new, live2, bytes2, P, kept2
<1>14. CASE e.type # "TENSOR_ALLOC" /\ e.type # "TENSOR_FREE"
  <2>1. new = stats
    BY <1>14 DEF new, CountEvent
  <2>2. live2 = live /\ kept2 = kept
    BY <1>6, <1>14 DEF MemoryTypes
  <2>3. bytes2 = bytes
    BY <1>9, <2>2
  <2> HIDE DEF e, kept2
  <2>4. ASSUME Fresh(events, k + 1)
        PROVE  /\ new.current_usage = bytes2
               /\ \A n \in 0 .. k + 1 : LiveBytes(events, n) <= new.peak_usage
               /\ \E n \in 0 .. k + 1 : LiveBytes(events, n) = new.peak_usage
    <3>1. Fresh(events, k)
      BY <1>7, <2>4
    <3>2. bytes <= stats.peak_usage
      BY <1>1, <1>4, <3>1 DEF bytes
    <3> QED
      BY <1>1, <1>4, <2>1, <2>3, <3>1, <3>2 DEF bytes2
  <2> QED
    BY <1>2, <1>3, <1>5, <1>11, <2>1, <2>2, <2>3, <2>4
       DEF CountedUpTo, e, new, live2, bytes2, P, kept2, alloc
<1> QED
  BY <1>12, <1>13, <1>14

\* The events of some types, one by one.
LEMMA OfTypesFold ==
  ASSUME NEW events, Len(events) \in Nat, DOMAIN events = 1 .. Len(events), NEW types
  PROVE  \E h : /\ h[0] = 0
                /\ \A k \in 1 .. Len(events) :
                     h[k] = IF events[k].type \in types THEN h[k - 1] + 1 ELSE h[k - 1]
                /\ Len(OfTypes(events, types)) = h[Len(events)]
<1> DEFINE N == Len(events)
           E == {events[i] : i \in 1 .. N}
           Acc == Seq(E)
           Keep(kept, e) == IF e.type \in types THEN Append(kept, e) ELSE kept
           step == [p \in Acc \X (1 .. N) |-> Keep(p[1], events[p[2]])]
<1>1. N \in Nat /\ DOMAIN events = 1 .. N /\ <<>> \in Acc
  OBVIOUS
<1>2. \A k \in 1 .. N : events[k] \in E
  OBVIOUS
<1>3. step \in [Acc \X (1 .. N) -> Acc]
  BY <1>2
<1>4. \A a \in Acc, k \in 1 .. N : step[<<a, k>>] = Keep(a, events[k])
  OBVIOUS
<1> HIDE DEF step, Acc, N
<1>5. PICK g \in [SUBSET (1 .. N) -> Acc] : IsFold(g, N, <<>>, step)
  BY <1>1, <1>3, FoldExists
<1>6. \A x \in SUBSET (1 .. N) : x # {} => Max(x) \in x
  BY <1>1, MaxIn
<1>7. g = [x \in SUBSET (DOMAIN events) |->
             IF x = {} THEN <<>> ELSE LET y == Max(x) IN Keep(g[x \ {y}], events[y])]
  <2>1. \A x \in SUBSET (1 .. N) : x # {} =>
          step[<<g[x \ {Max(x)}], Max(x)>>] = Keep(g[x \ {Max(x)}], events[Max(x)])
    BY <1>4, <1>5, <1>6
  <2>2. g = [x \in SUBSET (1 .. N) |-> g[x]]
    BY <1>5
  <2> QED
    BY <1>1, <1>5, <2>1, <2>2 DEF IsFold
<1> DEFINE Iter == LET iter[x \in SUBSET (DOMAIN events)] ==
                         IF x = {} THEN <<>>
                         ELSE LET y == Max(x) IN Keep(iter[x \ {y}], events[y])
                   IN  iter
<1>8. Iter = [x \in SUBSET (DOMAIN events) |->
                IF x = {} THEN <<>> ELSE LET y == Max(x) IN Keep(Iter[x \ {y}], events[y])]
  BY <1>7, Zenon
<1>9. OfTypes(events, types) = Iter[DOMAIN events]
  BY DEF OfTypes, FoldLeft, MapThenFoldSet
<1> HIDE DEF Iter
<1>10. Iter[{}] = <<>>
  BY <1>1, <1>8
<1> HIDE DEF Keep
<1>11. ASSUME NEW k \in 1 .. N
       PROVE  Iter[1 .. k] = Keep(Iter[1 .. k - 1], events[k])
  <2>1. k \in Nat /\ k \in 1 .. k /\ k <= N
    BY <1>1
  <2>2. /\ 1 .. k \in SUBSET (1 .. N) /\ 1 .. k # {}
    <3>1. \A j \in 1 .. k : j \in 1 .. N
      BY <1>1, <2>1
    <3> QED
      BY <2>1, <3>1
  <2>3. (1 .. k) \ {k} = 1 .. k - 1
    <3>1. \A j : j \in (1 .. k) \ {k} <=> j \in 1 .. k - 1
      BY <2>1
    <3> QED
      BY <3>1
  <2>4. Max(1 .. k) = k
    BY <2>1, <2>2, MaxIs
  <2> QED
    BY <1>1, <1>8, <2>2, <2>3, <2>4
<1> DEFINE h == [k \in 0 .. N |-> Len(Iter[1 .. k])]
           T == {k \in 0 .. N : Iter[1 .. k] \in Acc}
<1>12. 1 .. 0 = {}
  OBVIOUS
<1>13. 0 \in T
  BY <1>1, <1>10, <1>12
<1>14. ASSUME NEW k \in 0 .. N - 1, k \in T
       PROVE  k + 1 \in T
  <2>1. k + 1 \in 1 .. N /\ k + 1 \in 0 .. N /\ (k + 1) - 1 = k
    BY <1>1
  <2>2. Iter[1 .. k + 1] = Keep(Iter[1 .. k], events[k + 1])
    BY <1>11, <2>1
  <2>3. Keep(Iter[1 .. k], events[k + 1]) \in Acc
    <3> DEFINE a == Iter[1 .. k]
               e == events[k + 1]
    <3>1. a \in Acc /\ e \in E
      BY <1>2, <1>14, <2>1
    <3> HIDE DEF a, e, E
    <3>2. Append(a, e) \in Acc
      BY ONLY <3>1 DEF Acc
    <3> QED
      BY <3>1, <3>2 DEF Keep, a, e
  <2> QED
    BY <2>1, <2>2, <2>3
<1> HIDE DEF T
<1>15. \A k \in 0 .. N : k \in T
  <2>1. N \in Nat /\ 0 \in T /\ \A k \in 0 .. N - 1 : k \in T => k + 1 \in T
    BY <1>1, <1>13, <1>14
  <2> QED
    BY ONLY <2>1, UpTo
<1>16. ASSUME NEW k \in 1 .. N
       PROVE  h[k] = IF events[k].type \in types THEN h[k - 1] + 1 ELSE h[k - 1]
  <2>1. k - 1 \in 0 .. N /\ k \in 0 .. N
    BY <1>1
  <2>2. Iter[1 .. k - 1] \in Acc
    BY <1>15, <2>1 DEF T
  <2>3. Iter[1 .. k] = Keep(Iter[1 .. k - 1], events[k])
    BY <1>11
  <2>4. Len(Iter[1 .. k]) = IF events[k].type \in types THEN Len(Iter[1 .. k - 1]) + 1
                                                       ELSE Len(Iter[1 .. k - 1])
    BY <1>2, <2>2, <2>3 DEF Keep, Acc
  <2> QED
    BY <2>1, <2>4
<1>17. h[0] = 0 /\ Len(OfTypes(events, types)) = h[N]
  BY <1>1, <1>9, <1>10, <1>12
<1> HIDE DEF h
<1>18. /\ h[0] = 0
       /\ \A k \in 1 .. N : h[k] = IF events[k].type \in types THEN h[k - 1] + 1 ELSE h[k - 1]
       /\ Len(OfTypes(events, types)) = h[N]
  BY <1>16, <1>17
<1> QED
  BY <1>18 DEF N

\* update_memory_stats() counts all events.
LEMMA MemoryStatsAre ==
  ASSUME NEW events, Len(events) \in Nat, DOMAIN events = 1 .. Len(events), Sized(events)
  PROVE  CountedUpTo(MemoryStats(events), Len(GetMemoryEvents(events)), events, Len(events))
<1> DEFINE N == Len(events)
           Acc == Stats(PtrsOf(events))
           step == [p \in Acc \X (1 .. N) |-> CountEvent(p[1], events[p[2]])]
<1>0. PICK h : /\ h[0] = 0
               /\ \A k \in 1 .. N :
                    h[k] = IF events[k].type \in MemoryTypes THEN h[k - 1] + 1 ELSE h[k - 1]
               /\ Len(GetMemoryEvents(events)) = h[N]
  BY OfTypesFold DEF GetMemoryEvents
<1>1. N \in Nat /\ DOMAIN events = 1 .. N
  OBVIOUS
<1>2. EmptyStats \in Acc
  <2>1. <<>> \in [{} -> Nat] /\ {} \in SUBSET PtrsOf(events)
    OBVIOUS
  <2>2. <<>> \in UNION {[D -> Nat] : D \in SUBSET PtrsOf(events)}
    BY <2>1, Zenon
  <2> QED
    BY <2>1, <2>2 DEF EmptyStats, Stats
<1>3. step \in [Acc \X (1 .. N) -> Acc]
  BY CountEventType
<1>4. \A a \in Acc, k \in 1 .. N : step[<<a, k>>] = CountEvent(a, events[k])
  OBVIOUS
<1>5. CountedUpTo(EmptyStats, 0, events, 0)
  <2>1. Live(events, 0) = {}
    BY DEF Live
  <2>2. LiveBytes(events, 0) = 0
    BY <2>1, SumEmpty DEF LiveBytes
  <2>3. /\ EmptyStats.allocations = <<>> /\ EmptyStats.freed_pointers = {}
        /\ EmptyStats.current_usage = 0 /\ EmptyStats.bytes_allocated = 0
        /\ EmptyStats.bytes_freed = 0 /\ EmptyStats.total_allocations = 0
        /\ EmptyStats.total_frees = 0 /\ EmptyStats.peak_usage = 0
    BY DEF EmptyStats
  <2>4. \A n \in 0 .. 0 : n = 0
    OBVIOUS
  <2> HIDE DEF Acc
  <2>5. DOMAIN EmptyStats.allocations = {} /\ 0 \in 0 .. 0
    BY <2>3
  <2>6. EmptyStats.current_usage = EmptyStats.bytes_allocated - EmptyStats.bytes_freed
    BY <2>3
  <2>7. EmptyStats.total_allocations + EmptyStats.total_frees = 0
    BY <2>3
  <2>8. /\ \A n \in 0 .. 0 : LiveBytes(events, n) = EmptyStats.peak_usage
        /\ \A n \in 0 .. 0 : LiveBytes(events, n) \in Int
        /\ \A n \in 0 .. 0 : LiveBytes(events, n) <= EmptyStats.peak_usage
    BY <2>2, <2>3, <2>4
  <2> QED
    BY <1>2, <2>1, <2>2, <2>3, <2>5, <2>6, <2>7, <2>8, FS_EmptySet DEF CountedUpTo, Acc
<1> HIDE DEF step, Acc, N
<1>6. PICK g \in [SUBSET (1 .. N) -> Acc] : IsFold(g, N, EmptyStats, step)
  BY <1>1, <1>2, <1>3, FoldExists
<1>7. \A x \in SUBSET (1 .. N) : x # {} => Max(x) \in x
  BY <1>1, MaxIn
<1>8. g = [x \in SUBSET (DOMAIN events) |->
             IF x = {} THEN EmptyStats ELSE LET y == Max(x) IN CountEvent(g[x \ {y}], events[y])]
  <2>1. \A x \in SUBSET (1 .. N) : x # {} =>
          step[<<g[x \ {Max(x)}], Max(x)>>] = CountEvent(g[x \ {Max(x)}], events[Max(x)])
    BY <1>4, <1>6, <1>7
  <2>2. g = [x \in SUBSET (1 .. N) |-> g[x]]
    BY <1>6
  <2> QED
    BY <1>1, <1>6, <2>1, <2>2 DEF IsFold
<1> DEFINE Iter == LET iter[x \in SUBSET (DOMAIN events)] ==
                         IF x = {} THEN EmptyStats
                         ELSE LET y == Max(x) IN CountEvent(iter[x \ {y}], events[y])
                   IN  iter
<1>9. Iter = [x \in SUBSET (DOMAIN events) |->
                IF x = {} THEN EmptyStats
                ELSE LET y == Max(x) IN CountEvent(Iter[x \ {y}], events[y])]
  BY <1>8, Zenon
<1>10. MemoryStats(events) = Iter[DOMAIN events]
  BY DEF MemoryStats, FoldLeft, MapThenFoldSet
<1> HIDE DEF Iter
<1> DEFINE T == {k \in 0 .. N : CountedUpTo(Iter[1 .. k], h[k], events, k)}
<1>11. 0 \in T
  <2>1. 1 .. 0 = {} /\ {} \in SUBSET (1 .. N) /\ 0 \in 0 .. N
    BY <1>1
  <2>2. Iter[{}] = EmptyStats
    BY <1>1, <1>9, <2>1
  <2> QED
    BY <1>0, <1>5, <2>1, <2>2
<1>12. ASSUME NEW k \in 0 .. N - 1, k \in T
       PROVE  k + 1 \in T
  <2>1. /\ k \in Nat /\ k + 1 \in Nat /\ k + 1 \in 1 .. N /\ k + 1 \in 0 .. N
        /\ k \in 0 .. Len(events) - 1 /\ (k + 1) - 1 = k
    BY <1>1 DEF N
  <2>2. /\ 1 .. k + 1 \in SUBSET (1 .. N) /\ k + 1 \in 1 .. k + 1 /\ 1 .. k + 1 # {}
    <3>1. k + 1 \in 1 .. k + 1
      BY <2>1
    <3>2. \A j \in 1 .. k + 1 : j \in 1 .. N
      BY <1>1, <2>1
    <3> QED
      BY <3>1, <3>2
  <2>3. (1 .. k + 1) \ {k + 1} = 1 .. k
    <3>1. \A j : j \in (1 .. k + 1) \ {k + 1} <=> j \in 1 .. k
      BY <2>1
    <3> QED
      BY <3>1
  <2>4. Max(1 .. k + 1) = k + 1
    BY <2>1, <2>2, MaxIs
  <2>5. Iter[1 .. k + 1] = CountEvent(Iter[1 .. k], events[k + 1])
    BY <1>1, <1>9, <2>2, <2>3, <2>4
  <2>6. h[k + 1] = IF events[k + 1].type \in MemoryTypes THEN h[k] + 1 ELSE h[k]
    BY <1>0, <2>1
  <2>7. CountedUpTo(Iter[1 .. k], h[k], events, k)
    BY <1>12
  <2>8. CountedUpTo(CountEvent(Iter[1 .. k], events[k + 1]),
          IF events[k + 1].type \in MemoryTypes THEN h[k] + 1 ELSE h[k], events, k + 1)
    BY <2>1, <2>7, CountStep
  <2> QED
    BY <2>1, <2>5, <2>6, <2>8
<1> HIDE DEF T
<1>13. N \in T
  <2>1. N \in Nat /\ 0 \in T /\ \A k \in 0 .. N - 1 : k \in T => k + 1 \in T
    BY <1>1, <1>11, <1>12
  <2>2. \A k \in 0 .. N : k \in T
    BY ONLY <2>1, UpTo
  <2> QED
    BY <2>1, <2>2
<1> QED
  BY <1>0, <1>1, <1>10, <1>13 DEF T, N

\* The statistics of any sequence of events whose sizes are those of the tensors.
LEMMA Accounted ==
  ASSUME NEW events, Len(events) \in Nat, DOMAIN events = 1 .. Len(events), Sized(events)
  PROVE  LET stats == MemoryStats(events)
             live(n) == LiveBytes(events, n)
         IN  /\ LeakedBytes(stats) = live(Len(events))
             /\ stats.current_usage = stats.bytes_allocated - stats.bytes_freed
             /\ stats.total_allocations + stats.total_frees = Len(GetMemoryEvents(events))
             /\ ~Reallocated(events) =>
                  /\ stats.current_usage = LeakedBytes(stats)
                  /\ \A n \in 0..Len(events) : live(n) <= stats.peak_usage
                  /\ \E n \in 0..Len(events) : live(n) = stats.peak_usage
<1> DEFINE stats == MemoryStats(events)
           N == Len(events)
<1>1. CountedUpTo(stats, Len(GetMemoryEvents(events)), events, N)
  BY MemoryStatsAre
<1> HIDE DEF stats
<1>2. LeakedBytes(stats) = LiveBytes(events, N)
  <2>1. LeakedBytes(stats) = SumFunctionOnSet(stats.allocations, Live(events, N))
    BY <1>1 DEF LeakedBytes, SumFunction, CountedUpTo
  <2> DEFINE A == Live(events, N)
             f == stats.allocations
  <2>2. IsFiniteSet(A) /\ \A x \in A : f[x] = Size[x] /\ f[x] \in Int
    BY <1>1 DEF CountedUpTo
  <2> HIDE DEF A, f
  <2>3. SumFunctionOnSet(f, A) = SumFunctionOnSet(Size, A)
    BY <2>2, SumSame
  <2> QED
    BY <2>1, <2>3 DEF A, f, LiveBytes
<1>3. ~Reallocated(events) => Fresh(events, N)
  BY DEF Reallocated, Fresh
<1> QED
  BY <1>1, <1>2, <1>3 DEF CountedUpTo, stats

-----------------------------------------------------------------------------
(* What the wrappers record *)

Events == [type : GraphTypes \cup OpTypes \cup MemoryTypes, ptr : Nodes \cup Threads,
           size : Nat, call : Nat]

Wellformed(e) ==
  /\ e.type \in OpTypes => enable_op_timing /\ e.ptr \in Traced
  /\ e.type = "TENSOR_ALLOC" => e.size = Size[e.ptr] /\ Size[e.ptr] \in Nat

TraceTypes == trace \in Seq(Events) /\ \A i \in 1 .. Len(trace) : Wellformed(trace[i])

\* list is what a wrapper of kind has to record of one type of operation event.
OpsAre(list, t, f, type, skip) ==
  /\ list \in Seq(Events)
  /\ \A i \in 1 .. Len(list) :
       /\ list[i].call = f.call
       /\ list[i].type = "TENSOR_ALLOC" =>
            list[i].size = Size[list[i].ptr] /\ Size[list[i].ptr] \in Nat
       /\ list[i].type \in OpTypes =>
            /\ Kind[f.fn] = "compute" /\ list[i].type = type
            /\ i - skip \in 1 .. Len(Graph[t]) /\ list[i].ptr = Graph[t][i - skip]
  /\ Kind[f.fn] = "compute" =>
       /\ Len(list) = Len(Graph[t]) + 1
       /\ \A q \in 1 .. Len(Graph[t]) : list[q + skip] = Event(type, Graph[t][q], 0, f.call)

LEMMA GraphIs ==
  ASSUME NEW t \in Threads
  PROVE  /\ Graph[t] \in Seq(Nodes) /\ Len(Graph[t]) \in Nat /\ Len(Graph[t]) > 0
         /\ DOMAIN Graph[t] = 1 .. Len(Graph[t])
         /\ \A q \in 1 .. Len(Graph[t]) :
              Graph[t][q] \in Nodes /\ Graph[t][q] \in ToSet(Graph[t])
<1>1. Graph[t] \in Seq(Nodes) /\ Graph[t] # <<>>
  BY InterposeAssumption
<1>2. /\ Len(Graph[t]) \in Nat /\ Len(Graph[t]) > 0 /\ DOMAIN Graph[t] = 1 .. Len(Graph[t])
      /\ \A q \in 1 .. Len(Graph[t]) : Graph[t][q] \in Nodes
  BY <1>1
<1> QED
  BY <1>1, <1>2 DEF ToSet

LEMMA NodeEventsAre ==
  ASSUME NEW t \in Threads, NEW type \in OpTypes \cup {"TENSOR_ALLOC"}, NEW call \in Nat
  PROVE  /\ NodeEvents(t, type, call) \in Seq(Events)
         /\ Len(NodeEvents(t, type, call)) = Len(Graph[t])
         /\ \A q \in 1 .. Len(Graph[t]) :
              NodeEvents(t, type, call)[q] =
                Event(type, Graph[t][q], IF type = "TENSOR_ALLOC" THEN Size[Graph[t][q]] ELSE 0, call)
<1> DEFINE list == NodeEvents(t, type, call)
           N == Len(Graph[t])
           E(q) == Event(type, Graph[t][q], IF type = "TENSOR_ALLOC" THEN Size[Graph[t][q]] ELSE 0, call)
<1>1. N \in Nat /\ DOMAIN Graph[t] = 1 .. N /\ \A q \in 1 .. N : Graph[t][q] \in Nodes
  BY GraphIs
<1>2. \A q \in 1 .. N : E(q) \in Events
  BY <1>1, InterposeAssumption DEF Event, Events, MemoryTypes
<1>3. list = [q \in 1 .. N |-> E(q)]
  BY <1>1 DEF NodeEvents
<1> HIDE DEF E, N
<1>4. list \in Seq(Events) /\ Len(list) = N /\ \A q \in 1 .. N : list[q] = E(q)
  BY <1>1, <1>2, <1>3
<1> QED
  BY <1>4 DEF E, N

LEMMA BeforeIs ==
  ASSUME NEW t \in Threads, NEW f \in Frames
  PROVE  OpsAre(Before(t, f), t, f, "OP_COMPUTE_BEGIN", 1)
<1> DEFINE begin == Event("GRAPH_COMPUTE_BEGIN", t, 0, f.call)
           N == Len(Graph[t])
           list == Before(t, f)
<1>1. f.call \in Nat /\ Kind[f.fn] \in {"compute", "quiet", "tensor", "graph", "context"}
  BY InterposeAssumption DEF Frames
<1>2. /\ begin \in Events /\ begin.call = f.call /\ begin.type \notin OpTypes
      /\ begin.type # "TENSOR_ALLOC"
  BY <1>1 DEF Event, Events, OpTypes, GraphTypes
<1>3. N \in Nat /\ N > 0 /\ \A q \in 1 .. N : Graph[t][q] \in Nodes
  BY GraphIs
<1> HIDE DEF begin, N
<1>4. CASE Kind[f.fn] = "compute"
  <2> DEFINE ops == NodeEvents(t, "OP_COMPUTE_BEGIN", f.call)
  <2>1. /\ ops \in Seq(Events) /\ Len(ops) = N
        /\ \A q \in 1 .. N : ops[q] = Event("OP_COMPUTE_BEGIN", Graph[t][q], 0, f.call)
    BY <1>1, NodeEventsAre DEF OpTypes, N
  <2>2. list = <<begin>> \o ops
    BY <1>4 DEF Before, begin
  <2> HIDE DEF ops, list
  <2>3. /\ list \in Seq(Events) /\ Len(list) = N + 1
        /\ list[1] = begin /\ \A i \in 2 .. N + 1 : list[i] = ops[i - 1]
    BY <1>2, <1>3, <2>1, <2>2
  <2>4. \A q \in 1 .. N : list[q + 1] = Event("OP_COMPUTE_BEGIN", Graph[t][q], 0, f.call)
    <3>1. \A q \in 1 .. N : q + 1 \in 2 .. N + 1 /\ (q + 1) - 1 = q
      BY <1>3
    <3> QED
      BY <2>1, <2>3, <3>1
  <2>5. ASSUME NEW i \in 1 .. Len(list)
        PROVE  /\ list[i].call = f.call /\ list[i].type # "TENSOR_ALLOC"
               /\ list[i].type \in OpTypes =>
                    /\ list[i].type = "OP_COMPUTE_BEGIN"
                    /\ i - 1 \in 1 .. N /\ list[i].ptr = Graph[t][i - 1]
    <3>1. CASE i = 1
      BY <1>2, <2>3, <3>1
    <3>2. CASE i # 1
      <4>1. i - 1 \in 1 .. N /\ i \in 2 .. N + 1
        BY <1>3, <2>3, <3>2
      <4>2. list[i] = Event("OP_COMPUTE_BEGIN", Graph[t][i - 1], 0, f.call)
        BY <2>1, <2>3, <4>1
      <4> QED
        BY <4>1, <4>2 DEF Event
    <3> QED
      BY <3>1, <3>2
  <2> QED
    BY <1>4, <2>3, <2>4, <2>5 DEF OpsAre, list, N
<1>5. CASE Kind[f.fn] = "quiet"
  <2>1. list = <<begin>>
    BY <1>5 DEF Before, begin
  <2> HIDE DEF list
  <2>2. list \in Seq(Events) /\ Len(list) = 1 /\ list[1] = begin
    BY <1>2, <2>1
  <2>3. \A i \in 1 .. Len(list) : list[i] = begin
    BY <2>2
  <2> QED
    BY <1>2, <1>5, <2>2, <2>3 DEF OpsAre, list
<1>6. CASE Kind[f.fn] \in {"tensor", "graph"}
  <2> DEFINE allocs == NodeEvents(t, "TENSOR_ALLOC", f.call)
  <2>1. /\ allocs \in Seq(Events) /\ Len(allocs) = N
        /\ \A q \in 1 .. N : allocs[q] = Event("TENSOR_ALLOC", Graph[t][q], Size[Graph[t][q]], f.call)
    BY <1>1, NodeEventsAre DEF N
  <2>2. \/ Kind[f.fn] = "graph" /\ list = allocs
        \/ Kind[f.fn] = "tensor" /\ list = SubSeq(allocs, 1, 1)
    BY <1>6 DEF Before
  <2> HIDE DEF allocs, list
  <2>3. /\ SubSeq(allocs, 1, 1) \in Seq(Events) /\ Len(SubSeq(allocs, 1, 1)) = 1
        /\ SubSeq(allocs, 1, 1)[1] = allocs[1] /\ 1 \in 1 .. N
    BY <1>3, <2>1
  <2>4. list \in Seq(Events) /\ \A i \in 1 .. Len(list) : \E q \in 1 .. N : list[i] = allocs[q]
    <3>1. CASE list = allocs
      BY <2>1, <3>1
    <3>2. CASE list = SubSeq(allocs, 1, 1)
      BY <2>3, <3>2
    <3> QED
      BY <2>2, <3>1, <3>2
  <2>5. ASSUME NEW i \in 1 .. Len(list)
        PROVE  /\ list[i].call = f.call /\ list[i].type \notin OpTypes
               /\ list[i].size = Size[list[i].ptr] /\ Size[list[i].ptr] \in Nat
    <3>1. PICK q \in 1 .. N : list[i] = allocs[q]
      BY <2>4
    <3>2. list[i] = Event("TENSOR_ALLOC", Graph[t][q], Size[Graph[t][q]], f.call)
      BY <2>1, <3>1
    <3>3. Size[Graph[t][q]] \in Nat
      BY <1>3, InterposeAssumption
    <3> QED
      BY <3>2, <3>3 DEF Event, OpTypes
  <2> QED
    BY <1>6, <2>4, <2>5 DEF OpsAre, list
<1>7. CASE Kind[f.fn] = "context"
  <2>1. list = <<>>
    BY <1>7 DEF Before
  <2> HIDE DEF list
  <2>2. list \in Seq(Events) /\ Len(list) = 0 /\ 1 .. 0 = {}
    BY <2>1
  <2> QED
    BY <1>7, <2>2 DEF OpsAre, list
<1> QED
  BY <1>1, <1>4, <1>5, <1>6, <1>7

LEMMA AfterIs ==
  ASSUME NEW t \in Threads, NEW f \in Frames
  PROVE  OpsAre(After(t, f), t, f, "OP_COMPUTE_END", 0)
<1> DEFINE end == Event("GRAPH_COMPUTE_END", t, 0, f.call)
           N == Len(Graph[t])
           list == After(t, f)
<1>1. f.call \in Nat /\ Kind[f.fn] \in {"compute", "quiet", "tensor", "graph", "context"}
  BY InterposeAssumption DEF Frames
<1>2. /\ end \in Events /\ end.call = f.call /\ end.type \notin OpTypes
      /\ end.type # "TENSOR_ALLOC"
  BY <1>1 DEF Event, Events, OpTypes, GraphTypes
<1>3. N \in Nat /\ N > 0
  BY GraphIs
<1> HIDE DEF end, N
<1>4. CASE Kind[f.fn] = "compute"
  <2> DEFINE ops == NodeEvents(t, "OP_COMPUTE_END", f.call)
  <2>1. /\ ops \in Seq(Events) /\ Len(ops) = N
        /\ \A q \in 1 .. N : ops[q] = Event("OP_COMPUTE_END", Graph[t][q], 0, f.call)
    BY <1>1, NodeEventsAre DEF OpTypes, N
  <2>2. list = ops \o <<end>>
    BY <1>4 DEF After, end
  <2> HIDE DEF ops, list
  <2>3. /\ list \in Seq(Events) /\ Len(list) = N + 1
        /\ list[N + 1] = end /\ \A i \in 1 .. N : list[i] = ops[i]
    BY <1>2, <1>3, <2>1, <2>2
  <2>4. \A q \in 1 .. N : list[q + 0] = Event("OP_COMPUTE_END", Graph[t][q], 0, f.call)
    BY <2>1, <2>3
  <2>5. ASSUME NEW i \in 1 .. Len(list)
        PROVE  /\ list[i].call = f.call /\ list[i].type # "TENSOR_ALLOC"
               /\ list[i].type \in OpTypes =>
                    /\ list[i].type = "OP_COMPUTE_END"
                    /\ i - 0 \in 1 .. N /\ list[i].ptr = Graph[t][i - 0]
    <3>1. CASE i = N + 1
      BY <1>2, <2>3, <3>1
    <3>2. CASE i # N + 1
      <4>1. i \in 1 .. N /\ i - 0 = i
        BY <1>3, <2>3, <3>2
      <4>2. list[i] = Event("OP_COMPUTE_END", Graph[t][i], 0, f.call)
        BY <2>1, <2>3, <4>1
      <4> QED
        BY <4>1, <4>2 DEF Event
    <3> QED
      BY <3>1, <3>2
  <2> QED
    BY <1>4, <2>3, <2>4, <2>5 DEF OpsAre, list, N
<1>5. CASE Kind[f.fn] = "quiet"
  <2>1. list = <<end>>
    BY <1>5 DEF After, end
  <2> HIDE DEF list
  <2>2. list \in Seq(Events) /\ Len(list) = 1 /\ list[1] = end
    BY <1>2, <2>1
  <2>3. \A i \in 1 .. Len(list) : list[i] = end
    BY <2>2
  <2> QED
    BY <1>2, <1>5, <2>2, <2>3 DEF OpsAre, list
<1>6. CASE Kind[f.fn] \notin {"compute", "quiet"}
  <2>1. list = <<>>
    BY <1>6 DEF After
  <2> HIDE DEF list
  <2>2. list \in Seq(Events) /\ Len(list) = 0 /\ 1 .. 0 = {}
    BY <2>1
  <2> QED
    BY <1>6, <2>2 DEF OpsAre, list
<1> QED
  BY <1>4, <1>5, <1>6

-----------------------------------------------------------------------------
(* Whose BEGIN is open *)

\* The wrapper has recorded the BEGIN of e's tensor and will record its END.
Due(t, f, e) ==
  /\ Kind[f.fn] = "compute" /\ f.call = e.call
  /\ \E q \in 1 .. Len(Graph[t]) :
       /\ Graph[t][q] = e.ptr
       /\ \/ f.pc = "before" /\ q <= f.i - 2
          \/ f.pc \in {"init", "install", "flag", "original", "call", "crashed", "recheck"}
          \/ f.pc = "after" /\ f.i <= q

\* The wrapper has recorded nothing of e's tensor, and if it ever does so, it
\* will record a BEGIN first.
NotYet(t, f, e) ==
  Kind[f.fn] = "compute" =>
    \/ f.pc \in {"auto", "check"}
    \/ f.pc = "before" /\ \A q \in 1 .. Len(Graph[t]) : Graph[t][q] = e.ptr => f.i - 2 < q

Owned(t, s, e) ==
  \E k \in 1 .. Len(s) : Due(t, s[k], e) /\ \A j \in 1 .. k - 1 : NotYet(t, s[j], e)

OpenOwned ==
  active /\ ~dropped =>
    \A i \in 1 .. Len(trace) :
      OpenAt(trace, Len(trace), i) => \E t \in Threads : Owned(t, stack[t], trace[i])

SameCall ==
  ~dropped => \A p \in Paired(trace) : trace[p.begin].call = trace[p.end].call

\* A wrapper is at an event of its list.
AtEvent(t, f) ==
  /\ f.pc = "before" /\ Len(Before(t, f)) > 0 => f.i \in 1 .. Len(Before(t, f))
  /\ f.pc = "after" /\ Len(After(t, f)) > 0 => f.i \in 1 .. Len(After(t, f))

TopIndex == \A t \in Threads : stack[t] # <<>> => AtEvent(t, stack[t][1])

CallTypes == StackTypes /\ OuterWait /\ TopIndex

TimingInv == CallTypes /\ TraceTypes /\ OpenOwned /\ SameCall

-----------------------------------------------------------------------------
(* Traces that grow *)

\* A pair of events with e after them: of events, or ended by e.
PairOf(p, events, e) ==
  \/ p \in Paired(events) /\ p.begin \in 1 .. Len(events) /\ p.end \in 1 .. Len(events)
  \/ /\ p.end = Len(events) + 1 /\ e.type = "OP_COMPUTE_END"
     /\ e.ptr = events[p.begin].ptr /\ p.begin \in 1 .. Len(events)
     /\ OpenAt(events, Len(events), p.begin)

LEMMA AppendIs ==
  ASSUME NEW S, NEW events \in Seq(S), NEW e \in S, NEW new, new = Append(events, e)
  PROVE  /\ new \in Seq(S) /\ Len(events) \in Nat /\ Len(new) = Len(events) + 1
         /\ new[Len(events) + 1] = e /\ \A i \in 1 .. Len(events) : new[i] = events[i]
         /\ \A k \in 0 .. Len(events) : \A i : OpenAt(new, k, i) <=> OpenAt(events, k, i)
         /\ \A i \in 1 .. Len(events) :
              OpenAt(new, Len(new), i) <=>
                OpenAt(events, Len(events), i) /\ ~IsOpOf(e, events[i].ptr)
         /\ \A p \in Paired(new) : PairOf(p, events, e)
<1> DEFINE N == Len(events)
<1>1. /\ new \in Seq(S) /\ N \in Nat /\ Len(new) = N + 1
      /\ new[N + 1] = e /\ \A i \in 1 .. N : new[i] = events[i]
  OBVIOUS
<1> HIDE DEF N
<1>2. ASSUME NEW k \in 0 .. N, NEW i
      PROVE  OpenAt(new, k, i) <=> OpenAt(events, k, i)
  <2>1. \A j \in 1 .. k : new[j] = events[j]
    BY <1>1
  <2>2. i \in 1 .. k => \A j \in i + 1 .. k : j \in 1 .. k
    BY <1>1
  <2> QED
    BY <2>1, <2>2 DEF OpenAt
<1>3. N \in 0 .. N
  BY <1>1
<1>4. \A i \in 1 .. N : OpenAt(new, N + 1, i) <=>
        OpenAt(events, N, i) /\ ~IsOpOf(e, events[i].ptr)
  <2>1. \A i \in 1 .. N : OpenAt(new, N + 1, i) <=>
          OpenAt(new, N, i) /\ ~IsOpOf(new[N + 1], new[i].ptr)
    BY ONLY <1>1, OpenStep
  <2>2. \A i : OpenAt(new, N, i) <=> OpenAt(events, N, i)
    BY <1>2, <1>3
  <2>3. new[N + 1] = e /\ \A i \in 1 .. N : new[i].ptr = events[i].ptr
    BY <1>1
  <2> QED
    BY ONLY <2>1, <2>2, <2>3
<1>5. ASSUME NEW p \in Paired(new)
      PROVE  PairOf(p, events, e)
  <2>1. /\ p \in Positions(new) /\ PairAt(new, p)
        /\ p.begin \in 1 .. N + 1 /\ p.end \in 1 .. N + 1
    BY <1>1 DEF Paired, Positions
  <2>2. p.begin \in 1 .. p.end - 1 /\ OpenAt(new, p.end - 1, p.begin)
    BY <2>1 DEF PairAt, OpenAt
  <2>3. p.begin \in 1 .. N /\ p.end - 1 \in 0 .. N
    BY <1>1, <2>1, <2>2
  <2>4. OpenAt(events, p.end - 1, p.begin)
    BY <1>2, <2>2, <2>3
  <2>5. CASE p.end = N + 1
    <3>1. p.end - 1 = N
      BY <1>1, <2>5
    <3> QED
      BY <1>1, <2>1, <2>3, <2>4, <2>5, <3>1 DEF PairAt, PairOf, N
  <2>6. CASE p.end # N + 1
    <3>1. p.end \in 1 .. N
      BY <1>1, <2>1, <2>6
    <3>2. PairAt(events, p)
      BY <1>1, <2>1, <2>3, <2>4, <3>1 DEF PairAt
    <3>3. p = [begin |-> p.begin, end |-> p.end]
      BY <2>1 DEF Positions
    <3>4. p \in Positions(events)
      BY <2>3, <3>1, <3>3 DEF Positions, N
    <3> QED
      BY <2>3, <3>1, <3>2, <3>4 DEF Paired, PairOf, N
  <2> QED
    BY <2>5, <2>6
<1> QED
  BY <1>1, <1>2, <1>4, <1>5 DEF N

LEMMA EmptyTrace ==
  ASSUME trace' = <<>>
  PROVE  TraceTypes' /\ OpenOwned' /\ SameCall'
<1>1. trace' \in Seq(Events) /\ Len(trace') = 0 /\ 1 .. 0 = {}
  OBVIOUS
<1>2. Paired(trace') = {}
  BY <1>1 DEF Paired, Positions
<1> QED
  BY <1>1, <1>2 DEF TraceTypes, OpenOwned, SameCall

\* The trace stays, and whoever owns an event does so still.
LEMMA OwnersKept ==
  ASSUME TraceTypes, OpenOwned, SameCall, UNCHANGED trace, ~dropped' => ~dropped,
         active' /\ ~dropped' =>
           /\ active
           /\ \A t \in Threads, e \in Events : Owned(t, stack[t], e) => Owned(t, stack'[t], e)
  PROVE  TraceTypes' /\ OpenOwned' /\ SameCall'
<1>1. TraceTypes'
  BY DEF TraceTypes
<1>2. SameCall'
  BY DEF SameCall
<1>3. \A i \in 1 .. Len(trace) : trace[i] \in Events
  BY DEF TraceTypes
<1>4. ASSUME active', ~dropped', NEW i \in 1 .. Len(trace'), OpenAt(trace', Len(trace'), i)
      PROVE  \E t \in Threads : Owned(t, stack'[t], trace'[i])
  <2>1. i \in 1 .. Len(trace) /\ OpenAt(trace, Len(trace), i) /\ trace'[i] = trace[i]
    BY <1>4
  <2>2. PICK t \in Threads : Owned(t, stack[t], trace[i])
    BY <1>4, <2>1 DEF OpenOwned
  <2> QED
    BY <1>3, <1>4, <2>1, <2>2
<1>5. OpenOwned'
  BY <1>4 DEF OpenOwned
<1> QED
  BY <1>1, <1>2, <1>5

-----------------------------------------------------------------------------
(* Owners *)

\* The innermost wrapper goes on.
LEMMA OwnedOn ==
  ASSUME NEW t, NEW s, NEW r, Len(s) \in Nat, Len(r) = Len(s),
         \A k \in 2 .. Len(s) : r[k] = s[k],
         NEW e, Due(t, s[1], e) => Due(t, r[1], e), NotYet(t, s[1], e) => NotYet(t, r[1], e),
         Owned(t, s, e)
  PROVE  Owned(t, r, e)
<1>1. PICK k \in 1 .. Len(s) : Due(t, s[k], e) /\ \A j \in 1 .. k - 1 : NotYet(t, s[j], e)
  BY DEF Owned
<1>2. \A j \in 1 .. k : j = 1 \/ j \in 2 .. Len(s)
  BY <1>1
<1>3. Due(t, r[k], e)
  BY <1>1, <1>2
<1>4. \A j \in 1 .. k - 1 : NotYet(t, r[j], e)
  BY <1>1, <1>2
<1> QED
  BY <1>1, <1>3, <1>4 DEF Owned

\* A wrapper is entered.
LEMMA OwnedUnder ==
  ASSUME NEW t, NEW s, NEW r, Len(s) \in Nat, Len(r) = Len(s) + 1, r[1].pc = "auto",
         \A k \in 2 .. Len(s) : r[k + 1] = s[k],
         NEW e, Due(t, s[1], e) => Due(t, r[2], e), NotYet(t, s[1], e) => NotYet(t, r[2], e),
         Owned(t, s, e)
  PROVE  Owned(t, r, e)
<1>1. PICK k \in 1 .. Len(s) : Due(t, s[k], e) /\ \A j \in 1 .. k - 1 : NotYet(t, s[j], e)
  BY DEF Owned
<1>2. k + 1 \in 1 .. Len(r) /\ (k = 1 \/ k \in 2 .. Len(s))
  BY <1>1
<1>3. Due(t, r[k + 1], e)
  BY <1>1, <1>2
<1>4. ASSUME NEW j \in 1 .. (k + 1) - 1
      PROVE  NotYet(t, r[j], e)
  <2>1. CASE j = 1
    BY <2>1 DEF NotYet
  <2>2. CASE j = 2
    <3>1. 1 \in 1 .. k - 1
      BY <1>1, <1>4, <2>2
    <3> QED
      BY <1>1, <2>2, <3>1
  <2>3. CASE j > 2
    <3>1. j - 1 \in 2 .. Len(s) /\ j - 1 \in 1 .. k - 1 /\ (j - 1) + 1 = j
      BY <1>1, <1>4, <2>3
    <3>2. r[j] = s[j - 1]
      BY <3>1
    <3> QED
      BY <1>1, <3>1, <3>2
  <2> QED
    BY <1>4, <2>1, <2>2, <2>3
<1> QED
  BY <1>2, <1>3, <1>4 DEF Owned

\* A wrapper that has returned owed nothing.
LEMMA OwnedAbove ==
  ASSUME NEW t, NEW s, NEW r, Len(s) \in Nat, Len(r) = Len(s) - 1, s[1].pc = "return",
         \A k \in 1 .. Len(r) : r[k] = s[k + 1], NEW e, Owned(t, s, e)
  PROVE  Owned(t, r, e)
<1>1. PICK k \in 1 .. Len(s) : Due(t, s[k], e) /\ \A j \in 1 .. k - 1 : NotYet(t, s[j], e)
  BY DEF Owned
<1>2. ~Due(t, s[1], e)
  BY DEF Due
<1>3. k - 1 \in 1 .. Len(r) /\ (k - 1) + 1 = k
  BY <1>1, <1>2
<1>4. Due(t, r[k - 1], e)
  BY <1>1, <1>3
<1>5. \A j \in 1 .. (k - 1) - 1 : j \in 1 .. Len(r) /\ j + 1 \in 1 .. k - 1
  BY <1>1, <1>3
<1>6. \A j \in 1 .. (k - 1) - 1 : NotYet(t, r[j], e)
  BY <1>1, <1>5
<1> QED
  BY <1>3, <1>4, <1>6 DEF Owned

\* What is owned is a node of the thread's graph.
LEMMA OwnedNode ==
  ASSUME NEW t \in Threads, NEW s, NEW e, Owned(t, s, e)
  PROVE  e.ptr \in ToSet(Graph[t])
BY GraphIs DEF Owned, Due

-----------------------------------------------------------------------------
(* A record *)

LEMMA RecordKeeps ==
  ASSUME TraceTypes, OpenOwned, SameCall, UNCHANGED active,
         NEW e \in Events, Record(e), Passes(e) => Wellformed(e),
         \A t \in Threads, x \in Events :
           ~IsOpOf(e, x.ptr) /\ Owned(t, stack[t], x) => Owned(t, stack'[t], x),
         e.type = "OP_COMPUTE_BEGIN" => \E t \in Threads : Owned(t, stack'[t], e),
         \A t \in Threads, x \in Events :
           e.type = "OP_COMPUTE_END" /\ x.ptr = e.ptr /\ Owned(t, stack[t], x) =>
             x.call = e.call
  PROVE  TraceTypes' /\ OpenOwned' /\ SameCall'
<1> DEFINE N == Len(trace)
<1>1. /\ trace \in Seq(Events) /\ N \in Nat
      /\ \A i \in 1 .. N : trace[i] \in Events /\ Wellformed(trace[i])
  BY DEF TraceTypes
<1>2. \/ ~Passes(e) /\ UNCHANGED <<trace, dropped>>
      \/ Passes(e) /\ trace' = Append(trace, e) /\ UNCHANGED dropped
      \/ dropped' = TRUE /\ UNCHANGED trace
  BY DEF Record
<1>3. ASSUME active, ~dropped, NEW i \in 1 .. N, OpenAt(trace, N, i), ~IsOpOf(e, trace[i].ptr)
      PROVE  \E t \in Threads : Owned(t, stack'[t], trace[i])
  <2>1. PICK t \in Threads : Owned(t, stack[t], trace[i])
    BY <1>3 DEF OpenOwned
  <2> QED
    BY <1>1, <1>3, <2>1
<1>4. CASE ~Passes(e) /\ UNCHANGED <<trace, dropped>>
  <2>1. ASSUME active, NEW i \in 1 .. N, OpenAt(trace, N, i)
        PROVE  ~IsOpOf(e, trace[i].ptr)
    <3>1. enable_op_timing /\ trace[i].ptr \in Traced
      BY <1>1, <2>1 DEF OpenAt, Wellformed, OpTypes
    <3>2. IsOpOf(e, trace[i].ptr) => Passes(e)
      BY <2>1, <3>1 DEF IsOpOf, Passes, OpTypes, GraphTypes, MemoryTypes
    <3> QED
      BY <1>4, <3>2
  <2>2. OpenOwned'
    BY <1>3, <1>4, <2>1 DEF OpenOwned
  <2>3. TraceTypes' /\ SameCall'
    BY <1>4 DEF TraceTypes, SameCall
  <2> QED
    BY <2>2, <2>3
<1>5. CASE dropped' = TRUE /\ UNCHANGED trace
  BY <1>5 DEF TraceTypes, OpenOwned, SameCall
<1>6. CASE Passes(e) /\ trace' = Append(trace, e) /\ UNCHANGED dropped
  <2> DEFINE new == trace'
  <2>0. trace \in Seq(Events) /\ e \in Events /\ trace' = Append(trace, e)
    BY <1>1, <1>6
  <2>1. /\ new \in Seq(Events) /\ Len(new) = N + 1
        /\ new[N + 1] = e /\ \A i \in 1 .. N : new[i] = trace[i]
        /\ \A i \in 1 .. N : OpenAt(new, Len(new), i) <=>
             OpenAt(trace, N, i) /\ ~IsOpOf(e, trace[i].ptr)
        /\ \A p \in Paired(new) : PairOf(p, trace, e)
    <3>1. /\ \A p \in Paired(trace') : PairOf(p, trace, e)
          /\ \A i \in 1 .. Len(trace) :
               OpenAt(trace', Len(trace'), i) <=>
                 OpenAt(trace, Len(trace), i) /\ ~IsOpOf(e, trace[i].ptr)
      BY ONLY <2>0, AppendIs
    <3> QED
      BY <2>0, <3>1
  <2> HIDE DEF new
  <2>2. \A i \in 1 .. Len(new) : i \in 1 .. N \/ i = N + 1
    BY <1>1, <2>1
  <2>3. TraceTypes'
    <3>1. \A i \in 1 .. Len(new) : Wellformed(new[i])
      BY <1>1, <1>6, <2>1, <2>2
    <3> QED
      BY <2>1, <3>1 DEF TraceTypes, new
  <2>4. ASSUME active, ~dropped, NEW i \in 1 .. Len(new), OpenAt(new, Len(new), i)
        PROVE  \E t \in Threads : Owned(t, stack'[t], new[i])
    <3>1. CASE i \in 1 .. N
      <4>1. OpenAt(trace, N, i) /\ ~IsOpOf(e, trace[i].ptr) /\ new[i] = trace[i]
        BY <2>1, <2>4, <3>1
      <4> QED
        BY <1>3, <2>4, <3>1, <4>1
    <3>2. CASE i = N + 1
      BY <2>1, <2>4, <3>2 DEF OpenAt
    <3> QED
      BY <2>2, <3>1, <3>2
  <2>5. OpenOwned'
    BY <1>6, <2>4 DEF OpenOwned, new
  <2>6. ASSUME ~dropped, NEW p \in Paired(new)
        PROVE  new[p.begin].call = new[p.end].call
    <3>1. CASE p \in Paired(trace) /\ p.begin \in 1 .. N /\ p.end \in 1 .. N
      BY <2>1, <2>6, <3>1 DEF SameCall
    <3>2. CASE /\ p.end = N + 1 /\ e.type = "OP_COMPUTE_END"
               /\ e.ptr = trace[p.begin].ptr /\ p.begin \in 1 .. N
               /\ OpenAt(trace, N, p.begin)
      <4>1. active
        BY <1>6 DEF Passes
      <4>2. PICK t \in Threads : Owned(t, stack[t], trace[p.begin])
        BY <2>6, <3>2, <4>1 DEF OpenOwned
      <4>3. trace[p.begin].call = e.call
        BY <1>1, <3>2, <4>2
      <4> QED
        BY <2>1, <3>2, <4>3
    <3> QED
      BY <2>1, <2>6, <3>1, <3>2 DEF PairOf
  <2>7. SameCall'
    BY <1>6, <2>6 DEF SameCall, new
  <2> QED
    BY <2>3, <2>5, <2>7
<1> QED
  BY <1>2, <1>4, <1>5, <1>6

-----------------------------------------------------------------------------
(* A wrapper that records one event *)

\* f has recorded the event it was at, and goes on as g.
RecordsOne(f, g, list, next) ==
  /\ g.fn = f.fn /\ g.call = f.call
  /\ f.i \in 1 .. Len(list)
  /\ f.i < Len(list) => g.pc = f.pc /\ g.i = f.i + 1
  /\ f.i = Len(list) => g.pc \in next

LEMMA BeforeOn ==
  ASSUME NEW t \in Threads, NEW f \in Frames, f.pc = "before", NEW g,
         RecordsOne(f, g, Before(t, f), {"init", "original"}),
         NEW x, x.ptr \in ToSet(Graph[t]), ~IsOpOf(Before(t, f)[f.i], x.ptr)
  PROVE  (Due(t, f, x) => Due(t, g, x)) /\ (NotYet(t, f, x) => NotYet(t, g, x))
<1> DEFINE N == Len(Graph[t])
           list == Before(t, f)
<1>1. /\ Kind[f.fn] = "compute" =>
            /\ Len(list) = N + 1
            /\ \A q \in 1 .. N : list[q + 1] = Event("OP_COMPUTE_BEGIN", Graph[t][q], 0, f.call)
  BY BeforeIs DEF OpsAre
<1>2. N \in Nat /\ DOMAIN Graph[t] = 1 .. N
  BY GraphIs
<1>3. g.fn = f.fn /\ g.call = f.call /\ f.i \in 1 .. Len(list)
      /\ (f.i < Len(list) => g.pc = "before" /\ g.i = f.i + 1)
      /\ (f.i = Len(list) => g.pc \in {"init", "original"})
  BY DEF RecordsOne
<1> HIDE DEF N, list
<1>4. ASSUME Kind[f.fn] = "compute", Due(t, f, x)
      PROVE  Due(t, g, x)
  <2>1. PICK q \in 1 .. N : Graph[t][q] = x.ptr /\ q <= f.i - 2
    BY <1>4 DEF Due, N
  <2>2. f.call = x.call
    BY <1>4 DEF Due
  <2>3. CASE f.i < Len(list)
    <3>1. g.pc = "before" /\ q <= g.i - 2
      BY <1>1, <1>2, <1>3, <1>4, <2>1, <2>3
    <3> QED
      BY <1>3, <1>4, <2>1, <2>2, <3>1 DEF Due, N
  <2>4. CASE f.i = Len(list)
    BY <1>3, <1>4, <2>1, <2>2, <2>4 DEF Due, N
  <2> QED
    BY <1>1, <1>2, <1>3, <1>4, <2>3, <2>4
<1>5. ASSUME Kind[f.fn] = "compute", NotYet(t, f, x)
      PROVE  NotYet(t, g, x)
  <2>1. \A q \in 1 .. N : Graph[t][q] = x.ptr => f.i - 2 < q
    BY <1>5 DEF NotYet, N
  <2>2. ASSUME NEW q \in 1 .. N, Graph[t][q] = x.ptr
        PROVE  f.i - 1 < q
    <3>1. f.i = q + 1 => IsOpOf(list[f.i], x.ptr)
      <4>1. list[q + 1] = Event("OP_COMPUTE_BEGIN", x.ptr, 0, f.call)
        BY <1>1, <1>5, <2>2
      <4> QED
        BY <4>1 DEF IsOpOf, Event, OpTypes
    <3>2. f.i # q + 1 /\ f.i - 2 < q
      BY <2>1, <2>2, <3>1 DEF list
    <3> QED
      BY <1>1, <1>2, <1>3, <1>5, <3>2
  <2>3. CASE f.i < Len(list)
    <3>1. g.pc = "before" /\ g.i - 2 = f.i - 1
      BY <1>1, <1>2, <1>3, <1>5, <2>3
    <3> QED
      BY <2>2, <3>1 DEF NotYet, N
  <2>4. CASE f.i = Len(list)
    <3>1. PICK q \in 1 .. N : Graph[t][q] = x.ptr
      BY <1>2 DEF ToSet
    <3>2. f.i - 1 < q
      BY <2>2, <3>1
    <3> QED
      BY <1>1, <1>2, <1>5, <2>4, <3>2
  <2> QED
    BY <1>1, <1>2, <1>3, <1>5, <2>3, <2>4
<1> QED
  BY <1>3, <1>4, <1>5 DEF Due, NotYet

LEMMA AfterOn ==
  ASSUME NEW t \in Threads, NEW f \in Frames, f.pc = "after", NEW g,
         RecordsOne(f, g, After(t, f), {"return"}),
         NEW x, ~IsOpOf(After(t, f)[f.i], x.ptr)
  PROVE  (Due(t, f, x) => Due(t, g, x)) /\ (NotYet(t, f, x) => NotYet(t, g, x))
<1> DEFINE N == Len(Graph[t])
           list == After(t, f)
<1>1. /\ Kind[f.fn] = "compute" =>
            /\ Len(list) = N + 1
            /\ \A q \in 1 .. N : list[q + 0] = Event("OP_COMPUTE_END", Graph[t][q], 0, f.call)
  BY AfterIs DEF OpsAre
<1>2. N \in Nat /\ f.i \in Nat
  BY GraphIs DEF Frames
<1>3. g.fn = f.fn /\ g.call = f.call /\ f.i \in 1 .. Len(list)
      /\ (f.i < Len(list) => g.pc = "after" /\ g.i = f.i + 1)
  BY DEF RecordsOne
<1> HIDE DEF N, list
<1>4. ASSUME Due(t, f, x)
      PROVE  Due(t, g, x)
  <2>1. Kind[f.fn] = "compute" /\ f.call = x.call
    BY <1>4 DEF Due
  <2>2. PICK q \in 1 .. N : Graph[t][q] = x.ptr /\ f.i <= q
    BY <1>4 DEF Due, N
  <2>3. f.i = q => IsOpOf(list[f.i], x.ptr)
    <3>1. list[q + 0] = Event("OP_COMPUTE_END", Graph[t][q], 0, f.call) /\ q + 0 = q
      BY <1>1, <2>1
    <3> QED
      BY <2>2, <3>1 DEF IsOpOf, Event, OpTypes
  <2>4. f.i < q /\ f.i < Len(list)
    BY <1>1, <1>2, <2>1, <2>2, <2>3 DEF list
  <2>5. g.pc = "after" /\ g.i <= q
    BY <1>2, <1>3, <2>4
  <2> QED
    BY <1>3, <2>1, <2>2, <2>5 DEF Due, N
<1> QED
  BY <1>3, <1>4 DEF NotYet

\* The BEGIN that a wrapper records is its own.
LEMMA BeforeOpens ==
  ASSUME NEW t \in Threads, NEW f \in Frames, f.pc = "before", NEW g,
         RecordsOne(f, g, Before(t, f), {"init", "original"}),
         Before(t, f)[f.i].type = "OP_COMPUTE_BEGIN"
  PROVE  Due(t, g, Before(t, f)[f.i])
<1> DEFINE N == Len(Graph[t])
           list == Before(t, f)
           e == list[f.i]
<1>1. /\ f.i \in 1 .. Len(list) /\ g.fn = f.fn /\ g.call = f.call
      /\ f.i < Len(list) => g.pc = "before" /\ g.i = f.i + 1
      /\ f.i = Len(list) => g.pc \in {"init", "original"}
  BY DEF RecordsOne
<1>2. /\ e.call = f.call /\ Kind[f.fn] = "compute"
      /\ f.i - 1 \in 1 .. N /\ e.ptr = Graph[t][f.i - 1]
      /\ Len(list) = N + 1
  BY <1>1, BeforeIs DEF OpsAre, OpTypes
<1> HIDE DEF N, list, e
<1>3. f.i \in Nat /\ N \in Nat
  BY GraphIs DEF Frames, N
<1>4. \/ g.pc = "before" /\ f.i - 1 <= g.i - 2
      \/ g.pc \in {"init", "original"}
  BY <1>1, <1>2, <1>3
<1>5. Due(t, g, e)
  BY <1>1, <1>2, <1>4 DEF Due, N
<1> QED
  BY <1>5 DEF e, list

\* The END that a wrapper records finds its own BEGIN open.
LEMMA AfterCloses ==
  ASSUME NEW t \in Threads, NEW s \in Seq(Frames), s # <<>>, s[1].pc = "after",
         s[1].i \in 1 .. Len(After(t, s[1])),
         NEW e, e = After(t, s[1])[s[1].i], e.type = "OP_COMPUTE_END",
         NEW u \in Threads, NEW r, u = t => r = s,
         NEW x, x.ptr = e.ptr, Owned(u, r, x)
  PROVE  x.call = e.call
<1> DEFINE f == s[1]
           N == Len(Graph[t])
<1>1. f \in Frames /\ Len(s) \in Nat
  OBVIOUS
<1>2. /\ e.call = f.call /\ Kind[f.fn] = "compute"
      /\ f.i - 0 \in 1 .. N /\ e.ptr = Graph[t][f.i - 0]
  BY <1>1, AfterIs DEF OpsAre, OpTypes
<1>3. e.ptr \in ToSet(Graph[t])
  BY <1>2, GraphIs
<1>4. u = t
  BY <1>3, OwnedNode, InterposeAssumption
<1>5. PICK k \in 1 .. Len(s) : Due(t, s[k], x) /\ \A j \in 1 .. k - 1 : NotYet(t, s[j], x)
  BY <1>4 DEF Owned
<1>6. ~NotYet(t, f, x)
  BY <1>2 DEF NotYet
<1>7. k = 1
  BY <1>1, <1>5, <1>6
<1> QED
  BY <1>2, <1>5, <1>7 DEF Due

-----------------------------------------------------------------------------
(* Steps and the timings *)

LEMMA FirstEvent ==
  ASSUME NEW t \in Threads, NEW f \in Frames, f.i = 1
  PROVE  AtEvent(t, f)
<1>1. Before(t, f) \in Seq(Events) /\ After(t, f) \in Seq(Events)
  BY BeforeIs, AfterIs DEF OpsAre
<1>2. Len(Before(t, f)) \in Nat /\ Len(After(t, f)) \in Nat
  BY <1>1
<1> QED
  BY <1>2 DEF AtEvent

\* The innermost wrapper goes on.
LEMMA TopAdvances ==
  ASSUME CallTypes, NEW t \in Threads, stack[t] # <<>>,
         NEW label \in Pre \cup Post, NEW n \in Nat, Advance(t, label, n),
         UNCHANGED calls, computed' \in [Threads -> Nat], originals' \subseteq Overrides,
         n = 1 \/ AtEvent(t, stack'[t][1])
  PROVE  /\ CallTypes'
         /\ \A u \in Threads, e \in Events :
              /\ u = t => /\ Due(t, stack[t][1], e) => Due(t, stack'[t][1], e)
                          /\ NotYet(t, stack[t][1], e) => NotYet(t, stack'[t][1], e)
              /\ Owned(u, stack[u], e)
              => Owned(u, stack'[u], e)
<1> USE DEF CallTypes
<1>0. StackTypes /\ stack' = [stack EXCEPT ![t][1].pc = label, ![t][1].i = n]
  BY DEF Advance
<1>1. /\ stack' \in [Threads -> Seq(Frames)]
      /\ Len(stack'[t]) = Len(stack[t]) /\ stack'[t] # <<>>
      /\ AtIndex(stack'[t][1], n)
      /\ \A k \in 2 .. Len(stack[t]) : stack'[t][k] = stack[t][k]
      /\ \A u \in Threads : u # t => stack'[u] = stack[u]
  BY ONLY <1>0, stack[t] # <<>>, label \in Pre \cup Post, n \in Nat, TopChanges
<1>2. StackTypes'
  BY <1>1 DEF StackTypes
<1>3. OuterWait'
  BY <1>1 DEF OuterWait
<1>4. stack[t] \in Seq(Frames) /\ Len(stack[t]) \in Nat /\ stack'[t][1] \in Frames
  <2>1. stack[t] \in Seq(Frames) /\ stack'[t] \in Seq(Frames)
    BY <1>1 DEF StackTypes
  <2> QED
    BY <1>1, <2>1
<1>5. AtEvent(t, stack'[t][1])
  BY <1>1, <1>4, FirstEvent DEF AtIndex
<1>6. TopIndex'
  <2>1. ASSUME NEW u \in Threads, stack'[u] # <<>>
        PROVE  AtEvent(u, stack'[u][1])
    BY <1>1, <1>5, <2>1 DEF TopIndex
  <2> QED
    BY <2>1 DEF TopIndex
<1>7. ASSUME NEW u \in Threads, NEW e \in Events, Owned(u, stack[u], e),
             u = t => /\ Due(t, stack[t][1], e) => Due(t, stack'[t][1], e)
                      /\ NotYet(t, stack[t][1], e) => NotYet(t, stack'[t][1], e)
      PROVE  Owned(u, stack'[u], e)
  <2>1. CASE u = t
    BY <1>1, <1>4, <1>7, <2>1, OwnedOn
  <2>2. CASE u # t
    BY <1>1, <1>7, <2>2
  <2> QED
    BY <2>1, <2>2
<1> QED
  BY <1>2, <1>3, <1>6, <1>7

\* Steps of a wrapper that record nothing.
Quiet(f, g) ==
  \/ f.pc = "auto" /\ g.pc = "check"
  \/ f.pc = "check" /\ g.pc = "before" /\ g.i = 1
  \/ /\ f.pc \in {"init", "install", "flag", "original", "call"}
     /\ g.pc \in {"install", "flag", "original", "call", "crashed", "recheck"}
  \/ f.pc = "recheck" /\ g.pc = "after" /\ g.i = 1
  \/ Kind[f.fn] # "compute"

LEMMA QuietStep ==
  ASSUME TimingInv, NEW t \in Threads, stack[t] # <<>>,
         NEW label \in Pre \cup Post, Goto(t, label),
         UNCHANGED <<calls, trace>>, computed' \in [Threads -> Nat], originals' \subseteq Overrides,
         ~dropped' => ~dropped,
         active' /\ ~dropped' => active /\ Quiet(stack[t][1], stack'[t][1])
  PROVE  TimingInv'
<1> DEFINE f == stack[t][1]
           g == stack'[t][1]
<1>1. Advance(t, label, 1) /\ 1 \in Nat
  BY DEF Goto
<1>2. /\ CallTypes'
      /\ \A u \in Threads, e \in Events :
           /\ u = t => /\ Due(t, f, e) => Due(t, g, e)
                       /\ NotYet(t, f, e) => NotYet(t, g, e)
           /\ Owned(u, stack[u], e)
           => Owned(u, stack'[u], e)
  BY <1>1, TopAdvances DEF TimingInv
<1>3. g.fn = f.fn /\ g.call = f.call
  BY <1>1, TopChanges DEF TimingInv, CallTypes, Advance
<1> HIDE DEF f, g
<1>4. ASSUME Quiet(f, g), NEW e \in Events
      PROVE  (Due(t, f, e) => Due(t, g, e)) /\ (NotYet(t, f, e) => NotYet(t, g, e))
  <2>1. \A q \in 1 .. Len(Graph[t]) : 1 <= q /\ 1 - 2 < q
    BY GraphIs
  <2>2. Due(t, f, e) => Due(t, g, e)
    BY <1>3, <1>4, <2>1 DEF Quiet, Due
  <2>3. NotYet(t, f, e) => NotYet(t, g, e)
    BY <1>3, <1>4, <2>1 DEF Quiet, NotYet
  <2> QED
    BY <2>2, <2>3
<1>5. TraceTypes' /\ OpenOwned' /\ SameCall'
  BY <1>2, <1>4, OwnersKept DEF TimingInv, f, g
<1> QED
  BY <1>2, <1>5 DEF TimingInv

\* A wrapper's record.
LEMMA RecordStep ==
  ASSUME TimingInv, NEW t \in Threads, stack[t] # <<>>,
         NEW list, NEW next, NEW label \in Pre \cup Post, NEW n \in Nat,
         LET f == stack[t][1]
         IN  /\ \/ f.pc = "before" /\ list = Before(t, f) /\ next = {"init", "original"}
                \/ f.pc = "after" /\ list = After(t, f) /\ next = {"return"}
             /\ Len(list) > 0
             /\ Record(list[f.i])
             /\ f.i < Len(list) => label = f.pc /\ n = f.i + 1
             /\ ~(f.i < Len(list)) => label \in next /\ n = 1,
         Advance(t, label, n), UNCHANGED <<active, calls, computed, originals>>
  PROVE  TimingInv'
<1> DEFINE f == stack[t][1]
           g == stack'[t][1]
           e == list[f.i]
<1>1. /\ f \in Frames /\ stack[t] \in Seq(Frames) /\ f.i \in Nat
  BY TopFrame DEF TimingInv, CallTypes, StackTypes
<1>2. g.pc = label /\ g.i = n /\ g.fn = f.fn /\ g.call = f.call
  <2>1. StackTypes /\ stack' = [stack EXCEPT ![t][1].pc = label, ![t][1].i = n]
    BY DEF Advance, TimingInv, CallTypes
  <2>2. g.pc = label /\ AtIndex(g, n) /\ g.fn = f.fn /\ g.call = f.call
    BY ONLY <2>1, stack[t] # <<>>, label \in Pre \cup Post, n \in Nat, TopChanges
  <2> QED
    BY <2>2 DEF AtIndex
<1>3. /\ f.pc = "before" => OpsAre(list, t, f, "OP_COMPUTE_BEGIN", 1)
      /\ f.pc = "after" => OpsAre(list, t, f, "OP_COMPUTE_END", 0)
      /\ list \in Seq(Events)
  <2>1. f.pc = "before" => list = Before(t, f)
    OBVIOUS
  <2>2. f.pc = "after" => list = After(t, f)
    OBVIOUS
  <2>3. f.pc = "before" => OpsAre(list, t, f, "OP_COMPUTE_BEGIN", 1)
    BY <1>1, <2>1, BeforeIs
  <2>4. f.pc = "after" => OpsAre(list, t, f, "OP_COMPUTE_END", 0)
    BY <1>1, <2>2, AfterIs
  <2> QED
    BY <2>3, <2>4 DEF OpsAre
<1>4. f.i \in 1 .. Len(list) /\ Len(list) \in Nat
  <2>1. AtEvent(t, f)
    BY DEF TimingInv, CallTypes, TopIndex
  <2> QED
    BY <1>3, <2>1 DEF AtEvent
<1>5. RecordsOne(f, g, list, next)
  BY <1>2, <1>4 DEF RecordsOne
<1>6. e \in Events
  BY <1>3, <1>4
<1>7. Passes(e) => Wellformed(e)
  <2>1. e.type = "TENSOR_ALLOC" => e.size = Size[e.ptr] /\ Size[e.ptr] \in Nat
    BY <1>3, <1>4 DEF OpsAre
  <2> QED
    BY <2>1 DEF Passes, Wellformed
<1>8. AtEvent(t, g)
  <2>1. Before(t, g) = Before(t, f) /\ After(t, g) = After(t, f)
    BY <1>2 DEF Before, After
  <2> QED
    BY <1>2, <1>4, <1>1, <2>1, FirstEvent, TopChanges DEF AtEvent
<1>9. /\ CallTypes'
      /\ \A u \in Threads, x \in Events :
           /\ u = t => /\ Due(t, f, x) => Due(t, g, x)
                       /\ NotYet(t, f, x) => NotYet(t, g, x)
           /\ Owned(u, stack[u], x)
           => Owned(u, stack'[u], x)
  BY <1>8, TopAdvances DEF TimingInv, CallTypes, StackTypes
<1>10. ASSUME NEW u \in Threads, NEW x \in Events, ~IsOpOf(e, x.ptr), Owned(u, stack[u], x)
       PROVE  Owned(u, stack'[u], x)
  <2>1. ASSUME u = t
        PROVE  (Due(t, f, x) => Due(t, g, x)) /\ (NotYet(t, f, x) => NotYet(t, g, x))
    <3>1. x.ptr \in ToSet(Graph[t])
      BY <1>10, <2>1, OwnedNode
    <3>2. CASE f.pc = "before"
      <4>1. list = Before(t, f) /\ next = {"init", "original"}
        BY <3>2
      <4> HIDE DEF f, g
      <4> QED
        BY <1>1, <1>5, <1>10, <3>1, <3>2, <4>1, BeforeOn
    <3>3. CASE f.pc = "after"
      <4>1. list = After(t, f) /\ next = {"return"}
        BY <3>3
      <4> HIDE DEF f, g
      <4> QED
        BY <1>1, <1>5, <1>10, <3>3, <4>1, AfterOn
    <3> QED
      BY <3>2, <3>3
  <2> QED
    BY <1>9, <1>10, <2>1
<1>11. ASSUME e.type = "OP_COMPUTE_BEGIN"
       PROVE  \E u \in Threads : Owned(u, stack'[u], e)
  <2>1. f.pc = "before"
    BY <1>3, <1>4, <1>11 DEF OpsAre, OpTypes
  <2>2. list = Before(t, f) /\ next = {"init", "original"}
    BY <2>1
  <2>3. Due(t, g, e)
    <3> HIDE DEF f, g
    <3> QED
      BY <1>1, <1>5, <1>11, <2>1, <2>2, BeforeOpens
  <2>4. 1 \in 1 .. Len(stack'[t])
    <3>1. stack'[t] \in Seq(Frames) /\ stack'[t] # <<>>
      BY TopChanges DEF TimingInv, CallTypes, Advance
    <3> QED
      BY <3>1
  <2>5. 1 .. 1 - 1 = {}
    OBVIOUS
  <2> QED
    BY <2>3, <2>4, <2>5 DEF Owned
<1>12. ASSUME NEW u \in Threads, NEW x \in Events,
              e.type = "OP_COMPUTE_END", x.ptr = e.ptr, Owned(u, stack[u], x)
       PROVE  x.call = e.call
  <2>1. f.pc = "after"
    BY <1>3, <1>4, <1>12 DEF OpsAre, OpTypes
  <2>2. list = After(t, f)
    BY <2>1
  <2>3. f.i \in 1 .. Len(After(t, f)) /\ e = After(t, f)[f.i]
    BY <1>4, <2>2
  <2> DEFINE s == stack[t]
             r == stack[u]
  <2>4. s \in Seq(Frames) /\ s # <<>> /\ f = s[1] /\ (u = t => r = s) /\ Owned(u, r, x)
    BY <1>1, <1>12
  <2> HIDE DEF f, e, s, r
  <2> QED
    BY <1>12, <2>1, <2>3, <2>4, AfterCloses, SMTT(30)
<1>13. TraceTypes' /\ OpenOwned' /\ SameCall'
  <2>1. Record(e)
    OBVIOUS
  <2> HIDE DEF e
  <2> QED
    BY <1>6, <1>7, <1>10, <1>11, <1>12, <2>1, RecordKeeps DEF TimingInv
<1> QED
  BY <1>9, <1>13 DEF TimingInv

LEMMA TimingInitially == Init => TimingInv
<1> SUFFICES ASSUME Init
             PROVE  TimingInv
  OBVIOUS
<1>1. CallTypes
  BY InterposeAssumption DEF Init, CallTypes, StackTypes, OuterWait, TopIndex
<1>2. trace = <<>> /\ ~active
  BY DEF Init
<1>3. trace \in Seq(Events) /\ Len(trace) = 0 /\ 1 .. 0 = {}
  BY <1>2
<1>4. TraceTypes /\ OpenOwned
  BY <1>2, <1>3 DEF TraceTypes, OpenOwned
<1>5. Paired(trace) = {}
  BY <1>3 DEF Paired, Positions
<1> QED
  BY <1>1, <1>4, <1>5 DEF TimingInv, SameCall

LEMMA TimingPreserved == TimingInv /\ [Next]_vars => TimingInv'
<1> SUFFICES ASSUME TimingInv, [Next]_vars
             PROVE  TimingInv'
  OBVIOUS
<1>0. \A t \in Threads :
        stack[t] # <<>> => stack[t][1].pc \in Pre \cup Post /\ stack[t][1] \in Frames
  BY TopFrame DEF TimingInv, CallTypes
<1>a. computed \in [Threads -> Nat] /\ originals \subseteq Overrides
  BY DEF TimingInv, CallTypes, StackTypes
<1>1. CASE Start
  <2>1. CallTypes'
    BY <1>1 DEF Start, TimingInv, CallTypes, StackTypes, OuterWait, TopIndex
  <2>2. TraceTypes' /\ OpenOwned' /\ SameCall'
    BY <1>1, EmptyTrace DEF Start, StartSession
  <2> QED
    BY <2>1, <2>2 DEF TimingInv
<1>2. CASE Stop \/ Uninstall \/ UNCHANGED vars
  <2>1. /\ UNCHANGED <<stack, trace, calls, computed, dropped>>
        /\ originals' \subseteq originals
        /\ active' => active
    BY <1>2 DEF Stop, Uninstall, vars
  <2>2. CallTypes'
    BY <2>1 DEF TimingInv, CallTypes, StackTypes, OuterWait, TopIndex
  <2>3. TraceTypes' /\ OpenOwned' /\ SameCall'
    BY <2>1, OwnersKept DEF TimingInv
  <2> QED
    BY <2>2, <2>3 DEF TimingInv
<1>3. ASSUME NEW t \in Threads, NEW f \in Fns, CallWrapper(t, f)
      PROVE  TimingInv'
  <2>1. /\ StackTypes' /\ OuterWait'
        /\ stack'[t] # <<>> /\ stack'[t][1].i = 1
        /\ \A u \in Threads : u # t => stack'[u] = stack[u]
    BY <1>3, WrapperCalled DEF TimingInv, CallTypes
  <2>2. stack[t] = <<>> /\ UNCHANGED <<active, trace, dropped>>
    BY <1>3 DEF CallWrapper
  <2>3. CallTypes'
    <3>1. stack'[t] \in Seq(Frames)
      BY <2>1 DEF StackTypes
    <3>2. stack'[t][1] \in Frames
      BY <2>1, <3>1
    <3>3. AtEvent(t, stack'[t][1])
      BY <2>1, <3>2, FirstEvent
    <3>4. ASSUME NEW u \in Threads, stack'[u] # <<>>
          PROVE  AtEvent(u, stack'[u][1])
      BY <2>1, <3>3, <3>4 DEF TimingInv, CallTypes, TopIndex
    <3> QED
      BY <2>1, <3>4 DEF CallTypes, TopIndex
  <2>4. ASSUME NEW u \in Threads, NEW e \in Events, Owned(u, stack[u], e)
        PROVE  Owned(u, stack'[u], e)
    <3>1. u # t
      <4>1. Len(<<>>) = 0 /\ 1 .. 0 = {}
        OBVIOUS
      <4> QED
        BY <2>2, <2>4, <4>1 DEF Owned
    <3> QED
      BY <2>1, <2>4, <3>1
  <2>5. TraceTypes' /\ OpenOwned' /\ SameCall'
    BY <2>2, <2>4, OwnersKept DEF TimingInv
  <2> QED
    BY <2>3, <2>5 DEF TimingInv
<1>4. ASSUME NEW t \in Threads, NEW n \in ToSet(Graph[t]), FreeTensor(t, n)
      PROVE  TimingInv'
  <2> DEFINE e == Event("TENSOR_FREE", n, 0, calls + 1)
  <2>1. /\ Record(e) /\ UNCHANGED <<active, originals, stack, computed>>
        /\ calls' = calls + 1
    BY <1>4 DEF FreeTensor
  <2>2. calls \in Nat
    BY DEF TimingInv, CallTypes, StackTypes
  <2>3. CallTypes'
    BY <2>1, <2>2 DEF TimingInv, CallTypes, StackTypes, OuterWait, TopIndex
  <2>4. n \in Nodes
    BY DEF Nodes
  <2>5. /\ e \in Events /\ e.type \notin OpTypes /\ e.type = "TENSOR_FREE"
        /\ Wellformed(e)
    BY <2>2, <2>4 DEF Event, Events, MemoryTypes, OpTypes, Wellformed
  <2> HIDE DEF e
  <2>6. e.type # "OP_COMPUTE_BEGIN" /\ e.type # "OP_COMPUTE_END"
    BY <2>5
  <2>7. TraceTypes' /\ OpenOwned' /\ SameCall'
    BY <2>1, <2>5, <2>6, RecordKeeps DEF TimingInv
  <2> QED
    BY <2>3, <2>7 DEF TimingInv
<1>5. ASSUME NEW t \in Threads, AutoStart(t)
      PROVE  TimingInv'
  <2>1. /\ stack[t] # <<>> /\ stack[t][1].pc = "auto" /\ Goto(t, "check")
        /\ UNCHANGED <<originals, calls, computed>>
        /\ "check" \in Pre \cup Post
    BY <1>5 DEF AutoStart, InWrapper, Pre
  <2>2. CASE StartSession
    <3>1. CallTypes'
      BY <1>a, <2>1, TopAdvances DEF TimingInv, Goto
    <3>2. TraceTypes' /\ OpenOwned' /\ SameCall'
      BY <2>2, EmptyTrace DEF StartSession
    <3> QED
      BY <3>1, <3>2 DEF TimingInv
  <2>3. CASE UNCHANGED <<active, trace, dropped>>
    <3>1. Quiet(stack[t][1], stack'[t][1])
      BY <2>1, TopChanges DEF Quiet, TimingInv, CallTypes, Goto, Advance
    <3> QED
      BY <1>a, <2>1, <2>3, <3>1, QuietStep
  <2> QED
    BY <1>5, <2>2, <2>3 DEF AutoStart
\* The innermost wrapper of t goes to label, and nothing is recorded.
<1> DEFINE Goes(t, label) ==
             /\ stack[t] # <<>> /\ Goto(t, label)
             /\ UNCHANGED <<active, calls, trace, dropped>>
             /\ computed' \in [Threads -> Nat] /\ originals' \subseteq Overrides
<1>6. ASSUME NEW t \in Threads, NEW label \in Pre \cup Post, Goes(t, label),
             active =>
               \/ stack[t][1].pc = "check" /\ label = "before"
               \/ /\ stack[t][1].pc \in {"init", "install", "flag", "original", "call"}
                  /\ label \in {"install", "flag", "original", "call", "crashed", "recheck"}
               \/ stack[t][1].pc = "recheck" /\ label = "after"
               \/ Kind[stack[t][1].fn] # "compute"
      PROVE  TimingInv'
  <2>1. stack'[t][1].pc = label /\ AtIndex(stack'[t][1], 1)
    BY <1>6, TopChanges DEF TimingInv, CallTypes, Goto, Advance
  <2>2. active => Quiet(stack[t][1], stack'[t][1])
    BY <1>6, <2>1 DEF Quiet, AtIndex
  <2> QED
    BY <1>6, <2>2, QuietStep
<1>7. ASSUME NEW t \in Threads, Check(t)
      PROVE  TimingInv'
  <2>1. PICK label \in Pre \cup Post :
          /\ Goes(t, label)
          /\ active => \/ stack[t][1].pc = "check" /\ label = "before"
                       \/ stack[t][1].pc = "recheck" /\ label = "after"
    BY <1>7, <1>a DEF Check, InWrapper, ToOriginal, Pre, Post
  <2> HIDE DEF Goes
  <2> QED
    BY <1>6, <2>1
<1>8. ASSUME NEW t \in Threads, RecordEvents(t)
      PROVE  TimingInv'
  <2> DEFINE f == stack[t][1]
  <2>1. PICK list, next :
          /\ \/ f.pc = "before" /\ list = Before(t, f) /\ next = ToOriginal(t)
             \/ f.pc = "after" /\ list = After(t, f) /\ next = "return"
          /\ stack[t] # <<>> /\ RecordAll(t, list, next)
          /\ UNCHANGED <<active, originals, calls, computed>>
    BY <1>8 DEF RecordEvents, InWrapper
  <2>2. /\ next \in Pre \cup Post /\ f.pc \in Pre \cup Post
        /\ f.pc = "before" => next \in {"init", "original"}
        /\ f.pc = "after" => next \in {"return"}
    BY <2>1, <1>0 DEF ToOriginal, Pre, Post
  <2>3. f \in Frames /\ f.i \in Nat
    BY <1>0, <2>1 DEF Frames
  <2>4. /\ list \in Seq(Events) /\ Len(list) \in Nat
        /\ Kind[f.fn] = "compute" => Len(list) > 0
    <3>1. /\ OpsAre(Before(t, f), t, f, "OP_COMPUTE_BEGIN", 1)
          /\ OpsAre(After(t, f), t, f, "OP_COMPUTE_END", 0)
      BY <2>3, BeforeIs, AfterIs
    <3>2. list \in Seq(Events) /\ (Kind[f.fn] = "compute" => Len(list) = Len(Graph[t]) + 1)
      BY <2>1, <3>1 DEF OpsAre
    <3> QED
      BY <3>2, GraphIs
  <2>5. CASE list = <<>>
    <3>1. Len(list) = 0 /\ ~(f.i < Len(list))
      BY <2>3, <2>5
    <3>2. Goto(t, next) /\ UNCHANGED <<trace, dropped>>
      BY <2>1, <2>5, <3>1 DEF RecordAll
    <3>3. Goes(t, next) /\ Kind[f.fn] # "compute"
      BY <1>a, <2>1, <2>4, <3>1, <3>2
    <3> HIDE DEF Goes
    <3> QED
      BY <1>6, <2>2, <3>3
  <2>6. CASE list # <<>>
    <3>1. Len(list) > 0
      BY <2>4, <2>6
    <3>2. /\ Record(list[f.i])
          /\ IF f.i < Len(list) THEN Advance(t, f.pc, f.i + 1) ELSE Advance(t, next, 1)
      BY <2>1, <2>6 DEF RecordAll, Goto
    <3>3. PICK label \in Pre \cup Post, n \in Nat :
            /\ Advance(t, label, n)
            /\ f.i < Len(list) => label = f.pc /\ n = f.i + 1
            /\ ~(f.i < Len(list)) => label = next /\ n = 1
      BY <2>2, <2>3, <3>2
    <3> DEFINE to == IF f.pc = "before" THEN {"init", "original"} ELSE {"return"}
    <3>4. /\ \/ f.pc = "before" /\ list = Before(t, f) /\ to = {"init", "original"}
             \/ f.pc = "after" /\ list = After(t, f) /\ to = {"return"}
          /\ next \in to
      BY <2>1, <2>2
    <3> HIDE DEF to
    <3> QED
      BY <2>1, <3>1, <3>2, <3>3, <3>4, RecordStep
  <2> QED
    BY <2>5, <2>6
<1>9. ASSUME NEW t \in Threads,
             \/ CheckInstalled(t) \/ Install(t) \/ SetInitialized(t)
             \/ TestOriginal(t) \/ SkipOriginal(t) \/ CallNull(t)
      PROVE  TimingInv'
  <2>1. PICK label \in {"install", "flag", "original", "call", "crashed", "recheck"} :
          /\ Goes(t, label)
          /\ stack[t][1].pc \in {"init", "install", "flag", "original", "call"}
    BY <1>9, <1>a, InterposeAssumption
       DEF CheckInstalled, Install, SetInitialized, TestOriginal, SkipOriginal, CallNull,
           InWrapper
  <2>2. label \in Pre \cup Post
    BY DEF Pre, Post
  <2> HIDE DEF Goes
  <2> QED
    BY <1>6, <2>1, <2>2
<1>10. ASSUME NEW t \in Threads, CallOriginal(t)
       PROVE  TimingInv'
  <2> DEFINE f == stack[t][1]
  <2>1. /\ stack[t] # <<>> /\ f.pc = "call"
        /\ UNCHANGED <<active, originals, trace, dropped>>
    BY <1>10 DEF CallOriginal, InWrapper
  <2>2. CASE Inner[f.fn] = None
    <3>1. computed' = [computed EXCEPT ![t] = @ + 1] /\ Goto(t, "recheck") /\ UNCHANGED calls
      BY <1>10, <2>2 DEF CallOriginal
    <3>2. computed' \in [Threads -> Nat] /\ "recheck" \in Pre \cup Post
      BY <1>a, <3>1 DEF Post
    <3>3. Goes(t, "recheck")
      BY <1>a, <2>1, <3>1, <3>2
    <3> HIDE DEF Goes
    <3> QED
      BY <1>6, <2>1, <3>2, <3>3
  <2>3. CASE Inner[f.fn] # None
    <3>1. /\ Enter(t, Inner[f.fn], <<[f EXCEPT !.pc = "recheck", !.i = 1]>> \o Tail(stack[t]))
          /\ UNCHANGED computed
      BY <1>10, <2>3 DEF CallOriginal
    <3>2. /\ StackTypes' /\ OuterWait'
          /\ stack'[t] # <<>> /\ stack'[t][1].pc = "auto" /\ stack'[t][1].i = 1
          /\ Len(stack'[t]) = Len(stack[t]) + 1
          /\ stack'[t][2].fn = f.fn /\ stack'[t][2].call = f.call
          /\ stack'[t][2].pc = "recheck"
          /\ \A k \in 2 .. Len(stack[t]) : stack'[t][k + 1] = stack[t][k]
          /\ \A u \in Threads : u # t => stack'[u] = stack[u]
      BY <2>1, <2>3, <3>1, InnerEntered DEF TimingInv, CallTypes
    <3>3. CallTypes'
      <4>1. stack'[t] \in Seq(Frames)
        BY <3>2 DEF StackTypes
      <4>2. stack'[t][1] \in Frames
        BY <3>2, <4>1
      <4>3. AtEvent(t, stack'[t][1])
        BY <3>2, <4>2, FirstEvent
      <4>4. ASSUME NEW u \in Threads, stack'[u] # <<>>
            PROVE  AtEvent(u, stack'[u][1])
        BY <3>2, <4>3, <4>4 DEF TimingInv, CallTypes, TopIndex
      <4> QED
        BY <3>2, <4>4 DEF CallTypes, TopIndex
    <3>4. Len(stack[t]) \in Nat
      BY <2>1, TopFrame DEF TimingInv, CallTypes
    <3>5. ASSUME NEW e
          PROVE  /\ Due(t, f, e) => Due(t, stack'[t][2], e)
                 /\ NotYet(t, f, e) => NotYet(t, stack'[t][2], e)
      BY <2>1, <3>2 DEF Due, NotYet
    <3>6. ASSUME NEW u \in Threads, NEW e \in Events, Owned(u, stack[u], e)
          PROVE  Owned(u, stack'[u], e)
      <4>1. CASE u = t
        BY <3>2, <3>4, <3>5, <3>6, <4>1, OwnedUnder
      <4>2. CASE u # t
        BY <3>2, <3>6, <4>2
      <4> QED
        BY <4>1, <4>2
    <3>7. TraceTypes' /\ OpenOwned' /\ SameCall'
      BY <2>1, <3>6, OwnersKept DEF TimingInv
    <3> QED
      BY <3>3, <3>7 DEF TimingInv
  <2> QED
    BY <2>2, <2>3
<1>11. ASSUME NEW t \in Threads, Return(t)
       PROVE  TimingInv'
  <2>1. /\ stack[t] # <<>> /\ stack[t][1].pc = "return"
        /\ UNCHANGED <<active, trace, dropped>>
    BY <1>11 DEF Return, InWrapper
  <2>2. /\ StackTypes' /\ OuterWait'
        /\ Len(stack[t]) \in Nat /\ Len(stack'[t]) = Len(stack[t]) - 1
        /\ stack'[t] # <<>> => 1 \in 1 .. Len(stack'[t])
        /\ \A k \in 1 .. Len(stack'[t]) :
             stack'[t][k] = stack[t][k + 1] /\ stack'[t][k].pc = "recheck"
        /\ \A u \in Threads : u # t => stack'[u] = stack[u]
    BY <1>11, WrapperReturned DEF TimingInv, CallTypes
  <2>3. CallTypes'
    <3>1. stack'[t] # <<>> => AtEvent(t, stack'[t][1])
      BY <2>2 DEF AtEvent
    <3>2. ASSUME NEW u \in Threads, stack'[u] # <<>>
          PROVE  AtEvent(u, stack'[u][1])
      BY <2>2, <3>1, <3>2 DEF TimingInv, CallTypes, TopIndex
    <3> QED
      BY <2>2, <3>2 DEF CallTypes, TopIndex
  <2>4. ASSUME NEW u \in Threads, NEW e \in Events, Owned(u, stack[u], e)
        PROVE  Owned(u, stack'[u], e)
    <3>1. CASE u = t
      BY <2>1, <2>2, <2>4, <3>1, OwnedAbove
    <3>2. CASE u # t
      BY <2>2, <2>4, <3>2
    <3> QED
      BY <3>1, <3>2
  <2>5. TraceTypes' /\ OpenOwned' /\ SameCall'
    BY <2>1, <2>4, OwnersKept DEF TimingInv
  <2> QED
    BY <2>3, <2>5 DEF TimingInv
<1> QED
  BY <1>1, <1>2, <1>3, <1>4, <1>5, <1>7, <1>8, <1>9, <1>10, <1>11, InterposeAssumption
     DEF Next

-----------------------------------------------------------------------------
(* What the trace says *)

LEMMA TraceIs ==
  ASSUME TraceTypes
  PROVE  Len(trace) \in Nat /\ DOMAIN trace = 1 .. Len(trace) /\ Sized(trace)
<1>1. trace \in Seq(Events)
  BY DEF TraceTypes
<1>2. Len(trace) \in Nat /\ DOMAIN trace = 1 .. Len(trace)
  BY <1>1
<1>3. Sized(trace)
  BY <1>2 DEF Sized, TraceTypes, Wellformed
<1> QED
  BY <1>2, <1>3

LEMMA AdjacentArePaired ==
  ASSUME NEW events, Len(events) \in Nat, DOMAIN events = 1 .. Len(events)
  PROVE  Adjacent(events) = Paired(events)
<1>1. ASSUME NEW p \in Positions(events)
      PROVE  /\ p.begin < p.end /\ events[p.end].ptr = events[p.begin].ptr
             /\ events[p.begin].type = "OP_COMPUTE_BEGIN"
             /\ events[p.end].type = "OP_COMPUTE_END"
             /\ \A k \in p.begin + 1 .. p.end - 1 :
                  ~(events[k].type \in OpTypes /\ events[k].ptr = events[p.begin].ptr)
             <=> PairAt(events, p)
  <2>1. p.begin \in 1 .. Len(events) /\ p.end \in 1 .. Len(events)
    BY DEF Positions
  <2>2. p.begin < p.end <=> p.begin \in 1 .. p.end - 1
    BY <2>1
  <2> QED
    BY <2>1, <2>2 DEF PairAt, OpenAt, IsOpOf
<1> QED
  BY <1>1 DEF Adjacent, Paired, Positions

\* The bars of the timeline are the operations of which the trace has both
\* ends, and without a lost record both ends of a bar come from one call
\* (get_op_timings(), process_events() and the wrappers).
THEOREM BarsOfOneCall == Spec => []TimingsOfOneCall
<1>1. TimingInv => TimingsOfOneCall
  <2> SUFFICES ASSUME TimingInv
               PROVE  TimingsOfOneCall
    OBVIOUS
  <2> DEFINE bars == ProcessEvents(trace)
  <2>1. Len(trace) \in Nat /\ DOMAIN trace = 1 .. Len(trace)
    BY TraceIs DEF TimingInv
  <2>2. /\ ToSet(bars) = Paired(trace) /\ DOMAIN bars = 1 .. Len(bars)
        /\ \A j, k \in 1 .. Len(bars) : j < k => bars[j].begin < bars[k].begin
    BY <2>1, BarsAre
  <2>3. \A k \in DOMAIN bars : bars[k] \in Paired(trace)
    BY <2>2 DEF ToSet
  <2>4. ToSet(bars) = Adjacent(trace)
    BY <2>1, <2>2, AdjacentArePaired
  <2> HIDE DEF bars
  <2>5. ~dropped => \A k \in DOMAIN bars : trace[bars[k].begin].call = trace[bars[k].end].call
    BY <2>3 DEF TimingInv, SameCall
  <2> QED
    BY <2>2, <2>4, <2>5 DEF TimingsOfOneCall, bars
<1> QED
  BY <1>1, TimingInitially, TimingPreserved, PTL DEF Spec

\* The statistics of the memory of every trace add up
\* (update_memory_stats(), over what the wrappers record).
THEOREM MemoryAddsUp == Spec => []MemoryAccounted
<1>1. TimingInv => MemoryAccounted
  BY TraceIs, Accounted DEF TimingInv, MemoryAccounted
<1> QED
  BY <1>1, TimingInitially, TimingPreserved, PTL DEF Spec
=============================================================================
