-------------------------- MODULE HookRuntimeProofs --------------------------
(***************************************************************************)
(* Proofs about HookRuntime, for any number of threads, methods, slots and *)
(* nested dispatches, and for any scripts.                                 *)
(*                                                                         *)
(* HookInv is inductive. Its two halves meet nowhere: the slots, the       *)
(* thunks and the operation in progress change under INSTALL_GUARD only,   *)
(* and the REENTRY flags with their dispatches change on the stacks. A     *)
(* step of one half leaves the other alone, but for the flag that          *)
(* unpublish_slot clears.                                                  *)
(*                                                                         *)
(* Three more invariants stand on it, each under the conditions it needs:  *)
(* EntryInv (every method has one owner), HeldInv (a dispatch that still   *)
(* uses its context has a valid slot, unless another thread removes the    *)
(* hook meanwhile) and AnswerInv (every dispatch that no operation on its  *)
(* hook raced is on its way to an answer).                                 *)
(***************************************************************************)
EXTENDS HookRuntime, SequenceTheorems, TLAPS

\* The state of the slots: what an operation under INSTALL_GUARD relates.
SlotTypes ==
  /\ entry \in [Methods -> Entry]
  /\ thunk \in [Thunks -> 0..MaxHooks]
  /\ valid \in [Slots -> BOOLEAN]
  /\ ctx \in [Slots -> HookCtx]
  /\ op \in Op
  /\ crashed \in Crashes \cup {"no"}

\* The state of the dispatches.
StackTypes == reentry \in SUBSET Slots /\ stack \in [Threads -> Seq(Frame)]

SlotInv == SlotTypes /\ OpOwns /\ SlotsOwn
StackInv == StackTypes /\ ReentryNotStuck

(* HookInv in its two halves.                                              *)
LEMMA Halves == (HookInv <=> SlotInv /\ StackInv) /\ (HookInv' <=> SlotInv' /\ StackInv')
  BY DEF HookInv, SlotInv, StackInv, TypeOK, SlotTypes, StackTypes

-----------------------------------------------------------------------------
(* The active frame of a thread that is in a dispatch.                     *)
LEMMA TopIsFrame ==
  ASSUME StackTypes, NEW t \in Threads, stack[t] # <<>>
  PROVE  /\ Len(stack[t]) \in Nat \ {0}
         /\ Len(stack[t]) \in 1..Len(stack[t])
         /\ Top(t) \in Frame
<1>1. stack[t] \in Seq(Frame)
  BY DEF StackTypes
<1>2. Len(stack[t]) \in Nat \ {0}
  BY <1>1, EmptySeq, LenProperties, SMT
<1>3. Len(stack[t]) \in 1..Len(stack[t])
  BY <1>2
<1> QED
  BY <1>1, <1>2, <1>3, ElementOfSeq DEF Top

(* A flag that stays set keeps a dispatch inside, as long as the frames    *)
(* that were inside stay where they are.                                   *)
LEMMA FramesStay ==
  ASSUME StackInv, stack' \in [Threads -> Seq(Frame)], reentry' \subseteq reentry,
         \A u \in Threads : \A i \in 1..Len(stack[u]) :
           stack[u][i].pc \in Inside /\ stack[u][i].at \in reentry' =>
             /\ i \in 1..Len(stack'[u])
             /\ stack'[u][i].pc \in Inside /\ stack'[u][i].at = stack[u][i].at
  PROVE  StackInv'
<1>1. StackTypes'
  BY DEF StackInv, StackTypes
<1>2. ASSUME NEW s \in reentry'
      PROVE  \E t \in Threads : \E i \in 1..Len(stack'[t]) :
               stack'[t][i].at = s /\ stack'[t][i].pc \in Inside
  <2>1. PICK t \in Threads : \E i \in 1..Len(stack[t]) :
          stack[t][i].at = s /\ stack[t][i].pc \in Inside
    BY DEF StackInv, ReentryNotStuck
  <2>3. PICK i \in 1..Len(stack[t]) : stack[t][i].at = s /\ stack[t][i].pc \in Inside
    BY <2>1
  <2>2. i \in 1..Len(stack'[t]) /\ stack'[t][i].at = s /\ stack'[t][i].pc \in Inside
    BY <2>3
  <2> QED
    BY <2>2
<1>3. ReentryNotStuck'
  BY <1>2 DEF ReentryNotStuck
<1> QED
  BY <1>1, <1>3 DEF StackInv

(* Replacing the active frame.                                             *)
LEMMA TopReplaced ==
  ASSUME StackTypes, NEW t \in Threads, stack[t] # <<>>, NEW f \in Frame, SetTop(t, f)
  PROVE  /\ stack' \in [Threads -> Seq(Frame)]
         /\ Len(stack'[t]) = Len(stack[t])
         /\ stack'[t][Len(stack[t])] = f
         /\ \A i \in 1..Len(stack[t]) : i # Len(stack[t]) => stack'[t][i] = stack[t][i]
         /\ \A u \in Threads : u # t => stack'[u] = stack[u]
<1> DEFINE q == [stack[t] EXCEPT ![Len(stack[t])] = f]
<1>1. stack[t] \in Seq(Frame) /\ Len(stack[t]) \in 1..Len(stack[t])
  BY TopIsFrame DEF StackTypes
<1>2. /\ q \in Seq(Frame)
      /\ Len(q) = Len(stack[t])
      /\ \A j \in 1..Len(stack[t]) : q[j] = IF j = Len(stack[t]) THEN f ELSE stack[t][j]
  BY <1>1, ExceptSeq
<1>3. stack' = [stack EXCEPT ![t] = q]
  BY DEF SetTop
<1> HIDE DEF q
<1> QED
  BY <1>1, <1>2, <1>3 DEF StackTypes

(* A step of a dispatch that stays inside, or that was not inside, or that *)
(* clears its flag.                                                        *)
LEMMA DispatchMoves ==
  ASSUME StackInv, NEW t \in Threads, stack[t] # <<>>, NEW f \in Frame, SetTop(t, f),
         reentry' \subseteq reentry,
         Top(t).pc \in Inside /\ Top(t).at \in reentry' =>
           f.pc \in Inside /\ f.at = Top(t).at
  PROVE  StackInv'
<1>1. StackTypes
  BY DEF StackInv
<1>2. Len(stack[t]) \in 1..Len(stack[t])
  BY <1>1, TopIsFrame
<1>3. ASSUME NEW u \in Threads, NEW i \in 1..Len(stack[u]),
             stack[u][i].pc \in Inside, stack[u][i].at \in reentry'
      PROVE  /\ i \in 1..Len(stack'[u])
             /\ stack'[u][i].pc \in Inside /\ stack'[u][i].at = stack[u][i].at
  <2>1. CASE u # t
    BY <1>1, <1>3, <2>1, TopReplaced
  <2>2. CASE u = t /\ i = Len(stack[t])
    BY <1>1, <1>2, <1>3, <2>2, TopReplaced DEF Top
  <2>3. CASE u = t /\ i # Len(stack[t])
    BY <1>1, <1>3, <2>3, TopReplaced
  <2> QED
    BY <2>1, <2>2, <2>3
<1>4. stack' \in [Threads -> Seq(Frame)]
  BY <1>1, TopReplaced
<1> QED
  BY <1>3, <1>4, FramesStay

(* A new dispatch on top of a stack.                                       *)
LEMMA DispatchPushed ==
  ASSUME StackInv, NEW t \in Threads, NEW f \in Frame, UNCHANGED reentry,
         stack' = [stack EXCEPT ![t] = Append(@, f)]
  PROVE  StackInv'
<1>1. stack \in [Threads -> Seq(Frame)] /\ stack[t] \in Seq(Frame) /\ Len(stack[t]) \in Nat
  BY LenProperties DEF StackInv, StackTypes
<1>2. /\ Append(stack[t], f) \in Seq(Frame)
      /\ Len(Append(stack[t], f)) = Len(stack[t]) + 1
      /\ \A i \in 1..Len(stack[t]) : Append(stack[t], f)[i] = stack[t][i]
  BY <1>1, AppendProperties
<1>3. stack' \in [Threads -> Seq(Frame)]
  BY <1>1, <1>2
<1>4. ASSUME NEW u \in Threads, NEW i \in 1..Len(stack[u])
      PROVE  i \in 1..Len(stack'[u]) /\ stack'[u][i] = stack[u][i]
  BY <1>1, <1>2
<1> QED
  BY <1>3, <1>4, FramesStay

(* A new frame.                                                            *)
LEMMA NewFrameIsFrame ==
  ASSUME NEW k \in Thunks, NEW b \in BOOLEAN
  PROVE  NewFrame(k, b) \in Frame /\ NewFrame(k, b).pc = "thunk"
<1>1. (op.pc # "none" /\ op.thunk = k) \in BOOLEAN
  OBVIOUS
<1> QED
  BY <1>1, HooksAssumption DEF NewFrame, Frame, Pcs, Slots, Thunks

-----------------------------------------------------------------------------
(* The stack half.                                                         *)

(* A step that leaves the stacks alone and sets no flag, other than the    *)
(* one it clears with its dispatch gone, is a step of the slots.           *)
LEMMA StacksRest ==
  ASSUME StackInv, UNCHANGED stack, reentry' \subseteq reentry
  PROVE  StackInv'
<1>1. stack' \in [Threads -> Seq(Frame)]
  BY DEF StackInv, StackTypes
<1> QED
  BY <1>1, FramesStay

(* What the history of a removal leaves of every frame.                    *)
LEMMA RacedShape ==
  ASSUME StackTypes, NEW t \in Threads, NEW s \in Slots, MarkRaced(t, s)
  PROVE  /\ stack' \in [Threads -> Seq(Frame)]
         /\ stack'[t] = stack[t]
         /\ \A u \in Threads :
              /\ Len(stack'[u]) = Len(stack[u])
              /\ u # t => \A i \in 1..Len(stack[u]) :
                   stack'[u][i] = [stack[u][i] EXCEPT !.raced = @ \/ Needs(stack[u][i], s)]
<1> DEFINE g(u, i) == [stack[u][i] EXCEPT !.raced = @ \/ Needs(stack[u][i], s)]
           q(u) == [i \in 1..Len(stack[u]) |-> g(u, i)]
<1>1. ASSUME NEW u \in Threads
      PROVE  stack[u] \in Seq(Frame) /\ q(u) \in Seq(Frame) /\ Len(q(u)) = Len(stack[u])
  <2>1. stack[u] \in Seq(Frame) /\ Len(stack[u]) \in Nat
    BY LenProperties DEF StackTypes
  <2>2. \A i \in 1..Len(stack[u]) : stack[u][i] \in Frame
    BY <2>1, ElementOfSeq
  <2>3. ASSUME NEW i \in 1..Len(stack[u]) PROVE g(u, i) \in Frame
    <3>1. stack[u][i] \in Frame
      BY <2>2
    <3> DEFINE r == stack[u][i].raced \/ Needs(stack[u][i], s)
    <3>2. r \in BOOLEAN
      OBVIOUS
    <3>3. g(u, i) = [stack[u][i] EXCEPT !.raced = r]
      OBVIOUS
    <3> HIDE DEF r
    <3> QED
      BY <3>1, <3>2, <3>3 DEF Frame
  <2> HIDE DEF g
  <2>4. q(u) \in Seq(Frame)
    BY <2>1, <2>3, IsASeq
  <2>5. Len(q(u)) = Len(stack[u])
    BY <2>1, <2>4, LenProperties
  <2> QED
    BY <2>1, <2>4, <2>5
<1>2. stack' = [u \in Threads |-> IF u = t THEN stack[u] ELSE q(u)]
  BY DEF MarkRaced
<1>3. ASSUME NEW u \in Threads, u # t, NEW i \in 1..Len(stack[u])
      PROVE  stack'[u][i] = g(u, i)
  BY <1>2, <1>3
<1> HIDE DEF g, q
<1>4. stack' \in [Threads -> Seq(Frame)]
  BY <1>1, <1>2
<1>5. stack'[t] = stack[t] /\ \A u \in Threads : Len(stack'[u]) = Len(stack[u])
  BY <1>1, <1>2
<1> QED
  BY <1>3, <1>4, <1>5 DEF g

(* That history moves no dispatch.                                         *)
LEMMA RacedKeepsStacks ==
  ASSUME StackInv, NEW t \in Threads, NEW s \in Slots, MarkRaced(t, s), UNCHANGED reentry
  PROVE  StackInv'
<1>1. StackTypes
  BY DEF StackInv
<1>2. /\ stack' \in [Threads -> Seq(Frame)] /\ stack'[t] = stack[t]
      /\ \A u \in Threads :
           /\ Len(stack'[u]) = Len(stack[u])
           /\ u # t => \A i \in 1..Len(stack[u]) :
                stack'[u][i] = [stack[u][i] EXCEPT !.raced = @ \/ Needs(stack[u][i], s)]
  BY <1>1, RacedShape
<1>3. ASSUME NEW u \in Threads, NEW i \in 1..Len(stack[u])
      PROVE  /\ i \in 1..Len(stack'[u])
             /\ stack'[u][i].pc = stack[u][i].pc /\ stack'[u][i].at = stack[u][i].at
  <2>1. stack[u][i] \in Frame
    BY <1>1, ElementOfSeq DEF StackTypes
  <2>2. CASE u = t
    BY <1>2, <2>2
  <2>3. CASE u # t
    BY <1>2, <2>1, <2>3 DEF Frame
  <2> QED
    BY <2>2, <2>3
<1> QED
  BY <1>2, <1>3, FramesStay

(* The trampoline of a live context, run by the active frame.              *)
LEMMA TrampolineRuns ==
  ASSUME StackInv, NEW t \in Threads, stack[t] # <<>>, UNCHANGED reentry,
         NEW c \in HookCtx, NEW f \in Frame, f.pc = Top(t).pc, f.at = Top(t).at,
         RunTrampoline(t, c, f)
  PROVE  StackInv'
<1> DEFINE g == [f EXCEPT !.inside = TRUE]
           q == [stack[t] EXCEPT ![Len(stack[t])] = g]
<1>1. StackTypes /\ stack[t] \in Seq(Frame) /\ Len(stack[t]) \in 1..Len(stack[t])
  BY TopIsFrame DEF StackInv, StackTypes
<1>2. CASE c.saved = Original
  <2> DEFINE h == [f EXCEPT !.inside = TRUE, !.ran = TRUE]
  <2>1. h \in Frame /\ h.pc = Top(t).pc /\ h.at = Top(t).at
    BY DEF Frame
  <2>2. SetTop(t, h)
    BY <1>2 DEF RunTrampoline
  <2> HIDE DEF h
  <2> QED
    BY <2>1, <2>2, DispatchMoves
<1>3. CASE c.saved # Original
  <2>1. g \in Frame /\ g.pc = Top(t).pc /\ g.at = Top(t).at
    BY DEF Frame
  <2>2. /\ q \in Seq(Frame)
        /\ Len(q) = Len(stack[t])
        /\ \A j \in 1..Len(stack[t]) : q[j] = IF j = Len(stack[t]) THEN g ELSE stack[t][j]
    BY <1>1, <2>1, ExceptSeq
  <2>3. c.saved \in Thunks /\ stack' = [stack EXCEPT ![t] = Append(q, NewFrame(c.saved, TRUE))]
    BY <1>3 DEF RunTrampoline
  <2> DEFINE n == NewFrame(c.saved, TRUE)
  <2>4. n \in Frame
    BY <2>3, NewFrameIsFrame
  <2> HIDE DEF n, q, g
  <2>5. /\ Append(q, n) \in Seq(Frame)
        /\ Len(Append(q, n)) = Len(q) + 1
        /\ \A i \in 1..Len(q) : Append(q, n)[i] = q[i]
    BY <2>2, <2>4, AppendProperties
  <2>6. stack' \in [Threads -> Seq(Frame)] /\ stack'[t] = Append(q, n)
    BY <1>1, <2>3, <2>5 DEF StackTypes, n
  <2>7. ASSUME NEW u \in Threads, NEW i \in 1..Len(stack[u])
        PROVE  /\ i \in 1..Len(stack'[u])
               /\ stack'[u][i].pc = stack[u][i].pc /\ stack'[u][i].at = stack[u][i].at
    <3>1. CASE u # t
      BY <1>1, <2>3, <3>1 DEF StackTypes
    <3>2. CASE u = t
      <4>1. i \in 1..Len(stack'[t]) /\ stack'[t][i] = q[i]
        BY <1>1, <2>2, <2>5, <2>6, <3>2
      <4>2. q[i].pc = stack[t][i].pc /\ q[i].at = stack[t][i].at
        BY <1>1, <2>1, <2>2, <3>2 DEF Top
      <4> QED
        BY <4>1, <4>2, <3>2
    <3> QED
      BY <3>1, <3>2
  <2> QED
    BY <2>6, <2>7, FramesStay
<1> QED
  BY <1>2, <1>3

(* What a return leaves on the stack: the frames below, one of which may   *)
(* have been told that the original ran.                                   *)
LEMMA ReturnShape ==
  ASSUME StackTypes, NEW t \in Threads, Return(t)
  PROVE  \E q \in Seq(Frame) :
           /\ stack' = [stack EXCEPT ![t] = q]
           /\ Len(q) = Len(stack[t]) - 1
           /\ \A i \in 1..Len(q) :
                /\ q[i].pc = stack[t][i].pc /\ q[i].at = stack[t][i].at
                /\ q[i].inside = stack[t][i].inside /\ q[i].raced = stack[t][i].raced
                /\ ~Top(t).chained => q[i] = stack[t][i]
<1> DEFINE n == Len(stack[t])
           f == stack[t][n]
           rest == SubSeq(stack[t], 1, n - 1)
           b == [rest[n - 1] EXCEPT !.ran = @ \/ f.ran \/ f.ret]
           chained == [rest EXCEPT ![n - 1] = b]
<1>1. /\ stack[t] # <<>> /\ stack[t] \in Seq(Frame)
      /\ n \in Nat \ {0} /\ f \in Frame
  BY TopIsFrame DEF StackTypes, Return, At, Top
<1>2. \A i \in 1..(n - 1) : stack[t][i] \in Frame
  BY <1>1, ElementOfSeq
<1>3. /\ rest \in Seq(Frame)
      /\ Len(rest) = n - 1
      /\ \A i \in 1..(n - 1) : rest[i] = stack[t][i]
  <2> HIDE DEF n
  <2> QED
    BY <1>1, <1>2, SubSeqProperties
<1>4. stack' = [stack EXCEPT ![t] = IF f.chained THEN chained ELSE rest]
  BY DEF Return, Top
<1>5. n > 1 => /\ chained \in Seq(Frame)
               /\ Len(chained) = n - 1
               /\ \A i \in 1..(n - 1) : chained[i] = IF i = n - 1 THEN b ELSE rest[i]
  <2> SUFFICES ASSUME n > 1
               PROVE  /\ chained \in Seq(Frame)
                      /\ Len(chained) = n - 1
                      /\ \A i \in 1..(n - 1) : chained[i] = IF i = n - 1 THEN b ELSE rest[i]
    OBVIOUS
  <2>1. n - 1 \in 1..Len(rest) /\ rest[n - 1] \in Frame
    BY <1>1, <1>2, <1>3
  <2>2. b \in Frame
    BY <1>1, <2>1 DEF Frame
  <2> HIDE DEF b, rest, n
  <2> QED
    BY <1>3, <2>1, <2>2, ExceptSeq
<1>6. n = 1 => chained = rest
  <2> SUFFICES ASSUME n = 1 PROVE chained = rest
    OBVIOUS
  <2>1. rest = <<>>
    BY <1>3, EmptySeq
  <2> QED
    BY <2>1
<1> DEFINE q == IF f.chained THEN chained ELSE rest
<1>7. /\ q \in Seq(Frame)
      /\ Len(q) = n - 1
      /\ \A i \in 1..(n - 1) : /\ q[i].pc = stack[t][i].pc /\ q[i].at = stack[t][i].at
                               /\ q[i].inside = stack[t][i].inside
                               /\ q[i].raced = stack[t][i].raced
                               /\ ~f.chained => q[i] = stack[t][i]
  <2>1. n - 1 \in 1..(n - 1) => /\ b.pc = stack[t][n - 1].pc /\ b.at = stack[t][n - 1].at
                                /\ b.inside = stack[t][n - 1].inside
                                /\ b.raced = stack[t][n - 1].raced
    BY <1>2, <1>3 DEF Frame
  <2> HIDE DEF b, rest, n, chained, f
  <2> QED
    BY <1>1, <1>3, <1>5, <1>6, <2>1
<1>8. f = Top(t)
  BY DEF Top
<1>9. stack' = [stack EXCEPT ![t] = q]
  BY <1>4
<1> HIDE DEF q, n, f
<1> QED
  BY <1>7, <1>8, <1>9 DEF n

(* A dispatch that returns leaves the stack, and it was not inside.        *)
LEMMA DispatchReturns ==
  ASSUME StackInv, NEW t \in Threads, Return(t)
  PROVE  StackInv'
<1>1. /\ StackTypes /\ stack[t] # <<>> /\ Len(stack[t]) \in Nat \ {0}
      /\ Top(t).pc = "done" /\ reentry' \subseteq reentry
  BY TopIsFrame DEF StackInv, Return, At
<1>2. PICK q \in Seq(Frame) :
        /\ stack' = [stack EXCEPT ![t] = q]
        /\ Len(q) = Len(stack[t]) - 1
        /\ \A i \in 1..Len(q) : q[i].pc = stack[t][i].pc /\ q[i].at = stack[t][i].at
  BY <1>1, ReturnShape
<1>3. /\ stack' \in [Threads -> Seq(Frame)] /\ stack'[t] = q
      /\ \A u \in Threads : u # t => stack'[u] = stack[u]
  BY <1>1, <1>2 DEF StackTypes
<1>4. ASSUME NEW u \in Threads, NEW i \in 1..Len(stack[u]),
             stack[u][i].pc \in Inside, stack[u][i].at \in reentry'
      PROVE  /\ i \in 1..Len(stack'[u])
             /\ stack'[u][i].pc \in Inside /\ stack'[u][i].at = stack[u][i].at
  <2>1. CASE u # t
    BY <1>3, <1>4, <2>1
  <2>2. CASE u = t
    <3>1. i # Len(stack[t])
      BY <1>1, <1>4, <2>2 DEF Inside, Top
    <3>2. i \in 1..Len(q)
      BY <1>1, <1>2, <2>2, <3>1
    <3> QED
      BY <1>2, <1>3, <1>4, <2>2, <3>2
  <2> QED
    BY <2>1, <2>2
<1> QED
  BY <1>1, <1>3, <1>4, FramesStay

(* The steps of a dispatch that only move its frame on.                    *)
LEMMA FrameMoves ==
  ASSUME StackInv, NEW t \in Threads, stack[t] # <<>>, NEW pc \in Pcs, Goto(t, pc),
         reentry' \subseteq reentry,
         Top(t).pc \in Inside /\ Top(t).at \in reentry' => pc \in Inside
  PROVE  StackInv'
<1> DEFINE f == [Top(t) EXCEPT !.pc = pc]
<1>1. Top(t) \in Frame
  BY TopIsFrame DEF StackInv
<1>2. f \in Frame /\ f.pc = pc /\ f.at = Top(t).at
  BY <1>1 DEF Frame
<1>3. SetTop(t, f)
  BY DEF Goto
<1> HIDE DEF f
<1> QED
  BY <1>2, <1>3, DispatchMoves

(* try_enter_reentry sets the flag of the slot that its dispatch enters.   *)
LEMMA FlagIsSet ==
  ASSUME StackInv, NEW t \in Threads, stack[t] # <<>>, Top(t).pc = "enter",
         NEW pc \in {"call", "bypass"}, Goto(t, pc), reentry' = reentry \cup {Top(t).at}
  PROVE  StackInv'
<1> DEFINE f == [Top(t) EXCEPT !.pc = pc]
           n == Len(stack[t])
<1>1. StackTypes /\ Top(t) \in Frame /\ n \in 1..n
  BY TopIsFrame DEF StackInv
<1>2. f \in Frame /\ f.pc \in Inside /\ f.at = Top(t).at
  BY <1>1 DEF Frame, Inside, Pcs
<1>3. SetTop(t, f)
  BY DEF Goto
<1> HIDE DEF f
<1>4. /\ stack' \in [Threads -> Seq(Frame)]
      /\ Len(stack'[t]) = n
      /\ stack'[t][n] = f
      /\ \A i \in 1..n : i # n => stack'[t][i] = stack[t][i]
      /\ \A u \in Threads : u # t => stack'[u] = stack[u]
  BY <1>1, <1>2, <1>3, TopReplaced
<1>5. reentry' \in SUBSET Slots
  BY <1>1 DEF StackTypes, Frame
<1>6. ASSUME NEW s \in reentry'
      PROVE  \E u \in Threads : \E i \in 1..Len(stack'[u]) :
               stack'[u][i].at = s /\ stack'[u][i].pc \in Inside
  <2>1. CASE s = Top(t).at
    BY <1>1, <1>2, <1>4, <2>1
  <2>2. CASE s # Top(t).at
    <3>1. PICK u \in Threads : \E i \in 1..Len(stack[u]) :
            stack[u][i].at = s /\ stack[u][i].pc \in Inside
      BY <2>2 DEF StackInv, ReentryNotStuck
    <3>2. PICK i \in 1..Len(stack[u]) : stack[u][i].at = s /\ stack[u][i].pc \in Inside
      BY <3>1
    <3>3. CASE u # t
      BY <1>4, <3>2, <3>3
    <3>4. CASE u = t
      <4>1. i # n
        BY <2>2, <3>2, <3>4 DEF Top
      <4>2. stack'[u][i] = stack[u][i] /\ i \in 1..Len(stack'[u])
        BY <1>4, <3>4, <4>1
      <4> QED
        BY <3>2, <4>2
    <3> QED
      BY <3>3, <3>4
  <2> QED
    BY <2>1, <2>2
<1> QED
  BY <1>4, <1>5, <1>6 DEF StackInv, StackTypes, ReentryNotStuck

(* Every step of a dispatch keeps the stack half.                          *)
LEMMA DispatchKeepsStacks ==
  ASSUME HookInv, NEW t \in Threads, DispatchStep(t)
  PROVE  StackInv'
<1>1. SlotTypes /\ StackInv /\ StackTypes
  BY Halves DEF SlotInv, StackInv
<1>2. ASSUME NEW pc, At(t, pc)
      PROVE  stack[t] # <<>> /\ Top(t).pc = pc /\ Top(t) \in Frame
  BY <1>1, <1>2, TopIsFrame DEF At
<1>3. CASE EnterShim(t)
  <2> DEFINE f == [Top(t) EXCEPT !.pc = "lookup", !.at = thunk[Top(t).at]]
  <2>1. At(t, "thunk") /\ SetTop(t, f) /\ UNCHANGED reentry /\ thunk[Top(t).at] # 0
    BY <1>3 DEF EnterShim
  <2>2. stack[t] # <<>> /\ Top(t).pc = "thunk" /\ Top(t) \in Frame
    BY <1>2, <2>1
  <2>3. thunk[Top(t).at] \in Slots
    BY <1>1, <2>1, <2>2, HooksAssumption DEF SlotTypes, Frame, Slots, Thunks
  <2>4. f \in Frame
    BY <2>2, <2>3 DEF Frame, Pcs
  <2> HIDE DEF f
  <2> QED
    BY <1>1, <2>1, <2>2, <2>4, DispatchMoves DEF Inside
<1>4. CASE EnterInt3(t) \/ ReplayFreed(t)
  <2>1. UNCHANGED stack /\ reentry' \subseteq reentry
    BY <1>4 DEF EnterInt3, ReplayFreed, CrashOf, Crash
  <2> QED
    BY <1>1, <2>1, StacksRest
<1>5. CASE CtxFor(t)
  <2>1. PICK pc \in {"enter", "done"} : At(t, "lookup") /\ Goto(t, pc) /\ UNCHANGED reentry
    BY <1>5 DEF CtxFor
  <2> QED
    BY <1>1, <1>2, <2>1, FrameMoves DEF Inside, Pcs
<1>6. CASE TryEnter(t)
  <2>1. At(t, "enter") /\ stack[t] # <<>> /\ Top(t).pc = "enter"
    BY <1>2, <1>6 DEF TryEnter
  <2>2. CASE Top(t).at \in reentry
    <3>1. Goto(t, "replay") /\ reentry' \subseteq reentry
      BY <1>6, <2>2 DEF TryEnter
    <3> QED
      BY <1>1, <2>1, <3>1, FrameMoves DEF Inside, Pcs
  <2>3. CASE Top(t).at \notin reentry
    <3>1. PICK pc \in {"call", "bypass"} : Goto(t, pc) /\ reentry' = reentry \cup {Top(t).at}
      BY <1>6, <2>3 DEF TryEnter
    <3> QED
      BY <1>1, <2>1, <3>1, FlagIsSet
  <2> QED
    BY <2>2, <2>3
<1>7. CASE HandlerStarts(t)
  <2> DEFINE f == [Top(t) EXCEPT !.pc = "handler", !.method = ctx[Top(t).at].method]
  <2>1. At(t, "call") /\ SetTop(t, f) /\ UNCHANGED reentry
    BY <1>7 DEF HandlerStarts
  <2>2. stack[t] # <<>> /\ Top(t).pc = "call" /\ Top(t) \in Frame
    BY <1>2, <2>1
  <2>3. ctx[Top(t).at].method \in Methods \cup {NoOne}
    BY <1>1, <2>2 DEF SlotTypes, HookCtx, Frame
  <2>4. f \in Frame /\ f.at = Top(t).at /\ f.pc \in Inside
    BY <2>2, <2>3 DEF Frame, Pcs, Inside
  <2> HIDE DEF f
  <2> QED
    BY <1>1, <2>1, <2>2, <2>4, DispatchMoves
<1>8. CASE HandlerSkipped(t)
  <2>1. At(t, "call") /\ Goto(t, "observe") /\ UNCHANGED reentry
    BY <1>8 DEF HandlerSkipped
  <2> QED
    BY <1>1, <1>2, <2>1, FrameMoves DEF Inside, Pcs
<1>9. CASE HandlerEnds(t)
  <2>1. PICK pc \in {"clear", "observe"} : At(t, "handler") /\ Goto(t, pc) /\ UNCHANGED reentry
    BY <1>9 DEF HandlerEnds
  <2> QED
    BY <1>1, <1>2, <2>1, FrameMoves DEF Inside, Pcs
<1>10. CASE SetReturn(t)
  <2> DEFINE f == [Top(t) EXCEPT !.ret = TRUE]
  <2>1. At(t, "handler") /\ SetTop(t, f) /\ UNCHANGED reentry
    BY <1>10 DEF SetReturn
  <2>2. stack[t] # <<>> /\ Top(t).pc = "handler" /\ Top(t) \in Frame
    BY <1>2, <2>1
  <2>3. f \in Frame /\ f.at = Top(t).at /\ f.pc \in Inside
    BY <2>2 DEF Frame, Inside
  <2> HIDE DEF f
  <2> QED
    BY <1>1, <2>1, <2>2, <2>3, DispatchMoves
<1>11. CASE CallOriginal(t)
  <2> DEFINE f == [Top(t) EXCEPT !.called = TRUE]
  <2>1. PICK s \in Slots : At(t, "handler") /\ RunTrampoline(t, ctx[s], f) /\ UNCHANGED reentry
    BY <1>11 DEF CallOriginal
  <2>2. stack[t] # <<>> /\ Top(t) \in Frame /\ ctx[s] \in HookCtx
    BY <1>1, <1>2, <2>1 DEF SlotTypes
  <2>3. f \in Frame /\ f.at = Top(t).at /\ f.pc = Top(t).pc
    BY <2>2 DEF Frame
  <2> HIDE DEF f
  <2> QED
    BY <1>1, <2>1, <2>2, <2>3, TrampolineRuns
<1>12. CASE Replay(t)
  <2>1. stack[t] # <<>> /\ Top(t) \in Frame
    BY <1>2, <1>12 DEF Replay, AtReplay
  <2>2. ctx[Top(t).at] \in HookCtx
    BY <1>1, <2>1 DEF SlotTypes, Frame
  <2>3. RunTrampoline(t, ctx[Top(t).at], Top(t)) /\ UNCHANGED reentry
    BY <1>12 DEF Replay
  <2> QED
    BY <1>1, <2>1, <2>2, <2>3, TrampolineRuns
<1>13. CASE TrampolineReturns(t)
  <2> DEFINE g == [Top(t) EXCEPT !.inside = FALSE]
             pc == CASE g.pc = "observe" -> "clear"
                     [] g.pc \in {"replay", "bypass"} -> "done"
                     [] OTHER -> g.pc
             f == [g EXCEPT !.pc = pc]
  <2>1. stack[t] # <<>> /\ SetTop(t, f)
        /\ reentry' = IF Top(t).pc = "bypass" THEN reentry \ {Top(t).at} ELSE reentry
    BY <1>13 DEF TrampolineReturns
  <2>2. Top(t) \in Frame
    BY <1>1, <2>1, TopIsFrame
  <2>3. g \in Frame /\ g.pc = Top(t).pc /\ g.at = Top(t).at
    BY <2>2 DEF Frame
  <2>4. /\ pc \in Pcs
        /\ g.pc \in Inside /\ g.pc # "bypass" => pc \in Inside
    <3> HIDE DEF g
    <3> QED
      BY <2>3 DEF Frame, Pcs, Inside
  <2>5. f \in Frame /\ f.pc = pc /\ f.at = Top(t).at
    <3> HIDE DEF g, pc
    <3> QED
      BY <2>3, <2>4 DEF Frame
  <2>6. reentry' \subseteq reentry
        /\ (Top(t).pc \in Inside /\ Top(t).at \in reentry' => f.pc \in Inside)
    <3> HIDE DEF g, pc, f
    <3> QED
      BY <2>1, <2>3, <2>4, <2>5
  <2> HIDE DEF f
  <2> QED
    BY <1>1, <2>1, <2>5, <2>6, DispatchMoves
<1>14. CASE ClearReentry(t)
  <2>1. At(t, "clear") /\ Goto(t, "piggyback") /\ reentry' = reentry \ {Top(t).at}
    BY <1>14 DEF ClearReentry
  <2> QED
    BY <1>1, <1>2, <2>1, FrameMoves DEF Pcs
<1>15. CASE PiggybackEnds(t)
  <2>1. At(t, "piggyback") /\ Goto(t, "done") /\ UNCHANGED reentry
    BY <1>15 DEF PiggybackEnds
  <2> QED
    BY <1>1, <1>2, <2>1, FrameMoves DEF Inside, Pcs
<1>16. CASE Return(t)
  BY <1>1, <1>16, DispatchReturns
<1> QED
  BY <1>3, <1>4, <1>5, <1>6, <1>7, <1>8, <1>9, <1>10, <1>11, <1>12, <1>13, <1>14, <1>15, <1>16
  DEF DispatchStep

-----------------------------------------------------------------------------
(* The slot half.                                                          *)

(* A step outside INSTALL_GUARD leaves the slots alone.                    *)
LEMMA SlotsRest ==
  ASSUME SlotInv, UNCHANGED slotVars, crashed' \in Crashes \cup {"no"}
  PROVE  SlotInv'
  BY DEF SlotInv, SlotTypes, OpOwns, SlotsOwn, slotVars

(* What the operation in progress owns.                                    *)
LEMMA OpFields ==
  ASSUME SlotInv, op.pc # "none"
  PROVE  /\ op \in Op /\ op.by \in Threads /\ op.slot \in Slots /\ op.thunk \in Thunks
         /\ op.method \in Methods /\ op.saved \in Entry
         /\ ~valid[op.slot] /\ thunk[op.thunk] = op.slot
         /\ op.pc \in Removing \cup {"valid"} => ctx[op.slot].thunk = op.thunk
         /\ op.pc = "valid" => ctx[op.slot].method = op.method
         /\ ctx[op.slot].live <=> op.pc \in {"valid", "restore", "rewrite"}
  BY DEF SlotInv, SlotTypes, OpOwns, Op

(* The operation moves on to another of its steps, and the slots with      *)
(* their thunks stay as they are.                                          *)
LEMMA OpMoves ==
  ASSUME SlotInv, op.pc # "none", NEW pc \in OpPcs, NEW saved \in Entry,
         pc \notin {"none", "valid"}, op' = [op EXCEPT !.pc = pc, !.saved = saved],
         entry' \in [Methods -> Entry], ctx' \in [Slots -> HookCtx],
         \A s \in Slots : ctx'[s].thunk = ctx[s].thunk /\ ctx'[s].method = ctx[s].method,
         \A s \in Slots : s # op.slot => ctx'[s].live = ctx[s].live,
         ctx'[op.slot].live <=> pc \in {"restore", "rewrite"},
         pc \in Removing => op.pc \in Removing,
         UNCHANGED <<thunk, valid, crashed>>
  PROVE  SlotInv'
<1>1. /\ op \in Op /\ op.by \in Threads /\ op.slot \in Slots /\ op.thunk \in Thunks
      /\ op.method \in Methods /\ ~valid[op.slot] /\ thunk[op.thunk] = op.slot
      /\ op.pc \in Removing => ctx[op.slot].thunk = op.thunk
  BY OpFields
<1>2. /\ op' \in Op /\ op'.pc = pc /\ op'.by = op.by /\ op'.slot = op.slot
      /\ op'.thunk = op.thunk /\ op'.method = op.method
  BY <1>1 DEF Op
<1>3. SlotTypes'
  BY <1>2 DEF SlotInv, SlotTypes
<1>4. OpOwns'
  BY <1>1, <1>2 DEF OpOwns
<1>5. SlotsOwn'
  <2>1. \A k \in Thunks : thunk[k] # 0 => thunk[k] \in Slots
    BY HooksAssumption DEF SlotInv, SlotTypes, Slots
  <2>2. \A s \in Slots : valid[s] => s # op.slot
    BY <1>1
  <2> QED
    BY <1>1, <1>2, <2>1, <2>2 DEF SlotInv, SlotsOwn
<1> QED
  BY <1>3, <1>4, <1>5 DEF SlotInv

(* The operation ends, its thunk freed.                                    *)
LEMMA OpEnds ==
  ASSUME SlotInv, op.pc \in {"patch", "free"}, op' = NoOp,
         thunk' = [thunk EXCEPT ![op.thunk] = 0], UNCHANGED <<entry, valid, ctx, crashed>>
  PROVE  SlotInv'
<1>1. /\ op.slot \in Slots /\ op.thunk \in Thunks
      /\ ~valid[op.slot] /\ thunk[op.thunk] = op.slot /\ ~ctx[op.slot].live
  BY OpFields
<1>2. op'.pc = "none" /\ op'.by = NoOne /\ NoOp \in Op
  BY HooksAssumption DEF NoOp, Op, OpPcs, Original, Entry
<1>3. SlotTypes'
  BY <1>1, <1>2, HooksAssumption DEF SlotInv, SlotTypes
<1>4. \A k \in Thunks : thunk'[k] = IF k = op.thunk THEN 0 ELSE thunk[k]
  BY <1>1 DEF SlotInv, SlotTypes
<1>5. \A s \in Slots : valid[s] => ctx[s].thunk \in Thunks /\ ctx[s].thunk # op.thunk
  BY <1>1 DEF SlotInv, SlotTypes, SlotsOwn, HookCtx
<1>6. SlotsOwn'
  BY <1>1, <1>2, <1>4, <1>5 DEF SlotInv, SlotsOwn
<1> QED
  BY <1>2, <1>3, <1>6 DEF SlotInv, OpOwns

(* install_hook takes a slot that is not valid and a thunk that is free.   *)
LEMMA InstallKeepsSlots ==
  ASSUME SlotInv, NEW t \in Threads, NEW m \in Methods, InstallBegins(t, m)
  PROVE  SlotInv'
<1>1. PICK s \in Slots, k \in Thunks :
        /\ ~valid[s] /\ thunk[k] = 0 /\ op.pc = "none"
        /\ thunk' = [thunk EXCEPT ![k] = s]
        /\ op' = [NoOp EXCEPT !.pc = "patch", !.by = t, !.slot = s, !.thunk = k, !.method = m]
        /\ UNCHANGED <<entry, valid, ctx, crashed>>
  BY DEF InstallBegins, MayChangeHooks, Lowest, alloc_slot, emit_thunk
<1>2. /\ op' \in Op /\ op'.pc = "patch" /\ op'.by = t /\ op'.slot = s
      /\ op'.thunk = k /\ op'.method = m
  <2>1. op' = [pc |-> "patch", by |-> t, slot |-> s, thunk |-> k, method |-> m,
               saved |-> Original]
    BY <1>1 DEF NoOp
  <2>2. s \in 0..MaxHooks /\ k \in 0..MaxHooks /\ Original \in Entry
    BY HooksAssumption DEF Slots, Thunks, Original, Entry
  <2> QED
    BY <2>1, <2>2 DEF Op, OpPcs
<1>3. \A j \in Thunks : thunk'[j] = IF j = k THEN s ELSE thunk[j]
  BY <1>1 DEF SlotInv, SlotTypes
<1>4. SlotTypes'
  BY <1>1, <1>2, HooksAssumption DEF SlotInv, SlotTypes, Slots
<1>5. ~ctx[s].live
  BY <1>1 DEF SlotInv, SlotsOwn
<1>6. \A r \in Slots : valid[r] => ctx[r].thunk \in Thunks /\ ctx[r].thunk # k
  BY <1>1, HooksAssumption DEF SlotInv, SlotTypes, SlotsOwn, HookCtx, Slots
<1>7. OpOwns'
  BY <1>1, <1>2, <1>3, <1>5 DEF OpOwns, Removing
<1>8. SlotsOwn'
  BY <1>1, <1>2, <1>3, <1>5, <1>6 DEF SlotInv, SlotsOwn
<1> QED
  BY <1>4, <1>7, <1>8 DEF SlotInv

(* publish_slot writes the context of the slot, then makes it valid.       *)
LEMMA PublishKeepsSlots ==
  ASSUME SlotInv, PublishSlot
  PROVE  SlotInv'
<1>0. /\ op.pc \in {"publish", "valid"} /\ op \in Op /\ UNCHANGED <<entry, thunk, crashed>>
      /\ op.slot \in Slots /\ op.thunk \in Thunks /\ op.method \in Methods
      /\ op.saved \in Entry /\ ~valid[op.slot] /\ thunk[op.thunk] = op.slot
  BY OpFields DEF PublishSlot
<1>1. \A k \in Thunks : thunk[k] # 0 => thunk[k] \in Slots
  BY HooksAssumption DEF SlotInv, SlotTypes, Slots
<1>2. CASE op.pc = "publish"
  <2> DEFINE c == [method |-> op.method, thunk |-> op.thunk, saved |-> op.saved, live |-> TRUE]
  <2>1. ctx' = [ctx EXCEPT ![op.slot] = c] /\ op' = [op EXCEPT !.pc = "valid"] /\ UNCHANGED valid
    BY <1>2 DEF PublishSlot
  <2>2. c \in HookCtx /\ c.live /\ c.thunk = op.thunk /\ c.method = op.method
    BY <1>0 DEF HookCtx
  <2> HIDE DEF c
  <2>3. /\ op' \in Op /\ op'.pc = "valid" /\ op'.by = op.by /\ op'.slot = op.slot
        /\ op'.thunk = op.thunk /\ op'.method = op.method
    BY <1>0, <2>1 DEF Op, OpPcs
  <2>4. ctx' \in [Slots -> HookCtx] /\ \A s \in Slots : ctx'[s] = IF s = op.slot THEN c ELSE ctx[s]
    BY <2>1, <2>2 DEF SlotInv, SlotTypes
  <2>5. SlotTypes'
    BY <1>0, <2>1, <2>3, <2>4 DEF SlotInv, SlotTypes
  <2>6. op.by \in Threads
    BY <1>2, OpFields
  <2>7. OpOwns'
    BY <1>0, <2>1, <2>2, <2>3, <2>4, <2>6 DEF OpOwns
  <2>8. SlotsOwn'
    <3>1. \A s \in Slots : valid[s] => s # op.slot
      BY <1>0
    <3> QED
      BY <1>0, <1>1, <2>1, <2>3, <2>4, <3>1 DEF SlotInv, SlotsOwn
  <2> QED
    BY <2>5, <2>7, <2>8 DEF SlotInv
<1>3. CASE op.pc = "valid"
  <2>1. valid' = [valid EXCEPT ![op.slot] = TRUE] /\ op' = NoOp /\ UNCHANGED ctx
    BY <1>3 DEF PublishSlot
  <2>2. ctx[op.slot].live /\ ctx[op.slot].thunk = op.thunk /\ ctx[op.slot].method = op.method
    BY <1>3, OpFields
  <2>3. op'.pc = "none" /\ op'.by = NoOne /\ NoOp \in Op
    BY <2>1, HooksAssumption DEF NoOp, Op, OpPcs, Original, Entry
  <2>4. valid' \in [Slots -> BOOLEAN] /\ \A s \in Slots : valid'[s] <=> s = op.slot \/ valid[s]
    BY <1>0, <2>1 DEF SlotInv, SlotTypes
  <2>5. SlotTypes'
    BY <1>0, <2>1, <2>3, <2>4 DEF SlotInv, SlotTypes
  <2>6. SlotsOwn'
    BY <1>0, <1>1, <2>1, <2>2, <2>3, <2>4 DEF SlotInv, SlotsOwn
  <2> QED
    BY <2>3, <2>5, <2>6 DEF SlotInv, OpOwns
<1> QED
  BY <1>0, <1>2, <1>3

(* remove_hook takes a valid slot with its context and its thunk.          *)
LEMMA UnpublishKeepsSlots ==
  ASSUME SlotInv, NEW t \in Threads, NEW s \in Slots, Unpublish(t, s)
  PROVE  SlotInv'
<1>1. /\ op.pc = "none" /\ valid[s] /\ valid' = [valid EXCEPT ![s] = FALSE]
      /\ op' = [NoOp EXCEPT !.pc = "restore", !.by = t, !.slot = s,
                            !.thunk = ctx[s].thunk, !.method = ctx[s].method]
      /\ UNCHANGED <<entry, thunk, ctx, crashed>>
  BY DEF Unpublish, MayChangeHooks
<1>2. /\ ctx[s].live /\ ctx[s].thunk \in Thunks /\ thunk[ctx[s].thunk] = s
      /\ ctx[s].method \in Methods
  BY <1>1 DEF SlotInv, SlotTypes, SlotsOwn, HookCtx
<1>3. /\ op' \in Op /\ op'.pc = "restore" /\ op'.by = t /\ op'.slot = s
      /\ op'.thunk = ctx[s].thunk /\ op'.method = ctx[s].method
  <2>1. op' = [pc |-> "restore", by |-> t, slot |-> s, thunk |-> ctx[s].thunk,
               method |-> ctx[s].method, saved |-> Original]
    BY <1>1 DEF NoOp
  <2>2. s \in 0..MaxHooks /\ ctx[s].thunk \in 0..MaxHooks /\ Original \in Entry
    BY <1>2, HooksAssumption DEF Slots, Thunks, Original, Entry
  <2> QED
    BY <1>2, <2>1, <2>2 DEF Op, OpPcs
<1>4. \A r \in Slots : valid'[r] = IF r = s THEN FALSE ELSE valid[r]
  BY <1>1 DEF SlotInv, SlotTypes
<1>5. SlotTypes'
  BY <1>1, <1>3 DEF SlotInv, SlotTypes
<1>6. OpOwns'
  BY <1>1, <1>2, <1>3, <1>4 DEF OpOwns
<1>7. SlotsOwn'
  <2>1. ASSUME NEW k \in Thunks, thunk[k] # 0, k # ctx[s].thunk
        PROVE  valid'[thunk[k]] /\ ctx[thunk[k]].thunk = k
    <3>1. thunk[k] \in Slots
      BY <2>1, HooksAssumption DEF SlotInv, SlotTypes, Slots
    <3> QED
      BY <1>1, <1>4, <2>1, <3>1 DEF SlotInv, SlotsOwn
  <2> QED
    BY <1>1, <1>2, <1>3, <1>4, <2>1 DEF SlotInv, SlotsOwn
<1> QED
  BY <1>5, <1>6, <1>7 DEF SlotInv

(* Every step of an operation in progress keeps the slot half.             *)
LEMMA GuardKeepsSlots ==
  ASSUME SlotInv, GuardStep
  PROVE  SlotInv'
<1>0. op \in Op /\ SlotTypes
  BY DEF SlotInv, SlotTypes
<1>1. CASE PatchFails
  BY <1>1, OpEnds DEF PatchFails, free_thunk
<1>2. CASE PatchBegins
  <2>1. op.pc = "patch" /\ op' = [op EXCEPT !.pc = "write", !.saved = entry[op.method]]
    BY <1>2 DEF PatchBegins
  <2>2. entry[op.method] \in Entry /\ entry' \in [Methods -> Entry] /\ ~ctx[op.slot].live
    BY <1>0, <1>2, <2>1, OpFields, HooksAssumption DEF PatchBegins, SlotTypes, Torn, Entry
  <2> QED
    BY <1>0, <1>2, <2>1, <2>2, OpMoves DEF PatchBegins, SlotTypes, OpPcs, Removing
<1>3. CASE PatchDone
  <2>1. op.pc = "write" /\ op' = [op EXCEPT !.pc = "publish", !.saved = op.saved]
    BY <1>0, <1>3 DEF PatchDone, Op
  <2>2. op.saved \in Entry /\ entry' \in [Methods -> Entry] /\ ~ctx[op.slot].live
    BY <1>0, <1>3, <2>1, OpFields, HooksAssumption DEF PatchDone, SlotTypes, Thunks, Entry
  <2> QED
    BY <1>0, <1>3, <2>1, <2>2, OpMoves DEF PatchDone, SlotTypes, OpPcs, Removing
<1>4. CASE PublishSlot
  BY <1>4, PublishKeepsSlots
<1>5. CASE RestoreBegins
  <2>1. op.pc = "restore" /\ op' = [op EXCEPT !.pc = "rewrite", !.saved = op.saved]
    BY <1>0, <1>5 DEF RestoreBegins, Op
  <2>2. op.saved \in Entry /\ entry' \in [Methods -> Entry] /\ ctx[op.slot].live
    BY <1>0, <1>5, <2>1, OpFields, HooksAssumption DEF RestoreBegins, SlotTypes, Torn, Entry
  <2> QED
    BY <1>0, <1>5, <2>1, <2>2, OpMoves DEF RestoreBegins, SlotTypes, OpPcs, Removing
<1>6. CASE RestoreFails \/ RestoreDone
  <2>1. /\ op.pc \in {"restore", "rewrite"} /\ UNCHANGED <<thunk, valid, crashed>>
        /\ op' = [op EXCEPT !.pc = "unflag", !.saved = op.saved]
        /\ ctx' = [ctx EXCEPT ![op.slot] = [ctx[op.slot] EXCEPT !.live = FALSE]]
    BY <1>0, <1>6 DEF RestoreFails, RestoreDone, Op
  <2>2. op.slot \in Slots /\ op.saved \in Entry /\ ctx[op.slot] \in HookCtx
    BY <1>0, <2>1, OpFields DEF SlotTypes
  <2>3. entry' \in [Methods -> Entry]
    BY <1>0, <1>6, <2>2 DEF RestoreFails, RestoreDone, SlotTypes, HookCtx
  <2>4. /\ ctx' \in [Slots -> HookCtx] /\ ~ctx'[op.slot].live
        /\ \A s \in Slots : ctx'[s].thunk = ctx[s].thunk /\ ctx'[s].method = ctx[s].method
        /\ \A s \in Slots : s # op.slot => ctx'[s].live = ctx[s].live
    BY <1>0, <2>1, <2>2 DEF SlotTypes, HookCtx
  <2> QED
    BY <2>1, <2>2, <2>3, <2>4, OpMoves DEF OpPcs, Removing
<1>7. CASE ClearFlag
  <2>1. op.pc = "unflag" /\ op' = [op EXCEPT !.pc = "free", !.saved = op.saved]
    BY <1>0, <1>7 DEF ClearFlag, Op
  <2>2. op.saved \in Entry /\ ~ctx[op.slot].live
    BY <2>1, OpFields
  <2> QED
    BY <1>0, <1>7, <2>1, <2>2, OpMoves DEF ClearFlag, SlotTypes, OpPcs, Removing
<1>8. CASE FreeThunk
  BY <1>8, OpEnds DEF FreeThunk, free_thunk
<1> QED
  BY <1>1, <1>2, <1>3, <1>4, <1>5, <1>6, <1>7, <1>8 DEF GuardStep

-----------------------------------------------------------------------------
(* The initial state: no hook, no operation, no dispatch.                  *)
LEMMA InitHookInv == Init => HookInv
<1> SUFFICES ASSUME Init PROVE SlotInv /\ StackInv
  BY Halves
<1>1. NoOp \in Op /\ op.pc = "none" /\ op.by = NoOne
  BY HooksAssumption DEF Init, NoOp, Op, OpPcs, Original, Entry
<1>2. \A s \in Slots : ctx[s] \in HookCtx /\ ~ctx[s].live /\ ~valid[s]
  BY HooksAssumption DEF Init, HookCtx, Thunks, Original, Entry
<1>3. SlotTypes
  <2>1. entry \in [Methods -> Entry] /\ thunk \in [Thunks -> 0..MaxHooks]
    BY HooksAssumption DEF Init, Original, Entry
  <2>2. valid \in [Slots -> BOOLEAN] /\ crashed \in Crashes \cup {"no"} /\ op \in Op
    BY <1>1 DEF Init
  <2>3. ctx \in [Slots -> HookCtx]
    BY <1>2 DEF Init
  <2> QED
    BY <2>1, <2>2, <2>3 DEF SlotTypes
<1>4. OpOwns /\ SlotsOwn
  BY <1>1, <1>2 DEF Init, OpOwns, SlotsOwn
<1>5. StackInv
  BY DEF Init, StackInv, StackTypes, ReentryNotStuck
<1> QED
  BY <1>3, <1>4, <1>5 DEF SlotInv

(* Every step keeps HookInv.                                               *)
LEMMA NextHookInv == HookInv /\ [Next]_vars => HookInv'
<1> SUFFICES ASSUME HookInv, [Next]_vars PROVE SlotInv' /\ StackInv'
  BY Halves
<1>1. SlotInv /\ StackInv /\ crashed \in Crashes \cup {"no"}
  BY Halves DEF SlotInv, SlotTypes
<1>2. CASE GuardStep
  <2>1. UNCHANGED stack /\ reentry' \subseteq reentry
    BY <1>2 DEF GuardStep, PatchFails, PatchBegins, PatchDone, PublishSlot, RestoreBegins,
                RestoreFails, RestoreDone, ClearFlag, FreeThunk
  <2> QED
    BY <1>1, <1>2, <2>1, GuardKeepsSlots, StacksRest
<1>3. ASSUME NEW t \in Threads, NEW m \in Methods, InstallBegins(t, m)
      PROVE  SlotInv' /\ StackInv'
  <2>1. UNCHANGED stack /\ reentry' \subseteq reentry
    BY <1>3 DEF InstallBegins
  <2> QED
    BY <1>1, <1>3, <2>1, InstallKeepsSlots, StacksRest
<1>4. ASSUME NEW t \in Threads, NEW m \in Methods, GameCalls(t, m)
      PROVE  SlotInv' /\ StackInv'
  <2>1. /\ UNCHANGED <<slotVars, reentry, crashed>> /\ entry[m] \in Thunks
        /\ stack' = [stack EXCEPT ![t] = Append(@, NewFrame(entry[m], FALSE))]
    BY <1>4 DEF GameCalls, Push
  <2>2. NewFrame(entry[m], FALSE) \in Frame
    BY <2>1, NewFrameIsFrame
  <2>3. SlotInv'
    BY <1>1, <2>1, SlotsRest
  <2>4. StackInv'
    BY <1>1, <2>1, <2>2, DispatchPushed
  <2> QED
    BY <2>3, <2>4
<1>5. ASSUME NEW t \in Threads, NEW m \in Methods, GameCallsTorn(t, m)
      PROVE  SlotInv' /\ StackInv'
  <2>1. UNCHANGED slotVars /\ crashed' \in Crashes \cup {"no"} /\ UNCHANGED stack /\ reentry' \subseteq reentry
    BY <1>5 DEF GameCallsTorn, Crash, Crashes
  <2> QED
    BY <1>1, <2>1, SlotsRest, StacksRest
<1>6. ASSUME NEW t \in Threads, NEW s \in Slots, Unpublish(t, s)
      PROVE  SlotInv' /\ StackInv'
  <2>1. MarkRaced(t, s) /\ UNCHANGED reentry
    BY <1>6 DEF Unpublish
  <2> QED
    BY <1>1, <1>6, <2>1, UnpublishKeepsSlots, RacedKeepsStacks
<1>7. ASSUME NEW t \in Threads, DispatchStep(t)
      PROVE  SlotInv' /\ StackInv'
  <2>1. UNCHANGED slotVars /\ crashed' \in Crashes \cup {"no"}
    BY <1>1, <1>7 DEF DispatchStep, EnterShim, EnterInt3, CtxFor, TryEnter, HandlerStarts,
         HandlerSkipped, HandlerEnds, SetReturn, CallOriginal, Replay, ReplayFreed,
         TrampolineReturns, ClearReentry, PiggybackEnds, Return, CrashOf, Crash, Crashes
  <2>2. SlotInv'
    BY <1>1, <2>1, SlotsRest
  <2> QED
    BY <1>7, <2>2, DispatchKeepsStacks
<1>8. CASE UNCHANGED vars
  <2>1. UNCHANGED slotVars /\ crashed' \in Crashes \cup {"no"} /\ UNCHANGED stack /\ reentry' \subseteq reentry
    BY <1>1, <1>8 DEF vars, slotVars
  <2> QED
    BY <1>1, <2>1, SlotsRest, StacksRest
<1> QED
  BY <1>2, <1>3, <1>4, <1>5, <1>6, <1>7, <1>8 DEF Next

(***************************************************************************)
(* The inductive invariant holds whatever scripts install and remove, and  *)
(* whatever calls arrive meanwhile.                                        *)
(***************************************************************************)
THEOREM HookInvariant == Spec => []HookInv
  BY InitHookInv, NextHookInv, PTL DEF Spec

(***************************************************************************)
(* registry.rs, thunks.rs: outside an install or a removal the valid slots *)
(* and the thunks in use belong together one to one, for any sequence of   *)
(* installs, failed installs and removals: no thunk is leaked or shared,   *)
(* also when a method is hooked twice or VirtualProtect refuses a restore. *)
(***************************************************************************)
THEOREM SlotsAndThunks == Spec => []SlotsMatchThunks
<1>1. HookInv => SlotsMatchThunks
  BY DEF HookInv, SlotsOwn, SlotsMatchThunks
<1> QED
  BY <1>1, HookInvariant, PTL

(***************************************************************************)
(* dispatcher.rs, registry.rs: no REENTRY flag outlives the dispatch that  *)
(* set it, for any number of threads and any nesting: no hook goes dead.   *)
(***************************************************************************)
THEOREM ReentryClears == Spec => []ReentryNotStuck
<1>1. HookInv => ReentryNotStuck
  BY DEF HookInv
<1> QED
  BY <1>1, HookInvariant, PTL

-----------------------------------------------------------------------------
(* The entries of the methods, when no script hooks a method twice and no  *)
(* restore is refused.                                                     *)

OpFor(m) == op.pc # "none" /\ op.method = m
Hooks(s, m) == valid[s] /\ ctx[s].method = m

\* Every method has one owner: a valid slot, the operation in progress, or
\* nobody, and then it holds its original code.
OneHookEach ==
  \A s, u \in Slots : valid[s] /\ valid[u] /\ ctx[s].method = ctx[u].method => s = u
HookedEntries ==
  \A s \in Slots : valid[s] =>
    /\ ctx[s].saved = Original
    /\ entry[ctx[s].method] = ctx[s].thunk
    /\ ~OpFor(ctx[s].method)
FreeEntries ==
  \A m \in Methods : entry[m] = Original \/ OpFor(m) \/ \E s \in Slots : Hooks(s, m)
OpEntry ==
  /\ op.pc \in {"patch", "unflag", "free"} => entry[op.method] = Original
  /\ op.pc \in {"write", "publish"} => op.saved = Original
  /\ op.pc \in {"publish", "valid", "restore"} => entry[op.method] = op.thunk
  /\ op.pc \in {"write", "rewrite"} => entry[op.method] = Torn
  /\ op.pc \in {"valid", "restore", "rewrite"} => ctx[op.slot].saved = Original
EntryInv == OneHookEach /\ HookedEntries /\ FreeEntries /\ OpEntry

(* An operation in progress writes the entry of its own method only.       *)
LEMMA OpWritesEntry ==
  ASSUME SlotInv, EntryInv, op.pc # "none", op'.pc # "none", op'.method = op.method,
         \A m \in Methods : m # op.method => entry'[m] = entry[m],
         UNCHANGED valid, \A s \in Slots : valid[s] => ctx'[s] = ctx[s]
  PROVE  OneHookEach' /\ HookedEntries' /\ FreeEntries'
<1>1. \A m : OpFor(m)' <=> OpFor(m)
  BY DEF OpFor
<1>2. OneHookEach'
  BY DEF EntryInv, OneHookEach
<1>3. HookedEntries'
  <2>1. \A s \in Slots : valid[s] => ctx[s].method \in Methods /\ ctx[s].method # op.method
    BY DEF EntryInv, HookedEntries, OpFor, SlotInv, SlotsOwn
  <2> QED
    BY <1>1, <2>1 DEF EntryInv, HookedEntries
<1>4. FreeEntries'
  <2> SUFFICES ASSUME NEW m \in Methods
               PROVE  entry'[m] = Original \/ OpFor(m)' \/ \E s \in Slots : Hooks(s, m)'
    BY DEF FreeEntries
  <2>1. CASE m = op.method
    BY <1>1, <2>1 DEF OpFor
  <2>2. CASE m # op.method
    BY <1>1, <2>2 DEF EntryInv, FreeEntries, Hooks
  <2> QED
    BY <2>1, <2>2
<1> QED
  BY <1>2, <1>3, <1>4

(* An operation that ends with the entry restored or never touched.        *)
LEMMA OpLeavesEntry ==
  ASSUME SlotInv, EntryInv, op.pc \in {"patch", "free"}, op' = NoOp,
         UNCHANGED <<entry, valid, ctx>>
  PROVE  EntryInv'
<1>1. op'.pc = "none"
  BY DEF NoOp
<1>2. entry[op.method] = Original
  BY DEF EntryInv, OpEntry
<1>3. OneHookEach' /\ HookedEntries' /\ OpEntry'
  BY <1>1 DEF EntryInv, OneHookEach, HookedEntries, OpEntry, OpFor
<1>4. FreeEntries'
  BY <1>2 DEF EntryInv, FreeEntries, OpFor, Hooks
<1> QED
  BY <1>3, <1>4 DEF EntryInv

(* The steps under INSTALL_GUARD.                                          *)
LEMMA GuardKeepsEntries ==
  ASSUME ~ProtectFails, SlotInv, EntryInv, GuardStep
  PROVE  EntryInv'
<1>0. op \in Op /\ entry \in [Methods -> Entry] /\ ctx \in [Slots -> HookCtx]
      /\ valid \in [Slots -> BOOLEAN]
  BY DEF SlotInv, SlotTypes
<1>1. CASE PatchFails \/ FreeThunk
  BY <1>1, OpLeavesEntry DEF PatchFails, FreeThunk
<1>2. CASE PatchBegins
  <2>1. /\ op.pc = "patch" /\ op' = [op EXCEPT !.pc = "write", !.saved = entry[op.method]]
        /\ entry' = [entry EXCEPT ![op.method] = Torn] /\ UNCHANGED <<valid, ctx>>
    BY <1>2 DEF PatchBegins
  <2>2. op'.pc = "write" /\ op'.saved = entry[op.method] /\ op'.method = op.method
    BY <1>0, <2>1 DEF Op
  <2>3. OneHookEach' /\ HookedEntries' /\ FreeEntries'
    BY <1>0, <2>1, <2>2, OpWritesEntry
  <2>4. entry'[op.method] = Torn
    BY <1>0, <2>1, OpFields
  <2> QED
    BY <2>1, <2>2, <2>3, <2>4 DEF EntryInv, OpEntry
<1>3. CASE PatchDone
  <2>1. /\ op.pc = "write" /\ op' = [op EXCEPT !.pc = "publish", !.saved = op.saved]
        /\ entry' = [entry EXCEPT ![op.method] = op.thunk] /\ UNCHANGED <<valid, ctx>>
    BY <1>0, <1>3 DEF PatchDone, Op
  <2>2. /\ op'.pc = "publish" /\ op'.saved = op.saved /\ op'.method = op.method
        /\ op'.thunk = op.thunk
    BY <1>0, <2>1 DEF Op
  <2>3. entry'[op.method] = op.thunk
    BY <1>0, <2>1, OpFields
  <2>4. OneHookEach' /\ HookedEntries' /\ FreeEntries'
    BY <1>0, <2>1, <2>2, OpWritesEntry
  <2> QED
    BY <2>1, <2>2, <2>3, <2>4 DEF EntryInv, OpEntry
<1>4. CASE PublishSlot /\ op.pc = "publish"
  <2> DEFINE c == [method |-> op.method, thunk |-> op.thunk, saved |-> op.saved, live |-> TRUE]
  <2>1. /\ op.pc = "publish" /\ op' = [op EXCEPT !.pc = "valid"] /\ UNCHANGED <<entry, valid>>
        /\ ctx' = [ctx EXCEPT ![op.slot] = c]
    BY <1>4 DEF PublishSlot
  <2>2. c.saved = op.saved
    OBVIOUS
  <2> HIDE DEF c
  <2>3. op.slot \in Slots /\ ~valid[op.slot]
    BY <2>1, OpFields
  <2>4. ctx'[op.slot] = c /\ \A s \in Slots : valid[s] => ctx'[s] = ctx[s]
    BY <1>0, <2>1, <2>3
  <2>5. /\ op'.pc = "valid" /\ op'.method = op.method /\ op'.slot = op.slot
        /\ op'.thunk = op.thunk
    BY <1>0, <2>1 DEF Op
  <2>6. OneHookEach' /\ HookedEntries' /\ FreeEntries'
    BY <2>1, <2>4, <2>5, OpWritesEntry
  <2> QED
    BY <2>1, <2>2, <2>4, <2>5, <2>6 DEF EntryInv, OpEntry
<1>9. CASE PublishSlot /\ op.pc = "valid"
  <2>1. op' = NoOp /\ UNCHANGED <<entry, ctx>> /\ valid' = [valid EXCEPT ![op.slot] = TRUE]
    BY <1>9 DEF PublishSlot
  <2>2. /\ op.slot \in Slots /\ ~valid[op.slot] /\ op.method \in Methods
        /\ ctx[op.slot].method = op.method /\ ctx[op.slot].thunk = op.thunk
    BY <1>9, OpFields
  <2>3. ctx[op.slot].saved = Original /\ entry[op.method] = op.thunk
    BY <1>9 DEF EntryInv, OpEntry
  <2>4. \A s \in Slots : valid'[s] <=> s = op.slot \/ valid[s]
    BY <1>0, <2>1, <2>2
  <2>5. op'.pc = "none"
    BY <2>1 DEF NoOp
  <2>6. \A s \in Slots : valid[s] => ctx[s].method # op.method
    BY <1>9 DEF EntryInv, HookedEntries, OpFor
  <2>7. OneHookEach'
    BY <2>1, <2>2, <2>4, <2>6 DEF EntryInv, OneHookEach
  <2>8. HookedEntries'
    BY <2>1, <2>2, <2>3, <2>4, <2>5 DEF EntryInv, HookedEntries, OpFor
  <2>9. FreeEntries'
    <3> SUFFICES ASSUME NEW m \in Methods, entry[m] # Original
                 PROVE  \E s \in Slots : Hooks(s, m)'
      BY <2>1 DEF FreeEntries
    <3>1. CASE m = op.method
      BY <2>1, <2>2, <2>4, <3>1 DEF Hooks
    <3>2. CASE m # op.method
      <4>1. PICK s \in Slots : Hooks(s, m)
        BY <3>2 DEF EntryInv, FreeEntries, OpFor
      <4> QED
        BY <2>1, <2>4, <4>1 DEF Hooks
    <3> QED
      BY <3>1, <3>2
  <2> QED
    BY <2>5, <2>7, <2>8, <2>9 DEF EntryInv, OpEntry
<1>10. PublishSlot => op.pc \in {"publish", "valid"}
  BY DEF PublishSlot
<1>5. CASE RestoreBegins
  <2>1. /\ op.pc = "restore" /\ op' = [op EXCEPT !.pc = "rewrite", !.saved = op.saved]
        /\ entry' = [entry EXCEPT ![op.method] = Torn] /\ UNCHANGED <<valid, ctx>>
    BY <1>0, <1>5 DEF RestoreBegins, Op
  <2>2. op'.pc = "rewrite" /\ op'.slot = op.slot /\ op'.method = op.method
    BY <1>0, <2>1 DEF Op
  <2>3. OneHookEach' /\ HookedEntries' /\ FreeEntries'
    BY <1>0, <2>1, <2>2, OpWritesEntry
  <2>4. entry'[op.method] = Torn
    BY <1>0, <2>1, OpFields
  <2> QED
    BY <2>1, <2>2, <2>3, <2>4 DEF EntryInv, OpEntry
<1>6. CASE RestoreDone
  <2>1. /\ op.pc = "rewrite" /\ op' = [op EXCEPT !.pc = "unflag", !.saved = op.saved]
        /\ entry' = [entry EXCEPT ![op.method] = Original] /\ UNCHANGED valid
        /\ ctx' = [ctx EXCEPT ![op.slot].live = FALSE]
    BY <1>0, <1>6 DEF RestoreDone, Op, EntryInv, OpEntry
  <2>2. \A s \in Slots : valid[s] => ctx'[s] = ctx[s]
    BY <1>0, <2>1, OpFields
  <2>3. op'.pc = "unflag" /\ op'.method = op.method
    BY <1>0, <2>1 DEF Op
  <2>4. entry'[op.method] = Original
    BY <1>0, <2>1, OpFields
  <2>5. OneHookEach' /\ HookedEntries' /\ FreeEntries'
    BY <1>0, <2>1, <2>2, <2>3, OpWritesEntry
  <2> QED
    BY <2>3, <2>4, <2>5 DEF EntryInv, OpEntry
<1>7. CASE ClearFlag
  <2>1. /\ op.pc = "unflag" /\ op' = [op EXCEPT !.pc = "free", !.saved = op.saved]
        /\ UNCHANGED <<entry, valid, ctx>> /\ entry[op.method] = Original
    BY <1>0, <1>7 DEF ClearFlag, Op, EntryInv, OpEntry
  <2>2. op'.pc = "free" /\ op'.method = op.method
    BY <1>0, <2>1 DEF Op
  <2>3. OneHookEach' /\ HookedEntries' /\ FreeEntries'
    BY <2>1, <2>2, OpWritesEntry
  <2> QED
    BY <2>1, <2>2, <2>3 DEF EntryInv, OpEntry
<1>8. ~RestoreFails
  BY DEF RestoreFails
<1> QED
  BY <1>1, <1>2, <1>3, <1>4, <1>5, <1>6, <1>7, <1>8, <1>9, <1>10 DEF GuardStep

(* Every step keeps the entries with their owners.                         *)
LEMMA NextEntries ==
  ASSUME ~HookTwice, ~ProtectFails
  PROVE  HookInv /\ EntryInv /\ [Next]_vars => EntryInv'
<1> SUFFICES ASSUME HookInv, EntryInv, [Next]_vars PROVE EntryInv'
  OBVIOUS
<1>0. SlotInv /\ SlotTypes
  BY Halves DEF SlotInv
<1>1. ASSUME UNCHANGED slotVars PROVE EntryInv'
  BY <1>1 DEF slotVars, EntryInv, OneHookEach, HookedEntries, FreeEntries, OpEntry, OpFor, Hooks
<1>2. CASE GuardStep
  BY <1>0, <1>2, GuardKeepsEntries
<1>3. ASSUME NEW t \in Threads, NEW m \in Methods, InstallBegins(t, m)
      PROVE  EntryInv'
  <2>1. PICK s \in Slots, k \in Thunks :
          op' = [NoOp EXCEPT !.pc = "patch", !.by = t, !.slot = s, !.thunk = k, !.method = m]
    BY <1>3, Zenon DEF InstallBegins
  <2>2. op.pc = "none" /\ UNCHANGED <<entry, valid, ctx>>
    BY <1>3 DEF InstallBegins, MayChangeHooks
  <2>3. op'.pc = "patch" /\ op'.method = m
    BY <2>1 DEF NoOp
  <2>4. \A u \in Slots : ~Hooks(u, m)
    BY <1>3 DEF InstallBegins, Hooks
  <2>5. entry[m] = Original
    BY <2>2, <2>4 DEF EntryInv, FreeEntries, OpFor
  <2>6. OneHookEach' /\ OpEntry'
    BY <2>2, <2>3, <2>5 DEF EntryInv, OneHookEach, OpEntry
  <2>7. HookedEntries'
    BY <2>2, <2>3, <2>4 DEF EntryInv, HookedEntries, OpFor, Hooks
  <2>8. FreeEntries'
    BY <2>2, <2>3 DEF EntryInv, FreeEntries, OpFor, Hooks
  <2> QED
    BY <2>6, <2>7, <2>8 DEF EntryInv
<1>4. ASSUME NEW t \in Threads, NEW s \in Slots, Unpublish(t, s)
      PROVE  EntryInv'
  <2>1. /\ op.pc = "none" /\ valid[s] /\ UNCHANGED <<entry, ctx>>
        /\ valid' = [valid EXCEPT ![s] = FALSE]
        /\ op' = [NoOp EXCEPT !.pc = "restore", !.by = t, !.slot = s,
                              !.thunk = ctx[s].thunk, !.method = ctx[s].method]
    BY <1>4 DEF Unpublish, MayChangeHooks
  <2>2. /\ op'.pc = "restore" /\ op'.slot = s /\ op'.method = ctx[s].method
        /\ op'.thunk = ctx[s].thunk
    BY <2>1 DEF NoOp
  <2>3. \A u \in Slots : valid'[u] <=> valid[u] /\ u # s
    BY <1>0, <2>1 DEF SlotTypes
  <2>4. OneHookEach' /\ OpEntry'
    BY <2>1, <2>2, <2>3 DEF EntryInv, OneHookEach, HookedEntries, OpEntry
  <2>5. HookedEntries'
    BY <2>1, <2>2, <2>3 DEF EntryInv, HookedEntries, OneHookEach, OpFor
  <2>6. FreeEntries'
    BY <2>1, <2>2, <2>3 DEF EntryInv, FreeEntries, OpFor, Hooks
  <2> QED
    BY <2>4, <2>5, <2>6 DEF EntryInv
<1>5. ASSUME NEW t \in Threads,
             \/ DispatchStep(t)
             \/ \E m \in Methods : GameCalls(t, m) \/ GameCallsTorn(t, m)
      PROVE  UNCHANGED slotVars
  BY <1>5 DEF DispatchStep, EnterShim, EnterInt3, CtxFor, TryEnter, HandlerStarts,
     HandlerSkipped, HandlerEnds, SetReturn, CallOriginal, Replay, ReplayFreed,
     TrampolineReturns, ClearReentry, PiggybackEnds, Return, CrashOf, Crash, GameCalls, GameCallsTorn
<1>6. CASE UNCHANGED vars
  BY <1>1, <1>6 DEF vars, slotVars
<1> QED
  BY <1>1, <1>2, <1>3, <1>4, <1>5, <1>6 DEF Next

(* At the start nothing is hooked.                                         *)
LEMMA InitEntries == Init => EntryInv
<1> SUFFICES ASSUME Init PROVE EntryInv
  OBVIOUS
<1>1. op.pc = "none" /\ \A s \in Slots : ~valid[s]
  BY DEF Init, NoOp
<1> QED
  BY <1>1 DEF Init, EntryInv, OneHookEach, HookedEntries, FreeEntries, OpEntry

(***************************************************************************)
(* api.rs: when no script hooks a method that is already hooked, and       *)
(* VirtualProtect refuses no restore, every method jumps to the thunk of   *)
(* its hook or holds its original code (EntryFollowsSlots), whatever calls *)
(* are in progress on whatever threads while hooks come and go.            *)
(***************************************************************************)
THEOREM EntriesFollow ==
  ASSUME ~HookTwice, ~ProtectFails
  PROVE  Spec => []EntryFollowsSlots
<1>1. EntryInv => EntryFollowsSlots
  <2> SUFFICES ASSUME EntryInv PROVE EntryFollowsSlots
    OBVIOUS
  <2>1. ASSUME op.pc = "none", NEW m \in Methods, NEW s \in Slots, Hooks(s, m)
        PROVE  valid[s] /\ ctx[s].method = m /\ entry[m] = ctx[s].thunk
    BY <2>1 DEF EntryInv, HookedEntries, Hooks
  <2>2. ASSUME op.pc = "none", NEW m \in Methods, \A s \in Slots : ~Hooks(s, m)
        PROVE  entry[m] = Original /\ \A s \in Slots : valid[s] => ctx[s].method # m
    BY <2>2 DEF EntryInv, FreeEntries, OpFor, Hooks
  <2>3. ASSUME op.pc = "none", NEW m \in Methods
        PROVE  \/ entry[m] = Original /\ \A s \in Slots : valid[s] => ctx[s].method # m
               \/ \E s \in Slots : valid[s] /\ ctx[s].method = m /\ entry[m] = ctx[s].thunk
    <3>1. CASE \A s \in Slots : ~Hooks(s, m)
      BY <2>2, <2>3, <3>1
    <3>2. ASSUME NEW s \in Slots, Hooks(s, m)
          PROVE  \E u \in Slots : valid[u] /\ ctx[u].method = m /\ entry[m] = ctx[u].thunk
      BY <2>1, <2>3, <3>2
    <3> QED
      BY <3>1, <3>2
  <2> QED
    BY <2>3, Zenon DEF EntryFollowsSlots
<1>2. HookInv /\ EntryInv /\ [Next]_vars => EntryInv'
  BY NextEntries
<1> QED
  BY <1>1, <1>2, InitEntries, HookInvariant, PTL DEF Spec

-----------------------------------------------------------------------------
(* Dispatches, when no handler removes its own hook.                       *)

\* Every frame of q is in S, and every one but the active one is in B.
WellStacked(q, S, B) == \A i \in 1..Len(q) : q[i] \in S /\ (i # Len(q) => q[i] \in B)

(* Replacing the active frame.                                             *)
LEMMA StackedTop ==
  ASSUME NEW q \in Seq(Frame), q # <<>>, NEW S, NEW B, WellStacked(q, S, B),
         NEW f \in Frame, f \in S
  PROVE  /\ [q EXCEPT ![Len(q)] = f] \in Seq(Frame)
         /\ WellStacked([q EXCEPT ![Len(q)] = f], S, B)
         /\ Len([q EXCEPT ![Len(q)] = f]) = Len(q)
         /\ [q EXCEPT ![Len(q)] = f][Len(q)] = f
<1> DEFINE p == [q EXCEPT ![Len(q)] = f]
<1>1. Len(q) \in 1..Len(q)
  BY EmptySeq, LenProperties, SMT
<1>2. /\ p \in Seq(Frame)
      /\ Len(p) = Len(q)
      /\ \A j \in 1..Len(q) : p[j] = IF j = Len(q) THEN f ELSE q[j]
  BY <1>1, ExceptSeq
<1> HIDE DEF p
<1>3. WellStacked(p, S, B)
  BY <1>1, <1>2 DEF WellStacked
<1>4. p[Len(q)] = f
  BY <1>1, <1>2
<1> QED
  BY <1>2, <1>3, <1>4 DEF p

(* Pushing a frame on a suspended one.                                     *)
LEMMA StackedPush ==
  ASSUME NEW q \in Seq(Frame), NEW S, NEW B, WellStacked(q, S, B),
         NEW f \in Frame, f \in S, q # <<>> => q[Len(q)] \in B
  PROVE  WellStacked(Append(q, f), S, B)
<1>1. Len(q) \in Nat /\ (q = <<>> <=> Len(q) = 0)
  BY EmptySeq, LenProperties
<1>2. /\ Len(Append(q, f)) = Len(q) + 1
      /\ \A i \in 1..Len(q) : Append(q, f)[i] = q[i]
      /\ Append(q, f)[Len(q) + 1] = f
  BY AppendProperties
<1> DEFINE p == Append(q, f)
<1> HIDE DEF p
<1>3. ASSUME NEW i \in 1..Len(p)
      PROVE  p[i] \in S /\ (i # Len(p) => p[i] \in B)
  <2>1. CASE i = Len(q) + 1
    BY <1>1, <1>2, <2>1 DEF p
  <2>2. CASE i # Len(q) + 1
    <3>1. i \in 1..Len(q) /\ p[i] = q[i]
      BY <1>1, <1>2, <2>2 DEF p
    <3>2. i = Len(q) => q # <<>>
      BY <1>1, <3>1
    <3> QED
      BY <3>1, <3>2 DEF WellStacked
  <2> QED
    BY <2>1, <2>2
<1> QED
  BY <1>3 DEF WellStacked, p

\* A dispatch that still uses its context has a valid slot, unless a removal
\* races it, and only runs a trampoline from where the dispatcher calls one.
Held(f) ==
  /\ UsesCtx(f) => valid[f.at] \/ f.raced
  /\ f.inside => f.pc \in {"handler", "observe", "replay", "bypass"}
HeldFrames == {f \in Frame : Held(f)}

\* The frames that may have another dispatch above them.
SuspendedFrames == {f \in Frame : f.inside \/ f.pc = "handler"}

HeldInv == \A t \in Threads : WellStacked(stack[t], HeldFrames, SuspendedFrames)

\* Every trampoline that can be run leads into the original code.
Unchained == \A s \in Slots : ctx[s].live => ctx[s].saved = Original

\* A dispatch on its way to an answer: its thunk and its slot are there, and
\* it does not get past its end without the original or a return value.
OnItsWay(f) ==
  /\ f.pc = "thunk" => thunk[f.at] # 0 /\ valid[thunk[f.at]]
  /\ f.pc = "lookup" => valid[f.at]
  /\ f.inside \/ f.called => f.ran
  /\ f.pc \in {"clear", "piggyback", "done"} => f.ran \/ f.ret
Answers(f) == ~f.chained /\ (f.raced \/ OnItsWay(f))
AnsweringFrames == {f \in Frame : Answers(f)}

\* The active frame of t becomes another one that is held, and that answers
\* if it did; a trampoline that leads into a thunk pushes a dispatch.
Advances(t) ==
  \E f \in HeldFrames :
    /\ Unchained /\ Answers(Top(t)) => Answers(f)
    /\ \/ SetTop(t, f)
       \/ /\ ~Unchained /\ f \in SuspendedFrames
          /\ \E k \in Thunks :
               stack' = [stack EXCEPT ![t] =
                           Append([@ EXCEPT ![Len(@)] = f], NewFrame(k, TRUE))]

(* Moving the active frame on to another program counter.                  *)
LEMMA GotoAdvances ==
  ASSUME NEW t \in Threads, Top(t) \in HeldFrames, ~Top(t).inside,
         NEW q \in Pcs, Goto(t, q), q \notin {"thunk", "lookup"},
         q \in {"enter", "call", "handler", "observe", "replay", "bypass"} =>
           valid[Top(t).at] \/ Top(t).raced,
         Answers(Top(t)) /\ q \in {"clear", "piggyback", "done"} =>
           Top(t).ran \/ Top(t).ret \/ Top(t).raced
  PROVE  Advances(t)
<1> DEFINE f == [Top(t) EXCEPT !.pc = q]
<1>1. Top(t) \in Frame
  BY DEF HeldFrames
<1>2. /\ f \in Frame /\ f.pc = q /\ f.at = Top(t).at /\ f.inside = Top(t).inside
      /\ f.ran = Top(t).ran /\ f.ret = Top(t).ret /\ f.called = Top(t).called
      /\ f.chained = Top(t).chained /\ f.raced = Top(t).raced
  BY <1>1 DEF Frame
<1>3. SetTop(t, f)
  BY DEF Goto
<1> HIDE DEF f
<1>4. f \in HeldFrames
  BY <1>2 DEF HeldFrames, Held, UsesCtx
<1>5. Answers(Top(t)) => Answers(f)
  BY <1>2 DEF Answers, OnItsWay
<1> QED
  BY <1>3, <1>4, <1>5 DEF Advances

(* Running the trampoline of a valid slot.                                 *)
LEMMA TrampolineAdvances ==
  ASSUME HookInv, NEW t \in Threads, Top(t) \in HeldFrames, NEW s \in Slots, ctx[s].live,
         NEW f \in Frame, f.pc = Top(t).pc, f.at = Top(t).at, f.chained = Top(t).chained,
         f.raced = Top(t).raced, f.pc \in {"handler", "observe", "replay", "bypass"},
         valid[f.at] \/ f.raced,
         RunTrampoline(t, ctx[s], f)
  PROVE  Advances(t)
<1>1. CASE ctx[s].saved = Original
  <2> DEFINE h == [f EXCEPT !.inside = TRUE, !.ran = TRUE]
  <2>1. /\ h \in Frame /\ h.pc = f.pc /\ h.at = f.at /\ h.inside /\ h.ran
        /\ h.chained = f.chained /\ h.raced = f.raced
    BY DEF Frame
  <2>2. SetTop(t, h)
    BY <1>1 DEF RunTrampoline
  <2> HIDE DEF h
  <2>3. h \in HeldFrames
    BY <2>1 DEF HeldFrames, Held
  <2>4. Answers(Top(t)) => Answers(h)
    BY <2>1 DEF Answers, OnItsWay
  <2> QED
    BY <2>2, <2>3, <2>4 DEF Advances
<1>2. CASE ctx[s].saved # Original
  <2> DEFINE g == [f EXCEPT !.inside = TRUE]
  <2>1. g \in Frame /\ g.pc = f.pc /\ g.at = f.at /\ g.inside /\ g.raced = f.raced
    BY DEF Frame
  <2>2. /\ ctx[s].saved \in Thunks
        /\ stack' = [stack EXCEPT ![t] =
             Append([@ EXCEPT ![Len(@)] = g], NewFrame(ctx[s].saved, TRUE))]
    BY <1>2 DEF RunTrampoline
  <2> HIDE DEF g
  <2>3. g \in HeldFrames /\ g \in SuspendedFrames
    BY <2>1 DEF HeldFrames, SuspendedFrames, Held
  <2>4. ~Unchained
    BY <1>2 DEF Unchained
  <2> QED
    BY <2>2, <2>3, <2>4, Zenon DEF Advances
<1> QED
  BY <1>1, <1>2

(* Every step of a dispatch that neither returns nor crashes.              *)
LEMMA DispatchAdvances ==
  ASSUME HookInv, NEW t \in Threads, stack[t] # <<>>, Top(t) \in HeldFrames,
         DispatchStep(t), ~Return(t)
  PROVE  \/ Advances(t) /\ UNCHANGED crashed
         \/ EnterInt3(t) \/ ReplayFreed(t)
<1>0. /\ SlotTypes /\ Top(t) \in Frame /\ Held(Top(t))
      /\ Top(t).at \in Slots /\ Top(t).pc \in Pcs
  BY Halves DEF SlotInv, HeldFrames, Frame
<1>1. \A q : At(t, q) => Top(t).pc = q
  BY DEF At
<1>2. /\ Top(t).pc \notin {"handler", "observe", "replay", "bypass"} => ~Top(t).inside
      /\ Top(t).pc \in {"enter", "call", "handler"} => valid[Top(t).at] \/ Top(t).raced
      /\ Top(t).pc \in {"observe", "replay", "bypass"} /\ ~Top(t).inside =>
           valid[Top(t).at] \/ Top(t).raced
  BY <1>0 DEF Held, UsesCtx
<1>3. CASE EnterShim(t)
  <2> DEFINE f == [Top(t) EXCEPT !.pc = "lookup", !.at = thunk[Top(t).at]]
  <2>1. Top(t).pc = "thunk" /\ SetTop(t, f) /\ thunk[Top(t).at] # 0 /\ UNCHANGED crashed
    BY <1>1, <1>3 DEF EnterShim
  <2>2. thunk[Top(t).at] \in Slots
    BY <1>0, <2>1, HooksAssumption DEF SlotTypes, Slots, Thunks
  <2>3. /\ f \in Frame /\ f.pc = "lookup" /\ f.at = thunk[Top(t).at]
        /\ f.inside = Top(t).inside /\ f.ran = Top(t).ran /\ f.called = Top(t).called
        /\ f.chained = Top(t).chained /\ f.raced = Top(t).raced
    BY <1>0, <2>2 DEF Frame, Pcs
  <2> HIDE DEF f
  <2>4. f \in HeldFrames
    BY <1>2, <2>1, <2>3 DEF HeldFrames, Held, UsesCtx
  <2>5. Answers(Top(t)) => Answers(f)
    BY <2>1, <2>3 DEF Answers, OnItsWay
  <2> QED
    BY <2>1, <2>4, <2>5 DEF Advances
<1>4. CASE CtxFor(t)
  <2>1. Top(t).pc = "lookup" /\ UNCHANGED crashed
    BY <1>1, <1>4 DEF CtxFor
  <2>2. CASE valid[Top(t).at]
    <3>1. Goto(t, "enter")
      BY <1>4, <2>2 DEF CtxFor
    <3> QED
      BY <1>2, <2>1, <2>2, <3>1, GotoAdvances DEF Pcs
  <2>3. CASE ~valid[Top(t).at]
    <3>1. Goto(t, "done")
      BY <1>4, <2>3 DEF CtxFor
    <3>2. Answers(Top(t)) => Top(t).raced
      BY <2>1, <2>3 DEF Answers, OnItsWay
    <3> QED
      BY <1>2, <2>1, <3>1, <3>2, GotoAdvances DEF Pcs
  <2> QED
    BY <2>2, <2>3
<1>5. CASE TryEnter(t)
  <2>1. Top(t).pc = "enter" /\ UNCHANGED crashed
    BY <1>1, <1>5 DEF TryEnter
  <2>2. PICK q \in {"replay", "call", "bypass"} : Goto(t, q)
    BY <1>5 DEF TryEnter
  <2> QED
    BY <1>2, <2>1, <2>2, GotoAdvances DEF Pcs
<1>6. CASE HandlerStarts(t)
  <2> DEFINE f == [Top(t) EXCEPT !.pc = "handler", !.method = ctx[Top(t).at].method]
  <2>1. Top(t).pc = "call" /\ SetTop(t, f) /\ UNCHANGED crashed
    BY <1>1, <1>6 DEF HandlerStarts
  <2>2. ctx[Top(t).at].method \in Methods \cup {NoOne}
    BY <1>0 DEF SlotTypes, HookCtx
  <2>3. /\ f \in Frame /\ f.pc = "handler" /\ f.at = Top(t).at
        /\ f.inside = Top(t).inside /\ f.ran = Top(t).ran /\ f.called = Top(t).called
        /\ f.chained = Top(t).chained /\ f.raced = Top(t).raced
    BY <1>0, <2>2 DEF Frame, Pcs
  <2> HIDE DEF f
  <2>4. f \in HeldFrames
    BY <1>2, <2>1, <2>3 DEF HeldFrames, Held, UsesCtx
  <2>5. Answers(Top(t)) => Answers(f)
    BY <2>1, <2>3 DEF Answers, OnItsWay
  <2> QED
    BY <2>1, <2>4, <2>5 DEF Advances
<1>7. CASE HandlerSkipped(t)
  <2>1. Top(t).pc = "call" /\ UNCHANGED crashed /\ Goto(t, "observe")
    BY <1>1, <1>7 DEF HandlerSkipped
  <2> QED
    BY <1>2, <2>1, GotoAdvances DEF Pcs
<1>8. CASE HandlerEnds(t)
  <2>1. Top(t).pc = "handler" /\ UNCHANGED crashed /\ ~Top(t).inside
    BY <1>1, <1>8 DEF HandlerEnds
  <2>2. CASE Top(t).ret \/ Top(t).called
    <3>1. Goto(t, "clear")
      BY <1>8, <2>2 DEF HandlerEnds
    <3>2. Answers(Top(t)) => Top(t).ran \/ Top(t).ret \/ Top(t).raced
      BY <2>2 DEF Answers, OnItsWay
    <3> QED
      BY <2>1, <3>1, <3>2, GotoAdvances DEF Pcs
  <2>3. CASE ~(Top(t).ret \/ Top(t).called)
    <3>1. Goto(t, "observe")
      BY <1>8, <2>3 DEF HandlerEnds
    <3> QED
      BY <1>2, <2>1, <3>1, GotoAdvances DEF Pcs
  <2> QED
    BY <2>2, <2>3
<1>9. CASE SetReturn(t)
  <2> DEFINE f == [Top(t) EXCEPT !.ret = TRUE]
  <2>1. Top(t).pc = "handler" /\ SetTop(t, f) /\ UNCHANGED crashed
    BY <1>1, <1>9 DEF SetReturn
  <2>2. /\ f \in Frame /\ f.pc = "handler" /\ f.at = Top(t).at
        /\ f.inside = Top(t).inside /\ f.ran = Top(t).ran /\ f.called = Top(t).called
        /\ f.chained = Top(t).chained /\ f.raced = Top(t).raced
    BY <1>0, <2>1 DEF Frame
  <2> HIDE DEF f
  <2>3. f \in HeldFrames
    BY <1>2, <2>1, <2>2 DEF HeldFrames, Held, UsesCtx
  <2>4. Answers(Top(t)) => Answers(f)
    BY <2>1, <2>2 DEF Answers, OnItsWay
  <2> QED
    BY <2>1, <2>3, <2>4 DEF Advances
<1>10. CASE CallOriginal(t)
  <2> DEFINE f == [Top(t) EXCEPT !.called = TRUE]
  <2>1. PICK s \in Slots : valid[s] /\ RunTrampoline(t, ctx[s], f)
    BY <1>10 DEF CallOriginal, Lowest
  <2>4. ctx[s].live
    BY <2>1 DEF HookInv, SlotsOwn
  <2>2. Top(t).pc = "handler" /\ UNCHANGED crashed
    BY <1>1, <1>10 DEF CallOriginal
  <2>3. /\ f \in Frame /\ f.pc = Top(t).pc /\ f.at = Top(t).at
        /\ f.chained = Top(t).chained /\ f.raced = Top(t).raced
    BY <1>0 DEF Frame
  <2> HIDE DEF f
  <2> QED
    BY <1>2, <2>1, <2>2, <2>3, <2>4, TrampolineAdvances
<1>11. CASE Replay(t)
  <2>1. /\ Top(t).pc \in {"observe", "replay", "bypass"} /\ ~Top(t).inside
        /\ RunTrampoline(t, ctx[Top(t).at], Top(t)) /\ UNCHANGED crashed
        /\ ctx[Top(t).at].live
    BY <1>1, <1>11 DEF Replay, AtReplay
  <2> QED
    BY <1>0, <1>2, <2>1, TrampolineAdvances
<1>12. CASE TrampolineReturns(t)
  <2> DEFINE g == [Top(t) EXCEPT !.inside = FALSE]
             pc == CASE g.pc = "observe" -> "clear"
                     [] g.pc \in {"replay", "bypass"} -> "done"
                     [] OTHER -> g.pc
             f == [g EXCEPT !.pc = pc]
  <2>1. SetTop(t, f) /\ Top(t).inside /\ UNCHANGED crashed
    BY <1>12 DEF TrampolineReturns
  <2>2. /\ g \in Frame /\ g.pc = Top(t).pc /\ g.at = Top(t).at /\ ~g.inside
        /\ g.ran = Top(t).ran /\ g.called = Top(t).called /\ g.chained = Top(t).chained
        /\ g.raced = Top(t).raced
    BY <1>0 DEF Frame
  <2>3. /\ Top(t).pc \in {"handler", "observe", "replay", "bypass"}
        /\ pc \in {"handler", "clear", "done"}
        /\ pc = "handler" => Top(t).pc = "handler"
    <3> HIDE DEF g
    <3> QED
      BY <1>2, <2>1, <2>2
  <2>4. /\ f \in Frame /\ f.pc = pc /\ f.at = Top(t).at /\ ~f.inside
        /\ f.ran = Top(t).ran /\ f.called = Top(t).called /\ f.chained = Top(t).chained
        /\ f.raced = Top(t).raced
    <3> HIDE DEF g, pc
    <3> QED
      BY <2>2, <2>3 DEF Frame, Pcs
  <2> HIDE DEF f, g, pc
  <2>5. f \in HeldFrames
    BY <1>2, <2>3, <2>4 DEF HeldFrames, Held, UsesCtx
  <2>6. Answers(Top(t)) => Answers(f)
    BY <2>1, <2>3, <2>4 DEF Answers, OnItsWay
  <2> QED
    BY <2>1, <2>5, <2>6 DEF Advances
<1>13. CASE ClearReentry(t)
  <2>1. Top(t).pc = "clear" /\ UNCHANGED crashed /\ Goto(t, "piggyback")
    BY <1>1, <1>13 DEF ClearReentry
  <2>2. Answers(Top(t)) => Top(t).ran \/ Top(t).ret \/ Top(t).raced
    BY <2>1 DEF Answers, OnItsWay
  <2> QED
    BY <1>2, <2>1, <2>2, GotoAdvances DEF Pcs
<1>14. CASE PiggybackEnds(t)
  <2>1. Top(t).pc = "piggyback" /\ UNCHANGED crashed /\ Goto(t, "done")
    BY <1>1, <1>14 DEF PiggybackEnds
  <2>2. Answers(Top(t)) => Top(t).ran \/ Top(t).ret \/ Top(t).raced
    BY <2>1 DEF Answers, OnItsWay
  <2> QED
    BY <1>2, <2>1, <2>2, GotoAdvances DEF Pcs
<1> QED
  BY <1>3, <1>4, <1>5, <1>6, <1>7, <1>8, <1>9, <1>10, <1>11, <1>12, <1>13, <1>14
  DEF DispatchStep

(* A new dispatch uses no context yet.                                     *)
LEMMA NewFrameHeld ==
  ASSUME NEW k \in Thunks, NEW b \in BOOLEAN
  PROVE  NewFrame(k, b) \in HeldFrames
<1>1. NewFrame(k, b) \in Frame /\ NewFrame(k, b).pc = "thunk" /\ ~NewFrame(k, b).inside
  BY NewFrameIsFrame DEF NewFrame
<1> QED
  BY <1>1 DEF HeldFrames, Held, UsesCtx

(* A step of a dispatch keeps every frame held.                            *)
LEMMA AdvanceKeepsHeld ==
  ASSUME StackTypes, \A u \in Threads : WellStacked(stack[u], HeldFrames, SuspendedFrames),
         NEW t \in Threads, stack[t] # <<>>, Advances(t)
  PROVE  \A u \in Threads : WellStacked(stack'[u], HeldFrames, SuspendedFrames)
<1>1. stack \in [Threads -> Seq(Frame)] /\ stack[t] \in Seq(Frame)
  BY DEF StackTypes
<1>2. PICK f \in HeldFrames :
        \/ SetTop(t, f)
        \/ /\ f \in SuspendedFrames
           /\ \E k \in Thunks :
                stack' = [stack EXCEPT ![t] = Append([@ EXCEPT ![Len(@)] = f], NewFrame(k, TRUE))]
  BY Zenon DEF Advances
<1> DEFINE p == [stack[t] EXCEPT ![Len(stack[t])] = f]
<1>3. f \in Frame
  BY DEF HeldFrames
<1>4. /\ p \in Seq(Frame) /\ WellStacked(p, HeldFrames, SuspendedFrames)
      /\ Len(p) = Len(stack[t]) /\ p[Len(stack[t])] = f
  BY <1>1, <1>3, StackedTop
<1>5. CASE SetTop(t, f)
  <2>1. stack' = [stack EXCEPT ![t] = p]
    BY <1>5 DEF SetTop
  <2> HIDE DEF p
  <2> QED
    BY <1>1, <1>4, <2>1
<1>6. CASE f \in SuspendedFrames /\ \E k \in Thunks :
             stack' = [stack EXCEPT ![t] = Append([@ EXCEPT ![Len(@)] = f], NewFrame(k, TRUE))]
  <2>1. PICK k \in Thunks : stack' = [stack EXCEPT ![t] = Append(p, NewFrame(k, TRUE))]
    BY <1>6
  <2> DEFINE n == NewFrame(k, TRUE)
  <2>2. n \in Frame /\ n \in HeldFrames
    BY NewFrameIsFrame, NewFrameHeld
  <2>3. stack' = [stack EXCEPT ![t] = Append(p, n)]
    BY <2>1
  <2> HIDE DEF p, n
  <2>4. WellStacked(Append(p, n), HeldFrames, SuspendedFrames)
    BY <1>4, <1>6, <2>2, StackedPush
  <2> QED
    BY <1>1, <2>3, <2>4
<1> QED
  BY <1>2, <1>5, <1>6

(* A return leaves held frames, and suspended ones below the active one.   *)
LEMMA ReturnKeepsHeld ==
  ASSUME StackTypes, \A u \in Threads : WellStacked(stack[u], HeldFrames, SuspendedFrames),
         NEW t \in Threads, Return(t)
  PROVE  \A u \in Threads : WellStacked(stack'[u], HeldFrames, SuspendedFrames)
<1>1. /\ stack \in [Threads -> Seq(Frame)] /\ stack[t] # <<>>
      /\ Len(stack[t]) \in Nat \ {0}
  BY TopIsFrame DEF StackTypes, Return, At
<1>2. PICK q \in Seq(Frame) :
        /\ stack' = [stack EXCEPT ![t] = q]
        /\ Len(q) = Len(stack[t]) - 1
        /\ \A i \in 1..Len(q) : /\ q[i].pc = stack[t][i].pc /\ q[i].at = stack[t][i].at
                                /\ q[i].inside = stack[t][i].inside
                                /\ q[i].raced = stack[t][i].raced
  BY ReturnShape
<1>3. ASSUME NEW i \in 1..Len(q)
      PROVE  q[i] \in HeldFrames /\ q[i] \in SuspendedFrames
  <2>1. i \in 1..Len(stack[t]) /\ i # Len(stack[t])
    BY <1>1, <1>2
  <2>2. stack[t][i] \in HeldFrames /\ stack[t][i] \in SuspendedFrames /\ q[i] \in Frame
    BY <2>1, ElementOfSeq DEF WellStacked
  <2> QED
    BY <1>2, <2>2 DEF HeldFrames, SuspendedFrames, Held, UsesCtx
<1>4. WellStacked(q, HeldFrames, SuspendedFrames)
  BY <1>3 DEF WellStacked
<1> QED
  BY <1>1, <1>2, <1>4

(* Only a thread that runs, and is inside a dispatch, takes its steps.     *)
LEMMA DispatchRuns ==
  ASSUME NEW t \in Threads, DispatchStep(t)
  PROVE  Runs(t) /\ stack[t] # <<>> /\ UNCHANGED slotVars
  BY DEF DispatchStep, EnterShim, EnterInt3, CtxFor, TryEnter, HandlerStarts,
     HandlerSkipped, HandlerEnds, SetReturn, CallOriginal, Replay, ReplayFreed, AtReplay,
     TrampolineReturns, ClearReentry, PiggybackEnds, Return, CrashOf, Crash, At

(* Frames stay held as long as no slot that a dispatch uses is unpublished.*)
LEMMA HeldStays ==
  ASSUME \A u \in Threads : WellStacked(stack[u], HeldFrames, SuspendedFrames),
         UNCHANGED stack, \A s \in Slots : valid[s] => valid'[s]
  PROVE  (\A u \in Threads : WellStacked(stack[u], HeldFrames, SuspendedFrames))'
<1>1. \A f \in Frame : f.at \in Slots
  BY DEF Frame
<1>2. \A f \in HeldFrames : f \in HeldFrames'
  BY <1>1 DEF HeldFrames, Held, UsesCtx
<1>3. SuspendedFrames' = SuspendedFrames
  BY DEF SuspendedFrames
<1> QED
  BY <1>2, <1>3 DEF WellStacked

(* The same sets of frames, for a step that leaves the slots alone.        *)
LEMMA HeldSame ==
  ASSUME UNCHANGED slotVars,
         \A u \in Threads : WellStacked(stack'[u], HeldFrames, SuspendedFrames)
  PROVE  (\A u \in Threads : WellStacked(stack[u], HeldFrames, SuspendedFrames))'
<1>1. HeldFrames' = HeldFrames /\ SuspendedFrames' = SuspendedFrames
  BY DEF HeldFrames, SuspendedFrames, Held, UsesCtx, slotVars
<1> QED
  BY <1>1 DEF WellStacked

(* Which frames of the thread that removes a hook depend on it: none, when *)
(* no handler of it runs for the hook.                                     *)
LEMMA RemoverNeedsNone ==
  ASSUME StackTypes, HeldInv, NEW t \in Threads, MayChangeHooks(t), NEW i \in 1..Len(stack[t])
  PROVE  /\ stack[t][i].pc \notin {"thunk", "lookup"}
         /\ UsesCtx(stack[t][i]) => stack[t][i].pc = "handler"
<1> DEFINE f == stack[t][i]
<1>1. Held(f) /\ (i # Len(stack[t]) => f \in SuspendedFrames)
  BY DEF HeldInv, WellStacked, HeldFrames
<1>2. CASE i = Len(stack[t])
  <2>1. stack[t] # <<>>
    BY <1>2, EmptySeq DEF StackTypes
  <2>2. f.pc \in {"handler", "piggyback"}
    BY <1>2, <2>1 DEF MayChangeHooks, At, Top
  <2> QED
    BY <2>2 DEF UsesCtx
<1>3. CASE i # Len(stack[t])
  BY <1>1, <1>3 DEF SuspendedFrames, Held, UsesCtx
<1> QED
  BY <1>2, <1>3

(* What remove_hook does to every frame: those that depend on the hook are *)
(* marked, on every thread but the one that removes it, where there is     *)
(* none.                                                                   *)
LEMMA RemovalMarks ==
  ASSUME ~RemoveOwn, HookInv, HeldInv, NEW t \in Threads, NEW s \in Slots, Unpublish(t, s),
         NEW u \in Threads, NEW i \in 1..Len(stack[u])
  PROVE  /\ Len(stack'[u]) = Len(stack[u])
         /\ stack[u][i] \in Frame
         /\ \/ stack'[u][i] = stack[u][i] /\ ~Needs(stack[u][i], s)
            \/ stack'[u][i] = [stack[u][i] EXCEPT !.raced = TRUE]
<1>0. StackTypes
  BY Halves DEF StackInv
<1>1. MayChangeHooks(t) /\ MarkRaced(t, s)
      /\ \A j \in 1..Len(stack[t]) : stack[t][j].pc = "handler" => stack[t][j].at # s
  BY DEF Unpublish
<1>2. /\ stack'[t] = stack[t]
      /\ Len(stack'[u]) = Len(stack[u])
      /\ u # t => stack'[u][i] = [stack[u][i] EXCEPT !.raced = @ \/ Needs(stack[u][i], s)]
  BY <1>0, <1>1, RacedShape
<1>3. stack[u][i] \in Frame
  BY <1>0, ElementOfSeq DEF StackTypes
<1> DEFINE f == stack[u][i]
<1>4. CASE u = t
  <2>1. /\ f.pc \notin {"thunk", "lookup"}
        /\ UsesCtx(f) => f.pc = "handler" /\ f.at # s
    BY <1>0, <1>1, <1>4, RemoverNeedsNone
  <2>2. ~Needs(f, s)
    BY <2>1 DEF Needs
  <2> QED
    BY <1>2, <1>3, <1>4, <2>2
<1>5. CASE u # t /\ Needs(f, s)
  <2>1. (f.raced \/ Needs(f, s)) = TRUE
    BY <1>5
  <2>2. stack'[u][i] = [f EXCEPT !.raced = f.raced \/ Needs(f, s)]
    BY <1>2, <1>5
  <2> QED
    BY <1>2, <1>3, <2>1, <2>2
<1>6. CASE u # t /\ ~Needs(f, s)
  <2>1. f.raced \in BOOLEAN /\ f = [f EXCEPT !.raced = f.raced]
    BY <1>3 DEF Frame
  <2>2. (f.raced \/ Needs(f, s)) = f.raced
    BY <1>6, <2>1
  <2>3. stack'[u][i] = [f EXCEPT !.raced = f.raced \/ Needs(f, s)]
    BY <1>2, <1>6
  <2> QED
    BY <1>2, <1>3, <1>6, <2>1, <2>2, <2>3
<1> QED
  BY <1>4, <1>5, <1>6

(* remove_hook clears SLOT_VALID of its own slot.                          *)
LEMMA RemovalClears ==
  ASSUME HookInv, NEW t \in Threads, NEW s \in Slots, Unpublish(t, s)
  PROVE  /\ UNCHANGED <<entry, thunk, ctx, crashed>>
         /\ \A r \in Slots : valid'[r] <=> valid[r] /\ r # s
  BY DEF Unpublish, HookInv, TypeOK

(* remove_hook of a slot that no handler of the thread runs for.           *)
LEMMA UnpublishKeepsHeld ==
  ASSUME ~RemoveOwn, HookInv, HeldInv, NEW t \in Threads, NEW s \in Slots, Unpublish(t, s)
  PROVE  HeldInv'
<1>1. \A r \in Slots : valid'[r] <=> valid[r] /\ r # s
  BY RemovalClears
<1>2. ASSUME NEW u \in Threads, NEW i \in 1..Len(stack[u])
      PROVE  /\ Len(stack'[u]) = Len(stack[u])
             /\ stack'[u][i] \in HeldFrames'
             /\ i # Len(stack[u]) => stack'[u][i] \in SuspendedFrames'
  <2> DEFINE f == stack[u][i]
             g == stack'[u][i]
  <2>1. /\ Len(stack'[u]) = Len(stack[u]) /\ f \in Frame
        /\ (g = f /\ ~Needs(f, s)) \/ g = [f EXCEPT !.raced = TRUE]
    BY RemovalMarks
  <2>2. Held(f) /\ f.at \in Slots /\ (i # Len(stack[u]) => f.inside \/ f.pc = "handler")
    BY <2>1 DEF HeldInv, WellStacked, HeldFrames, SuspendedFrames, Frame
  <2> HIDE DEF f, g
  <2>3. /\ g \in Frame /\ g.pc = f.pc /\ g.at = f.at /\ g.inside = f.inside
        /\ g.raced \/ (g = f /\ ~Needs(f, s))
    BY <2>1 DEF Frame
  <2>4. g \in HeldFrames'
    BY <1>1, <2>2, <2>3 DEF HeldFrames, Held, UsesCtx, Needs
  <2>5. i # Len(stack[u]) => g \in SuspendedFrames'
    BY <2>2, <2>3 DEF SuspendedFrames
  <2> QED
    BY <2>1, <2>4, <2>5 DEF g
<1>3. ASSUME NEW u \in Threads, NEW i \in 1..Len(stack'[u])
      PROVE  /\ stack'[u][i] \in HeldFrames'
             /\ i # Len(stack'[u]) => stack'[u][i] \in SuspendedFrames'
  <2>1. Len(stack'[u]) = Len(stack[u])
    <3>1. StackTypes /\ MarkRaced(t, s)
      BY Halves DEF StackInv, Unpublish
    <3> QED
      BY <3>1, RacedShape
  <2> QED
    BY <1>2, <2>1
<1> QED
  BY <1>3 DEF HeldInv, WellStacked

(* What the steps under INSTALL_GUARD do not touch.                        *)
LEMMA GuardSpares ==
  ASSUME SlotInv, GuardStep
  PROVE  /\ UNCHANGED <<stack, crashed>> /\ crashed = "no"
         /\ \A s \in Slots : valid[s] => valid'[s]
         /\ \A k \in Thunks : thunk[k] # 0 /\ valid[thunk[k]] => thunk'[k] = thunk[k]
<1>0. valid \in [Slots -> BOOLEAN] /\ thunk \in [Thunks -> 0..MaxHooks]
  BY DEF SlotInv, SlotTypes
<1>1. UNCHANGED <<stack, crashed>> /\ crashed = "no" /\ op.pc # "none"
  BY DEF GuardStep, PatchFails, PatchBegins, PatchDone, PublishSlot, RestoreBegins,
         RestoreFails, RestoreDone, ClearFlag, FreeThunk
<1>2. \A s \in Slots : valid[s] => valid'[s]
  BY <1>0 DEF GuardStep, PatchFails, PatchBegins, PatchDone, PublishSlot,
     RestoreBegins, RestoreFails, RestoreDone, ClearFlag, FreeThunk
<1>3. UNCHANGED thunk \/ thunk' = [thunk EXCEPT ![op.thunk] = 0]
  BY DEF GuardStep, PatchFails, PatchBegins, PatchDone, PublishSlot, RestoreBegins,
         RestoreFails, RestoreDone, ClearFlag, FreeThunk, free_thunk
<1>4. ~valid[op.slot] /\ thunk[op.thunk] = op.slot
  BY <1>1, OpFields
<1> QED
  BY <1>0, <1>1, <1>2, <1>3, <1>4

(* Every step keeps the dispatches that use a context on valid slots.      *)
LEMMA NextHeld ==
  ASSUME ~RemoveOwn
  PROVE  HookInv /\ HeldInv /\ [Next]_vars => HeldInv'
<1> SUFFICES ASSUME HookInv, HeldInv, [Next]_vars PROVE HeldInv'
  OBVIOUS
<1>0. /\ SlotInv /\ SlotTypes /\ StackTypes
      /\ \A u \in Threads : WellStacked(stack[u], HeldFrames, SuspendedFrames)
  BY Halves DEF SlotInv, StackInv, HeldInv
<1>1. CASE GuardStep
  BY <1>0, <1>1, GuardSpares, HeldStays DEF HeldInv
<1>2. ASSUME NEW t \in Threads, NEW m \in Methods, InstallBegins(t, m)
      PROVE  HeldInv'
  BY <1>0, <1>2, HeldStays DEF HeldInv, InstallBegins
<1>3. ASSUME NEW t \in Threads, NEW s \in Slots, Unpublish(t, s)
      PROVE  HeldInv'
  BY <1>3, UnpublishKeepsHeld
<1>4. ASSUME NEW t \in Threads, NEW m \in Methods, GameCalls(t, m)
      PROVE  HeldInv'
  <2> DEFINE n == NewFrame(entry[m], FALSE)
  <2>1. /\ UNCHANGED slotVars /\ entry[m] \in Thunks
        /\ stack' = [stack EXCEPT ![t] = Append(@, n)]
        /\ stack[t] # <<>> => Top(t).inside \/ Top(t).pc = "handler"
    BY <1>4 DEF GameCalls, GameRuns, Push
  <2>2. n \in Frame /\ n \in HeldFrames
    BY <2>1, NewFrameIsFrame, NewFrameHeld
  <2> HIDE DEF n
  <2>3. stack[t] # <<>> => stack[t][Len(stack[t])] \in SuspendedFrames
    BY <1>0, <2>1, TopIsFrame DEF SuspendedFrames, Top
  <2>4. WellStacked(Append(stack[t], n), HeldFrames, SuspendedFrames)
    BY <1>0, <2>2, <2>3, StackedPush DEF StackTypes
  <2>5. \A u \in Threads : WellStacked(stack'[u], HeldFrames, SuspendedFrames)
    BY <1>0, <2>1, <2>4 DEF StackTypes
  <2> QED
    BY <2>1, <2>5, HeldSame DEF HeldInv
<1>5. ASSUME UNCHANGED <<slotVars, stack>> PROVE HeldInv'
  BY <1>0, <1>5, HeldStays DEF HeldInv, slotVars
<1>6. ASSUME NEW t \in Threads, NEW m \in Methods, GameCallsTorn(t, m)
      PROVE  HeldInv'
  BY <1>5, <1>6 DEF GameCallsTorn, Crash
<1>7. ASSUME NEW t \in Threads, DispatchStep(t)
      PROVE  HeldInv'
  <2>1. stack[t] # <<>> /\ UNCHANGED slotVars
    BY <1>7, DispatchRuns
  <2>2. Top(t) \in HeldFrames
    BY <1>0, <2>1, TopIsFrame DEF WellStacked, Top
  <2>3. CASE Return(t)
    BY <1>0, <2>1, <2>3, ReturnKeepsHeld, HeldSame DEF HeldInv
  <2>4. CASE Advances(t)
    BY <1>0, <2>1, <2>4, AdvanceKeepsHeld, HeldSame DEF HeldInv
  <2>5. CASE EnterInt3(t) \/ ReplayFreed(t)
    BY <1>5, <2>5 DEF EnterInt3, ReplayFreed, CrashOf, Crash
  <2> QED
    BY <1>7, <2>1, <2>2, <2>3, <2>4, <2>5, DispatchAdvances
<1>8. CASE UNCHANGED vars
  BY <1>5, <1>8 DEF vars, slotVars
<1> QED
  BY <1>1, <1>2, <1>3, <1>4, <1>6, <1>7, <1>8 DEF Next

(* At the start no dispatch is in progress.                                *)
LEMMA InitHeld == Init => HeldInv
<1> SUFFICES ASSUME Init PROVE HeldInv
  OBVIOUS
<1>1. \A t \in Threads : Len(stack[t]) = 0
  BY DEF Init
<1> QED
  BY <1>1 DEF HeldInv, WellStacked

(***************************************************************************)
(* registry.rs, ctx_for: the reference it returns is valid for the whole   *)
(* dispatch unless another thread removes the hook (CtxOutlivesDispatch),  *)
(* for any nesting of dispatches, any reloads they piggyback and any       *)
(* threads of the game and the agent, provided no handler removes the hook *)
(* it runs for. Hooking twice and refused restores do no harm.             *)
(***************************************************************************)
THEOREM CtxLives ==
  ASSUME ~RemoveOwn
  PROVE  Spec => []CtxOutlivesDispatch
<1>1. HookInv /\ HeldInv => CtxOutlivesDispatch
  <2> SUFFICES ASSUME HookInv, HeldInv, NEW t \in Threads, NEW i \in 1..Len(stack[t]),
                      UsesCtx(stack[t][i])
               PROVE  ctx[stack[t][i].at].live \/ stack[t][i].raced
    BY DEF CtxOutlivesDispatch
  <2>1. stack[t][i] \in HeldFrames
    BY DEF HeldInv, WellStacked
  <2>2. stack[t][i].at \in Slots /\ (valid[stack[t][i].at] \/ stack[t][i].raced)
    BY <2>1 DEF HeldFrames, Held, Frame
  <2> QED
    BY <2>2 DEF HookInv, SlotsOwn
<1>2. HookInv /\ HeldInv /\ [Next]_vars => HeldInv'
  BY NextHeld
<1> QED
  BY <1>1, <1>2, InitHeld, HookInvariant, PTL DEF Spec

-----------------------------------------------------------------------------
(* Every call that no operation on its hook races is answered, when no     *)
(* handler removes its own hook, no method is hooked twice and no restore  *)
(* is refused.                                                             *)

AnswerInv ==
  GameKeepsRunning /\ \A t \in Threads : WellStacked(stack[t], AnsweringFrames, AnsweringFrames)

(* A change of the hooks disturbs no dispatch as long as every thunk that  *)
(* carries a valid slot keeps it, and the slot stays valid.                *)
LEMMA AnswersUndisturbed ==
  ASSUME AnswerInv, HookInv, UNCHANGED <<stack, crashed>>, crashed = "no",
         \A s \in Slots : valid[s] => valid'[s],
         \A k \in Thunks : thunk[k] # 0 /\ valid[thunk[k]] => thunk'[k] = thunk[k]
  PROVE  AnswerInv'
<1>0. \A k \in Thunks : thunk[k] # 0 => thunk[k] \in Slots
  BY HooksAssumption DEF HookInv, TypeOK, Slots
<1>1. ASSUME NEW f \in AnsweringFrames
      PROVE  f \in AnsweringFrames'
  <2>1. f \in Frame /\ f.at \in Slots /\ f.at \in Thunks /\ Answers(f)
    BY DEF AnsweringFrames, Frame, Slots, Thunks
  <2>2. OnItsWay(f) => OnItsWay(f)'
    BY <1>0, <2>1 DEF OnItsWay
  <2> QED
    BY <2>1, <2>2 DEF AnsweringFrames, Answers
<1>2. \A t \in Threads : \A i \in 1..Len(stack[t]) : stack[t][i] \in AnsweringFrames'
  BY <1>1 DEF AnswerInv, WellStacked
<1>3. GameKeepsRunning'
  BY DEF GameKeepsRunning
<1> QED
  BY <1>2, <1>3 DEF AnswerInv, WellStacked

(* The same frames answer as long as the slots stay as they are.           *)
LEMMA AnsweringSame ==
  ASSUME UNCHANGED slotVars
  PROVE  AnsweringFrames' = AnsweringFrames
  BY DEF AnsweringFrames, Answers, OnItsWay, slotVars

(* A removal leaves no dispatch unmarked that it takes the answer from.    *)
LEMMA RemovalKeepsAnswers ==
  ASSUME ~RemoveOwn, HookInv, HeldInv, AnswerInv, crashed = "no",
         NEW t \in Threads, NEW s \in Slots, Unpublish(t, s)
  PROVE  AnswerInv'
<1>0. /\ UNCHANGED <<entry, thunk, ctx, crashed>>
      /\ \A r \in Slots : valid'[r] <=> valid[r] /\ r # s
  BY RemovalClears
<1>1. \A k \in Thunks : thunk[k] # 0 => thunk[k] \in Slots
  BY HooksAssumption DEF HookInv, TypeOK, Slots
<1>2. ASSUME NEW f \in Frame, Answers(f), ~Needs(f, s)
      PROVE  f \in AnsweringFrames'
  <2>1. f.at \in Slots /\ f.at \in Thunks
    BY DEF Frame, Slots, Thunks
  <2>2. OnItsWay(f) => OnItsWay(f)'
    BY <1>0, <1>1, <1>2, <2>1 DEF OnItsWay, Needs
  <2> QED
    BY <1>2, <2>2 DEF AnsweringFrames, Answers
<1>3. ASSUME NEW f \in Frame, Answers(f)
      PROVE  [f EXCEPT !.raced = TRUE] \in AnsweringFrames'
  <2> DEFINE g == [f EXCEPT !.raced = TRUE]
  <2>1. g \in Frame /\ g.raced /\ g.chained = f.chained
    BY DEF Frame
  <2> HIDE DEF g
  <2>2. g \in AnsweringFrames'
    BY <1>3, <2>1 DEF AnsweringFrames, Answers
  <2> QED
    BY <2>2 DEF g
<1>4. ASSUME NEW u \in Threads, NEW i \in 1..Len(stack[u])
      PROVE  stack'[u][i] \in AnsweringFrames'
  <2>1. /\ stack[u][i] \in Frame
        /\ \/ stack'[u][i] = stack[u][i] /\ ~Needs(stack[u][i], s)
           \/ stack'[u][i] = [stack[u][i] EXCEPT !.raced = TRUE]
    BY RemovalMarks
  <2>2. Answers(stack[u][i])
    BY DEF AnswerInv, WellStacked, AnsweringFrames
  <2> QED
    BY <1>2, <1>3, <2>1, <2>2
<1>5. \A u \in Threads : Len(stack'[u]) = Len(stack[u])
  <2>1. StackTypes /\ MarkRaced(t, s)
    BY Halves DEF StackInv, Unpublish
  <2> QED
    BY <2>1, RacedShape
<1>6. GameKeepsRunning'
  BY <1>0 DEF GameKeepsRunning
<1> QED
  BY <1>4, <1>5, <1>6 DEF AnswerInv, WellStacked

(* What a method that does not hold its original code holds: the jump to   *)
(* the thunk of a valid slot, or what the operation on it has written.     *)
LEMMA HookedMethod ==
  ASSUME HookInv, EntryInv, NEW m \in Methods, entry[m] # Original
  PROVE  \/ entry[m] \in Thunks /\ thunk[entry[m]] # 0 /\ valid[thunk[entry[m]]]
         \/ op.pc \in {"publish", "valid", "restore"} /\ entry[m] = op.thunk
         \/ op.pc \in {"write", "rewrite"} /\ entry[m] = Torn
<1>1. CASE \E s \in Slots : Hooks(s, m)
  <2>1. PICK s \in Slots : Hooks(s, m)
    BY <1>1
  <2>2. valid[s] /\ entry[m] = ctx[s].thunk
    BY <2>1 DEF Hooks, EntryInv, HookedEntries
  <2>3. thunk[ctx[s].thunk] = s /\ ctx[s].thunk \in Thunks
    BY <2>2 DEF HookInv, TypeOK, SlotsOwn, HookCtx
  <2>4. s # 0
    BY DEF Slots
  <2> QED
    BY <2>2, <2>3, <2>4
<1>2. CASE OpFor(m)
  <2>1. op.pc \in OpPcs /\ op.pc # "none" /\ op.method = m
    BY <1>2 DEF OpFor, HookInv, TypeOK, Op
  <2> QED
    BY <2>1 DEF EntryInv, OpEntry, OpPcs
<1> QED
  BY <1>1, <1>2 DEF EntryInv, FreeEntries

(* No trampoline that can be run leads anywhere but into the original.     *)
LEMMA TrampolinesUnchained ==
  ASSUME HookInv, EntryInv
  PROVE  Unchained
<1> SUFFICES ASSUME NEW s \in Slots, ctx[s].live PROVE ctx[s].saved = Original
  BY DEF Unchained
<1>1. CASE valid[s]
  BY <1>1 DEF EntryInv, HookedEntries
<1>2. CASE op.pc # "none" /\ op.slot = s
  <2>1. op.pc \in {"valid", "restore", "rewrite"}
    BY <1>2 DEF HookInv, OpOwns
  <2> QED
    BY <1>2, <2>1 DEF EntryInv, OpEntry
<1> QED
  BY <1>1, <1>2 DEF HookInv, SlotsOwn

(* After a crash nothing happens.                                          *)
LEMMA CrashIsLast ==
  ASSUME [Next]_vars, crashed # "no"
  PROVE  UNCHANGED vars
<1>1. ~GuardStep
  BY DEF GuardStep, PatchFails, PatchBegins, PatchDone, PublishSlot, RestoreBegins,
         RestoreFails, RestoreDone, ClearFlag, FreeThunk
<1>2. \A t \in Threads : ~Runs(t)
  BY DEF Runs
<1>3. \A t \in Threads : ~DispatchStep(t)
  BY <1>2, DispatchRuns
<1>4. \A t \in Threads : ~MayChangeHooks(t) /\ ~GameRuns(t)
  BY <1>2 DEF MayChangeHooks, GameRuns, At
<1> QED
  BY <1>1, <1>3, <1>4 DEF Next, InstallBegins, Unpublish, GameCalls, GameCallsTorn

(* Every step keeps every dispatch on its way to an answer.                *)
LEMMA NextAnswers ==
  ASSUME ~RemoveOwn, ~HookTwice, ~ProtectFails
  PROVE  HookInv /\ EntryInv /\ HeldInv /\ AnswerInv /\ [Next]_vars => AnswerInv'
<1> SUFFICES ASSUME HookInv, EntryInv, HeldInv, AnswerInv, [Next]_vars PROVE AnswerInv'
  OBVIOUS
<1>0. /\ SlotInv /\ SlotTypes /\ StackTypes /\ GameKeepsRunning
      /\ \A u \in Threads : WellStacked(stack[u], HeldFrames, SuspendedFrames)
      /\ \A u \in Threads : WellStacked(stack[u], AnsweringFrames, AnsweringFrames)
  BY Halves DEF SlotInv, StackInv, HeldInv, AnswerInv
<1>1. CASE GuardStep
  BY <1>0, <1>1, GuardSpares, AnswersUndisturbed
<1>2. ASSUME UNCHANGED <<slotVars, stack>>, GameKeepsRunning'
      PROVE  AnswerInv'
  <2>1. AnsweringFrames' = AnsweringFrames
    BY <1>2, AnsweringSame
  <2> QED
    BY <1>0, <1>2, <2>1 DEF AnswerInv, WellStacked
<1>3. CASE UNCHANGED vars
  BY <1>0, <1>2, <1>3 DEF vars, slotVars, GameKeepsRunning
<1>4. CASE crashed # "no"
  BY <1>3, <1>4, CrashIsLast
<1> SUFFICES ASSUME crashed = "no" PROVE AnswerInv'
  BY <1>4
<1>5. ASSUME NEW t \in Threads, NEW m \in Methods, GameCalls(t, m)
      PROVE  AnswerInv'
  <2> DEFINE n == NewFrame(entry[m], FALSE)
  <2>1. /\ UNCHANGED <<slotVars, crashed>> /\ entry[m] \in Thunks
        /\ stack' = [stack EXCEPT ![t] = Append(@, n)]
    BY <1>5 DEF GameCalls, Push
  <2>2. n \in Frame
    BY <2>1, NewFrameIsFrame
  <2>3. \/ thunk[entry[m]] # 0 /\ valid[thunk[entry[m]]]
        \/ op.pc # "none" /\ op.thunk = entry[m]
    BY <2>1, HookedMethod, HooksAssumption DEF Thunks, Original, Torn
  <2>4. /\ n.pc = "thunk" /\ n.at = entry[m] /\ ~n.inside /\ ~n.called /\ ~n.chained
        /\ n.raced <=> (op.pc # "none" /\ op.thunk = entry[m])
    BY DEF NewFrame
  <2> HIDE DEF n
  <2>5. Answers(n)
    BY <2>3, <2>4 DEF Answers, OnItsWay
  <2>6. stack[t] # <<>> => stack[t][Len(stack[t])] \in AnsweringFrames
    BY <1>0, TopIsFrame DEF WellStacked
  <2>7. WellStacked(Append(stack[t], n), AnsweringFrames, AnsweringFrames)
    BY <1>0, <2>2, <2>5, <2>6, StackedPush DEF StackTypes, AnsweringFrames
  <2>8. \A u \in Threads : WellStacked(stack'[u], AnsweringFrames, AnsweringFrames)
    BY <1>0, <2>1, <2>7 DEF StackTypes
  <2>9. GameKeepsRunning'
    BY <1>0, <2>1 DEF GameKeepsRunning, slotVars
  <2> QED
    BY <2>1, <2>8, <2>9, AnsweringSame DEF AnswerInv, WellStacked
<1>6. ASSUME NEW t \in Threads, NEW m \in Methods, GameCallsTorn(t, m)
      PROVE  AnswerInv'
  <2>1. entry[m] = Torn /\ crashed' = "torn" /\ UNCHANGED <<slotVars, stack>>
    BY <1>6 DEF GameCallsTorn, Crash
  <2>2. op.thunk \in 0..MaxHooks
    BY <1>0 DEF SlotTypes, Op
  <2>3. op.pc \in {"write", "rewrite"}
    BY <2>1, <2>2, HookedMethod, HooksAssumption DEF Thunks, Torn, Original
  <2>4. GameKeepsRunning'
    BY <2>1, <2>3 DEF GameKeepsRunning, slotVars
  <2> QED
    BY <1>2, <2>1, <2>4
<1>7. ASSUME NEW t \in Threads, DispatchStep(t)
      PROVE  AnswerInv'
  <2>1. stack[t] # <<>> /\ UNCHANGED slotVars
    BY <1>7, DispatchRuns
  <2>2. Top(t) \in HeldFrames /\ Answers(Top(t))
    BY <1>0, <2>1, TopIsFrame DEF WellStacked, Top, AnsweringFrames
  <2>3. Unchained
    BY TrampolinesUnchained
  <2>4. stack \in [Threads -> Seq(Frame)]
    BY <1>0 DEF StackTypes
  <2>5. CASE EnterInt3(t)
    <3>1. Top(t).raced
      BY <2>2, <2>5 DEF EnterInt3, At, Answers, OnItsWay
    <3>2. crashed' = "raced" /\ UNCHANGED <<slotVars, stack>>
      BY <2>5, <3>1 DEF EnterInt3, CrashOf, Crash
    <3> QED
      BY <1>2, <3>2 DEF GameKeepsRunning
  <2>6. CASE ReplayFreed(t)
    <3>1. Top(t).at \in Slots /\ (UsesCtx(Top(t)) => valid[Top(t).at] \/ Top(t).raced)
      BY <2>2 DEF HeldFrames, Held, Frame
    <3>2. UsesCtx(Top(t)) /\ ~ctx[Top(t).at].live
      BY <2>6 DEF ReplayFreed, AtReplay, At, UsesCtx
    <3>3. Top(t).raced
      BY <3>1, <3>2 DEF HookInv, SlotsOwn
    <3>4. crashed' = "raced" /\ UNCHANGED <<slotVars, stack>>
      BY <2>6, <3>3 DEF ReplayFreed, CrashOf, Crash
    <3> QED
      BY <1>2, <3>4 DEF GameKeepsRunning
  <2>7. CASE Return(t)
    <3>1. PICK q \in Seq(Frame) :
            /\ stack' = [stack EXCEPT ![t] = q]
            /\ Len(q) = Len(stack[t]) - 1
            /\ \A i \in 1..Len(q) : ~Top(t).chained => q[i] = stack[t][i]
      BY <1>0, <2>7, ReturnShape
    <3>2. \A i \in 1..Len(q) : i \in 1..Len(stack[t]) /\ q[i] = stack[t][i]
      BY <1>0, <2>1, <2>2, <3>1, TopIsFrame DEF Answers
    <3>3. WellStacked(q, AnsweringFrames, AnsweringFrames)
      BY <1>0, <3>2 DEF WellStacked
    <3>4. \A u \in Threads : WellStacked(stack'[u], AnsweringFrames, AnsweringFrames)
      BY <1>0, <2>4, <3>1, <3>3
    <3>5. GameKeepsRunning'
      BY <1>0, <2>1, <2>7 DEF Return, GameKeepsRunning, slotVars
    <3> QED
      BY <2>1, <3>4, <3>5, AnsweringSame DEF AnswerInv, WellStacked
  <2>8. CASE Advances(t) /\ UNCHANGED crashed
    <3>1. PICK f \in HeldFrames : Answers(f) /\ SetTop(t, f)
      BY <2>2, <2>3, <2>8, Zenon DEF Advances
    <3> DEFINE p == [stack[t] EXCEPT ![Len(stack[t])] = f]
    <3>2. f \in Frame /\ f \in AnsweringFrames
      BY <3>1 DEF HeldFrames, AnsweringFrames
    <3>3. WellStacked(p, AnsweringFrames, AnsweringFrames)
      BY <1>0, <2>1, <2>4, <3>2, StackedTop
    <3>4. stack' = [stack EXCEPT ![t] = p]
      BY <3>1 DEF SetTop
    <3> HIDE DEF p
    <3>5. \A u \in Threads : WellStacked(stack'[u], AnsweringFrames, AnsweringFrames)
      BY <1>0, <2>4, <3>3, <3>4
    <3>6. GameKeepsRunning'
      BY <1>0, <2>1, <2>8 DEF GameKeepsRunning, slotVars
    <3> QED
      BY <2>1, <3>5, <3>6, AnsweringSame DEF AnswerInv, WellStacked
  <2> QED
    BY <1>7, <2>1, <2>2, <2>5, <2>6, <2>7, <2>8, DispatchAdvances
<1>8. ASSUME NEW t \in Threads, NEW m \in Methods, InstallBegins(t, m)
      PROVE  AnswerInv'
  <2>1. PICK k \in Thunks, s \in Slots : thunk[k] = 0 /\ thunk' = [thunk EXCEPT ![k] = s]
    BY <1>8 DEF InstallBegins, emit_thunk, Lowest
  <2>2. UNCHANGED <<stack, crashed, valid>>
    BY <1>8 DEF InstallBegins
  <2>3. \A j \in Thunks : thunk[j] # 0 => thunk'[j] = thunk[j]
    BY <1>0, <2>1 DEF SlotTypes
  <2> QED
    BY <2>2, <2>3, AnswersUndisturbed
<1>9. ASSUME NEW t \in Threads, NEW s \in Slots, Unpublish(t, s)
      PROVE  AnswerInv'
  BY <1>9, RemovalKeepsAnswers
<1> QED
  BY <1>1, <1>3, <1>5, <1>6, <1>7, <1>8, <1>9 DEF Next

(* The four invariants together hold in every reachable state.             *)
LEMMA AnswersHold ==
  ASSUME ~RemoveOwn, ~HookTwice, ~ProtectFails
  PROVE  Spec => []AnswerInv
<1>1. Init => AnswerInv
  <2> SUFFICES ASSUME Init PROVE AnswerInv
    OBVIOUS
  <2>1. crashed = "no" /\ \A t \in Threads : Len(stack[t]) = 0
    BY DEF Init
  <2> QED
    BY <2>1 DEF AnswerInv, WellStacked, GameKeepsRunning
<1>2. HookInv /\ EntryInv /\ [Next]_vars => EntryInv'
  BY NextEntries
<1>3. HookInv /\ HeldInv /\ [Next]_vars => HeldInv'
  BY NextHeld
<1>4. HookInv /\ EntryInv /\ HeldInv /\ AnswerInv /\ [Next]_vars => AnswerInv'
  BY NextAnswers
<1> QED
  BY <1>1, <1>2, <1>3, <1>4, InitEntries, InitHeld, HookInvariant, PTL DEF Spec

(***************************************************************************)
(* dispatcher.rs, "so the game keeps making progress": whatever threads    *)
(* install and remove hooks while the game runs, a call only runs into a   *)
(* freed thunk or a freed trampoline when another thread changes that very *)
(* hook meanwhile, and into a torn entry when it is being written at this  *)
(* moment (GameKeepsRunning), provided no handler removes its own hook, no *)
(* method is hooked twice and no restore is refused.                       *)
(***************************************************************************)
THEOREM GameRunsOn ==
  ASSUME ~RemoveOwn, ~HookTwice, ~ProtectFails
  PROVE  Spec => []GameKeepsRunning
<1>1. AnswerInv => GameKeepsRunning
  BY DEF AnswerInv
<1>2. Spec => []AnswerInv
  BY AnswersHold
<1> QED
  BY <1>1, <1>2, PTL

(***************************************************************************)
(* dispatcher.rs: under the same conditions every call that returns has    *)
(* run the original or carries a return value of the handler, or another   *)
(* thread was changing its hook meanwhile (NoCallSwallowed), however       *)
(* dispatches nest and threads interleave.                                 *)
(***************************************************************************)
THEOREM CallsAnswered ==
  ASSUME ~RemoveOwn, ~HookTwice, ~ProtectFails
  PROVE  Spec => []NoCallSwallowed
<1>1. AnswerInv => NoCallSwallowed
  BY DEF AnswerInv, WellStacked, AnsweringFrames, Answers, OnItsWay, NoCallSwallowed
<1>2. Spec => []AnswerInv
  BY AnswersHold
<1> QED
  BY <1>1, <1>2, PTL
=============================================================================
