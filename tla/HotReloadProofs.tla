--------------------------- MODULE HotReloadProofs ---------------------------
(***************************************************************************)
(* Proofs about HotReload, for any set of game threads, any number of hook *)
(* slots, any fuel and any bounds. The argument has two layers: the shape  *)
(* of the call stacks (ShapeInv), which every step keeps because a step    *)
(* replaces, pushes or pops one frame; and, on top of it, who may be       *)
(* inside a store (IInv). The last part is about reloads that no game      *)
(* thread and no detach runs into: there is one reload at a time (Busy),   *)
(* and SoloInv says what is left of the old runtime at each of its steps.  *)
(***************************************************************************)
EXTENDS HotReload, SequenceTheorems, TLAPS

USE ThreadsAssumption, ValuesAssumption, BoundsAssumption

-----------------------------------------------------------------------------
(* The shape of the stacks.                                                *)

\* The part of ShapeInv that a step on the stacks can disturb.
StackInv == StacksOK /\ StackShape /\ StartedOnce /\ PendingIsAwaited

InnerPcs == ReloadPcs \cup DispatchPcs

\* Frames of reloads and dispatches, with the fields their pc needs.
InnerFrame(f) ==
  /\ f \in Frame
  /\ f.pc \in InnerPcs
  /\ f.pc \in {"main", "handler", "insert"} => f.rt # 0
  /\ f.pc \in DispatchPcs => f.slot # 0

\* No step of this kind puts a store on a stack: a handler frame was one
\* before, and so was a frame with a runtime that is not parked yet.
CalmFrame(new, old) ==
  /\ new.pc = "handler" => old.pc = "handler" /\ new.rt = old.rt
  /\ new.pc \in {"main", "insert"} => old.pc \in {"main", "insert"} /\ new.rt = old.rt
FramesCalm ==
  \A u \in Threads : \A i \in 1..MaxDepth : CalmFrame(frames'[u][i], frames[u][i])

\* The active frame of a thread that is in a reload or a dispatch.
LEMMA TopIsInner ==
  ASSUME StackInv, NEW t \in Threads, NEW pc \in InnerPcs, At(t, pc)
  PROVE  /\ depth[t] \in 1..MaxDepth
         /\ Top(t) \in Frame /\ InnerFrame(Top(t))
         /\ Top(t) = frames[t][depth[t]]
         /\ t = Watcher => pending = None
  <1>1. depth[t] \in 1..MaxDepth /\ Top(t) = frames[t][depth[t]] /\ Top(t) \in Frame
    BY DEF StackInv, StacksOK, At, Top
  <1>2. InnerFrame(Top(t))
    BY <1>1 DEF StackInv, StackShape, FrameShape, InnerFrame, At
  <1>3. t = Watcher => pending = None
    BY <1>1 DEF StackInv, PendingIsAwaited, At, InnerPcs, ReloadPcs, DispatchPcs
  <1> QED BY <1>1, <1>2, <1>3

(* A blank frame is a frame with no obligation.                            *)
LEMMA BlankIsFrame ==
  /\ Blank \in Frame
  /\ Blank.pc = "none"
  /\ \A t, i : FrameShape(t, i, Blank)
  BY DEF Blank, Frame, Pcs, OtherPcs, FrameShape, WatcherPcs, DispatchPcs, Payloads

(* A reload or dispatch frame is allowed anywhere.                         *)
LEMMA InnerShape ==
  ASSUME NEW f, InnerFrame(f)
  PROVE  /\ f.pc \notin {"cold", "spawn_watcher"} \cup WatcherPcs \cup {"none"}
         /\ \A t, i : FrameShape(t, i, f)
  BY DEF InnerFrame, InnerPcs, ReloadPcs, DispatchPcs, WatcherPcs, FrameShape

(* Replacing the active frame by a reload or dispatch frame.               *)
LEMMA InnerSetTop ==
  ASSUME StackInv, NEW t \in Threads, NEW pc \in InnerPcs, At(t, pc),
         NEW f, InnerFrame(f), SetTop(t, f), pending' = pending \/ pending' = None
  PROVE  /\ StackInv'
         /\ \A u \in Threads : \A i \in 1..MaxDepth :
              frames'[u][i] = IF u = t /\ i = depth[t] THEN f ELSE frames[u][i]
         /\ CalmFrame(f, Top(t)) => FramesCalm
  <1>1. depth[t] \in 1..MaxDepth /\ (t = Watcher => pending = None)
    BY TopIsInner
  <1>2. StacksOK' /\ depth' = depth
    BY <1>1 DEF StackInv, StacksOK, SetTop, InnerFrame
  <1>3. \A u \in Threads : \A i \in 1..MaxDepth :
          frames'[u][i] = IF u = t /\ i = depth[t] THEN f ELSE frames[u][i]
    BY <1>1 DEF StackInv, StacksOK, SetTop
  <1>4. StackShape'
    BY <1>1, <1>2, <1>3, InnerShape DEF StackInv, StackShape, StacksOK
  <1>5. StartedOnce'
    BY <1>1, <1>2, <1>3, InnerShape DEF StackInv, StartedOnce, StacksOK, Threads
  <1>6. PendingIsAwaited'
    BY <1>1, <1>2, <1>3 DEF StackInv, PendingIsAwaited, StacksOK, Threads
  <1>7. CalmFrame(f, Top(t)) => FramesCalm
    BY <1>3 DEF FramesCalm, CalmFrame, Top
  <1> QED BY <1>2, <1>3, <1>4, <1>5, <1>6, <1>7 DEF StackInv

(* Pushing a reload or dispatch frame.                                     *)
LEMMA InnerCall ==
  ASSUME StackInv, NEW t \in Threads, NEW f, InnerFrame(f), Call(t, f),
         t \notin {Watcher, Worker} \/ \E pc \in InnerPcs : At(t, pc),
         UNCHANGED pending, f.pc \notin {"main", "handler", "insert"}
  PROVE  StackInv' /\ FramesCalm
  <1>1. depth[t] \in 0..MaxDepth /\ depth[t] + 1 \in 1..MaxDepth
    BY DEF StackInv, StacksOK, Call
  <1>2. StacksOK'
    BY <1>1 DEF StackInv, StacksOK, Call, InnerFrame
  <1>3. \A u \in Threads : \A i \in 1..MaxDepth :
          frames'[u][i] = IF u = t /\ i = depth[t] + 1 THEN f ELSE frames[u][i]
    BY <1>1 DEF StackInv, StacksOK, Call
  <1>4. \A u \in Threads : depth'[u] = IF u = t THEN depth[t] + 1 ELSE depth[u]
    BY DEF StackInv, StacksOK, Call
  <1>5. StackShape'
    <2> SUFFICES ASSUME NEW u \in Threads, NEW i \in 1..MaxDepth
                 PROVE  /\ FrameShape(u, i, frames'[u][i])
                        /\ i > depth'[u] => frames'[u][i] = Blank
      BY DEF StackShape, FrameShape
    <2>1. /\ FrameShape(u, i, frames[u][i])
          /\ i > depth[u] => frames[u][i] = Blank
          /\ depth[u] \in Nat
      BY DEF StackInv, StackShape, StacksOK
    <2> QED BY <1>1, <1>3, <1>4, <2>1, InnerShape
  <1>6. t = Watcher \/ t = Worker => depth[t] > 0
    BY DEF At
  <1>7. StartedOnce'
    BY <1>1, <1>3, <1>4, <1>6 DEF StackInv, StartedOnce, StacksOK, Threads
  <1>8. t = Watcher => pending = None
    BY TopIsInner
  <1>9. PendingIsAwaited'
    BY <1>1, <1>3, <1>4, <1>8 DEF StackInv, PendingIsAwaited, StacksOK, Threads
  <1>10. FramesCalm
    BY <1>3 DEF FramesCalm, CalmFrame
  <1> QED BY <1>2, <1>5, <1>7, <1>9, <1>10 DEF StackInv

(* Popping a reload or dispatch frame.                                     *)
LEMMA InnerReturn ==
  ASSUME StackInv, NEW t \in Threads, NEW pc \in InnerPcs, At(t, pc), Return(t),
         UNCHANGED pending
  PROVE  StackInv' /\ FramesCalm
  <1>1. depth[t] \in 1..MaxDepth /\ (t = Watcher => pending = None)
    BY TopIsInner
  <1>2. StacksOK'
    BY <1>1, BlankIsFrame DEF StackInv, StacksOK, Return
  <1>3. \A u \in Threads : \A i \in 1..MaxDepth :
          frames'[u][i] = IF u = t /\ i = depth[t] THEN Blank ELSE frames[u][i]
    BY <1>1 DEF StackInv, StacksOK, Return
  <1>4. \A u \in Threads : depth'[u] = IF u = t THEN depth[t] - 1 ELSE depth[u]
    BY DEF StackInv, StacksOK, Return
  <1>5. StackShape'
    BY <1>1, <1>3, <1>4, BlankIsFrame DEF StackInv, StackShape, StacksOK
  <1>6. StartedOnce'
    BY <1>1, <1>3, <1>4, BlankIsFrame DEF StackInv, StartedOnce, StacksOK, Threads
  <1>7. PendingIsAwaited'
    BY <1>1, <1>3, <1>4 DEF StackInv, PendingIsAwaited, StacksOK, Threads
  <1>8. FramesCalm
    BY <1>3, BlankIsFrame DEF FramesCalm, CalmFrame
  <1> QED BY <1>2, <1>5, <1>6, <1>7, <1>8 DEF StackInv

(* Moving the active frame on to another program counter.                  *)
LEMMA InnerGoto ==
  ASSUME StackInv, NEW t \in Threads, NEW pc \in InnerPcs, At(t, pc),
         NEW q \in InnerPcs \ {"main", "handler", "insert"},
         q \in DispatchPcs => pc \in DispatchPcs,
         Goto(t, q), UNCHANGED pending
  PROVE  StackInv' /\ FramesCalm
  <1> DEFINE f == [Top(t) EXCEPT !.pc = q]
  <1>1. InnerFrame(f) /\ CalmFrame(f, Top(t))
    BY TopIsInner DEF InnerFrame, InnerPcs, Frame, Pcs, CalmFrame, At
  <1>2. SetTop(t, f)
    BY DEF Goto
  <1> QED BY <1>1, <1>2, InnerSetTop

-----------------------------------------------------------------------------
(* Steps that put no store on a stack.                                     *)

DataOK == FileOK /\ RegistryOK /\ RuntimeOK /\ HooksOK /\ HistoryOK

(* ShapeInv is what the stacks and what the other state contribute to it.  *)
LEMMA ShapeSplit == (ShapeInv <=> StackInv /\ DataOK) /\ (ShapeInv' <=> StackInv' /\ DataOK')
  BY DEF ShapeInv, StackInv, DataOK, TypeOK

CalmStep ==
  /\ ShapeInv'
  /\ FramesCalm
  /\ UNCHANGED <<lock, registry, nextId, failed, dropped>>
  /\ \A s \in Slots : hooks'[s] \in {0, hooks[s]}

(* A step on the stacks alone.                                             *)
LEMMA QuietStep ==
  ASSUME ShapeInv, StackInv', FramesCalm,
         UNCHANGED <<fileVars, pending, regVars, rtVars, hookVars, aborted, histVars>>
  PROVE  CalmStep
  BY ShapeSplit DEF CalmStep, DataOK, FileOK, RegistryOK, RuntimeOK, HooksOK, HistoryOK,
     fileVars, regVars, rtVars, hookVars, histVars

(* remove_hook only invalidates a slot.                                    *)
LEMMA RemoveHookOK ==
  ASSUME HooksOK, NEW s \in Slots, RemoveHook(s)
  PROVE  HooksOK' /\ \A u \in Slots : hooks'[u] \in {0, hooks[u]}
  BY DEF HooksOK, RemoveHook, Slots

(* The steps of registry_reload up to Step 3, its early returns and its    *)
(* end.                                                                    *)
LEMMA ReloadCalm ==
  ASSUME ShapeInv, NEW t \in Threads,
         \/ ReloadPoisoned(t) \/ ReloadEmpty(t) \/ ReloadSnapshot(t)
         \/ RevertEntry(t) \/ CollectOwned(t) \/ UnhookOwned(t)
         \/ ReloadWriteState(t) \/ SpawnParseError(t) \/ MainReturns(t)
  PROVE  CalmStep
  <1> USE ShapeSplit
  <1>1. CASE ReloadPoisoned(t)
    <2>1. PICK pc \in InnerPcs : At(t, pc)
      BY <1>1 DEF ReloadPoisoned, AtDrop, InnerPcs, ReloadPcs
    <2>2. StackInv' /\ FramesCalm
      BY <1>1, <2>1, InnerReturn DEF ReloadPoisoned
    <2> QED BY <1>1, <2>2, QuietStep DEF ReloadPoisoned
  <1>2. CASE ReloadEmpty(t)
    <2>1. StackInv' /\ FramesCalm
      BY <1>2, InnerGoto DEF ReloadEmpty, InnerPcs, ReloadPcs, DispatchPcs
    <2> QED BY <1>2, <2>1, QuietStep DEF ReloadEmpty
  <1>3. CASE ReloadSnapshot(t)
    <2> DEFINE cur == Head(registry)
               f == [Top(t) EXCEPT !.pc = "revert", !.rt = cur, !.entries = journal[cur]]
    <2>1. At(t, "lock1") /\ "lock1" \in InnerPcs /\ SetTop(t, f) /\ UNCHANGED pending
      BY <1>3 DEF ReloadSnapshot, InnerPcs, ReloadPcs
    <2>2. cur \in Ids /\ journal[cur] \in SUBSET Entries
      BY <1>3 DEF ReloadSnapshot, DataOK, RegistryOK, RuntimeOK
    <2> HIDE DEF cur
    <2>3. InnerFrame(f) /\ CalmFrame(f, Top(t))
      <3>1. Top(t) \in Frame
        BY <2>1, TopIsInner
      <3>2. cur \in 0..MaxId
        BY <2>2 DEF Ids
      <3>3. "revert" \in Pcs \cap InnerPcs
        BY DEF Pcs, InnerPcs, ReloadPcs
      <3>4. f \in Frame
        BY <2>2, <3>1, <3>2, <3>3 DEF Frame
      <3>5. f.pc = "revert"
        BY <3>1 DEF Frame
      <3> QED BY <3>3, <3>4, <3>5 DEF InnerFrame, DispatchPcs, CalmFrame
    <2>4. StackInv' /\ FramesCalm
      BY <2>1, <2>3, InnerSetTop
    <2>5. DataOK'
      BY <1>3, <2>2 DEF ReloadSnapshot, DataOK, FileOK, RegistryOK, RuntimeOK, HooksOK,
         HistoryOK, fileVars, regVars, hookVars, histVars
    <2> QED BY <1>3, <2>4, <2>5 DEF CalmStep, ReloadSnapshot, regVars, hookVars, histVars
  <1>4. CASE RevertEntry(t)
    <2>1. PICK e \in Top(t).entries :
            /\ \/ mem' = [mem EXCEPT ![e.addr] = e.orig] /\ unrestored' = unrestored
               \/ mem' = mem /\ unrestored' = unrestored \cup {<<e.addr, Top(t).rt>>}
            /\ SetTop(t, [Top(t) EXCEPT !.entries = @ \ {e}])
      BY <1>4 DEF RevertEntry
    <2> DEFINE f == [Top(t) EXCEPT !.entries = @ \ {e}]
    <2>2. At(t, "revert") /\ "revert" \in InnerPcs /\ UNCHANGED pending
      BY <1>4 DEF RevertEntry, InnerPcs, ReloadPcs
    <2>3. InnerFrame(f) /\ CalmFrame(f, Top(t)) /\ e \in Entries
      BY <2>2, TopIsInner DEF InnerFrame, Frame, CalmFrame
    <2>4. StackInv' /\ FramesCalm
      BY <2>1, <2>2, <2>3, InnerSetTop
    <2>6. <<e.addr, Top(t).rt>> \in Addrs \X (0..MaxId)
      BY <2>2, <2>3, TopIsInner DEF Frame, Entries
    <2>7. HistoryOK'
      BY <1>4, <2>1, <2>6 DEF RevertEntry, DataOK, HistoryOK
    <2>5. DataOK'
      BY <1>4, <2>1, <2>3, <2>7 DEF RevertEntry, DataOK, FileOK, RegistryOK, RuntimeOK, HooksOK,
         fileVars, regVars, hookVars, histVars, Entries
    <2> QED BY <1>4, <2>4, <2>5 DEF CalmStep, RevertEntry, regVars, hookVars, histVars
  <1>5. CASE CollectOwned(t)
    <2> DEFINE f == [Top(t) EXCEPT !.pc = "unhook",
                                   !.todo = {s \in Slots : hooks[s] = Top(t).rt}]
    <2>1. At(t, "revert") /\ "revert" \in InnerPcs /\ SetTop(t, f) /\ UNCHANGED pending
      BY <1>5 DEF CollectOwned, InnerPcs, ReloadPcs
    <2>2. InnerFrame(f) /\ CalmFrame(f, Top(t))
      <3>1. Top(t) \in Frame
        BY <2>1, TopIsInner
      <3> QED BY <3>1
          DEF InnerFrame, InnerPcs, ReloadPcs, DispatchPcs, Frame, Pcs, CalmFrame
    <2>3. StackInv' /\ FramesCalm
      BY <2>1, <2>2, InnerSetTop
    <2> QED BY <1>5, <2>3, QuietStep DEF CollectOwned
  <1>6. CASE UnhookOwned(t)
    <2>1. PICK s \in Top(t).todo :
            RemoveHook(s) /\ SetTop(t, [Top(t) EXCEPT !.todo = @ \ {s}])
      BY <1>6 DEF UnhookOwned
    <2> DEFINE f == [Top(t) EXCEPT !.todo = @ \ {s}]
    <2>2. At(t, "unhook") /\ "unhook" \in InnerPcs /\ UNCHANGED pending
      BY <1>6 DEF UnhookOwned, InnerPcs, ReloadPcs
    <2>3. InnerFrame(f) /\ CalmFrame(f, Top(t)) /\ s \in Slots
      BY <2>2, TopIsInner DEF InnerFrame, Frame, CalmFrame
    <2>4. StackInv' /\ FramesCalm
      BY <2>1, <2>2, <2>3, InnerSetTop
    <2>5. HooksOK' /\ \A u \in Slots : hooks'[u] \in {0, hooks[u]}
      BY <2>1, <2>3, RemoveHookOK DEF DataOK
    <2>6. DataOK'
      BY <1>6, <2>5 DEF UnhookOwned, DataOK, FileOK, RegistryOK, RuntimeOK, HistoryOK,
         fileVars, regVars, rtVars, histVars
    <2> QED BY <1>6, <2>4, <2>5, <2>6 DEF CalmStep, UnhookOwned, regVars, rtVars, histVars
  <1>7. CASE ReloadWriteState(t)
    <2>1. StackInv' /\ FramesCalm
      BY <1>7, InnerReturn DEF ReloadWriteState, InnerPcs, ReloadPcs
    <2> QED BY <1>7, <2>1, QuietStep DEF ReloadWriteState
  <1>8. CASE SpawnParseError(t)
    <2>1. StackInv' /\ FramesCalm
      BY <1>8, InnerGoto DEF SpawnParseError, InnerPcs, ReloadPcs, DispatchPcs
    <2> QED BY <1>8, <2>1, QuietStep DEF SpawnParseError
  <1>9. CASE MainReturns(t)
    <2> DEFINE f == [Top(t) EXCEPT !.pc = "insert"]
    <2>1. At(t, "main") /\ "main" \in InnerPcs /\ SetTop(t, f) /\ UNCHANGED pending
      BY <1>9 DEF MainReturns, Goto, InnerPcs, ReloadPcs
    <2>2. InnerFrame(f) /\ CalmFrame(f, Top(t))
      BY <2>1, TopIsInner
      DEF InnerFrame, InnerPcs, ReloadPcs, DispatchPcs, Frame, Pcs, CalmFrame, At
    <2>3. StackInv' /\ FramesCalm
      BY <2>1, <2>2, InnerSetTop
    <2> QED BY <1>9, <2>3, QuietStep DEF MainReturns
  <1> QED BY <1>1, <1>2, <1>3, <1>4, <1>5, <1>6, <1>7, <1>8, <1>9

(* A step that leaves the stacks alone.                                    *)
LEMMA SameStack ==
  ASSUME StackInv, UNCHANGED stackVars, UNCHANGED pending
  PROVE  StackInv' /\ FramesCalm
  BY DEF StackInv, StacksOK, StackShape, FrameShape, StartedOnce, PendingIsAwaited, stackVars,
     FramesCalm, CalmFrame

(* A script runs in a runtime that was spawned.                            *)
LEMMA ScriptRuntime ==
  ASSUME ShapeInv, NEW t \in Threads, At(t, "main") \/ At(t, "handler")
  PROVE  /\ Top(t).rt \in Ids
         /\ \E pc \in {"main", "handler"} : pc \in InnerPcs /\ At(t, pc)
  <1>1. PICK pc \in {"main", "handler"} : pc \in InnerPcs /\ At(t, pc)
    BY DEF InnerPcs, ReloadPcs, DispatchPcs
  <1>2. InnerFrame(Top(t)) /\ Top(t).pc = pc
    BY <1>1, TopIsInner, ShapeSplit DEF At
  <1> QED BY <1>1, <1>2 DEF InnerFrame, Frame, Ids

(* A host call burns fuel that is there.                                   *)
LEMMA BurnOK ==
  ASSUME ShapeInv, NEW t \in Threads, InWasm(t), Burn(t)
  PROVE  fuel' \in [Ids -> 0..MaxFuel]
  <1>1. Top(t).rt \in Ids /\ fuel \in [Ids -> 0..MaxFuel] /\ fuel[Top(t).rt] > 0
    BY ScriptRuntime, ShapeSplit DEF InWasm, DataOK, RuntimeOK
  <1> QED BY <1>1 DEF Burn

(* A reload frame, as registry_reload is entered with the bytes b.         *)
LEMMA ReloadFrameInner ==
  ASSUME NEW b \in Payloads
  PROVE  /\ InnerFrame(ReloadFrame(b)) /\ ReloadFrame(b).pc = "lock1"
         /\ ReloadFrame(b) \in Frame
  <1>1. "lock1" \in Pcs \cap InnerPcs
    BY DEF Pcs, InnerPcs, ReloadPcs
  <1>2. ReloadFrame(b) \in Frame /\ ReloadFrame(b).pc = "lock1"
    BY <1>1, BlankIsFrame DEF ReloadFrame, Frame
  <1> QED BY <1>1, <1>2 DEF InnerFrame, DispatchPcs

(* Pushing the dispatch of a hooked method.                                *)
LEMMA DispatchFrameInner ==
  ASSUME NEW s \in Slots
  PROVE  InnerFrame(DispatchFrame(s)) /\ DispatchFrame(s).pc = "dispatch"
  <1>1. DispatchFrame(s) \in Frame
    <2>1. "dispatch" \in Pcs /\ s \in 0..MaxHooks
      BY DEF Pcs, DispatchPcs, Slots
    <2> QED BY <2>1, BlankIsFrame DEF DispatchFrame, Frame
  <1>2. DispatchFrame(s).pc = "dispatch" /\ DispatchFrame(s).slot = s
    BY BlankIsFrame DEF DispatchFrame, Frame
  <1> QED BY <1>1, <1>2 DEF InnerFrame, InnerPcs, DispatchPcs, Slots

(* The host calls of a script, install_hook's publish excepted.            *)
LEMMA ScriptCalm ==
  ASSUME ShapeInv, NEW t \in Threads,
         \/ \E a \in Addrs : Write(t, a)
         \/ Compute(t) \/ RecordHook(t)
         \/ \E s \in Slots : ScriptRemovesHook(t, s) \/ ScriptRunsGame(t, s)
  PROVE  CalmStep
  <1> USE ShapeSplit
  <1>1. ASSUME NEW a \in Addrs, Write(t, a) PROVE CalmStep
    <2>1. StackInv' /\ FramesCalm
      BY <1>1, SameStack DEF Write
    <2>2. fuel' \in [Ids -> 0..MaxFuel] /\ Top(t).rt \in Ids
      BY <1>1, BurnOK, ScriptRuntime DEF Write, InWasm
    <2>3. journal' \in [Ids -> SUBSET Entries] /\ mem' \in [Addrs -> 0..MaxId]
      <3>1. [addr |-> a, orig |-> mem[a]] \in Entries
        BY DEF DataOK, RuntimeOK, Entries
      <3>2. journal' \in [Ids -> SUBSET Entries]
        BY <1>1, <2>2, <3>1 DEF Write, Touch, DataOK, RuntimeOK
      <3>3. mem' = mem \/ mem' = [mem EXCEPT ![a] = Top(t).rt]
        BY <1>1 DEF Write
      <3> QED BY <2>2, <3>2, <3>3 DEF DataOK, RuntimeOK, Ids
    <2>6. HistoryOK'
      <3>1. <<a, Top(t).rt>> \in Addrs \X (0..MaxId)
        BY <2>2 DEF Ids
      <3> QED BY <1>1, <3>1 DEF Write, DataOK, HistoryOK
    <2>4. DataOK'
      BY <1>1, <2>2, <2>3, <2>6 DEF Write, DataOK, FileOK, RegistryOK, RuntimeOK, HooksOK,
         fileVars, regVars, hookVars, histVars
    <2> QED BY <1>1, <2>1, <2>4 DEF CalmStep, Write, regVars, hookVars, histVars
  <1>2. CASE Compute(t)
    <2>1. StackInv' /\ FramesCalm
      BY <1>2, SameStack DEF Compute
    <2>2. fuel' \in [Ids -> 0..MaxFuel]
      BY <1>2, BurnOK DEF Compute
    <2>3. DataOK'
      BY <1>2, <2>2 DEF Compute, DataOK, FileOK, RegistryOK, RuntimeOK, HooksOK, HistoryOK,
         fileVars, regVars, hookVars, histVars
    <2> QED BY <1>2, <2>1, <2>3 DEF CalmStep, Compute, regVars, hookVars, histVars
  <1>3. CASE RecordHook(t)
    <2> DEFINE f == [Top(t) EXCEPT !.todo = {}]
    <2>1. PICK pc \in {"main", "handler"} : pc \in InnerPcs /\ At(t, pc)
      BY <1>3, ScriptRuntime DEF RecordHook
    <2>2. SetTop(t, f) /\ UNCHANGED pending
      BY <1>3 DEF RecordHook
    <2>3. Top(t) \in Frame /\ InnerFrame(Top(t))
      BY <2>1, TopIsInner
    <2>4. InnerFrame(f) /\ CalmFrame(f, Top(t))
      BY <2>3 DEF InnerFrame, Frame, CalmFrame
    <2>5. StackInv' /\ FramesCalm
      BY <2>1, <2>2, <2>4, InnerSetTop
    <2>6. Top(t).todo \subseteq Slots
      BY <2>3 DEF Frame
    <2>7. DataOK'
      BY <1>3, <2>6 DEF RecordHook, DataOK, FileOK, RegistryOK, RuntimeOK, HooksOK, HistoryOK,
         fileVars, rtVars, histVars
    <2> QED BY <1>3, <2>5, <2>7 DEF CalmStep, RecordHook, rtVars, histVars
  <1>4. ASSUME NEW s \in Slots, ScriptRemovesHook(t, s) PROVE CalmStep
    <2>1. StackInv' /\ FramesCalm
      BY <1>4, SameStack DEF ScriptRemovesHook
    <2>2. fuel' \in [Ids -> 0..MaxFuel]
      BY <1>4, BurnOK DEF ScriptRemovesHook
    <2>3. HooksOK' /\ \A u \in Slots : hooks'[u] \in {0, hooks[u]}
      BY <1>4, RemoveHookOK DEF ScriptRemovesHook, DataOK
    <2>4. DataOK'
      BY <1>4, <2>2, <2>3 DEF ScriptRemovesHook, DataOK, FileOK, RegistryOK, RuntimeOK,
         HistoryOK, fileVars, regVars, histVars
    <2> QED BY <1>4, <2>1, <2>3, <2>4 DEF CalmStep, ScriptRemovesHook, regVars, histVars
  <1>5. ASSUME NEW s \in Slots, ScriptRunsGame(t, s) PROVE CalmStep
    <2>1. \E pc \in InnerPcs : At(t, pc)
      BY <1>5, ScriptRuntime DEF ScriptRunsGame, InWasm
    <2>2. StackInv' /\ FramesCalm
      BY <1>5, <2>1, InnerCall, DispatchFrameInner DEF ScriptRunsGame
    <2>3. fuel' \in [Ids -> 0..MaxFuel]
      BY <1>5, BurnOK DEF ScriptRunsGame
    <2>4. DataOK'
      BY <1>5, <2>3 DEF ScriptRunsGame, DataOK, FileOK, RegistryOK, RuntimeOK, HooksOK,
         HistoryOK, fileVars, regVars, hookVars, histVars
    <2> QED BY <1>5, <2>2, <2>4 DEF CalmStep, ScriptRunsGame, regVars, hookVars, histVars
  <1> QED BY <1>1, <1>2, <1>3, <1>4, <1>5

(* The dispatch of a hook, the entry into and exit from the store          *)
(* excepted.                                                               *)
LEMMA DispatchCalm ==
  ASSUME ShapeInv, NEW t \in Threads,
         \/ \E s \in Slots : GameCalls(t, s)
         \/ DispatchUnpublished(t) \/ DispatchReentrant(t) \/ DispatchFresh(t)
         \/ ObserverFires(t) \/ ReplayReturns(t) \/ DispatchReturns(t) \/ Piggyback(t)
  PROVE  CalmStep
  <1> USE ShapeSplit
  <1> USE DEF InnerPcs, DispatchPcs
  <1>1. ASSUME NEW s \in Slots, GameCalls(t, s) PROVE CalmStep
    <2>1. t \notin {Watcher, Worker} \/ \E pc \in InnerPcs : At(t, pc)
      BY <1>1 DEF GameCalls
    <2>2. StackInv' /\ FramesCalm
      BY <1>1, <2>1, InnerCall, DispatchFrameInner DEF GameCalls
    <2> QED BY <1>1, <2>2, QuietStep DEF GameCalls
  <1>2. CASE DispatchUnpublished(t)
    <2>1. StackInv' /\ FramesCalm
      BY <1>2, InnerReturn DEF DispatchUnpublished
    <2> QED BY <1>2, <2>1, QuietStep DEF DispatchUnpublished
  <1>3. CASE DispatchReentrant(t)
    <2>1. StackInv' /\ FramesCalm
      BY <1>3, InnerGoto DEF DispatchReentrant
    <2> QED BY <1>3, <2>1, QuietStep DEF DispatchReentrant
  <1>4. CASE ObserverFires(t)
    <2>1. StackInv' /\ FramesCalm
      BY <1>4, InnerGoto DEF ObserverFires
    <2> QED BY <1>4, <2>1, QuietStep DEF ObserverFires
  <1>5. CASE DispatchFresh(t)
    <2>1. StackInv' /\ FramesCalm
      BY <1>5, InnerGoto DEF DispatchFresh
    <2>2. Top(t).slot \in Slots
      BY <1>5, TopIsInner DEF DispatchFresh, InnerFrame, Frame, Slots, At
    <2>3. DataOK'
      BY <1>5, <2>2 DEF DispatchFresh, DataOK, FileOK, RegistryOK, RuntimeOK, HooksOK,
         HistoryOK, fileVars, regVars, rtVars, histVars
    <2> QED BY <1>5, <2>1, <2>3 DEF CalmStep, DispatchFresh, regVars, rtVars, histVars
  <1>6. CASE ReplayReturns(t)
    <2>1. StackInv' /\ FramesCalm
      BY <1>6, InnerReturn DEF ReplayReturns
    <2>2. DataOK'
      BY <1>6 DEF ReplayReturns, DataOK, FileOK, RegistryOK, RuntimeOK, HooksOK,
         HistoryOK, fileVars, regVars, rtVars, histVars
    <2> QED BY <1>6, <2>1, <2>2 DEF CalmStep, ReplayReturns, regVars, rtVars, histVars
  <1>7. CASE DispatchReturns(t)
    <2>1. StackInv' /\ FramesCalm
      BY <1>7, InnerReturn DEF DispatchReturns
    <2>2. DataOK'
      BY <1>7 DEF DispatchReturns, DataOK, FileOK, RegistryOK, RuntimeOK, HooksOK,
         HistoryOK, fileVars, regVars, rtVars, histVars
    <2> QED BY <1>7, <2>1, <2>2 DEF CalmStep, DispatchReturns, regVars, rtVars, histVars
  <1>8. CASE Piggyback(t)
    <2> DEFINE f == [ReloadFrame(pending) EXCEPT !.slot = Top(t).slot]
    <2>1. PICK pc \in InnerPcs : At(t, pc)
      BY <1>8 DEF Piggyback
    <2>2. SetTop(t, f) /\ pending' = None /\ pending \in Payloads
      BY <1>8 DEF Piggyback, DataOK, FileOK
    <2>3. Top(t) \in Frame
      BY <2>1, TopIsInner
    <2>4. f \in Frame /\ f.pc = "lock1"
      BY <2>2, <2>3, ReloadFrameInner DEF Frame
    <2>5. InnerFrame(f) /\ CalmFrame(f, Top(t))
      BY <2>4 DEF InnerFrame, CalmFrame, ReloadPcs
    <2>6. StackInv' /\ FramesCalm
      BY <2>1, <2>2, <2>5, InnerSetTop
    <2>7. DataOK'
      <3>1. HistoryOK'
        BY <1>8 DEF Piggyback, DataOK, HistoryOK
      <3> QED BY <1>8, <3>1 DEF Piggyback, DataOK, FileOK, RegistryOK, RuntimeOK, HooksOK,
                 fileVars, regVars, rtVars
    <2> QED BY <1>8, <2>6, <2>7 DEF CalmStep, Piggyback, regVars, rtVars
  <1> QED BY <1>1, <1>2, <1>3, <1>4, <1>5, <1>6, <1>7, <1>8

(* The watcher's own frame is the first of its stack.                      *)
LEMMA WatcherTop ==
  ASSUME StackInv, NEW pc \in WatcherPcs, At(Watcher, pc)
  PROVE  /\ Watcher \in Threads /\ depth[Watcher] = 1
         /\ Top(Watcher) = frames[Watcher][1] /\ Top(Watcher) \in Frame
         /\ Top(Watcher).pc = pc
         /\ pending # None => pc = "wait"
  <1>1. /\ Watcher \in Threads /\ depth[Watcher] \in 1..MaxDepth
        /\ Top(Watcher) = frames[Watcher][depth[Watcher]] /\ Top(Watcher) \in Frame
        /\ Top(Watcher).pc = pc
    BY DEF StackInv, StacksOK, At, Top, Threads
  <1>2. depth[Watcher] = 1
    BY <1>1 DEF StackInv, StackShape, FrameShape
  <1> QED BY <1>1, <1>2 DEF StackInv, PendingIsAwaited

(* The watcher's loop goes from one of its frames to another.              *)
LEMMA WatcherMoves ==
  ASSUME StackInv, NEW pc \in WatcherPcs, At(Watcher, pc),
         NEW f \in Frame, f.pc \in WatcherPcs, SetTop(Watcher, f),
         pending' # None => f.pc = "wait"
  PROVE  StackInv' /\ FramesCalm
  <1>1. Watcher \in Threads /\ depth[Watcher] = 1 /\ 1 \in 1..MaxDepth
    BY WatcherTop
  <1>2. StacksOK' /\ depth' = depth
    BY <1>1 DEF StackInv, StacksOK, SetTop
  <1>3. \A u \in Threads : \A i \in 1..MaxDepth :
          frames'[u][i] = IF u = Watcher /\ i = 1 THEN f ELSE frames[u][i]
    BY <1>1 DEF StackInv, StacksOK, SetTop
  <1>4. FrameShape(Watcher, 1, f) /\ f.pc \notin {"main", "handler", "insert"}
    BY DEF FrameShape, WatcherPcs, DispatchPcs
  <1>5. StackShape'
    BY <1>1, <1>2, <1>3, <1>4 DEF StackInv, StackShape, StacksOK
  <1>6. StartedOnce'
    BY <1>1, <1>2, <1>3 DEF StackInv, StartedOnce, StacksOK, Threads
  <1>7. PendingIsAwaited'
    BY <1>1, <1>2, <1>3 DEF PendingIsAwaited
  <1>8. FramesCalm
    BY <1>3, <1>4 DEF FramesCalm, CalmFrame
  <1> QED BY <1>2, <1>5, <1>6, <1>7, <1>8 DEF StackInv

(* The watcher and the worker call registry_reload from their own frame.   *)
LEMMA OuterCall ==
  ASSUME StackInv, NEW t \in {Watcher, Worker}, depth[t] = 1, ~aborted,
         NEW q, NEW b \in Payloads, CallFrom(t, q, ReloadFrame(b)),
         \/ t = Watcher /\ frames[t][1].pc \in WatcherPcs /\ q = "settle" /\ pending' = None
         \/ /\ t = Worker /\ frames[t][1].pc = "cold" /\ q = "spawn_watcher"
            /\ UNCHANGED pending
  PROVE  StackInv' /\ FramesCalm
  <1> DEFINE g == [frames[t][1] EXCEPT !.pc = q]
             f == ReloadFrame(b)
  <1>1. t \in Threads /\ 1 \in 1..MaxDepth /\ 2 \in 1..MaxDepth /\ frames[t][1] \in Frame
    BY DEF Threads, StackInv, StacksOK, CallFrom
  <1>2. InnerFrame(f) /\ f.pc = "lock1" /\ f \in Frame
    BY ReloadFrameInner
  <1>3. q \in Pcs
    BY DEF Pcs, WatcherPcs, OtherPcs
  <1>4. g \in Frame /\ g.pc = q
    BY <1>1, <1>3 DEF Frame
  <1> HIDE DEF f, g
  <1>5. \A u \in Threads : \A i \in 1..MaxDepth :
          frames'[u][i] = IF u = t /\ i = 1 THEN g ELSE
                          IF u = t /\ i = 2 THEN f ELSE frames[u][i]
    BY <1>1 DEF StackInv, StacksOK, CallFrom, Top, f, g
  <1>6. depth' = [depth EXCEPT ![t] = 2]
    BY <1>1 DEF CallFrom, StackInv, StacksOK
  <1>7. /\ frames' \in [Threads -> [1..MaxDepth -> Frame]]
        /\ depth' \in [Threads -> 0..MaxDepth]
    <2> DEFINE h == [frames[t] EXCEPT ![1] = g, ![2] = f]
    <2>1. h \in [1..MaxDepth -> Frame]
      BY <1>1, <1>2, <1>4 DEF StackInv, StacksOK
    <2>2. frames' = [frames EXCEPT ![t] = h]
      BY DEF CallFrom, Top, f, g
    <2> HIDE DEF h
    <2>3. frames' \in [Threads -> [1..MaxDepth -> Frame]]
      BY <2>1, <2>2 DEF StackInv, StacksOK
    <2>4. depth \in [Threads -> 0..MaxDepth] /\ 2 \in 0..MaxDepth
      BY <1>1 DEF StackInv, StacksOK
    <2>5. depth' \in [Threads -> 0..MaxDepth]
      BY <1>6, <2>4
    <2> QED BY <2>3, <2>5
  <1>8. \A u \in Threads : depth'[u] = IF u = t THEN 2 ELSE depth[u]
    BY <1>1, <1>6 DEF StackInv, StacksOK
  <1>9. StacksOK'
    BY <1>7 DEF StacksOK
  <1>10. FrameShape(t, 1, g) /\ FrameShape(t, 2, f)
    BY <1>2, <1>4, InnerShape DEF FrameShape, WatcherPcs, DispatchPcs
  <1>11. StackShape'
    <2> SUFFICES ASSUME NEW u \in Threads, NEW i \in 1..MaxDepth
                 PROVE  /\ FrameShape(u, i, frames'[u][i])
                        /\ i > depth'[u] => frames'[u][i] = Blank
      BY DEF StackShape, FrameShape
    <2>1. /\ FrameShape(u, i, frames[u][i])
          /\ i > depth[u] => frames[u][i] = Blank
          /\ depth[u] \in Nat
      BY DEF StackInv, StackShape, StacksOK
    <2> QED BY <1>5, <1>8, <1>10, <2>1
  <1>12. StartedOnce'
    BY <1>1, <1>4, <1>5, <1>8, <1>10 DEF StackInv, StartedOnce, StacksOK, Threads, FrameShape
  <1>13. PendingIsAwaited'
    BY <1>1, <1>5, <1>8 DEF StackInv, PendingIsAwaited, Threads
  <1>14. FramesCalm
    BY <1>2, <1>4, <1>5 DEF FramesCalm, CalmFrame
  <1> QED BY <1>9, <1>11, <1>12, <1>13, <1>14 DEF StackInv

(* A step of the watcher that only moves its own frame.                    *)
LEMMA WatcherGoto ==
  ASSUME StackInv, NEW pc \in WatcherPcs, At(Watcher, pc),
         NEW q \in WatcherPcs, Goto(Watcher, q), UNCHANGED pending,
         pc = "wait" => pending = None
  PROVE  StackInv' /\ FramesCalm
  <1> DEFINE f == [Top(Watcher) EXCEPT !.pc = q]
  <1>1. f \in Frame /\ f.pc = q /\ pending = None
    BY WatcherTop DEF Frame, Pcs
  <1> QED BY <1>1, WatcherMoves DEF Goto

(* The watcher publishes b and starts to wait.                             *)
LEMMA WatcherPublishes ==
  ASSUME ShapeInv, NEW pc \in WatcherPcs, At(Watcher, pc), NEW b \in Payloads,
         pending' = b, applied' = 0, elapsed' = 0,
         SetTop(Watcher, [Top(Watcher) EXCEPT !.pc = "wait", !.arg = b]),
         UNCHANGED <<file, stopping, lastSeen, regVars, rtVars, hookVars, aborted,
                     failed, dropped, unread, unrestored>>
  PROVE  CalmStep
  <1> DEFINE f == [Top(Watcher) EXCEPT !.pc = "wait", !.arg = b]
  <1>1. "wait" \in Pcs \cap WatcherPcs
    BY DEF Pcs, WatcherPcs
  <1>2. f \in Frame /\ f.pc = "wait"
    BY <1>1, WatcherTop, ShapeSplit DEF Frame
  <1>3. StackInv' /\ FramesCalm
    BY <1>1, <1>2, WatcherMoves, ShapeSplit
  <1>4. FileOK' /\ HistoryOK'
    <2>1. FileOK'
      BY ShapeSplit DEF DataOK, FileOK
    <2>2. HistoryOK'
      BY ShapeSplit DEF DataOK, HistoryOK
    <2> QED BY <2>1, <2>2
  <1>5. DataOK'
    BY <1>4, ShapeSplit DEF DataOK, RegistryOK, RuntimeOK, HooksOK, regVars, rtVars, hookVars
  <1> QED BY <1>3, <1>5, ShapeSplit DEF CalmStep, regVars, rtVars, hookVars

(* The watcher's steps, before it is inside a reload.                      *)
LEMMA WatcherCalm ==
  ASSUME ShapeInv, WatcherStep
  PROVE  CalmStep
  <1> USE ShapeSplit
  <1>0. AtStat => \E pc \in {"poll", "beat"} : At(Watcher, pc)
    BY DEF AtStat
  <1> USE DEF WatcherPcs
  <1>1. CASE WatcherExit
    <2>1. At(Watcher, "poll") /\ Return(Watcher) /\ UNCHANGED pending
      BY <1>1 DEF WatcherExit
    <2>2. Watcher \in Threads /\ depth[Watcher] = 1 /\ 1 \in 1..MaxDepth /\ pending = None
      BY <2>1, WatcherTop
    <2>3. \A u \in Threads : \A i \in 1..MaxDepth :
            frames'[u][i] = IF u = Watcher /\ i = 1 THEN Blank ELSE frames[u][i]
      BY <2>1, <2>2 DEF StackInv, StacksOK, Return
    <2>4. \A u \in Threads : depth'[u] = IF u = Watcher THEN 0 ELSE depth[u]
      BY <2>1, <2>2 DEF StackInv, StacksOK, Return
    <2>5. StacksOK'
      BY <2>1, <2>2, BlankIsFrame DEF StackInv, StacksOK, Return
    <2>6. StackShape'
      BY <2>2, <2>3, <2>4, BlankIsFrame DEF StackInv, StackShape, StacksOK
    <2>7. StartedOnce' /\ PendingIsAwaited'
      BY <2>1, <2>2, <2>4 DEF StartedOnce, PendingIsAwaited
    <2>8. FramesCalm
      BY <2>3, BlankIsFrame DEF FramesCalm, CalmFrame
    <2>9. StackInv'
      BY <2>5, <2>6, <2>7 DEF StackInv
    <2> QED BY <1>1, <2>8, <2>9, QuietStep DEF WatcherExit
  <1>2. CASE WatcherHeartbeat
    <2>1. StackInv' /\ FramesCalm
      BY <1>2, WatcherGoto DEF WatcherHeartbeat
    <2> QED BY <1>2, <2>1, QuietStep DEF WatcherHeartbeat
  <1>3. CASE WatcherUnchanged
    <2>1. StackInv' /\ FramesCalm
      BY <1>0, <1>3, WatcherGoto DEF WatcherUnchanged
    <2> QED BY <1>3, <2>1, QuietStep DEF WatcherUnchanged
  <1>4. CASE WatcherDeleted
    BY <1>0, <1>4, WatcherPublishes DEF WatcherDeleted, Payloads
  <1>5. CASE WatcherSighted
    <2>1. StackInv' /\ FramesCalm
      BY <1>0, <1>5, WatcherGoto DEF WatcherSighted
    <2>2. DataOK'
      BY <1>5 DEF WatcherSighted, DataOK, FileOK, RegistryOK, RuntimeOK, HooksOK, HistoryOK,
         regVars, rtVars, hookVars, histVars
    <2> QED BY <1>5, <2>1, <2>2 DEF CalmStep, WatcherSighted, regVars, rtVars, hookVars, histVars
  <1>6. CASE TryLoadFails
    <2>1. StackInv' /\ FramesCalm
      BY <1>6, WatcherGoto DEF TryLoadFails
    <2>2. FileOK' /\ HistoryOK'
      BY <1>6 DEF TryLoadFails, DataOK, FileOK, HistoryOK, fileVars
    <2>3. DataOK'
      BY <1>6, <2>2 DEF TryLoadFails, DataOK, RegistryOK, RuntimeOK, HooksOK, regVars, rtVars, hookVars
    <2> QED BY <1>6, <2>1, <2>3 DEF CalmStep, TryLoadFails, regVars, rtVars, hookVars, histVars
  <1>7. CASE TryLoadPublishes
    BY <1>7, WatcherPublishes DEF TryLoadPublishes, Payloads, Contents
  <1>8. CASE WaitConsumed
    <2>1. StackInv' /\ FramesCalm
      BY <1>8, WatcherGoto DEF WaitConsumed
    <2> QED BY <1>8, <2>1, QuietStep DEF WaitConsumed
  <1>9. CASE WaitTick
    <2>1. StackInv' /\ FramesCalm
      BY <1>9, SameStack DEF WaitTick
    <2>3. HistoryOK'
      BY <1>9 DEF WaitTick, DataOK, HistoryOK, histVars
    <2>2. DataOK'
      BY <1>9, <2>3 DEF WaitTick, DataOK, FileOK, RegistryOK, RuntimeOK, HooksOK,
         regVars, rtVars, hookVars
    <2> QED BY <1>9, <2>1, <2>2 DEF CalmStep, WaitTick, regVars, rtVars, hookVars, histVars
  <1>10. CASE WaitFallback
    <2> DEFINE b == IF pending # None THEN pending ELSE Top(Watcher).arg
    <2>1. At(Watcher, "wait") /\ CallFrom(Watcher, "settle", ReloadFrame(b)) /\ pending' = None
      BY <1>10 DEF WaitFallback
    <2>2. /\ depth[Watcher] = 1 /\ frames[Watcher][1].pc = "wait" /\ ~aborted
          /\ Top(Watcher) \in Frame
      BY <2>1, WatcherTop DEF At
    <2>3. b \in Payloads
      BY <2>2 DEF Frame, DataOK, FileOK
    <2> HIDE DEF b
    <2>4. StackInv' /\ FramesCalm
      BY <2>1, <2>2, <2>3, OuterCall
    <2>5. FileOK' /\ HistoryOK'
      BY <1>10 DEF WaitFallback, DataOK, FileOK, HistoryOK, fileVars
    <2>6. DataOK'
      BY <1>10, <2>5 DEF WaitFallback, DataOK, RegistryOK, RuntimeOK, HooksOK, regVars,
         rtVars, hookVars
    <2> QED BY <1>10, <2>4, <2>6 DEF CalmStep, WaitFallback, regVars, rtVars, hookVars
  <1>11. CASE WatcherSettle
    <2> DEFINE f == [Blank EXCEPT !.pc = "poll"]
    <2>1. f \in Frame /\ f.pc = "poll"
      BY BlankIsFrame DEF Frame, Pcs
    <2>2. At(Watcher, "settle") /\ SetTop(Watcher, f) /\ UNCHANGED pending
      BY <1>11 DEF WatcherSettle
    <2>3. pending = None
      BY <2>2, WatcherTop
    <2>4. StackInv' /\ FramesCalm
      BY <2>1, <2>2, <2>3, WatcherMoves
    <2>5. FileOK'
      BY <1>11, BoundsAssumption DEF WatcherSettle, DataOK, FileOK
    <2>6. DataOK'
      BY <1>11, <2>5 DEF WatcherSettle, DataOK, RegistryOK, RuntimeOK, HooksOK, HistoryOK,
         regVars, rtVars, hookVars, histVars
    <2> QED BY <1>11, <2>4, <2>6 DEF CalmStep, WatcherSettle, regVars, rtVars, hookVars, histVars
  <1> QED BY <1>1, <1>2, <1>3, <1>4, <1>5, <1>6, <1>7, <1>8, <1>9, <1>10, <1>11 DEF WatcherStep

(* The worker's cold start, an edit of active.wasm and the detach.         *)
LEMMA OtherCalm ==
  ASSUME ShapeInv,
         \/ WorkerStep
         \/ \E b \in Contents \cup {NoFile} : EditFile(b)
         \/ \E t \in Unloaders : Detach(t)
  PROVE  CalmStep
  <1> USE ShapeSplit
  <1>0. ASSUME NEW pc \in {"cold", "spawn_watcher"}, At(Worker, pc)
        PROVE  /\ Worker \in Threads /\ Watcher \in Threads /\ 1 \in 1..MaxDepth
               /\ depth[Worker] = 1 /\ ~aborted
               /\ frames[Worker][1] \in Frame /\ frames[Worker][1].pc = pc
               /\ Top(Worker) = frames[Worker][1]
    <2>1. /\ Worker \in Threads /\ Watcher \in Threads /\ depth[Worker] \in 1..MaxDepth
          /\ frames[Worker][depth[Worker]] \in Frame /\ frames[Worker][depth[Worker]].pc = pc
      BY <1>0 DEF StackInv, StacksOK, At, Top, Threads
    <2>2. depth[Worker] = 1
      BY <2>1 DEF StackInv, StackShape, FrameShape
    <2> QED BY <1>0, <2>1, <2>2 DEF At, Top
  <1>1. CASE ColdStartLoad
    <2>1. PICK b \in {file.bytes} \cup (IF file.bytes = Malformed THEN {Unload} ELSE {}) :
            CallFrom(Worker, "spawn_watcher", ReloadFrame(b))
      BY <1>1 DEF ColdStartLoad
    <2>3. b \in Payloads
      BY <1>1, <2>1 DEF ColdStartLoad, DataOK, FileOK, Payloads
    <2>2. StackInv' /\ FramesCalm
      BY <1>0, <1>1, <2>1, <2>3, OuterCall DEF ColdStartLoad
    <2> QED BY <1>1, <2>2, QuietStep DEF ColdStartLoad
  <1>2. CASE ColdStartNoScript
    <2> DEFINE f == [frames[Worker][1] EXCEPT !.pc = "spawn_watcher"]
    <2>1. At(Worker, "cold") /\ SetTop(Worker, f) /\ UNCHANGED pending
      BY <1>0, <1>2 DEF ColdStartNoScript, Goto
    <2>2. f \in Frame /\ f.pc = "spawn_watcher"
      BY <1>0, <2>1 DEF Frame, Pcs, OtherPcs
    <2>3. StacksOK' /\ depth' = depth
      BY <1>0, <2>1, <2>2 DEF StackInv, StacksOK, SetTop
    <2>4. \A u \in Threads : \A i \in 1..MaxDepth :
            frames'[u][i] = IF u = Worker /\ i = 1 THEN f ELSE frames[u][i]
      BY <1>0, <2>1 DEF StackInv, StacksOK, SetTop
    <2> HIDE DEF f
    <2>5. FrameShape(Worker, 1, f)
      BY <2>2 DEF FrameShape, WatcherPcs, DispatchPcs
    <2>6. StackShape'
      BY <1>0, <2>1, <2>3, <2>4, <2>5 DEF StackInv, StackShape, StacksOK
    <2>7. StartedOnce' /\ PendingIsAwaited'
      BY <1>0, <2>1, <2>3, <2>4 DEF StackInv, StartedOnce, PendingIsAwaited
    <2>8. FramesCalm
      BY <2>2, <2>4 DEF FramesCalm, CalmFrame
    <2>9. StackInv'
      BY <2>3, <2>6, <2>7 DEF StackInv
    <2> QED BY <1>2, <2>8, <2>9, QuietStep DEF ColdStartNoScript
  <1>3. CASE SpawnWatcher
    <2> DEFINE f == [Blank EXCEPT !.pc = "poll"]
    <2>1. At(Worker, "spawn_watcher") /\ UNCHANGED pending
      BY <1>3 DEF SpawnWatcher
    <2>2. f \in Frame /\ f.pc = "poll"
      BY BlankIsFrame DEF Frame, Pcs, WatcherPcs
    <2>3. depth[Watcher] = 0 /\ pending = None
      BY <1>0, <2>1 DEF StackInv, StacksOK, StartedOnce, PendingIsAwaited
    <2> HIDE DEF f
    <2>4. \A u \in Threads : \A i \in 1..MaxDepth :
            frames'[u][i] = IF u = Worker /\ i = 1 THEN Blank ELSE
                            IF u = Watcher /\ i = 1 THEN f ELSE frames[u][i]
      BY <1>0, <1>3, <2>1 DEF SpawnWatcher, StackInv, StacksOK, f
    <2>5. \A u \in Threads : depth'[u] = IF u = Worker THEN 0 ELSE
                                         IF u = Watcher THEN 1 ELSE depth[u]
      BY <1>0, <1>3, <2>1 DEF SpawnWatcher, StackInv, StacksOK
    <2>6. StacksOK'
      <3> DEFINE a == [frames[Worker] EXCEPT ![1] = Blank]
                 c == [frames[Watcher] EXCEPT ![1] = f]
      <3>1. a \in [1..MaxDepth -> Frame] /\ c \in [1..MaxDepth -> Frame]
        BY <1>0, <2>1, <2>2, BlankIsFrame DEF StackInv, StacksOK
      <3>2. frames' = [frames EXCEPT ![Worker] = a, ![Watcher] = c]
        BY <1>3, <1>0, <2>1 DEF SpawnWatcher, StackInv, StacksOK, f
      <3> HIDE DEF a, c
      <3>3. frames' \in [Threads -> [1..MaxDepth -> Frame]]
        BY <3>1, <3>2 DEF StackInv, StacksOK
      <3>4. 0 \in 0..MaxDepth /\ 1 \in 0..MaxDepth /\ depth \in [Threads -> 0..MaxDepth]
        BY DEF StackInv, StacksOK
      <3>5. depth' \in [Threads -> 0..MaxDepth]
        BY <1>3, <3>4 DEF SpawnWatcher
      <3> QED BY <3>3, <3>5 DEF StacksOK
    <2>7. FrameShape(Watcher, 1, f)
      BY <2>2 DEF FrameShape, WatcherPcs, DispatchPcs
    <2>8. StackShape'
      <3> SUFFICES ASSUME NEW u \in Threads, NEW i \in 1..MaxDepth
                   PROVE  /\ FrameShape(u, i, frames'[u][i])
                          /\ i > depth'[u] => frames'[u][i] = Blank
        BY DEF StackShape, FrameShape
      <3>1. /\ FrameShape(u, i, frames[u][i])
            /\ i > depth[u] => frames[u][i] = Blank
            /\ depth[u] \in Nat
        BY DEF StackInv, StackShape, StacksOK
      <3> QED BY <1>0, <2>1, <2>3, <2>4, <2>5, <2>7, <3>1, BlankIsFrame
    <2>9. StartedOnce' /\ PendingIsAwaited'
      BY <1>0, <2>1, <2>3, <2>4, BlankIsFrame DEF StartedOnce, PendingIsAwaited
    <2>10. FramesCalm
      BY <2>2, <2>4, BlankIsFrame DEF FramesCalm, CalmFrame
    <2>11. StackInv'
      BY <2>6, <2>8, <2>9 DEF StackInv
    <2> QED BY <1>3, <2>10, <2>11, QuietStep DEF SpawnWatcher
  <1>4. ASSUME NEW b \in Contents \cup {NoFile}, EditFile(b) PROVE CalmStep
    <2>1. StackInv' /\ FramesCalm
      BY <1>4, SameStack DEF EditFile
    <2>3. HistoryOK'
      BY <1>4 DEF EditFile, DataOK, HistoryOK, histVars
    <2>2. DataOK'
      BY <1>4, <2>3 DEF EditFile, DataOK, FileOK, RegistryOK, RuntimeOK, HooksOK,
         regVars, rtVars, hookVars
    <2> QED BY <1>4, <2>1, <2>2 DEF CalmStep, EditFile, regVars, rtVars, hookVars, histVars
  <1>5. ASSUME NEW t \in Unloaders, Detach(t) PROVE CalmStep
    <2>1. t \in Threads \ {Watcher, Worker} /\ Unload \in Payloads
      BY DEF Threads, Payloads
    <2>2. StackInv' /\ FramesCalm
      BY <1>5, <2>1, ReloadFrameInner, InnerCall DEF Detach
    <2>3. DataOK'
      BY <1>5 DEF Detach, DataOK, FileOK, RegistryOK, RuntimeOK, HooksOK, HistoryOK,
         regVars, rtVars, hookVars, histVars
    <2> QED BY <1>5, <2>2, <2>3 DEF CalmStep, Detach, regVars, rtVars, hookVars, histVars
  <1> QED BY <1>1, <1>2, <1>3, <1>4, <1>5 DEF WorkerStep

-----------------------------------------------------------------------------
(* Who is inside a store.                                                  *)

StoreInv == HandlerHoldsLock /\ UnparkedIsFresh /\ RegistryHoldsOneFreshRuntime /\ HistoryIsPast

(* IInv is the shape of the stacks and who is inside which store.          *)
LEMMA IInvSplit == (IInv <=> ShapeInv /\ StoreInv) /\ (IInv' <=> ShapeInv' /\ StoreInv')
  BY DEF IInv, StoreInv

(* A calm step keeps the whole invariant.                                  *)
LEMMA CalmKeepsIInv ==
  ASSUME IInv, CalmStep
  PROVE  IInv'
  <1> USE IInvSplit DEF StoreInv, CalmStep
  <1>1. \A u \in Threads : \A i \in 1..MaxDepth : CalmFrame(frames'[u][i], frames[u][i])
    BY DEF FramesCalm
  <1>2. HandlerHoldsLock'
    BY <1>1 DEF HandlerHoldsLock, CalmFrame
  <1>3. UnparkedIsFresh'
    BY <1>1 DEF UnparkedIsFresh, Unparked, CalmFrame
  <1>4. RegistryHoldsOneFreshRuntime'
    <2>1. nextId \in Nat \ {0}
      BY DEF ShapeInv, TypeOK, RuntimeOK
    <2> QED BY <2>1 DEF RegistryHoldsOneFreshRuntime
  <1>5. HistoryIsPast'
    BY DEF HistoryIsPast
  <1> QED BY <1>2, <1>3, <1>4, <1>5

(* Without the lock no handler frame is on any stack.                      *)
LEMMA UnlockedNoHandler ==
  ASSUME IInv, lock = NoThread, NEW u \in Threads, NEW i \in 1..MaxDepth
  PROVE  frames[u][i].pc # "handler"
  BY IInvSplit DEF StoreInv, HandlerHoldsLock, Threads

(* The types that the arguments about runtime ids use.                     *)
LEMMA FrameTypes ==
  ASSUME ShapeInv
  PROVE  \A u \in Threads : \A i \in 1..MaxDepth :
           frames[u][i] \in Frame /\ frames[u][i].rt \in Nat
  <1>1. \A u \in Threads : \A i \in 1..MaxDepth : frames[u][i] \in Frame
    BY DEF ShapeInv, TypeOK, StacksOK
  <1>2. \A f \in Frame : f.rt \in Nat
    BY DEF Frame
  <1> QED BY <1>1, <1>2

(* The same for the ids outside the stacks.                                *)
LEMMA IdTypes ==
  ASSUME ShapeInv
  PROVE  /\ nextId \in 1..(MaxId + 1) /\ registry \in Seq(Ids) /\ Ids \subseteq Nat
         /\ \A s \in Slots : hooks[s] \in Nat
         /\ \A k \in 1..Len(registry) : registry[k] \in Ids
         /\ registry # <<>> => Len(registry) \in Nat \ {0}
         /\ dropped \cup failed \subseteq Nat
  <1>1. nextId \in 1..(MaxId + 1) /\ registry \in Seq(Ids) /\ Ids \subseteq Nat
    BY DEF ShapeInv, TypeOK, RuntimeOK, RegistryOK, Ids
  <1>2. \A s \in Slots : hooks[s] \in Nat
    BY DEF ShapeInv, TypeOK, HooksOK
  <1>3. dropped \cup failed \subseteq Nat
    BY <1>1 DEF ShapeInv, TypeOK, HistoryOK
  <1>4. \A k \in 1..Len(registry) : registry[k] \in Ids
    BY <1>1
  <1>5. registry # <<>> => Len(registry) \in Nat \ {0}
    BY <1>1, EmptySeq
  <1> QED BY <1>1, <1>2, <1>3, <1>4, <1>5

(* A registry that is not empty holds one runtime.                         *)
LEMMA OneRuntime ==
  ASSUME IInv, registry # <<>>
  PROVE  Len(registry) = 1 /\ registry[1] \in Ids /\ Head(registry) = registry[1]
  <1>1. ShapeInv /\ Len(registry) <= 1
    BY DEF IInv, RegistryHoldsOneFreshRuntime
  <1>2. Len(registry) \in Nat \ {0}
    BY <1>1, IdTypes
  <1>3. Len(registry) = 1
    BY <1>1, <1>2
  <1> QED BY <1>1, <1>3, IdTypes

(* The steps that create, park, enter, leave and drop a store.             *)
LEMMA StoreStep ==
  ASSUME IInv, NEW t \in Threads,
         \/ InstallHook(t) \/ DropRuntime(t) \/ Spawn(t) \/ SpawnFails(t) \/ Insert(t)
         \/ InsertPanics(t) \/ HandlerStarts(t) \/ HandlerEnds(t)
  PROVE  IInv'
  <1> USE IInvSplit, ShapeSplit DEF StoreInv
  <1>0. nextId \in 1..(MaxId + 1) /\ registry \in Seq(Ids) /\ Ids \subseteq Nat
    BY DEF ShapeInv, TypeOK, RuntimeOK, RegistryOK, Ids
  <1>1. CASE InstallHook(t)
    <2>1. PICK s \in Slots : /\ hooks' = [hooks EXCEPT ![s] = Top(t).rt]
                             /\ SetTop(t, [Top(t) EXCEPT !.todo = {s}])
      BY <1>1 DEF InstallHook
    <2> DEFINE f == [Top(t) EXCEPT !.todo = {s}]
    <2>2. PICK pc \in {"main", "handler"} : pc \in InnerPcs /\ At(t, pc)
      BY <1>1, ScriptRuntime DEF InstallHook, InWasm
    <2>3. /\ Top(t) \in Frame /\ InnerFrame(Top(t)) /\ Top(t).rt \in Ids
          /\ depth[t] \in 1..MaxDepth /\ Top(t) = frames[t][depth[t]]
      BY <1>1, <2>2, TopIsInner, ScriptRuntime
    <2>4. InnerFrame(f) /\ CalmFrame(f, Top(t)) /\ UNCHANGED pending
      BY <1>1, <2>3 DEF InstallHook, InnerFrame, Frame, CalmFrame
    <2>5. StackInv' /\ FramesCalm
      BY <2>1, <2>2, <2>4, InnerSetTop
    <2>6. fuel' \in [Ids -> 0..MaxFuel]
      BY <1>1, BurnOK DEF InstallHook
    <2>7. HooksOK'
      BY <1>1, <2>1, <2>3 DEF InstallHook, DataOK, HooksOK, Ids
    <2>8. DataOK'
      BY <1>1, <2>6, <2>7 DEF InstallHook, DataOK, FileOK, RegistryOK, RuntimeOK, HistoryOK,
         fileVars, regVars, histVars
    <2>9. Top(t).rt < nextId
      BY <1>0, <2>2, <2>3 DEF At, UnparkedIsFresh, Unparked, HandlerHoldsLock,
         RegistryHoldsOneFreshRuntime
    <2>10. UNCHANGED <<lock, registry, nextId, failed, dropped>>
      BY <1>1 DEF InstallHook, regVars, histVars
    <2>11. \A u \in Threads : \A i \in 1..MaxDepth : CalmFrame(frames'[u][i], frames[u][i])
      BY <2>5 DEF FramesCalm
    <2>12. HandlerHoldsLock'
      BY <2>10, <2>11 DEF HandlerHoldsLock, CalmFrame
    <2>13. UnparkedIsFresh'
      BY <2>10, <2>11 DEF UnparkedIsFresh, Unparked, CalmFrame
    <2>14. RegistryHoldsOneFreshRuntime'
      BY <2>1, <2>9, <2>10 DEF RegistryHoldsOneFreshRuntime, DataOK, HooksOK
    <2>15. HistoryIsPast'
      BY <2>10 DEF HistoryIsPast
    <2> QED BY <2>5, <2>8, <2>12, <2>13, <2>14, <2>15
  <1>2. CASE DropRuntime(t)
    <2> DEFINE q == IF Top(t).arg = Unload THEN "state" ELSE "spawn"
    <2>1. At(t, "unhook") /\ "unhook" \in InnerPcs /\ Goto(t, q) /\ UNCHANGED pending
      BY <1>2 DEF DropRuntime, AtDrop, InnerPcs, ReloadPcs
    <2>2. q \in InnerPcs \ {"main", "handler", "insert"} /\ q \notin DispatchPcs
      BY DEF InnerPcs, ReloadPcs, DispatchPcs
    <2> HIDE DEF q
    <2>3. StackInv' /\ FramesCalm
      BY <2>1, <2>2, InnerGoto
    <2>4. \A u \in Threads : \A i \in 1..MaxDepth : CalmFrame(frames'[u][i], frames[u][i])
      BY <2>3 DEF FramesCalm
    <2>5. UNCHANGED <<lock, nextId, failed, hooks>> /\ lock = NoThread
      BY <1>2 DEF DropRuntime, hookVars
    <2>6. HandlerHoldsLock'
      BY <2>4, <2>5, UnlockedNoHandler DEF HandlerHoldsLock, CalmFrame
    <2>7. CASE registry = <<>>
      <3>1. UNCHANGED <<registry, owned, fuel, journal, dropped>>
        BY <1>2, <2>7 DEF DropRuntime
      <3>2. DataOK'
        BY <1>2, <3>1 DEF DropRuntime, DataOK, FileOK, RegistryOK, RuntimeOK, HooksOK, HistoryOK,
           fileVars, hookVars
      <3>3. UnparkedIsFresh'
        BY <2>4, <2>5, <3>1 DEF UnparkedIsFresh, Unparked, CalmFrame
      <3>4. RegistryHoldsOneFreshRuntime' /\ HistoryIsPast'
        BY <2>5, <3>1 DEF RegistryHoldsOneFreshRuntime, HistoryIsPast
      <3> QED BY <2>3, <2>6, <3>2, <3>3, <3>4
    <2>8. CASE registry # <<>>
      <3> DEFINE old == registry[Len(registry)]
      <3>1. Len(registry) = 1 /\ old = registry[1] /\ old \in Ids
        BY <2>8, OneRuntime
      <3>2. /\ registry' = SubSeq(registry, 1, Len(registry) - 1) /\ owned' = {}
            /\ DropStore(old) /\ dropped' = dropped \cup {old}
        BY <1>2, <2>8 DEF DropRuntime
      <3>3. Len(registry') = 0 /\ registry' \in Seq(Ids)
        BY <1>0, <3>1, <3>2
      <3>4. fuel' \in [Ids -> 0..MaxFuel] /\ journal' \in [Ids -> SUBSET Entries]
        BY <3>1, <3>2 DEF DropStore, DataOK, RuntimeOK
      <3>5. DataOK'
        BY <1>2, <3>1, <3>2, <3>3, <3>4 DEF DropRuntime, DataOK, FileOK, RegistryOK, RuntimeOK,
           HooksOK, HistoryOK, fileVars, hookVars
      <3>6. UnparkedIsFresh'
        BY <2>4, <2>5, <3>1, <3>2, <3>3 DEF UnparkedIsFresh, Unparked, CalmFrame
      <3>7. RegistryHoldsOneFreshRuntime' /\ HistoryIsPast'
        BY <2>5, <3>1, <3>2, <3>3 DEF RegistryHoldsOneFreshRuntime, HistoryIsPast
      <3> QED BY <2>3, <2>6, <3>5, <3>6, <3>7
    <2> QED BY <2>7, <2>8
  <1>3. CASE Spawn(t)
    <2> DEFINE f == [Top(t) EXCEPT !.pc = "main", !.rt = nextId]
    <2>1. /\ At(t, "spawn") /\ "spawn" \in InnerPcs /\ SetTop(t, f) /\ UNCHANGED pending
          /\ nextId \in Ids /\ nextId' = nextId + 1
          /\ UNCHANGED <<lock, registry, hooks, dropped, failed>>
      BY <1>0, <1>3 DEF Spawn, InnerPcs, ReloadPcs, Ids, regVars, hookVars, histVars
    <2>2. Top(t) \in Frame /\ depth[t] \in 1..MaxDepth /\ Top(t) = frames[t][depth[t]]
      BY <2>1, TopIsInner
    <2>3. "main" \in Pcs \cap InnerPcs /\ nextId \in 0..MaxId /\ nextId # 0
      BY <2>1 DEF Pcs, InnerPcs, ReloadPcs, Ids
    <2>4. f \in Frame /\ f.pc = "main" /\ f.rt = nextId
      BY <2>2, <2>3 DEF Frame
    <2> HIDE DEF f
    <2>5. InnerFrame(f)
      BY <2>3, <2>4 DEF InnerFrame, DispatchPcs
    <2>6. /\ StackInv'
          /\ \A u \in Threads : \A i \in 1..MaxDepth :
               frames'[u][i] = IF u = t /\ i = depth[t] THEN f ELSE frames[u][i]
      BY <2>1, <2>5, InnerSetTop
    <2>7. RuntimeOK'
      BY <1>3, <2>1 DEF Spawn, DataOK, RuntimeOK, Ids
    <2>8. DataOK'
      BY <1>3, <2>7 DEF Spawn, DataOK, FileOK, RegistryOK, HooksOK, HistoryOK,
         fileVars, regVars, hookVars, histVars
    <2>9. HandlerHoldsLock'
      BY <2>1, <2>4, <2>6 DEF HandlerHoldsLock
    <2>10. nextId \notin dropped \cup failed /\ \A k \in 1..Len(registry) : registry[k] < nextId
      BY <1>0 DEF HistoryIsPast, RegistryHoldsOneFreshRuntime
    <2>11. \A u \in Threads : \A i \in 1..MaxDepth :
             Unparked(u, i) => frames[u][i].rt \in Nat /\ frames[u][i].rt < nextId
      BY FrameTypes DEF UnparkedIsFresh
    <2>12. UnparkedIsFresh'
      <3> SUFFICES ASSUME NEW u \in Threads, NEW v \in Threads,
                          NEW i \in 1..MaxDepth, NEW j \in 1..MaxDepth, Unparked(u, i)'
                   PROVE  /\ frames'[u][i].rt < nextId'
                          /\ frames'[u][i].rt \notin dropped' \cup failed'
                          /\ \A k \in 1..Len(registry') : registry'[k] # frames'[u][i].rt
                          /\ Unparked(v, j)' /\ frames'[u][i].rt = frames'[v][j].rt
                               => u = v /\ i = j
        BY DEF UnparkedIsFresh
      <3>1. CASE u = t /\ i = depth[t]
        <4>1. frames'[u][i] = f
          BY <2>6, <3>1
        <4>2. ~(v = t /\ j = depth[t]) => frames'[v][j] = frames[v][j]
          BY <2>6
        <4>3. ~(v = t /\ j = depth[t]) /\ Unparked(v, j)' => frames'[v][j].rt # nextId
          BY <2>1, <2>11, <4>2 DEF Unparked
        <4>4. \A k \in 1..Len(registry') : registry'[k] # nextId
          BY <1>0, <2>1, <2>10
        <4> QED BY <1>0, <2>1, <2>4, <2>10, <3>1, <4>1, <4>3, <4>4
      <3>2. CASE ~(u = t /\ i = depth[t])
        <4>1. frames'[u][i] = frames[u][i] /\ Unparked(u, i)
          BY <2>6, <3>2 DEF Unparked
        <4>2. frames[u][i].rt \in Nat /\ frames[u][i].rt < nextId
          BY <2>11, <4>1
        <4>3. Unparked(v, j)' /\ frames'[u][i].rt = frames'[v][j].rt => u = v /\ i = j
          <5>1. CASE v = t /\ j = depth[t]
            BY <2>4, <2>6, <4>1, <4>2, <5>1
          <5>2. CASE ~(v = t /\ j = depth[t])
            BY <2>6, <4>1, <5>2 DEF UnparkedIsFresh, Unparked
          <5> QED BY <5>1, <5>2
        <4> QED BY <1>0, <2>1, <4>1, <4>2, <4>3 DEF UnparkedIsFresh
      <3> QED BY <3>1, <3>2
    <2>13. RegistryHoldsOneFreshRuntime'
      <3>1. \A s \in Slots : hooks[s] \in Nat /\ hooks[s] < nextId
        BY IdTypes DEF RegistryHoldsOneFreshRuntime
      <3>2. \A k \in 1..Len(registry) : registry[k] \in Nat /\ registry[k] < nextId
        BY IdTypes DEF RegistryHoldsOneFreshRuntime
      <3> QED BY <1>0, <2>1, <3>1, <3>2 DEF RegistryHoldsOneFreshRuntime
    <2>14. HistoryIsPast'
      <3>1. \A r \in dropped \cup failed : r \in Nat /\ r < nextId
        BY IdTypes DEF HistoryIsPast
      <3> QED BY <1>0, <2>1, <3>1 DEF HistoryIsPast
    <2> QED BY <2>6, <2>8, <2>9, <2>12, <2>13, <2>14
  <1>4. CASE SpawnFails(t)
    <2>1. /\ At(t, "main") /\ "main" \in InnerPcs /\ Goto(t, "state") /\ UNCHANGED pending
          /\ failed' = failed \cup {Top(t).rt} /\ DropStore(Top(t).rt)
          /\ UNCHANGED <<lock, registry, nextId, hooks, dropped>>
      BY <1>4 DEF SpawnFails, InnerPcs, ReloadPcs, regVars, hookVars
    <2>2. /\ depth[t] \in 1..MaxDepth /\ Top(t) = frames[t][depth[t]] /\ Top(t).rt \in Ids
          /\ Unparked(t, depth[t]) /\ Top(t) \in Frame
      BY <2>1, TopIsInner, ScriptRuntime DEF At, Unparked
    <2> DEFINE f == [Top(t) EXCEPT !.pc = "state"]
    <2>3. "state" \in Pcs \cap InnerPcs
      BY DEF Pcs, InnerPcs, ReloadPcs
    <2>4. f \in Frame /\ f.pc = "state" /\ SetTop(t, f)
      BY <2>1, <2>2, <2>3 DEF Frame, Goto
    <2> HIDE DEF f
    <2>5. InnerFrame(f)
      BY <2>3, <2>4 DEF InnerFrame, DispatchPcs
    <2>6. /\ StackInv'
          /\ \A u \in Threads : \A i \in 1..MaxDepth :
               frames'[u][i] = IF u = t /\ i = depth[t] THEN f ELSE frames[u][i]
      BY <2>1, <2>4, <2>5, InnerSetTop
    <2>7. fuel' \in [Ids -> 0..MaxFuel] /\ journal' \in [Ids -> SUBSET Entries]
      BY <2>1, <2>2 DEF DropStore, DataOK, RuntimeOK
    <2>8. DataOK'
      BY <1>4, <2>2, <2>7 DEF SpawnFails, DataOK, FileOK, RegistryOK, RuntimeOK, HooksOK,
         HistoryOK, fileVars, regVars, hookVars
    <2>9. HandlerHoldsLock'
      BY <2>1, <2>4, <2>6 DEF HandlerHoldsLock
    <2>10. UnparkedIsFresh'
      <3>1. \A u \in Threads : \A i \in 1..MaxDepth : Unparked(u, i)' =>
              /\ frames'[u][i] = frames[u][i] /\ Unparked(u, i)
              /\ frames[u][i].rt # Top(t).rt
        BY <2>2, <2>4, <2>6 DEF UnparkedIsFresh, Unparked
      <3> QED BY <2>1, <3>1 DEF UnparkedIsFresh
    <2>11. RegistryHoldsOneFreshRuntime'
      BY <2>1, <2>2 DEF RegistryHoldsOneFreshRuntime, UnparkedIsFresh
    <2>12. HistoryIsPast'
      BY <2>1, <2>2 DEF HistoryIsPast, UnparkedIsFresh
    <2> QED BY <2>6, <2>8, <2>9, <2>10, <2>11, <2>12
  <1>5. CASE Insert(t)
    <2>1. /\ At(t, "insert") /\ "insert" \in InnerPcs /\ Goto(t, "state") /\ UNCHANGED pending
          /\ registry = <<>> /\ registry' = Append(registry, Top(t).rt) /\ owned' = {}
          /\ UNCHANGED <<lock, nextId, hooks, dropped, failed>> /\ lock = NoThread
      BY <1>5 DEF Insert, InnerPcs, ReloadPcs, rtVars, hookVars, histVars
    <2>2. /\ depth[t] \in 1..MaxDepth /\ Top(t) = frames[t][depth[t]]
          /\ Unparked(t, depth[t]) /\ Top(t) \in Frame /\ InnerFrame(Top(t))
      BY <2>1, TopIsInner DEF At, Unparked
    <2>3. Top(t).rt \in Ids
      BY <2>1, <2>2 DEF At, InnerFrame, Frame, Ids
    <2> DEFINE f == [Top(t) EXCEPT !.pc = "state"]
    <2>4. "state" \in Pcs \cap InnerPcs
      BY DEF Pcs, InnerPcs, ReloadPcs
    <2>5. f \in Frame /\ f.pc = "state" /\ SetTop(t, f)
      BY <2>1, <2>2, <2>4 DEF Frame, Goto
    <2> HIDE DEF f
    <2>6. InnerFrame(f)
      BY <2>4, <2>5 DEF InnerFrame, DispatchPcs
    <2>7. /\ StackInv'
          /\ \A u \in Threads : \A i \in 1..MaxDepth :
               frames'[u][i] = IF u = t /\ i = depth[t] THEN f ELSE frames[u][i]
      BY <2>1, <2>5, <2>6, InnerSetTop
    <2>8. registry' \in Seq(Ids) /\ Len(registry') = 1 /\ registry'[1] = Top(t).rt
      BY <2>1, <2>3, IdTypes
    <2>9. DataOK'
      BY <1>5, <2>8 DEF Insert, DataOK, FileOK, RegistryOK, RuntimeOK, HooksOK,
         HistoryOK, fileVars, rtVars, hookVars, histVars
    <2>10. HandlerHoldsLock'
      BY <2>1, <2>5, <2>7, UnlockedNoHandler DEF HandlerHoldsLock
    <2>11. UnparkedIsFresh'
      <3>1. \A u \in Threads : \A i \in 1..MaxDepth : Unparked(u, i)' =>
              /\ frames'[u][i] = frames[u][i] /\ Unparked(u, i)
              /\ frames[u][i].rt # Top(t).rt
        BY <2>2, <2>5, <2>7 DEF UnparkedIsFresh, Unparked
      <3> QED BY <2>1, <2>8, <3>1 DEF UnparkedIsFresh
    <2>12. RegistryHoldsOneFreshRuntime'
      BY <2>1, <2>2, <2>8 DEF RegistryHoldsOneFreshRuntime, UnparkedIsFresh
    <2>13. HistoryIsPast'
      BY <2>1 DEF HistoryIsPast
    <2> QED BY <2>7, <2>9, <2>10, <2>11, <2>12, <2>13
  <1>6. CASE InsertPanics(t)
    <2>1. /\ At(t, "insert") /\ "insert" \in InnerPcs /\ UNCHANGED pending
          /\ failed' = failed \cup {Top(t).rt} /\ DropStore(Top(t).rt)
          /\ UNCHANGED <<lock, registry, nextId, hooks, dropped>> /\ lock = NoThread
          /\ poisoned' = TRUE /\ aborted' \in BOOLEAN
          /\ frames' = [frames EXCEPT ![t] = [i \in 1..MaxDepth |-> Blank]]
          /\ depth' = [depth EXCEPT ![t] = 0]
      BY <1>6 DEF InsertPanics, InnerPcs, ReloadPcs, hookVars
    <2>2. /\ depth[t] \in 1..MaxDepth /\ Top(t) = frames[t][depth[t]]
          /\ Unparked(t, depth[t]) /\ Top(t) \in Frame /\ InnerFrame(Top(t))
          /\ t = Watcher => pending = None
      BY <2>1, TopIsInner DEF At, Unparked
    <2>3. Top(t).rt \in Ids
      BY <2>1, <2>2 DEF At, InnerFrame, Frame, Ids
    <2>4. \A u \in Threads : \A i \in 1..MaxDepth :
            frames'[u][i] = IF u = t THEN Blank ELSE frames[u][i]
      BY <2>1 DEF StackInv, StacksOK
    <2>5. \A u \in Threads : depth'[u] = IF u = t THEN 0 ELSE depth[u]
      BY <2>1 DEF StackInv, StacksOK
    <2>6. StacksOK'
      <3>1. 0 \in 0..MaxDepth /\ [i \in 1..MaxDepth |-> Blank] \in [1..MaxDepth -> Frame]
        BY BlankIsFrame
      <3> QED BY <2>1, <3>1 DEF StackInv, StacksOK
    <2>7. StackShape'
      BY <2>4, <2>5, BlankIsFrame DEF StackInv, StackShape, StacksOK
    <2>8. StartedOnce'
      BY <2>4, <2>5, BlankIsFrame DEF StackInv, StartedOnce, Threads
    <2>9. PendingIsAwaited'
      BY <2>1, <2>2, <2>4, <2>5 DEF StackInv, PendingIsAwaited, Threads
    <2>10. StackInv'
      BY <2>6, <2>7, <2>8, <2>9 DEF StackInv
    <2>11. fuel' \in [Ids -> 0..MaxFuel] /\ journal' \in [Ids -> SUBSET Entries]
      BY <2>1, <2>3 DEF DropStore, DataOK, RuntimeOK
    <2>12. DataOK'
      BY <1>6, <2>1, <2>3, <2>11 DEF InsertPanics, DataOK, FileOK, RegistryOK, RuntimeOK,
         HooksOK, HistoryOK, fileVars, hookVars
    <2>13. HandlerHoldsLock'
      BY <2>1, <2>4, BlankIsFrame, UnlockedNoHandler DEF HandlerHoldsLock
    <2>14. UnparkedIsFresh'
      BY <2>1, <2>2, <2>4, BlankIsFrame DEF UnparkedIsFresh, Unparked
    <2>15. RegistryHoldsOneFreshRuntime'
      BY <2>1, <2>2 DEF RegistryHoldsOneFreshRuntime, UnparkedIsFresh
    <2>16. HistoryIsPast'
      BY <2>1, <2>2 DEF HistoryIsPast, UnparkedIsFresh
    <2> QED BY <2>10, <2>12, <2>13, <2>14, <2>15, <2>16
  <1>7. CASE HandlerStarts(t)
    <2> DEFINE r == Head(registry)
               f == [Top(t) EXCEPT !.pc = "handler", !.rt = r]
    <2>1. /\ At(t, "call") /\ "call" \in InnerPcs /\ SetTop(t, f) /\ UNCHANGED pending
          /\ registry # <<>> /\ lock = NoThread /\ lock' = t
          /\ UNCHANGED <<registry, nextId, hooks, dropped, failed>>
      BY <1>7 DEF HandlerStarts, InnerPcs, DispatchPcs, rtVars, hookVars, histVars
    <2>2. /\ depth[t] \in 1..MaxDepth /\ Top(t) = frames[t][depth[t]]
          /\ Top(t) \in Frame /\ InnerFrame(Top(t)) /\ Top(t).pc = "call"
      BY <2>1, TopIsInner DEF At
    <2>3. Len(registry) = 1 /\ r = registry[1] /\ r \in Ids
      BY <2>1, OneRuntime
    <2>4. "handler" \in Pcs \cap InnerPcs /\ r \in 0..MaxId /\ r # 0
      BY <2>3 DEF Pcs, InnerPcs, DispatchPcs, Ids
    <2> HIDE DEF r
    <2>5. f \in Frame /\ f.pc = "handler" /\ f.rt = r /\ f.slot = Top(t).slot
      BY <2>2, <2>4 DEF Frame
    <2> HIDE DEF f
    <2>6. InnerFrame(f)
      BY <2>2, <2>4, <2>5 DEF InnerFrame, DispatchPcs
    <2>7. /\ StackInv'
          /\ \A u \in Threads : \A i \in 1..MaxDepth :
               frames'[u][i] = IF u = t /\ i = depth[t] THEN f ELSE frames[u][i]
      BY <2>1, <2>6, InnerSetTop
    <2>8. DataOK'
      BY <1>7, <2>1 DEF HandlerStarts, DataOK, FileOK, RegistryOK, RuntimeOK, HooksOK,
         HistoryOK, fileVars, rtVars, hookVars, histVars
    <2>9. HandlerHoldsLock'
      BY <2>1, <2>3, <2>5, <2>7, UnlockedNoHandler DEF HandlerHoldsLock
    <2>10. UnparkedIsFresh'
      BY <2>1, <2>5, <2>7 DEF UnparkedIsFresh, Unparked
    <2>11. RegistryHoldsOneFreshRuntime' /\ HistoryIsPast'
      BY <2>1 DEF RegistryHoldsOneFreshRuntime, HistoryIsPast
    <2> QED BY <2>7, <2>8, <2>9, <2>10, <2>11
  <1>8. CASE HandlerEnds(t)
    <2>1. PICK q \in {"observe", "clear"} : Goto(t, q)
      BY <1>8 DEF HandlerEnds
    <2>2. /\ At(t, "handler") /\ "handler" \in InnerPcs /\ q \in Pcs \cap InnerPcs
          /\ UNCHANGED pending /\ lock' = NoThread
          /\ UNCHANGED <<registry, nextId, hooks, dropped, failed>>
      BY <1>8 DEF HandlerEnds, Pcs, InnerPcs, DispatchPcs, rtVars, hookVars, histVars
    <2> DEFINE f == [Top(t) EXCEPT !.pc = q]
    <2>3. /\ depth[t] \in 1..MaxDepth /\ Top(t) = frames[t][depth[t]]
          /\ Top(t) \in Frame /\ InnerFrame(Top(t)) /\ Top(t).pc = "handler"
      BY <2>2, TopIsInner DEF At
    <2>4. f \in Frame /\ f.pc = q /\ f.slot = Top(t).slot /\ SetTop(t, f)
      BY <2>1, <2>2, <2>3 DEF Frame, Goto
    <2> HIDE DEF f
    <2>5. InnerFrame(f)
      BY <2>2, <2>3, <2>4 DEF InnerFrame, DispatchPcs
    <2>6. /\ StackInv'
          /\ \A u \in Threads : \A i \in 1..MaxDepth :
               frames'[u][i] = IF u = t /\ i = depth[t] THEN f ELSE frames[u][i]
      BY <2>2, <2>4, <2>5, InnerSetTop
    <2>7. DataOK'
      BY <1>8 DEF HandlerEnds, DataOK, FileOK, RegistryOK, RuntimeOK, HooksOK,
         HistoryOK, fileVars, rtVars, hookVars, histVars
    <2>8. HandlerHoldsLock'
      BY <2>3, <2>4, <2>6 DEF HandlerHoldsLock
    <2>9. UnparkedIsFresh'
      BY <2>2, <2>4, <2>6 DEF UnparkedIsFresh, Unparked
    <2>10. RegistryHoldsOneFreshRuntime' /\ HistoryIsPast'
      BY <2>2 DEF RegistryHoldsOneFreshRuntime, HistoryIsPast
    <2> QED BY <2>6, <2>7, <2>8, <2>9, <2>10
  <1> QED BY <1>1, <1>2, <1>3, <1>4, <1>5, <1>6, <1>7, <1>8

-----------------------------------------------------------------------------
(* The theorems.                                                           *)

(* Initially only the worker runs, at its cold start.                      *)
LEMMA InitIInv == Init => IInv
  <1> SUFFICES ASSUME Init PROVE IInv
    OBVIOUS
  <1>1. FileOK /\ RegistryOK /\ HooksOK /\ HistoryOK
    <2>1. FileOK
      <3>1. 0 \in 0..MaxStamp /\ 1 \in 0..MaxStamp /\ 0 \in 0..WaitTicks
        OBVIOUS
      <3> QED BY <3>1 DEF Init, FileOK
    <2>2. RegistryOK
      BY EmptySeq DEF Init, RegistryOK
    <2>3. HooksOK
      BY DEF Init, HooksOK
    <2>4. HistoryOK
      <3>1. aborted \in BOOLEAN /\ failed \in SUBSET Ids /\ dropped \in SUBSET Ids
            /\ unrestored \in SUBSET (Addrs \X (0..MaxId))
        BY Zenon DEF Init
      <3>2. applied \in Nat /\ unread \in 0..MaxStamp
        BY DEF Init
      <3> QED BY <3>1, <3>2 DEF HistoryOK
    <2> QED BY <2>1, <2>2, <2>3, <2>4
  <1>2. RuntimeOK
    BY DEF Init, RuntimeOK
  <1> DEFINE f == [Blank EXCEPT !.pc = "cold"]
  <1>3. f \in Frame /\ f.pc = "cold"
    BY BlankIsFrame DEF Frame, Pcs, OtherPcs
  <1> HIDE DEF f
  <1>4. /\ frames = [t \in Threads |-> [i \in 1..MaxDepth |->
                      IF t = Worker /\ i = 1 THEN f ELSE Blank]]
        /\ depth = [t \in Threads |-> IF t = Worker THEN 1 ELSE 0]
    BY DEF Init, f
  <1>5. Worker \in Threads /\ Watcher \in Threads /\ 1 \in 1..MaxDepth
    BY DEF Threads
  <1>6. StacksOK
    BY <1>3, <1>4, <1>5, BlankIsFrame DEF StacksOK
  <1>7. \A t \in Threads : \A i \in 1..MaxDepth :
          frames[t][i] = IF t = Worker /\ i = 1 THEN f ELSE Blank
    BY <1>4
  <1>8. FrameShape(Worker, 1, f)
    BY <1>3 DEF FrameShape, WatcherPcs, DispatchPcs
  <1>9. StackShape
    BY <1>4, <1>7, <1>8, BlankIsFrame DEF StackShape
  <1>10. StartedOnce /\ PendingIsAwaited
    BY <1>4, <1>5 DEF StartedOnce, PendingIsAwaited, Init
  <1>11. \A t \in Threads : \A i \in 1..MaxDepth :
           frames[t][i].pc \notin {"main", "handler", "insert"}
    BY <1>3, <1>7, BlankIsFrame
  <1>12. HandlerHoldsLock /\ UnparkedIsFresh
    BY <1>11 DEF HandlerHoldsLock, UnparkedIsFresh, Unparked
  <1>13. RegistryHoldsOneFreshRuntime /\ HistoryIsPast
    BY DEF Init, RegistryHoldsOneFreshRuntime, HistoryIsPast
  <1> QED BY <1>1, <1>2, <1>6, <1>9, <1>10, <1>12, <1>13 DEF IInv, ShapeInv, TypeOK

(* Every step keeps the invariant.                                         *)
LEMMA NextIInv == IInv /\ [Next]_vars => IInv'
  <1> SUFFICES ASSUME IInv, [Next]_vars PROVE IInv'
    OBVIOUS
  <1>0. ShapeInv
    BY DEF IInv
  <1>1. CASE WatcherStep
    BY <1>0, <1>1, WatcherCalm, CalmKeepsIInv
  <1>2. CASE WorkerStep
    BY <1>0, <1>2, OtherCalm, CalmKeepsIInv
  <1>3. ASSUME NEW t \in Threads, ReloadStep(t) PROVE IInv'
    BY <1>0, <1>3, ReloadCalm, CalmKeepsIInv, StoreStep DEF ReloadStep
  <1>4. ASSUME NEW t \in Threads, ScriptStep(t) PROVE IInv'
    BY <1>0, <1>4, ScriptCalm, CalmKeepsIInv, StoreStep DEF ScriptStep
  <1>5. ASSUME NEW t \in Threads, DispatchStep(t) PROVE IInv'
    BY <1>0, <1>5, DispatchCalm, CalmKeepsIInv, StoreStep DEF DispatchStep
  <1>6. CASE Environment
    <2>1. ASSUME NEW t \in Threads, NEW s \in Slots, GameCalls(t, s) PROVE IInv'
      BY <1>0, <2>1, DispatchCalm, CalmKeepsIInv
    <2> QED BY <1>0, <1>6, <2>1, OtherCalm, CalmKeepsIInv DEF Environment
  <1>7. CASE UNCHANGED vars
    <2>1. CalmStep
      <3>1. StackInv' /\ FramesCalm
        BY <1>0, <1>7, ShapeSplit, SameStack DEF vars
      <3> QED BY <1>0, <1>7, <3>1, QuietStep DEF vars
    <2> QED BY <2>1, CalmKeepsIInv
  <1> QED BY <1>1, <1>2, <1>3, <1>4, <1>5, <1>6, <1>7 DEF Next, ThreadStep

(* The inductive invariant holds in every reachable state.                 *)
THEOREM SpecIInv == Spec => []IInv
  BY InitIInv, NextIInv, PTL DEF Spec

(***************************************************************************)
(* Type correctness of the watcher, the registry, the runtimes, the hook   *)
(* slots and the call stacks (TypeOK).                                     *)
(***************************************************************************)
THEOREM TypeCorrect == Spec => []TypeOK
  <1>1. IInv => TypeOK
    BY DEF IInv, ShapeInv
  <1> QED BY <1>1, SpecIInv, PTL

(***************************************************************************)
(* A reload request is pending only while the watcher waits for it         *)
(* (PendingIsAwaited): publish_reload never overwrites a request.          *)
(***************************************************************************)
THEOREM PendingAwaited == Spec => []PendingIsAwaited
  <1>1. IInv => PendingIsAwaited
    BY DEF IInv, ShapeInv
  <1> QED BY <1>1, SpecIInv, PTL

(***************************************************************************)
(* The registry holds at most one runtime, one that was neither dropped    *)
(* nor failed (RegistryHoldsOneFreshRuntime), whatever the interleaving of *)
(* registry_reload on the watcher, the worker, the game's threads and the  *)
(* unloader.                                                               *)
(***************************************************************************)
THEOREM RegistryFresh == Spec => []RegistryHoldsOneFreshRuntime
  <1>1. IInv => RegistryHoldsOneFreshRuntime
    BY DEF IInv
  <1> QED BY <1>1, SpecIInv, PTL

(***************************************************************************)
(* No store is entered twice, and no handler runs in a runtime that Step 4 *)
(* of registry_reload dropped (StoreExclusive).                            *)
(***************************************************************************)
THEOREM StoresExclusive == Spec => []StoreExclusive
  <1>1. IInv => StoreExclusive
    <2> SUFFICES ASSUME IInv, NEW t \in Threads, NEW u \in Threads,
                        NEW i \in 1..MaxDepth, NEW j \in 1..MaxDepth, Running(t, i)
                 PROVE  /\ Running(u, j) /\ frames[t][i].rt = frames[u][j].rt => t = u /\ i = j
                        /\ (\E k \in 1..Len(registry) : registry[k] = frames[t][i].rt)
                             <=> frames[t][i].pc = "handler"
      BY DEF StoreExclusive
    <2>1. CASE frames[t][i].pc = "handler"
      <3>1. Len(registry) = 1 /\ registry[1] = frames[t][i].rt
        BY <2>1 DEF IInv, HandlerHoldsLock
      <3>2. frames[u][j].pc = "main" => frames[u][j].rt # frames[t][i].rt
        BY <3>1 DEF IInv, UnparkedIsFresh, Unparked
      <3>3. frames[u][j].pc = "handler" => t = u /\ i = j
        BY <2>1 DEF IInv, HandlerHoldsLock
      <3> QED BY <2>1, <3>1, <3>2, <3>3 DEF Running
    <2>2. CASE frames[t][i].pc = "main"
      <3>1. \A k \in 1..Len(registry) : registry[k] # frames[t][i].rt
        BY <2>2 DEF IInv, UnparkedIsFresh, Unparked
      <3>2. frames[u][j].pc = "handler" => frames[u][j].rt # frames[t][i].rt
        BY <3>1 DEF IInv, HandlerHoldsLock
      <3>3. frames[u][j].pc = "main" /\ frames[t][i].rt = frames[u][j].rt => t = u /\ i = j
        BY <2>2 DEF IInv, UnparkedIsFresh, Unparked
      <3> QED BY <2>2, <3>1, <3>2, <3>3 DEF Running
    <2> QED BY <2>1, <2>2 DEF Running
  <1> QED BY <1>1, SpecIInv, PTL

-----------------------------------------------------------------------------
(* How often a published script is applied.                                *)

\* A step of t touches no other stack.
OwnStack(t) ==
  \A u \in Threads \ {t} : frames'[u] = frames[u] /\ depth'[u] = depth[u]

Waits == frames[Watcher][1].pc = "wait"

\* A step of t that does not start the watcher's wait.
PlainMove(t) == OwnStack(t) /\ (Waits' => Waits)

(* The active frame of a thread that is not idle.                          *)
LEMMA ActiveFrame ==
  ASSUME StackInv, NEW t \in Threads, NEW pc, At(t, pc)
  PROVE  depth[t] \in 1..MaxDepth /\ Top(t) \in Frame /\ Top(t).pc = pc
  BY DEF StackInv, StacksOK, At, Top

(* Replacing the active frame.                                             *)
LEMMA MoveSetTop ==
  ASSUME StackInv, NEW t \in Threads, NEW f, SetTop(t, f), f.pc # "wait"
  PROVE  PlainMove(t)
  <1>1. Watcher \in Threads /\ 1 \in 1..MaxDepth
    BY DEF Threads
  <1>2. OwnStack(t)
    BY DEF OwnStack, SetTop, StackInv, StacksOK
  <1>3. frames'[Watcher][1] \in {f, frames[Watcher][1]}
    BY <1>1 DEF SetTop, StackInv, StacksOK
  <1> QED BY <1>2, <1>3 DEF PlainMove, Waits

(* Moving the active frame on.                                             *)
LEMMA MoveGoto ==
  ASSUME StackInv, NEW t \in Threads, NEW pc, At(t, pc), NEW q, q # "wait", Goto(t, q)
  PROVE  PlainMove(t)
  <1> DEFINE f == [Top(t) EXCEPT !.pc = q]
  <1>1. f.pc = q
    BY ActiveFrame DEF Frame
  <1>2. SetTop(t, f)
    BY DEF Goto
  <1> HIDE DEF f
  <1> QED BY <1>1, <1>2, MoveSetTop

(* Pushing a frame.                                                        *)
LEMMA MoveCall ==
  ASSUME StackInv, NEW t \in Threads, NEW f, Call(t, f), f.pc # "wait"
  PROVE  PlainMove(t)
  <1>1. Watcher \in Threads /\ 1 \in 1..MaxDepth
    BY DEF Threads
  <1>2. OwnStack(t)
    BY DEF OwnStack, Call, StackInv, StacksOK
  <1>3. frames'[Watcher][1] \in {f, frames[Watcher][1]}
    BY <1>1 DEF Call, StackInv, StacksOK
  <1> QED BY <1>2, <1>3 DEF PlainMove, Waits

(* Popping a frame.                                                        *)
LEMMA MoveReturn ==
  ASSUME StackInv, NEW t \in Threads, Return(t)
  PROVE  PlainMove(t)
  <1>1. Watcher \in Threads /\ 1 \in 1..MaxDepth
    BY DEF Threads
  <1>2. OwnStack(t)
    BY DEF OwnStack, Return, StackInv, StacksOK
  <1>3. frames'[Watcher][1] \in {Blank, frames[Watcher][1]}
    BY <1>1 DEF Return, StackInv, StacksOK
  <1> QED BY <1>2, <1>3, BlankIsFrame DEF PlainMove, Waits

(* Calling registry_reload and resuming at q.                              *)
LEMMA MoveCallFrom ==
  ASSUME StackInv, NEW t \in Threads, NEW pc, At(t, pc), NEW q, q # "wait",
         NEW f, CallFrom(t, q, f), f.pc # "wait"
  PROVE  PlainMove(t) /\ (t = Watcher /\ depth[t] = 1 => ~Waits')
  <1> DEFINE g == [Top(t) EXCEPT !.pc = q]
             h == [frames[t] EXCEPT ![depth[t]] = g, ![depth[t] + 1] = f]
  <1>1. Watcher \in Threads /\ 1 \in 1..MaxDepth /\ depth[t] \in 1..MaxDepth
    BY ActiveFrame DEF Threads
  <1>2. g.pc = q
    BY ActiveFrame DEF Frame
  <1>3. frames' = [frames EXCEPT ![t] = h] /\ depth' = [depth EXCEPT ![t] = @ + 1]
    BY DEF CallFrom
  <1> HIDE DEF g
  <1>4. h[1] = IF depth[t] = 1 THEN g ELSE frames[t][1]
    <2>1. DOMAIN frames[t] = 1..MaxDepth /\ depth[t] + 1 # 1
      BY <1>1 DEF StackInv, StacksOK
    <2> QED BY <1>1, <2>1
  <1> HIDE DEF h
  <1>5. OwnStack(t)
    BY <1>3 DEF OwnStack, StackInv, StacksOK
  <1>6. t = Watcher => frames'[Watcher][1] = h[1]
    BY <1>1, <1>3 DEF StackInv, StacksOK
  <1>7. t # Watcher => frames'[Watcher][1] = frames[Watcher][1]
    BY <1>1, <1>3 DEF StackInv, StacksOK
  <1> QED BY <1>2, <1>4, <1>5, <1>6, <1>7 DEF PlainMove, Waits

(* A thread inside a reload, a script or a dispatch keeps to its own stack *)
(* and publishes nothing; only the piggyback applies what was published.   *)
LEMMA ThreadMoves ==
  ASSUME StackInv, NEW t \in Threads,
         ThreadStep(t) \/ \E s \in Slots : GameCalls(t, s)
  PROVE  /\ PlainMove(t)
         /\ \/ UNCHANGED <<pending, applied>>
            \/ pending # None /\ pending' = None /\ applied' = applied + 1
  <1> USE DEF histVars
  <1>0. ASSUME NEW q, Top(t).pc = q, q # "wait", Top(t) \in Frame
        PROVE  \A e, d : /\ [Top(t) EXCEPT !.entries = e].pc # "wait"
                         /\ [Top(t) EXCEPT !.todo = d].pc # "wait"
    BY <1>0 DEF Frame
  <1>a. ASSUME NEW pc, At(t, pc)
        PROVE  Top(t) \in Frame /\ Top(t).pc = pc
    BY <1>a, ActiveFrame
  <1>1. CASE ReloadStep(t)
    <2>1. CASE ReloadPoisoned(t) \/ ReloadWriteState(t)
      BY <2>1, MoveReturn DEF ReloadPoisoned, ReloadWriteState
    <2>2. CASE ReloadEmpty(t)
      BY <2>2, MoveGoto DEF ReloadEmpty
    <2>3. CASE ReloadSnapshot(t)
      <3> DEFINE f == [Top(t) EXCEPT !.pc = "revert", !.rt = Head(registry),
                                     !.entries = journal[Head(registry)]]
      <3>1. SetTop(t, f)
        BY <2>3 DEF ReloadSnapshot
      <3>2. f.pc # "wait"
        BY <2>3, <1>a DEF ReloadSnapshot, Frame
      <3> HIDE DEF f
      <3> QED BY <2>3, <3>1, <3>2, MoveSetTop DEF ReloadSnapshot
    <2>4. CASE RevertEntry(t)
      <3>1. PICK e : SetTop(t, [Top(t) EXCEPT !.entries = Top(t).entries \ {e}])
        BY <2>4 DEF RevertEntry
      <3>2. [Top(t) EXCEPT !.entries = Top(t).entries \ {e}].pc # "wait"
        BY <2>4, <1>a, <1>0 DEF RevertEntry
      <3> QED BY <2>4, <3>1, <3>2, MoveSetTop DEF RevertEntry
    <2>5. CASE CollectOwned(t)
      <3> DEFINE f == [Top(t) EXCEPT !.pc = "unhook",
                                     !.todo = {s \in Slots : hooks[s] = Top(t).rt}]
      <3>1. SetTop(t, f)
        BY <2>5 DEF CollectOwned
      <3>2. f.pc # "wait"
        BY <2>5, <1>a DEF CollectOwned, Frame
      <3> HIDE DEF f
      <3> QED BY <2>5, <3>1, <3>2, MoveSetTop DEF CollectOwned
    <2>6. CASE UnhookOwned(t)
      <3>1. PICK s : SetTop(t, [Top(t) EXCEPT !.todo = Top(t).todo \ {s}])
        BY <2>6 DEF UnhookOwned
      <3>2. [Top(t) EXCEPT !.todo = Top(t).todo \ {s}].pc # "wait"
        BY <2>6, <1>a, <1>0 DEF UnhookOwned
      <3> QED BY <2>6, <3>1, <3>2, MoveSetTop DEF UnhookOwned
    <2>7. CASE DropRuntime(t)
      BY <2>7, MoveGoto DEF DropRuntime, AtDrop
    <2>8. CASE SpawnParseError(t) \/ MainReturns(t) \/ SpawnFails(t) \/ Insert(t)
      BY <2>8, MoveGoto DEF SpawnParseError, MainReturns, SpawnFails, Insert
    <2>9. CASE Spawn(t)
      <3>1. [Top(t) EXCEPT !.pc = "main", !.rt = nextId].pc # "wait"
        BY <2>9, <1>a DEF Spawn, Frame
      <3> QED BY <2>9, <3>1, MoveSetTop DEF Spawn
    <2>10. CASE InsertPanics(t)
      <3>1. Watcher \in Threads /\ 1 \in 1..MaxDepth
        BY DEF Threads
      <3>2. /\ frames' = [frames EXCEPT ![t] = [i \in 1..MaxDepth |-> Blank]]
            /\ depth' = [depth EXCEPT ![t] = 0]
        BY <2>10 DEF InsertPanics
      <3>3. frames'[Watcher][1] \in {Blank, frames[Watcher][1]} /\ OwnStack(t)
        BY <3>1, <3>2 DEF OwnStack, StackInv, StacksOK
      <3> QED BY <2>10, <3>3, BlankIsFrame DEF InsertPanics, PlainMove, Waits
    <2> QED BY <1>1, <2>1, <2>2, <2>3, <2>4, <2>5, <2>6, <2>7, <2>8, <2>9, <2>10 DEF ReloadStep
  <1>b. ASSUME NEW s \in Slots
        PROVE  DispatchFrame(s).pc # "wait"
    BY DEF DispatchFrame, Blank
  <1>2. CASE ScriptStep(t)
    <2>1. ASSUME NEW a \in Addrs, Write(t, a) PROVE PlainMove(t) /\ UNCHANGED <<pending, applied>>
      BY <2>1 DEF Write, stackVars, PlainMove, OwnStack, Waits
    <2>2. CASE Compute(t)
      BY <2>2 DEF Compute, stackVars, PlainMove, OwnStack, Waits
    <2>3. CASE InstallHook(t)
      <3>1. PICK s : SetTop(t, [Top(t) EXCEPT !.todo = {s}])
        BY <2>3 DEF InstallHook
      <3>2. [Top(t) EXCEPT !.todo = {s}].pc # "wait"
        BY <2>3, <1>a, <1>0 DEF InstallHook, InWasm
      <3> QED BY <2>3, <3>1, <3>2, MoveSetTop DEF InstallHook
    <2>4. CASE RecordHook(t)
      <3>1. [Top(t) EXCEPT !.todo = {}].pc # "wait"
        BY <2>4, <1>a, <1>0 DEF RecordHook
      <3> QED BY <2>4, <3>1, MoveSetTop DEF RecordHook
    <2>5. ASSUME NEW s \in Slots, ScriptRemovesHook(t, s)
          PROVE  PlainMove(t) /\ UNCHANGED <<pending, applied>>
      BY <2>5 DEF ScriptRemovesHook, stackVars, PlainMove, OwnStack, Waits
    <2>6. ASSUME NEW s \in Slots, ScriptRunsGame(t, s)
          PROVE  PlainMove(t) /\ UNCHANGED <<pending, applied>>
      BY <2>6, <1>b, MoveCall DEF ScriptRunsGame
    <2> QED BY <1>2, <2>1, <2>2, <2>3, <2>4, <2>5, <2>6 DEF ScriptStep
  <1>3. CASE DispatchStep(t)
    <2>1. CASE DispatchUnpublished(t) \/ ReplayReturns(t) \/ DispatchReturns(t)
      BY <2>1, MoveReturn DEF DispatchUnpublished, ReplayReturns, DispatchReturns
    <2>2. CASE DispatchReentrant(t) \/ DispatchFresh(t) \/ ObserverFires(t) \/ HandlerEnds(t)
      BY <2>2, MoveGoto DEF DispatchReentrant, DispatchFresh, ObserverFires, HandlerEnds
    <2>3. CASE HandlerStarts(t)
      <3> DEFINE f == [Top(t) EXCEPT !.pc = "handler", !.rt = Head(registry)]
      <3>1. SetTop(t, f)
        BY <2>3 DEF HandlerStarts
      <3>2. f.pc # "wait"
        BY <2>3, <1>a DEF HandlerStarts, Frame
      <3> HIDE DEF f
      <3> QED BY <2>3, <3>1, <3>2, MoveSetTop DEF HandlerStarts
    <2>4. CASE Piggyback(t)
      <3>1. [ReloadFrame(pending) EXCEPT !.slot = Top(t).slot].pc # "wait"
        BY DEF ReloadFrame, Blank
      <3> QED BY <2>4, <3>1, MoveSetTop DEF Piggyback
    <2> QED BY <1>3, <2>1, <2>2, <2>3, <2>4 DEF DispatchStep
  <1>4. ASSUME NEW s \in Slots, GameCalls(t, s)
        PROVE  PlainMove(t) /\ UNCHANGED <<pending, applied>>
    BY <1>4, <1>b, MoveCall DEF GameCalls
  <1> QED BY <1>1, <1>2, <1>3, <1>4 DEF ThreadStep

\* What a step may do to a published request: leave it, publish the next
\* one, take it in a dispatch, or apply it in the watcher's fallback.
RequestStep ==
  \/ UNCHANGED <<pending, applied>> /\ (Waits' => Waits)
  \/ applied' = 0
  \/ pending # None /\ pending' = None /\ applied' = applied + 1 /\ (Waits' => Waits)
  \/ Waits /\ ~Waits' /\ pending' = None /\ applied' = applied + 1

(* The watcher's own steps.                                                *)
LEMMA WatcherRequests ==
  ASSUME StackInv, WatcherStep
  PROVE  RequestStep /\ OwnStack(Watcher) /\ \E pc \in WatcherPcs : At(Watcher, pc)
  <1> USE DEF histVars
  <1>0. AtStat => \E pc \in {"poll", "beat"} : At(Watcher, pc)
    BY DEF AtStat
  <1>a. Watcher \in Threads
    BY DEF Threads
  <1>1. \E pc \in WatcherPcs : At(Watcher, pc)
    BY <1>0 DEF WatcherStep, WatcherExit, WatcherHeartbeat, WatcherUnchanged, WatcherDeleted,
       WatcherSighted, TryLoadFails, TryLoadPublishes, WaitConsumed, WaitTick, WaitFallback,
       WatcherSettle, WatcherPcs
  <1>2. CASE WatcherExit
    <2>1. PlainMove(Watcher)
      BY <1>a, <1>2, MoveReturn DEF WatcherExit
    <2> QED BY <1>1, <1>2, <2>1 DEF WatcherExit, PlainMove, RequestStep
  <1>3. CASE WatcherHeartbeat \/ WatcherUnchanged \/ WatcherSighted \/ TryLoadFails \/ WaitConsumed
    <2>1. \E q \in {"beat", "poll", "load", "settle"} : Goto(Watcher, q)
      BY <1>3 DEF WatcherHeartbeat, WatcherUnchanged, WatcherSighted, TryLoadFails, WaitConsumed
    <2>2. PlainMove(Watcher)
      BY <1>a, <1>1, <2>1, MoveGoto
    <2> QED BY <1>1, <1>3, <2>2 DEF WatcherHeartbeat, WatcherUnchanged, WatcherSighted,
       TryLoadFails, WaitConsumed, PlainMove, RequestStep
  <1>4. CASE WatcherDeleted \/ TryLoadPublishes
    <2>1. OwnStack(Watcher)
      BY <1>4 DEF WatcherDeleted, TryLoadPublishes, SetTop, OwnStack, StackInv, StacksOK
    <2> QED BY <1>1, <1>4, <2>1 DEF WatcherDeleted, TryLoadPublishes, RequestStep
  <1>5. CASE WaitTick
    BY <1>1, <1>5 DEF WaitTick, stackVars, OwnStack, RequestStep, Waits
  <1>6. CASE WaitFallback
    <2> DEFINE f == ReloadFrame(IF pending # None THEN pending ELSE Top(Watcher).arg)
    <2>1. At(Watcher, "wait") /\ CallFrom(Watcher, "settle", f) /\ f.pc # "wait"
      BY <1>6 DEF WaitFallback, ReloadFrame, Blank
    <2>2. depth[Watcher] = 1 /\ Waits
      BY <2>1, WatcherTop DEF WatcherPcs, Waits
    <2> HIDE DEF f
    <2>3. OwnStack(Watcher) /\ ~Waits'
      BY <1>a, <2>1, <2>2, MoveCallFrom DEF PlainMove
    <2> QED BY <1>1, <1>6, <2>2, <2>3 DEF WaitFallback, RequestStep
  <1>7. CASE WatcherSettle
    <2>1. [Blank EXCEPT !.pc = "poll"].pc # "wait"
      BY DEF Blank
    <2>2. PlainMove(Watcher)
      BY <1>a, <1>7, <2>1, MoveSetTop DEF WatcherSettle
    <2> QED BY <1>1, <1>7, <2>2 DEF WatcherSettle, PlainMove, RequestStep
  <1> QED BY <1>2, <1>3, <1>4, <1>5, <1>6, <1>7 DEF WatcherStep

(* The worker, the user and the unloader publish and apply nothing.        *)
LEMMA OtherRequests ==
  ASSUME StackInv,
         \/ WorkerStep
         \/ \E b \in Contents \cup {NoFile} : EditFile(b)
         \/ \E t \in Unloaders : Detach(t)
  PROVE  RequestStep
  <1> USE DEF histVars
  <1>0. Worker \in Threads /\ Watcher \in Threads /\ Unloaders \subseteq Threads
        /\ 1 \in 1..MaxDepth
    BY DEF Threads
  <1>a. \A b : ReloadFrame(b).pc # "wait"
    BY DEF ReloadFrame, Blank
  <1>1. CASE ColdStartLoad
    <2>1. PlainMove(Worker)
      BY <1>0, <1>a, <1>1, MoveCallFrom DEF ColdStartLoad
    <2> QED BY <1>1, <2>1 DEF ColdStartLoad, PlainMove, RequestStep
  <1>2. CASE ColdStartNoScript
    <2>1. PlainMove(Worker)
      BY <1>0, <1>2, MoveGoto DEF ColdStartNoScript
    <2> QED BY <1>2, <2>1 DEF ColdStartNoScript, PlainMove, RequestStep
  <1>3. CASE SpawnWatcher
    <2>1. frames'[Watcher][1] = [Blank EXCEPT !.pc = "poll"]
      BY <1>0, <1>3 DEF SpawnWatcher, StackInv, StacksOK
    <2>2. ~Waits'
      BY <2>1 DEF Waits, Blank
    <2> QED BY <1>3, <2>2 DEF SpawnWatcher, RequestStep
  <1>4. ASSUME NEW b, EditFile(b) PROVE RequestStep
    BY <1>4 DEF EditFile, stackVars, RequestStep, Waits
  <1>5. ASSUME NEW t \in Unloaders, Detach(t) PROVE RequestStep
    <2>1. PlainMove(t)
      BY <1>0, <1>a, <1>5, MoveCall DEF Detach
    <2> QED BY <1>5, <2>1 DEF Detach, PlainMove, RequestStep
  <1> QED BY <1>1, <1>2, <1>3, <1>4, <1>5 DEF WorkerStep

\* A request that is still pending was not applied yet, and while the
\* watcher waits at most one dispatch has taken it.
AppliedInv ==
  /\ applied <= 2
  /\ pending # None => applied = 0
  /\ Waits => applied <= 1

(* Every step keeps the count of applications.                             *)
LEMMA NextApplied == IInv /\ AppliedInv /\ [Next]_vars => AppliedInv'
  <1> SUFFICES ASSUME IInv, AppliedInv, [Next]_vars PROVE AppliedInv'
    OBVIOUS
  <1>0. StackInv /\ applied \in Nat
    BY DEF IInv, ShapeInv, StackInv, TypeOK, HistoryOK
  <1>1. RequestStep
    <2>1. ASSUME NEW t \in Threads, ThreadStep(t) \/ \E s \in Slots : GameCalls(t, s)
          PROVE  RequestStep
      BY <1>0, <2>1, ThreadMoves DEF PlainMove, RequestStep
    <2>2. CASE UNCHANGED vars
      BY <2>2 DEF vars, stackVars, histVars, RequestStep, Waits
    <2> QED BY <1>0, <2>1, <2>2, WatcherRequests, OtherRequests DEF Next, Environment
  <1>2. PendingIsAwaited /\ PendingIsAwaited'
    BY NextIInv DEF IInv, ShapeInv
  <1> QED BY <1>0, <1>1, <1>2 DEF AppliedInv, RequestStep, PendingIsAwaited, Waits

(***************************************************************************)
(* What the watcher published is applied at most twice                     *)
(* (AppliedAtMostTwice), however the dispatches of the game's threads race *)
(* with the fallback: a dispatch takes the request out of RELOAD_PENDING,  *)
(* and the fallback ends the wait.                                         *)
(***************************************************************************)
THEOREM AppliedTwiceAtMost == Spec => []AppliedAtMostTwice
  <1>1. Init => AppliedInv
    BY DEF Init, AppliedInv
  <1>2. AppliedInv => AppliedAtMostTwice
    BY DEF AppliedInv, AppliedAtMostTwice
  <1> QED BY <1>1, <1>2, SpecIInv, NextApplied, PTL DEF Spec

-----------------------------------------------------------------------------
(* Who holds INSTALL_GUARD.                                                *)

(***************************************************************************)
(* orchestrator.rs: the holder of INSTALL_GUARD is between publish_slot    *)
(* and record_hook of its own install_hook call, so its active frame is    *)
(* the script that made the call and it waits for no lock.                 *)
(***************************************************************************)
GuardHolderInstalls ==
  \A t \in Threads : guard = t /\ ~aborted => At(t, "main") \/ At(t, "handler")

(* A step that leaves the holder's stack alone.                            *)
LEMMA GuardKept ==
  ASSUME GuardHolderInstalls, NEW t \in Threads, OwnStack(t), guard # t, ~aborted,
         guard' \in {guard, NoThread}
  PROVE  GuardHolderInstalls'
  BY DEF GuardHolderInstalls, OwnStack, At, Top, Threads

(* A step on no stack.                                                     *)
LEMMA GuardKeptIdle ==
  ASSUME GuardHolderInstalls, UNCHANGED <<stackVars, aborted, guard>>
  PROVE  GuardHolderInstalls'
  BY DEF GuardHolderInstalls, At, Top, stackVars

(* A thread that is elsewhere does not hold the guard.                     *)
LEMMA ElsewhereNoGuard ==
  ASSUME GuardHolderInstalls, NEW t \in Threads, NEW pc, At(t, pc), pc \notin {"main", "handler"}
  PROVE  guard # t /\ ~aborted
  BY DEF GuardHolderInstalls, At

(* The steps of a thread inside a reload, a script or a dispatch.          *)
LEMMA ThreadGuard ==
  ASSUME StackInv, HooksOK, GuardHolderInstalls, NEW t \in Threads,
         ThreadStep(t) \/ \E s \in Slots : GameCalls(t, s)
  PROVE  GuardHolderInstalls'
  <1>0. OwnStack(t)
    BY ThreadMoves DEF PlainMove
  <1> USE DEF hookVars
  <1>1. CASE ReloadStep(t)
    <2>1. /\ \/ At(t, "main") /\ guard # t
             \/ \E pc \in ReloadPcs \ {"main"} : At(t, pc)
          /\ guard' \in {guard, NoThread}
      BY <1>1 DEF ReloadStep, ReloadPoisoned, ReloadEmpty, ReloadSnapshot, RevertEntry,
         CollectOwned, UnhookOwned, RemoveHook, DropRuntime, ReloadWriteState, SpawnParseError,
         Spawn, MainReturns, SpawnFails, Insert, InsertPanics, AtDrop, ReloadPcs
    <2>2. guard # t /\ ~aborted
      BY <2>1, ElsewhereNoGuard DEF ReloadPcs, At
    <2> QED BY <1>0, <2>1, <2>2, GuardKept
  <1>2. CASE ScriptStep(t)
    <2>1. CASE InstallHook(t)
      <3> DEFINE f(s) == [Top(t) EXCEPT !.todo = {s}]
      <3>1. PICK s \in Slots : SetTop(t, f(s))
        BY <2>1 DEF InstallHook
      <3>2. PICK pc \in {"main", "handler"} : At(t, pc)
        BY <2>1 DEF InstallHook, InWasm
      <3>3. f(s).pc = pc
        BY <3>2, ActiveFrame DEF Frame
      <3>4. depth[t] \in 1..MaxDepth
        BY <3>2, ActiveFrame
      <3> HIDE DEF f
      <3>5. depth' = depth /\ frames'[t][depth[t]] = f(s)
        BY <3>1, <3>4 DEF SetTop, StackInv, StacksOK
      <3>6. At(t, pc)' /\ guard' = t
        BY <2>1, <3>2, <3>3, <3>4, <3>5 DEF InstallHook, At, Top
      <3> QED BY <3>2, <3>6 DEF GuardHolderInstalls
    <2>2. CASE RecordHook(t)
      BY <2>2 DEF RecordHook, GuardHolderInstalls, Threads
    <2>3. CASE ~InstallHook(t) /\ ~RecordHook(t)
      <3>1. InWasm(t) /\ UNCHANGED guard
        BY <1>2, <2>3 DEF ScriptStep, Write, Compute, ScriptRemovesHook, RemoveHook,
           ScriptRunsGame
      <3> QED BY <1>0, <3>1, GuardKept DEF InWasm, At
    <2> QED BY <2>1, <2>2, <2>3
  <1>3. CASE DispatchStep(t)
    <2>1. /\ \/ At(t, "handler") /\ guard # t
             \/ \E pc \in DispatchPcs \ {"handler"} : At(t, pc)
          /\ UNCHANGED guard
      BY <1>3 DEF DispatchStep, DispatchUnpublished, DispatchReentrant, DispatchFresh,
         HandlerStarts, ObserverFires, HandlerEnds, ReplayReturns, DispatchReturns, Piggyback,
         DispatchPcs
    <2>2. guard # t /\ ~aborted
      BY <2>1, ElsewhereNoGuard DEF DispatchPcs, At
    <2> QED BY <1>0, <2>1, <2>2, GuardKept
  <1>4. ASSUME NEW s \in Slots, GameCalls(t, s)
        PROVE  GuardHolderInstalls'
    <2>1. UNCHANGED guard /\ ~aborted
      BY <1>4 DEF GameCalls, At
    <2>2. guard # t
      <3>1. CASE depth[t] = 0
        BY <2>1, <3>1 DEF GuardHolderInstalls, At
      <3>2. CASE depth[t] # 0
        BY <1>4, <3>2, ElsewhereNoGuard DEF GameCalls
      <3> QED BY <3>1, <3>2
    <2> QED BY <1>0, <2>1, <2>2, GuardKept
  <1> QED BY <1>1, <1>2, <1>3, <1>4 DEF ThreadStep

(* Every step keeps the guard with the script that installs a hook.        *)
LEMMA NextGuard == IInv /\ GuardHolderInstalls /\ [Next]_vars => GuardHolderInstalls'
  <1> SUFFICES ASSUME IInv, GuardHolderInstalls, [Next]_vars PROVE GuardHolderInstalls'
    OBVIOUS
  <1>0. StackInv /\ HooksOK
    BY DEF IInv, ShapeInv, StackInv, TypeOK
  <1>a. Worker \in Threads /\ Watcher \in Threads /\ Unloaders \subseteq Threads
    BY DEF Threads
  <1> USE DEF hookVars
  <1>1. CASE WatcherStep
    <2>1. OwnStack(Watcher) /\ \E pc \in WatcherPcs : At(Watcher, pc)
      BY <1>0, <1>1, WatcherRequests
    <2>2. UNCHANGED guard
      BY <1>1 DEF WatcherStep, WatcherExit, WatcherHeartbeat, WatcherUnchanged, WatcherDeleted,
         WatcherSighted, TryLoadFails, TryLoadPublishes, WaitConsumed, WaitTick, WaitFallback,
         WatcherSettle
    <2> QED BY <1>a, <2>1, <2>2, ElsewhereNoGuard, GuardKept DEF WatcherPcs
  <1>2. CASE ColdStartLoad \/ ColdStartNoScript
    <2>1. OwnStack(Worker)
      BY <1>0, <1>2 DEF ColdStartLoad, ColdStartNoScript, CallFrom, Goto, SetTop, OwnStack,
         StackInv, StacksOK
    <2>2. At(Worker, "cold") /\ UNCHANGED guard
      BY <1>2 DEF ColdStartLoad, ColdStartNoScript
    <2> QED BY <1>a, <2>1, <2>2, ElsewhereNoGuard, GuardKept
  <1>3. CASE SpawnWatcher
    <2>1. At(Worker, "spawn_watcher") /\ UNCHANGED guard
      BY <1>3 DEF SpawnWatcher
    <2>2. depth[Worker] \in 1..MaxDepth /\ frames[Worker][depth[Worker]].pc = "spawn_watcher"
      BY <1>0, <1>a, <2>1, ActiveFrame DEF At, Top
    <2>3. depth[Worker] = 1
      BY <1>0, <1>a, <2>2 DEF StackInv, StackShape, FrameShape
    <2>4. depth[Watcher] = 0
      BY <1>0, <1>a, <2>2, <2>3 DEF StackInv, StartedOnce, StacksOK
    <2>5. guard # Worker /\ guard # Watcher /\ ~aborted
      BY <1>a, <2>1, <2>4, ElsewhereNoGuard DEF GuardHolderInstalls, At
    <2>6. \A u \in Threads \ {Worker, Watcher} : frames'[u] = frames[u] /\ depth'[u] = depth[u]
      BY <1>0, <1>3 DEF SpawnWatcher, StackInv, StacksOK
    <2> QED BY <2>1, <2>5, <2>6 DEF GuardHolderInstalls, At, Top
  <1>4. ASSUME NEW t \in Threads, ThreadStep(t) \/ \E s \in Slots : GameCalls(t, s)
        PROVE  GuardHolderInstalls'
    BY <1>0, <1>4, ThreadGuard
  <1>5. ASSUME NEW b, EditFile(b) PROVE GuardHolderInstalls'
    BY <1>5, GuardKeptIdle DEF EditFile
  <1>6. ASSUME NEW t \in Unloaders, Detach(t) PROVE GuardHolderInstalls'
    <2>1. OwnStack(t)
      BY <1>0, <1>6 DEF Detach, Call, OwnStack, StackInv, StacksOK
    <2>2. UNCHANGED guard /\ ~aborted /\ guard # t
      BY <1>a, <1>6 DEF Detach, GuardHolderInstalls, At
    <2> QED BY <1>a, <2>1, <2>2, GuardKept
  <1>7. CASE UNCHANGED vars
    BY <1>7, GuardKeptIdle DEF vars
  <1> QED BY <1>1, <1>2, <1>3, <1>4, <1>5, <1>6, <1>7 DEF Next, WorkerStep, Environment

(***************************************************************************)
(* The holder of INSTALL_GUARD is always the script inside install_hook    *)
(* (GuardHolderInstalls). With it the guard of RecordHook holds, which is  *)
(* the state part of InstallGuardNeverWaits: remove_hook and install_hook  *)
(* of the other threads wait for a thread that waits for nothing.          *)
(***************************************************************************)
THEOREM GuardHolderIsInstalling == Spec => []GuardHolderInstalls
  <1>1. Init => GuardHolderInstalls
    BY DEF Init, GuardHolderInstalls, Threads
  <1> QED BY <1>1, SpecIInv, NextGuard, PTL DEF Spec

-----------------------------------------------------------------------------
(* Reloads without game threads.                                           *)

Solo == GameThreads = {} /\ Unloaders = {}

\* Without game threads and unloaders there is one stack at a time: a thread's
\* own loop, one reload, and dispatches that its frog_main runs into.
SoloStack(d, h) ==
  \A i \in 1..MaxDepth : i <= d =>
    /\ i = 1 => h[i].pc \in WatcherPcs \cup {"cold", "spawn_watcher"}
    /\ i = 2 => h[i].pc \in ReloadPcs
    /\ i > 2 => h[i].pc \in DispatchPcs \ {"handler"} /\ h[2].pc = "main"
SoloShape ==
  /\ ~poisoned
  /\ depth[Watcher] > 0 => depth[Worker] = 0
  /\ \A t \in Threads : SoloStack(depth[t], frames[t])

\* The one reload there is.
Busy ==
  IF depth[Watcher] >= 2 THEN frames[Watcher][2]
  ELSE IF depth[Worker] >= 2 THEN frames[Worker][2] ELSE Blank

Retiring == Busy.pc \in {"revert", "unhook"}
Starting == Busy.pc \in {"main", "insert"}
\* The runtime whose writes are being journaled.
InCharge(r) == (registry = <<r>> /\ ~Retiring) \/ (Starting /\ Busy.rt = r)

\* The loss of r's write to a has been logged.
Lost(a, r) == <<a, r>> \in unrestored

\* An entry that brings back neither r nor a runtime that is gone, unless
\* that value was already lost.
Clean(e, r) == e.orig < nextId /\ (e.orig \in dropped \cup {r} => Lost(e.addr, e.orig))

\* What is left of the old runtime at each step of a reload.
SoloPhase ==
  /\ Busy.pc \in {"spawn", "main", "insert"} => registry = <<>>
  /\ Retiring => registry = <<Busy.rt>>
  /\ Busy.pc = "revert" =>
       /\ \A e \in Busy.entries : Clean(e, Busy.rt)
       /\ \A a \in Addrs : mem[a] = Busy.rt =>
            Lost(a, Busy.rt) \/ \E e \in Busy.entries : e.addr = a
  /\ Busy.pc = "unhook" =>
       /\ \A a \in Addrs : mem[a] = Busy.rt => Lost(a, Busy.rt)
       /\ \A s \in Slots : hooks[s] = Busy.rt => s \in Busy.todo

\* The journal of the runtime in charge covers its writes.
SoloJournal ==
  /\ \A r \in Ids : \A e \in journal[r] : Clean(e, r)
  /\ \A r \in Ids : journal[r] # {} => InCharge(r)
  /\ \A r \in Ids : \A a \in Addrs : InCharge(r) /\ mem[a] = r =>
       Lost(a, r) \/ \E e \in journal[r] : e.addr = a
  /\ \A a \in Addrs : mem[a] < nextId

SoloData == SoloPhase /\ SoloJournal /\ DroppedLeavesNoHook /\ DroppedLeavesNoWrite

LEMMA SoloThreads ==
  ASSUME Solo
  PROVE  Threads = {Watcher, Worker} /\ Watcher # Worker
  BY DEF Solo, Threads

(* The thread that does something is the only one that can.                *)
LEMMA SoloBusy ==
  ASSUME Solo, StackInv, SoloShape, NEW t \in Threads, depth[t] > 0
  PROVE  /\ \A u \in Threads \ {t} : depth[u] = 0
         /\ Busy = IF depth[t] >= 2 THEN frames[t][2] ELSE Blank
  <1>1. \A u \in Threads : depth[u] \in Nat
    BY DEF StackInv, StacksOK
  <1>2. CASE t = Watcher
    BY <1>1, <1>2, SoloThreads DEF SoloShape, Busy
  <1>3. CASE t = Worker
    <2>1. depth[Watcher] = 0
      BY <1>1, <1>3, SoloThreads DEF SoloShape
    <2> QED BY <1>3, <2>1, SoloThreads DEF Busy
  <1> QED BY <1>2, <1>3, SoloThreads

(* Its step replaces its stack by one of the same shape.                   *)
LEMMA SoloMove ==
  ASSUME Solo, StackInv, StackInv', SoloShape, NEW t \in Threads, depth[t] > 0, NEW h, NEW d,
         frames' = [frames EXCEPT ![t] = h], depth' = [depth EXCEPT ![t] = d], SoloStack(d, h),
         poisoned' = poisoned
  PROVE  /\ SoloShape'
         /\ Busy' = IF d >= 2 THEN h[2] ELSE Blank
  <1>1. frames'[t] = h /\ depth'[t] = d
    BY DEF StackInv, StacksOK
  <1>2. \A u \in Threads \ {t} : frames'[u] = frames[u] /\ depth'[u] = depth[u] /\ depth[u] = 0
    BY SoloBusy DEF StackInv, StacksOK
  <1>3. \A u \in Threads : depth'[u] \in Nat
    BY DEF StackInv, StacksOK
  <1>4. SoloShape'
    <2>1. \A u \in Threads : SoloStack(depth[u], frames[u])'
      <3> TAKE u \in Threads
      <3>1. SoloStack(depth[u], frames[u])
        BY DEF SoloShape
      <3> QED BY <1>1, <1>2, <3>1 DEF SoloStack
    <2>2. depth'[Watcher] > 0 => depth'[Worker] = 0
      BY <1>2, <1>3, SoloThreads
    <2> QED BY <2>1, <2>2 DEF SoloShape
  <1>5. Busy' = IF depth'[Watcher] >= 2 THEN frames'[Watcher][2]
                ELSE IF depth'[Worker] >= 2 THEN frames'[Worker][2] ELSE Blank
    BY DEF Busy
  <1>6. CASE t = Watcher
    <2>1. depth'[Worker] = 0
      BY <1>2, <1>6, SoloThreads
    <2>2. Busy' = IF d >= 2 THEN h[2] ELSE Blank
      BY <1>1, <1>5, <1>6, <2>1
    <2> QED BY <1>4, <2>2
  <1>7. CASE t = Worker
    <2>1. depth'[Watcher] = 0
      BY <1>2, <1>7, SoloThreads
    <2>2. Busy' = IF d >= 2 THEN h[2] ELSE Blank
      BY <1>1, <1>5, <1>7, <2>1
    <2> QED BY <1>4, <2>2
  <1> QED BY <1>6, <1>7, SoloThreads

(* Where a thread is follows from what it does.                            *)
LEMMA SoloAt ==
  ASSUME Solo, StackInv, SoloShape, NEW t \in Threads, NEW pc, At(t, pc)
  PROVE  /\ depth[t] \in 1..MaxDepth /\ depth[t] > 0 /\ Top(t) \in Frame /\ Top(t).pc = pc
         /\ pc \in ReloadPcs => depth[t] = 2 /\ Top(t) = frames[t][2] /\ Busy = Top(t)
         /\ pc \in DispatchPcs => depth[t] > 2 /\ pc # "handler" /\ frames[t][2].pc = "main" /\ Busy = frames[t][2]
         /\ pc \in WatcherPcs \cup {"cold", "spawn_watcher"} => depth[t] = 1 /\ Busy = Blank
  <1>1. depth[t] \in 1..MaxDepth /\ depth[t] > 0 /\ Top(t) \in Frame /\ Top(t).pc = pc /\ Top(t) = frames[t][depth[t]]
    BY ActiveFrame DEF Top, At
  <1>2. SoloStack(depth[t], frames[t])
    BY DEF SoloShape
  <1>3. /\ depth[t] = 1 => pc \in WatcherPcs \cup {"cold", "spawn_watcher"}
        /\ depth[t] = 2 => pc \in ReloadPcs
        /\ depth[t] > 2 => pc \in DispatchPcs \ {"handler"} /\ frames[t][2].pc = "main"
    BY <1>1, <1>2 DEF SoloStack
  <1>4. depth[t] = 1 \/ depth[t] = 2 \/ depth[t] > 2
    BY <1>1
  <1>5. Busy = IF depth[t] >= 2 THEN frames[t][2] ELSE Blank
    BY <1>1, SoloBusy
  <1>6. CASE depth[t] = 1
    <2>1. pc \notin ReloadPcs /\ pc \notin DispatchPcs
      BY <1>3, <1>6 DEF WatcherPcs, ReloadPcs, DispatchPcs
    <2> QED BY <1>1, <1>5, <1>6, <2>1
  <1>7. CASE depth[t] = 2
    <2>1. pc \notin WatcherPcs \cup {"cold", "spawn_watcher"} /\ pc \notin DispatchPcs
      BY <1>3, <1>7 DEF WatcherPcs, ReloadPcs, DispatchPcs
    <2> QED BY <1>1, <1>5, <1>7, <2>1
  <1>8. CASE depth[t] > 2
    <2>1. pc \notin WatcherPcs \cup {"cold", "spawn_watcher"} /\ pc \notin ReloadPcs
      BY <1>3, <1>8 DEF WatcherPcs, ReloadPcs, DispatchPcs
    <2>2. depth[t] >= 2
      BY <1>1, <1>8
    <2> QED BY <1>1, <1>3, <1>5, <1>8, <2>1, <2>2
  <1> QED BY <1>4, <1>6, <1>7, <1>8

(* A step of the reload.                                                   *)
LEMMA SoloSetTop ==
  ASSUME Solo, StackInv, StackInv', SoloShape, NEW t \in Threads, NEW pc \in ReloadPcs, At(t, pc),
         NEW f, f.pc \in ReloadPcs, SetTop(t, f), poisoned' = poisoned
  PROVE  SoloShape' /\ Busy' = f
  <1> DEFINE h == [frames[t] EXCEPT ![2] = f]
  <1>1. depth[t] = 2 /\ depth[t] > 0 /\ 2 \in 1..MaxDepth
    BY SoloAt
  <1>2. frames[t] \in [1..MaxDepth -> Frame] /\ SoloStack(2, frames[t])
    BY <1>1 DEF StackInv, StacksOK, SoloShape
  <1>3. h[2] = f /\ h[1] = frames[t][1]
    BY <1>1, <1>2
  <1>4. SoloStack(2, h)
    BY <1>2, <1>3 DEF SoloStack
  <1>5. frames' = [frames EXCEPT ![t] = h] /\ depth' = [depth EXCEPT ![t] = 2]
    BY <1>1 DEF SetTop, StackInv, StacksOK
  <1> HIDE DEF h
  <1>6. SoloShape' /\ Busy' = IF 2 >= 2 THEN h[2] ELSE Blank
    BY <1>1, <1>4, <1>5, SoloMove
  <1> QED BY <1>3, <1>6

LEMMA SoloGoto ==
  ASSUME Solo, StackInv, StackInv', SoloShape, NEW t \in Threads, NEW pc \in ReloadPcs, At(t, pc),
         NEW q \in ReloadPcs, Goto(t, q), poisoned' = poisoned
  PROVE  SoloShape' /\ Busy' = [Busy EXCEPT !.pc = q] /\ Busy'.pc = q /\ Busy'.rt = Busy.rt
  <1> DEFINE f == [Top(t) EXCEPT !.pc = q]
  <1>1. Top(t) \in Frame /\ Busy = Top(t)
    BY SoloAt
  <1>2. f.pc = q /\ f.rt = Top(t).rt
    BY <1>1 DEF Frame
  <1>3. SetTop(t, f)
    BY DEF Goto
  <1> HIDE DEF f
  <1>4. SoloShape' /\ Busy' = f
    BY <1>2, <1>3, SoloSetTop
  <1> QED BY <1>1, <1>2, <1>4 DEF f

(* The reload returns.                                                     *)
LEMMA SoloReturn ==
  ASSUME Solo, StackInv, StackInv', SoloShape, NEW t \in Threads, NEW pc \in ReloadPcs, At(t, pc),
         Return(t), poisoned' = poisoned
  PROVE  SoloShape' /\ Busy' = Blank
  <1> DEFINE h == [frames[t] EXCEPT ![2] = Blank]
  <1>1. depth[t] = 2 /\ depth[t] > 0 /\ 2 \in 1..MaxDepth
    BY SoloAt
  <1>2. frames[t] \in [1..MaxDepth -> Frame] /\ SoloStack(2, frames[t])
    BY <1>1 DEF StackInv, StacksOK, SoloShape
  <1>3. h[1] = frames[t][1]
    BY <1>1, <1>2
  <1>4. SoloStack(1, h)
    BY <1>2, <1>3 DEF SoloStack
  <1>5. frames' = [frames EXCEPT ![t] = h] /\ depth' = [depth EXCEPT ![t] = 1]
    BY <1>1 DEF Return, StackInv, StacksOK
  <1> HIDE DEF h
  <1>6. SoloShape' /\ Busy' = IF 1 >= 2 THEN h[2] ELSE Blank
    BY <1>1, <1>4, <1>5, SoloMove
  <1> QED BY <1>6

InnerPc(pc) == pc \in DispatchPcs \ {"handler"}

(* Dispatches that frog_main runs into move above the reload.              *)
LEMMA SoloNested ==
  ASSUME Solo, StackInv, StackInv', SoloShape, NEW t \in Threads, NEW pc \in DispatchPcs, At(t, pc),
         poisoned' = poisoned,
         \/ \E f : SetTop(t, f) /\ InnerPc(f.pc)
         \/ \E f : Call(t, f) /\ InnerPc(f.pc)
         \/ Return(t)
  PROVE  SoloShape' /\ Busy' = Busy
  <1> DEFINE d == depth[t]
  <1>1. /\ d \in 1..MaxDepth /\ d > 2 /\ d > 0 /\ frames[t][2].pc = "main" /\ Busy = frames[t][2]
        /\ depth[t] >= 2
    BY SoloAt
  <1>2. frames[t] \in [1..MaxDepth -> Frame] /\ SoloStack(d, frames[t])
    BY DEF StackInv, StacksOK, SoloShape
  <1>3. CASE \E f : SetTop(t, f) /\ InnerPc(f.pc)
    <2>1. PICK f : SetTop(t, f) /\ InnerPc(f.pc)
      BY <1>3
    <2> DEFINE h == [frames[t] EXCEPT ![d] = f]
    <2>2. h[d] = f /\ h[2] = frames[t][2] /\ \A i \in 1..MaxDepth : i # d => h[i] = frames[t][i]
      BY <1>1, <1>2
    <2>3. SoloStack(d, h)
      BY <1>1, <1>2, <2>1, <2>2 DEF SoloStack, InnerPc
    <2>4. frames' = [frames EXCEPT ![t] = h] /\ depth' = [depth EXCEPT ![t] = d]
      BY <2>1 DEF SetTop, StackInv, StacksOK
    <2> HIDE DEF h, d
    <2>5. SoloShape' /\ Busy' = IF d >= 2 THEN h[2] ELSE Blank
      BY <1>1, <2>3, <2>4, SoloMove DEF d
    <2> QED BY <1>1, <2>2, <2>5
  <1>4. CASE \E f : Call(t, f) /\ InnerPc(f.pc)
    <2>1. PICK f : Call(t, f) /\ InnerPc(f.pc)
      BY <1>4
    <2> DEFINE h == [frames[t] EXCEPT ![d + 1] = f]
    <2>2. d + 1 \in 1..MaxDepth
      BY <1>1, <2>1 DEF Call
    <2>3. h[d + 1] = f /\ h[2] = frames[t][2] /\ \A i \in 1..MaxDepth : i # d + 1 => h[i] = frames[t][i]
      BY <1>1, <1>2, <2>2
    <2>4. SoloStack(d + 1, h)
      BY <1>1, <1>2, <2>1, <2>3 DEF SoloStack, InnerPc
    <2>5. frames' = [frames EXCEPT ![t] = h] /\ depth' = [depth EXCEPT ![t] = d + 1] /\ d + 1 >= 2
      BY <1>1, <2>1 DEF Call, StackInv, StacksOK
    <2> HIDE DEF h, d
    <2>6. SoloShape' /\ Busy' = IF d + 1 >= 2 THEN h[2] ELSE Blank
      BY <1>1, <2>4, <2>5, SoloMove DEF d
    <2> QED BY <1>1, <2>3, <2>5, <2>6
  <1>5. CASE Return(t)
    <2> DEFINE h == [frames[t] EXCEPT ![d] = Blank]
    <2>1. h[2] = frames[t][2] /\ \A i \in 1..MaxDepth : i # d => h[i] = frames[t][i]
      BY <1>1, <1>2
    <2>2. SoloStack(d - 1, h)
      BY <1>1, <1>2, <2>1 DEF SoloStack
    <2>3. frames' = [frames EXCEPT ![t] = h] /\ depth' = [depth EXCEPT ![t] = d - 1] /\ d - 1 >= 2
      BY <1>1, <1>5 DEF Return, StackInv, StacksOK
    <2> HIDE DEF h, d
    <2>4. SoloShape' /\ Busy' = IF d - 1 >= 2 THEN h[2] ELSE Blank
      BY <1>1, <2>2, <2>3, SoloMove DEF d
    <2> QED BY <1>1, <2>1, <2>3, <2>4
  <1> QED BY <1>3, <1>4, <1>5

(* frog_main runs into a hooked method.                                    *)
LEMMA SoloRunsGame ==
  ASSUME Solo, StackInv, StackInv', SoloShape, NEW t \in Threads, At(t, "main"), NEW f, Call(t, f),
         InnerPc(f.pc), poisoned' = poisoned
  PROVE  SoloShape' /\ Busy' = Busy
  <1> DEFINE h == [frames[t] EXCEPT ![3] = f]
  <1>1. depth[t] = 2 /\ depth[t] > 0 /\ Busy = frames[t][2] /\ frames[t][2].pc = "main"
    BY SoloAt DEF ReloadPcs
  <1>2. frames[t] \in [1..MaxDepth -> Frame] /\ SoloStack(2, frames[t]) /\ 3 \in 1..MaxDepth /\ 2 \in 1..MaxDepth
    BY <1>1 DEF StackInv, StacksOK, SoloShape, Call
  <1>3. h[3] = f /\ h[2] = frames[t][2] /\ h[1] = frames[t][1]
    BY <1>2
  <1>4. SoloStack(3, h)
    BY <1>1, <1>2, <1>3 DEF SoloStack, InnerPc
  <1>5. frames' = [frames EXCEPT ![t] = h] /\ depth' = [depth EXCEPT ![t] = 3]
    BY <1>1 DEF Call, StackInv, StacksOK
  <1> HIDE DEF h
  <1>6. SoloShape' /\ Busy' = IF 3 >= 2 THEN h[2] ELSE Blank
    BY <1>1, <1>4, <1>5, SoloMove
  <1> QED BY <1>1, <1>3, <1>6

OuterPcs == WatcherPcs \cup {"cold", "spawn_watcher"}

(* The loop of a thread moves on, or calls registry_reload.                *)
LEMMA SoloOuter ==
  ASSUME Solo, StackInv, StackInv', SoloShape, NEW t \in Threads, NEW pc \in OuterPcs, At(t, pc),
         NEW f, SetTop(t, f), f.pc \in OuterPcs, poisoned' = poisoned
  PROVE  SoloShape' /\ Busy' = Blank
  <1> DEFINE h == [frames[t] EXCEPT ![1] = f]
  <1>1. depth[t] = 1 /\ depth[t] > 0 /\ 1 \in 1..MaxDepth
    BY SoloAt DEF OuterPcs
  <1>2. frames[t] \in [1..MaxDepth -> Frame]
    BY DEF StackInv, StacksOK
  <1>3. h[1] = f
    BY <1>1, <1>2
  <1>4. SoloStack(1, h)
    BY <1>3 DEF SoloStack, OuterPcs
  <1>5. frames' = [frames EXCEPT ![t] = h] /\ depth' = [depth EXCEPT ![t] = 1]
    BY <1>1 DEF SetTop, StackInv, StacksOK
  <1> HIDE DEF h
  <1>6. SoloShape' /\ Busy' = IF 1 >= 2 THEN h[2] ELSE Blank
    BY <1>1, <1>4, <1>5, SoloMove
  <1> QED BY <1>6

LEMMA SoloOuterGoto ==
  ASSUME Solo, StackInv, StackInv', SoloShape, NEW t \in Threads, NEW pc \in OuterPcs, At(t, pc),
         NEW q \in OuterPcs, Goto(t, q), poisoned' = poisoned
  PROVE  SoloShape' /\ Busy' = Blank
  <1> DEFINE f == [Top(t) EXCEPT !.pc = q]
  <1>1. f.pc = q
    BY SoloAt DEF Frame
  <1>2. SetTop(t, f)
    BY DEF Goto
  <1> HIDE DEF f
  <1> QED BY <1>1, <1>2, SoloOuter

LEMMA SoloReload ==
  ASSUME Solo, StackInv, StackInv', SoloShape, NEW t \in Threads, NEW pc \in OuterPcs, At(t, pc),
         NEW q \in OuterPcs, NEW b, CallFrom(t, q, ReloadFrame(b)), poisoned' = poisoned
  PROVE  SoloShape' /\ Busy' = ReloadFrame(b)
  <1> DEFINE g == [Top(t) EXCEPT !.pc = q]
             f == ReloadFrame(b)
             h == [frames[t] EXCEPT ![1] = g, ![2] = f]
  <1>1. depth[t] = 1 /\ depth[t] > 0 /\ 2 \in 1..MaxDepth /\ 1 \in 1..MaxDepth
    BY SoloAt DEF OuterPcs, CallFrom
  <1>2. g.pc = q /\ f.pc = "lock1"
    BY SoloAt DEF Frame, ReloadFrame, Blank
  <1>3. frames[t] \in [1..MaxDepth -> Frame]
    BY DEF StackInv, StacksOK
  <1>5. frames' = [frames EXCEPT ![t] = h] /\ depth' = [depth EXCEPT ![t] = 2]
    BY <1>1 DEF CallFrom, StackInv, StacksOK
  <1> HIDE DEF g, f
  <1>4. h[1] = g /\ h[2] = f
    BY <1>1, <1>3
  <1> HIDE DEF h
  <1>6. SoloStack(2, h)
    BY <1>2, <1>4 DEF SoloStack, OuterPcs, ReloadPcs
  <1>7. SoloShape' /\ Busy' = IF 2 >= 2 THEN h[2] ELSE Blank
    BY <1>1, <1>5, <1>6, SoloMove
  <1> QED BY <1>4, <1>7 DEF f

-----------------------------------------------------------------------------
(* What each step does to hooks, memory and journals.                      *)

LEMMA BusyIsFrame ==
  ASSUME Solo, StackInv
  PROVE  Busy \in Frame
  <1>1. ASSUME NEW t \in Threads, depth[t] >= 2 PROVE frames[t][2] \in Frame
    BY <1>1 DEF StackInv, StacksOK
  <1>2. Watcher \in Threads /\ Worker \in Threads
    BY DEF Threads
  <1> QED BY <1>1, <1>2, BlankIsFrame DEF Busy

(* The runtime that is being started is neither parked nor gone.           *)
LEMMA StartingIsFresh ==
  ASSUME Solo, IInv, Starting
  PROVE  Busy.rt \in Ids /\ Busy.rt < nextId /\ Busy.rt \notin dropped
  <1>1. PICK t \in Threads : depth[t] >= 2 /\ Busy = frames[t][2]
    <2>1. Watcher \in Threads /\ Worker \in Threads
      BY DEF Threads
    <2> QED BY <2>1, BlankIsFrame DEF Busy, Starting
  <1>2. 2 \in 1..MaxDepth /\ frames[t][2] \in Frame
    BY <1>1 DEF IInv, ShapeInv, TypeOK, StacksOK
  <1>3. Busy.rt # 0
    BY <1>1, <1>2 DEF Starting, IInv, ShapeInv, StackShape, FrameShape
  <1>4. Unparked(t, 2)
    BY <1>1 DEF Unparked, Starting
  <1>5. Busy.rt < nextId /\ Busy.rt \notin dropped
    BY <1>1, <1>2, <1>4 DEF IInv, UnparkedIsFresh
  <1>6. Busy.rt \in 0..MaxId
    BY <1>1, <1>2 DEF Frame
  <1> QED BY <1>3, <1>5, <1>6 DEF Ids

\* The part of the type invariant that the steps below need.
LEMMA SoloTypes ==
  ASSUME IInv
  PROVE  /\ nextId \in 1..(MaxId + 1) /\ journal \in [Ids -> SUBSET Entries]
         /\ mem \in [Addrs -> 0..MaxId] /\ hooks \in [Slots -> 0..MaxId]
         /\ dropped \subseteq Ids /\ registry \in Seq(Ids) /\ 0 \notin dropped
         /\ registry # <<>> => /\ registry = <<registry[1]>> /\ Len(registry) = 1 /\ registry[1] \in Ids
                               /\ registry[1] < nextId /\ registry[1] \notin dropped
  <1>1. /\ nextId \in 1..(MaxId + 1) /\ journal \in [Ids -> SUBSET Entries]
        /\ mem \in [Addrs -> 0..MaxId] /\ hooks \in [Slots -> 0..MaxId]
        /\ dropped \subseteq Ids /\ registry \in Seq(Ids)
    BY DEF IInv, ShapeInv, TypeOK, RuntimeOK, HooksOK, HistoryOK, RegistryOK
  <1>2. 0 \notin dropped
    BY <1>1 DEF Ids
  <1>3. ASSUME registry # <<>> PROVE registry = <<registry[1]>> /\ Len(registry) = 1 /\ registry[1] \in Ids
    <2>1. Len(registry) = 1 /\ registry[1] \in Ids
      BY <1>3, OneRuntime
    <2> DEFINE q == <<registry[1]>>
    <2>2. q \in Seq(Ids) /\ Len(q) = 1 /\ q[1] = registry[1]
      BY <2>1
    <2> HIDE DEF q
    <2>3. \A i \in 1..Len(registry) : registry[i] = q[i]
      BY <2>1, <2>2
    <2>4. registry = q
      BY <1>1, <2>1, <2>2, <2>3, SeqEqual
    <2> QED BY <2>1, <2>4 DEF q
  <1>4. registry # <<>> => registry[1] < nextId /\ registry[1] \notin dropped
    BY <1>3 DEF IInv, RegistryHoldsOneFreshRuntime
  <1> QED BY <1>1, <1>2, <1>3, <1>4

\* What SoloData speaks about besides the reload.
soloVars == <<registry, journal, mem, hooks, dropped, nextId, unrestored>>

(* Nothing changes but the place in the reload.                            *)
LEMMA DataQuiet ==
  ASSUME SoloData, UNCHANGED soloVars,
         \/ Busy' = Busy
         \/ /\ ~Retiring /\ ~Retiring' /\ (Starting' <=> Starting) /\ (Starting => Busy'.rt = Busy.rt)
            /\ Busy'.pc = "spawn" => registry = <<>>
  PROVE  SoloData'
  <1>1. UNCHANGED <<registry, journal, mem, hooks, dropped, nextId, unrestored>>
    BY DEF soloVars
  <1>2. \A r : InCharge(r)' <=> InCharge(r)
    BY <1>1 DEF InCharge, Starting, Retiring
  <1>3. \A e, r : Clean(e, r)' <=> Clean(e, r)
    BY <1>1 DEF Clean, Lost
  <1>4. SoloJournal'
    BY <1>1, <1>2, <1>3 DEF SoloData, SoloJournal, Lost
  <1>5. SoloPhase'
    <2>1. CASE Busy' = Busy
      BY <1>1, <1>3, <2>1 DEF SoloData, SoloPhase, Retiring, Lost
    <2>2. CASE Busy' # Busy
      BY <1>1, <2>2 DEF SoloData, SoloPhase, Retiring, Starting, Lost
    <2> QED BY <2>1, <2>2
  <1> QED BY <1>1, <1>4, <1>5 DEF SoloData, DroppedLeavesNoHook, DroppedLeavesNoWrite

(* Step 1 takes the journal of the parked runtime.                         *)
LEMMA DataSnapshot ==
  ASSUME IInv, SoloData, Busy.pc = "lock1", registry # <<>>,
         Busy'.pc = "revert", Busy'.rt = registry[1], Busy'.entries = journal[registry[1]],
         journal' = [journal EXCEPT ![registry[1]] = {}], UNCHANGED <<registry, mem, hooks, dropped, nextId, unrestored>>
  PROVE  SoloData'
  <1> DEFINE r1 == registry[1]
  <1>1. r1 \in Ids /\ registry = <<r1>> /\ journal \in [Ids -> SUBSET Entries]
    BY SoloTypes
  <1>2. InCharge(r1) /\ \A r \in Ids : InCharge(r) => r = r1
    BY <1>1 DEF InCharge, Retiring, Starting
  <1>3. \A r : ~InCharge(r)'
    BY DEF InCharge, Retiring, Starting
  <1>4. \A e, r : Clean(e, r)' <=> Clean(e, r)
    BY DEF Clean, Lost
  <1>5. \A r \in Ids : journal'[r] = {}
    BY <1>1, <1>2 DEF SoloData, SoloJournal
  <1>6. SoloJournal'
    BY <1>3, <1>5 DEF SoloData, SoloJournal, Lost
  <1>7. SoloPhase'
    <2>1. \A e \in Busy'.entries : Clean(e, r1)
      BY <1>1 DEF SoloData, SoloJournal
    <2>2. \A a \in Addrs : mem'[a] = r1 => Lost(a, r1) \/ \E e \in Busy'.entries : e.addr = a
      BY <1>1, <1>2 DEF SoloData, SoloJournal
    <2> QED BY <1>1, <1>4, <2>1, <2>2 DEF SoloPhase, Retiring, Lost
  <1> QED BY <1>6, <1>7 DEF SoloData, DroppedLeavesNoHook, DroppedLeavesNoWrite

(* While a runtime is torn down no journal is left.                        *)
LEMMA RetiringJournal ==
  ASSUME SoloData, Retiring
  PROVE  /\ \A r : ~InCharge(r)
         /\ \A r \in Ids : journal[r] = {}
  <1>1. \A r : ~InCharge(r)
    BY DEF InCharge, Retiring, Starting
  <1> QED BY <1>1 DEF SoloData, SoloJournal

(* Step 2 writes one original back, or logs that it could not.             *)
LEMMA DataRevert ==
  ASSUME IInv, SoloData, Busy.pc = "revert", NEW e \in Busy.entries, e.addr \in Addrs,
         Busy'.pc = "revert", Busy'.rt = Busy.rt, Busy'.entries = Busy.entries \ {e},
         \/ mem' = [mem EXCEPT ![e.addr] = e.orig] /\ unrestored' = unrestored
         \/ mem' = mem /\ unrestored' = unrestored \cup {<<e.addr, Busy.rt>>},
         UNCHANGED <<registry, journal, hooks, dropped, nextId>>
  PROVE  SoloData'
  <1>1. Retiring /\ Retiring'
    BY DEF Retiring
  <1>2. (\A r : ~InCharge(r)) /\ (\A r : ~InCharge(r)') /\ \A r \in Ids : journal[r] = {}
    BY <1>1, RetiringJournal DEF InCharge, Starting
  <1>3. Clean(e, Busy.rt)
    BY DEF SoloData, SoloPhase
  <1>4. \A a, r : Lost(a, r) => Lost(a, r)'
    BY DEF Lost
  <1>5. \A f, r : Clean(f, r) => Clean(f, r)'
    BY <1>4 DEF Clean
  <1>6. \A a \in Addrs : mem'[a] = mem[a] \/ (a = e.addr /\ mem'[a] = e.orig)
    BY SoloTypes
  <1>7. mem'[e.addr] = e.orig \/ Lost(e.addr, Busy.rt)'
    BY SoloTypes DEF Lost
  <1>8. SoloJournal'
    BY <1>2, <1>3, <1>6 DEF SoloData, SoloJournal, Clean
  <1>9. SoloPhase'
    <2>1. \A f \in Busy'.entries : Clean(f, Busy.rt)'
      BY <1>5 DEF SoloData, SoloPhase
    <2>2. ASSUME NEW a \in Addrs, mem'[a] = Busy.rt
          PROVE  Lost(a, Busy.rt)' \/ \E f \in Busy'.entries : f.addr = a
      <3>1. CASE a = e.addr
        BY <1>3, <1>4, <1>7, <2>2, <3>1 DEF Clean
      <3>2. CASE a # e.addr
        <4>1. mem[a] = Busy.rt
          BY <1>6, <2>2, <3>2
        <4>2. Lost(a, Busy.rt) \/ \E f \in Busy.entries : f.addr = a
          BY <4>1 DEF SoloData, SoloPhase
        <4> QED BY <1>4, <3>2, <4>2
      <3> QED BY <3>1, <3>2
    <2>3. registry' = <<Busy.rt>>
      BY <1>1 DEF SoloData, SoloPhase
    <2>4. \A a \in Addrs : mem'[a] = Busy'.rt => Lost(a, Busy.rt)' \/ \E f \in Busy'.entries : f.addr = a
      BY <2>2
    <2>5. \A a : Lost(a, Busy.rt)' <=> <<a, Busy.rt>> \in unrestored'
      BY DEF Lost
    <2>6. \A a \in Addrs : mem'[a] = Busy'.rt =>
            <<a, Busy'.rt>> \in unrestored' \/ \E f \in Busy'.entries : f.addr = a
      BY <2>4, <2>5
    <2>7. \A f \in Busy'.entries : f.orig < nextId' /\
            (f.orig \in dropped' \cup {Busy'.rt} => <<f.addr, f.orig>> \in unrestored')
      BY <2>1 DEF Clean, Lost
    <2> QED BY <2>3, <2>6, <2>7 DEF SoloPhase, Retiring, Lost, Clean
  <1>10. DroppedLeavesNoWrite'
    <2>1. \A a \in Addrs : mem[a] \in dropped => <<a, mem[a]>> \in unrestored'
      BY <1>4 DEF SoloData, DroppedLeavesNoWrite, Lost
    <2>2. e.orig \in dropped => <<e.addr, e.orig>> \in unrestored'
      BY <1>3, <1>4 DEF Clean, Lost
    <2> QED BY <1>6, <2>1, <2>2 DEF DroppedLeavesNoWrite
  <1> QED BY <1>8, <1>9, <1>10 DEF SoloData, DroppedLeavesNoHook

(* Step 3 collects the slots of the runtime.                               *)
LEMMA DataCollect ==
  ASSUME IInv, SoloData, Busy.pc = "revert", Busy.entries = {},
         Busy'.pc = "unhook", Busy'.rt = Busy.rt, Busy'.todo = {s \in Slots : hooks[s] = Busy.rt},
         UNCHANGED soloVars
  PROVE  SoloData'
  <1>1. UNCHANGED <<registry, journal, mem, hooks, dropped, nextId, unrestored>> /\ Retiring /\ Retiring'
    BY DEF soloVars, Retiring
  <1>2. (\A r : ~InCharge(r)') /\ \A r \in Ids : journal[r] = {}
    BY <1>1, RetiringJournal DEF InCharge, Starting
  <1>3. SoloJournal'
    BY <1>1, <1>2 DEF SoloData, SoloJournal
  <1>4. SoloPhase'
    BY <1>1 DEF SoloData, SoloPhase, Retiring, Lost
  <1> QED BY <1>1, <1>3, <1>4 DEF SoloData, DroppedLeavesNoHook, DroppedLeavesNoWrite

(* Step 3 removes one of them.                                             *)
LEMMA DataUnhook ==
  ASSUME IInv, SoloData, Busy.pc = "unhook", NEW s \in Slots,
         Busy'.pc = "unhook", Busy'.rt = Busy.rt, Busy'.todo = Busy.todo \ {s},
         hooks' = [hooks EXCEPT ![s] = 0], UNCHANGED <<registry, journal, mem, dropped, nextId, unrestored>>
  PROVE  SoloData'
  <1>1. Retiring /\ Retiring'
    BY DEF Retiring
  <1>2. (\A r : ~InCharge(r)') /\ \A r \in Ids : journal[r] = {}
    BY <1>1, RetiringJournal DEF InCharge, Starting
  <1>3. \A u \in Slots : hooks'[u] = IF u = s THEN 0 ELSE hooks[u]
    BY SoloTypes
  <1>4. Busy.rt # 0
    <2>1. registry = <<Busy.rt>>
      BY <1>1 DEF SoloData, SoloPhase
    <2>2. registry \in Seq(Ids)
      BY SoloTypes
    <2>3. Busy.rt \in Ids
      BY <2>1, <2>2
    <2> QED BY <2>3 DEF Ids
  <1>5. SoloJournal'
    BY <1>2 DEF SoloData, SoloJournal
  <1>6. SoloPhase'
    BY <1>1, <1>3, <1>4 DEF SoloData, SoloPhase, Retiring, Lost
  <1>7. DroppedLeavesNoHook'
    BY <1>3, SoloTypes DEF SoloData, DroppedLeavesNoHook
  <1> QED BY <1>5, <1>6, <1>7 DEF SoloData, DroppedLeavesNoWrite

(* Step 4 drops the runtime.                                               *)
LEMMA DataDrop ==
  ASSUME IInv, SoloData, Busy.pc = "unhook", Busy.todo = {}, Busy'.pc \in {"state", "spawn"},
         registry' = <<>>, dropped' = dropped \cup {Busy.rt}, \A r \in Ids : journal'[r] \subseteq journal[r],
         UNCHANGED <<mem, hooks, nextId, unrestored>>
  PROVE  SoloData'
  <1>1. Retiring /\ ~Retiring' /\ ~Starting'
    BY DEF Retiring, Starting
  <1>2. \A r \in Ids : journal'[r] = {}
    BY <1>1, RetiringJournal
  <1>3. \A r : ~InCharge(r)'
    BY <1>1 DEF InCharge
  <1>4. SoloJournal'
    BY <1>2, <1>3 DEF SoloData, SoloJournal
  <1>5. SoloPhase'
    BY <1>1 DEF SoloPhase
  <1>6. /\ \A a \in Addrs : mem[a] = Busy.rt => <<a, Busy.rt>> \in unrestored
        /\ \A s \in Slots : hooks[s] # Busy.rt
    BY DEF SoloData, SoloPhase, Lost
  <1> QED BY <1>4, <1>5, <1>6 DEF SoloData, DroppedLeavesNoHook, DroppedLeavesNoWrite

(* frog_main of a new runtime is entered.                                  *)
LEMMA DataSpawn ==
  ASSUME IInv, SoloData, Busy.pc = "spawn", Busy'.pc = "main", Busy'.rt = nextId, nextId' = nextId + 1,
         UNCHANGED <<registry, journal, mem, hooks, dropped, unrestored>>
  PROVE  SoloData'
  <1>1. ~Starting /\ registry = <<>> /\ nextId \in Nat /\ mem \in [Addrs -> 0..MaxId]
    BY SoloTypes DEF Starting, SoloData, SoloPhase
  <1>2. \A r \in Ids : ~InCharge(r)
    BY <1>1 DEF InCharge
  <1>3. \A r \in Ids : journal[r] = {}
    BY <1>2 DEF SoloData, SoloJournal
  <1>4. \A r \in Ids : InCharge(r)' => r = nextId
    BY <1>1 DEF InCharge
  <1>5. \A a \in Addrs : mem[a] < nextId /\ mem[a] \in Nat
    BY <1>1 DEF SoloData, SoloJournal
  <1>6. \A a \in Addrs : mem[a] < nextId' /\ mem[a] # nextId
    BY <1>1, <1>5
  <1>7. SoloJournal'
    BY <1>3, <1>4, <1>6 DEF SoloJournal
  <1>8. SoloPhase'
    BY <1>1 DEF SoloPhase, Retiring
  <1> QED BY <1>7, <1>8 DEF SoloData, DroppedLeavesNoHook, DroppedLeavesNoWrite

(* frog_main writes memory: its journal keeps the first value, unless the  *)
(* touch fails, and the write may fail as well.                            *)
LEMMA DataWrite ==
  ASSUME Solo, IInv, SoloData, Busy.pc = "main", Busy' = Busy, NEW a \in Addrs,
         Touch(Busy.rt, a),
         \/ /\ mem' = [mem EXCEPT ![a] = Busy.rt]
            /\ unrestored' = IF \E e \in journal'[Busy.rt] : e.addr = a THEN unrestored
                             ELSE unrestored \cup {<<a, Busy.rt>>}
         \/ UNCHANGED <<mem, unrestored>>,
         UNCHANGED <<registry, hooks, dropped, nextId>>
  PROVE  SoloData'
  <1> DEFINE r == Busy.rt
             e0 == [addr |-> a, orig |-> mem[a]]
  <1>1. Starting /\ ~Retiring /\ r \in Ids /\ r < nextId /\ r \notin dropped
    BY StartingIsFresh DEF Starting, Retiring
  <1>2. \A q : InCharge(q)' <=> InCharge(q)
    BY DEF InCharge, Retiring, Starting
  <1>3. \A b, q : Lost(b, q) => Lost(b, q)'
    BY DEF Lost
  <1>4. \A e, q : Clean(e, q) => Clean(e, q)'
    BY <1>3 DEF Clean
  <1>5. InCharge(r) /\ registry = <<>>
    BY <1>1 DEF InCharge, SoloData, SoloPhase
  <1>6. \A q \in Ids : InCharge(q) => q = r
    BY <1>5 DEF InCharge
  <1>7. e0.addr = a /\ e0.orig = mem[a]
    OBVIOUS
  <1>8. ~(\E e \in journal[r] : e.addr = a) => Clean(e0, r)
    <2>1. mem[a] < nextId
      BY DEF SoloData, SoloJournal
    <2>2. mem[a] \in dropped => Lost(a, mem[a])
      BY DEF SoloData, DroppedLeavesNoWrite, Lost
    <2>3. mem[a] = r => Lost(a, mem[a]) \/ \E e \in journal[r] : e.addr = a
      BY <1>1, <1>5 DEF SoloData, SoloJournal
    <2> QED BY <1>7, <2>1, <2>2, <2>3 DEF Clean
  <1>9. \/ journal' = journal
        \/ ~(\E e \in journal[r] : e.addr = a) /\ journal' = [journal EXCEPT ![r] = @ \cup {e0}]
    BY DEF Touch
  <1>10. /\ \A b \in Addrs : mem'[b] = mem[b] \/ (b = a /\ mem'[b] = r)
         /\ mem'[a] = mem[a] \/ Lost(a, r)' \/ \E e \in journal'[r] : e.addr = a
    BY SoloTypes DEF Lost
  <1> HIDE DEF e0, r
  <1>11. /\ \A q \in Ids : q # r => journal'[q] = journal[q]
         /\ journal[r] \subseteq journal'[r]
         /\ \A e \in journal'[r] : e \in journal[r] \/ (e = e0 /\ Clean(e0, r))
    BY <1>1, <1>8, <1>9, SoloTypes
  <1>12. \A q \in Ids : \A e \in journal'[q] : Clean(e, q)'
    <2> SUFFICES ASSUME NEW q \in Ids, NEW e \in journal'[q] PROVE Clean(e, q)
      BY <1>4
    <2>1. \A f \in journal[q] : Clean(f, q)
      BY DEF SoloData, SoloJournal
    <2> QED BY <1>11, <2>1
  <1>13. \A q \in Ids : journal'[q] # {} => InCharge(q)'
    BY <1>2, <1>5, <1>11 DEF SoloData, SoloJournal
  <1>14. ASSUME NEW q \in Ids, NEW b \in Addrs, InCharge(q)', mem'[b] = q
         PROVE  Lost(b, q)' \/ \E e \in journal'[q] : e.addr = b
    <2>1. q = r /\ InCharge(q)
      BY <1>2, <1>6, <1>14
    <2>2. mem[b] = q => Lost(b, q) \/ \E e \in journal[q] : e.addr = b
      BY <2>1 DEF SoloData, SoloJournal
    <2>3. CASE mem[b] = q
      BY <1>3, <1>11, <2>1, <2>2, <2>3
    <2>4. CASE mem[b] # q
      <3>1. b = a
        BY <1>10, <1>14, <2>4
      <3>2. mem'[a] # mem[a]
        BY <1>14, <2>4, <3>1
      <3>3. Lost(a, r)' \/ \E e \in journal'[r] : e.addr = a
        BY <1>10, <3>2
      <3>4. Lost(a, r)' <=> Lost(b, q)'
        BY <2>1, <3>1 DEF Lost, r
      <3> QED BY <2>1, <3>1, <3>3, <3>4
    <2> QED BY <2>3, <2>4
  <1>15. \A b \in Addrs : mem'[b] < nextId'
    BY <1>1, <1>10 DEF SoloData, SoloJournal
  <1>16. SoloJournal'
    BY <1>12, <1>13, <1>14, <1>15 DEF SoloJournal
  <1>17. DroppedLeavesNoWrite'
    <2>1. \A b \in Addrs : mem[b] \in dropped => <<b, mem[b]>> \in unrestored'
      <3>1. unrestored \subseteq unrestored'
        OBVIOUS
      <3> QED BY <3>1 DEF SoloData, DroppedLeavesNoWrite
    <2>2. \A b \in Addrs : mem'[b] \in dropped' => mem'[b] = mem[b]
      BY <1>1, <1>10
    <2> QED BY <2>1, <2>2 DEF DroppedLeavesNoWrite
  <1>18. SoloPhase'
    BY <1>1, <1>5 DEF SoloPhase, Retiring, Starting
  <1> QED BY <1>16, <1>17, <1>18 DEF SoloData, DroppedLeavesNoHook

(* frog_main installs a hook, or removes one.                              *)
LEMMA DataHooks ==
  ASSUME IInv, SoloData, Busy.pc = "main", Busy'.pc = "main", Busy'.rt = Busy.rt,
         NEW s \in Slots, NEW v, v \notin dropped, hooks' = [hooks EXCEPT ![s] = v],
         UNCHANGED <<registry, journal, mem, dropped, nextId, unrestored>>
  PROVE  SoloData'
  <1>1. \A q : InCharge(q)' <=> InCharge(q)
    BY DEF InCharge, Retiring, Starting
  <1>2. \A e, q : Clean(e, q)' <=> Clean(e, q)
    BY DEF Clean, Lost
  <1>3. SoloJournal'
    BY <1>1, <1>2 DEF SoloData, SoloJournal, Lost
  <1>4. SoloPhase'
    BY DEF SoloData, SoloPhase, Retiring, Lost
  <1>5. \A u \in Slots : hooks'[u] = IF u = s THEN v ELSE hooks[u]
    BY SoloTypes
  <1> QED BY <1>3, <1>4, <1>5 DEF SoloData, DroppedLeavesNoHook, DroppedLeavesNoWrite

(* The spawn fails and the store goes with its journal.                    *)
LEMMA DataFails ==
  ASSUME IInv, SoloData, Busy.pc = "main", Busy'.pc = "state",
         journal' = [journal EXCEPT ![Busy.rt] = {}], UNCHANGED <<registry, mem, hooks, dropped, nextId, unrestored>>
  PROVE  SoloData'
  <1>1. registry = <<>> /\ ~Starting' /\ ~Retiring'
    BY DEF SoloData, SoloPhase, Starting, Retiring
  <1>2. \A r \in Ids : InCharge(r) => r = Busy.rt
    BY <1>1 DEF InCharge
  <1>3. \A r \in Ids : journal[r] # {} => r = Busy.rt
    BY <1>2 DEF SoloData, SoloJournal
  <1>4. \A r \in Ids : journal'[r] = {}
    BY <1>3, SoloTypes
  <1>5. \A r \in Ids : ~InCharge(r)'
    BY <1>1 DEF InCharge
  <1>6. SoloJournal'
    BY <1>4, <1>5 DEF SoloData, SoloJournal
  <1>7. SoloPhase'
    BY <1>1 DEF SoloPhase
  <1> QED BY <1>6, <1>7 DEF SoloData, DroppedLeavesNoHook, DroppedLeavesNoWrite

(* The runtime is parked.                                                  *)
LEMMA DataInsert ==
  ASSUME IInv, SoloData, Busy.pc = "insert", Busy'.pc = "state", registry' = <<Busy.rt>>,
         UNCHANGED <<journal, mem, hooks, dropped, nextId, unrestored>>
  PROVE  SoloData'
  <1>1. registry = <<>> /\ Starting /\ ~Starting' /\ ~Retiring'
    BY DEF SoloData, SoloPhase, Starting, Retiring
  <1>2. \A r : <<Busy.rt>> = <<r>> <=> Busy.rt = r
    OBVIOUS
  <1>3. \A r : InCharge(r)' <=> InCharge(r)
    BY <1>1, <1>2 DEF InCharge
  <1>4. \A e, r : Clean(e, r)' <=> Clean(e, r)
    BY DEF Clean, Lost
  <1>5. SoloJournal'
    BY <1>3, <1>4 DEF SoloData, SoloJournal, Lost
  <1>6. SoloPhase'
    BY <1>1 DEF SoloPhase, Lost
  <1> QED BY <1>5, <1>6 DEF SoloData, DroppedLeavesNoHook, DroppedLeavesNoWrite

-----------------------------------------------------------------------------
(* The steps.                                                              *)

SoloInv == SoloShape /\ SoloData

LEMMA SoloReloadStep ==
  ASSUME Solo, IInv, IInv', SoloInv, NEW t \in Threads, ReloadStep(t)
  PROVE  SoloInv'
  <1>0. StackInv /\ StackInv' /\ SoloShape /\ SoloData /\ ~poisoned
    BY DEF IInv, ShapeInv, StackInv, TypeOK, SoloInv, SoloShape
  <1> USE DEF regVars, rtVars, hookVars, histVars
  <1>p. \A pc : pc \in ReloadPcs /\ At(t, pc) => Busy = Top(t) /\ Busy.pc = pc /\ Top(t) \in Frame
    BY <1>0, SoloAt
  <1>1. CASE ReloadPoisoned(t)
    BY <1>0, <1>1 DEF ReloadPoisoned
  <1>2. CASE ReloadEmpty(t)
    <2> DEFINE q == IF Top(t).arg = Unload THEN "state" ELSE "spawn"
    <2>1. At(t, "lock1") /\ registry = <<>> /\ Goto(t, q) /\ poisoned' = poisoned /\ UNCHANGED soloVars
      BY <1>2 DEF ReloadEmpty, soloVars
    <2>2. q \in ReloadPcs /\ q \in {"state", "spawn"} /\ "lock1" \in ReloadPcs
      BY DEF ReloadPcs
    <2> HIDE DEF q
    <2>3. SoloShape' /\ Busy'.pc = q
      BY <1>0, <2>1, <2>2, SoloGoto
    <2>4. SoloData'
      BY <1>0, <1>p, <2>1, <2>2, <2>3, DataQuiet DEF Retiring, Starting
    <2> QED BY <2>3, <2>4 DEF SoloInv
  <1>3. CASE ReloadSnapshot(t)
    <2> DEFINE f == [Top(t) EXCEPT !.pc = "revert", !.rt = registry[1], !.entries = journal[registry[1]]]
    <2>1. At(t, "lock1") /\ registry # <<>> /\ "lock1" \in ReloadPcs /\ "revert" \in ReloadPcs
      BY <1>3 DEF ReloadSnapshot, ReloadPcs
    <2>2. Head(registry) = registry[1]
      BY <2>1, OneRuntime
    <2>3. SetTop(t, f) /\ journal' = [journal EXCEPT ![registry[1]] = {}] /\ poisoned' = poisoned
          /\ UNCHANGED <<registry, mem, hooks, dropped, nextId, unrestored>>
      BY <1>3, <2>2 DEF ReloadSnapshot
    <2>4. f.pc = "revert" /\ f.rt = registry[1] /\ f.entries = journal[registry[1]]
      BY <1>p, <2>1 DEF Frame
    <2> HIDE DEF f
    <2>5. SoloShape' /\ Busy' = f
      BY <1>0, <2>1, <2>3, <2>4, SoloSetTop
    <2>6. SoloData'
      BY <1>0, <1>p, <2>1, <2>3, <2>4, <2>5, DataSnapshot
    <2> QED BY <2>5, <2>6 DEF SoloInv
  <1>4. CASE RevertEntry(t)
    <2>1. At(t, "revert") /\ "revert" \in ReloadPcs
      BY <1>4 DEF RevertEntry, ReloadPcs
    <2>2. PICK e \in Top(t).entries :
            /\ \/ mem' = [mem EXCEPT ![e.addr] = e.orig] /\ unrestored' = unrestored
               \/ mem' = mem /\ unrestored' = unrestored \cup {<<e.addr, Top(t).rt>>}
            /\ SetTop(t, [Top(t) EXCEPT !.entries = @ \ {e}])
      BY <1>4 DEF RevertEntry
    <2> DEFINE f == [Top(t) EXCEPT !.entries = @ \ {e}]
    <2>3. poisoned' = poisoned /\ UNCHANGED <<registry, journal, hooks, dropped, nextId>>
      BY <1>4 DEF RevertEntry
    <2>4. f.pc = "revert" /\ f.rt = Top(t).rt /\ f.entries = Top(t).entries \ {e} /\ e.addr \in Addrs
      BY <1>p, <2>1 DEF Frame, Entries
    <2>5. SetTop(t, f)
      BY <2>2
    <2> HIDE DEF f
    <2>6. SoloShape' /\ Busy' = f
      BY <1>0, <2>1, <2>3, <2>4, <2>5, SoloSetTop
    <2>7. e \in Busy.entries /\ Busy.pc = "revert"
      BY <1>p, <2>1
    <2>8. SoloData'
      BY <1>0, <1>p, <2>1, <2>2, <2>3, <2>4, <2>6, <2>7, DataRevert
    <2> QED BY <2>6, <2>8 DEF SoloInv
  <1>5. CASE CollectOwned(t)
    <2> DEFINE f == [Top(t) EXCEPT !.pc = "unhook", !.todo = {s \in Slots : hooks[s] = Top(t).rt}]
    <2>1. At(t, "revert") /\ "revert" \in ReloadPcs /\ "unhook" \in ReloadPcs /\ Top(t).entries = {}
      BY <1>5 DEF CollectOwned, ReloadPcs
    <2>2. SetTop(t, f) /\ poisoned' = poisoned /\ UNCHANGED soloVars
      BY <1>5 DEF CollectOwned, soloVars
    <2>3. f.pc = "unhook" /\ f.rt = Top(t).rt /\ f.todo = {s \in Slots : hooks[s] = Top(t).rt}
      BY <1>p, <2>1 DEF Frame
    <2> HIDE DEF f
    <2>4. SoloShape' /\ Busy' = f
      BY <1>0, <2>1, <2>2, <2>3, SoloSetTop
    <2>5. SoloData'
      BY <1>0, <1>p, <2>1, <2>2, <2>3, <2>4, DataCollect
    <2> QED BY <2>4, <2>5 DEF SoloInv
  <1>6. CASE UnhookOwned(t)
    <2>1. At(t, "unhook") /\ "unhook" \in ReloadPcs
      BY <1>6 DEF UnhookOwned, ReloadPcs
    <2>2. PICK s \in Top(t).todo : RemoveHook(s) /\ SetTop(t, [Top(t) EXCEPT !.todo = @ \ {s}])
      BY <1>6 DEF UnhookOwned
    <2> DEFINE f == [Top(t) EXCEPT !.todo = @ \ {s}]
    <2>3. poisoned' = poisoned /\ UNCHANGED <<registry, journal, mem, dropped, nextId, unrestored>>
          /\ hooks' = [hooks EXCEPT ![s] = 0]
      BY <1>6, <2>2 DEF UnhookOwned, RemoveHook
    <2>4. f.pc = "unhook" /\ f.rt = Top(t).rt /\ f.todo = Top(t).todo \ {s} /\ s \in Slots
      BY <1>p, <2>1 DEF Frame
    <2>5. SetTop(t, f)
      BY <2>2
    <2> HIDE DEF f
    <2>6. SoloShape' /\ Busy' = f
      BY <1>0, <2>1, <2>3, <2>4, <2>5, SoloSetTop
    <2>7. SoloData'
      BY <1>0, <1>p, <2>1, <2>3, <2>4, <2>6, DataUnhook
    <2> QED BY <2>6, <2>7 DEF SoloInv
  <1>7. CASE DropRuntime(t)
    <2> DEFINE q == IF Top(t).arg = Unload THEN "state" ELSE "spawn"
    <2>1. At(t, "unhook") /\ Top(t).todo = {} /\ "unhook" \in ReloadPcs
      BY <1>7 DEF DropRuntime, AtDrop, ReloadPcs
    <2>2. Busy.pc = "unhook" /\ Busy.todo = {} /\ registry = <<Busy.rt>>
      BY <1>0, <1>p, <2>1 DEF SoloData, SoloPhase, Retiring
    <2>3. registry # <<>> /\ Len(registry) = 1 /\ registry[Len(registry)] = Busy.rt /\ Busy.rt \in Ids
      <3>1. registry # <<>> /\ registry[1] = Busy.rt
        BY <2>2
      <3> QED BY <3>1, SoloTypes
    <2>4. /\ registry' = SubSeq(registry, 1, Len(registry) - 1) /\ DropStore(Busy.rt)
          /\ dropped' = dropped \cup {Busy.rt} /\ Goto(t, q) /\ poisoned' = poisoned
          /\ UNCHANGED <<mem, hooks, nextId, unrestored>>
      BY <1>7, <2>3 DEF DropRuntime
    <2>5. registry' = <<>>
      <3>1. registry' = SubSeq(registry, 1, 0)
        BY <2>3, <2>4
      <3>2. registry \in Seq(Ids)
        BY SoloTypes
      <3> QED BY <3>1, <3>2
    <2>6. q \in ReloadPcs /\ q \in {"state", "spawn"}
      BY DEF ReloadPcs
    <2> HIDE DEF q
    <2>7. SoloShape' /\ Busy'.pc = q
      BY <1>0, <2>1, <2>4, <2>6, SoloGoto
    <2>8. \A r \in Ids : journal'[r] \subseteq journal[r]
      BY <2>3, <2>4, SoloTypes DEF DropStore
    <2>9. SoloData'
      BY <1>0, <2>2, <2>4, <2>5, <2>6, <2>7, <2>8, DataDrop
    <2> QED BY <2>7, <2>9 DEF SoloInv
  <1>8. CASE ReloadWriteState(t)
    <2>1. At(t, "state") /\ "state" \in ReloadPcs /\ Return(t) /\ poisoned' = poisoned /\ UNCHANGED soloVars
      BY <1>8 DEF ReloadWriteState, ReloadPcs, soloVars
    <2>2. SoloShape' /\ Busy' = Blank
      BY <1>0, <2>1, SoloReturn
    <2>3. SoloData'
      BY <1>0, <1>p, <2>1, <2>2, BlankIsFrame, DataQuiet DEF Retiring, Starting
    <2> QED BY <2>2, <2>3 DEF SoloInv
  <1>9. CASE SpawnParseError(t)
    <2>1. At(t, "spawn") /\ "spawn" \in ReloadPcs /\ "state" \in ReloadPcs /\ Goto(t, "state")
          /\ poisoned' = poisoned /\ UNCHANGED soloVars
      BY <1>9 DEF SpawnParseError, ReloadPcs, soloVars
    <2>2. SoloShape' /\ Busy'.pc = "state"
      BY <1>0, <2>1, SoloGoto
    <2>3. SoloData'
      BY <1>0, <1>p, <2>1, <2>2, DataQuiet DEF Retiring, Starting
    <2> QED BY <2>2, <2>3 DEF SoloInv
  <1>10. CASE Spawn(t)
    <2> DEFINE f == [Top(t) EXCEPT !.pc = "main", !.rt = nextId]
    <2>1. At(t, "spawn") /\ "spawn" \in ReloadPcs /\ "main" \in ReloadPcs
      BY <1>10 DEF Spawn, ReloadPcs
    <2>2. SetTop(t, f) /\ poisoned' = poisoned /\ nextId' = nextId + 1
          /\ UNCHANGED <<registry, journal, mem, hooks, dropped, unrestored>>
      BY <1>10 DEF Spawn
    <2>3. f.pc = "main" /\ f.rt = nextId
      BY <1>p, <2>1 DEF Frame
    <2> HIDE DEF f
    <2>4. SoloShape' /\ Busy' = f
      BY <1>0, <2>1, <2>2, <2>3, SoloSetTop
    <2>5. SoloData'
      BY <1>0, <1>p, <2>1, <2>2, <2>3, <2>4, DataSpawn
    <2> QED BY <2>4, <2>5 DEF SoloInv
  <1>11. CASE MainReturns(t)
    <2>1. At(t, "main") /\ "main" \in ReloadPcs /\ "insert" \in ReloadPcs /\ Goto(t, "insert")
          /\ poisoned' = poisoned /\ UNCHANGED soloVars
      BY <1>11 DEF MainReturns, ReloadPcs, soloVars
    <2>2. SoloShape' /\ Busy'.pc = "insert" /\ Busy'.rt = Busy.rt
      BY <1>0, <2>1, SoloGoto
    <2>3. SoloData'
      BY <1>0, <1>p, <2>1, <2>2, DataQuiet DEF Retiring, Starting
    <2> QED BY <2>2, <2>3 DEF SoloInv
  <1>12. CASE SpawnFails(t)
    <2>1. At(t, "main") /\ "main" \in ReloadPcs /\ "state" \in ReloadPcs /\ Goto(t, "state")
          /\ poisoned' = poisoned /\ journal' = [journal EXCEPT ![Top(t).rt] = {}]
          /\ UNCHANGED <<registry, mem, hooks, dropped, nextId, unrestored>>
      BY <1>12 DEF SpawnFails, ReloadPcs, DropStore
    <2>2. SoloShape' /\ Busy'.pc = "state"
      BY <1>0, <2>1, SoloGoto
    <2>3. SoloData'
      BY <1>0, <1>p, <2>1, <2>2, DataFails
    <2> QED BY <2>2, <2>3 DEF SoloInv
  <1>13. CASE Insert(t)
    <2>1. At(t, "insert") /\ "insert" \in ReloadPcs /\ "state" \in ReloadPcs /\ Goto(t, "state")
          /\ poisoned' = poisoned /\ registry = <<>> /\ registry' = Append(registry, Top(t).rt)
          /\ UNCHANGED <<journal, mem, hooks, dropped, nextId, unrestored>>
      BY <1>13 DEF Insert, ReloadPcs
    <2>2. SoloShape' /\ Busy'.pc = "state"
      BY <1>0, <2>1, SoloGoto
    <2>3. registry' = <<Busy.rt>>
      BY <1>p, <2>1
    <2>4. SoloData'
      BY <1>0, <1>p, <2>1, <2>2, <2>3, DataInsert
    <2> QED BY <2>2, <2>4 DEF SoloInv
  <1>14. CASE InsertPanics(t)
    <2>1. At(t, "insert") /\ "insert" \in ReloadPcs /\ registry # <<>>
      BY <1>0, <1>14 DEF InsertPanics, ReloadPcs
    <2> QED BY <1>0, <1>p, <2>1 DEF SoloData, SoloPhase
  <1> QED BY <1>1, <1>2, <1>3, <1>4, <1>5, <1>6, <1>7, <1>8, <1>9, <1>10, <1>11, <1>12, <1>13, <1>14
        DEF ReloadStep

(* Steps that leave every stack alone.                                     *)
LEMMA SoloStill ==
  ASSUME SoloShape, UNCHANGED <<frames, depth, poisoned>>
  PROVE  SoloShape' /\ Busy' = Busy
  <1>1. Busy' = Busy
    BY DEF Busy
  <1>2. SoloShape'
    BY DEF SoloShape, SoloStack
  <1> QED BY <1>1, <1>2

LEMMA SoloScriptStep ==
  ASSUME Solo, IInv, IInv', SoloInv, NEW t \in Threads, ScriptStep(t)
  PROVE  SoloInv'
  <1>0. StackInv /\ StackInv' /\ SoloShape /\ SoloData
    BY DEF IInv, ShapeInv, StackInv, TypeOK, SoloInv
  <1> USE DEF regVars, rtVars, hookVars, histVars, stackVars
  <1>1. ASSUME At(t, "main") \/ At(t, "handler")
        PROVE  At(t, "main") /\ Busy = Top(t) /\ Busy.pc = "main" /\ Top(t) \in Frame
    <2>1. ~At(t, "handler")
      BY <1>0, SoloAt DEF DispatchPcs
    <2> QED BY <1>0, <1>1, <2>1, SoloAt DEF ReloadPcs
  <1>2. Busy.pc = "main" => Busy.rt \in Ids /\ Busy.rt \notin dropped
    BY StartingIsFresh DEF Starting
  <1>3. ASSUME NEW a \in Addrs, Write(t, a) PROVE SoloInv'
    <2>1. Busy = Top(t) /\ Busy.pc = "main"
      BY <1>1, <1>3 DEF Write, InWasm
    <2>2. UNCHANGED <<frames, depth, poisoned, registry, hooks, dropped, nextId>>
      BY <1>3 DEF Write
    <2>3. SoloShape' /\ Busy' = Busy
      BY <1>0, <2>2, SoloStill
    <2>4. /\ Touch(Busy.rt, a)
          /\ \/ /\ mem' = [mem EXCEPT ![a] = Busy.rt]
                /\ unrestored' = IF \E e \in journal'[Busy.rt] : e.addr = a THEN unrestored
                                 ELSE unrestored \cup {<<a, Busy.rt>>}
             \/ UNCHANGED <<mem, unrestored>>
      BY <1>3, <2>1 DEF Write
    <2>5. SoloData'
      BY <1>0, <2>1, <2>2, <2>3, <2>4, DataWrite
    <2> QED BY <2>3, <2>5 DEF SoloInv
  <1>4. CASE Compute(t)
    <2>1. UNCHANGED <<frames, depth, poisoned>> /\ UNCHANGED soloVars
      BY <1>4 DEF Compute, soloVars
    <2>2. SoloShape' /\ Busy' = Busy
      BY <1>0, <2>1, SoloStill
    <2>3. SoloData'
      BY <1>0, <2>1, <2>2, DataQuiet
    <2> QED BY <2>2, <2>3 DEF SoloInv
  <1>5. CASE InstallHook(t)
    <2>1. At(t, "main") /\ "main" \in ReloadPcs /\ Busy = Top(t) /\ Busy.pc = "main" /\ Top(t) \in Frame
      BY <1>1, <1>5 DEF InstallHook, InWasm, ReloadPcs
    <2>2. PICK s \in Slots : hooks' = [hooks EXCEPT ![s] = Top(t).rt] /\ SetTop(t, [Top(t) EXCEPT !.todo = {s}])
      BY <1>5 DEF InstallHook
    <2> DEFINE f == [Top(t) EXCEPT !.todo = {s}]
    <2>3. f.pc = "main" /\ f.rt = Top(t).rt
      BY <2>1 DEF Frame
    <2>4. SetTop(t, f) /\ poisoned' = poisoned /\ UNCHANGED <<registry, journal, mem, dropped, nextId, unrestored>>
      BY <1>5, <2>2 DEF InstallHook
    <2> HIDE DEF f
    <2>5. SoloShape' /\ Busy' = f
      BY <1>0, <2>1, <2>3, <2>4, SoloSetTop
    <2>6. SoloData'
      BY <1>0, <1>2, <2>1, <2>2, <2>3, <2>4, <2>5, DataHooks
    <2> QED BY <2>5, <2>6 DEF SoloInv
  <1>6. CASE RecordHook(t)
    <2> DEFINE f == [Top(t) EXCEPT !.todo = {}]
    <2>1. At(t, "main") /\ "main" \in ReloadPcs /\ Busy = Top(t) /\ Busy.pc = "main" /\ Top(t) \in Frame
      BY <1>1, <1>6 DEF RecordHook, ReloadPcs
    <2>2. SetTop(t, f) /\ poisoned' = poisoned /\ UNCHANGED soloVars
      BY <1>6 DEF RecordHook, soloVars
    <2>3. f.pc = "main" /\ f.rt = Top(t).rt
      BY <2>1 DEF Frame
    <2> HIDE DEF f
    <2>4. SoloShape' /\ Busy' = f
      BY <1>0, <2>1, <2>2, <2>3, SoloSetTop
    <2>5. SoloData'
      BY <1>0, <2>1, <2>2, <2>3, <2>4, DataQuiet DEF Retiring, Starting
    <2> QED BY <2>4, <2>5 DEF SoloInv
  <1>7. ASSUME NEW s \in Slots, ScriptRemovesHook(t, s) PROVE SoloInv'
    <2>1. Busy = Top(t) /\ Busy.pc = "main"
      BY <1>1, <1>7 DEF ScriptRemovesHook, InWasm
    <2>2. /\ UNCHANGED <<frames, depth, poisoned, registry, journal, mem, dropped, nextId, unrestored>>
          /\ hooks' = [hooks EXCEPT ![s] = 0]
      BY <1>7 DEF ScriptRemovesHook, RemoveHook
    <2>3. SoloShape' /\ Busy' = Busy /\ 0 \notin dropped
      BY <1>0, <2>2, SoloStill, SoloTypes
    <2>4. SoloData'
      BY <1>0, <2>1, <2>2, <2>3, DataHooks
    <2> QED BY <2>3, <2>4 DEF SoloInv
  <1>8. ASSUME NEW s \in Slots, ScriptRunsGame(t, s) PROVE SoloInv'
    <2> DEFINE f == DispatchFrame(s)
    <2>1. At(t, "main") /\ Call(t, f) /\ poisoned' = poisoned /\ UNCHANGED soloVars
      BY <1>1, <1>8 DEF ScriptRunsGame, InWasm, soloVars
    <2>2. InnerPc(f.pc)
      BY DEF DispatchFrame, Blank, InnerPc, DispatchPcs
    <2> HIDE DEF f
    <2>3. SoloShape' /\ Busy' = Busy
      BY <1>0, <2>1, <2>2, SoloRunsGame
    <2>4. SoloData'
      BY <1>0, <2>1, <2>3, DataQuiet
    <2> QED BY <2>3, <2>4 DEF SoloInv
  <1> QED BY <1>3, <1>4, <1>5, <1>6, <1>7, <1>8 DEF ScriptStep

(* A dispatch that frog_main ran into finds the registry empty, and no     *)
(* request to piggyback on: the watcher is not waiting while it reloads.   *)
LEMMA SoloDispatchStep ==
  ASSUME Solo, IInv, IInv', SoloInv, NEW t \in Threads,
         DispatchStep(t) \/ \E s \in Slots : GameCalls(t, s)
  PROVE  SoloInv'
  <1>0. StackInv /\ StackInv' /\ SoloShape /\ SoloData
    BY DEF IInv, ShapeInv, StackInv, TypeOK, SoloInv
  <1> USE DEF regVars, rtVars, hookVars, histVars, stackVars
  <1>h. ~At(t, "handler")
    BY <1>0, SoloAt DEF DispatchPcs
  <1>n. ASSUME NEW pc \in DispatchPcs, At(t, pc), poisoned' = poisoned, UNCHANGED soloVars,
               \/ \E q \in DispatchPcs \ {"handler"} : Goto(t, q)
               \/ \E s \in Slots : Call(t, DispatchFrame(s))
               \/ Return(t)
        PROVE  SoloInv'
    <2>1. Top(t) \in Frame
      BY <1>0, <1>n, SoloAt
    <2>2. ASSUME NEW q \in DispatchPcs \ {"handler"}, Goto(t, q)
          PROVE  \E f : SetTop(t, f) /\ InnerPc(f.pc)
      <3> DEFINE f == [Top(t) EXCEPT !.pc = q]
      <3>1. SetTop(t, f)
        BY <2>2 DEF Goto
      <3>2. f.pc = q
        BY <2>1 DEF Frame
      <3> HIDE DEF f
      <3> QED BY <3>1, <3>2 DEF InnerPc
    <2>3. \A s \in Slots : InnerPc(DispatchFrame(s).pc)
      BY DEF DispatchFrame, Blank, InnerPc, DispatchPcs
    <2>4. \/ \E f : SetTop(t, f) /\ InnerPc(f.pc)
          \/ \E f : Call(t, f) /\ InnerPc(f.pc)
          \/ Return(t)
      BY <1>n, <2>2, <2>3, Zenon
    <2>5. SoloShape' /\ Busy' = Busy
      BY <1>0, <1>n, <2>4, SoloNested
    <2>6. SoloData'
      BY <1>0, <1>n, <2>5, DataQuiet
    <2> QED BY <2>5, <2>6 DEF SoloInv
  <1>1. CASE DispatchUnpublished(t)
    BY <1>1, <1>n DEF DispatchUnpublished, DispatchPcs, soloVars
  <1>2. CASE DispatchReentrant(t)
    BY <1>2, <1>n DEF DispatchReentrant, DispatchPcs, soloVars
  <1>3. CASE DispatchFresh(t)
    BY <1>3, <1>n DEF DispatchFresh, DispatchPcs, soloVars
  <1>4. CASE HandlerStarts(t)
    <2>1. At(t, "call") /\ registry # <<>>
      BY <1>4 DEF HandlerStarts
    <2>2. Busy.pc = "main"
      BY <1>0, <2>1, SoloAt DEF DispatchPcs
    <2> QED BY <1>0, <2>1, <2>2 DEF SoloData, SoloPhase
  <1>5. CASE ObserverFires(t)
    BY <1>5, <1>n DEF ObserverFires, DispatchPcs, soloVars
  <1>6. CASE HandlerEnds(t)
    BY <1>6, <1>h DEF HandlerEnds
  <1>7. CASE ReplayReturns(t)
    BY <1>7, <1>n DEF ReplayReturns, DispatchPcs, soloVars
  <1>8. CASE DispatchReturns(t)
    BY <1>8, <1>n DEF DispatchReturns, DispatchPcs, soloVars
  <1>9. CASE Piggyback(t)
    <2>1. depth[t] > 2
      BY <1>0, <1>9, SoloAt DEF Piggyback, DispatchPcs
    <2>2. depth[Watcher] = 1
      BY <1>9 DEF Piggyback, IInv, ShapeInv, PendingIsAwaited
    <2>3. t # Watcher /\ depth[t] > 0 /\ Watcher \in Threads /\ depth[t] \in Nat
      BY <1>0, <2>1, <2>2 DEF Threads, StackInv, StacksOK
    <2>4. depth[Watcher] = 0
      BY <1>0, <2>3, SoloBusy
    <2> QED BY <2>2, <2>4
  <1>10. ASSUME NEW s \in Slots, GameCalls(t, s) PROVE SoloInv'
    <2>1. At(t, "observe") \/ At(t, "replay") \/ At(t, "bypass")
      BY <1>10 DEF GameCalls, Solo
    <2>2. Call(t, DispatchFrame(s)) /\ poisoned' = poisoned /\ UNCHANGED soloVars
      BY <1>10 DEF GameCalls, soloVars
    <2> QED BY <1>n, <2>1, <2>2 DEF DispatchPcs
  <1> QED BY <1>1, <1>2, <1>3, <1>4, <1>5, <1>6, <1>7, <1>8, <1>9, <1>10 DEF DispatchStep

(* The loop of a thread moves on without a reload.                         *)
LEMMA SoloLoop ==
  ASSUME Solo, IInv, IInv', SoloInv, NEW t \in Threads, NEW pc \in OuterPcs, At(t, pc),
         \E f : SetTop(t, f) /\ f.pc \in OuterPcs, poisoned' = poisoned, UNCHANGED soloVars
  PROVE  SoloInv'
  <1>1. StackInv /\ StackInv' /\ SoloShape /\ SoloData
    BY DEF IInv, ShapeInv, StackInv, TypeOK, SoloInv
  <1>2. Busy = Blank
    BY <1>1, SoloAt DEF OuterPcs
  <1>3. SoloShape' /\ Busy' = Blank
    BY <1>1, SoloOuter
  <1>4. SoloData'
    BY <1>1, <1>2, <1>3, DataQuiet
  <1> QED BY <1>3, <1>4 DEF SoloInv

(* It calls registry_reload.                                               *)
LEMMA SoloLoopReloads ==
  ASSUME Solo, IInv, IInv', SoloInv, NEW t \in Threads, NEW pc \in OuterPcs, At(t, pc),
         NEW q \in OuterPcs, NEW b, CallFrom(t, q, ReloadFrame(b)), poisoned' = poisoned,
         UNCHANGED soloVars
  PROVE  SoloInv'
  <1>1. StackInv /\ StackInv' /\ SoloShape /\ SoloData
    BY DEF IInv, ShapeInv, StackInv, TypeOK, SoloInv
  <1>2. Busy = Blank
    BY <1>1, SoloAt DEF OuterPcs
  <1>3. SoloShape' /\ Busy' = ReloadFrame(b)
    BY <1>1, SoloReload
  <1>4. ReloadFrame(b).pc = "lock1" /\ Blank.pc = "none"
    BY DEF ReloadFrame, Blank
  <1>5. SoloData'
    BY <1>1, <1>2, <1>3, <1>4, DataQuiet DEF Retiring, Starting
  <1> QED BY <1>3, <1>5 DEF SoloInv

LEMMA SoloWatcherStep ==
  ASSUME Solo, IInv, IInv', SoloInv, WatcherStep
  PROVE  SoloInv'
  <1>0. StackInv /\ StackInv' /\ SoloShape /\ SoloData /\ Watcher \in Threads
    BY DEF IInv, ShapeInv, StackInv, TypeOK, SoloInv, Threads
  <1> USE DEF regVars, rtVars, hookVars, histVars, stackVars
  <1>t. ASSUME NEW pc, At(Watcher, pc) PROVE Top(Watcher) \in Frame
    BY <1>0, <1>t, SoloAt
  <1>o. {"poll", "beat", "load", "wait", "settle"} \subseteq OuterPcs
    BY DEF OuterPcs, WatcherPcs
  <1>g. ASSUME NEW pc \in OuterPcs, At(Watcher, pc), NEW q \in OuterPcs, Goto(Watcher, q)
        PROVE  \E f : SetTop(Watcher, f) /\ f.pc \in OuterPcs
    <2> DEFINE f == [Top(Watcher) EXCEPT !.pc = q]
    <2>1. SetTop(Watcher, f)
      BY <1>g DEF Goto
    <2>2. f.pc = q
      BY <1>g, <1>t DEF Frame
    <2> HIDE DEF f
    <2> QED BY <2>1, <2>2
  <1>s. AtStat => At(Watcher, "poll") \/ At(Watcher, "beat")
    BY DEF AtStat
  <1>1. CASE WatcherExit
    <2> DEFINE h == [frames[Watcher] EXCEPT ![1] = Blank]
    <2>1. At(Watcher, "poll") /\ Return(Watcher) /\ poisoned' = poisoned /\ UNCHANGED soloVars
      BY <1>1 DEF WatcherExit, soloVars
    <2>2. depth[Watcher] = 1 /\ depth[Watcher] > 0 /\ Busy = Blank
      BY <1>0, <2>1, SoloAt DEF WatcherPcs
    <2>3. frames' = [frames EXCEPT ![Watcher] = h] /\ depth' = [depth EXCEPT ![Watcher] = 0]
      BY <1>0, <2>1, <2>2 DEF Return, StackInv, StacksOK
    <2> HIDE DEF h
    <2>4. SoloStack(0, h)
      BY DEF SoloStack
    <2>5. SoloShape' /\ Busy' = IF 0 >= 2 THEN h[2] ELSE Blank
      BY <1>0, <2>1, <2>2, <2>3, <2>4, SoloMove
    <2>6. Busy' = Busy
      BY <2>2, <2>5
    <2>7. SoloData'
      BY <1>0, <2>1, <2>6, DataQuiet
    <2> QED BY <2>5, <2>7 DEF SoloInv
  <1>2. CASE WatcherHeartbeat
    <2>1. At(Watcher, "poll") /\ Goto(Watcher, "beat") /\ poisoned' = poisoned /\ UNCHANGED soloVars
      BY <1>2 DEF WatcherHeartbeat, soloVars
    <2> QED BY <1>0, <1>g, <1>o, <2>1, SoloLoop
  <1>3. CASE WatcherUnchanged
    <2>1. AtStat /\ Goto(Watcher, "poll") /\ poisoned' = poisoned /\ UNCHANGED soloVars
      BY <1>3 DEF WatcherUnchanged, soloVars
    <2> QED BY <1>0, <1>g, <1>o, <1>s, <2>1, SoloLoop
  <1>4. CASE WatcherDeleted
    <2> DEFINE f == [Top(Watcher) EXCEPT !.pc = "wait", !.arg = Unload]
    <2>1. AtStat /\ SetTop(Watcher, f) /\ poisoned' = poisoned /\ UNCHANGED soloVars
      BY <1>4 DEF WatcherDeleted, soloVars
    <2>2. f.pc = "wait"
      BY <1>s, <1>t, <2>1 DEF Frame
    <2> HIDE DEF f
    <2> QED BY <1>0, <1>o, <1>s, <2>1, <2>2, SoloLoop
  <1>5. CASE WatcherSighted
    <2>1. AtStat /\ Goto(Watcher, "load") /\ poisoned' = poisoned /\ UNCHANGED soloVars
      BY <1>5 DEF WatcherSighted, soloVars
    <2> QED BY <1>0, <1>g, <1>o, <1>s, <2>1, SoloLoop
  <1>6. CASE TryLoadFails
    <2>1. At(Watcher, "load") /\ Goto(Watcher, "poll") /\ poisoned' = poisoned /\ UNCHANGED soloVars
      BY <1>6 DEF TryLoadFails, soloVars
    <2> QED BY <1>0, <1>g, <1>o, <2>1, SoloLoop
  <1>7. CASE TryLoadPublishes
    <2> DEFINE f == [Top(Watcher) EXCEPT !.pc = "wait", !.arg = file.bytes]
    <2>1. At(Watcher, "load") /\ SetTop(Watcher, f) /\ poisoned' = poisoned /\ UNCHANGED soloVars
      BY <1>7 DEF TryLoadPublishes, soloVars
    <2>2. f.pc = "wait"
      BY <1>t, <2>1 DEF Frame
    <2> HIDE DEF f
    <2> QED BY <1>0, <1>o, <2>1, <2>2, SoloLoop
  <1>8. CASE WaitConsumed
    <2>1. At(Watcher, "wait") /\ Goto(Watcher, "settle") /\ poisoned' = poisoned /\ UNCHANGED soloVars
      BY <1>8 DEF WaitConsumed, soloVars
    <2> QED BY <1>0, <1>g, <1>o, <2>1, SoloLoop
  <1>9. CASE WaitTick
    <2>1. UNCHANGED <<frames, depth, poisoned>> /\ UNCHANGED soloVars
      BY <1>9 DEF WaitTick, soloVars
    <2>2. SoloShape' /\ Busy' = Busy
      BY <1>0, <2>1, SoloStill
    <2>3. SoloData'
      BY <1>0, <2>1, <2>2, DataQuiet
    <2> QED BY <2>2, <2>3 DEF SoloInv
  <1>10. CASE WaitFallback
    <2> DEFINE b == IF pending # None THEN pending ELSE Top(Watcher).arg
    <2>1. At(Watcher, "wait") /\ CallFrom(Watcher, "settle", ReloadFrame(b)) /\ poisoned' = poisoned
          /\ UNCHANGED soloVars
      BY <1>10 DEF WaitFallback, soloVars
    <2> HIDE DEF b
    <2> QED BY <1>0, <1>o, <2>1, SoloLoopReloads
  <1>11. CASE WatcherSettle
    <2> DEFINE f == [Blank EXCEPT !.pc = "poll"]
    <2>1. At(Watcher, "settle") /\ SetTop(Watcher, f) /\ poisoned' = poisoned /\ UNCHANGED soloVars
      BY <1>11 DEF WatcherSettle, soloVars
    <2>2. f.pc = "poll"
      BY DEF Blank
    <2> HIDE DEF f
    <2> QED BY <1>0, <1>o, <2>1, <2>2, SoloLoop
  <1> QED BY <1>1, <1>2, <1>3, <1>4, <1>5, <1>6, <1>7, <1>8, <1>9, <1>10, <1>11 DEF WatcherStep

LEMMA SoloWorkerStep ==
  ASSUME Solo, IInv, IInv', SoloInv, WorkerStep
  PROVE  SoloInv'
  <1>0. StackInv /\ StackInv' /\ SoloShape /\ SoloData /\ Worker \in Threads /\ Watcher \in Threads
    BY DEF IInv, ShapeInv, StackInv, TypeOK, SoloInv, Threads
  <1> USE DEF regVars, rtVars, hookVars, histVars, stackVars
  <1>o. {"cold", "spawn_watcher"} \subseteq OuterPcs
    BY DEF OuterPcs
  <1>1. CASE ColdStartLoad
    <2>1. /\ At(Worker, "cold") /\ \E b : CallFrom(Worker, "spawn_watcher", ReloadFrame(b))
          /\ poisoned' = poisoned /\ UNCHANGED soloVars
      BY <1>1 DEF ColdStartLoad, soloVars
    <2> QED BY <1>0, <1>o, <2>1, SoloLoopReloads
  <1>2. CASE ColdStartNoScript
    <2> DEFINE f == [Top(Worker) EXCEPT !.pc = "spawn_watcher"]
    <2>1. At(Worker, "cold") /\ SetTop(Worker, f) /\ poisoned' = poisoned /\ UNCHANGED soloVars
      BY <1>2 DEF ColdStartNoScript, Goto, soloVars
    <2>2. f.pc = "spawn_watcher"
      BY <1>0, <2>1, SoloAt DEF Frame
    <2> HIDE DEF f
    <2> QED BY <1>0, <1>o, <2>1, <2>2, SoloLoop
  <1>3. CASE SpawnWatcher
    <2>1. At(Worker, "spawn_watcher") /\ poisoned' = poisoned /\ UNCHANGED soloVars
      BY <1>3 DEF SpawnWatcher, soloVars
    <2>2. depth[Worker] = 1 /\ depth[Worker] > 0 /\ Busy = Blank
      BY <1>0, <2>1, SoloAt
    <2>3. depth'[Worker] = 0 /\ depth'[Watcher] = 1 /\ 1 \in 1..MaxDepth
      BY <1>0, <1>3, SoloThreads DEF SpawnWatcher, StackInv, StacksOK
    <2>4. frames'[Watcher][1].pc = "poll"
      BY <1>0, <1>3, <2>3, SoloThreads DEF SpawnWatcher, StackInv, StacksOK, Blank
    <2>5. SoloStack(0, frames'[Worker]) /\ SoloStack(1, frames'[Watcher])
      BY <2>4 DEF SoloStack, WatcherPcs
    <2>6. SoloShape'
      <3>1. SoloStack(depth'[Worker], frames'[Worker]) /\ SoloStack(depth'[Watcher], frames'[Watcher])
        BY <2>3, <2>5
      <3>2. \A t \in Threads : SoloStack(depth'[t], frames'[t])
        BY <3>1, SoloThreads
      <3>3. \A t \in Threads : SoloStack(depth[t], frames[t])'
        BY <3>2 DEF SoloStack
      <3> QED BY <1>0, <2>1, <2>3, <3>3 DEF SoloShape
    <2>7. Busy' = Busy
      BY <2>2, <2>3 DEF Busy
    <2>8. SoloData'
      BY <1>0, <2>1, <2>7, DataQuiet
    <2> QED BY <2>6, <2>8 DEF SoloInv
  <1> QED BY <1>1, <1>2, <1>3 DEF WorkerStep

LEMMA SoloNext ==
  ASSUME Solo
  PROVE  IInv /\ SoloInv /\ [Next]_vars => SoloInv'
  <1> SUFFICES ASSUME IInv, SoloInv, [Next]_vars PROVE SoloInv'
    OBVIOUS
  <1>0. IInv'
    BY NextIInv
  <1>q. ASSUME UNCHANGED <<frames, depth, poisoned>>, UNCHANGED soloVars PROVE SoloInv'
    <2>1. SoloShape' /\ Busy' = Busy
      BY <1>q, SoloStill DEF SoloInv
    <2>2. SoloData'
      BY <1>q, <2>1, DataQuiet DEF SoloInv
    <2> QED BY <2>1, <2>2 DEF SoloInv
  <1>1. CASE WatcherStep
    BY <1>0, <1>1, SoloWatcherStep
  <1>2. CASE WorkerStep
    BY <1>0, <1>2, SoloWorkerStep
  <1>3. ASSUME NEW t \in Threads, ThreadStep(t) PROVE SoloInv'
    BY <1>0, <1>3, SoloReloadStep, SoloScriptStep, SoloDispatchStep DEF ThreadStep
  <1>4. ASSUME NEW t \in Threads, NEW s \in Slots, GameCalls(t, s) PROVE SoloInv'
    BY <1>0, <1>4, SoloDispatchStep
  <1>5. ASSUME NEW b, EditFile(b) PROVE SoloInv'
    BY <1>5, <1>q DEF EditFile, regVars, rtVars, hookVars, histVars, stackVars, soloVars
  <1>6. ~\E t \in Unloaders : Detach(t)
    BY DEF Solo
  <1>7. CASE UNCHANGED vars
    BY <1>7, <1>q DEF vars, regVars, rtVars, hookVars, histVars, stackVars, soloVars
  <1> QED BY <1>1, <1>2, <1>3, <1>4, <1>5, <1>6, <1>7 DEF Next, Environment

LEMMA SoloInit ==
  ASSUME Solo, Init
  PROVE  SoloInv
  <1>1. ~poisoned /\ registry = <<>> /\ dropped = {} /\ nextId = 1
    BY DEF Init
  <1>2. depth[Watcher] = 0 /\ depth[Worker] = 1 /\ frames[Worker][1].pc = "cold"
    BY SoloThreads DEF Init, Blank
  <1>3. Busy = Blank /\ Busy.pc = "none"
    BY <1>2, BlankIsFrame DEF Busy
  <1>4. SoloStack(0, frames[Watcher]) /\ SoloStack(1, frames[Worker])
    BY <1>2 DEF SoloStack
  <1>5. SoloShape
    BY <1>1, <1>2, <1>4, SoloThreads DEF SoloShape
  <1>6. (\A r \in Ids : journal[r] = {}) /\ (\A a \in Addrs : mem[a] = 0)
    BY DEF Init
  <1>7. \A r \in Ids : ~InCharge(r)
    BY <1>1, <1>3 DEF InCharge, Starting
  <1>8. SoloJournal
    BY <1>1, <1>6, <1>7 DEF SoloJournal
  <1>9. SoloPhase
    BY <1>3 DEF SoloPhase, Retiring
  <1> QED BY <1>1, <1>5, <1>8, <1>9 DEF SoloInv, SoloData, DroppedLeavesNoHook, DroppedLeavesNoWrite

\* What a reload without game threads keeps to.
LEMMA SoloHolds ==
  ASSUME Solo
  PROVE  Spec => []SoloInv
  <1>1. Init => SoloInv
    BY SoloInit
  <1>2. IInv /\ SoloInv /\ [Next]_vars => SoloInv'
    BY SoloNext
  <1> QED BY <1>1, <1>2, SpecIInv, PTL DEF Spec

(***************************************************************************)
(* Reloads that no game thread and no detach runs into leave no hook of a  *)
(* dropped runtime behind (DroppedLeavesNoHook), whatever frog_main        *)
(* installs, removes and calls, and whether it returns or traps: Step 3    *)
(* walks the slots, so it does not depend on owned_hooks, which record_hook*)
(* never fills while frog_main runs.                                       *)
(***************************************************************************)
THEOREM DroppedHooksGone ==
  ASSUME GameThreads = {}, Unloaders = {}
  PROVE  Spec => []DroppedLeavesNoHook
  <1>1. Solo
    BY DEF Solo
  <1>2. SoloInv => DroppedLeavesNoHook
    BY DEF SoloInv, SoloData
  <1> QED BY <1>1, <1>2, SoloHolds, PTL

(***************************************************************************)
(* Nor a write whose loss was not logged (DroppedLeavesNoWrite), although  *)
(* touch, the write and the write-back of Step 2 may each fail: the        *)
(* journal that Step 1 takes has the first value of every other cell that  *)
(* still holds one of the runtime's writes, and that value is one of a     *)
(* runtime that is gone only where that value had been lost before.        *)
(***************************************************************************)
THEOREM DroppedWritesGone ==
  ASSUME GameThreads = {}, Unloaders = {}
  PROVE  Spec => []DroppedLeavesNoWrite
  <1>1. Solo
    BY DEF Solo
  <1>2. SoloInv => DroppedLeavesNoWrite
    BY DEF SoloInv, SoloData
  <1> QED BY <1>1, <1>2, SoloHolds, PTL

(***************************************************************************)
(* Nor does registry::insert find a runtime that was not torn down         *)
(* (InsertAssertionHolds), so REGISTRY is never poisoned. A game thread    *)
(* that reloads at the same time breaks this.                              *)
(***************************************************************************)
THEOREM InsertNeverPanicsAlone ==
  ASSUME GameThreads = {}, Unloaders = {}
  PROVE  Spec => []InsertAssertionHolds
  <1>1. Solo
    BY DEF Solo
  <1>2. SoloInv => InsertAssertionHolds
    BY DEF SoloInv, SoloShape, InsertAssertionHolds
  <1> QED BY <1>1, <1>2, SoloHolds, PTL
=============================================================================
