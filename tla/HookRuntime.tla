----------------------------- MODULE HookRuntime -----------------------------
(***************************************************************************)
(* The life of a method hook: install_hook and remove_hook with the slot   *)
(* table, the thunks and the inline detours they write                     *)
(* (hook_runtime/api.rs, registry.rs, thunks.rs, inline_detour.rs), and    *)
(* the dispatch of the calls that arrive meanwhile (dispatcher.rs).        *)
(*                                                                         *)
(* The entry of a method holds its original code, a jump to a thunk, or,   *)
(* while it is being rewritten, neither. A thunk holds the id of a slot.   *)
(* What the stolen bytes of a trampoline do is what the entry held when    *)
(* they were stolen: run the original, or jump to an earlier thunk.        *)
(*                                                                         *)
(* The wasm side is abstract: a handler may start when no other runs       *)
(* (the try_lock of call_hook_handler) and may make any host call.         *)
(***************************************************************************)
EXTENDS Naturals, Sequences

CONSTANTS
  Methods,       \* methods that scripts hook
  GameThreads,   \* threads of the game
  Agents,        \* agent threads that run frog_main or a reload
  NoOne,         \* no thread, no method
  MaxHooks,      \* MAX_HOOKS
  MaxDepth,      \* bound: nested dispatches of a thread of the game
  AgentDepth,    \* bound: nested dispatches of an agent thread
  HookTwice,     \* scripts may hook a method that is already hooked
  RemoveOwn,     \* handlers may remove the hook they run for
  ProtectFails   \* VirtualProtect may refuse to unprotect a method

Threads == GameThreads \cup Agents
Slots == 1..MaxHooks
Thunks == 1..MaxHooks

\* What the entry of a method holds beside the thunk it jumps to.
Original == 0
Torn == MaxHooks + 1
Entry == 0..(MaxHooks + 1)

ASSUME HooksAssumption == MaxHooks \in Nat \ {0} /\ MaxDepth \in Nat \ {0} /\ AgentDepth \in Nat
ASSUME ActorsAssumption == GameThreads \cap Agents = {} /\ NoOne \notin Threads
ASSUME ScriptsAssumption == {HookTwice, RemoveOwn, ProtectFails} \subseteq BOOLEAN

VARIABLES
  entry,    \* the first bytes of each method
  thunk,    \* the slot id in each thunk; 0 is int3
  valid,    \* SLOT_VALID
  ctx,      \* HOOK_SLOTS: the HookCtx of each slot, live until it is dropped
  reentry,  \* slots whose REENTRY flag is set
  op,       \* the install or removal in progress, under INSTALL_GUARD
  stack,    \* the dispatches in progress on each thread
  crashed   \* what the process died of, or "no"

vars == <<entry, thunk, valid, ctx, reentry, op, stack, crashed>>
slotVars == <<entry, thunk, valid, ctx, op>>

OpPcs == {"none", "patch", "write", "publish", "valid", "restore", "rewrite", "unflag", "free"}
Pcs == {"thunk", "lookup", "enter", "call", "handler", "observe", "replay",
        "bypass", "clear", "piggyback", "done"}

\* saved is both original_bytes and what the trampoline runs.
HookCtx == [method : Methods \cup {NoOne}, thunk : Thunks, saved : Entry, live : BOOLEAN]

Op == [pc : OpPcs, by : Threads \cup {NoOne}, slot : 0..MaxHooks,
       thunk : 0..MaxHooks, method : Methods \cup {NoOne}, saved : Entry]

\* One dispatch: at is the thunk that was jumped to and, once the thunk has
\* loaded it, the id of the slot. inside tells that the trampoline runs, ran
\* that the original has run, ret that hook_set_return was called, called
\* that call_original was, and chained that a trampoline jumped here. raced
\* is history: the hook was being installed or removed by another thread
\* when the call came, or another thread began to remove it before the
\* dispatch was done with its context.
Frame == [pc : Pcs, at : Slots, method : Methods \cup {NoOne}, inside : BOOLEAN,
          ran : BOOLEAN, ret : BOOLEAN, called : BOOLEAN, chained : BOOLEAN,
          raced : BOOLEAN]

NewFrame(k, chained) ==
  [pc |-> "thunk", at |-> k, method |-> NoOne, inside |-> FALSE,
   ran |-> FALSE, ret |-> FALSE, called |-> FALSE, chained |-> chained,
   raced |-> op.pc # "none" /\ op.thunk = k]

Top(t) == stack[t][Len(stack[t])]
Runs(t) == crashed = "no" /\ op.by # t
At(t, pc) == Runs(t) /\ stack[t] # <<>> /\ Top(t).pc = pc

SetTop(t, f) == stack' = [stack EXCEPT ![t] = [@ EXCEPT ![Len(@)] = f]]
Goto(t, pc) == SetTop(t, [Top(t) EXCEPT !.pc = pc])
MayNest(t) == Len(stack[t]) < IF t \in Agents THEN AgentDepth ELSE MaxDepth
Push(t, f) == MayNest(t) /\ stack' = [stack EXCEPT ![t] = Append(@, f)]

NoOp == [pc |-> "none", by |-> NoOne, slot |-> 0, thunk |-> 0,
         method |-> NoOne, saved |-> Original]

Init ==
  /\ entry = [m \in Methods |-> Original]
  /\ thunk = [k \in Thunks |-> 0]
  /\ valid = [s \in Slots |-> FALSE]
  /\ ctx = [s \in Slots |-> [method |-> NoOne, thunk |-> 1,
                             saved |-> Original, live |-> FALSE]]
  /\ reentry = {}
  /\ op = NoOp
  /\ stack = [t \in Threads |-> <<>>]
  /\ crashed = "no"

\* What a crash comes from: torn code, or int3 or freed memory met by a
\* dispatch that raced an operation on its hook, or by any other.
Crashes == {"torn", "raced", "lost"}
Crash(why) == crashed' = why /\ UNCHANGED <<slotVars, reentry, stack>>
CrashOf(f) == Crash(IF f.raced THEN "raced" ELSE "lost")

-----------------------------------------------------------------------------
(* install_hook and remove_hook. INSTALL_GUARD is held from the first step *)
(* to the last, so there is one operation at a time.                       *)

InHandler(t) == \E i \in 1..Len(stack[t]) : stack[t][i].pc = "handler"

\* Mutant: the piggyback runs while the HookCtx is still in scope.
MayChangeHooksEarly(t) ==
  /\ op.pc = "none"
  /\ \/ t \in Agents /\ Runs(t) /\ stack[t] = <<>>
     \/ At(t, "handler") /\ ~Top(t).inside
     \/ At(t, "observe") /\ ~Top(t).inside /\ ~InHandler(t)

\* Who runs script or reload code: an agent thread, a handler, or a reload
\* that a dispatch piggybacks (a dispatch inside a handler only gets as far
\* as the REGISTRY lock its own thread holds).
MayChangeHooks(t) ==
  /\ op.pc = "none"
  /\ \/ t \in Agents /\ Runs(t) /\ stack[t] = <<>>
     \/ At(t, "handler") /\ ~Top(t).inside
     \/ At(t, "piggyback") /\ ~InHandler(t)

Lowest(S, x) == x \in S /\ \A y \in S : x <= y

\* The first slot that is not valid.
alloc_slot(s) == Lowest({u \in Slots : ~valid[u]}, s)

\* The first free thunk of the slab gets the id of the slot.
emit_thunk(k, s) ==
  /\ Lowest({u \in Thunks : thunk[u] = 0}, k)
  /\ thunk' = [thunk EXCEPT ![k] = s]

\* The thunk is filled with int3 and goes back to the slab.
free_thunk(k) == thunk' = [thunk EXCEPT ![k] = 0]

\* Steps 1 to 4 of install_hook: signature, slot, thunk. Failures up to here
\* change nothing.
InstallBegins(t, m) ==
  /\ MayChangeHooks(t)
  /\ HookTwice \/ \A s \in Slots : valid[s] => ctx[s].method # m
  /\ \E s \in Slots, k \in Thunks :
       /\ alloc_slot(s)
       /\ emit_thunk(k, s)
       /\ op' = [NoOp EXCEPT !.pc = "patch", !.by = t, !.slot = s, !.thunk = k,
                             !.method = m]
  /\ UNCHANGED <<entry, valid, ctx, reentry, stack, crashed>>

\* Mutant: the failure paths of step 5 forget free_thunk.
PatchFailsLeaking ==
  /\ crashed = "no" /\ op.pc = "patch"
  /\ op' = NoOp
  /\ UNCHANGED <<entry, thunk, valid, ctx, reentry, stack, crashed>>

\* Step 5 fails (no method pointer, too few bytes, no memory, VirtualProtect):
\* free_thunk and return.
PatchFails ==
  /\ crashed = "no" /\ op.pc = "patch"
  /\ free_thunk(op.thunk)
  /\ op' = NoOp
  /\ UNCHANGED <<entry, valid, ctx, reentry, stack, crashed>>

\* inline_detour::install: the stolen bytes are copied, then the jump is
\* written over them piece by piece.
PatchBegins ==
  /\ crashed = "no" /\ op.pc = "patch"
  /\ op' = [op EXCEPT !.pc = "write", !.saved = entry[op.method]]
  /\ entry' = [entry EXCEPT ![op.method] = Torn]
  /\ UNCHANGED <<thunk, valid, ctx, reentry, stack, crashed>>

PatchDone ==
  /\ crashed = "no" /\ op.pc = "write"
  /\ op' = [op EXCEPT !.pc = "publish"]
  /\ entry' = [entry EXCEPT ![op.method] = op.thunk]
  /\ UNCHANGED <<thunk, valid, ctx, reentry, stack, crashed>>

\* Mutant: SLOT_VALID is set before the context is written.
PublishSlotFlagFirst ==
  /\ crashed = "no"
  /\ \/ /\ op.pc = "publish"
        /\ valid' = [valid EXCEPT ![op.slot] = TRUE]
        /\ op' = [op EXCEPT !.pc = "valid"]
        /\ UNCHANGED ctx
     \/ /\ op.pc = "valid"
        /\ ctx' = [ctx EXCEPT ![op.slot] = [method |-> op.method, thunk |-> op.thunk,
                                            saved |-> op.saved, live |-> TRUE]]
        /\ op' = NoOp
        /\ UNCHANGED valid
  /\ UNCHANGED <<entry, thunk, reentry, stack, crashed>>

\* Step 6, publish_slot: the context is written, then SLOT_VALID is stored
\* (Release), and the guard is released.
PublishSlot ==
  /\ crashed = "no"
  /\ \/ /\ op.pc = "publish"
        /\ ctx' = [ctx EXCEPT ![op.slot] = [method |-> op.method, thunk |-> op.thunk,
                                            saved |-> op.saved, live |-> TRUE]]
        /\ op' = [op EXCEPT !.pc = "valid"]
        /\ UNCHANGED valid
     \/ /\ op.pc = "valid"
        /\ valid' = [valid EXCEPT ![op.slot] = TRUE]
        /\ op' = NoOp
        /\ UNCHANGED ctx
  /\ UNCHANGED <<entry, thunk, reentry, stack, crashed>>

\* A dispatch that will still use the HookCtx of its slot: until it has
\* called the trampoline.
UsesCtx(f) ==
  \/ f.pc \in {"enter", "call", "handler"}
  \/ f.pc \in {"observe", "replay", "bypass"} /\ ~f.inside

\* A dispatch that still depends on the hook in slot s.
Needs(f, s) ==
  \/ f.pc = "thunk" /\ thunk[f.at] = s
  \/ (f.pc = "lookup" \/ UsesCtx(f)) /\ f.at = s

\* History: the dispatches of other threads that a removal of s by t races.
MarkRaced(t, s) ==
  stack' = [u \in Threads |-> IF u = t THEN stack[u] ELSE
              [i \in 1..Len(stack[u]) |->
                 [stack[u][i] EXCEPT !.raced = @ \/ Needs(stack[u][i], s)]]]

\* remove_hook: the slot is valid, its thunk is remembered, SLOT_VALID is
\* cleared.
Unpublish(t, s) ==
  /\ MayChangeHooks(t)
  /\ valid[s]
  /\ RemoveOwn \/ \A i \in 1..Len(stack[t]) :
                    stack[t][i].pc = "handler" => stack[t][i].at # s
  /\ valid' = [valid EXCEPT ![s] = FALSE]
  /\ op' = [NoOp EXCEPT !.pc = "restore", !.by = t, !.slot = s,
                        !.thunk = ctx[s].thunk, !.method = ctx[s].method]
  /\ MarkRaced(t, s)
  /\ UNCHANGED <<entry, thunk, ctx, reentry, crashed>>

\* The drop of the HookCtx: the original bytes are written back piece by
\* piece.
RestoreBegins ==
  /\ crashed = "no" /\ op.pc = "restore"
  /\ entry' = [entry EXCEPT ![op.method] = Torn]
  /\ op' = [op EXCEPT !.pc = "rewrite"]
  /\ UNCHANGED <<thunk, valid, ctx, reentry, stack, crashed>>

\* VirtualProtect refuses: the patch stays, the trampoline goes.
RestoreFails ==
  /\ crashed = "no" /\ op.pc = "restore"
  /\ ProtectFails
  /\ ctx' = [ctx EXCEPT ![op.slot].live = FALSE]
  /\ op' = [op EXCEPT !.pc = "unflag"]
  /\ UNCHANGED <<entry, thunk, valid, reentry, stack, crashed>>

\* Mutant: the removal frees the trampoline and leaves the jump in place.
RestoreDoneUnrestored ==
  /\ crashed = "no" /\ op.pc = "rewrite"
  /\ entry' = [entry EXCEPT ![op.method] = op.thunk]
  /\ ctx' = [ctx EXCEPT ![op.slot].live = FALSE]
  /\ op' = [op EXCEPT !.pc = "unflag"]
  /\ UNCHANGED <<thunk, valid, reentry, stack, crashed>>

RestoreDone ==
  /\ crashed = "no" /\ op.pc = "rewrite"
  /\ entry' = [entry EXCEPT ![op.method] = ctx[op.slot].saved]
  /\ ctx' = [ctx EXCEPT ![op.slot].live = FALSE]
  /\ op' = [op EXCEPT !.pc = "unflag"]
  /\ UNCHANGED <<thunk, valid, reentry, stack, crashed>>

\* The last store of unpublish_slot.
ClearFlag ==
  /\ crashed = "no" /\ op.pc = "unflag"
  /\ reentry' = reentry \ {op.slot}
  /\ op' = [op EXCEPT !.pc = "free"]
  /\ UNCHANGED <<entry, thunk, valid, ctx, stack, crashed>>

\* Step 5 of remove_hook; the guard is released.
FreeThunk ==
  /\ crashed = "no" /\ op.pc = "free"
  /\ free_thunk(op.thunk)
  /\ op' = NoOp
  /\ UNCHANGED <<entry, valid, ctx, reentry, stack, crashed>>

-----------------------------------------------------------------------------
(* A call of a hooked method, from the jump at its entry to its return.    *)

\* Game code runs on a thread that is idle (a game thread, or frog_main with
\* il2cpp.invoke), in the original a trampoline entered, or in a method a
\* handler invokes. A call of a method that is not hooked is not seen here.
GameRuns(t) ==
  /\ Runs(t)
  /\ stack[t] # <<>> => Top(t).inside \/ Top(t).pc = "handler"

GameCalls(t, m) ==
  /\ GameRuns(t)
  /\ entry[m] \in Thunks
  /\ Push(t, NewFrame(entry[m], FALSE))
  /\ UNCHANGED <<slotVars, reentry, crashed>>

GameCallsTorn(t, m) ==
  /\ GameRuns(t)
  /\ entry[m] = Torn
  /\ Crash("torn")

\* The thunk loads its id for universal_shim, or is int3 by now.
EnterShim(t) ==
  /\ At(t, "thunk")
  /\ thunk[Top(t).at] # 0
  /\ SetTop(t, [Top(t) EXCEPT !.pc = "lookup", !.at = thunk[Top(t).at]])
  /\ UNCHANGED <<slotVars, reentry, crashed>>

EnterInt3(t) ==
  /\ At(t, "thunk")
  /\ thunk[Top(t).at] = 0
  /\ CrashOf(Top(t))

\* ctx_for: None zeroes the return value and returns.
CtxFor(t) ==
  /\ At(t, "lookup")
  /\ Goto(t, IF valid[Top(t).at] THEN "enter" ELSE "done")
  /\ UNCHANGED <<slotVars, reentry, crashed>>

\* try_enter_reentry, and regargs_to_args which may refuse the arguments.
TryEnter(t) ==
  /\ At(t, "enter")
  /\ IF Top(t).at \in reentry
     THEN Goto(t, "replay") /\ UNCHANGED reentry
     ELSE /\ Goto(t, "call") \/ Goto(t, "bypass")
          /\ reentry' = reentry \cup {Top(t).at}
  /\ UNCHANGED <<slotVars, crashed>>

\* with_current_context and call_hook_handler: the handler runs with the
\* method of the context.
HandlerStarts(t) ==
  /\ At(t, "call")
  /\ \A u \in Threads : ~InHandler(u)
  /\ SetTop(t, [Top(t) EXCEPT !.pc = "handler", !.method = ctx[Top(t).at].method])
  /\ UNCHANGED <<slotVars, reentry, crashed>>

HandlerSkipped(t) ==
  /\ At(t, "call")
  /\ Goto(t, "observe")
  /\ UNCHANGED <<slotVars, reentry, crashed>>

SetReturn(t) ==
  /\ At(t, "handler") /\ ~Top(t).inside
  /\ SetTop(t, [Top(t) EXCEPT !.ret = TRUE])
  /\ UNCHANGED <<slotVars, reentry, crashed>>

\* Runs the trampoline c: the stolen bytes lead into the original, or back
\* into the thunk of an earlier hook of the method.
RunTrampoline(t, c, f) ==
  IF c.saved = Original
  THEN SetTop(t, [f EXCEPT !.inside = TRUE, !.ran = TRUE])
  ELSE /\ c.saved \in Thunks
       /\ MayNest(t)
       /\ stack' = [stack EXCEPT ![t] =
            Append([@ EXCEPT ![Len(@)] = [f EXCEPT !.inside = TRUE]], NewFrame(c.saved, TRUE))]

\* call_original_now: the trampoline of the lowest valid slot of the method.
\* Without one it is an error and called_original stays unset.
CallOriginal(t) ==
  /\ At(t, "handler") /\ ~Top(t).inside
  /\ \E s \in Slots :
       /\ Lowest({u \in Slots : valid[u] /\ ctx[u].method = Top(t).method}, s)
       /\ RunTrampoline(t, ctx[s], [Top(t) EXCEPT !.called = TRUE])
  /\ UNCHANGED <<slotVars, reentry, crashed>>

\* Mutant: a handler that neither returns a value nor calls the original
\* swallows the call.
HandlerEndsSilent(t) ==
  /\ At(t, "handler") /\ ~Top(t).inside
  /\ Goto(t, "clear")
  /\ UNCHANGED <<slotVars, reentry, crashed>>

\* The handler returned or trapped. Without hook_set_return or call_original
\* the dispatch is a transparent observer.
HandlerEnds(t) ==
  /\ At(t, "handler") /\ ~Top(t).inside
  /\ Goto(t, IF Top(t).ret \/ Top(t).called THEN "clear" ELSE "observe")
  /\ UNCHANGED <<slotVars, reentry, crashed>>

AtReplay(t) ==
  /\ At(t, "observe") \/ At(t, "replay") \/ At(t, "bypass")
  /\ ~Top(t).inside

\* ctx.patch.trampoline is read and called.
Replay(t) ==
  /\ AtReplay(t)
  /\ ~Top(t).ran
  /\ ctx[Top(t).at].live
  /\ RunTrampoline(t, ctx[Top(t).at], Top(t))
  /\ UNCHANGED <<slotVars, reentry, crashed>>

\* The HookCtx was dropped: its trampoline is null or freed memory.
ReplayFreed(t) ==
  /\ AtReplay(t)
  /\ ~Top(t).ran
  /\ ~ctx[Top(t).at].live
  /\ CrashOf(Top(t))

\* Mutant: the refused arguments leave the REENTRY flag set.
TrampolineReturnsFlagged(t) ==
  /\ Runs(t) /\ stack[t] # <<>>
  /\ Top(t).inside
  /\ LET f == [Top(t) EXCEPT !.inside = FALSE] IN
     SetTop(t, [f EXCEPT !.pc = CASE f.pc = "observe" -> "clear"
                                  [] f.pc \in {"replay", "bypass"} -> "done"
                                  [] OTHER -> f.pc])
  /\ UNCHANGED <<slotVars, reentry, crashed>>

\* Back from the trampoline. The bypass clears the flag and returns.
TrampolineReturns(t) ==
  /\ Runs(t) /\ stack[t] # <<>>
  /\ Top(t).inside
  /\ LET f == [Top(t) EXCEPT !.inside = FALSE] IN
     SetTop(t, [f EXCEPT !.pc = CASE f.pc = "observe" -> "clear"
                                  [] f.pc \in {"replay", "bypass"} -> "done"
                                  [] OTHER -> f.pc])
  /\ reentry' = IF Top(t).pc = "bypass" THEN reentry \ {Top(t).at} ELSE reentry
  /\ UNCHANGED <<slotVars, crashed>>

\* clear_reentry; then a reload may be piggybacked.
ClearReentry(t) ==
  /\ At(t, "clear")
  /\ reentry' = reentry \ {Top(t).at}
  /\ Goto(t, "piggyback")
  /\ UNCHANGED <<slotVars, crashed>>

PiggybackEnds(t) ==
  /\ At(t, "piggyback")
  /\ Goto(t, "done")
  /\ UNCHANGED <<slotVars, reentry, crashed>>

\* The dispatch returns to the game, or to the trampoline that jumped here.
Return(t) ==
  /\ At(t, "done")
  /\ LET n == Len(stack[t])
         f == Top(t)
         rest == SubSeq(stack[t], 1, n - 1)
     IN stack' = [stack EXCEPT ![t] =
          IF f.chained THEN [rest EXCEPT ![n - 1].ran = @ \/ f.ran \/ f.ret] ELSE rest]
  /\ UNCHANGED <<slotVars, reentry, crashed>>

-----------------------------------------------------------------------------
GuardStep ==
  \/ PatchFails \/ PatchBegins \/ PatchDone \/ PublishSlot
  \/ RestoreBegins \/ RestoreFails \/ RestoreDone \/ ClearFlag \/ FreeThunk

DispatchStep(t) ==
  \/ EnterShim(t) \/ EnterInt3(t) \/ CtxFor(t) \/ TryEnter(t)
  \/ HandlerStarts(t) \/ HandlerSkipped(t) \/ HandlerEnds(t)
  \/ SetReturn(t) \/ CallOriginal(t)
  \/ Replay(t) \/ ReplayFreed(t) \/ TrampolineReturns(t)
  \/ ClearReentry(t) \/ PiggybackEnds(t) \/ Return(t)

Next ==
  \/ GuardStep
  \/ \E t \in Threads :
       \/ \E m \in Methods : InstallBegins(t, m) \/ GameCalls(t, m) \/ GameCallsTorn(t, m)
       \/ \E s \in Slots : Unpublish(t, s)
       \/ DispatchStep(t)

Spec == Init /\ [][Next]_vars

-----------------------------------------------------------------------------
(***************************************************************************)
(* The type invariant of the hook runtime.                                 *)
(***************************************************************************)
TypeOK ==
  /\ entry \in [Methods -> Entry]
  /\ thunk \in [Thunks -> 0..MaxHooks]
  /\ valid \in [Slots -> BOOLEAN]
  /\ ctx \in [Slots -> HookCtx]
  /\ reentry \in SUBSET Slots
  /\ op \in Op
  /\ stack \in [Threads -> Seq(Frame)]
  /\ crashed \in Crashes \cup {"no"}

(***************************************************************************)
(* hook_runtime/registry.rs, "INVARIANT: id": the id of a slot, its thunk  *)
(* and its context belong together. Outside an install or a removal, and   *)
(* whatever failed before, every valid slot has a live context whose thunk *)
(* carries the id of the slot, and every other thunk is int3: no thunk is  *)
(* shared or leaked.                                                       *)
(***************************************************************************)
SlotsMatchThunks ==
  op.pc = "none" =>
    /\ \A s \in Slots : valid[s] => ctx[s].live /\ thunk[ctx[s].thunk] = s
    /\ \A s \in Slots : ctx[s].live => valid[s]
    /\ \A k \in Thunks : thunk[k] # 0 => valid[thunk[k]] /\ ctx[thunk[k]].thunk = k

\* The same while an operation is in progress, which owns one slot that is
\* not valid and the one thunk that carries its id.
Installing == {"patch", "write", "publish", "valid"}
Removing == {"restore", "rewrite", "unflag", "free"}

OpOwns ==
  IF op.pc = "none" THEN op.by = NoOne
  ELSE /\ op.by \in Threads /\ op.slot \in Slots /\ op.thunk \in Thunks /\ op.method \in Methods
       /\ ~valid[op.slot]
       /\ thunk[op.thunk] = op.slot
       /\ op.pc \in Removing \cup {"valid"} => ctx[op.slot].thunk = op.thunk
       /\ op.pc = "valid" => ctx[op.slot].method = op.method
       /\ ctx[op.slot].live <=> op.pc \in {"valid", "restore", "rewrite"}

SlotsOwn ==
  /\ \A s \in Slots : valid[s] =>
       ctx[s].live /\ thunk[ctx[s].thunk] = s /\ ctx[s].method \in Methods
  /\ \A s \in Slots : ctx[s].live => valid[s] \/ (op.pc # "none" /\ op.slot = s)
  /\ \A k \in Thunks : thunk[k] # 0 =>
       \/ valid[thunk[k]] /\ ctx[thunk[k]].thunk = k
       \/ op.pc # "none" /\ op.thunk = k

(***************************************************************************)
(* dispatcher.rs, registry.rs: the REENTRY flag of a slot is never left    *)
(* set with no dispatch inside that will clear it: a hook does not go dead *)
(* for good.                                                               *)
(***************************************************************************)
Inside == {"call", "handler", "observe", "bypass", "clear"}
ReentryNotStuck ==
  \A s \in reentry : \E t \in Threads : \E i \in 1..Len(stack[t]) :
    stack[t][i].at = s /\ stack[t][i].pc \in Inside

(***************************************************************************)
(* api.rs, remove_hook "Restores original bytes": outside an install or a  *)
(* removal a method jumps to the thunk of the valid slot that hooks it,    *)
(* and holds its original code when none does.                             *)
(***************************************************************************)
EntryFollowsSlots ==
  op.pc = "none" => \A m \in Methods :
    \/ entry[m] = Original /\ \A s \in Slots : valid[s] => ctx[s].method # m
    \/ \E s \in Slots : valid[s] /\ ctx[s].method = m /\ entry[m] = ctx[s].thunk

(***************************************************************************)
(* The same promise, for any script: once no hook is left, no method holds *)
(* anything but its original code.                                         *)
(***************************************************************************)
NoPatchSurvives ==
  op.pc = "none" /\ (\A s \in Slots : ~valid[s]) => \A m \in Methods : entry[m] = Original

(***************************************************************************)
(* dispatcher.rs: "any failure to dispatch falls through to the            *)
(* trampoline": a call that returns has run the original, unless the       *)
(* handler has set a return value, or another thread was installing or     *)
(* removing that very hook while the call was on its way. What other       *)
(* threads do to other hooks, and what this thread does itself, handlers   *)
(* and piggybacked reloads included, never costs a call.                   *)
(***************************************************************************)
NoCallSwallowed ==
  \A t \in Threads : \A i \in 1..Len(stack[t]) :
    LET f == stack[t][i] IN f.pc = "done" => f.ran \/ f.ret \/ f.raced

(***************************************************************************)
(* registry.rs, ctx_for: "The returned reference is valid for the duration *)
(* of the dispatcher call", unless another thread removes the hook.        *)
(***************************************************************************)
CtxOutlivesDispatch ==
  \A t \in Threads : \A i \in 1..Len(stack[t]) :
    LET f == stack[t][i] IN UsesCtx(f) => ctx[f.at].live \/ f.raced

(***************************************************************************)
(* dispatcher.rs: "so the game keeps making progress": no call runs into a *)
(* freed thunk or a freed trampoline unless another thread installed or    *)
(* removed that very hook meanwhile, nor into a torn entry unless another  *)
(* thread is writing it at this moment.                                    *)
(***************************************************************************)
GameKeepsRunning ==
  /\ crashed # "lost"
  /\ crashed = "torn" => op.pc \in {"write", "rewrite"}

(***************************************************************************)
(* The inductive invariant of HookRuntimeProofs: types, the slots with the *)
(* operation in progress, and the REENTRY flags with their dispatches.     *)
(***************************************************************************)
HookInv == TypeOK /\ OpOwns /\ SlotsOwn /\ ReentryNotStuck
=============================================================================
