------------------------------ MODULE HotReload ------------------------------
(***************************************************************************)
(* Hot reload of the one WASM script of the agent: the watcher thread      *)
(* (runtime/watcher.rs), the RELOAD_PENDING hand-off and the five step     *)
(* swap (runtime/orchestrator.rs), the REGISTRY of parked runtimes         *)
(* (runtime/registry.rs), the spawn of a runtime (runtime/mem_host.rs),    *)
(* the hook dispatch of the game's threads and its piggyback               *)
(* (hook_runtime/dispatcher.rs, runtime/host.rs) and the cold start and    *)
(* detach of entry.rs.                                                     *)
(*                                                                         *)
(* Every thread is a bounded call stack of frames; the active frame is the *)
(* top one. A thread that runs game code from inside a handler (through    *)
(* il2cpp.invoke or il2cpp.call_original) may enter a hooked method again, *)
(* so dispatches nest, and so does the reload that a dispatch piggybacks.  *)
(***************************************************************************)
EXTENDS Naturals, Sequences, FiniteSets

CONSTANTS
  Scripts,      \* contents of active.wasm that parse as a module
  Malformed,    \* contents that do not parse (a half written or empty file)
  NoFile,       \* active.wasm is absent
  Unload,       \* the empty byte buffer: tear down, do not respawn
  None,         \* Option::None
  GameThreads,  \* the game's threads that call hooked methods
  Unloaders,    \* the thread that runs DllMain(DETACH): none or one
  Watcher,      \* the frog-watcher thread
  Worker,       \* the worker thread of DllMain(ATTACH)
  NoThread,     \* an unlocked mutex
  Addrs,        \* memory cells the scripts write
  MaxHooks,     \* number of hook slots (256 in the code)
  MaxFuel,      \* fuel of a store (1_000_000 in the code)
  WaitTicks,    \* polls of the wait loop (FROG_WATCHER_FALLBACK_MS / 50)
  MaxId,        \* bound: runtimes spawned in a behaviour
  MaxStamp,     \* bound: versions of active.wasm in a behaviour
  MaxDepth      \* bound: frames on a thread's stack

Threads == GameThreads \cup Unloaders \cup {Watcher, Worker}
Slots == 1..MaxHooks
Ids == 1..MaxId
Contents == Scripts \cup {Malformed}
Payloads == Contents \cup {Unload}

ASSUME ThreadsAssumption ==
  /\ Watcher # Worker
  /\ NoThread \notin Threads
  /\ {Watcher, Worker} \cap (GameThreads \cup Unloaders) = {}
  /\ GameThreads \cap Unloaders = {}

ASSUME ValuesAssumption ==
  /\ {Unload, NoFile, None} \cap Contents = {}
  /\ Unload # None /\ NoFile # Unload /\ NoFile # None
  /\ Malformed \notin Scripts

ASSUME BoundsAssumption ==
  /\ MaxHooks \in Nat \ {0} /\ MaxFuel \in Nat /\ WaitTicks \in Nat \ {0}
  /\ MaxId \in Nat \ {0} /\ MaxStamp \in Nat \ {0} /\ MaxDepth \in Nat \ {0}

VARIABLES
  file,      \* active.wasm: its contents and its (mtime, size) stamp
  stopping,  \* STOPPING
  lastSeen,  \* last_seen of watcher_loop; 0 is None
  elapsed,   \* iterations of the wait loop so far
  pending,   \* RELOAD_PENDING
  lock,      \* holder of the REGISTRY mutex
  poisoned,  \* the REGISTRY mutex is poisoned
  registry,  \* REGISTRY: the ids of the parked runtimes
  owned,     \* owned_hooks of the parked runtime
  nextId,    \* NEXT_ID
  code,      \* the script each runtime was spawned from
  fuel,      \* fuel left in each runtime's store
  journal,   \* write_journal of each runtime: first values by address
  mem,       \* who wrote each cell last; 0 is the game's own value
  hooks,     \* owner of each hook slot (HookCtx.runtime_id); 0 is invalid
  guard,     \* holder of INSTALL_GUARD
  reentry,   \* slots whose REENTRY flag is set
  frames,    \* the call stack of each thread
  depth,     \* its height
  aborted,   \* a panic reached an extern "system" boundary
  applied,   \* history: reloads run for the latest publish
  failed,    \* history: runtimes whose spawn failed
  dropped,   \* history: runtimes popped from the registry
  unread,    \* history: the version the watcher last gave up on; 0 is none
  unrestored \* history: <<cell, runtime>> whose write no journal undoes

fileVars == <<file, stopping, lastSeen, elapsed>>
regVars  == <<lock, poisoned, registry, owned>>
rtVars   == <<nextId, code, fuel, journal, mem>>
hookVars == <<hooks, guard, reentry>>
stackVars == <<frames, depth>>
histVars == <<applied, failed, dropped, unread, unrestored>>
vars == <<fileVars, pending, regVars, rtVars, hookVars, stackVars, aborted, histVars>>

-----------------------------------------------------------------------------
(* Call stacks.                                                            *)

ReloadPcs == {"lock1", "revert", "unhook", "spawn", "main", "insert", "state"}
DispatchPcs == {"dispatch", "call", "handler", "observe", "replay", "bypass",
                "clear"}
WatcherPcs == {"poll", "beat", "load", "wait", "settle"}
OtherPcs == {"cold", "spawn_watcher", "none"}
Pcs == ReloadPcs \cup DispatchPcs \cup WatcherPcs \cup OtherPcs

Entries == [addr : Addrs, orig : 0..MaxId]
Frame == [pc : Pcs, arg : Payloads, rt : 0..MaxId, slot : 0..MaxHooks,
          entries : SUBSET Entries, todo : SUBSET Slots]
Blank == [pc |-> "none", arg |-> Unload, rt |-> 0, slot |-> 0,
          entries |-> {}, todo |-> {}]

Top(t) == frames[t][depth[t]]
At(t, pc) == ~aborted /\ depth[t] > 0 /\ Top(t).pc = pc

SetTop(t, f) ==
  /\ frames' = [frames EXCEPT ![t] = [@ EXCEPT ![depth[t]] = f]]
  /\ UNCHANGED depth

Goto(t, pc) == SetTop(t, [Top(t) EXCEPT !.pc = pc])

Call(t, f) ==
  /\ depth[t] < MaxDepth
  /\ frames' = [frames EXCEPT ![t] = [@ EXCEPT ![depth[t] + 1] = f]]
  /\ depth' = [depth EXCEPT ![t] = @ + 1]

\* Calls f with the caller resuming at pc.
CallFrom(t, pc, f) ==
  /\ depth[t] < MaxDepth
  /\ LET caller == [Top(t) EXCEPT !.pc = pc] IN
     frames' = [frames EXCEPT ![t] = [@ EXCEPT ![depth[t]] = caller, ![depth[t] + 1] = f]]
  /\ depth' = [depth EXCEPT ![t] = @ + 1]

Return(t) ==
  /\ frames' = [frames EXCEPT ![t] = [@ EXCEPT ![depth[t]] = Blank]]
  /\ depth' = [depth EXCEPT ![t] = @ - 1]

ReloadFrame(bytes) == [Blank EXCEPT !.pc = "lock1", !.arg = bytes]

-----------------------------------------------------------------------------
Init ==
  /\ file \in [bytes : {NoFile}, stamp : {0}] \cup [bytes : Contents, stamp : {1}]
  /\ stopping = FALSE
  /\ lastSeen = 0
  /\ elapsed = 0
  /\ pending = None
  /\ lock = NoThread /\ poisoned = FALSE
  /\ registry = <<>> /\ owned = {}
  /\ nextId = 1
  /\ code = [r \in Ids |-> None]
  /\ fuel = [r \in Ids |-> 0]
  /\ journal = [r \in Ids |-> {}]
  /\ mem = [a \in Addrs |-> 0]
  /\ hooks = [s \in Slots |-> 0]
  /\ guard = NoThread
  /\ reentry = {}
  /\ frames = [t \in Threads |-> [i \in 1..MaxDepth |->
                IF t = Worker /\ i = 1 THEN [Blank EXCEPT !.pc = "cold"] ELSE Blank]]
  /\ depth = [t \in Threads |-> IF t = Worker THEN 1 ELSE 0]
  /\ aborted = FALSE
  /\ applied = 0 /\ failed = {} /\ dropped = {} /\ unread = 0 /\ unrestored = {}

(***************************************************************************)
(* The user edits scripts/active.wasm: a build writes it (possibly in      *)
(* pieces that do not parse) or it is deleted. External to the program.    *)
(***************************************************************************)
EditFile(bytes) ==
  /\ ~aborted
  /\ file.stamp < MaxStamp
  /\ bytes # NoFile \/ file.bytes # NoFile
  /\ file' = [bytes |-> bytes, stamp |-> file.stamp + 1]
  /\ UNCHANGED <<stopping, lastSeen, elapsed, pending, regVars, rtVars, hookVars,
                 stackVars, aborted, histVars>>

-----------------------------------------------------------------------------
(* entry.rs: cold start on the worker thread, DllMain(DETACH).             *)

\* active_wasm.exists(), fs::read and registry_reload of what was read. The
\* bytes of an empty file are the Unload request.
ColdStartLoad ==
  /\ At(Worker, "cold")
  /\ file.bytes # NoFile
  /\ \E bytes \in {file.bytes} \cup (IF file.bytes = Malformed THEN {Unload} ELSE {}) :
       CallFrom(Worker, "spawn_watcher", ReloadFrame(bytes))
  /\ UNCHANGED <<fileVars, pending, regVars, rtVars, hookVars, aborted, histVars>>

\* The file does not exist, or fs::read fails: log and go on.
ColdStartNoScript ==
  /\ At(Worker, "cold")
  /\ Goto(Worker, "spawn_watcher")
  /\ UNCHANGED <<fileVars, pending, regVars, rtVars, hookVars, aborted, histVars>>

\* watcher::spawn(); the worker then only sleeps.
SpawnWatcher ==
  /\ At(Worker, "spawn_watcher")
  /\ frames' = [frames EXCEPT
       ![Worker] = [@ EXCEPT ![1] = Blank],
       ![Watcher] = [@ EXCEPT ![1] = [Blank EXCEPT !.pc = "poll"]]]
  /\ depth' = [depth EXCEPT ![Worker] = 0, ![Watcher] = 1]
  /\ UNCHANGED <<fileVars, pending, regVars, rtVars, hookVars, aborted, histVars>>

\* watcher::stop() and registry_reload(&[]). The FreeLibrary case: the
\* agent's threads are still running.
Detach(t) ==
  /\ t \in Unloaders
  /\ ~aborted /\ ~stopping
  /\ depth[t] = 0
  /\ stopping' = TRUE
  /\ Call(t, ReloadFrame(Unload))
  /\ UNCHANGED <<file, lastSeen, elapsed, pending, regVars, rtVars, hookVars,
                 aborted, histVars>>

-----------------------------------------------------------------------------
(* runtime/watcher.rs.                                                     *)

\* Head of the loop: the STOPPING test, then one sleep.
WatcherExit ==
  /\ At(Watcher, "poll")
  /\ stopping
  /\ Return(Watcher)
  /\ UNCHANGED <<fileVars, pending, regVars, rtVars, hookVars, aborted, histVars>>

\* Every HEARTBEAT_TICKS-th tick writes the state file before the stat;
\* write_state() reads the registry through list(), which blocks on REGISTRY.
WatcherHeartbeat ==
  /\ At(Watcher, "poll")
  /\ ~stopping
  /\ Goto(Watcher, "beat")
  /\ UNCHANGED <<fileVars, pending, regVars, rtVars, hookVars, aborted, histVars>>

AtStat ==
  \/ At(Watcher, "poll") /\ ~stopping
  \/ At(Watcher, "beat") /\ lock = NoThread

Present == file.bytes # NoFile

\* (None, None), and (Some(prev), Some(meta)) with prev == meta.
WatcherUnchanged ==
  /\ AtStat
  /\ \/ ~Present /\ lastSeen = 0
     \/ Present /\ lastSeen = file.stamp
  /\ Goto(Watcher, "poll")
  /\ UNCHANGED <<fileVars, pending, regVars, rtVars, hookVars, aborted, histVars>>

\* (Some(_), None): publish_unload(), then wait_for_consume_or_fallback(None).
WatcherDeleted ==
  /\ AtStat
  /\ ~Present /\ lastSeen # 0
  /\ pending' = Unload
  /\ applied' = 0
  /\ elapsed' = 0
  /\ SetTop(Watcher, [Top(Watcher) EXCEPT !.pc = "wait", !.arg = Unload])
  /\ UNCHANGED <<file, stopping, lastSeen, regVars, rtVars, hookVars, aborted,
                 failed, dropped, unread, unrestored>>

\* (None, Some(meta)), and (Some(prev), Some(meta)) with prev # meta.
WatcherSighted ==
  /\ AtStat
  /\ Present /\ lastSeen # file.stamp
  /\ lastSeen' = file.stamp
  /\ Goto(Watcher, "load")
  /\ UNCHANGED <<file, stopping, elapsed, pending, regVars, rtVars, hookVars, aborted,
                 histVars>>

\* try_load: fs::read fails, whatever the file holds, or the parse check
\* does. last_seen keeps the stamp of the version that was given up.
TryLoadFails ==
  /\ At(Watcher, "load")
  /\ unread' = lastSeen
  /\ Goto(Watcher, "poll")
  /\ UNCHANGED <<fileVars, pending, regVars, rtVars, hookVars, aborted, applied, failed,
                 dropped, unrestored>>

\* try_load: publish_reload(bytes), then the wait.
TryLoadPublishes ==
  /\ At(Watcher, "load")
  /\ file.bytes \in Scripts
  /\ pending' = file.bytes
  /\ applied' = 0
  /\ elapsed' = 0
  /\ SetTop(Watcher, [Top(Watcher) EXCEPT !.pc = "wait", !.arg = file.bytes])
  /\ UNCHANGED <<file, stopping, lastSeen, regVars, rtVars, hookVars, aborted,
                 failed, dropped, unread, unrestored>>

\* wait_for_consume_or_fallback: one iteration of the loop.
WaitConsumed ==
  /\ At(Watcher, "wait")
  /\ elapsed < WaitTicks
  /\ pending = None
  /\ Goto(Watcher, "settle")
  /\ UNCHANGED <<fileVars, pending, regVars, rtVars, hookVars, aborted, histVars>>

\* Mutant: the deadline is tested one iteration late.
WaitTickLate ==
  /\ At(Watcher, "wait")
  /\ elapsed <= WaitTicks
  /\ pending # None
  /\ elapsed' = elapsed + 1
  /\ UNCHANGED <<file, stopping, lastSeen, pending, regVars, rtVars, hookVars, stackVars,
                 aborted, histVars>>

\* Mutant: the wait does not count its iterations.
WaitTickUncounted ==
  /\ At(Watcher, "wait")
  /\ elapsed < WaitTicks
  /\ pending # None
  /\ UNCHANGED vars

WaitTick ==
  /\ At(Watcher, "wait")
  /\ elapsed < WaitTicks
  /\ pending # None
  /\ elapsed' = elapsed + 1
  /\ UNCHANGED <<file, stopping, lastSeen, pending, regVars, rtVars, hookVars, stackVars,
                 aborted, histVars>>

\* Mutant: the fallback reads RELOAD_PENDING without taking it.
WaitFallbackPeeks ==
  /\ At(Watcher, "wait")
  /\ elapsed = WaitTicks
  /\ CallFrom(Watcher, "settle",
              ReloadFrame(IF pending # None THEN pending ELSE Top(Watcher).arg))
  /\ applied' = applied + 1
  /\ UNCHANGED <<fileVars, pending, regVars, rtVars, hookVars, aborted, failed, dropped,
                 unread, unrestored>>

\* The deadline passed: take_reload_pending().unwrap_or_else(bytes_ref), and
\* registry_reload on this thread.
WaitFallback ==
  /\ At(Watcher, "wait")
  /\ elapsed = WaitTicks
  /\ CallFrom(Watcher, "settle",
              ReloadFrame(IF pending # None THEN pending ELSE Top(Watcher).arg))
  /\ pending' = None
  /\ applied' = applied + 1
  /\ UNCHANGED <<fileVars, regVars, rtVars, hookVars, aborted, failed, dropped,
                 unread, unrestored>>

\* Mutant: the stamp is taken again after the wait, so an edit made
\* meanwhile is never seen as a change.
WatcherSettleRestats ==
  /\ At(Watcher, "settle")
  /\ lock = NoThread
  /\ lastSeen' = IF Top(Watcher).arg = Unload THEN 0 ELSE file.stamp
  /\ SetTop(Watcher, [Blank EXCEPT !.pc = "poll"])
  /\ UNCHANGED <<file, stopping, elapsed, pending, regVars, rtVars, hookVars,
                 aborted, histVars>>

\* The caller of the wait writes the state file; the deletion arm clears
\* last_seen.
WatcherSettle ==
  /\ At(Watcher, "settle")
  /\ lock = NoThread
  /\ lastSeen' = IF Top(Watcher).arg = Unload THEN 0 ELSE lastSeen
  /\ SetTop(Watcher, [Blank EXCEPT !.pc = "poll"])
  /\ UNCHANGED <<file, stopping, elapsed, pending, regVars, rtVars, hookVars,
                 aborted, histVars>>

-----------------------------------------------------------------------------
(* runtime/orchestrator.rs: registry_reload, one action per step.          *)

\* All owned hooks are removed: Step 4 is next.
AtDrop(t) == At(t, "unhook") /\ Top(t).todo = {}

\* registry().lock() returned Err at Step 1 or Step 4: log and return.
ReloadPoisoned(t) ==
  /\ At(t, "lock1") \/ AtDrop(t)
  /\ lock = NoThread /\ poisoned
  /\ Return(t)
  /\ UNCHANGED <<fileVars, pending, regVars, rtVars, hookVars, aborted, histVars>>

\* Step 1 with no live runtime: spawn if there is something to spawn.
ReloadEmpty(t) ==
  /\ At(t, "lock1")
  /\ lock = NoThread /\ ~poisoned
  /\ registry = <<>>
  /\ Goto(t, IF Top(t).arg = Unload THEN "state" ELSE "spawn")
  /\ UNCHANGED <<fileVars, pending, regVars, rtVars, hookVars, aborted, histVars>>

\* Step 1: take the journal of the live runtime and remember its id; the
\* lock is dropped at the end of the block.
ReloadSnapshot(t) ==
  /\ At(t, "lock1")
  /\ lock = NoThread /\ ~poisoned
  /\ registry # <<>>
  /\ LET cur == Head(registry) IN
     /\ SetTop(t, [Top(t) EXCEPT !.pc = "revert", !.rt = cur, !.entries = journal[cur]])
     /\ journal' = [journal EXCEPT ![cur] = {}]
  /\ UNCHANGED <<fileVars, pending, regVars, nextId, code, fuel, mem, hookVars, aborted, histVars>>

\* Step 2: write one original value back, or log that raw_write failed and
\* go on. HashMap order is arbitrary.
RevertEntry(t) ==
  /\ At(t, "revert")
  /\ \E e \in Top(t).entries :
       /\ \/ /\ mem' = [mem EXCEPT ![e.addr] = e.orig]
             /\ UNCHANGED unrestored
          \/ /\ unrestored' = unrestored \cup {<<e.addr, Top(t).rt>>}
             /\ UNCHANGED mem
       /\ SetTop(t, [Top(t) EXCEPT !.entries = @ \ {e}])
  /\ UNCHANGED <<fileVars, pending, regVars, nextId, code, fuel, journal, hookVars, aborted,
                 applied, failed, dropped, unread>>

\* Mutant: Step 3 trusts owned_hooks instead of walking the slots.
CollectOwnedList(t) ==
  /\ At(t, "revert")
  /\ Top(t).entries = {}
  /\ SetTop(t, [Top(t) EXCEPT !.pc = "unhook", !.todo = owned])
  /\ UNCHANGED <<fileVars, pending, regVars, rtVars, hookVars, aborted, histVars>>

\* Step 3: collect_owned_hook_ids(current_id), without a lock.
CollectOwned(t) ==
  /\ At(t, "revert")
  /\ Top(t).entries = {}
  /\ SetTop(t, [Top(t) EXCEPT !.pc = "unhook",
                              !.todo = {s \in Slots : hooks[s] = Top(t).rt}])
  /\ UNCHANGED <<fileVars, pending, regVars, rtVars, hookVars, aborted, histVars>>

\* remove_hook under INSTALL_GUARD: whatever the slot holds by now is
\* unpublished; an invalid slot is UnknownHandle.
RemoveHook(s) ==
  /\ guard = NoThread
  /\ hooks' = [hooks EXCEPT ![s] = 0]
  /\ reentry' = IF hooks[s] # 0 THEN reentry \ {s} ELSE reentry
  /\ UNCHANGED guard

\* Step 3, slots in increasing order.
UnhookOwned(t) ==
  /\ At(t, "unhook")
  /\ \E s \in Top(t).todo :
       /\ \A u \in Top(t).todo : s <= u
       /\ RemoveHook(s)
       /\ SetTop(t, [Top(t) EXCEPT !.todo = @ \ {s}])
  /\ UNCHANGED <<fileVars, pending, regVars, rtVars, aborted, histVars>>

\* A store's destructor: its fuel and its journal go with it.
DropStore(r) ==
  /\ fuel' = [fuel EXCEPT ![r] = 0]
  /\ journal' = [journal EXCEPT ![r] = {}]

\* Step 4: pop and drop whatever runtime is last in the registry by now.
DropRuntime(t) ==
  /\ AtDrop(t)
  /\ lock = NoThread /\ ~poisoned
  /\ IF registry = <<>>
     THEN UNCHANGED <<registry, owned, fuel, journal, dropped>>
     ELSE LET old == registry[Len(registry)] IN
          /\ registry' = SubSeq(registry, 1, Len(registry) - 1)
          /\ owned' = {}
          /\ DropStore(old)
          /\ dropped' = dropped \cup {old}
  /\ Goto(t, IF Top(t).arg = Unload THEN "state" ELSE "spawn")
  /\ UNCHANGED <<fileVars, pending, lock, poisoned, nextId, code, mem, hookVars, aborted,
                 applied, failed, unread, unrestored>>

\* write_state() at the end of a reload: list() blocks on REGISTRY.
ReloadWriteState(t) ==
  /\ At(t, "state")
  /\ lock = NoThread
  /\ Return(t)
  /\ UNCHANGED <<fileVars, pending, regVars, rtVars, hookVars, aborted, histVars>>

-----------------------------------------------------------------------------
(* runtime/mem_host.rs: run_wasm_with_mem.                                 *)

\* Module::new fails: no runtime id is taken.
SpawnParseError(t) ==
  /\ At(t, "spawn")
  /\ Top(t).arg \notin Scripts
  /\ Goto(t, "state")
  /\ UNCHANGED <<fileVars, pending, regVars, rtVars, hookVars, aborted, histVars>>

\* next_runtime_id(), a fresh store with MaxFuel, frog_main entered.
Spawn(t) ==
  /\ At(t, "spawn")
  /\ Top(t).arg \in Scripts
  /\ nextId <= MaxId
  /\ SetTop(t, [Top(t) EXCEPT !.pc = "main", !.rt = nextId])
  /\ nextId' = nextId + 1
  /\ code' = [code EXCEPT ![nextId] = Top(t).arg]
  /\ fuel' = [fuel EXCEPT ![nextId] = MaxFuel]
  /\ UNCHANGED <<fileVars, pending, regVars, journal, mem, hookVars, aborted, histVars>>

\* frog_main returned; the runtime goes on to registry::insert.
MainReturns(t) ==
  /\ At(t, "main")
  /\ guard # t
  /\ Goto(t, "insert")
  /\ UNCHANGED <<fileVars, pending, regVars, rtVars, hookVars, aborted, histVars>>

\* Instantiate, NoEntry or Trap (out of fuel included): the store is dropped
\* with its journal, and nothing else is undone.
SpawnFails(t) ==
  /\ At(t, "main")
  /\ guard # t
  /\ failed' = failed \cup {Top(t).rt}
  /\ DropStore(Top(t).rt)
  /\ Goto(t, "state")
  /\ UNCHANGED <<fileVars, pending, regVars, nextId, code, mem, hookVars, aborted, applied,
                 dropped, unread, unrestored>>

\* Mutant: insert without the assertion on a prior runtime.
InsertUnchecked(t) ==
  /\ At(t, "insert")
  /\ lock = NoThread /\ ~poisoned
  /\ registry' = Append(registry, Top(t).rt)
  /\ owned' = {}
  /\ Goto(t, "state")
  /\ UNCHANGED <<fileVars, pending, lock, poisoned, rtVars, hookVars, aborted, histVars>>

\* registry::insert into an empty registry.
Insert(t) ==
  /\ At(t, "insert")
  /\ lock = NoThread /\ ~poisoned
  /\ registry = <<>>
  /\ registry' = Append(registry, Top(t).rt)
  /\ owned' = {}
  /\ Goto(t, "state")
  /\ UNCHANGED <<fileVars, pending, lock, poisoned, rtVars, hookVars, aborted, histVars>>

\* registry::insert panics: the assertion with the guard held, or expect on
\* a poisoned mutex. The unwinding drops the runtime. It ends the watcher
\* thread; in dispatch_rust, DllMain and worker (extern "system") it aborts
\* the process.
InsertPanics(t) ==
  /\ At(t, "insert")
  /\ lock = NoThread
  /\ poisoned \/ registry # <<>>
  /\ poisoned' = TRUE
  /\ failed' = failed \cup {Top(t).rt}
  /\ DropStore(Top(t).rt)
  /\ frames' = [frames EXCEPT ![t] = [i \in 1..MaxDepth |-> Blank]]
  /\ depth' = [depth EXCEPT ![t] = 0]
  /\ aborted' = (t # Watcher \/ \E i \in 1..MaxDepth : frames[t][i].slot # 0)
  /\ UNCHANGED <<fileVars, pending, lock, registry, owned, nextId, code, mem, hookVars,
                 applied, dropped, unread, unrestored>>

-----------------------------------------------------------------------------
(* Host functions of a running script: frog_main of a runtime being        *)
(* spawned, or a handler of the parked one. The store's fuel is set once   *)
(* and every call burns some of it.                                        *)

InWasm(t) ==
  /\ At(t, "main") \/ At(t, "handler")
  /\ guard # t
  /\ fuel[Top(t).rt] > 0

Burn(t) == fuel' = [fuel EXCEPT ![Top(t).rt] = @ - 1]

\* Mutant: a later write of the same address replaces the journal entry.
Retouch(r, a) ==
  \/ journal' = [journal EXCEPT ![r] =
       {e \in @ : e.addr # a} \cup {[addr |-> a, orig |-> mem[a]]}]
  \/ UNCHANGED journal

\* WriteJournal::touch keeps the first value of the address. It fails when
\* that value cannot be read, and then leaves the journal alone.
Touch(r, a) ==
  \/ /\ \A e \in journal[r] : e.addr # a
     /\ journal' = [journal EXCEPT ![r] = @ \cup {[addr |-> a, orig |-> mem[a]]}]
  \/ UNCHANGED journal

\* mem.write: touch, whose failure does not stop the write, then the write,
\* which may fail with the entry already made.
Write(t, a) ==
  /\ InWasm(t)
  /\ LET r == Top(t).rt IN
     /\ Touch(r, a)
     /\ \/ /\ mem' = [mem EXCEPT ![a] = r]
           /\ unrestored' = IF \E e \in journal'[r] : e.addr = a THEN unrestored
                            ELSE unrestored \cup {<<a, r>>}
        \/ UNCHANGED <<mem, unrestored>>
  /\ Burn(t)
  /\ UNCHANGED <<fileVars, pending, regVars, nextId, code, hookVars, stackVars, aborted,
                 applied, failed, dropped, unread>>

\* Instructions and host calls that change nothing here: reads, refused calls.
Compute(t) ==
  /\ InWasm(t)
  /\ Burn(t)
  /\ UNCHANGED <<fileVars, pending, regVars, nextId, code, journal, mem, hookVars, stackVars,
                 aborted, histVars>>

\* install_hook up to publish_slot: INSTALL_GUARD taken, the lowest invalid
\* slot published with the caller's runtime id.
InstallHook(t) ==
  /\ InWasm(t)
  /\ guard = NoThread
  /\ \E s \in Slots :
       /\ hooks[s] = 0 /\ \A u \in Slots : hooks[u] = 0 => s <= u
       /\ hooks' = [hooks EXCEPT ![s] = Top(t).rt]
       /\ SetTop(t, [Top(t) EXCEPT !.todo = {s}])
  /\ guard' = t
  /\ Burn(t)
  /\ UNCHANGED <<fileVars, pending, regVars, nextId, code, journal, mem, reentry, aborted, histVars>>

\* Mutant: record_hook with a blocking lock().
RecordHookBlocks(t) ==
  /\ At(t, "main") \/ At(t, "handler")
  /\ guard = t
  /\ lock = NoThread
  /\ owned' = IF ~poisoned /\ registry # <<>> THEN owned \cup Top(t).todo ELSE owned
  /\ guard' = NoThread
  /\ SetTop(t, [Top(t) EXCEPT !.todo = {}])
  /\ UNCHANGED <<fileVars, pending, lock, poisoned, registry, rtVars, hooks, reentry,
                 aborted, histVars>>

\* record_hook with try_lock, then INSTALL_GUARD is released.
RecordHook(t) ==
  /\ At(t, "main") \/ At(t, "handler")
  /\ guard = t
  /\ owned' = IF lock = NoThread /\ ~poisoned /\ registry # <<>>
              THEN owned \cup Top(t).todo ELSE owned
  /\ guard' = NoThread
  /\ SetTop(t, [Top(t) EXCEPT !.todo = {}])
  /\ UNCHANGED <<fileVars, pending, lock, poisoned, registry, rtVars, hooks, reentry,
                 aborted, histVars>>

\* il2cpp.remove_hook with any handle.
ScriptRemovesHook(t, s) ==
  /\ InWasm(t)
  /\ hooks[s] # 0
  /\ RemoveHook(s)
  /\ Burn(t)
  /\ UNCHANGED <<fileVars, pending, regVars, nextId, code, journal, mem, stackVars, aborted,
                 histVars>>

-----------------------------------------------------------------------------
(* Hook dispatch: dispatch_rust, with_current_context, call_hook_handler.  *)

\* Game code enters the thunk of slot s: on its own, from the original that
\* a trampoline runs, or because a script ran game code (il2cpp.invoke,
\* il2cpp.call_original).
DispatchFrame(s) == [Blank EXCEPT !.pc = "dispatch", !.slot = s]

GameCalls(t, s) ==
  /\ hooks[s] # 0
  /\ \/ t \in GameThreads /\ depth[t] = 0 /\ ~aborted
     \/ At(t, "observe") \/ At(t, "replay") \/ At(t, "bypass")
  /\ Call(t, DispatchFrame(s))
  /\ UNCHANGED <<fileVars, pending, regVars, rtVars, hookVars, aborted, histVars>>

ScriptRunsGame(t, s) ==
  /\ InWasm(t)
  /\ hooks[s] # 0
  /\ Call(t, DispatchFrame(s))
  /\ Burn(t)
  /\ UNCHANGED <<fileVars, pending, regVars, nextId, code, journal, mem, hookVars, aborted,
                 histVars>>

\* ctx_for is None: the slot was unpublished after the thunk was entered.
DispatchUnpublished(t) ==
  /\ At(t, "dispatch")
  /\ hooks[Top(t).slot] = 0
  /\ Return(t)
  /\ UNCHANGED <<fileVars, pending, regVars, rtVars, hookVars, aborted, histVars>>

\* try_enter_reentry found the flag set: trampoline only.
DispatchReentrant(t) ==
  /\ At(t, "dispatch")
  /\ hooks[Top(t).slot] # 0
  /\ Top(t).slot \in reentry
  /\ Goto(t, "replay")
  /\ UNCHANGED <<fileVars, pending, regVars, rtVars, hookVars, aborted, histVars>>

\* Entered fresh; regargs_to_args may refuse the arguments ("bypass").
DispatchFresh(t) ==
  /\ At(t, "dispatch")
  /\ hooks[Top(t).slot] # 0
  /\ Top(t).slot \notin reentry
  /\ reentry' = reentry \cup {Top(t).slot}
  /\ Goto(t, "call") \/ Goto(t, "bypass")
  /\ UNCHANGED <<fileVars, pending, regVars, rtVars, hooks, guard, aborted, histVars>>

\* Mutant: call_hook_handler drops the guard before it calls the handler.
HandlerStartsUnlocked(t) ==
  /\ At(t, "call")
  /\ lock = NoThread /\ ~poisoned
  /\ registry # <<>>
  /\ SetTop(t, [Top(t) EXCEPT !.pc = "handler", !.rt = Head(registry)])
  /\ UNCHANGED <<fileVars, pending, regVars, rtVars, hookVars, aborted, histVars>>

\* call_hook_handler: try_lock succeeds and the guard is kept while the
\* handler runs in the first parked runtime.
HandlerStarts(t) ==
  /\ At(t, "call")
  /\ lock = NoThread /\ ~poisoned
  /\ registry # <<>>
  /\ lock' = t
  /\ SetTop(t, [Top(t) EXCEPT !.pc = "handler", !.rt = Head(registry)])
  /\ UNCHANGED <<fileVars, pending, poisoned, registry, owned, rtVars, hookVars, aborted,
                 histVars>>

\* call_hook_handler returns Err: contended, empty, or no usable funcref.
\* The transparent observer runs the original.
ObserverFires(t) ==
  /\ At(t, "call")
  /\ Goto(t, "observe")
  /\ UNCHANGED <<fileVars, pending, regVars, rtVars, hookVars, aborted, histVars>>

\* The handler returns or traps and the lock is released. Without an
\* explicit return or call_original the original runs now.
HandlerEnds(t) ==
  /\ At(t, "handler")
  /\ guard # t
  /\ lock' = NoThread
  /\ Goto(t, "observe") \/ Goto(t, "clear")
  /\ UNCHANGED <<fileVars, pending, poisoned, registry, owned, rtVars, hookVars, aborted,
                 histVars>>

\* Back from the trampoline of a reentrant call, or of refused arguments.
ReplayReturns(t) ==
  /\ At(t, "replay") \/ At(t, "bypass")
  /\ reentry' = IF At(t, "bypass") THEN reentry \ {Top(t).slot} ELSE reentry
  /\ Return(t)
  /\ UNCHANGED <<fileVars, pending, regVars, rtVars, hooks, guard, aborted, histVars>>

\* clear_reentry, then the piggyback finds nothing to do.
DispatchReturns(t) ==
  /\ At(t, "observe") \/ At(t, "clear")
  /\ reentry' = reentry \ {Top(t).slot}
  /\ pending = None
  /\ Return(t)
  /\ UNCHANGED <<fileVars, pending, regVars, rtVars, hooks, guard, aborted, histVars>>

\* Mutant: the piggyback reads RELOAD_PENDING without taking it.
PiggybackPeeks(t) ==
  /\ At(t, "observe") \/ At(t, "clear")
  /\ reentry' = reentry \ {Top(t).slot}
  /\ pending # None
  /\ SetTop(t, [ReloadFrame(pending) EXCEPT !.slot = Top(t).slot])
  /\ applied' = applied + 1
  /\ UNCHANGED <<fileVars, pending, regVars, rtVars, hooks, guard, aborted, failed, dropped,
                 unread, unrestored>>

\* clear_reentry, then the piggyback drains RELOAD_PENDING and runs
\* registry_reload on this thread.
Piggyback(t) ==
  /\ At(t, "observe") \/ At(t, "clear")
  /\ reentry' = reentry \ {Top(t).slot}
  /\ pending # None
  /\ SetTop(t, [ReloadFrame(pending) EXCEPT !.slot = Top(t).slot])
  /\ pending' = None
  /\ applied' = applied + 1
  /\ UNCHANGED <<fileVars, regVars, rtVars, hooks, guard, aborted, failed, dropped,
                 unread, unrestored>>

-----------------------------------------------------------------------------
WatcherStep ==
  \/ WatcherExit \/ WatcherHeartbeat \/ WatcherUnchanged
  \/ WatcherDeleted \/ WatcherSighted \/ TryLoadFails \/ TryLoadPublishes
  \/ WaitConsumed \/ WaitTick \/ WaitFallback \/ WatcherSettle

WorkerStep == ColdStartLoad \/ ColdStartNoScript \/ SpawnWatcher

ReloadStep(t) ==
  \/ ReloadPoisoned(t) \/ ReloadEmpty(t) \/ ReloadSnapshot(t)
  \/ RevertEntry(t) \/ CollectOwned(t) \/ UnhookOwned(t)
  \/ DropRuntime(t) \/ ReloadWriteState(t)
  \/ SpawnParseError(t) \/ Spawn(t) \/ MainReturns(t) \/ SpawnFails(t)
  \/ Insert(t) \/ InsertPanics(t)

ScriptStep(t) ==
  \/ \E a \in Addrs : Write(t, a)
  \/ Compute(t) \/ InstallHook(t) \/ RecordHook(t)
  \/ \E s \in Slots : ScriptRemovesHook(t, s) \/ ScriptRunsGame(t, s)

DispatchStep(t) ==
  \/ DispatchUnpublished(t) \/ DispatchReentrant(t) \/ DispatchFresh(t)
  \/ HandlerStarts(t) \/ ObserverFires(t) \/ HandlerEnds(t)
  \/ ReplayReturns(t) \/ DispatchReturns(t) \/ Piggyback(t)

\* What any thread does with the reload, script or dispatch on its stack.
ThreadStep(t) == ReloadStep(t) \/ ScriptStep(t) \/ DispatchStep(t)

\* What the user, the game and the loader start on their own.
Environment ==
  \/ \E b \in Contents \cup {NoFile} : EditFile(b)
  \/ \E t \in Threads, s \in Slots : GameCalls(t, s)
  \/ \E t \in Unloaders : Detach(t)

Next == \/ WatcherStep \/ WorkerStep
        \/ \E t \in Threads : ThreadStep(t)
        \/ Environment

Spec == Init /\ [][Next]_vars

\* The operating system schedules the agent's own threads. Nothing is
\* assumed of the game: its threads may stop anywhere, a lock held or not.
FairSpec ==
  /\ Spec
  /\ WF_vars(WatcherStep \/ ThreadStep(Watcher))
  /\ WF_vars(WorkerStep \/ ThreadStep(Worker))

-----------------------------------------------------------------------------
(* Types.                                                                  *)

FileOK ==
  /\ file \in [bytes : Contents \cup {NoFile}, stamp : 0..MaxStamp]
  /\ stopping \in BOOLEAN
  /\ lastSeen \in 0..MaxStamp
  /\ elapsed \in 0..WaitTicks
  /\ pending \in Payloads \cup {None}

RegistryOK ==
  /\ lock \in Threads \cup {NoThread}
  /\ poisoned \in BOOLEAN
  /\ registry \in Seq(Ids)
  /\ owned \in SUBSET Slots

RuntimeOK ==
  /\ nextId \in 1..(MaxId + 1)
  /\ code \in [Ids -> Scripts \cup {None}]
  /\ fuel \in [Ids -> 0..MaxFuel]
  /\ journal \in [Ids -> SUBSET Entries]
  /\ mem \in [Addrs -> 0..MaxId]

HooksOK ==
  /\ hooks \in [Slots -> 0..MaxId]
  /\ guard \in Threads \cup {NoThread}
  /\ reentry \in SUBSET Slots

StacksOK ==
  /\ frames \in [Threads -> [1..MaxDepth -> Frame]]
  /\ depth \in [Threads -> 0..MaxDepth]

HistoryOK ==
  /\ aborted \in BOOLEAN
  /\ applied \in Nat
  /\ failed \in SUBSET Ids
  /\ dropped \in SUBSET Ids
  /\ unread \in 0..MaxStamp
  /\ unrestored \in SUBSET (Addrs \X (0..MaxId))

(***************************************************************************)
(* The type invariant: every piece of state of the watcher, the registry,  *)
(* the runtimes, the hook slots and the threads' stacks keeps its type.    *)
(***************************************************************************)
TypeOK == FileOK /\ RegistryOK /\ RuntimeOK /\ HooksOK /\ StacksOK /\ HistoryOK

-----------------------------------------------------------------------------
(* Safety.                                                                 *)

Running(t, i) == i <= depth[t] /\ frames[t][i].pc \in {"main", "handler"}

(***************************************************************************)
(* runtime/host.rs, "SAFETY MODEL": a store is never entered twice at the  *)
(* same time, by two threads or by two frames of one thread; a handler     *)
(* only runs in a runtime that is still parked, so Step 4 never drops a    *)
(* store under a running handler; frog_main only in one that is not parked *)
(* yet.                                                                    *)
(***************************************************************************)
StoreExclusive ==
  \A t, u \in Threads : \A i, j \in 1..MaxDepth :
    Running(t, i) =>
      /\ Running(u, j) /\ frames[t][i].rt = frames[u][j].rt => t = u /\ i = j
      /\ (\E k \in 1..Len(registry) : registry[k] = frames[t][i].rt)
           <=> frames[t][i].pc = "handler"

(***************************************************************************)
(* RELOAD_PENDING is only ever full while the watcher is in                *)
(* wait_for_consume_or_fallback: no publish overwrites an unconsumed one   *)
(* (publish_reload's "REPLACED" case), and no request is left behind by a  *)
(* watcher that went on, exited or died.                                   *)
(***************************************************************************)
PendingIsAwaited ==
  pending # None => depth[Watcher] = 1 /\ frames[Watcher][1].pc = "wait"

(***************************************************************************)
(* runtime/registry.rs: the registry holds at most one runtime, and never  *)
(* one that was dropped or whose spawn failed before: "a destroyed         *)
(* runtime's id is gone forever". Hook slots name ids that were handed     *)
(* out.                                                                    *)
(***************************************************************************)
RegistryHoldsOneFreshRuntime ==
  /\ Len(registry) <= 1
  /\ \A k \in 1..Len(registry) :
       registry[k] < nextId /\ registry[k] \notin dropped \cup failed
  /\ \A s \in Slots : hooks[s] < nextId

(***************************************************************************)
(* The lock order of orchestrator.rs: install_hook reaches for REGISTRY    *)
(* while it holds INSTALL_GUARD, and a handler that holds REGISTRY waits   *)
(* for INSTALL_GUARD. No deadlock comes of it, because the holder of       *)
(* INSTALL_GUARD can always go on to release it.                           *)
(***************************************************************************)
InstallGuardNeverWaits ==
  \A t \in Threads : guard = t /\ ~aborted => ENABLED RecordHook(t)

(***************************************************************************)
(* Step 3 of registry_reload leaves no hook of a dropped runtime behind.   *)
(***************************************************************************)
DroppedLeavesNoHook == \A s \in Slots : hooks[s] \notin dropped

(***************************************************************************)
(* Step 2 of registry_reload leaves no write of a dropped runtime behind,  *)
(* except where the code has already logged the loss: host_write_typed     *)
(* wrote although touch had failed, or the raw_write of Step 2 failed.     *)
(* Through repeated writes, failing writes that leave an entry, and        *)
(* originals that are themselves such leftovers.                           *)
(***************************************************************************)
DroppedLeavesNoWrite ==
  \A a \in Addrs : mem[a] \in dropped => <<a, mem[a]>> \in unrestored

(***************************************************************************)
(* watcher.rs and dispatcher.rs: what was published is applied at most     *)
(* twice, by one dispatch that takes it and by the fallback, which applies *)
(* its own copy when a dispatch was faster.                                *)
(***************************************************************************)
AppliedAtMostTwice == applied <= 2

(***************************************************************************)
(* dispatcher.rs: the piggyback is "Safe to run registry_reload here", so  *)
(* no thread waits for the REGISTRY mutex that it holds itself.            *)
(***************************************************************************)
BlocksOnRegistry(t) ==
  AtDrop(t) \/ \E pc \in {"lock1", "insert", "state", "beat", "settle"} : At(t, pc)
NoSelfDeadlock == \A t \in Threads : lock = t => ~BlocksOnRegistry(t)

(***************************************************************************)
(* registry.rs: the assertion of registry::insert, that any prior runtime  *)
(* has been torn down, never fails.                                        *)
(***************************************************************************)
InsertAssertionHolds == ~poisoned

-----------------------------------------------------------------------------
(* The inductive invariant behind the proofs of HotReloadProofs.           *)

\* Which frame may be where, and which of its fields are set.
FrameShape(t, i, f) ==
  /\ f.pc \in WatcherPcs => t = Watcher /\ i = 1
  /\ f.pc \in {"cold", "spawn_watcher"} => t = Worker /\ i = 1
  /\ f.pc \in {"main", "handler", "insert"} => f.rt # 0
  /\ f.pc \in DispatchPcs => f.slot # 0

StackShape ==
  \A t \in Threads : \A i \in 1..MaxDepth :
    /\ FrameShape(t, i, frames[t][i])
    /\ i > depth[t] => frames[t][i] = Blank

\* The worker starts the watcher once, and is then past its cold start.
StartedOnce ==
  depth[Watcher] > 0 => frames[Worker][1].pc \notin {"cold", "spawn_watcher"}

\* A frame that owns a store that is not parked yet.
Unparked(t, i) == frames[t][i].pc \in {"main", "insert"}

\* The holder of REGISTRY is the thread of the one handler frame, and that
\* handler runs in the parked runtime.
HandlerHoldsLock ==
  \A t, u \in Threads : \A i, j \in 1..MaxDepth :
    frames[t][i].pc = "handler" =>
      /\ lock = t
      /\ Len(registry) = 1 /\ registry[1] = frames[t][i].rt
      /\ frames[u][j].pc = "handler" => t = u /\ i = j

\* Runtimes on their way into the registry are new and pairwise different.
UnparkedIsFresh ==
  \A t, u \in Threads : \A i, j \in 1..MaxDepth :
    Unparked(t, i) =>
      /\ frames[t][i].rt < nextId
      /\ frames[t][i].rt \notin dropped \cup failed
      /\ \A k \in 1..Len(registry) : registry[k] # frames[t][i].rt
      /\ Unparked(u, j) /\ frames[t][i].rt = frames[u][j].rt => t = u /\ i = j

HistoryIsPast == \A r \in dropped \cup failed : r < nextId

ShapeInv == TypeOK /\ StackShape /\ StartedOnce /\ PendingIsAwaited

IInv ==
  /\ ShapeInv
  /\ HandlerHoldsLock /\ UnparkedIsFresh
  /\ RegistryHoldsOneFreshRuntime /\ HistoryIsPast

-----------------------------------------------------------------------------
(* Liveness.                                                               *)

(***************************************************************************)
(* A published reload is taken, by a dispatch or by the watcher's          *)
(* fallback, even when no hook ever fires or the game's thread is stuck.   *)
(***************************************************************************)
PendingIsConsumed == pending # None ~> pending = None

(***************************************************************************)
(* Once active.wasm no longer changes and parses, the registry ends up     *)
(* with a runtime of its last contents, or with nothing when frog_main of  *)
(* that script fails, unless the read of exactly that version failed:      *)
(* last_seen was set before it, so the watcher never tries it again. A     *)
(* deletion that the watcher sees unloads the script.                      *)
(***************************************************************************)
Serves(s) ==
  \E r \in Ids : /\ r = nextId - 1 /\ code[r] = s
                 /\ registry = <<r>> \/ (registry = <<>> /\ r \in failed)
LatestScriptWins ==
  /\ \A s \in Scripts : <>[](file.bytes = s /\ unread # file.stamp) => <>[]Serves(s)
  /\ (file.bytes = NoFile /\ lastSeen # 0) ~> (registry = <<>> \/ file.bytes # NoFile)

(***************************************************************************)
(* The hot-reload design: "File disappears, current runtime exists" means  *)
(* that the runtime is dropped.                                            *)
(***************************************************************************)
DeletionUnloads == <>[](file.bytes = NoFile) => <>[](registry = <<>>)
=============================================================================
