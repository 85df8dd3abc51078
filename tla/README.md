# Verification of FMT

FMT ("Frog") is a Windows DLL that runs inside a Unity/IL2CPP game. It loads one
WASM script, gives it access to the game's memory and methods, reloads it when
its file changes, and captures the game's network traffic. This directory holds
TLA+ models of its core, TLC configurations that check them on small
instances, and TLAPS proofs about them for every size.

## 1. Inventory

| Component | State it keeps | Operations | Works with |
|---|---|---|---|
| Hot reload (`runtime/watcher.rs`, `orchestrator.rs`, `registry.rs`) | `last_seen`, `STOPPING`, `RELOAD_PENDING`, `REGISTRY`, `NEXT_ID`, `owned_hooks` | poll, publish, wait and fall back, five step swap, heartbeat | runtime host, hook runtime, journal |
| WASM runtime host (`mem_host.rs`, `host.rs`) | a wasmi store per runtime: its fuel and its write journal | spawn and run `frog_main`, call a handler, host calls | registry, hook runtime, memory |
| Hook runtime (`internals/hook_runtime/`) | `HOOK_SLOTS`, `SLOT_VALID`, `REENTRY`, thunk slab, `INSTALL_GUARD` | `install_hook`, `remove_hook`, `dispatch_rust`, `call_original`, `set_return` | inline detour, runtime host, reload piggyback |
| Inline detour (`inline_detour.rs`) | a patched function and its trampoline | install, remove | hook runtime, capture |
| Entry (`entry.rs`) | none of its own | cold start, start of the threads, detach | everything |
| Protocol capture (`protocol/capture.rs`, `agent-core/protocol.rs`) | `RING`, `PENDING`, `IN_HOOK`, `HOOKS`, `ORIG_*` | eleven detours, stream thread | inline detour |
| Memory access (`external/`, `spine/`) | region cache, write journal | validated read, guarded write, scan, journal touch and revert | runtime host |
| State file (`state_file.rs`) | `.state.json` and its temporary file | `write_state` | registry |
| Layout calibration (`internals/config.rs`, `calibration/`, `agent-core/calibration.rs`) | `Il2CppConfig`: the offsets of the game's structures | wait for a stable class table, probe each offset, fall back | entry, IL2CPP access |
| IL2CPP access (`internals/api.rs`, `marshal.rs`, `spine/access.rs`) | `SCAN_CACHE`; the register image and `CURRENT` of a hooked call | walks over fields and methods, listing of instances, `invoke`, arguments and returns | hook runtime, memory, runtime host |
| Metadata parser (`metadata.rs`) | none | parse `global-metadata.dat` once | dump |
| Playpen (`wasm.rs`), diagnostics, paths and log, loader proxy | none worth a model | | |

How they interact. The worker thread loads `active.wasm` once, then starts the
watcher and the stream thread. The watcher polls the file; when it changes, it
leaves the bytes in `RELOAD_PENDING` and waits. The next hook dispatch on a game
thread takes them and reloads there (the "piggyback"); if none comes, the watcher
takes them back and reloads itself. A reload reverts the old script's writes,
removes its hooks, drops it and spawns the new one, taking and releasing the
`REGISTRY` mutex several times. A dispatch runs the handler of a script under
that mutex; a handler may run game code, which may enter another hook, and so
on. Capture is independent of all this and shares only the inline detours.

What is hard: every game thread can be inside every detour; detours must never
block; a reload has no lock over its whole length; hooks are removed while
threads run through them; script code calls back into the game that calls it.
`PROJECT.json` lists the hazards at their lines, with the properties that would
catch them.

What makes each component correct:

- *Hot reload*: a store is entered by one caller at a time; a request is neither
  lost nor overwritten; the script served in the end is the latest one; a script
  that was replaced leaves neither a hook nor a changed value.
- *Hook runtime*: slots, thunks and patches correspond; a call of a hooked method
  always runs something sensible; no flag outlives its dispatch.
- *Capture*: bytes are attributed to the call they belong to and read once; the
  ring keeps its caps; a frame reaches a connected client; a thread that has left
  a detour leaves nothing behind.
- *Memory access*: a revert restores the bytes before the first write; what it
  cannot restore is known; a read or write faults only where the code cannot know
  better; a page gets its protection back.
- *Calibration*: probing never makes a right offset wrong unless something in the
  game looks like what it is not; "stable" means that the game was quiet; startup
  ends.
- *IL2CPP access*: the method gets the arguments the caller and the handler gave
  it and the caller the return; the two ways to walk a class agree; a listing is
  complete and holds no dead entry.

## 2. Modules

| Module | Models |
|---|---|
| `HotReload` | watcher, hand-off, swap, registry, spawn, handlers and piggyback, cold start, detach |
| `HookRuntime` | install, removal and dispatch of hooks at the grain of the individual writes |
| `Capture` | detours, `PENDING`, frame ring, stream thread |
| `RevertibleMemory` | abstract: what the write journal promises |
| `MemAccess` | region cache and refresher, validated reads and scans, guarded writes, journal, revert; implements `RevertibleMemory` |
| `Calibration` | the worker from its start to the cold start: waits, probes, thresholds, fallbacks |
| `Marshal` | values of a hooked call and of `invoke` through registers and boxes |
| `ClassWalk` | walks over the members of a class, the instance scan and its cache |
| `Il2Cpp` | `Marshal` and `ClassWalk` together: the host functions of one runtime |
| `MCHotReload`, `MCHookRuntime`, `MCCapture`, `MCMemAccess`, `MCCalibration`, `MCIl2Cpp` | values and symmetries for TLC |
| `HotReloadProofs`, `HookRuntimeProofs`, `CaptureProofs`, `RevertibleMemoryProofs`, `MemAccessProofs`, `MemJournalProofs`, `CalibrationProofs`, `Il2CppProofs` | theorems |

`HotReload` and `HookRuntime` meet at the hooks. `HotReload` installs and removes
a hook in one step and knows who owns it; `HookRuntime` has the steps in between
and leaves the scripts abstract (a handler may start when no other runs, and may
make any host call). Neither is a refinement of the other: stating that one is
would need a common abstraction of a hook, which is part of the plan.

### HotReload

Each thread is a stack of frames (`frames`, `depth`), and a frame's `pc` is the
place in the function it stands for: `lock1` ... `insert` for `registry_reload`,
`dispatch` ... `piggyback` for `dispatch_rust`, `poll` ... `settle` for
`watcher_loop`, `main` for `frog_main`. One action is what happens between two
places where another thread can interfere: a mutex taken or released, a file
read, one host call. The file is a content and a stamp (mtime, size). A value in
memory is known by the runtime that wrote it last, the game being 0.

Choices a reader may stumble over:

- an empty `active.wasm` at the cold start acts as an unload, as in the code;
- a read of `active.wasm` may fail although the file is there. The watcher has
  noted the version by then and does not come back to it (`unread`);
- `write_permanent` is not journaled in the code and therefore not in the model;
- the host call touches the journal before the write. Either may fail: a write
  that fails leaves an entry, a touch that fails does not keep the write from
  happening, and the `raw_write` of a revert may fail too. The code logs the last
  two and goes on; the history variable `unrestored` has the cells they concern;
- a handler runs in the first runtime of the registry whichever runtime owns the
  slot, as `call_hook_handler` does;
- the wait loop of the watcher does not look at `STOPPING`;
- `write_state` is one step: it takes and releases the lock of the registry.

### HookRuntime

The entry of a method is its original code, a jump to a thunk, or torn while the
12 bytes are being written. A trampoline runs what was there when its bytes were
stolen, which is an older hook's jump if the method was hooked before. One
operation at a time (`INSTALL_GUARD`) goes through its steps in `op`; each thread
has a stack of the dispatches it is in. A thread that runs into `int3`, torn code
or freed memory sets `crashed`. Publishing a slot is two steps, the context and then
the flag `SLOT_VALID`. Reading the address of the trampoline and calling
it is one step. The values of arguments and returns are in `Marshal`.

The game runs on while hooks change: the worker installs them at the cold start and
the watcher removes them when it falls back, with no game thread stopped. A call
whose very hook another thread is installing or removing is marked (`raced`, a history
variable of its frame), and `crashed` says whether the thread that crashed was in such a
call ("raced"), met a half-written entry ("torn"), or neither ("lost").

Three Boolean constants say how scripts and system behave: `HookTwice`
(methods may be hooked twice), `RemoveOwn` (a handler may remove its own hook),
`ProtectFails` (`VirtualProtect` may refuse).

### Capture

Four classes of functions stand for the eleven detours. Detours of one class
differ in how the arguments are laid out and not in what they do to the state.
A call has a number, and bytes are known by the number of the call whose buffers
hold them, so that a frame can say both whose buffers were read (`call`) and which
completion led there (`of`). `PENDING` keeps the address of the game's WSABUF array
(`arr`), and what is read on completion is what the array (`wsabuf`) holds by then: WinSock
lets the game fill it again as soon as `WSARecv` has returned. Two history variables follow
this: `lent`, the calls whose array was filled again while their operation was under way,
and `misread`, the pairs of a call and the call whose bytes were found through its entry. The kernel (`io`) is external: an OVERLAPPED is free,
in flight, completed or handed out, and is free again once the detour that got it
returns. The stream thread's own `send` is captured like any other, so what it
writes comes back as a frame. That feeds itself until a record exceeds
`MAX_BYTES`, which `capture` refuses. A detour that is entered before its trampoline is
set does what the code does until it finds out: `closesocket` drops the entries of
its socket, the others set `IN_HOOK` and clear it.

Not visible in the state and therefore without an action: calls that fail, and
the counters `APC_GAP` and `CAP_HIT_COUNT`, which are only logged. A receive with
a completion routine is an operation that no detour registers (`UnseenIo`), its
end one that the game learns of elsewhere (`UnseenCompletion`). Reading `ORIG_*`
and calling the trampoline is one step; `remove_packet_hooks` is only run after
the installation has finished.

### RevertibleMemory and MemAccess

`RevertibleMemory` has bytes, the originals that are saved and the cells that are
`lost`, and names the only steps that lose one: saving a cell twice, writing it
unsaved, giving up what was saved. `MemAccess` has four actors: the script (one
handler at a time), the orchestrator in step 2 of a reload (which holds no lock),
the refresher of the region cache, and the game, which writes, frees, commits and
reprotects pages at any moment. A step is one system call or one copy. The
refinement maps `saved` to the cells covered by exactly one entry of the journal
or of the entries taken out of it (`savedBar`); `lost` is a history variable that
the actions set where the code can no longer restore a cell.
`gone`, `home`, `tainted` and `odd` are history variables too: pages that died
since the capture behind the cache, the protections the game itself chose, pages
reprotected by someone else inside a guarded write, unusual things that happened.
An access violation sets `crash` and says whether the code could have known. Every
script write stores the same byte, since only its being a script's matters. A
revert goes through the entries in any order, as a `HashMap` does.

### Calibration

A structure is a function from offsets to words, and a word has a kind (what a
probe takes it for when it follows the pointer) and a population (in how many of
ten objects it looks that way). A probe is its structure, its candidates in their
order, the kinds it accepts, its ratio and its threshold, translated one for one
from the `probe_*` functions; `pick_offset_by_consensus` and
`apply_offset_with_threshold` are operators over them. A world is a layout and at most
one decoy, a word that looks like something it is not; `WorldAssumption` says which
layouts are meant. The game loads classes
between any two steps of the worker. The wait of phase 0 has a step for the poll
and one for the count, so that a load may come between.

### Marshal, ClassWalk and Il2Cpp

A register is a word of `WordSize` values, of which a narrow type takes the low
`Narrow`, and what lies above a narrow argument is whatever the caller left. A vector register
holds a double or, in its low half, a float; an image of one read as the other is
zero, which is exact for the values used (0 and 1). `Call` fills the registers as the
calling convention has it (`Loaded`, `AbiSlot`), the handler sets arguments and
returns of any type in any order, and the method and its caller look at the
registers through the calling convention again (`Native`), not through the
functions of the code. `ClassWalk` has arrays whose slots are ends, garbage or members,
and a heap that changes under the scan and under every listing; the hit list of
a class is made once and kept for good. The parts share no state of the agent,
so `Il2Cpp` exercises one of them in a behaviour.

## 3. Runs

| Run | Question | Result |
|---|---|---|
| `HotReloadThreads` | game thread, watcher, worker and detach against each other | holds |
| `HotReloadSequential` | what a chain of reloads, unloads and failing scripts leaves behind | holds |
| `HookRuntimeThreads` | bookkeeping of slots, thunks, contexts and flags without any assumption on scripts | holds |
| `HookRuntimeCalls` | what a call of the game sees while other threads install and remove hooks | holds |
| `CaptureThreads` | overlapped receives on two threads while hooks come and go | holds |
| `CaptureStream` | the ring between two game threads and the stream thread | holds |
| `MemAccess` | script, revert, refresher and game on shared pages | holds |
| `Calibration` | startup in honest and misleading layouts while the game loads | holds |
| `Il2Cpp` | values of calls, walks over classes, listings of instances | holds |
| `SelfDeadlock`, `PatchSurvives`, `FloatReturn` | statements of comments and documents that the code does not keep | violated |

The properties, by run:

- `HotReloadThreads`: `StoreExclusive` (no store entered twice or dropped under a
  handler), `PendingIsAwaited` (a request is pending only while the watcher waits
  for it), `RegistryHoldsOneFreshRuntime`, `AppliedAtMostTwice` (one request is
  applied at most twice, and the second time is the race of fallback and
  piggyback), `InstallGuardNeverWaits` (nobody waits for `REGISTRY` with
  `INSTALL_GUARD` in hand).
- `HotReloadSequential`: `DroppedLeavesNoHook`, `DroppedLeavesNoWrite` (unless
  a touch or a revert of that cell has failed), and the liveness properties
  `PendingIsConsumed` (a request is taken in the end: no dispatch comes here, so it
  must be the fallback) and `LatestScriptWins` (once the file stops changing and its
  script can be spawned, it is the one served, unless the read of this very version
  failed).
  `DroppedLeaves*` hold without game threads only. With one, a handler can install
  a hook or write between the steps of a swap, see section 6.
- `HookRuntimeThreads`: the inductive invariant `HookInv`, `SlotsMatchThunks`,
  `ReentryNotStuck`.
- `HookRuntimeCalls`: `EntryFollowsSlots`, `GameKeepsRunning` (no crash but that of a
  raced call or in an entry that is being written), `NoCallSwallowed` (a call that
  is not raced runs the original or gets a return value), `CtxOutlivesDispatch` (the
  same of the context). Section 6 has what raced calls meet.
- `CaptureThreads`: `EntriesAreAwaited` (an entry of `PENDING` is for the operation
  its OVERLAPPED carries, unless that operation's completion passed the detours
  by), `CapturedOnce` (bytes are read once, or else through an entry that the
  detours lost or whose array was lent), `GameHoldsNothing`.
- `CaptureStream`: `RingWithinCaps`, `FramesAreSent` (liveness: unless a client
  stops reading, a frame leaves the ring or the client goes).
- `MemAccess`: `ReadFaultsOnlyStale` (a read faults only on a page that died after
  the capture it was validated by), `LoneWriteNeverFaults` (a guarded write faults
  only if another thread reprotected its page between query and copy),
  `ProtectionRestored`, `ScriptBytesAccounted`, `PlainUseFullyReverted` (without
  overlapping ranges, permanent writes, changing protections and handlers inside
  the revert no original in the journal is a script's byte, and no script byte is
  left once every entry is put back), and the refinement `ImplementsRevertibleMemory`.
- `Calibration`: `StableMeansQuiet`, `HonestWorldIsRight` (without a decoy every
  offset is right or the verified prior), `WrongNeedsDecoy` (what a decoy must look
  like to get in), `OnlyConfirmed` (offsets that are probed but can never be
  corrected), `StartupDecides` (liveness).
- `Il2Cpp`: `MethodGetsArguments`, `ReturnsArrive`, `WalksAgree`, `InstancesListed`.
  The first two leave 32-bit floats out where the handler touches them, see
  `FloatReturn` and section 6.

Bounds. They cut the number of things and not what can happen to one of them.
`HotReloadThreads` has one game thread and three runtimes, the fewest for which
fallback, piggyback and detach overlap so far that an insert panics and a later
reload meets the poisoned mutex; two frames on a stack let `frog_main` and a handler
enter a hook. The file keeps its first version, which the watcher's first
poll reloads; more versions with a game thread beside them are left to the proofs.
`HotReloadSequential` gives up the game thread for two scripts, two versions of the file,
three runtimes and three frames, with fuel for three host calls: a script that hooks and
writes is replaced or unloaded, and every read, touch, write and revert may fail.
`WaitTicks = 1` is the wait
that falls back soonest; more polls only delay it. `HookRuntimeThreads` has two
slots and one method, so that the same method is hooked twice; a chain of two
trampolines needs two nested dispatches, which `PatchSurvives` and the proof have.
`HookRuntimeCalls` has two methods and a game thread that nests two dispatches; its
agent thread enters no hook, since a script that hooks what its own
`frog_main` calls is in `HookRuntimeThreads`. `CaptureThreads` has two OVERLAPPEDs and three calls (a stale
entry takes two calls on one of them), one WSABUF array for all of them, which is where
most go wrong, and a map of one entry, so that the cap is
met. `CaptureStream` has a ring of two frames of one byte and arrays with an empty
buffer between two others: two calls make four frames, so both caps evict.

`MemAccess` has two pages of one cell and writes of one and two cells: two host calls
overlap, cross a page and meet at a journaled address, and one step of the game frees,
commits or reprotects a page in between; a first page that is read-only or a
second that is execute-only make guarded writes change protections and touches
fail. `Calibration` has two class layouts (inline and
pointer), three method layouts and every decoy that some probe accepts; three
stable polls of five show the reset of the run, and classes are loaded in three
steps: one makes the anchors appear, and two more reset the run often enough that
the time limit ends a wait whose anchors are there. `Il2Cpp` has two register slots for four (an
argument in each, one behind `this`, one on the stack), words of three bits and
narrow types of two, so that sign and dirt differ, and a void method; at most three writes
and one `call_original` in a handler, enough for a write of the right type between two of
wrong ones (the shortest way to a register that neither the context nor an accepted
write accounts for); arrays of three slots under caps of two; two walkers, three heap
cells, a hit list of two.

Deadlock is not checked in the runs of the modules that bound what happens: the bounds on
file versions, calls and depth stop every behaviour in the end. `Il2Cpp` has none
that end a behaviour, and TLC checks it. That threads do not block each other is stated
by `InstallGuardNeverWaits`, `NoSelfDeadlock` and the liveness properties.

Fairness. `HotReload!FairSpec` is weakly fair to the watcher and the worker, which
are loops of the agent's own, and assumes nothing of game threads or of the thread
that detaches. `Capture!FairSpec` is weakly fair to a thread inside a detour (it
runs the agent's code, which never blocks) and to the stream thread once a client
is connected, except for `write_all`: that has no timeout and blocks for as long as a
client does not read, so its end is not fair. It is strongly fair to the stream thread's `try_lock`: the code tries every
50 ms for a lock that is held for the length of a push. Nothing is assumed of the game,
the kernel or the client; `HookRuntime` has no liveness property.
`Calibration` is weakly fair to the worker, a thread of the agent that only sleeps and reads;
the game may load classes at any time or never, as often as `LoadSteps` lets the table grow.

## 4. Findings

Each is a run that TLC ends with a counterexample, and is described with the
quoted line in `PROJECT.json`.

- `SelfDeadlock`: a dispatch nested in a handler piggybacks a reload and locks
  the mutex that its own thread holds.
- `PatchSurvives`: two hooks of one method removed oldest first leave the method
  jumping to a freed thunk.
- `FloatReturn`: a 32-bit float that a handler returns is stored as a double; the
  caller looks at its low half.

## 5. Proofs

Proved with TLAPS, for every number of threads, scripts, slots, runtimes and
frames and with the assumptions named in the modules only (threads are distinct
values, bounds are natural numbers, flags are Booleans):

- `HotReloadProofs`: `SpecIInv`, and from it `TypeCorrect`, `PendingAwaited`,
  `RegistryFresh`, `StoresExclusive`, `AppliedTwiceAtMost`,
  `GuardHolderIsInstalling`; and, if there are no game threads and no detach,
  `DroppedHooksGone`, `DroppedWritesGone` (with failing touches, writes and
  reverts), `InsertNeverPanicsAlone`.
- `HookRuntimeProofs`: `HookInvariant`, and from it `SlotsAndThunks`,
  `ReentryClears`; and the four properties of `HookRuntimeCalls`, each under the
  conditions it needs: `EntriesFollow` (no method hooked twice, `VirtualProtect`
  works), `CtxLives` (no handler removes its own hook), `GameRunsOn` and
  `CallsAnswered` (all three). None needs the game to stand still.
- `CaptureProofs`: `CaptureTypes`, `ThreadsLeaveClean`, `EntriesAwaited`,
  `BytesReadOnce`, `RingKeepsCaps`: every invariant of the two runs, for any caps,
  arrays, sockets and OVERLAPPEDs.
- `RevertibleMemoryProofs`: `AllAccounted`, for any set of cells and bytes, if the
  script's byte is not one of the game's.
- `MemAccessProofs`: `MemTypes`, `ReadsFaultOnlyStale`, `LoneWritesNeverFault`,
  `ProtectionsRestored`, for pages of any size and any set of write widths.
- `MemJournalProofs`: the refinement `JournalImplements`, from it and `AllAccounted`
  the theorem `AllScriptBytesAccounted`, and `PlainUseReverted`.
- `CalibrationProofs`: `StableIsQuiet`, `FixedFieldsConfirmed`, `HonestConfig`,
  `WrongIsDecoy`: every invariant of the run, for any number of polls, any loading
  of the game and any set of layouts that fits `WorldAssumption`.
- `Il2CppProofs`: `NoInstanceLost` and `MembersAgree`, for any heap, any number of
  listing threads and arrays of any length and content (`ClassAssumption`: what
  `class_get_fields` gives lies in front of the end of the array); `ArgumentsArrive` and
  `ReturnsAreHeard`, for any signatures, registers and writes, and any widths of which
  the wide one is a multiple of the narrow one.

*The argument for HotReload.* `StoreExclusive` is not inductive: that a handler is
alone in its store follows from the lock it holds, that `frog_main` is alone from
its runtime not being in the registry yet, and that from ids never being used
twice. `IInv` says these things: `ShapeInv` (types; which frames stand on which
thread and on top of which; the watcher starts once; a pending request has its
watcher waiting), `HandlerHoldsLock`, `UnparkedIsFresh`,
`RegistryHoldsOneFreshRuntime` and `HistoryIsPast`. The proof has one lemma per
action and shows the shape part first, as the others rest on it.

Two results rest on more than `IInv`. `AppliedInv` follows one request:
while it is pending it has not been applied, while the watcher still waits it has
been applied at most once, by the dispatch that took it, and never more than
twice; steps that leave request and watcher alone are dealt with once
(`PlainMove`).
`GuardHolderInstalls` says that the holder of `INSTALL_GUARD` is a script inside
`install_hook`. The run's `InstallGuardNeverWaits` says besides that this script can
take its next step; that is an `ENABLED`, so this half stays with TLC.

What a reload leaves behind is proved for reloads that nobody runs into, as
`DroppedLeaves*` and the assertion of `registry::insert` fail otherwise (section 6).
`SoloShape`: there is one stack at a time, the loop of the worker or the watcher, at most
one reload on it (`Busy`), and dispatches only on top of its `frog_main`. These find the
registry empty, and no request, since a watcher that reloads does not wait.
`SoloPhase` says what is left of the old runtime at each step of the reload,
and `SoloJournal` that the journal of the runtime in charge has an entry for every cell
that holds one of its writes, with a value of no runtime that is gone: without this
half, putting an original back could revive a write of an earlier runtime. Where a
touch or a revert failed, both halves give way to `unrestored`, and an original that is
itself such a leftover is allowed. A
runtime whose `frog_main` trapped keeps its hooks and writes, and they are not counted
as dropped; a later runtime may journal them as originals.

*The argument for HookRuntime.* `HookInv` is `TypeOK`, `OpOwns` (what the operation
in progress has taken and not yet published or freed), `SlotsOwn` (every other
slot with its thunk and context) and `ReentryNotStuck`. Installs and removals
change the slots and not the flags, dispatches the flags and not the slots, so the
proof falls into a slot half and a stack half.

The four properties of `HookRuntimeCalls` hold under conditions only, and the
conditions are hypotheses on the constants of the theorems. Each keeps out a known
failure: a method hooked twice is the finding `PatchSurvives`; a `VirtualProtect` that
fails in `Hook::remove` leaves the patch; a handler that removes its own hook frees
what its own dispatch is using. `EntryInv` (for `EntriesFollow`) has no stacks in
it: one valid slot per method, hooked and free methods with the bytes they should
have, and what the operation in progress makes of its method. `HeldInv` (for
`CtxLives`) has no methods in it: a frame that uses a context has a valid slot,
unless it is raced, and a frame with another on top of it stands in its handler or its
trampoline. The core is that a removal marks every call of other threads that uses
the slot, and that the thread which removes it has none. `AnswerInv` (for the
other two) builds on both: a dispatch that is raced may end anyhow, and any other is on
its way (`OnItsWay`): it has its thunk and its slot, and does not end without the original
or a return value (`Answers`). The last two
invariants are about every frame of every stack; `WellStacked` says so over
arbitrary sets of frames, so that pushing and popping is shown once for both.

*The argument for RevertibleMemory.* `Accounted` says that a script byte is saved or
lost and that what is saved is not a script byte. The second half is not
inductive, since a save copies what is in memory: `AccInv` adds that a cell which
is neither saved nor lost holds a byte of the game. There is one lemma per action.

*The argument for Capture.* `IInv` of `CaptureProofs` is `TypeOK` and six parts.
`Locks`: a mutex is held exactly through the steps that use it, and `IN_HOOK` is
clear outside the detours that set it. `Frames`: `total_bytes` is the sum of the
frames, no frame is longer than the ring, and the caps hold unless a push is
evicting; the last frame alone can be under the cap only because of the length
check of `capture`. `Unread`: a call in `PENDING`, or about to be put there, has
not been read, unless through the entry of another (`Blamed`), and is in one place only. `Owned`: what a detour has dequeued is its
own until it returns. `Waiting`: `EntriesAreAwaited`, and the same of entries a
detour is about to insert. `Lending`: the address in an entry leads to the bytes of its own call,
unless the entry was left behind or the array lent; an array is not filled
again before its call is registered, since `WSARecv` has not returned. None of the properties is inductive alone: that a
reused OVERLAPPED finds no entry needs `Owned` (only the detour that dequeued it
can free it), that bytes are not read twice needs `Unread` for the entry before it
is inserted. The sum is the number of places in buffers of these lengths, which
the library's theorems on cardinality can follow through append and tail.

*The argument for MemAccess.* `Flow` has the order of the steps of script and
revert. Reads rest on `ReadInv`: cache, capture in progress, snapshot of a scan
and validated range are sound up to the pages that went bad since. Writes rest on
`WriteInv`: the range of a guarded write has one protection, then the one it gave
it, and what it will put back is the game's, unless the range is tainted. Merging
neighbouring regions is shown to keep soundness page by page.

*The argument for the journal.* The refinement needs `JournalInv`: a cell that is
not lost lies in one entry, of the journal or of those being reverted. `savedBar`
is then a function of the entries whatever order they are visited in, and each
action of `MemAccess` is a step of `RevertibleMemory` or leaves its variables
alone. `PlainUseReverted` needs `WhenPlain`: as long as nothing unusual happened,
no page is tainted or execute-only, a script that is past its touch has an entry
for its range, and entries hold bytes of the game and cover every script byte.
The first attempt at this proof failed on the statement that plain use loses no
cell, which is false (section 6), and the property was restated.

*The argument for Calibration.* `StableMeansQuiet` needs `WaitInv`: as long as the
count is the one taken last, a run of k equal comparisons has k sleeps behind it
in which nothing was loaded. The offsets need `VoteInv`: every field is the prior,
the right offset, or that of a decoy seen in nine of ten objects; fields of
phase 1 are never changed on fewer than three objects; and `type_discrim`, which is
read through `klass_type_def`, is still the prior until that is settled. The core
is one lemma about `pick_offset_by_consensus`: the winner has the ratio, and no
candidate that all objects have is in front of it. `WorldAssumption` says what a
layout is: a method has one name, class and arity; a field comes before the words
that resemble it; type bits do not lie where a type begins, nor at its prior
offset; a decoy stands beside the layout. The proof of `OnlyConfirmed` failed at
first: a decoy at the fallback offset of the name makes the anchors findable in a
layout where the name is somewhere else, and then the probe does correct it. The
property now names this case.

*The argument for Il2Cpp.* `ScanInv`: one scan at a time, before there is a list, and
the list is in order. `Listing`, for every walker: of the hits it is through with
it has listed only such as the scan found, and all that have held the class since
it began; a hit between `NextMatch` and `Validate` is not yet among them. That the
list does not change under a walker follows from nobody having used it before it
was there. `MemberInv` says the same of a walk over an array: listed are exactly
the members up to the cursor. That `fields_at` and `find_method`
return the first of several, rests on the natural numbers being well-founded.

The values of calls need `CallInv`, which follows one call: a register holds
what was sent or set (`ArgInv`); the context the handler works on holds the same in
every argument of the right type, because a write packs all of them into the
registers again (`CtxInv`); the return registers hold what the caller is to find
(`RetInv`). Registers are remainders modulo `WordSize` and narrow values remainders and signed
remainders modulo `Narrow`. That packing and reading back is the identity
on the values of a type is shown once per type; the widths are constants and not powers of
two, as only divisibility is needed. The first attempt failed on the statement
that an argument is the one sent, the one set, or one the context still has: a wrong
second argument, a first one that is refused with it but packed, and a wrong first one
leave that value in the register alone (section 6). The property was
restated and the run given a third write.

Checked by TLC only: the liveness properties and the `ENABLED` half of
`InstallGuardNeverWaits`, both out of the prover's reach.

## 6. Observations without a run

Violations that a run shows as soon as the property is named in its configuration:

- `InsertAssertionHolds` (`HotReload`, in `HotReloadThreads`): two overlapping
  reloads both insert, and the second one's assertion (`registry.rs:100`) poisons
  `REGISTRY`; `registry.rs:95-97` leaves it to the caller.
- `DeletionUnloads` (`HotReload`, in `HotReloadSequential`): a script deleted between the cold start and the
  first poll is never unloaded (`watcher.rs:72`).
- `LatestScriptWins` without `unread # file.stamp` (`HotReload`, in `HotReloadSequential`):
  `docs/superpowers/specs/2026-05-31-b6a-hot-reload-design.md:169` says that "re-running
  the loop iteration after any failure converges". The watcher notes the version before it
  reads the file (`watcher.rs:86`, `93`), and when the read fails (`105-110`) it never
  tries that version again.
- `DroppedLeavesNoWrite` without `unrestored` (same run): a revert that fails
  is logged and the runtime dropped all the same (`orchestrator.rs:104-109`), and a write
  goes on when its touch failed (`mem_host.rs:104`).
- `NoCallSwallowed` without `raced` (`HookRuntime`, in `HookRuntimeCalls`): a call in
  the window between patch and publication finds no context (`dispatcher.rs:29-36`) and runs
  neither handler nor original, although lines 14-16 promise a fallback.
- `CtxOutlivesDispatch` and `GameKeepsRunning` without their exemptions (same run): a
  removal by another thread frees context and trampoline under a dispatch that is using
  them, and a call can meet the twelve bytes of a patch half written.
- `NoStaleAliasing` (`Capture`, in `CaptureThreads`): a failed receive leaves its
  `PENDING` entry for the next operation on the same OVERLAPPED
  (`capture.rs:538`; line 545 says "Always remove to de-leak").
- `CapturedOnce` as `shown[c] <= 1` (same run): the entry keeps the address of an array
  (`capture.rs:427`) that the game may fill for another call once `WSARecv` has returned,
  and the completion then hands out bytes of that call, which may have been captured already.
- `FramesAreSent` without its first alternative (`CaptureStream`): a client that
  stays connected and does not read blocks `write_all` (`capture.rs:66`) for good.
- `StackArgsPassThrough` (`Marshal`, in `Il2Cpp`): `replay.rs:13-16` says that
  arguments on the stack reach the method through the original frame; the frame
  the trampoline is called from is the agent's.

Comments the code does not quite keep, met while modelling:

- `watcher.rs:149` calls the fallback race-safe with a late drain: the request is
  not lost but can be applied twice (`AppliedAtMostTwice` is the bound that holds).
- `entry.rs:233-238` says that no double load occurs: the first poll that finds
  the file settled reloads what the cold start loaded.
- `orchestrator.rs:164-167`: a handler on a game thread can install a hook between
  collecting the old hooks (Step 3) and dropping the runtime (Step 4).
- In the same way a handler can write after `take_entries`, and nothing reverts it.
- `entry.rs:268-272` wants no patch to survive a detach: a reload in progress on
  another thread can install hooks after it.
- `registry.rs:44-46`: `owned_hooks` is filled only if the lock is free and the
  runtime parked; the removal goes by the slots and does not depend on it.
- `README.md:111` gives fuel per call: the store's fuel is never refilled.
- `hook_runtime/registry.rs:78-80` promises the context for the duration of a
  dispatch: a handler that removes its own hook ends it.
- `region_map.rs:33-35` ("can never fault") and `write.rs:6` ("never faults"): both
  check and then act; `MemAccess` reaches the crashes "stale read" and "raced write".
- A permanent write at a journaled address is undone by the next reload.
- A write that touches its range and then fails leaves an entry, and its revert can
  fail for the same reason: cells the journal gave up although no script byte is in
  them. The refresher makes this possible without any reprotection by the game: a
  capture during the copy of one guarded write sees that write's own protection and
  merges the region with its neighbour, and the next write is let through across
  the two.
- `state_file.rs:46-49` says that a reader never sees a partial file: two
  writers share the temporary file, and one can rename what the other has just truncated.
- `config.rs:100` says the parameter layout is probed via `PadLeft(Int32, Char)`: two
  anchors never reach the threshold of three (`OnlyConfirmed`), and the probes of
  name, class and arity offsets find their anchors with those very offsets.
- `config.rs:194` and `klass_layout.rs:1` call a failure of phase 1 fatal; nothing ends.
- Three stable polls span two intervals, since the first comparison follows its own count.
- In a game with the pointer layout the anchors are never found and phase 0 waits for
  its time limit.
- Setting any argument writes all of them again, and a 32-bit float argument with
  them, as a double; `call_original` reads a float return the same way.
- A `hook_set_arg` of the wrong type stays in the context, and until it is set again every
  write is refused although the arguments in front of the wrong one still reach their registers:
  after a refusal any value passed for an argument may be the one that arrives.
- A return that does not have the method's type gives the caller zero.
- `unpack_return` gives a script the class word of a returned object instead of its
  address, and `pack` passes the address of a slab for a reference, where the
  comment says that "The Il2CppString* IS the void* arg".
- `SCAN_CACHE` is said to be one-shot per iterator and is per process: an
  instance made after the first listing of its class is never listed.
- `static_field` ends at the first field of a name even if it is not static.

## 7. Not modelled

The metadata parser is sequential arithmetic over a file that does not change.
Resolution of exports (`ffi.rs`, `resolve.rs`) is one lookup per symbol and crosses the
FFI; the dump is output. Of calibration, `ffi_verify.rs` compares offsets with the
game's own functions and reports, `metadata_version.rs` reads one number for the log. Of
the state file, `HotReload` has the lock it takes and not its bytes. The playpen is a
sequential host for tests with the entry and fuel logic `HotReload` has. Diagnostics,
paths, log and loader proxy do I/O and keep no state.

## 8. Plan

1. An abstract hook (absent, active) that `HotReload` uses and `HookRuntime`
   implements for the calls that are not raced, as a refinement.
2. `StateFile`: three writers of one temporary file, crash between the steps.

The runs are few on purpose. New ones are merged with those of the same
module where the bounds allow it.
