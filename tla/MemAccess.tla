------------------------------ MODULE MemAccess ------------------------------
(***************************************************************************)
(* How scripts reach the game's memory: the region cache that validates    *)
(* reads and the thread that refreshes it, the guarded write, the journal  *)
(* of original bytes and the revert that a reload starts with.             *)
(*                                                                         *)
(* Four actors interleave: the script (one handler at a time, it holds     *)
(* REGISTRY), the orchestrator in its step 2 (which holds no lock), the    *)
(* refresher and the game, which writes its own memory and commits, frees  *)
(* and reprotects pages whenever it likes.  A step is one system call or   *)
(* one copy, so that everything may happen between a check and its use.    *)
(*                                                                         *)
(* An address is a cell; CellsPerPage cells make a page, the grain of      *)
(* protection.  Every script write stores the byte Script.                 *)
(***************************************************************************)
EXTENDS Integers, FiniteSets

CONSTANTS
    NPages, CellsPerPage,   \* the address space
    Widths,                 \* widths of ValType, in cells
    MaxRegions,             \* Tunables.max_regions
    GameValues, Zero,       \* bytes of the game; the content of a fresh page
    Script,                 \* the byte scripts write
    InitProts,              \* protections of the pages when the script starts
    MaxOps,                 \* bound: host calls of the script
    MaxGame                 \* bound: steps of the game

ASSUME SpaceAssumption ==
    /\ NPages \in Nat \ {0} /\ CellsPerPage \in Nat \ {0}
    /\ Widths \subseteq Nat \ {0}
    /\ MaxRegions \in Nat \ {0}
    /\ Zero \in GameValues /\ Script \notin GameValues
    /\ MaxOps \in Nat /\ MaxGame \in Nat

Pages  == 0 .. NPages - 1
Cells  == 0 .. NPages * CellsPerPage - 1
Values == GameValues \cup {Script}
Prots  == {"free", "guard", "x", "ro", "rw", "rwx"}

ASSUME InitProtsAssumption == InitProts \subseteq [Pages -> Prots]

Threads == {"script", "revert"}
Ops     == {"read", "scan", "write", "write_if", "permanent", "revert"}
Absent  == [c \in {} |-> Script]      \* no entry: bytes of no cell

VARIABLES
    prot,      \* protection of each page; "free" is not committed
    mem,       \* the byte in each cell
    cache,     \* REGIONS: page intervals <<first, last>>
    walk,      \* the capture in progress: next page and regions found
    journal,   \* WriteJournal.entries: original bytes by first address
    todo,      \* entries taken out of the journal, yet to be reverted
    phase,     \* "running", or "reverting" from step 1 to step 4 of a reload
    th,        \* what each thread is doing
    crash,     \* access violation: "no", or what it was
    ops, game, \* bounds used up
    \* history
    gone,      \* pages that became inaccessible since the capture behind cache began
    home,      \* protection the game itself gave each page
    tainted,   \* pages whose protection changed inside another thread's guarded write
    lost,      \* cells whose original bytes nobody can put back
    odd        \* unusual things that happened: see Oddities

memvars  == <<prot, mem, home, tainted>>
cachevars == <<cache, walk>>
vars == <<prot, mem, cache, walk, journal, todo, phase, th, crash, ops, game,
          gone, home, tainted, lost, odd>>

Oddities == {"permanent", "overlap", "protection", "window"}

Idle == [pc |-> "idle", op |-> "read", addr |-> 0, len |-> 1, old |-> "free",
         gone |-> {}, regs |-> {}]
\* The refresher between two captures.
Asleep == [at |-> -1, found |-> {}, gone |-> {}]
-----------------------------------------------------------------------------
\* ---- pages and cells

Page(c) == c \div CellsPerPage
Span(a, w) == a .. a + w - 1
PagesOf(a, w) == { Page(c) : c \in Span(a, w) }
Accessible == Prots \ {"free", "guard"}
Writable   == {"rw", "rwx"}
Faulting(a, w, ok) == { p \in PagesOf(a, w) : p \notin Pages \/ prot[p] \notin ok }

\* region_map::is_readable: the execute-only protection is not in the mask.
is_readable(pr) == pr \in {"ro", "rw", "rwx"}

\* VirtualQuery(p): from the page asked about to the last page that has the
\* same protection; n = 0 past the end of the address space.
VirtualQuery(p) ==
    CHOOSE r \in Pages \X Pages :
        /\ r[1] = p /\ p <= r[2]
        /\ \A q \in p .. r[2] : prot[q] = prot[p]
        /\ r[2] = NPages - 1 \/ prot[r[2] + 1] # prot[p]

Within(a, w, r) == Page(a) >= r[1] /\ Page(a + w - 1) <= r[2]

\* RegionMap::in_region: the range lies in one cached region.
in_region(a, w) == \E r \in cache : Within(a, w, r)

\* Mutant: the end of the range is not compared with the end of the region.
live_readable_Start(a, w) == is_readable(prot[Page(a)])

\* cache::live_readable.
live_readable(a, w) == is_readable(prot[Page(a)]) /\ Within(a, w, VirtualQuery(Page(a)))
\* Mutant: the SpansRegion test is missing.
can_write_Spans(a, w) ==
    /\ prot[Page(a)] \notin {"free", "guard"}
    /\ Within(a, w, <<0, NPages - 1>>)

\* mem_write::can_write on a live query: committed, neither a guard page nor
\* inaccessible, and not past the end of the region.
can_write(a, w) ==
    /\ prot[Page(a)] \notin {"free", "guard"}
    /\ Within(a, w, VirtualQuery(Page(a)))
\* Cells of which some entry of the journal j holds the original byte.
Covered(j) == UNION { DOMAIN j[a] : a \in Cells }
-----------------------------------------------------------------------------
\* ---- bookkeeping of the history variables

\* The protections become np: pages that went inaccessible are remembered by
\* the cache, by the capture in progress and by every validated reader.
Reprotect(np, moved) ==
    LET bad == { p \in Pages : prot[p] \in Accessible /\ np[p] \notin Accessible } IN
    /\ prot' = np
    /\ gone' = gone \cup bad
    /\ walk' = IF walk = Asleep THEN walk ELSE [walk EXCEPT !.gone = @ \cup bad]
    /\ th' = [t \in Threads |-> IF moved[t].pc \in {"read", "record", "scan"}
                                THEN [moved[t] EXCEPT !.gone = @ \cup bad] ELSE moved[t]]

\* The pages ps change under thread t (or the game): the guarded writes that
\* are under way on one of them, from query to restore, are interfered with.
Disturbed(t, ps) ==
    UNION { IF /\ u # t /\ th[u].pc \in {"protect", "copy", "restore"}
               /\ PagesOf(th[u].addr, th[u].len) \cap ps # {}
            THEN PagesOf(th[u].addr, th[u].len) ELSE {} : u \in Threads }

Taint(t, ps) == tainted' = tainted \cup Disturbed(t, ps)

Lose(cs) == lost' = lost \cup cs
Odd(o)   == odd' = odd \cup o
Goto(t, pc) == [th EXCEPT ![t].pc = pc]
-----------------------------------------------------------------------------
(***************************************************************************)
(* A world with any of the given protections and any bytes, and a cache    *)
(* captured from it.                                                       *)
(***************************************************************************)
\* RegionMap::capture in one piece: the readable runs of equal protection.
Captured(pr) ==
    { r \in Pages \X Pages :
        /\ r[1] <= r[2] /\ is_readable(pr[r[1]])
        /\ \A q \in r[1] .. r[2] : pr[q] = pr[r[1]]
        /\ r[1] = 0 \/ pr[r[1] - 1] # pr[r[1]]
        /\ r[2] = NPages - 1 \/ pr[r[2] + 1] # pr[r[1]] }

Init ==
    /\ prot \in InitProts
    /\ mem = [c \in Cells |-> Zero]
    /\ cache = { r \in Captured(prot) :
                   Cardinality({ q \in Captured(prot) : q[1] < r[1] }) < MaxRegions }
    /\ walk = Asleep
    /\ journal = [a \in Cells |-> Absent]
    /\ todo = [a \in Cells |-> Absent]
    /\ phase = "running"
    /\ th = [t \in Threads |-> Idle]
    /\ crash = "no"
    /\ ops = 0 /\ game = 0
    /\ gone = {}
    /\ home = prot
    /\ tainted = {}
    /\ lost = {}
    /\ odd = IF \E p \in Pages : prot[p] = "x" THEN {"protection"} ELSE {}
-----------------------------------------------------------------------------
\* ---- the script's host calls

\* Some entry, of the journal or still to be reverted, shares a cell with the
\* range and is not the entry of exactly that range.
Overlaps(a, w) ==
    \E b \in Cells : \E j \in {journal[b], todo[b]} :
        /\ DOMAIN j \cap Span(a, w) # {}
        /\ DOMAIN j # Span(a, w)

\* The script calls a host function, whose first step is at pc.
Call(op, pc, a, w, regs, strange) ==
    /\ crash = "no"
    /\ th["script"].pc = "idle" /\ ops < MaxOps
    /\ th' = [th EXCEPT !["script"] =
                 [Idle EXCEPT !.pc = pc, !.op = op, !.addr = a, !.len = w, !.regs = regs,
                              !.gone = IF op = "scan" THEN gone ELSE {}]]
    /\ ops' = ops + 1
    /\ Odd(strange \cup (IF phase = "reverting" THEN {"window"} ELSE {}))
    /\ UNCHANGED <<memvars, cachevars, journal, todo, phase, crash, game, gone, lost>>

\* Typed reads, bytes and strings (a string is read byte by byte).
host_read(a, w) == Call("read", "validate", a, w, {}, {})

\* host_scan begins with a copy of the cached regions.
host_scan == Call("scan", "scan", 0, 1, cache, {})

\* host_write journals and writes; host_write_if reads and compares first.
Overlap(a, w) == IF Overlaps(a, w) THEN {"overlap"} ELSE {}
host_write(a, w)    == Call("write", "touch", a, w, {}, Overlap(a, w))
host_write_if(a, w) == Call("write_if", "validate", a, w, {}, Overlap(a, w))

\* host_write_permanent writes and does not journal.
host_write_permanent(a, w) == Call("permanent", "query", a, w, {}, {"permanent"})

\* cache::validate_read: a hit in the cache is believed, a miss asks the
\* system.  Returns the pages the reader has reason to fear.
validate_read(a, w) == in_region(a, w) \/ live_readable(a, w)
Fear(a, w) == IF in_region(a, w) THEN gone ELSE {}

\* The validation of backend_read and read_bytes, for host_read and for the
\* comparison of host_write_if; a range that is not readable is an error.
ValidateRead ==
    LET s == th["script"] IN
    /\ crash = "no"
    /\ s.pc = "validate"
    /\ th' = IF validate_read(s.addr, s.len)
             THEN [th EXCEPT !["script"].pc = "read",
                             !["script"].gone = Fear(s.addr, s.len)]
             ELSE [th EXCEPT !["script"] = Idle]
    /\ UNCHANGED <<memvars, cachevars, journal, todo, phase, crash, ops, game, gone, lost, odd>>

\* An unhandled access violation ends the process.
Crash(kind) ==
    /\ crash' = kind
    /\ UNCHANGED <<memvars, cachevars, journal, todo, phase, th, ops, game, gone, lost, odd>>

ReadFault(t, a, w) ==
    LET bad == Faulting(a, w, Accessible) IN
    /\ bad # {}
    /\ Crash(IF bad \subseteq th[t].gone THEN "stale read" ELSE "read")

\* The copy of a validated read.  host_write_if goes on to its write when the
\* bytes are the expected ones, and both outcomes are inputs of the script.
CopyRead ==
    LET s == th["script"] IN
    /\ crash = "no"
    /\ s.pc = "read"
    /\ \/ ReadFault("script", s.addr, s.len)
       \/ /\ Faulting(s.addr, s.len, Accessible) = {}
          /\ \/ th' = [th EXCEPT !["script"] = Idle]
             \/ s.op = "write_if" /\ th' = [Goto("script", "touch") EXCEPT !["script"].gone = {}]
          /\ UNCHANGED <<memvars, cachevars, journal, todo, phase, crash, ops, game, gone, lost, odd>>

\* aob_scan: every region of the snapshot is read as a slice, in order and
\* with no further validation.
ScanRegion ==
    LET s == th["script"] IN
    /\ crash = "no"
    /\ s.pc = "scan"
    /\ IF s.regs = {}
       THEN /\ th' = [th EXCEPT !["script"] = Idle]
            /\ UNCHANGED <<memvars, cachevars, journal, todo, phase, crash, ops, game, gone, lost, odd>>
       ELSE LET r == CHOOSE r \in s.regs : \A q \in s.regs : r[1] <= q[1]
                a == r[1] * CellsPerPage
                w == (r[2] - r[1] + 1) * CellsPerPage
            IN  \/ ReadFault("script", a, w)
                \/ /\ Faulting(a, w, Accessible) = {}
                   /\ th' = [th EXCEPT !["script"].regs = @ \ {r}]
                   /\ UNCHANGED <<memvars, cachevars, journal, todo, phase, crash, ops, game, gone, lost, odd>>

\* Mutant: a later touch of an address replaces the bytes it recorded.
TouchValidate_Last ==
    LET s == th["script"] IN
    /\ crash = "no"
    /\ s.pc = "touch"
    /\ th' = IF validate_read(s.addr, s.len)
             THEN [th EXCEPT !["script"].pc = "record",
                             !["script"].gone = Fear(s.addr, s.len)]
             ELSE Goto("script", "query")
    /\ UNCHANGED <<memvars, cachevars, journal, todo, phase, crash, ops, game, gone, lost, odd>>

\* WriteJournal::touch up to its read: an address that has an entry keeps it,
\* and a range that cannot be read is not recorded.  Neither stops the write.
TouchValidate ==
    LET s == th["script"]
        read == journal[s.addr] = Absent /\ validate_read(s.addr, s.len) IN
    /\ crash = "no"
    /\ s.pc = "touch"
    /\ th' = IF read
             THEN [th EXCEPT !["script"].pc = "record",
                             !["script"].gone = Fear(s.addr, s.len)]
             ELSE Goto("script", "query")
    /\ UNCHANGED <<memvars, cachevars, journal, todo, phase, crash, ops, game, gone, lost, odd>>

\* Mutant: the buffer is recorded before it is filled.
TouchRecord_Blank ==
    LET s == th["script"] IN
    /\ crash = "no"
    /\ s.pc = "record"
    /\ Faulting(s.addr, s.len, Accessible) = {}
    /\ journal' = [journal EXCEPT ![s.addr] = [c \in Span(s.addr, s.len) |-> Zero]]
    /\ Lose(Span(s.addr, s.len) \cap (Covered(journal) \cup Covered(todo)))
    /\ th' = [Goto("script", "query") EXCEPT !["script"].gone = {}]
    /\ UNCHANGED <<memvars, cachevars, todo, phase, crash, ops, game, gone, odd>>

\* The read of touch and the insertion of its entry.  A cell that another
\* entry covers now has two originals.
TouchRecord ==
    LET s == th["script"] IN
    /\ crash = "no"
    /\ s.pc = "record"
    /\ \/ ReadFault("script", s.addr, s.len)
       \/ /\ Faulting(s.addr, s.len, Accessible) = {}
          /\ journal' = [journal EXCEPT ![s.addr] = [c \in Span(s.addr, s.len) |-> mem[c]]]
          /\ Lose(Span(s.addr, s.len) \cap (Covered(journal) \cup Covered(todo)))
          /\ th' = [Goto("script", "query") EXCEPT !["script"].gone = {}]
          /\ UNCHANGED <<memvars, cachevars, todo, phase, crash, ops, game, gone, odd>>
-----------------------------------------------------------------------------
\* ---- guarded_write, for the script and for the revert

\* The write is over.  A revert that failed is logged and its entry is gone.
Failed(t) ==
    IF t = "revert"
    THEN /\ todo' = [todo EXCEPT ![th[t].addr] = Absent]
         /\ Lose(DOMAIN todo[th[t].addr])
    ELSE UNCHANGED <<todo, lost>>

\* VirtualQuery and can_write.
WriteQuery(t) ==
    /\ crash = "no"
    /\ th[t].pc = "query"
    /\ \/ /\ can_write(th[t].addr, th[t].len)
          /\ th' = Goto(t, "protect")
          /\ UNCHANGED <<todo, lost>>
       \/ /\ ~can_write(th[t].addr, th[t].len)
          /\ th' = [th EXCEPT ![t] = Idle]
          /\ Failed(t)
    /\ UNCHANGED <<memvars, cachevars, journal, phase, crash, ops, game, gone, odd>>

\* Mutant: only the first page of the range is made writable.
WriteProtect_First(t) ==
    LET p == Page(th[t].addr) IN
    /\ crash = "no"
    /\ th[t].pc = "protect" /\ prot[p] # "free"
    /\ Reprotect([prot EXCEPT ![p] = "rwx"], [th EXCEPT ![t].pc = "copy", ![t].old = prot[p]])
    /\ Taint(t, {p})
    /\ UNCHANGED <<mem, home, cache, todo, lost, journal, phase, crash, ops, game, odd>>

\* VirtualProtect over the pages of the range.  It fails when one of them is
\* not committed, and reports the old protection of the first.
WriteProtect(t) ==
    LET ps == PagesOf(th[t].addr, th[t].len) IN
    /\ crash = "no"
    /\ th[t].pc = "protect"
    /\ \/ /\ \E p \in ps : prot[p] = "free"
          /\ th' = [th EXCEPT ![t] = Idle]
          /\ Failed(t)
          /\ UNCHANGED <<memvars, cachevars, gone>>
       \/ /\ \A p \in ps : prot[p] # "free"
          /\ Reprotect([p \in Pages |-> IF p \in ps THEN "rwx" ELSE prot[p]],
                       [th EXCEPT ![t].pc = "copy", ![t].old = prot[Page(th[t].addr)]])
          /\ Taint(t, ps)
          /\ UNCHANGED <<mem, home, cache, todo, lost>>
    /\ UNCHANGED <<journal, phase, crash, ops, game, odd>>

\* The bytes a thread writes, and the memory once they are written.
Bytes(t) == IF t = "revert" THEN todo[th[t].addr]
                            ELSE [c \in Span(th[t].addr, th[t].len) |-> Script]
Written(bytes) == [c \in Cells |-> IF c \in DOMAIN bytes THEN bytes[c] ELSE mem[c]]

\* Mutant: a revert writes one cell fewer than was recorded.
WriteCopy_Short(t) ==
    LET bad == Faulting(th[t].addr, th[t].len, Writable) IN
    /\ crash = "no"
    /\ th[t].pc = "copy"
    /\ bad = {}
    /\ mem' = Written(IF t = "revert"
                      THEN [c \in DOMAIN Bytes(t) \ {th[t].addr + th[t].len - 1} |-> Bytes(t)[c]]
                      ELSE Bytes(t))
    /\ th' = Goto(t, "restore")
    /\ IF t = "revert"
       THEN todo' = [todo EXCEPT ![th[t].addr] = Absent] /\ UNCHANGED lost
       ELSE Lose(DOMAIN Bytes(t) \ (Covered(journal) \cup Covered(todo))) /\ UNCHANGED todo
    /\ UNCHANGED <<prot, home, tainted, cachevars, journal, phase, crash, ops, game, gone, odd>>

\* copy_nonoverlapping.  A revert's entry is done with; a script's write to a
\* cell of which no entry holds the original cannot be undone.
WriteCopy(t) ==
    LET bad == Faulting(th[t].addr, th[t].len, Writable) IN
    /\ crash = "no"
    /\ th[t].pc = "copy"
    /\ \/ bad # {} /\ Crash(IF bad \subseteq tainted THEN "raced write" ELSE "write")
       \/ /\ bad = {}
          /\ mem' = Written(Bytes(t))
          /\ th' = Goto(t, "restore")
          /\ IF t = "revert"
             THEN todo' = [todo EXCEPT ![th[t].addr] = Absent] /\ UNCHANGED lost
             ELSE Lose(DOMAIN Bytes(t) \ (Covered(journal) \cup Covered(todo))) /\ UNCHANGED todo
          /\ UNCHANGED <<prot, home, tainted, cachevars, journal, phase, crash, ops, game, gone, odd>>

\* The second VirtualProtect: the saved protection goes on every page of the
\* range; a failure is ignored.
WriteRestore(t) ==
    LET ps == PagesOf(th[t].addr, th[t].len) IN
    /\ crash = "no"
    /\ th[t].pc = "restore"
    /\ IF \E p \in ps : prot[p] = "free"
       THEN /\ th' = [th EXCEPT ![t] = Idle]
            /\ UNCHANGED <<memvars, cachevars, gone>>
       ELSE /\ Reprotect([p \in Pages |-> IF p \in ps THEN th[t].old ELSE prot[p]],
                         [th EXCEPT ![t] = Idle])
            /\ Taint(t, ps)
            /\ UNCHANGED <<mem, home, cache>>
    /\ UNCHANGED <<journal, todo, phase, crash, ops, game, lost, odd>>
-----------------------------------------------------------------------------
\* ---- the orchestrator

\* Step 1 of registry_reload: take_entries under REGISTRY, which a handler
\* holds while it runs.
TakeEntries ==
    /\ crash = "no"
    /\ phase = "running" /\ th["script"].pc = "idle"
    /\ todo' = journal
    /\ journal' = [a \in Cells |-> Absent]
    /\ phase' = "reverting"
    /\ UNCHANGED <<memvars, cachevars, th, crash, ops, game, gone, lost, odd>>

\* Step 2, one entry in the order of a hash map.
RevertEntry(a) ==
    /\ crash = "no"
    /\ phase = "reverting" /\ th["revert"].pc = "idle"
    /\ todo[a] # Absent
    /\ th' = [th EXCEPT !["revert"] =
                 [Idle EXCEPT !.pc = "query", !.op = "revert", !.addr = a,
                              !.len = Cardinality(DOMAIN todo[a])]]
    /\ UNCHANGED <<memvars, cachevars, journal, todo, phase, crash, ops, game, gone, lost, odd>>

\* Steps 4 and 5: the runtime is dropped with whatever a handler journaled
\* since step 1, and its successor starts with an empty journal.
DropRuntime ==
    /\ crash = "no"
    /\ phase = "reverting" /\ th["revert"].pc = "idle" /\ th["script"].pc = "idle"
    /\ \A a \in Cells : todo[a] = Absent
    /\ Lose(Covered(journal))
    /\ journal' = [a \in Cells |-> Absent]
    /\ phase' = "running"
    /\ UNCHANGED <<memvars, cachevars, todo, th, crash, ops, game, gone, odd>>
-----------------------------------------------------------------------------
\* ---- the refresher

\* A capture begins, half a second after the last one ended.
WalkStart ==
    /\ crash = "no"
    /\ walk = Asleep
    /\ walk' = [at |-> 0, found |-> {}, gone |-> {}]
    /\ UNCHANGED <<memvars, cache, journal, todo, phase, th, crash, ops, game, gone, lost, odd>>

\* Mutant: the walk steps one page too far behind a region.
WalkQuery_Far ==
    LET r == VirtualQuery(walk.at)
        found == IF is_readable(prot[walk.at]) THEN walk.found \cup {r} ELSE walk.found IN
    /\ crash = "no"
    /\ walk.at \in Pages
    /\ walk' = [walk EXCEPT !.found = found, !.at = r[2] + 2]
    /\ UNCHANGED <<memvars, cache, journal, todo, phase, th, crash, ops, game, gone, lost, odd>>

\* One VirtualQuery of RegionMap::capture; the walk goes on behind the region
\* and ends at the end of the space or at max_regions.
WalkQuery ==
    LET r == VirtualQuery(walk.at)
        found == IF is_readable(prot[walk.at]) THEN walk.found \cup {r} ELSE walk.found IN
    /\ crash = "no"
    /\ walk.at \in Pages
    /\ walk' = [walk EXCEPT !.found = found,
                            !.at = IF Cardinality(found) >= MaxRegions THEN NPages ELSE r[2] + 1]
    /\ UNCHANGED <<memvars, cache, journal, todo, phase, th, crash, ops, game, gone, lost, odd>>

\* *g = fresh.
WalkPublish ==
    /\ crash = "no"
    /\ walk.at = NPages
    /\ cache' = walk.found
    /\ gone' = walk.gone
    /\ walk' = Asleep
    /\ UNCHANGED <<memvars, journal, todo, phase, th, crash, ops, game, lost, odd>>
-----------------------------------------------------------------------------
\* ---- the game

\* The game writes a cell of its own.
GameWrite(c, v) ==
    /\ crash = "no"
    /\ game < MaxGame /\ prot[Page(c)] \in Writable
    /\ mem' = [mem EXCEPT ![c] = v]
    /\ game' = game + 1
    /\ UNCHANGED <<prot, home, tainted, cachevars, journal, todo, phase, th, crash, ops, gone, lost, odd>>

\* The game frees, commits or reprotects a page.  A fresh page is zero.
GameProtect(p, new) ==
    /\ crash = "no"
    /\ game < MaxGame /\ new # prot[p]
    /\ Reprotect([prot EXCEPT ![p] = new], th)
    /\ mem' = [c \in Cells |-> IF prot[p] = "free" /\ Page(c) = p THEN Zero ELSE mem[c]]
    /\ home' = [home EXCEPT ![p] = new]
    /\ tainted' = (tainted \ {p}) \cup Disturbed("game", {p})
    /\ game' = game + 1
    /\ Odd({"protection"})
    /\ UNCHANGED <<cache, journal, todo, phase, crash, ops, lost>>
-----------------------------------------------------------------------------
Next ==
    \/ \E a \in Cells, w \in Widths :
        host_read(a, w) \/ host_write(a, w) \/ host_write_if(a, w) \/ host_write_permanent(a, w)
    \/ host_scan
    \/ ValidateRead \/ CopyRead \/ ScanRegion \/ TouchValidate \/ TouchRecord
    \/ \E t \in Threads : WriteQuery(t) \/ WriteProtect(t) \/ WriteCopy(t) \/ WriteRestore(t)
    \/ TakeEntries \/ DropRuntime
    \/ \E a \in Cells : RevertEntry(a)
    \/ WalkStart \/ WalkQuery \/ WalkPublish
    \/ \E c \in Cells, v \in GameValues : GameWrite(c, v)
    \/ \E p \in Pages, new \in Prots : GameProtect(p, new)

Spec == Init /\ [][Next]_vars
-----------------------------------------------------------------------------
(***************************************************************************)
(* Properties                                                              *)
(***************************************************************************)

Regions == Pages \X Pages

PCs == {"idle", "validate", "read", "scan", "touch", "record",
        "query", "protect", "copy", "restore"}

\* What a thread is doing, and the entries that may stand under an address.
ThreadStates ==
    [pc : PCs, op : Ops, addr : Cells, len : Nat \ {0}, old : Prots,
     gone : SUBSET Pages, regs : SUBSET Regions]
EntriesAt(a) ==
    {Absent} \cup UNION { [Span(a, w) -> Values] : w \in { v \in Widths : Span(a, v) \subseteq Cells } }

\* The state has its types.
TypeOK ==
    /\ prot \in [Pages -> Prots] /\ home \in [Pages -> Prots]
    /\ mem \in [Cells -> Values]
    /\ cache \in SUBSET Regions
    /\ walk \in [at : -1 .. NPages, found : SUBSET Regions, gone : SUBSET Pages]
    /\ DOMAIN journal = Cells /\ DOMAIN todo = Cells
    /\ \A a \in Cells : journal[a] \in EntriesAt(a) /\ todo[a] \in EntriesAt(a)
    /\ phase \in {"running", "reverting"}
    /\ th \in [Threads -> ThreadStates]
    /\ crash \in {"no", "stale read", "read", "raced write", "write"}
    /\ ops \in 0 .. MaxOps /\ game \in 0 .. MaxGame
    /\ gone \in SUBSET Pages /\ tainted \in SUBSET Pages
    /\ lost \in SUBSET Cells /\ odd \in SUBSET Oddities

\* A read that faults was validated by a cache older than the page's death: a
\* page that was inaccessible before the last capture began, and a range that
\* only a live query vouched for, never crash the game (cache.rs, region_map.rs).
ReadFaultsOnlyStale == crash # "read"

\* "It never faults" (write.rs): a guarded write faults only when some other
\* thread changed the protection of its page between its query and its copy.
LoneWriteNeverFaults == crash # "write"

\* A guarded write gives back the protections it found, on every page of its
\* range, unless another thread changed one of them meanwhile.
ProtectionRestored ==
    \A p \in Pages :
        \/ p \in tainted
        \/ prot[p] = home[p]
        \/ \E t \in Threads : th[t].pc \in {"copy", "restore"} /\ p \in PagesOf(th[t].addr, th[t].len)

\* The cells a revert puts back and what it puts there: those of exactly one
\* entry, of the journal or of the entries being reverted.
savedBar ==
    LET held == { journal[a] : a \in Cells } \cup { todo[a] : a \in Cells } IN
    [c \in (Covered(journal) \cup Covered(todo)) \ lost |-> (CHOOSE e \in held : c \in DOMAIN e)[c]]

Abs == INSTANCE RevertibleMemory WITH saved <- savedBar

\* The journal, the guarded write and the revert implement the revertible
\* memory: cells that are not lost are put back to their first-touch bytes,
\* and a cell becomes lost only in the steps that specification names.
ImplementsRevertibleMemory == Abs!Spec

\* Every script byte in the game's memory has its original in the journal or
\* among the entries being reverted, or the cell is known to be lost; and no
\* original that would be put back is a script's byte (journal.rs).
ScriptBytesAccounted == Abs!Accounted

\* Plain use loses nothing: without permanent writes, overlapping ranges,
\* changing protections and handlers inside the revert, no original that the
\* journal keeps is a script's own byte, and once a reload has put back every
\* entry no script byte is left in the game's memory (orchestrator step 2).
PlainUseFullyReverted ==
    odd = {} =>
        /\ \A a \in Cells : \A j \in {journal[a], todo[a]} : \A c \in DOMAIN j : j[c] # Script
        /\ phase = "reverting" /\ (\A a \in Cells : todo[a] = Absent)
             => \A c \in Cells : mem[c] # Script
=============================================================================
