-------------------------- MODULE MemAccessProofs --------------------------
(***************************************************************************)
(* Proofs about MemAccess: its types, the faults of validated reads and of *)
(* guarded writes, and the protections a guarded write gives back.         *)
(***************************************************************************)
EXTENDS MemAccess, FiniteSetTheorems, WellFoundedInduction, TLAPS

\* The pages thread t is reading or writing.
Mine(t) == PagesOf(th[t].addr, th[t].len)

\* The order in which the threads go through their steps: the revert only
\* writes, and only between step 1 and step 4 of a reload; it holds the entry
\* of the range it writes; a recording script has no entry at its address; a
\* write that can_write let through is inside the space.
Flow ==
    /\ th["revert"].pc \in {"idle", "query", "protect", "copy", "restore"}
    /\ phase = "running" => th["revert"].pc = "idle" /\ \A a \in Cells : todo[a] = Absent
    /\ th["revert"].pc \in {"query", "protect", "copy"} =>
         DOMAIN todo[th["revert"].addr] = Span(th["revert"].addr, th["revert"].len)
    /\ th["script"].pc = "record" => journal[th["script"].addr] = Absent
    /\ \A t \in Threads :
        /\ th[t].pc \notin {"idle", "scan"} => th[t].len \in Widths
        /\ th[t].pc \in {"protect", "copy", "restore"} => Mine(t) \subseteq Pages

\* Every page of the regions rs can be read, or went bad and is in g.
Sound(rs, g) == \A r \in rs : \A p \in r[1] .. r[2] : prot[p] \in Accessible \/ p \in g

\* What a reader relies on: the cache, the capture in progress and the
\* snapshot of a scan are sound up to the pages that went bad since, and so is
\* the range of a validated read.
ReadInv ==
    /\ Sound(cache, gone)
    /\ Sound(walk.found, walk.gone)
    /\ \A t \in Threads :
        /\ th[t].pc = "scan" => Sound(th[t].regs, th[t].gone)
        /\ th[t].pc \in {"read", "record"} =>
             \A p \in Mine(t) : p \in Pages /\ (prot[p] \in Accessible \/ p \in th[t].gone)
    /\ crash # "read"

\* What a guarded write relies on: its range is committed memory of one
\* protection, then of the protection it gave it, and the one it will put
\* back is the game's, unless somebody interfered, in which case every page
\* of the range is tainted.
WriteInv ==
    /\ \A t \in Threads :
        /\ th[t].pc = "protect" =>
             \/ Mine(t) \subseteq tainted
             \/ \A p \in Mine(t) : prot[p] = prot[Page(th[t].addr)]
        /\ th[t].pc \in {"copy", "restore"} =>
             \/ Mine(t) \subseteq tainted
             \/ \A p \in Mine(t) : prot[p] = "rwx" /\ (p \in tainted \/ home[p] = th[t].old)
    /\ ProtectionRestored
    /\ crash # "write"
-----------------------------------------------------------------------------
\* ---- numbers and pages

\* A set of numbers has a least one.
LEMMA Least == ASSUME NEW S \in SUBSET Nat, S # {} PROVE \E m \in S : \A n \in S : m <= n
<1>1. IsWellFoundedOn(OpToRel(<, Nat), Nat)
  BY NatLessThanWellFounded, Zenon
<1>2. PICK m \in S : \A n \in S : ~(<<n, m>> \in OpToRel(<, Nat))
  BY <1>1, WFMin, Zenon
<1>3. ASSUME NEW n \in S, n < m PROVE <<n, m>> \in OpToRel(<, Nat)
  <2>1. \A x \in Nat, y \in Nat : x < y => <<x, y>> \in {ss \in Nat \X Nat : ss[1] < ss[2]}
    BY SMT
  <2> QED BY <2>1, <1>3, Zenon DEF OpToRel
<1>4. \A n \in S : ~(n < m)
  BY <1>2, <1>3, Zenon
<1> QED BY <1>4, SMT

\* Page is monotonic.
LEMMA PageMono ==
    ASSUME NEW c \in Int, NEW d \in Int, c <= d
    PROVE  Page(c) \in Int /\ Page(c) <= Page(d)
  BY SpaceAssumption, SMT DEF Page

\* A cell of the space lies on a page of the space, and conversely.
LEMMA CellsOfPages == ASSUME NEW c \in Int PROVE c \in Cells <=> Page(c) \in Pages
  BY SpaceAssumption, SMT DEF Page, Cells, Pages

\* The pages of a range lie between those of its ends, which are among them.
LEMMA PagesOfRange ==
    ASSUME NEW a \in Int, NEW w \in Nat \ {0}
    PROVE  /\ \A p \in PagesOf(a, w) : p \in Page(a) .. Page(a + w - 1)
           /\ Page(a) \in PagesOf(a, w) /\ Page(a + w - 1) \in PagesOf(a, w)
<1>1. \A c \in Span(a, w) : Page(c) \in Page(a) .. Page(a + w - 1)
  <2> SUFFICES ASSUME NEW c \in Span(a, w) PROVE Page(c) \in Page(a) .. Page(a + w - 1)
    OBVIOUS
  <2>1. c \in Int /\ a <= c /\ c <= a + w - 1 /\ a + w - 1 \in Int
    BY DEF Span
  <2> QED BY <2>1, PageMono
<1>2. a \in Span(a, w) /\ a + w - 1 \in Span(a, w)
  BY DEF Span
<1> QED BY <1>1, <1>2 DEF PagesOf

\* No page between the ends of a range is left out.
LEMMA PagesOfGapless ==
    ASSUME NEW a \in Int, NEW w \in Nat \ {0}, NEW p \in Page(a) .. Page(a + w - 1)
    PROVE  p \in PagesOf(a, w)
<1> DEFINE K == CellsPerPage
           c == IF p = Page(a) THEN a ELSE p * K
<1>1. K \in Nat \ {0}
  BY SpaceAssumption
<1>2. CASE p = Page(a)
  BY <1>2, PagesOfRange
<1>3. CASE p # Page(a)
  <2>1. p \in Int /\ Page(a) + 1 <= p /\ p <= Page(a + w - 1)
    BY <1>3, PageMono
  <2>2. a < K * (a \div K) + K /\ K * ((a + w - 1) \div K) <= a + w - 1
    BY <1>1, SMT
  <2>3. K * ((a \div K) + 1) <= K * p /\ K * p <= K * ((a + w - 1) \div K)
    BY <1>1, <2>1, SMT DEF Page
  <2>4. p * K \in Span(a, w)
    BY <1>1, <2>1, <2>2, <2>3, SMT DEF Span
  <2>5. (p * K) \div K = p
    BY <1>1, <2>1, SMT
  <2> QED BY <2>4, <2>5 DEF PagesOf, Page
<1> QED BY <1>2, <1>3

\* The range of a region has the region's pages (aob_scan).
LEMMA PagesOfRegion ==
    ASSUME NEW p \in Nat, NEW q \in Nat
    PROVE  \A x \in PagesOf(p * CellsPerPage, (q - p + 1) * CellsPerPage) : x \in p .. q
<1>1. \A c \in p * CellsPerPage .. p * CellsPerPage + (q - p + 1) * CellsPerPage - 1 :
        c \div CellsPerPage \in p .. q
  BY SpaceAssumption, SMT
<1> QED BY <1>1 DEF PagesOf, Span, Page
-----------------------------------------------------------------------------
\* ---- VirtualQuery

\* The region VirtualQuery reports exists, begins at the page asked about, has
\* one protection, and ends where the protection changes.
LEMMA VirtualQueryIsRun ==
    ASSUME NEW p \in Pages
    PROVE  LET r == VirtualQuery(p) IN
           /\ r \in Pages \X Pages
           /\ r[1] = p /\ p <= r[2]
           /\ \A q \in p .. r[2] : prot[q] = prot[p]
           /\ r[2] = NPages - 1 \/ prot[r[2] + 1] # prot[p]
<1> DEFINE Ends == {q \in Pages : p <= q /\ (q = NPages - 1 \/ prot[q + 1] # prot[p])}
<1>1. NPages - 1 \in Ends
  BY SpaceAssumption DEF Pages
<1>2. Ends \in SUBSET Nat
  BY DEF Pages
<1>3. PICK m \in Ends : \A n \in Ends : m <= n
  BY <1>1, <1>2, Least
<1>4. \A q \in p .. m : prot[q] = prot[p]
  <2> SUFFICES ASSUME NEW q0 \in p .. m, prot[q0] # prot[p] PROVE FALSE
    OBVIOUS
  <2> DEFINE Diff == {q \in p .. m : prot[q] # prot[p]}
  <2>1. Diff \in SUBSET Nat /\ q0 \in Diff
    BY <1>2 DEF Pages
  <2>2. PICK d \in Diff : \A n \in Diff : d <= n
    BY <2>1, Least
  <2>3. d # p /\ d \in p .. m /\ prot[d] # prot[p]
    BY <2>2
  <2>4. d - 1 \in Pages /\ p <= d - 1 /\ d - 1 < m
    BY SpaceAssumption, <2>3, <1>2 DEF Pages
  <2>5. (d - 1) + 1 = d
    BY <2>3
  <2>6. d - 1 \in Ends
    BY <2>3, <2>4, <2>5
  <2> QED BY <2>4, <2>6, <1>3, <1>2
<1>5. <<p, m>> \in Pages \X Pages /\ <<p, m>>[1] = p /\ <<p, m>>[2] = m
  BY <1>3
<1>6. p <= m /\ (m = NPages - 1 \/ prot[m + 1] # prot[p])
  BY <1>3
<1>7. \E r \in Pages \X Pages :
        /\ r[1] = p /\ p <= r[2]
        /\ \A q \in p .. r[2] : prot[q] = prot[p]
        /\ r[2] = NPages - 1 \/ prot[r[2] + 1] # prot[p]
  <2> WITNESS <<p, m>> \in Pages \X Pages
  <2> QED BY <1>4, <1>5, <1>6
<1> QED BY <1>7 DEF VirtualQuery

\* A range lies in the region of its first page if and only if its pages are
\* pages of the space with the protection of the first.
LEMMA WithinMeans ==
    ASSUME NEW a \in Cells, NEW w \in Nat \ {0}
    PROVE  Within(a, w, VirtualQuery(Page(a)))
             <=> \A p \in PagesOf(a, w) : p \in Pages /\ prot[p] = prot[Page(a)]
<1> DEFINE r == VirtualQuery(Page(a))
           z == Page(a + w - 1)
<1>1. a \in Int /\ a + w - 1 \in Int /\ a <= a + w - 1 /\ Page(a) \in Pages
  BY CellsOfPages DEF Cells
<1>2. /\ r[1] \in Pages /\ r[2] \in Pages
      /\ r[1] = Page(a) /\ Page(a) <= r[2]
      /\ \A q \in Page(a) .. r[2] : prot[q] = prot[Page(a)]
      /\ r[2] = NPages - 1 \/ prot[r[2] + 1] # prot[Page(a)]
  BY <1>1, VirtualQueryIsRun
<1>3. z \in Int /\ Page(a) \in Int /\ Page(a) <= z
  BY <1>1, PageMono
<1>4. Within(a, w, r) <=> z <= r[2]
  BY <1>2, <1>3 DEF Within, Pages
<1>5. ASSUME z <= r[2], NEW p \in PagesOf(a, w) PROVE p \in Pages /\ prot[p] = prot[Page(a)]
  <2>1. p \in Page(a) .. z
    BY <1>1, PagesOfRange
  <2> QED BY SpaceAssumption, <2>1, <1>5, <1>2, <1>3 DEF Pages
<1>6. ASSUME ~(z <= r[2]), \A p \in PagesOf(a, w) : p \in Pages /\ prot[p] = prot[Page(a)]
      PROVE  FALSE
  <2>1. r[2] + 1 \in Page(a) .. z
    BY <1>6, <1>2, <1>3 DEF Pages
  <2>2. r[2] + 1 \in PagesOf(a, w)
    BY <2>1, <1>1, PagesOfGapless
  <2> QED BY <2>2, <1>6, <1>2 DEF Pages
<1> HIDE DEF r, z
<1>7. Within(a, w, r) <=> \A p \in PagesOf(a, w) : p \in Pages /\ prot[p] = prot[Page(a)]
  BY <1>4, <1>5, <1>6
<1> QED BY <1>7 DEF r

\* A range of which no page faults lies inside the space.
LEMMA InCells ==
    ASSUME NEW a \in Cells, NEW w \in Widths, NEW ok, Faulting(a, w, ok) = {}
    PROVE  /\ Span(a, w) \subseteq Cells
           /\ \A p \in PagesOf(a, w) : p \in Pages /\ prot[p] \in ok
<1>1. \A p \in PagesOf(a, w) : p \in Pages /\ prot[p] \in ok
  BY DEF Faulting
<1>2. ASSUME NEW c \in Span(a, w) PROVE c \in Cells
  <2>1. c \in Int
    BY SpaceAssumption DEF Span, Cells
  <2>2. Page(c) \in Pages
    BY <1>1, <1>2 DEF PagesOf
  <2> QED BY <2>1, <2>2, CellsOfPages
<1> QED BY <1>1, <1>2
-----------------------------------------------------------------------------
\* ---- types

TypeInv == TypeOK /\ Flow

\* The thread record of a thread at rest is one.
LEMMA IdleType == Idle \in ThreadStates /\ 0 \in Cells
<1>1. NPages * CellsPerPage \in Nat \ {0}
  BY SpaceAssumption, SMT
<1>2. 0 \in Cells
  BY <1>1 DEF Cells
<1> QED BY <1>2 DEF Idle, ThreadStates, PCs, Ops, Prots

\* The widths of ValType are positive.
LEMMA WidthType == \A w \in Widths : w \in Nat \ {0}
  BY SpaceAssumption

\* Every address may have no entry.
LEMMA AbsentEntry == \A a : Absent \in EntriesAt(a)
  BY Zenon DEF EntriesAt

\* An entry that is not absent covers a range of one of the widths.
LEMMA EntryShape ==
    ASSUME NEW a \in Cells, NEW e \in EntriesAt(a)
    PROVE  \/ e = Absent /\ DOMAIN e = {}
           \/ \E w \in Widths : /\ e \in [Span(a, w) -> Values] /\ DOMAIN e = Span(a, w)
                                /\ Span(a, w) \subseteq Cells
<1>1. e = Absent \/ \E w \in Widths : Span(a, w) \subseteq Cells /\ e \in [Span(a, w) -> Values]
  BY Zenon DEF EntriesAt
<1>2. DOMAIN Absent = {}
  BY DEF Absent
<1> QED BY <1>1, <1>2

\* What Reprotect does to the threads and to the history variables.
LEMMA ReprotectTypes ==
    ASSUME TypeOK, NEW np \in [Pages -> Prots], NEW moved \in [Threads -> ThreadStates],
           Reprotect(np, moved)
    PROVE  /\ prot' = np /\ gone' \in SUBSET Pages
           /\ walk' \in [at : -1 .. NPages, found : SUBSET Regions, gone : SUBSET Pages]
           /\ th' \in [Threads -> ThreadStates]
           /\ \A t \in Threads :
                /\ th'[t].pc = moved[t].pc /\ th'[t].addr = moved[t].addr
                /\ th'[t].len = moved[t].len /\ th'[t].old = moved[t].old
                /\ th'[t].regs = moved[t].regs /\ th'[t].op = moved[t].op
<1> DEFINE bad == { p \in Pages : prot[p] \in Accessible /\ np[p] \notin Accessible }
<1>1. /\ prot' = np /\ gone' = gone \cup bad
      /\ walk' = IF walk = Asleep THEN walk ELSE [walk EXCEPT !.gone = @ \cup bad]
      /\ th' = [t \in Threads |-> IF moved[t].pc \in {"read", "record", "scan"}
                                  THEN [moved[t] EXCEPT !.gone = @ \cup bad] ELSE moved[t]]
  BY DEF Reprotect
<1>2. bad \in SUBSET Pages
  OBVIOUS
<1> HIDE DEF bad
<1>3. gone' \in SUBSET Pages
  BY <1>1, <1>2 DEF TypeOK
<1>4. walk' \in [at : -1 .. NPages, found : SUBSET Regions, gone : SUBSET Pages]
  BY <1>1, <1>2 DEF TypeOK
<1>5. ASSUME NEW t \in Threads
      PROVE  /\ th'[t] \in ThreadStates
             /\ th'[t].pc = moved[t].pc /\ th'[t].addr = moved[t].addr
             /\ th'[t].len = moved[t].len /\ th'[t].old = moved[t].old
             /\ th'[t].regs = moved[t].regs /\ th'[t].op = moved[t].op
  <2>1. moved[t] \in ThreadStates
    OBVIOUS
  <2> QED BY <1>1, <1>2, <2>1 DEF ThreadStates
<1> QED BY <1>1, <1>3, <1>4, <1>5

\* The initial states have their types (init_registry, the first capture).
LEMMA InitTypes == Init => TypeInv
<1> SUFFICES ASSUME Init PROVE TypeInv
  OBVIOUS
<1>1. prot \in [Pages -> Prots]
  BY InitProtsAssumption DEF Init
<1>2. cache \in SUBSET Regions
  BY DEF Init, Captured, Regions
<1>3. th \in [Threads -> ThreadStates] /\ \A t \in Threads : th[t].pc = "idle"
  BY IdleType DEF Init, Idle
<1>4. walk \in [at : -1 .. NPages, found : SUBSET Regions, gone : SUBSET Pages]
  BY SpaceAssumption DEF Init, Asleep
<1>5. \A a \in Cells : journal[a] \in EntriesAt(a) /\ todo[a] \in EntriesAt(a)
  <2>1. \A a : Absent \in EntriesAt(a)
    BY AbsentEntry
  <2> QED BY <2>1 DEF Init
<1>6. TypeOK
  BY <1>1, <1>2, <1>3, <1>4, <1>5, SpaceAssumption DEF Init, TypeOK, Values, Oddities
<1>7. Flow
  BY <1>3 DEF Init, Flow, Threads
<1> QED BY <1>6, <1>7 DEF TypeInv

\* A host call starts the script's next operation.
LEMMA CallTypes ==
    ASSUME TypeInv, NEW op \in Ops, NEW pc \in PCs, NEW a \in Cells, NEW w \in Nat \ {0},
           NEW regs \in SUBSET Regions, NEW strange \in SUBSET Oddities,
           pc \notin {"record", "protect", "copy", "restore"}, pc # "scan" => w \in Widths,
           Call(op, pc, a, w, regs, strange)
    PROVE  TypeInv'
<1> DEFINE new == [Idle EXCEPT !.pc = pc, !.op = op, !.addr = a, !.len = w, !.regs = regs,
                               !.gone = IF op = "scan" THEN gone ELSE {}]
<1>1. new \in ThreadStates /\ new.pc = pc /\ new.len = w
  BY IdleType DEF TypeInv, TypeOK, ThreadStates, Idle
<1>2. th' = [th EXCEPT !["script"] = new]
  BY DEF Call
<1> HIDE DEF new
<1>3. /\ th' \in [Threads -> ThreadStates] /\ th'["revert"] = th["revert"]
      /\ th'["script"] = new
  BY <1>1, <1>2 DEF TypeInv, TypeOK, Threads
<1>4. ops' \in 0 .. MaxOps
  BY SpaceAssumption DEF Call, TypeInv, TypeOK
<1>5. odd' \in SUBSET Oddities
  BY DEF Call, Odd, TypeInv, TypeOK, Oddities
<1>6. TypeOK'
  BY <1>3, <1>4, <1>5 DEF TypeInv, TypeOK, Call, memvars, cachevars
<1>7. Flow'
  BY <1>1, <1>3 DEF TypeInv, Flow, Call, Threads, Mine
<1> QED BY <1>6, <1>7 DEF TypeInv

\* The calls of the host functions are such calls.
LEMMA HostCallsTypes ==
    ASSUME TypeInv, NEW a \in Cells, NEW w \in Widths,
           \/ host_read(a, w) \/ host_write(a, w) \/ host_write_if(a, w)
           \/ host_write_permanent(a, w)
    PROVE  TypeInv'
<1> USE WidthType
<1>1. w \in Nat \ {0} /\ cache \in SUBSET Regions /\ {} \in SUBSET Regions
  BY DEF TypeInv, TypeOK
<1>2. Overlap(a, w) \in SUBSET Oddities /\ {} \in SUBSET Oddities /\ {"permanent"} \in SUBSET Oddities
  BY DEF Overlap, Oddities
<1>3. CASE host_read(a, w)
  BY <1>1, <1>2, <1>3, CallTypes DEF host_read, Ops, PCs
<1>4. CASE host_write(a, w)
  BY <1>1, <1>2, <1>4, CallTypes DEF host_write, Ops, PCs
<1>5. CASE host_write_if(a, w)
  BY <1>1, <1>2, <1>5, CallTypes DEF host_write_if, Ops, PCs
<1>6. CASE host_write_permanent(a, w)
  BY <1>1, <1>2, <1>6, CallTypes DEF host_write_permanent, Ops, PCs
<1> QED BY <1>3, <1>4, <1>5, <1>6

\* So is the call of host_scan.
LEMMA ScanTypes == ASSUME TypeInv, host_scan PROVE TypeInv'
<1>1. cache \in SUBSET Regions
  BY DEF TypeInv, TypeOK
<1>2. {} \in SUBSET Oddities /\ 1 \in Nat \ {0}
  OBVIOUS
<1> QED BY <1>1, <1>2, IdleType, CallTypes DEF host_scan, Ops, PCs

\* Only the step of a thread changes, and the revert's does not.
LEMMA ScriptMoves ==
    ASSUME TypeInv, NEW s \in ThreadStates, th' = [th EXCEPT !["script"] = s],
           s.pc \notin {"idle", "scan"} => s.len \in Widths,
           s.pc = "record" => journal[s.addr] = Absent,
           s.pc \notin {"protect", "copy", "restore"},
           UNCHANGED <<memvars, cachevars, journal, todo, phase, crash, ops, game, gone, lost, odd>>
    PROVE  TypeInv'
<1>1. /\ th' \in [Threads -> ThreadStates] /\ th'["revert"] = th["revert"] /\ th'["script"] = s
  BY DEF TypeInv, TypeOK, Threads
<1>2. TypeOK'
  BY <1>1 DEF TypeInv, TypeOK, memvars, cachevars
<1>3. Flow'
  BY <1>1 DEF TypeInv, Flow, Threads, Mine
<1> QED BY <1>2, <1>3 DEF TypeInv

\* A crash changes nothing else.
LEMMA CrashTypes ==
    ASSUME TypeInv, NEW k \in {"stale read", "read", "raced write", "write"}, Crash(k)
    PROVE  TypeInv'
<1>1. TypeOK'
  BY DEF TypeInv, TypeOK, Crash, memvars, cachevars
<1>2. Flow'
  BY DEF TypeInv, Flow, Crash, Mine
<1> QED BY <1>1, <1>2 DEF TypeInv

\* A read that faults crashes.
LEMMA ReadFaultTypes ==
    ASSUME TypeInv, NEW t, NEW a, NEW w, ReadFault(t, a, w) PROVE TypeInv'
  BY CrashTypes DEF ReadFault

\* The steps of a read and of the touch that do not write the journal.
LEMMA ReadersTypes ==
    ASSUME TypeInv, ValidateRead \/ CopyRead \/ ScanRegion \/ TouchValidate
    PROVE  TypeInv'
<1> DEFINE s == th["script"]
<1>1. s \in ThreadStates /\ th = [th EXCEPT !["script"] = s] /\ gone \in SUBSET Pages
  BY DEF TypeInv, TypeOK, Threads
<1>2. s.pc \notin {"idle", "scan"} => s.len \in Widths
  BY DEF TypeInv, Flow, Threads, Mine
<1>3. Idle \in ThreadStates /\ Idle.pc = "idle"
  BY IdleType DEF Idle
<1>4. Fear(s.addr, s.len) \in SUBSET Pages
  BY <1>1 DEF Fear
<1>5. CASE ValidateRead
  <2>1. CASE validate_read(s.addr, s.len)
    <3> DEFINE n == [s EXCEPT !.pc = "read", !.gone = Fear(s.addr, s.len)]
    <3>1. n \in ThreadStates /\ n.pc = "read" /\ n.len = s.len
      BY <1>1, <1>4 DEF ThreadStates, PCs
    <3>2. th' = [th EXCEPT !["script"] = n]
      BY <1>5, <2>1 DEF ValidateRead, TypeInv, TypeOK, Threads
    <3> QED BY <3>1, <3>2, <1>2, <1>5, ScriptMoves DEF ValidateRead
  <2>2. CASE ~validate_read(s.addr, s.len)
    BY <2>2, <1>3, <1>5, ScriptMoves DEF ValidateRead
  <2> QED BY <2>1, <2>2
<1>6. CASE CopyRead
  <2>1. CASE ReadFault("script", s.addr, s.len)
    BY <2>1, ReadFaultTypes
  <2>2. CASE th' = [th EXCEPT !["script"] = Idle] /\ ~ReadFault("script", s.addr, s.len)
    BY <2>2, <1>3, <1>6, ScriptMoves DEF CopyRead
  <2>3. CASE th' = [Goto("script", "touch") EXCEPT !["script"].gone = {}]
             /\ ~ReadFault("script", s.addr, s.len)
    <3> DEFINE n == [s EXCEPT !.pc = "touch", !.gone = {}]
    <3>1. n \in ThreadStates /\ n.pc = "touch" /\ n.len = s.len
      BY <1>1 DEF ThreadStates, PCs
    <3>2. th' = [th EXCEPT !["script"] = n]
      BY <2>3 DEF Goto, TypeInv, TypeOK, Threads
    <3> QED BY <3>1, <3>2, <2>3, <1>2, <1>6, ScriptMoves DEF CopyRead
  <2> QED BY <1>6, <2>1, <2>2, <2>3 DEF CopyRead
<1>7. CASE ScanRegion
  <2> DEFINE r == CHOOSE r \in s.regs : \A q \in s.regs : r[1] <= q[1]
             a == r[1] * CellsPerPage
             w == (r[2] - r[1] + 1) * CellsPerPage
  <2>1. CASE ReadFault("script", a, w)
    BY <2>1, ReadFaultTypes
  <2>2. CASE s.regs = {}
    BY <2>2, <1>3, <1>7, ScriptMoves DEF ScanRegion
  <2>3. CASE s.regs # {} /\ ~ReadFault("script", a, w)
    <3> DEFINE n == [s EXCEPT !.regs = @ \ {r}]
    <3>0. th' = [th EXCEPT !["script"].regs = @ \ {r}]
          /\ UNCHANGED <<memvars, cachevars, journal, todo, phase, crash, ops, game, gone, lost, odd>>
      BY <2>3, <1>7 DEF ScanRegion
    <3>1. s.pc = "scan"
      BY <1>7 DEF ScanRegion
    <3> HIDE DEF r
    <3>2. n \in ThreadStates /\ n.pc = "scan"
      BY <1>1, <3>1 DEF ThreadStates, PCs
    <3>3. th' = [th EXCEPT !["script"] = n]
      BY <3>0 DEF TypeInv, TypeOK, Threads
    <3> HIDE DEF n
    <3> QED BY <3>0, <3>2, <3>3, ScriptMoves
  <2> QED BY <2>1, <2>2, <2>3
<1>8. CASE TouchValidate
  <2> DEFINE read == journal[s.addr] = Absent /\ validate_read(s.addr, s.len)
  <2>1. CASE read
    <3> DEFINE n == [s EXCEPT !.pc = "record", !.gone = Fear(s.addr, s.len)]
    <3>1. n \in ThreadStates /\ n.pc = "record" /\ n.len = s.len /\ n.addr = s.addr
      BY <1>1, <1>4 DEF ThreadStates, PCs
    <3>2. th' = [th EXCEPT !["script"] = n]
      BY <1>8, <2>1 DEF TouchValidate, TypeInv, TypeOK, Threads
    <3> QED BY <3>1, <3>2, <2>1, <1>2, <1>8, ScriptMoves DEF TouchValidate
  <2>2. CASE ~read
    <3> DEFINE n == [s EXCEPT !.pc = "query"]
    <3>1. n \in ThreadStates /\ n.pc = "query" /\ n.len = s.len
      BY <1>1 DEF ThreadStates, PCs
    <3>2. th' = [th EXCEPT !["script"] = n]
      BY <1>8, <2>2 DEF TouchValidate, Goto, TypeInv, TypeOK, Threads
    <3> QED BY <3>1, <3>2, <2>2, <1>2, <1>8, ScriptMoves DEF TouchValidate
  <2> QED BY <2>1, <2>2
<1> QED BY <1>5, <1>6, <1>7, <1>8

\* The journal's entries keep their shape when one is recorded.
LEMMA TouchRecordTypes == ASSUME TypeInv, TouchRecord PROVE TypeInv'
<1> DEFINE s == th["script"]
           e == [c \in Span(s.addr, s.len) |-> mem[c]]
           n == [s EXCEPT !.pc = "query", !.gone = {}]
<1>1. s \in ThreadStates /\ s.pc = "record" /\ s.len \in Widths /\ s.addr \in Cells
  BY DEF TypeInv, TypeOK, Flow, TouchRecord, Threads, ThreadStates
<1>2. CASE ReadFault("script", s.addr, s.len)
  BY <1>2, ReadFaultTypes
<1>3. CASE /\ Faulting(s.addr, s.len, Accessible) = {}
           /\ journal' = [journal EXCEPT ![s.addr] = e]
           /\ Lose(Span(s.addr, s.len) \cap (Covered(journal) \cup Covered(todo)))
           /\ th' = [Goto("script", "query") EXCEPT !["script"].gone = {}]
           /\ UNCHANGED <<memvars, cachevars, todo, phase, crash, ops, game, gone, odd>>
  <2>1. Span(s.addr, s.len) \subseteq Cells
    BY <1>1, <1>3, InCells
  <2>2. e \in [Span(s.addr, s.len) -> Values]
    BY <2>1 DEF TypeInv, TypeOK
  <2> HIDE DEF e
  <2>3. e \in EntriesAt(s.addr)
    BY <2>1, <2>2, <1>1 DEF EntriesAt
  <2>4. DOMAIN journal' = Cells /\ \A a \in Cells : journal'[a] \in EntriesAt(a)
    BY <2>3, <1>1, <1>3 DEF TypeInv, TypeOK
  <2>5. n \in ThreadStates /\ n.pc = "query" /\ n.len = s.len
    BY <1>1 DEF ThreadStates, PCs
  <2>6. th' = [th EXCEPT !["script"] = n]
    BY <1>3 DEF Goto, TypeInv, TypeOK, Threads
  <2> HIDE DEF n
  <2>7. /\ th' \in [Threads -> ThreadStates] /\ th'["revert"] = th["revert"] /\ th'["script"] = n
    BY <2>5, <2>6 DEF TypeInv, TypeOK, Threads
  <2>8. lost' \in SUBSET Cells
    BY <2>1, <1>3 DEF Lose, TypeInv, TypeOK
  <2>9. TypeOK'
    BY <2>4, <2>7, <2>8, <1>3 DEF TypeInv, TypeOK, memvars, cachevars
  <2>10. Flow'
    BY <2>5, <2>7, <1>1, <1>3 DEF TypeInv, Flow, Threads, Mine
  <2> QED BY <2>9, <2>10 DEF TypeInv
<1> QED BY <1>2, <1>3 DEF TouchRecord

\* A revert that fails gives up its entry; a script's write gives up nothing.
LEMMA FailedTypes ==
    ASSUME TypeInv, NEW t \in Threads, Failed(t)
    PROVE  /\ DOMAIN todo' = Cells /\ \A a \in Cells : todo'[a] \in EntriesAt(a)
           /\ \A a \in Cells : todo[a] = Absent => todo'[a] = Absent
           /\ t = "script" => todo' = todo
           /\ lost' \in SUBSET Cells
<1>1. th[t].addr \in Cells /\ todo[th[t].addr] \in EntriesAt(th[t].addr)
  BY DEF TypeInv, TypeOK, ThreadStates
<1>2. DOMAIN todo[th[t].addr] \subseteq Cells
  BY <1>1, EntryShape
<1>3. CASE t = "revert"
  <2>1. todo' = [todo EXCEPT ![th[t].addr] = Absent] /\ lost' = lost \cup DOMAIN todo[th[t].addr]
    BY <1>3 DEF Failed, Lose
  <2> QED BY <2>1, <1>1, <1>2, <1>3, AbsentEntry DEF TypeInv, TypeOK
<1>4. CASE t = "script"
  BY <1>4 DEF Failed, TypeInv, TypeOK
<1> QED BY <1>3, <1>4 DEF Threads

\* A step of a guarded write: thread t moves on or is done, and entries of
\* the revert go only when the revert is done with them.
LEMMA WriterMoves ==
    ASSUME TypeInv, NEW t \in Threads, th' \in [Threads -> ThreadStates],
           \A u \in Threads \ {t} : /\ th'[u].pc = th[u].pc /\ th'[u].addr = th[u].addr
                                    /\ th'[u].len = th[u].len,
           th'[t].pc \in {"idle", "protect", "copy", "restore"},
           th[t].pc \in {"query", "protect", "copy", "restore"},
           th'[t].pc # "idle" => th'[t].addr = th[t].addr /\ th'[t].len = th[t].len,
           th[t].pc = "query" /\ th'[t].pc # "idle" => Mine(t) \subseteq Pages,
           th'[t].pc \in {"protect", "copy"} => todo' = todo /\ th[t].pc # "restore",
           t = "script" => todo' = todo,
           \A a \in Cells : todo[a] = Absent => todo'[a] = Absent,
           UNCHANGED <<journal, phase>>
    PROVE  Flow'
<1>1. t = "script" \/ t = "revert"
  BY DEF Threads
<1>2. /\ th["revert"].pc \in {"idle", "query", "protect", "copy", "restore"}
      /\ phase = "running" => th["revert"].pc = "idle" /\ \A a \in Cells : todo[a] = Absent
      /\ th["revert"].pc \in {"query", "protect", "copy"} =>
           DOMAIN todo[th["revert"].addr] = Span(th["revert"].addr, th["revert"].len)
      /\ th["script"].pc = "record" => journal[th["script"].addr] = Absent
      /\ \A u \in Threads : th[u].pc \notin {"idle", "scan"} => th[u].len \in Widths
  BY DEF TypeInv, Flow
<1>5. ASSUME NEW u \in Threads, th'[u].pc \in {"protect", "copy", "restore"}
      PROVE  Mine(u)' \subseteq Pages
  <2>1. Mine(u) \subseteq Pages /\ th'[u].addr = th[u].addr /\ th'[u].len = th[u].len
    BY <1>5 DEF TypeInv, Flow
  <2> QED BY <2>1 DEF Mine
<1>3. CASE t = "script"
  <2>1. th'["revert"].pc = th["revert"].pc /\ th'["revert"].addr = th["revert"].addr
        /\ th'["revert"].len = th["revert"].len
    BY <1>3 DEF Threads
  <2>2. \A u \in Threads : th'[u].pc \notin {"idle", "scan"} => th'[u].len \in Widths
    BY <1>2, <1>3, <2>1 DEF Threads
  <2> QED BY <1>2, <1>3, <1>5, <2>1, <2>2 DEF Flow
<1>4. CASE t = "revert"
  <2>1. th'["script"].pc = th["script"].pc /\ th'["script"].addr = th["script"].addr
        /\ th'["script"].len = th["script"].len
    BY <1>4 DEF Threads
  <2>2. \A u \in Threads : th'[u].pc \notin {"idle", "scan"} => th'[u].len \in Widths
    BY <1>2, <1>4, <2>1 DEF Threads
  <2> QED BY <1>2, <1>4, <1>5, <2>1, <2>2 DEF Flow
<1> QED BY <1>1, <1>3, <1>4

\* A thread goes on to its next step.
LEMMA GotoStep ==
    ASSUME TypeOK, NEW t \in Threads, NEW pc \in PCs, NEW n, n = Goto(t, pc)
    PROVE  /\ n \in [Threads -> ThreadStates]
           /\ \A u \in Threads \ {t} : n[u] = th[u]
           /\ n[t].pc = pc /\ n[t].addr = th[t].addr /\ n[t].len = th[t].len
           /\ n[t].old = th[t].old /\ n[t].op = th[t].op
<1>1. th \in [Threads -> ThreadStates] /\ th[t] \in ThreadStates
  BY DEF TypeOK
<1> QED BY <1>1 DEF ThreadStates, Goto

\* A thread comes to rest.
LEMMA IdleStep ==
    ASSUME TypeOK, NEW t \in Threads, NEW n, n = [th EXCEPT ![t] = Idle]
    PROVE  /\ n \in [Threads -> ThreadStates]
           /\ \A u \in Threads \ {t} : n[u] = th[u]
           /\ n[t].pc = "idle"
<1>1. Idle \in ThreadStates /\ Idle.pc = "idle"
  BY IdleType DEF Idle
<1> QED BY <1>1 DEF TypeOK

\* A thread goes on to its copy with the protection it has to put back.
LEMMA CopyStep ==
    ASSUME TypeOK, NEW t \in Threads, NEW o \in Prots,
           NEW n, n = [th EXCEPT ![t].pc = "copy", ![t].old = o]
    PROVE  /\ n \in [Threads -> ThreadStates]
           /\ \A u \in Threads \ {t} : n[u] = th[u]
           /\ n[t].pc = "copy" /\ n[t].addr = th[t].addr /\ n[t].len = th[t].len
           /\ n[t].old = o /\ n[t].op = th[t].op
<1>1. th \in [Threads -> ThreadStates] /\ th[t] \in ThreadStates /\ "copy" \in PCs
  BY DEF TypeOK, PCs
<1> QED BY <1>1 DEF ThreadStates

\* Disturbed pages are pages of guarded writes under way, so of the space.
LEMMA DisturbedPages == ASSUME TypeInv, NEW t, NEW ps PROVE Disturbed(t, ps) \in SUBSET Pages
  BY DEF Disturbed, TypeInv, Flow, Mine

\* can_write keeps the range inside the space.
LEMMA CanWriteInside ==
    ASSUME NEW a \in Cells, NEW w \in Widths, can_write(a, w)
    PROVE  /\ PagesOf(a, w) \subseteq Pages
           /\ \A p \in PagesOf(a, w) : prot[p] = prot[Page(a)]
  BY WidthType, WithinMeans DEF can_write

\* The query of a guarded write.
LEMMA WriteQueryTypes == ASSUME TypeInv, NEW t \in Threads, WriteQuery(t) PROVE TypeInv'
<1>1. /\ th[t].pc = "query" /\ th[t].addr \in Cells /\ th[t].len \in Widths /\ TypeOK
      /\ "protect" \in PCs /\ "free" \in Prots
  BY DEF TypeInv, TypeOK, Flow, WriteQuery, ThreadStates, PCs, Prots
<1>2. CASE can_write(th[t].addr, th[t].len) /\ th' = Goto(t, "protect") /\ UNCHANGED <<todo, lost>>
  <2>1. Mine(t) \subseteq Pages
    BY <1>1, <1>2, CanWriteInside DEF Mine
  <2>2. /\ th' \in [Threads -> ThreadStates] /\ \A u \in Threads \ {t} : th'[u] = th[u]
        /\ th'[t].pc = "protect" /\ th'[t].addr = th[t].addr /\ th'[t].len = th[t].len
    BY <1>1, <1>2, GotoStep
  <2>3. Flow'
    BY <1>1, <1>2, <2>1, <2>2, WriterMoves DEF WriteQuery
  <2>4. TypeOK'
    BY <1>1, <1>2, <2>2 DEF WriteQuery, TypeOK, memvars, cachevars
  <2> QED BY <2>3, <2>4 DEF TypeInv
<1>3. CASE th' = [th EXCEPT ![t] = Idle] /\ Failed(t)
  <2>1. /\ th' \in [Threads -> ThreadStates] /\ \A u \in Threads \ {t} : th'[u] = th[u]
        /\ th'[t].pc = "idle"
    BY <1>1, <1>3, IdleStep
  <2>2. /\ DOMAIN todo' = Cells /\ \A a \in Cells : todo'[a] \in EntriesAt(a)
        /\ \A a \in Cells : todo[a] = Absent => todo'[a] = Absent
        /\ t = "script" => todo' = todo
        /\ lost' \in SUBSET Cells
    BY <1>3, FailedTypes
  <2>3. Flow'
    BY <1>1, <2>1, <2>2, WriterMoves DEF WriteQuery
  <2>4. TypeOK'
    BY <1>1, <2>1, <2>2 DEF WriteQuery, TypeOK, memvars, cachevars
  <2> QED BY <2>3, <2>4 DEF TypeInv
<1> QED BY <1>2, <1>3 DEF WriteQuery

\* The first VirtualProtect of a guarded write.
LEMMA WriteProtectTypes == ASSUME TypeInv, NEW t \in Threads, WriteProtect(t) PROVE TypeInv'
<1> DEFINE ps == PagesOf(th[t].addr, th[t].len)
           np == [p \in Pages |-> IF p \in ps THEN "rwx" ELSE prot[p]]
           o  == prot[Page(th[t].addr)]
           moved == [th EXCEPT ![t].pc = "copy", ![t].old = o]
<1>1. /\ th[t].pc = "protect" /\ th[t].addr \in Cells /\ TypeOK
      /\ "copy" \in PCs /\ "free" \in Prots
  BY DEF TypeInv, TypeOK, WriteProtect, ThreadStates, PCs, Prots
<1>2. CASE th' = [th EXCEPT ![t] = Idle] /\ Failed(t) /\ UNCHANGED <<memvars, cachevars, gone>>
  <2>1. /\ th' \in [Threads -> ThreadStates] /\ \A u \in Threads \ {t} : th'[u] = th[u]
        /\ th'[t].pc = "idle"
    BY <1>1, <1>2, IdleStep
  <2>2. /\ DOMAIN todo' = Cells /\ \A a \in Cells : todo'[a] \in EntriesAt(a)
        /\ \A a \in Cells : todo[a] = Absent => todo'[a] = Absent
        /\ t = "script" => todo' = todo
        /\ lost' \in SUBSET Cells
    BY <1>2, FailedTypes
  <2>3. Flow'
    BY <1>1, <2>1, <2>2, WriterMoves DEF WriteProtect
  <2>4. TypeOK'
    BY <1>1, <1>2, <2>1, <2>2 DEF WriteProtect, TypeOK, memvars, cachevars
  <2> QED BY <2>3, <2>4 DEF TypeInv
<1>3. CASE Reprotect(np, moved) /\ Taint(t, ps) /\ UNCHANGED <<mem, home, cache, todo, lost>>
  <2>1. np \in [Pages -> Prots] /\ o \in Prots
    <3>1. Page(th[t].addr) \in Pages
      BY <1>1, CellsOfPages DEF Cells
    <3> QED BY <3>1, <1>1 DEF TypeOK, Prots
  <2> HIDE DEF np, o
  <2>7. moved = [th EXCEPT ![t].pc = "copy", ![t].old = o]
    OBVIOUS
  <2> HIDE DEF moved
  <2>2. /\ moved \in [Threads -> ThreadStates] /\ \A u \in Threads \ {t} : moved[u] = th[u]
        /\ moved[t].pc = "copy" /\ moved[t].addr = th[t].addr /\ moved[t].len = th[t].len
    BY <1>1, <2>1, <2>7, CopyStep
  <2>3. /\ prot' = np /\ gone' \in SUBSET Pages
        /\ walk' \in [at : -1 .. NPages, found : SUBSET Regions, gone : SUBSET Pages]
        /\ th' \in [Threads -> ThreadStates]
        /\ \A u \in Threads : /\ th'[u].pc = moved[u].pc /\ th'[u].addr = moved[u].addr
                              /\ th'[u].len = moved[u].len
    BY <1>1, <1>3, <2>1, <2>2, ReprotectTypes
  <2>4. tainted' \in SUBSET Pages
    BY <1>1, <1>3, DisturbedPages DEF Taint, TypeOK
  <2>5. Flow'
    BY <1>1, <1>3, <2>2, <2>3, WriterMoves DEF WriteProtect
  <2>6. TypeOK'
    BY <1>1, <1>3, <2>1, <2>3, <2>4 DEF WriteProtect, TypeOK
  <2> QED BY <2>5, <2>6 DEF TypeInv
<1> QED BY <1>2, <1>3 DEF WriteProtect

\* The copy of a guarded write: a revert's bytes are those of its entry.
LEMMA WriteCopyTypes == ASSUME TypeInv, NEW t \in Threads, WriteCopy(t) PROVE TypeInv'
<1> DEFINE a == th[t].addr
           w == th[t].len
           bad == Faulting(a, w, Writable)
<1>1. /\ th[t].pc = "copy" /\ a \in Cells /\ w \in Widths /\ TypeOK
      /\ "restore" \in PCs /\ "free" \in Prots
  BY DEF TypeInv, TypeOK, Flow, WriteCopy, ThreadStates, PCs, Prots
<1>2. CASE bad # {} /\ Crash(IF bad \subseteq tainted THEN "raced write" ELSE "write")
  BY <1>2, CrashTypes
<1>3. CASE /\ bad = {}
           /\ mem' = Written(Bytes(t))
           /\ th' = Goto(t, "restore")
           /\ IF t = "revert"
              THEN todo' = [todo EXCEPT ![a] = Absent] /\ UNCHANGED lost
              ELSE Lose(DOMAIN Bytes(t) \ (Covered(journal) \cup Covered(todo))) /\ UNCHANGED todo
           /\ UNCHANGED <<prot, home, tainted, cachevars, journal, phase, crash, ops, game, gone, odd>>
  <2>1. Span(a, w) \subseteq Cells
    BY <1>1, <1>3, InCells
  <2>2. DOMAIN Bytes(t) = Span(a, w) /\ \A c \in Span(a, w) : Bytes(t)[c] \in Values
    <3>1. CASE t = "revert"
      <4>1. Bytes(t) = todo[a] /\ DOMAIN todo[a] = Span(a, w)
        BY <3>1, <1>1 DEF Bytes, TypeInv, Flow
      <4>2. todo[a] \in EntriesAt(a)
        BY <1>1 DEF TypeOK
      <4>3. \A c \in DOMAIN todo[a] : todo[a][c] \in Values
        BY <4>2, <1>1, EntryShape
      <4> QED BY <4>1, <4>3
    <3>2. CASE t # "revert"
      BY <3>2 DEF Bytes, Values
    <3> QED BY <3>1, <3>2
  <2>3. mem' \in [Cells -> Values]
    BY <1>1, <1>3, <2>1, <2>2 DEF TypeOK, Written
  <2>4. /\ th' \in [Threads -> ThreadStates] /\ \A u \in Threads \ {t} : th'[u] = th[u]
        /\ th'[t].pc = "restore" /\ th'[t].addr = th[t].addr /\ th'[t].len = th[t].len
    BY <1>1, <1>3, GotoStep
  <2>5. /\ DOMAIN todo' = Cells /\ \A b \in Cells : todo'[b] \in EntriesAt(b)
        /\ \A b \in Cells : todo[b] = Absent => todo'[b] = Absent
        /\ t = "script" => todo' = todo
        /\ lost' \in SUBSET Cells
    <3>1. CASE t = "revert"
      <4>1. todo' = [todo EXCEPT ![a] = Absent] /\ lost' = lost
        BY <3>1, <1>3
      <4> HIDE DEF a
      <4> QED BY <3>1, <4>1, <1>1, AbsentEntry DEF TypeOK
    <3>2. CASE t = "script"
      BY <3>2, <1>1, <1>3, <2>1, <2>2 DEF TypeOK, Lose
    <3> QED BY <3>1, <3>2 DEF Threads
  <2>6. Flow'
    BY <1>1, <1>3, <2>4, <2>5, WriterMoves
  <2>7. TypeOK'
    BY <1>1, <1>3, <2>3, <2>4, <2>5 DEF TypeOK, cachevars
  <2> QED BY <2>6, <2>7 DEF TypeInv
<1> QED BY <1>2, <1>3 DEF WriteCopy

\* The second VirtualProtect of a guarded write.
LEMMA WriteRestoreTypes == ASSUME TypeInv, NEW t \in Threads, WriteRestore(t) PROVE TypeInv'
<1> DEFINE ps == PagesOf(th[t].addr, th[t].len)
           np == [p \in Pages |-> IF p \in ps THEN th[t].old ELSE prot[p]]
           moved == [th EXCEPT ![t] = Idle]
<1>1. /\ th[t].pc = "restore" /\ th[t].old \in Prots /\ TypeOK
      /\ "free" \in Prots /\ "idle" \in PCs
  BY DEF TypeInv, TypeOK, WriteRestore, ThreadStates, Prots, PCs
<1>2. /\ moved \in [Threads -> ThreadStates] /\ \A u \in Threads \ {t} : moved[u] = th[u]
      /\ moved[t].pc = "idle"
  BY <1>1, IdleStep
<1>3. np \in [Pages -> Prots]
  BY <1>1 DEF TypeOK
<1> HIDE DEF np, moved
<1>4. CASE th' = moved /\ UNCHANGED <<memvars, cachevars, gone>>
  <2>1. Flow'
    BY <1>1, <1>2, <1>4, WriterMoves DEF WriteRestore
  <2>2. TypeOK'
    BY <1>1, <1>2, <1>4 DEF WriteRestore, TypeOK, memvars, cachevars
  <2> QED BY <2>1, <2>2 DEF TypeInv
<1>5. CASE Reprotect(np, moved) /\ Taint(t, ps) /\ UNCHANGED <<mem, home, cache>>
  <2>3. /\ prot' = np /\ gone' \in SUBSET Pages
        /\ walk' \in [at : -1 .. NPages, found : SUBSET Regions, gone : SUBSET Pages]
        /\ th' \in [Threads -> ThreadStates]
        /\ \A u \in Threads : /\ th'[u].pc = moved[u].pc /\ th'[u].addr = moved[u].addr
                              /\ th'[u].len = moved[u].len
    BY <1>1, <1>2, <1>3, <1>5, ReprotectTypes
  <2>4. tainted' \in SUBSET Pages
    BY <1>1, <1>5, DisturbedPages DEF Taint, TypeOK
  <2>5. Flow'
    BY <1>1, <1>2, <1>5, <2>3, WriterMoves DEF WriteRestore
  <2>6. TypeOK'
    BY <1>1, <1>5, <1>3, <2>3, <2>4 DEF WriteRestore, TypeOK
  <2> QED BY <2>5, <2>6 DEF TypeInv
<1> QED BY <1>4, <1>5 DEF WriteRestore, np, moved

\* A range has as many cells as it is wide.
LEMMA SpanCardinality ==
    ASSUME NEW a \in Cells, NEW w \in Widths PROVE Cardinality(Span(a, w)) = w
<1>1. a \in Int /\ a + w - 1 \in Int /\ w \in Nat \ {0}
  BY WidthType DEF Cells
<1>2. Cardinality(a .. a + w - 1) = IF a > a + w - 1 THEN 0 ELSE (a + w - 1) - a + 1
  BY <1>1, FS_Interval
<1> QED BY <1>1, <1>2 DEF Span

\* The steps of the orchestrator.
LEMMA OrchestratorTypes ==
    ASSUME TypeInv, TakeEntries \/ DropRuntime \/ \E a \in Cells : RevertEntry(a)
    PROVE  TypeInv'
<1> USE AbsentEntry
<1>1. CASE TakeEntries
  <2>1. TypeOK'
    BY <1>1 DEF TakeEntries, TypeInv, TypeOK, memvars, cachevars
  <2>2. Flow'
    BY <1>1 DEF TakeEntries, TypeInv, Flow, Mine
  <2> QED BY <2>1, <2>2 DEF TypeInv
<1>2. CASE DropRuntime
  <2>1. Covered(journal) \subseteq Cells
    <3> SUFFICES ASSUME NEW a \in Cells PROVE DOMAIN journal[a] \subseteq Cells
      BY DEF Covered
    <3>1. journal[a] \in EntriesAt(a)
      BY DEF TypeInv, TypeOK
    <3> QED BY <3>1, EntryShape
  <2>2. TypeOK'
    BY <1>2, <2>1 DEF DropRuntime, Lose, TypeInv, TypeOK, memvars, cachevars
  <2>3. Flow'
    BY <1>2 DEF DropRuntime, TypeInv, Flow, Mine
  <2> QED BY <2>2, <2>3 DEF TypeInv
<1>3. ASSUME NEW a \in Cells, RevertEntry(a) PROVE TypeInv'
  <2> DEFINE new == [Idle EXCEPT !.pc = "query", !.op = "revert", !.addr = a,
                                 !.len = Cardinality(DOMAIN todo[a])]
  <2>1. todo[a] \in EntriesAt(a) /\ todo[a] # Absent
    BY <1>3 DEF RevertEntry, TypeInv, TypeOK
  <2>2. PICK w \in Widths : DOMAIN todo[a] = Span(a, w)
    BY <2>1, EntryShape
  <2>3. Cardinality(DOMAIN todo[a]) = w
    BY <2>2, SpanCardinality
  <2>4. /\ new \in ThreadStates /\ new.pc = "query" /\ new.addr = a /\ new.len = w
    BY <2>3, IdleType, WidthType DEF ThreadStates, Idle, PCs, Ops
  <2>5. th' = [th EXCEPT !["revert"] = new]
    BY <1>3 DEF RevertEntry
  <2> HIDE DEF new
  <2>6. th' \in [Threads -> ThreadStates] /\ th'["script"] = th["script"] /\ th'["revert"] = new
    BY <2>4, <2>5 DEF TypeInv, TypeOK, Threads
  <2>7. TypeOK'
    BY <1>3, <2>6 DEF RevertEntry, TypeInv, TypeOK, memvars, cachevars
  <2>8. Flow'
    BY <1>3, <2>2, <2>4, <2>6 DEF RevertEntry, TypeInv, Flow, Threads, Mine
  <2> QED BY <2>7, <2>8 DEF TypeInv
<1> QED BY <1>1, <1>2, <1>3

\* The steps of the refresher.
LEMMA RefresherTypes ==
    ASSUME TypeInv, WalkStart \/ WalkQuery \/ WalkPublish
    PROVE  TypeInv'
<1>1. Flow'
  BY DEF WalkStart, WalkQuery, WalkPublish, TypeInv, Flow, Mine
<1>2. CASE WalkStart
  <2>1. TypeOK'
    BY <1>2, SpaceAssumption DEF WalkStart, TypeInv, TypeOK, memvars
  <2> QED BY <1>1, <2>1 DEF TypeInv
<1>3. CASE WalkQuery
  <2> DEFINE r == VirtualQuery(walk.at)
             found == IF is_readable(prot[walk.at]) THEN walk.found \cup {r} ELSE walk.found
  <2>1. walk.at \in Pages
    BY <1>3 DEF WalkQuery
  <2>2. r \in Regions
    BY <2>1, VirtualQueryIsRun DEF Regions
  <2>3. r[2] + 1 \in -1 .. NPages /\ NPages \in -1 .. NPages
    BY <2>2, SpaceAssumption DEF Regions, Pages
  <2>4. found \in SUBSET Regions
    BY <2>2 DEF TypeInv, TypeOK
  <2>5. walk' = [walk EXCEPT !.found = found,
                             !.at = IF Cardinality(found) >= MaxRegions THEN NPages ELSE r[2] + 1]
    BY <1>3 DEF WalkQuery
  <2> HIDE DEF r, found
  <2>6. walk' \in [at : -1 .. NPages, found : SUBSET Regions, gone : SUBSET Pages]
    BY <2>3, <2>4, <2>5 DEF TypeInv, TypeOK
  <2>7. TypeOK'
    BY <1>3, <2>6 DEF WalkQuery, TypeInv, TypeOK, memvars
  <2> QED BY <1>1, <2>7 DEF TypeInv
<1>4. CASE WalkPublish
  <2>1. TypeOK'
    BY <1>4, SpaceAssumption DEF WalkPublish, Asleep, TypeInv, TypeOK, memvars
  <2> QED BY <1>1, <2>1 DEF TypeInv
<1> QED BY <1>2, <1>3, <1>4

\* The game's steps.
LEMMA GameTypes ==
    ASSUME TypeInv, \/ \E c \in Cells, v \in GameValues : GameWrite(c, v)
                    \/ \E p \in Pages, new \in Prots : GameProtect(p, new)
    PROVE  TypeInv'
<1>1. ASSUME NEW c \in Cells, NEW v \in GameValues, GameWrite(c, v) PROVE TypeInv'
  <2>1. game' \in 0 .. MaxGame
    BY <1>1, SpaceAssumption DEF GameWrite, TypeInv, TypeOK
  <2>2. mem' \in [Cells -> Values]
    BY <1>1 DEF GameWrite, TypeInv, TypeOK, Values
  <2>3. TypeOK'
    BY <1>1, <2>1, <2>2 DEF GameWrite, TypeInv, TypeOK, cachevars
  <2>4. Flow'
    BY <1>1 DEF GameWrite, TypeInv, Flow, Mine
  <2> QED BY <2>3, <2>4 DEF TypeInv
<1>2. ASSUME NEW p \in Pages, NEW new \in Prots, GameProtect(p, new) PROVE TypeInv'
  <2> DEFINE np == [prot EXCEPT ![p] = new]
  <2>1. np \in [Pages -> Prots] /\ th \in [Threads -> ThreadStates] /\ TypeOK
    BY DEF TypeInv, TypeOK
  <2>2. Reprotect(np, th)
    BY <1>2 DEF GameProtect
  <2> HIDE DEF np
  <2>3. /\ prot' = np /\ gone' \in SUBSET Pages
        /\ walk' \in [at : -1 .. NPages, found : SUBSET Regions, gone : SUBSET Pages]
        /\ th' \in [Threads -> ThreadStates]
        /\ \A u \in Threads : /\ th'[u].pc = th[u].pc /\ th'[u].addr = th[u].addr
                              /\ th'[u].len = th[u].len
    BY <2>1, <2>2, ReprotectTypes
  <2>4. tainted' \in SUBSET Pages
    BY <1>2, <2>1, DisturbedPages DEF GameProtect, TypeOK
  <2>5. mem' \in [Cells -> Values]
    BY <1>2, <2>1, SpaceAssumption DEF GameProtect, TypeOK, Values
  <2>6. game' \in 0 .. MaxGame /\ odd' \in SUBSET Oddities /\ home' \in [Pages -> Prots]
    BY <1>2, <2>1, SpaceAssumption DEF GameProtect, TypeOK, Odd, Oddities
  <2>7. TypeOK'
    BY <1>2, <2>1, <2>3, <2>4, <2>5, <2>6 DEF GameProtect, TypeOK
  <2>8. Flow'
    BY <1>2, <2>3 DEF GameProtect, TypeInv, Flow, Mine, Threads
  <2> QED BY <2>7, <2>8 DEF TypeInv
<1> QED BY <1>1, <1>2

\* Every step keeps the types and the order of the threads' steps.
LEMMA NextTypes == TypeInv /\ [Next]_vars => TypeInv'
<1> SUFFICES ASSUME TypeInv, [Next]_vars PROVE TypeInv'
  OBVIOUS
<1>1. CASE UNCHANGED vars
  BY <1>1 DEF vars, TypeInv, TypeOK, Flow, Mine
<1>2. CASE \E a \in Cells, w \in Widths :
             host_read(a, w) \/ host_write(a, w) \/ host_write_if(a, w) \/ host_write_permanent(a, w)
  BY <1>2, HostCallsTypes
<1>3. CASE host_scan
  BY <1>3, ScanTypes
<1>4. CASE ValidateRead \/ CopyRead \/ ScanRegion \/ TouchValidate
  BY <1>4, ReadersTypes
<1>5. CASE TouchRecord
  BY <1>5, TouchRecordTypes
<1>6. CASE \E t \in Threads : WriteQuery(t) \/ WriteProtect(t) \/ WriteCopy(t) \/ WriteRestore(t)
  BY <1>6, WriteQueryTypes, WriteProtectTypes, WriteCopyTypes, WriteRestoreTypes
<1>7. CASE TakeEntries \/ DropRuntime \/ \E a \in Cells : RevertEntry(a)
  BY <1>7, OrchestratorTypes
<1>8. CASE WalkStart \/ WalkQuery \/ WalkPublish
  BY <1>8, RefresherTypes
<1>9. CASE \/ \E c \in Cells, v \in GameValues : GameWrite(c, v)
           \/ \E p \in Pages, new \in Prots : GameProtect(p, new)
  BY <1>9, GameTypes
<1> QED
  BY <1>1, <1>2, <1>3, <1>4, <1>5, <1>6, <1>7, <1>8, <1>9 DEF Next

\* The types and the order of steps hold in every reachable state.
LEMMA TypeInvHolds == Spec => []TypeInv
  BY InitTypes, NextTypes, PTL DEF Spec

\* The state of the memory subsystem keeps its types: what is recorded under
\* an address is a range of one of the widths inside the address space, and
\* what is lost, tainted or gone lies in it (mem_host.rs, journal.rs, cache.rs).
THEOREM MemTypes == Spec => []TypeOK
<1>1. TypeInv => TypeOK
  BY DEF TypeInv
<1> QED BY <1>1, TypeInvHolds, PTL
-----------------------------------------------------------------------------
\* ---- reads

\* Pages that go bad are remembered by whoever relies on them.
LEMMA ReprotectReads ==
    ASSUME TypeInv, ReadInv, NEW np \in [Pages -> Prots], NEW moved \in [Threads -> ThreadStates],
           Reprotect(np, moved), cache' = cache, crash' = crash,
           \A t \in Threads : moved[t] = th[t] \/ moved[t].pc \notin {"scan", "read", "record"}
    PROVE  ReadInv'
<1> DEFINE bad == { p \in Pages : prot[p] \in Accessible /\ np[p] \notin Accessible }
<1>1. /\ prot' = np /\ gone' = gone \cup bad
      /\ walk' = IF walk = Asleep THEN walk ELSE [walk EXCEPT !.gone = @ \cup bad]
      /\ th' = [t \in Threads |-> IF moved[t].pc \in {"read", "record", "scan"}
                                  THEN [moved[t] EXCEPT !.gone = @ \cup bad] ELSE moved[t]]
  BY DEF Reprotect
<1>2. \A p \in Pages : prot[p] \in Accessible => prot'[p] \in Accessible \/ p \in bad
  BY <1>1
<1> HIDE DEF bad
<1>3. ASSUME NEW rs \in SUBSET Regions, NEW g, Sound(rs, g),
             NEW r \in rs, NEW p \in r[1] .. r[2]
      PROVE  prot'[p] \in Accessible \/ p \in g \cup bad
  <2>1. p \in Pages
    BY SpaceAssumption DEF Regions, Pages
  <2> QED BY <1>2, <1>3, <2>1 DEF Sound
<1>4. Sound(cache, gone)'
  BY <1>1, <1>3 DEF Sound, ReadInv, TypeInv, TypeOK
<1>5. Sound(walk.found, walk.gone)'
  <2>1. CASE walk = Asleep
    BY <2>1, <1>1 DEF Asleep, Sound
  <2>2. CASE walk # Asleep
    <3>1. walk'.found = walk.found /\ walk'.gone = walk.gone \cup bad
      BY <2>2, <1>1 DEF TypeInv, TypeOK
    <3>2. walk.found \in SUBSET Regions /\ Sound(walk.found, walk.gone)
      BY DEF ReadInv, TypeInv, TypeOK
    <3> QED BY <3>1, <3>2, <1>3 DEF Sound
  <2> QED BY <2>1, <2>2
<1>6. ASSUME NEW t \in Threads, th'[t].pc \in {"scan", "read", "record"}
      PROVE  /\ moved[t] = th[t] /\ th[t].pc = th'[t].pc
             /\ th'[t].gone = th[t].gone \cup bad /\ th'[t].regs = th[t].regs
             /\ th'[t].addr = th[t].addr /\ th'[t].len = th[t].len
  <2>1. moved[t] \in ThreadStates /\ th[t] \in ThreadStates
    BY DEF TypeInv, TypeOK
  <2>2. th'[t] = IF moved[t].pc \in {"read", "record", "scan"}
                 THEN [moved[t] EXCEPT !.gone = @ \cup bad] ELSE moved[t]
    BY <1>1
  <2>3. moved[t].pc = th'[t].pc
    BY <2>1, <2>2 DEF ThreadStates
  <2>4. moved[t] = th[t]
    BY <2>3, <1>6
  <2> QED BY <2>1, <2>2, <2>3, <2>4, <1>6 DEF ThreadStates
<1>7. ASSUME NEW t \in Threads, th'[t].pc = "scan" PROVE Sound(th[t].regs, th[t].gone)'
  <2>1. /\ th'[t].gone = th[t].gone \cup bad /\ th'[t].regs = th[t].regs /\ th[t].pc = "scan"
    BY <1>6, <1>7
  <2>2. th[t].regs \in SUBSET Regions /\ Sound(th[t].regs, th[t].gone)
    BY <2>1 DEF ReadInv, TypeInv, TypeOK, ThreadStates
  <2> QED BY <2>1, <2>2, <1>3 DEF Sound
<1>8. ASSUME NEW t \in Threads, th'[t].pc \in {"read", "record"}, NEW p \in Mine(t)'
      PROVE  p \in Pages /\ (prot'[p] \in Accessible \/ p \in th'[t].gone)
  <2>1. /\ th'[t].gone = th[t].gone \cup bad /\ th[t].pc \in {"read", "record"}
        /\ Mine(t)' = Mine(t)
    BY <1>6, <1>8 DEF Mine
  <2>2. p \in Pages /\ (prot[p] \in Accessible \/ p \in th[t].gone)
    BY <2>1, <1>8 DEF ReadInv
  <2> QED BY <2>1, <2>2, <1>2
<1>9. crash' # "read"
  BY DEF ReadInv
<1> QED BY <1>4, <1>5, <1>7, <1>8, <1>9 DEF ReadInv

\* Steps that touch neither protections nor cache, and start no read.
LEMMA ReadFrame ==
    ASSUME ReadInv, UNCHANGED <<prot, cachevars, gone>>, crash' # "read",
           \A t \in Threads : th'[t] = th[t] \/ th'[t].pc \notin {"scan", "read", "record"}
    PROVE  ReadInv'
<1>1. UNCHANGED <<prot, cache, walk, gone>>
  BY DEF cachevars
<1>2. Sound(cache, gone)' /\ Sound(walk.found, walk.gone)'
  BY <1>1 DEF ReadInv, Sound
<1>3. ASSUME NEW t \in Threads, th'[t].pc = "scan" PROVE Sound(th[t].regs, th[t].gone)'
  BY <1>1, <1>3 DEF ReadInv, Sound
<1>4. ASSUME NEW t \in Threads, th'[t].pc \in {"read", "record"}, NEW p \in Mine(t)'
      PROVE  p \in Pages /\ (prot'[p] \in Accessible \/ p \in th'[t].gone)
  <2>1. th'[t] = th[t] /\ p \in Mine(t)
    BY <1>4 DEF Mine
  <2> QED BY <2>1, <1>1, <1>4 DEF ReadInv
<1> QED BY <1>2, <1>3, <1>4 DEF ReadInv

\* A validated range is sound up to what the validator has reason to fear.
LEMMA ValidatedIsSound ==
    ASSUME TypeInv, ReadInv, NEW a \in Cells, NEW w \in Widths, validate_read(a, w),
           NEW p \in PagesOf(a, w)
    PROVE  p \in Pages /\ (prot[p] \in Accessible \/ p \in Fear(a, w))
<1>1. w \in Nat \ {0} /\ a \in Int /\ p \in Page(a) .. Page(a + w - 1) /\ Page(a) \in Int
      /\ Page(a + w - 1) \in Int
  <2>1. w \in Nat \ {0} /\ a \in Int /\ a + w - 1 \in Int
    BY WidthType DEF Cells
  <2> QED BY <2>1, PagesOfRange, PageMono
<1>2. CASE in_region(a, w)
  <2>1. PICK r \in cache : Within(a, w, r)
    BY <1>2 DEF in_region
  <2>2. r[1] \in Pages /\ r[2] \in Pages
    BY <2>1 DEF TypeInv, TypeOK, Regions
  <2>3. p \in r[1] .. r[2] /\ p \in Pages
    BY <1>1, <2>1, <2>2, SpaceAssumption DEF Within, Pages
  <2>4. prot[p] \in Accessible \/ p \in gone
    BY <2>1, <2>3 DEF ReadInv, Sound
  <2> QED BY <2>3, <2>4, <1>2 DEF Fear
<1>3. CASE ~in_region(a, w)
  <2>1. is_readable(prot[Page(a)]) /\ Within(a, w, VirtualQuery(Page(a)))
    BY <1>3 DEF validate_read, live_readable
  <2>2. p \in Pages /\ prot[p] = prot[Page(a)]
    BY <2>1, <1>1, WithinMeans
  <2> QED BY <2>1, <2>2 DEF is_readable, Accessible, Prots
<1> QED BY <1>2, <1>3

\* The first region of a snapshot (aob_scan goes in address order).
LEMMA FirstRegion ==
    ASSUME NEW rs \in SUBSET Regions, rs # {}
    PROVE  (CHOOSE r \in rs : \A q \in rs : r[1] <= q[1]) \in rs
<1> DEFINE firsts == { r[1] : r \in rs }
<1>1. firsts \in SUBSET Nat /\ firsts # {}
  BY DEF Regions, Pages
<1>2. PICK m \in firsts : \A n \in firsts : m <= n
  BY <1>1, Least
<1>3. \E r \in rs : \A q \in rs : r[1] <= q[1]
  BY <1>2
<1> QED BY <1>3

\* A range whose pages are accessible or feared does not fault unexpectedly.
LEMMA NoSurprise ==
    ASSUME ReadInv, NEW t \in Threads, NEW a, NEW w, ReadFault(t, a, w),
           \A p \in PagesOf(a, w) : p \in Pages /\ (prot[p] \in Accessible \/ p \in th[t].gone)
    PROVE  ReadInv'
<1>1. Faulting(a, w, Accessible) \subseteq th[t].gone
  BY DEF Faulting
<1>2. Crash("stale read")
  BY <1>1 DEF ReadFault
<1> QED BY <1>2, ReadFrame DEF Crash, memvars

\* Only the script's record changes.
LEMMA ScriptStep ==
    ASSUME TypeInv, NEW n, th' = [th EXCEPT !["script"] = n]
    PROVE  th'["script"] = n /\ th'["revert"] = th["revert"]
  BY DEF TypeInv, TypeOK, Threads

\* The host calls.
LEMMA CallReads ==
    ASSUME TypeInv, ReadInv, \/ \E a \in Cells, w \in Widths :
                                  \/ host_read(a, w) \/ host_write(a, w) \/ host_write_if(a, w)
                                  \/ host_write_permanent(a, w)
                             \/ host_scan
    PROVE  ReadInv'
<1>1. ASSUME NEW op, NEW pc \in {"validate", "touch", "query"}, NEW a, NEW w, NEW strange,
             Call(op, pc, a, w, {}, strange)
      PROVE  ReadInv'
  <2>1. th'["script"].pc = pc /\ th'["revert"] = th["revert"]
    BY <1>1, ScriptStep DEF Call, Idle
  <2> QED BY <1>1, <2>1, ReadFrame DEF Call, ReadInv, Threads, memvars
<1>2. CASE host_scan
  <2> DEFINE n == [Idle EXCEPT !.pc = "scan", !.op = "scan", !.addr = 0, !.len = 1,
                               !.regs = cache, !.gone = gone]
  <2>1. n.pc = "scan" /\ n.regs = cache /\ n.gone = gone
    BY DEF Idle
  <2>2. th' = [th EXCEPT !["script"] = n]
    BY <1>2 DEF host_scan, Call
  <2> HIDE DEF n
  <2>3. th'["script"] = n /\ th'["revert"] = th["revert"]
    BY <2>2, ScriptStep
  <2>4. UNCHANGED <<prot, cache, walk, gone, crash>>
    BY <1>2 DEF host_scan, Call, memvars, cachevars
  <2>5. Sound(th["script"].regs, th["script"].gone)'
    BY <2>1, <2>3, <2>4 DEF ReadInv, Sound
  <2>6. \A t \in Threads : th'[t].pc = "scan" => Sound(th[t].regs, th[t].gone)'
    BY <2>3, <2>4, <2>5 DEF ReadInv, Sound, Threads
  <2>7. \A t \in Threads : th'[t].pc \in {"read", "record"} =>
          \A p \in Mine(t)' : p \in Pages /\ (prot'[p] \in Accessible \/ p \in th'[t].gone)
    BY <2>1, <2>3, <2>4 DEF ReadInv, Threads, Mine
  <2>8. Sound(cache, gone)' /\ Sound(walk.found, walk.gone)' /\ crash' # "read"
    BY <2>4 DEF ReadInv, Sound
  <2> QED BY <2>6, <2>7, <2>8 DEF ReadInv
<1> QED BY <1>1, <1>2 DEF host_read, host_write, host_write_if, host_write_permanent

\* A validated range becomes the script's.
LEMMA ValidatedReads ==
    ASSUME TypeInv, ReadInv, NEW pc \in {"read", "record"}, th["script"].len \in Widths,
           validate_read(th["script"].addr, th["script"].len),
           th' = [th EXCEPT !["script"].pc = pc,
                            !["script"].gone = Fear(th["script"].addr, th["script"].len)],
           UNCHANGED <<memvars, cachevars, gone, crash>>
    PROVE  ReadInv'
<1> DEFINE s == th["script"]
           n == [s EXCEPT !.pc = pc, !.gone = Fear(s.addr, s.len)]
<1>1. s \in ThreadStates /\ s.addr \in Cells
  BY DEF TypeInv, TypeOK, Threads, ThreadStates
<1>2. n.pc = pc /\ n.gone = Fear(s.addr, s.len) /\ n.addr = s.addr /\ n.len = s.len
  BY <1>1 DEF ThreadStates
<1>3. th'["script"] = n /\ th'["revert"] = th["revert"]
  BY DEF TypeInv, TypeOK, Threads
<1> HIDE DEF n
<1>4. UNCHANGED <<prot, cache, walk, gone, crash>>
  BY DEF memvars, cachevars
<1>5. \A p \in PagesOf(s.addr, s.len) : p \in Pages /\ (prot[p] \in Accessible \/ p \in Fear(s.addr, s.len))
  BY <1>1, ValidatedIsSound
<1>6. \A t \in Threads : th'[t].pc = "scan" => Sound(th[t].regs, th[t].gone)'
  BY <1>2, <1>3, <1>4 DEF ReadInv, Sound, Threads
<1>7. \A t \in Threads : th'[t].pc \in {"read", "record"} =>
        \A p \in Mine(t)' : p \in Pages /\ (prot'[p] \in Accessible \/ p \in th'[t].gone)
  BY <1>2, <1>3, <1>4, <1>5 DEF ReadInv, Threads, Mine
<1>8. Sound(cache, gone)' /\ Sound(walk.found, walk.gone)' /\ crash' # "read"
  BY <1>4 DEF ReadInv, Sound
<1> QED BY <1>6, <1>7, <1>8 DEF ReadInv

\* The steps of the readers.
LEMMA ReadersReads ==
    ASSUME TypeInv, ReadInv, ValidateRead \/ CopyRead \/ ScanRegion \/ TouchValidate \/ TouchRecord
    PROVE  ReadInv'
<1> DEFINE s == th["script"]
<1>1. s \in ThreadStates /\ "script" \in Threads
  BY DEF TypeInv, TypeOK, Threads
<1>2. s.pc \notin {"idle", "scan"} => s.len \in Widths
  BY DEF TypeInv, Flow, Threads
<1>3. ASSUME th' = [th EXCEPT !["script"] = Idle],
             UNCHANGED <<memvars, cachevars, gone, crash>>
      PROVE  ReadInv'
  <2>1. th'["script"].pc = "idle" /\ th'["revert"] = th["revert"]
    BY <1>3, ScriptStep DEF Idle
  <2> QED BY <1>3, <2>1, ReadFrame DEF ReadInv, Threads, memvars
<1>4. ASSUME NEW pc \in {"touch", "query"}, th'["script"].pc = pc, th'["revert"] = th["revert"],
             UNCHANGED <<memvars, cachevars, gone, crash>>
      PROVE  ReadInv'
  BY <1>4, ReadFrame DEF ReadInv, Threads, memvars
<1>5. CASE ValidateRead
  <2>1. CASE validate_read(s.addr, s.len)
    BY <2>1, <1>2, <1>5, ValidatedReads DEF ValidateRead
  <2>2. CASE ~validate_read(s.addr, s.len)
    BY <2>2, <1>3, <1>5 DEF ValidateRead
  <2> QED BY <2>1, <2>2
<1>6. ASSUME s.pc \in {"read", "record"}, ReadFault("script", s.addr, s.len) PROVE ReadInv'
  <2>1. \A p \in PagesOf(s.addr, s.len) : p \in Pages /\ (prot[p] \in Accessible \/ p \in s.gone)
    BY <1>1, <1>6 DEF ReadInv, Mine
  <2> QED BY <2>1, <1>1, <1>6, NoSurprise
<1>7. ASSUME NEW pc \in PCs, th' = [Goto("script", pc) EXCEPT !["script"].gone = {}]
      PROVE  th'["script"].pc = pc /\ th'["revert"] = th["revert"]
  BY <1>1, <1>7 DEF Goto, TypeInv, TypeOK, Threads, ThreadStates
<1>8. CASE CopyRead
  <2>1. CASE ReadFault("script", s.addr, s.len)
    BY <2>1, <1>6, <1>8 DEF CopyRead
  <2>2. CASE th' = [th EXCEPT !["script"] = Idle] /\ ~ReadFault("script", s.addr, s.len)
    BY <2>2, <1>3, <1>8 DEF CopyRead
  <2>3. CASE th' = [Goto("script", "touch") EXCEPT !["script"].gone = {}]
             /\ ~ReadFault("script", s.addr, s.len)
    BY <2>3, <1>4, <1>7, <1>8 DEF CopyRead, PCs
  <2> QED BY <1>8, <2>1, <2>2, <2>3 DEF CopyRead
<1>9. CASE TouchRecord
  <2>1. CASE ReadFault("script", s.addr, s.len)
    BY <2>1, <1>6, <1>9 DEF TouchRecord
  <2>2. CASE ~ReadFault("script", s.addr, s.len)
    <3>1. /\ th' = [Goto("script", "query") EXCEPT !["script"].gone = {}]
          /\ UNCHANGED <<memvars, cachevars, gone, crash>>
      BY <2>2, <1>9 DEF TouchRecord
    <3> QED BY <3>1, <1>4, <1>7 DEF PCs
  <2> QED BY <2>1, <2>2
<1>10. CASE TouchValidate
  <2> DEFINE read == journal[s.addr] = Absent /\ validate_read(s.addr, s.len)
  <2>1. CASE read
    BY <2>1, <1>2, <1>10, ValidatedReads DEF TouchValidate
  <2>2. CASE ~read
    <3>1. th' = Goto("script", "query") /\ "query" \in PCs
      BY <2>2, <1>10 DEF TouchValidate, PCs
    <3>2. th'["script"].pc = "query" /\ th'["revert"] = th["revert"]
      BY <3>1, <1>1, GotoStep DEF TypeInv, Threads
    <3> QED BY <3>2, <1>4, <1>10 DEF TouchValidate
  <2> QED BY <2>1, <2>2
<1>11. CASE ScanRegion
  <2> DEFINE r == CHOOSE r \in s.regs : \A q \in s.regs : r[1] <= q[1]
             a == r[1] * CellsPerPage
             w == (r[2] - r[1] + 1) * CellsPerPage
  <2>1. s.pc = "scan" /\ s.regs \in SUBSET Regions /\ Sound(s.regs, s.gone)
    BY <1>1, <1>11 DEF ScanRegion, ThreadStates, ReadInv
  <2>2. CASE s.regs = {}
    BY <2>2, <1>3, <1>11 DEF ScanRegion
  <2>3. CASE s.regs # {} /\ ReadFault("script", a, w)
    <3>1. r \in s.regs /\ r[1] \in Pages /\ r[2] \in Pages
      BY <2>1, <2>3, FirstRegion DEF Regions
    <3>2. r[1] \in Nat /\ r[2] \in Nat /\ \A p \in r[1] .. r[2] : p \in Pages
      <4> HIDE DEF r
      <4> QED BY <3>1, SpaceAssumption DEF Pages
    <3>3. \A p \in PagesOf(a, w) : p \in r[1] .. r[2]
      BY <3>2, PagesOfRegion
    <3>4. \A p \in PagesOf(a, w) : p \in Pages /\ (prot[p] \in Accessible \/ p \in s.gone)
      BY <3>1, <3>2, <3>3, <2>1 DEF Sound
    <3> HIDE DEF r, a, w
    <3> QED BY <3>4, <1>1, <2>3, NoSurprise
  <2>4. CASE s.regs # {} /\ ~ReadFault("script", a, w)
    <3>1. /\ th' = [th EXCEPT !["script"].regs = @ \ {r}]
          /\ UNCHANGED <<memvars, cachevars, gone, crash>>
      BY <2>4, <1>11 DEF ScanRegion
    <3> HIDE DEF r
    <3>2. /\ th'["script"].pc = "scan" /\ th'["script"].gone = s.gone
          /\ th'["script"].regs = s.regs \ {r} /\ th'["revert"] = th["revert"]
      BY <3>1, <1>1, <2>1 DEF TypeInv, TypeOK, Threads, ThreadStates
    <3>3. UNCHANGED <<prot, cache, walk, gone, crash>>
      BY <3>1 DEF memvars, cachevars
    <3>4. \A t \in Threads : th'[t].pc = "scan" => Sound(th[t].regs, th[t].gone)'
      BY <2>1, <3>2, <3>3 DEF ReadInv, Sound, Threads
    <3>5. \A t \in Threads : th'[t].pc \in {"read", "record"} =>
            \A p \in Mine(t)' : p \in Pages /\ (prot'[p] \in Accessible \/ p \in th'[t].gone)
      BY <3>2, <3>3 DEF ReadInv, Threads, Mine
    <3>6. Sound(cache, gone)' /\ Sound(walk.found, walk.gone)' /\ crash' # "read"
      BY <3>3 DEF ReadInv, Sound
    <3> QED BY <3>4, <3>5, <3>6 DEF ReadInv
  <2> QED BY <2>2, <2>3, <2>4
<1> QED BY <1>5, <1>8, <1>9, <1>10, <1>11

\* The guarded writes.
LEMMA WritersReads ==
    ASSUME TypeInv, ReadInv, NEW t \in Threads,
           WriteQuery(t) \/ WriteProtect(t) \/ WriteCopy(t) \/ WriteRestore(t)
    PROVE  ReadInv'
<1> DEFINE ps == PagesOf(th[t].addr, th[t].len)
<1>0. TypeOK /\ th[t] \in ThreadStates
  BY DEF TypeInv, TypeOK
<1>1. ASSUME th' = [th EXCEPT ![t] = Idle] \/ \E pc \in {"protect", "restore"} : th' = Goto(t, pc),
             UNCHANGED <<prot, cachevars, gone, crash>>
      PROVE  ReadInv'
  <2>1. \A u \in Threads \ {t} : th'[u] = th[u]
    BY <1>0, <1>1 DEF TypeOK, Goto
  <2>2. th'[t].pc \in {"idle", "protect", "restore"}
    BY <1>0, <1>1, IdleStep, GotoStep DEF PCs
  <2> QED BY <1>1, <2>1, <2>2, ReadFrame DEF ReadInv
<1>2. CASE WriteQuery(t)
  BY <1>1, <1>2 DEF WriteQuery, memvars
<1>3. CASE WriteCopy(t)
  <2>1. ASSUME NEW k \in {"raced write", "write"}, Crash(k) PROVE ReadInv'
    BY <2>1, ReadFrame DEF Crash, memvars
  <2> QED BY <1>1, <1>3, <2>1 DEF WriteCopy
<1>4. CASE WriteProtect(t)
  <2> DEFINE np == [p \in Pages |-> IF p \in ps THEN "rwx" ELSE prot[p]]
             o  == prot[Page(th[t].addr)]
             moved == [th EXCEPT ![t].pc = "copy", ![t].old = o]
  <2>1. CASE th' = [th EXCEPT ![t] = Idle] /\ UNCHANGED <<memvars, cachevars, gone>>
    BY <1>1, <1>4, <2>1 DEF WriteProtect, memvars
  <2>2. CASE Reprotect(np, moved) /\ UNCHANGED <<mem, home, cache>>
    <3>1. np \in [Pages -> Prots] /\ o \in Prots
      <4>1. Page(th[t].addr) \in Pages
        BY <1>0, CellsOfPages DEF Cells, ThreadStates
      <4> QED BY <4>1, <1>0 DEF TypeOK, Prots
    <3>2. moved = [th EXCEPT ![t].pc = "copy", ![t].old = o] /\ Reprotect(np, moved)
      BY <2>2
    <3> HIDE DEF np, o, moved
    <3>3. /\ moved \in [Threads -> ThreadStates] /\ \A u \in Threads \ {t} : moved[u] = th[u]
          /\ moved[t].pc = "copy"
      BY <1>0, <3>1, <3>2, CopyStep
    <3>4. cache' = cache /\ crash' = crash
      BY <1>4, <2>2 DEF WriteProtect
    <3> QED BY <3>1, <3>2, <3>3, <3>4, ReprotectReads
  <2> QED BY <1>4, <2>1, <2>2 DEF WriteProtect
<1>5. CASE WriteRestore(t)
  <2> DEFINE np == [p \in Pages |-> IF p \in ps THEN th[t].old ELSE prot[p]]
             moved == [th EXCEPT ![t] = Idle]
  <2>1. CASE th' = moved /\ UNCHANGED <<memvars, cachevars, gone>>
    BY <1>1, <1>5, <2>1 DEF WriteRestore, memvars
  <2>2. CASE Reprotect(np, moved) /\ UNCHANGED <<mem, home, cache>>
    <3>1. np \in [Pages -> Prots]
      BY <1>0 DEF TypeOK, ThreadStates
    <3>2. moved = [th EXCEPT ![t] = Idle] /\ Reprotect(np, moved)
      BY <2>2
    <3> HIDE DEF np, moved
    <3>3. /\ moved \in [Threads -> ThreadStates] /\ \A u \in Threads \ {t} : moved[u] = th[u]
          /\ moved[t].pc = "idle"
      BY <1>0, <3>2, IdleStep
    <3>4. cache' = cache /\ crash' = crash
      BY <1>5, <2>2 DEF WriteRestore
    <3> QED BY <3>1, <3>2, <3>3, <3>4, ReprotectReads
  <2> QED BY <1>5, <2>1, <2>2 DEF WriteRestore
<1> QED BY <1>2, <1>3, <1>4, <1>5

\* The orchestrator reads nothing.
LEMMA OrchestratorReads ==
    ASSUME TypeInv, ReadInv, TakeEntries \/ DropRuntime \/ \E a \in Cells : RevertEntry(a)
    PROVE  ReadInv'
<1>1. CASE TakeEntries \/ DropRuntime
  BY <1>1, ReadFrame DEF TakeEntries, DropRuntime, ReadInv, memvars
<1>2. ASSUME NEW a \in Cells, RevertEntry(a) PROVE ReadInv'
  <2>1. th'["script"] = th["script"] /\ th'["revert"].pc = "query"
    BY <1>2 DEF RevertEntry, TypeInv, TypeOK, Threads, Idle
  <2> QED BY <1>2, <2>1, ReadFrame DEF RevertEntry, ReadInv, memvars, Threads
<1> QED BY <1>1, <1>2

\* A capture sees readable pages, and knows which of them went bad since.
LEMMA RefresherReads ==
    ASSUME TypeInv, ReadInv, WalkStart \/ WalkQuery \/ WalkPublish
    PROVE  ReadInv'
<1>1. UNCHANGED <<prot, th, crash>>
  BY DEF WalkStart, WalkQuery, WalkPublish, memvars
<1>2. \A t \in Threads :
        /\ th'[t].pc = "scan" => Sound(th[t].regs, th[t].gone)'
        /\ th'[t].pc \in {"read", "record"} =>
             \A p \in Mine(t)' : p \in Pages /\ (prot'[p] \in Accessible \/ p \in th'[t].gone)
  BY <1>1 DEF ReadInv, Sound, Mine
<1>3. CASE WalkStart
  <2>1. Sound(cache, gone)' /\ Sound(walk.found, walk.gone)'
    BY <1>1, <1>3 DEF WalkStart, ReadInv, Sound
  <2> QED BY <1>1, <1>2, <2>1 DEF ReadInv
<1>4. CASE WalkPublish
  <2>1. Sound(cache, gone)' /\ Sound(walk.found, walk.gone)'
    BY <1>1, <1>4 DEF WalkPublish, Asleep, ReadInv, Sound
  <2> QED BY <1>1, <1>2, <2>1 DEF ReadInv
<1>5. CASE WalkQuery
  <2> DEFINE r == VirtualQuery(walk.at)
             found == IF is_readable(prot[walk.at]) THEN walk.found \cup {r} ELSE walk.found
             at == IF Cardinality(found) >= MaxRegions THEN NPages ELSE r[2] + 1
  <2>1. walk.at \in Pages /\ cache' = cache /\ gone' = gone
    BY <1>5 DEF WalkQuery
  <2>2. r[1] = walk.at /\ \A q \in walk.at .. r[2] : prot[q] = prot[walk.at]
    BY <2>1, VirtualQueryIsRun
  <2>3. walk' = [walk EXCEPT !.found = found, !.at = at]
    BY <1>5 DEF WalkQuery
  <2>4. Sound(found, walk.gone)
    <3>1. is_readable(prot[walk.at]) => Sound({r}, walk.gone)
      BY <2>2 DEF Sound, is_readable, Accessible, Prots
    <3> HIDE DEF r
    <3> QED BY <3>1 DEF ReadInv, Sound
  <2> HIDE DEF found, at
  <2>5. walk'.found = found /\ walk'.gone = walk.gone
    BY <2>3 DEF TypeInv, TypeOK
  <2>6. Sound(cache, gone)' /\ Sound(walk.found, walk.gone)'
    BY <1>1, <2>1, <2>4, <2>5 DEF ReadInv, Sound
  <2> QED BY <1>1, <1>2, <2>6 DEF ReadInv
<1> QED BY <1>3, <1>4, <1>5

\* The game writes and reprotects.
LEMMA GameReads ==
    ASSUME TypeInv, ReadInv, \/ \E c \in Cells, v \in GameValues : GameWrite(c, v)
                             \/ \E p \in Pages, new \in Prots : GameProtect(p, new)
    PROVE  ReadInv'
<1>1. ASSUME NEW c \in Cells, NEW v \in GameValues, GameWrite(c, v) PROVE ReadInv'
  BY <1>1, ReadFrame DEF GameWrite, ReadInv
<1>2. ASSUME NEW p \in Pages, NEW new \in Prots, GameProtect(p, new) PROVE ReadInv'
  <2> DEFINE np == [prot EXCEPT ![p] = new]
  <2>1. np \in [Pages -> Prots] /\ th \in [Threads -> ThreadStates]
    BY DEF TypeInv, TypeOK
  <2>2. Reprotect(np, th) /\ cache' = cache /\ crash' = crash
    BY <1>2 DEF GameProtect
  <2> HIDE DEF np
  <2> QED BY <2>1, <2>2, ReprotectReads
<1> QED BY <1>1, <1>2

\* The first capture sees readable pages.
LEMMA InitReads == Init => ReadInv
<1> SUFFICES ASSUME Init PROVE ReadInv
  OBVIOUS
<1>1. Sound(cache, gone)
  <2> SUFFICES ASSUME NEW r \in cache, NEW p \in r[1] .. r[2] PROVE prot[p] \in Accessible
    BY DEF Sound
  <2>1. is_readable(prot[r[1]]) /\ prot[p] = prot[r[1]]
    BY DEF Init, Captured
  <2> QED BY <2>1 DEF is_readable, Accessible, Prots
<1>2. Sound(walk.found, walk.gone)
  BY DEF Init, Asleep, Sound
<1>3. \A t \in Threads : th[t].pc = "idle"
  BY DEF Init, Idle
<1> QED BY <1>1, <1>2, <1>3 DEF ReadInv, Init

\* Every step keeps what the readers rely on.
LEMMA NextReads == TypeInv /\ ReadInv /\ [Next]_vars => ReadInv'
<1> SUFFICES ASSUME TypeInv, ReadInv, [Next]_vars PROVE ReadInv'
  OBVIOUS
<1>1. CASE UNCHANGED vars
  BY <1>1, ReadFrame DEF vars, ReadInv, cachevars
<1>2. CASE \/ \E a \in Cells, w \in Widths :
                \/ host_read(a, w) \/ host_write(a, w) \/ host_write_if(a, w)
                \/ host_write_permanent(a, w)
           \/ host_scan
  BY <1>2, CallReads
<1>3. CASE ValidateRead \/ CopyRead \/ ScanRegion \/ TouchValidate \/ TouchRecord
  BY <1>3, ReadersReads
<1>4. CASE \E t \in Threads : WriteQuery(t) \/ WriteProtect(t) \/ WriteCopy(t) \/ WriteRestore(t)
  BY <1>4, WritersReads
<1>5. CASE TakeEntries \/ DropRuntime \/ \E a \in Cells : RevertEntry(a)
  BY <1>5, OrchestratorReads
<1>6. CASE WalkStart \/ WalkQuery \/ WalkPublish
  BY <1>6, RefresherReads
<1>7. CASE \/ \E c \in Cells, v \in GameValues : GameWrite(c, v)
           \/ \E p \in Pages, new \in Prots : GameProtect(p, new)
  BY <1>7, GameReads
<1> QED BY <1>1, <1>2, <1>3, <1>4, <1>5, <1>6, <1>7 DEF Next

\* A read faults only on a page that died after the capture that vouched for
\* it began: neither a page that was already inaccessible then nor a range the
\* live query vouched for ever crashes the game, whatever the refresher, the
\* guarded writes and the game do between the check and the copy (cache.rs).
THEOREM ReadsFaultOnlyStale == Spec => []ReadFaultsOnlyStale
<1>1. ReadInv => ReadFaultsOnlyStale
  BY DEF ReadInv, ReadFaultsOnlyStale
<1> QED BY <1>1, InitReads, NextReads, TypeInvHolds, PTL DEF Spec
-----------------------------------------------------------------------------
\* ---- guarded writes

\* A thread in the middle of a guarded write whose pages are changed by
\* somebody else is tainted on all of its pages.
LEMMA DisturbedMine ==
    ASSUME NEW t, NEW ps, NEW u \in Threads, u # t,
           th[u].pc \in {"protect", "copy", "restore"}, Mine(u) \cap ps # {}
    PROVE  Mine(u) \subseteq Disturbed(t, ps)
<1>1. Mine(u) = IF /\ u # t /\ th[u].pc \in {"protect", "copy", "restore"}
                   /\ PagesOf(th[u].addr, th[u].len) \cap ps # {}
                THEN PagesOf(th[u].addr, th[u].len) ELSE {}
  BY DEF Mine
<1> QED BY <1>1, Zenon DEF Disturbed

\* The part of WriteInv about one thread.
Guarded(u) ==
    /\ th[u].pc = "protect" =>
         \/ Mine(u) \subseteq tainted
         \/ \A p \in Mine(u) : prot[p] = prot[Page(th[u].addr)]
    /\ th[u].pc \in {"copy", "restore"} =>
         \/ Mine(u) \subseteq tainted
         \/ \A p \in Mine(u) : prot[p] = "rwx" /\ (p \in tainted \/ home[p] = th[u].old)

\* The first page of a range is one of its pages.
LEMMA FirstIsMine ==
    ASSUME TypeInv, NEW u \in Threads PROVE Page(th[u].addr) \in Mine(u)
<1>1. th[u] \in ThreadStates
  BY DEF TypeInv, TypeOK
<1>2. th[u].addr \in Cells /\ th[u].len \in Nat \ {0}
  BY <1>1 DEF ThreadStates
<1>3. th[u].addr \in Int
  BY <1>2 DEF Cells
<1> QED BY <1>2, <1>3, PagesOfRange DEF Mine

\* When ps change under somebody else, a guarded write on other pages is not
\* affected, and one on these pages is tainted as a whole.
LEMMA OthersGuarded ==
    ASSUME TypeInv, NEW u \in Threads, Guarded(u), NEW t, u # t, NEW ps,
           th'[u].pc = th[u].pc, th'[u].addr = th[u].addr, th'[u].len = th[u].len,
           th'[u].old = th[u].old,
           \A p \in Pages \ ps : /\ prot'[p] = prot[p] /\ home'[p] = home[p]
                                 /\ p \in tainted => p \in tainted',
           Disturbed(t, ps) \subseteq tainted'
    PROVE  Guarded(u)'
<1> SUFFICES ASSUME th[u].pc \in {"protect", "copy", "restore"} PROVE Guarded(u)'
  BY DEF Guarded
<1>1. Mine(u)' = Mine(u) /\ Mine(u) \subseteq Pages /\ Page(th[u].addr) \in Mine(u)
  BY FirstIsMine DEF Mine, TypeInv, Flow
<1>2. CASE Mine(u) \cap ps # {}
  <2>1. Mine(u)' \subseteq tainted'
    BY <1>1, <1>2, DisturbedMine
  <2> QED BY <2>1 DEF Guarded
<1>3. CASE Mine(u) \cap ps = {}
  <2>1. \A p \in Mine(u) : /\ p \in Pages \ ps /\ prot'[p] = prot[p] /\ home'[p] = home[p]
                           /\ p \in tainted => p \in tainted'
    BY <1>1, <1>3
  <2> QED BY <1>1, <2>1 DEF Guarded
<1> QED BY <1>2, <1>3

\* Steps that change no protection and leave the guarded writes where they are.
LEMMA WriteFrame ==
    ASSUME TypeInv, WriteInv, UNCHANGED <<prot, home, tainted>>, crash' # "write",
           \A t \in Threads : \/ /\ th'[t].pc = th[t].pc /\ th'[t].addr = th[t].addr
                                 /\ th'[t].len = th[t].len /\ th'[t].old = th[t].old
                              \/ /\ th[t].pc \notin {"copy", "restore"}
                                 /\ th'[t].pc \notin {"protect", "copy", "restore"}
    PROVE  WriteInv'
<1>1. ASSUME NEW t \in Threads PROVE Guarded(t)'
  <2>1. Guarded(t)
    BY DEF WriteInv, Guarded
  <2> QED BY <2>1 DEF Guarded, Mine
<1>2. ProtectionRestored'
  <2> SUFFICES ASSUME NEW p \in Pages, p \notin tainted, prot[p] # home[p]
               PROVE  \E u \in Threads : th'[u].pc \in {"copy", "restore"} /\ p \in Mine(u)'
    BY DEF ProtectionRestored, Mine
  <2>1. PICK u \in Threads : th[u].pc \in {"copy", "restore"} /\ p \in Mine(u)
    BY DEF WriteInv, ProtectionRestored, Mine
  <2>2. th'[u].pc = th[u].pc /\ Mine(u)' = Mine(u)
    BY <2>1 DEF Mine
  <2> QED BY <2>1, <2>2
<1> QED BY <1>1, <1>2 DEF WriteInv, Guarded

\* The query of a guarded write finds one protection on the whole range.
LEMMA WriteQueryWrites ==
    ASSUME TypeInv, WriteInv, NEW t \in Threads, WriteQuery(t) PROVE WriteInv'
<1>1. /\ th[t].pc = "query" /\ th[t].addr \in Cells /\ th[t].len \in Widths /\ TypeOK
      /\ "protect" \in PCs
  BY DEF TypeInv, TypeOK, Flow, WriteQuery, ThreadStates, PCs
<1>2. UNCHANGED <<prot, home, tainted, crash>>
  BY DEF WriteQuery, memvars
<1>3. CASE can_write(th[t].addr, th[t].len) /\ th' = Goto(t, "protect")
  <2>1. \A p \in Mine(t) : prot[p] = prot[Page(th[t].addr)]
    BY <1>1, <1>3, CanWriteInside DEF Mine
  <2>2. /\ \A u \in Threads \ {t} : th'[u] = th[u]
        /\ th'[t].pc = "protect" /\ th'[t].addr = th[t].addr /\ th'[t].len = th[t].len
    BY <1>1, <1>3, GotoStep
  <2>3. ASSUME NEW u \in Threads PROVE Guarded(u)'
    <3>1. CASE u = t
      BY <3>1, <1>2, <2>1, <2>2 DEF Guarded, Mine
    <3>2. CASE u # t
      <4>1. Guarded(u) /\ th'[u] = th[u]
        BY <3>2, <2>2 DEF WriteInv, Guarded
      <4> QED BY <4>1, <1>2 DEF Guarded, Mine
    <3> QED BY <3>1, <3>2
  <2>4. ProtectionRestored'
    BY <1>1, <1>2, <2>2 DEF WriteInv, ProtectionRestored
  <2> QED BY <1>2, <2>3, <2>4 DEF WriteInv, Guarded
<1>4. CASE th' = [th EXCEPT ![t] = Idle]
  <2>1. \A u \in Threads \ {t} : th'[u] = th[u]
    BY <1>1, <1>4, IdleStep
  <2>2. th'[t].pc = "idle"
    BY <1>1, <1>4, IdleStep
  <2> QED BY <1>1, <1>2, <2>1, <2>2, WriteFrame DEF WriteInv
<1> QED BY <1>3, <1>4 DEF WriteQuery

\* The first VirtualProtect: the protection of the first page is the game's
\* own protection of every page of the range that nobody interferes with.
LEMMA WriteProtectWrites ==
    ASSUME TypeInv, WriteInv, NEW t \in Threads, WriteProtect(t) PROVE WriteInv'
<1> DEFINE ps == PagesOf(th[t].addr, th[t].len)
           np == [p \in Pages |-> IF p \in ps THEN "rwx" ELSE prot[p]]
           o  == prot[Page(th[t].addr)]
           moved == [th EXCEPT ![t].pc = "copy", ![t].old = o]
<1>1. /\ th[t].pc = "protect" /\ th[t].addr \in Cells /\ TypeOK /\ crash' = crash
  BY DEF TypeInv, TypeOK, WriteProtect, ThreadStates
<1>2. CASE th' = [th EXCEPT ![t] = Idle] /\ UNCHANGED <<memvars, cachevars, gone>>
  <2>1. \A u \in Threads \ {t} : th'[u] = th[u]
    BY <1>1, <1>2, IdleStep
  <2>2. th'[t].pc = "idle"
    BY <1>1, <1>2, IdleStep
  <2> QED BY <1>1, <1>2, <2>1, <2>2, WriteFrame DEF WriteInv, memvars
<1>3. CASE Reprotect(np, moved) /\ Taint(t, ps) /\ UNCHANGED <<mem, home, cache, todo, lost>>
  <2>1. np \in [Pages -> Prots] /\ o \in Prots
    <3>1. Page(th[t].addr) \in Pages
      BY <1>1, CellsOfPages DEF Cells
    <3> QED BY <3>1, <1>1 DEF TypeOK, Prots
  <2>2. /\ \A p \in Pages \cap ps : np[p] = "rwx"
        /\ \A p \in Pages \ ps : np[p] = prot[p]
    OBVIOUS
  <2>3. moved = [th EXCEPT ![t].pc = "copy", ![t].old = o] /\ o = prot[Page(th[t].addr)]
        /\ ps = Mine(t)
    BY DEF Mine
  <2> HIDE DEF np, o, moved, ps
  <2>4. /\ moved \in [Threads -> ThreadStates] /\ \A u \in Threads \ {t} : moved[u] = th[u]
        /\ moved[t].pc = "copy" /\ moved[t].addr = th[t].addr /\ moved[t].len = th[t].len
        /\ moved[t].old = o
    BY <1>1, <2>1, <2>3, CopyStep
  <2>5. /\ prot' = np
        /\ \A u \in Threads : /\ th'[u].pc = moved[u].pc /\ th'[u].addr = moved[u].addr
                              /\ th'[u].len = moved[u].len /\ th'[u].old = moved[u].old
    BY <1>1, <1>3, <2>1, <2>4, ReprotectTypes
  <2>6. tainted' = tainted \cup Disturbed(t, ps) /\ home' = home
    BY <1>3 DEF Taint
  <2>7. ps \subseteq Pages /\ Mine(t)' = ps
    BY <1>1, <2>3, <2>4, <2>5 DEF TypeInv, Flow, Mine
  <2>8. ASSUME NEW p \in ps, p \notin tainted' PROVE prot[p] = home[p]
    <3>1. p \notin tainted /\ p \in Pages
      BY <2>6, <2>7, <2>8
    <3>2. ASSUME NEW u \in Threads, th[u].pc \in {"copy", "restore"}, p \in Mine(u) PROVE FALSE
      <4>1. u # t /\ Mine(u) \cap ps # {}
        BY <1>1, <2>8, <3>2
      <4>2. Mine(u) \subseteq Disturbed(t, ps)
        BY <4>1, <3>2, DisturbedMine
      <4> QED BY <4>2, <3>2, <2>6, <2>8
    <3> QED BY <3>1, <3>2 DEF WriteInv, ProtectionRestored, Mine
  <2>9. ASSUME NEW u \in Threads PROVE Guarded(u)'
    <3>1. CASE u = t
      <4>1. CASE ps \subseteq tainted
        BY <4>1, <3>1, <2>6, <2>7 DEF Guarded
      <4>2. CASE \A p \in ps : prot[p] = o
        <5>1. \A p \in ps : prot'[p] = "rwx" /\ (p \in tainted' \/ home'[p] = o)
          BY <4>2, <2>2, <2>5, <2>6, <2>7, <2>8
        <5> QED BY <5>1, <3>1, <2>4, <2>5, <2>7 DEF Guarded
      <4> QED BY <1>1, <2>3, <4>1, <4>2 DEF WriteInv
    <3>2. CASE u # t
      <4>1. Guarded(u)
        BY DEF WriteInv, Guarded
      <4>2. \A p \in Pages \ ps : /\ prot'[p] = prot[p] /\ home'[p] = home[p]
                                  /\ p \in tainted => p \in tainted'
        BY <2>2, <2>5, <2>6
      <4>3. th'[u].pc = th[u].pc /\ th'[u].addr = th[u].addr /\ th'[u].len = th[u].len
            /\ th'[u].old = th[u].old
        BY <2>4, <2>5, <3>2
      <4>4. Disturbed(t, ps) \subseteq tainted'
        BY <2>6
      <4> QED BY <3>2, <4>1, <4>2, <4>3, <4>4, OthersGuarded
    <3> QED BY <3>1, <3>2
  <2>10. ProtectionRestored'
    <3> SUFFICES ASSUME NEW p \in Pages, p \notin tainted', prot'[p] # home'[p]
                 PROVE  \E u \in Threads : th'[u].pc \in {"copy", "restore"} /\ p \in Mine(u)'
      BY DEF ProtectionRestored, Mine
    <3>1. CASE p \in ps
      BY <3>1, <2>4, <2>5, <2>7
    <3>2. CASE p \notin ps
      <4>1. p \notin tainted /\ prot[p] # home[p]
        BY <3>2, <2>2, <2>5, <2>6
      <4>2. PICK u \in Threads : th[u].pc \in {"copy", "restore"} /\ p \in Mine(u)
        BY <4>1 DEF WriteInv, ProtectionRestored, Mine
      <4>3. u # t /\ th'[u].pc = th[u].pc /\ Mine(u)' = Mine(u)
        BY <1>1, <4>2, <2>4, <2>5 DEF Mine
      <4> QED BY <4>2, <4>3
    <3> QED BY <3>1, <3>2
  <2> QED BY <1>1, <2>9, <2>10 DEF WriteInv, Guarded
<1> QED BY <1>2, <1>3 DEF WriteProtect

\* The copy: it faults only where somebody interfered.
LEMMA WriteCopyWrites ==
    ASSUME TypeInv, WriteInv, NEW t \in Threads, WriteCopy(t) PROVE WriteInv'
<1> DEFINE bad == Faulting(th[t].addr, th[t].len, Writable)
<1>1. /\ th[t].pc = "copy" /\ TypeOK /\ "restore" \in PCs /\ Mine(t) \subseteq Pages
  BY DEF TypeInv, Flow, WriteCopy, PCs
<1>2. CASE bad # {} /\ Crash(IF bad \subseteq tainted THEN "raced write" ELSE "write")
  <2>1. CASE Mine(t) \subseteq tainted
    <3>1. bad \subseteq tainted
      BY <2>1 DEF Faulting, Mine
    <3>2. Crash("raced write")
      BY <3>1, <1>2
    <3> QED BY <3>2, WriteFrame DEF Crash, memvars
  <2>2. CASE \A p \in Mine(t) : prot[p] = "rwx"
    <3>1. bad = {}
      BY <2>2, <1>1 DEF Faulting, Mine, Writable
    <3> QED BY <3>1, <1>2
  <2> QED BY <1>1, <2>1, <2>2 DEF WriteInv
<1>3. CASE th' = Goto(t, "restore") /\ UNCHANGED <<prot, home, tainted, crash>>
  <2>1. /\ \A u \in Threads \ {t} : th'[u] = th[u]
        /\ th'[t].pc = "restore" /\ th'[t].addr = th[t].addr /\ th'[t].len = th[t].len
        /\ th'[t].old = th[t].old
    BY <1>1, <1>3, GotoStep
  <2>2. ASSUME NEW u \in Threads PROVE Guarded(u)'
    <3>0. Guarded(u)
      BY DEF WriteInv, Guarded
    <3>1. CASE u = t
      BY <3>0, <3>1, <1>1, <1>3, <2>1 DEF Guarded, Mine
    <3>2. CASE u # t
      BY <3>0, <3>2, <1>3, <2>1 DEF Guarded, Mine
    <3> QED BY <3>1, <3>2
  <2>3. ProtectionRestored'
    <3> SUFFICES ASSUME NEW p \in Pages, p \notin tainted, prot[p] # home[p]
                 PROVE  \E u \in Threads : th'[u].pc \in {"copy", "restore"} /\ p \in Mine(u)'
      BY <1>3 DEF ProtectionRestored, Mine
    <3>1. PICK u \in Threads : th[u].pc \in {"copy", "restore"} /\ p \in Mine(u)
      BY DEF WriteInv, ProtectionRestored, Mine
    <3>2. th'[u].pc \in {"copy", "restore"} /\ Mine(u)' = Mine(u)
      BY <2>1, <3>1 DEF Mine
    <3> QED BY <3>1, <3>2
  <2> QED BY <1>3, <2>2, <2>3 DEF WriteInv, Guarded
<1> QED BY <1>2, <1>3 DEF WriteCopy

\* The second VirtualProtect puts back what the game had, or the range is
\* tainted; it fails only when somebody freed a page, which tainted the range.
LEMMA WriteRestoreWrites ==
    ASSUME TypeInv, WriteInv, NEW t \in Threads, WriteRestore(t) PROVE WriteInv'
<1> DEFINE ps == PagesOf(th[t].addr, th[t].len)
           np == [p \in Pages |-> IF p \in ps THEN th[t].old ELSE prot[p]]
           moved == [th EXCEPT ![t] = Idle]
<1>1. /\ th[t].pc = "restore" /\ th[t].old \in Prots /\ TypeOK /\ crash' = crash
      /\ ps = Mine(t) /\ ps \subseteq Pages
  BY DEF TypeInv, TypeOK, Flow, WriteRestore, ThreadStates, Mine
<1>2. /\ moved \in [Threads -> ThreadStates] /\ \A u \in Threads \ {t} : moved[u] = th[u]
      /\ moved[t].pc = "idle"
  BY <1>1, IdleStep
<1>3. np \in [Pages -> Prots]
  BY <1>1 DEF TypeOK
<1>4. /\ \A p \in ps : np[p] = th[t].old
      /\ \A p \in Pages \ ps : np[p] = prot[p]
  BY <1>1
<1>5. \/ ps \subseteq tainted
      \/ \A p \in ps : prot[p] = "rwx" /\ (p \in tainted \/ home[p] = th[t].old)
  BY <1>1 DEF WriteInv
<1>6. CASE (\E p \in ps : prot[p] = "free") /\ th' = moved /\ UNCHANGED <<memvars, cachevars, gone>>
  <2>0. UNCHANGED <<prot, home, tainted>> /\ ps \subseteq tainted
    BY <1>5, <1>6 DEF memvars
  <2> HIDE DEF np, moved, ps
  <2>1. ASSUME NEW u \in Threads PROVE Guarded(u)'
    <3>0. Guarded(u)
      BY DEF WriteInv, Guarded
    <3>1. CASE u = t
      BY <3>1, <1>2, <1>6 DEF Guarded
    <3>2. CASE u # t
      BY <3>0, <3>2, <1>2, <1>6, <2>0 DEF Guarded, Mine
    <3> QED BY <3>1, <3>2
  <2>2. ProtectionRestored'
    <3> SUFFICES ASSUME NEW p \in Pages, p \notin tainted, prot[p] # home[p]
                 PROVE  \E u \in Threads : th'[u].pc \in {"copy", "restore"} /\ p \in Mine(u)'
      BY <2>0 DEF ProtectionRestored, Mine
    <3>1. PICK u \in Threads : th[u].pc \in {"copy", "restore"} /\ p \in Mine(u)
      BY DEF WriteInv, ProtectionRestored, Mine
    <3>2. u # t
      BY <3>1, <1>1, <2>0
    <3>3. th'[u] = th[u] /\ Mine(u)' = Mine(u)
      BY <3>2, <1>2, <1>6 DEF Mine
    <3> QED BY <3>1, <3>3
  <2> QED BY <1>1, <2>1, <2>2 DEF WriteInv, Guarded
<1>7. CASE Reprotect(np, moved) /\ Taint(t, ps) /\ UNCHANGED <<mem, home, cache>>
  <2> HIDE DEF np, moved, ps
  <2>5. /\ prot' = np
        /\ \A u \in Threads : /\ th'[u].pc = moved[u].pc /\ th'[u].addr = moved[u].addr
                              /\ th'[u].len = moved[u].len /\ th'[u].old = moved[u].old
    BY <1>1, <1>2, <1>3, <1>7, ReprotectTypes
  <2>6. tainted' = tainted \cup Disturbed(t, ps) /\ home' = home
    BY <1>7 DEF Taint
  <2>9. ASSUME NEW u \in Threads PROVE Guarded(u)'
    <3>1. CASE u = t
      BY <3>1, <1>2, <2>5 DEF Guarded
    <3>2. CASE u # t
      <4>1. Guarded(u)
        BY DEF WriteInv, Guarded
      <4>2. \A p \in Pages \ ps : /\ prot'[p] = prot[p] /\ home'[p] = home[p]
                                  /\ p \in tainted => p \in tainted'
        BY <1>4, <2>5, <2>6
      <4>3. th'[u].pc = th[u].pc /\ th'[u].addr = th[u].addr /\ th'[u].len = th[u].len
            /\ th'[u].old = th[u].old
        BY <1>2, <2>5, <3>2
      <4>4. Disturbed(t, ps) \subseteq tainted'
        BY <2>6
      <4> QED BY <3>2, <4>1, <4>2, <4>3, <4>4, OthersGuarded
    <3> QED BY <3>1, <3>2
  <2>10. ProtectionRestored'
    <3> SUFFICES ASSUME NEW p \in Pages, p \notin tainted', prot'[p] # home'[p]
                 PROVE  \E u \in Threads : th'[u].pc \in {"copy", "restore"} /\ p \in Mine(u)'
      BY DEF ProtectionRestored, Mine
    <3>1. CASE p \in ps
      BY <3>1, <1>4, <1>5, <2>5, <2>6
    <3>2. CASE p \notin ps
      <4>1. p \notin tainted /\ prot[p] # home[p]
        BY <3>2, <1>4, <2>5, <2>6
      <4>2. PICK u \in Threads : th[u].pc \in {"copy", "restore"} /\ p \in Mine(u)
        BY <4>1 DEF WriteInv, ProtectionRestored, Mine
      <4>3. u # t
        BY <4>2, <3>2, <1>1
      <4>4. th'[u].pc = th[u].pc /\ Mine(u)' = Mine(u)
        BY <4>3, <1>2, <2>5 DEF Mine
      <4> QED BY <4>2, <4>4
    <3> QED BY <3>1, <3>2
  <2> QED BY <1>1, <2>9, <2>10 DEF WriteInv, Guarded
<1> QED BY <1>6, <1>7 DEF WriteRestore

\* The script's and the orchestrator's other steps end no guarded write.
LEMMA OthersWrites ==
    ASSUME TypeInv, WriteInv,
           \/ \E a \in Cells, w \in Widths :
                \/ host_read(a, w) \/ host_write(a, w) \/ host_write_if(a, w)
                \/ host_write_permanent(a, w)
           \/ host_scan
           \/ ValidateRead \/ CopyRead \/ ScanRegion \/ TouchValidate \/ TouchRecord
           \/ TakeEntries \/ DropRuntime \/ \E a \in Cells : RevertEntry(a)
           \/ WalkStart \/ WalkQuery \/ WalkPublish
           \/ \E c \in Cells, v \in GameValues : GameWrite(c, v)
    PROVE  WriteInv'
<1> DEFINE s == th["script"]
<1>0. s \in ThreadStates /\ th["revert"] \in ThreadStates /\ TypeOK
      /\ "script" \in Threads /\ "revert" \in Threads
  BY DEF TypeInv, TypeOK, Threads
<1>1. ASSUME s.pc \notin {"protect", "copy", "restore"}, th'["revert"] = th["revert"],
             th'["script"].pc \notin {"protect", "copy", "restore"},
             UNCHANGED <<prot, home, tainted>>, crash' # "write"
      PROVE  WriteInv'
  BY <1>1, WriteFrame DEF Threads
<1>2. ASSUME UNCHANGED <<prot, home, tainted, th>>, crash' # "write" PROVE WriteInv'
  BY <1>2, WriteFrame
<1>3. crash # "write"
  BY DEF WriteInv
<1>4. ASSUME NEW op, NEW pc \in {"validate", "touch", "query", "scan"}, NEW a, NEW w, NEW regs,
             NEW strange, Call(op, pc, a, w, regs, strange)
      PROVE  WriteInv'
  <2>1. th'["script"].pc = pc /\ th'["revert"] = th["revert"] /\ s.pc = "idle"
    BY <1>4, ScriptStep DEF Call, Idle
  <2> QED BY <1>1, <1>3, <1>4, <2>1 DEF Call, memvars
<1>5. ASSUME NEW t, NEW a, NEW w, ReadFault(t, a, w) PROVE WriteInv'
  BY <1>2, <1>5 DEF ReadFault, Crash, memvars
<1>6. ASSUME th' = [th EXCEPT !["script"] = Idle] PROVE th'["script"].pc = "idle"
                                                     /\ th'["revert"] = th["revert"]
  BY <1>6, ScriptStep DEF Idle
<1>7. ASSUME NEW pc \in PCs, \/ th' = [Goto("script", pc) EXCEPT !["script"].gone = {}]
                             \/ th' = Goto("script", pc)
                             \/ \E g : th' = [th EXCEPT !["script"].pc = pc, !["script"].gone = g]
      PROVE  th'["script"].pc = pc /\ th'["revert"] = th["revert"]
  <2>1. CASE th' = [Goto("script", pc) EXCEPT !["script"].gone = {}]
    BY <1>0, <2>1 DEF Goto, TypeOK, Threads, ThreadStates
  <2>2. CASE th' = Goto("script", pc)
    BY <1>0, <2>2 DEF Goto, TypeOK, Threads, ThreadStates
  <2>3. ASSUME NEW g, th' = [th EXCEPT !["script"].pc = pc, !["script"].gone = g]
        PROVE  th'["script"].pc = pc /\ th'["revert"] = th["revert"]
    BY <1>0, <2>3 DEF TypeOK, Threads, ThreadStates
  <2> QED BY <1>7, <2>1, <2>2, <2>3
<1>8. CASE ValidateRead
  <2>1. /\ s.pc = "validate" /\ UNCHANGED <<prot, home, tainted, crash>>
        /\ \/ th' = [th EXCEPT !["script"] = Idle]
           \/ \E g : th' = [th EXCEPT !["script"].pc = "read", !["script"].gone = g]
    BY <1>8 DEF ValidateRead, memvars
  <2> QED BY <1>1, <1>3, <1>6, <1>7, <2>1 DEF PCs
<1>9. CASE CopyRead
  <2>1. CASE ~ReadFault("script", s.addr, s.len)
    <3>1. /\ s.pc = "read" /\ UNCHANGED <<prot, home, tainted, crash>>
          /\ \/ th' = [th EXCEPT !["script"] = Idle]
             \/ th' = [Goto("script", "touch") EXCEPT !["script"].gone = {}]
      BY <1>9, <2>1 DEF CopyRead, memvars
    <3> QED BY <1>1, <1>3, <1>6, <1>7, <3>1 DEF PCs
  <2> QED BY <1>5, <2>1
<1>10. CASE TouchRecord
  <2>1. CASE ~ReadFault("script", s.addr, s.len)
    <3>1. /\ s.pc = "record" /\ UNCHANGED <<prot, home, tainted, crash>>
          /\ th' = [Goto("script", "query") EXCEPT !["script"].gone = {}]
      BY <1>10, <2>1 DEF TouchRecord, memvars
    <3> QED BY <1>1, <1>3, <1>7, <3>1 DEF PCs
  <2> QED BY <1>5, <2>1
<1>11. CASE TouchValidate
  <2>1. /\ s.pc = "touch" /\ UNCHANGED <<prot, home, tainted, crash>>
        /\ \/ th' = Goto("script", "query")
           \/ \E g : th' = [th EXCEPT !["script"].pc = "record", !["script"].gone = g]
    BY <1>11 DEF TouchValidate, memvars
  <2> QED BY <1>1, <1>3, <1>7, <2>1 DEF PCs
<1>12. CASE ScanRegion
  <2> DEFINE r == CHOOSE r \in s.regs : \A q \in s.regs : r[1] <= q[1]
             a == r[1] * CellsPerPage
             w == (r[2] - r[1] + 1) * CellsPerPage
  <2>1. CASE ReadFault("script", a, w)
    BY <1>5, <2>1
  <2>2. CASE ~ReadFault("script", a, w)
    <3>1. /\ s.pc = "scan" /\ UNCHANGED <<prot, home, tainted, crash>>
          /\ \/ th' = [th EXCEPT !["script"] = Idle]
             \/ th' = [th EXCEPT !["script"].regs = @ \ {r}]
      BY <1>12, <2>2 DEF ScanRegion, memvars
    <3> HIDE DEF r
    <3>2. CASE th' = [th EXCEPT !["script"].regs = @ \ {r}]
      <4>1. th'["script"].pc = "scan" /\ th'["revert"] = th["revert"]
        BY <3>1, <3>2, <1>0 DEF TypeOK, Threads, ThreadStates
      <4> QED BY <1>1, <1>3, <3>1, <4>1
    <3> QED BY <1>1, <1>3, <1>6, <3>1, <3>2
  <2> QED BY <2>1, <2>2
<1>13. CASE TakeEntries \/ DropRuntime \/ WalkStart \/ WalkQuery \/ WalkPublish
            \/ \E c \in Cells, v \in GameValues : GameWrite(c, v)
  BY <1>13, <1>2, <1>3 DEF TakeEntries, DropRuntime, WalkStart, WalkQuery, WalkPublish,
     GameWrite, memvars
<1>14. ASSUME NEW a \in Cells, RevertEntry(a) PROVE WriteInv'
  <2>1. /\ th'["script"] = th["script"] /\ th'["revert"].pc = "query" /\ th["revert"].pc = "idle"
        /\ UNCHANGED <<prot, home, tainted, crash>>
    BY <1>14, <1>0 DEF RevertEntry, TypeOK, Idle, memvars, Threads
  <2> QED BY <1>3, <2>1, WriteFrame DEF Threads
<1> QED BY <1>4, <1>8, <1>9, <1>10, <1>11, <1>12, <1>13, <1>14
        DEF host_read, host_write, host_write_if, host_write_permanent, host_scan

\* The game takes a page back: its protection is the game's own again.
LEMMA GameProtectWrites ==
    ASSUME TypeInv, WriteInv, NEW p \in Pages, NEW new \in Prots, GameProtect(p, new)
    PROVE  WriteInv'
<1> DEFINE np == [prot EXCEPT ![p] = new]
<1>1. /\ np \in [Pages -> Prots] /\ th \in [Threads -> ThreadStates] /\ TypeOK
      /\ np[p] = new /\ \A q \in Pages \ {p} : np[q] = prot[q]
  BY DEF TypeInv, TypeOK
<1>2. Reprotect(np, th) /\ crash' = crash /\ tainted' = (tainted \ {p}) \cup Disturbed("game", {p})
      /\ home' = [home EXCEPT ![p] = new]
  BY DEF GameProtect
<1> HIDE DEF np
<1>3. /\ prot' = np
      /\ \A u \in Threads : /\ th'[u].pc = th[u].pc /\ th'[u].addr = th[u].addr
                            /\ th'[u].len = th[u].len /\ th'[u].old = th[u].old
  BY <1>1, <1>2, ReprotectTypes
<1>4. home'[p] = new /\ \A q \in Pages \ {p} : home'[q] = home[q]
  BY <1>1, <1>2 DEF TypeOK
<1>5. ASSUME NEW u \in Threads PROVE Guarded(u)'
  <2>1. Guarded(u) /\ u # "game"
    BY DEF WriteInv, Guarded, Threads
  <2>2. \A q \in Pages \ {p} : /\ prot'[q] = prot[q] /\ home'[q] = home[q]
                               /\ q \in tainted => q \in tainted'
    BY <1>1, <1>2, <1>3, <1>4
  <2>3. Disturbed("game", {p}) \subseteq tainted'
    BY <1>2
  <2> QED BY <1>3, <2>1, <2>2, <2>3, OthersGuarded
<1>6. ProtectionRestored'
  <2> SUFFICES ASSUME NEW q \in Pages, q \notin tainted', prot'[q] # home'[q]
               PROVE  \E u \in Threads : th'[u].pc \in {"copy", "restore"} /\ q \in Mine(u)'
    BY DEF ProtectionRestored, Mine
  <2>1. q # p
    BY <1>1, <1>3, <1>4
  <2>2. q \notin tainted /\ prot[q] # home[q]
    BY <2>1, <1>1, <1>2, <1>3, <1>4
  <2>3. PICK u \in Threads : th[u].pc \in {"copy", "restore"} /\ q \in Mine(u)
    BY <2>2 DEF WriteInv, ProtectionRestored, Mine
  <2> QED BY <1>3, <2>3 DEF Mine
<1> QED BY <1>2, <1>5, <1>6 DEF WriteInv, Guarded

\* At the beginning nobody writes and every page is the game's.
LEMMA InitWrites == Init => WriteInv
<1> SUFFICES ASSUME Init PROVE WriteInv
  OBVIOUS
<1>1. \A t \in Threads : th[t].pc = "idle"
  BY DEF Init, Idle
<1> QED BY <1>1 DEF WriteInv, ProtectionRestored, Init

\* Every step keeps what the guarded writes rely on.
LEMMA NextWrites == TypeInv /\ WriteInv /\ [Next]_vars => WriteInv'
<1> SUFFICES ASSUME TypeInv, WriteInv, [Next]_vars PROVE WriteInv'
  OBVIOUS
<1>1. CASE UNCHANGED vars
  BY <1>1, WriteFrame DEF vars, WriteInv
<1>2. CASE \E t \in Threads : WriteQuery(t) \/ WriteProtect(t) \/ WriteCopy(t) \/ WriteRestore(t)
  BY <1>2, WriteQueryWrites, WriteProtectWrites, WriteCopyWrites, WriteRestoreWrites
<1>3. CASE \E p \in Pages, new \in Prots : GameProtect(p, new)
  BY <1>3, GameProtectWrites
<1> QED BY <1>1, <1>2, <1>3, OthersWrites DEF Next

\* What the guarded writes rely on holds in every reachable state.
LEMMA WriteInvHolds == Spec => []WriteInv
  BY InitWrites, NextWrites, TypeInvHolds, PTL DEF Spec

\* A guarded write never faults by itself: when its copy does, another thread
\* or the game changed the protection of its range between the query and the
\* copy (write.rs).
THEOREM LoneWritesNeverFault == Spec => []LoneWriteNeverFaults
<1>1. WriteInv => LoneWriteNeverFaults
  BY DEF WriteInv, LoneWriteNeverFaults
<1> QED BY <1>1, WriteInvHolds, PTL

\* When no guarded write is under way on a page, the page has the protection
\* the game gave it, unless two parties changed it at the same time (write.rs).
THEOREM ProtectionsRestored == Spec => []ProtectionRestored
<1>1. WriteInv => ProtectionRestored
  BY DEF WriteInv
<1> QED BY <1>1, WriteInvHolds, PTL
=============================================================================
