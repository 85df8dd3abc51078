-------------------------- MODULE MemJournalProofs --------------------------
(***************************************************************************)
(* Proofs about the write journal of MemAccess: it implements the          *)
(* revertible memory, it accounts for every script byte, and plain use is  *)
(* reverted completely.                                                    *)
(***************************************************************************)
EXTENDS MemAccessProofs

\* A cell that is not lost lies in at most one entry, of J or of T.
Once(J, T, L) ==
    \A c \in Cells \ L : \A a, b \in Cells :
        /\ c \in DOMAIN J[a] /\ c \in DOMAIN J[b] => a = b
        /\ c \in DOMAIN T[a] /\ c \in DOMAIN T[b] => a = b
        /\ ~(c \in DOMAIN J[a] /\ c \in DOMAIN T[b])

\* The refinement mapping as a function of the journal, of the entries being
\* reverted and of the lost cells.
Bar(J, T, L) ==
    LET held == { J[a] : a \in Cells } \cup { T[a] : a \in Cells } IN
    [c \in (Covered(J) \cup Covered(T)) \ L |-> (CHOOSE e \in held : c \in DOMAIN e)[c]]

JournalInv == Once(journal, todo, lost)

\* savedBar is that function, now and in the next state.
LEMMA SavedIsBar ==
    /\ savedBar = Bar(journal, todo, lost)
    /\ savedBar' = Bar(journal', todo', lost')
  BY DEF savedBar, Bar

\* What is covered by a map of entries.
LEMMA CoveredMeans ==
    ASSUME NEW J, NEW c PROVE c \in Covered(J) <=> \E a \in Cells : c \in DOMAIN J[a]
  BY DEF Covered

\* What is covered lies in the space.
LEMMA CoveredInside ==
    ASSUME TypeInv PROVE Covered(journal) \subseteq Cells /\ Covered(todo) \subseteq Cells
<1>1. ASSUME NEW a \in Cells PROVE DOMAIN journal[a] \subseteq Cells /\ DOMAIN todo[a] \subseteq Cells
  <2>1. journal[a] \in EntriesAt(a) /\ todo[a] \in EntriesAt(a)
    BY DEF TypeInv, TypeOK
  <2> QED BY <2>1, EntryShape
<1> QED BY <1>1 DEF Covered

\* The cells that are saved.
LEMMA BarDomain ==
    ASSUME NEW J, NEW T, NEW L PROVE DOMAIN Bar(J, T, L) = (Covered(J) \cup Covered(T)) \ L
  BY DEF Bar

\* A saved byte is that of the one entry that covers its cell.
LEMMA BarValue ==
    ASSUME NEW J, NEW T, NEW L, Once(J, T, L), NEW c \in Cells \ L, NEW a \in Cells
    PROVE  /\ c \in DOMAIN J[a] => Bar(J, T, L)[c] = J[a][c]
           /\ c \in DOMAIN T[a] => Bar(J, T, L)[c] = T[a][c]
<1> DEFINE held == { J[b] : b \in Cells } \cup { T[b] : b \in Cells }
           e == CHOOSE x \in held : c \in DOMAIN x
<1> SUFFICES ASSUME c \in DOMAIN J[a] \/ c \in DOMAIN T[a]
             PROVE  /\ c \in DOMAIN J[a] => Bar(J, T, L)[c] = J[a][c]
                    /\ c \in DOMAIN T[a] => Bar(J, T, L)[c] = T[a][c]
  OBVIOUS
<1>1. c \in (Covered(J) \cup Covered(T)) \ L
  BY CoveredMeans
<1>2. Bar(J, T, L)[c] = e[c]
  BY <1>1 DEF Bar
<1>3. e \in held /\ c \in DOMAIN e
  <2>1. \E x \in held : c \in DOMAIN x
    OBVIOUS
  <2> QED BY <2>1
<1>4. PICK b \in Cells : e = J[b] \/ e = T[b]
  BY <1>3
<1> HIDE DEF e, held
<1>5. CASE c \in DOMAIN J[a]
  <2>1. e = J[a]
    BY <1>3, <1>4, <1>5 DEF Once
  <2>2. ~(c \in DOMAIN T[a])
    BY <1>5 DEF Once
  <2> QED BY <1>2, <2>1, <2>2
<1>6. CASE c \in DOMAIN T[a]
  <2>1. e = T[a]
    BY <1>3, <1>4, <1>6 DEF Once
  <2>2. ~(c \in DOMAIN J[a])
    BY <1>6 DEF Once
  <2> QED BY <1>2, <2>1, <2>2
<1> QED BY <1>5, <1>6

\* The same facts about the states before and after a step.
LEMMA CoveredCells ==
    ASSUME NEW c
    PROVE  /\ c \in Covered(journal)  <=> \E a \in Cells : c \in DOMAIN journal[a]
           /\ c \in Covered(todo)     <=> \E a \in Cells : c \in DOMAIN todo[a]
           /\ c \in Covered(journal') <=> \E a \in Cells : c \in DOMAIN journal'[a]
           /\ c \in Covered(todo')    <=> \E a \in Cells : c \in DOMAIN todo'[a]
  BY CoveredMeans, Zenon

\* The saved cells before and after a step.
LEMMA SavedCells ==
    /\ DOMAIN savedBar  = (Covered(journal) \cup Covered(todo)) \ lost
    /\ DOMAIN savedBar' = (Covered(journal') \cup Covered(todo')) \ lost'
  BY DEF savedBar

\* The saved bytes before a step.
LEMMA SavedNow ==
    ASSUME JournalInv, NEW c \in Cells, c \notin lost, NEW a \in Cells
    PROVE  /\ c \in DOMAIN journal[a] => savedBar[c] = journal[a][c]
           /\ c \in DOMAIN todo[a] => savedBar[c] = todo[a][c]
<1>1. c \in Cells \ lost /\ Once(journal, todo, lost)
  BY DEF JournalInv
<1>2. savedBar = Bar(journal, todo, lost)
  BY SavedIsBar
<1> QED BY <1>1, <1>2, BarValue

\* The saved bytes after a step.
LEMMA SavedNext ==
    ASSUME Once(journal', todo', lost'), NEW c \in Cells, c \notin lost', NEW a \in Cells
    PROVE  /\ c \in DOMAIN journal'[a] => savedBar'[c] = journal'[a][c]
           /\ c \in DOMAIN todo'[a] => savedBar'[c] = todo'[a][c]
<1>1. c \in Cells \ lost'
  OBVIOUS
<1>2. savedBar' = Bar(journal', todo', lost')
  BY SavedIsBar
<1>3. /\ c \in DOMAIN journal'[a] => Bar(journal', todo', lost')[c] = journal'[a][c]
      /\ c \in DOMAIN todo'[a] => Bar(journal', todo', lost')[c] = todo'[a][c]
  BY <1>1, BarValue
<1> QED BY <1>2, <1>3
-----------------------------------------------------------------------------
\* ---- the steps of the revertible memory

\* The originals are the same when no entry moves.
LEMMA SameEntries ==
    ASSUME UNCHANGED <<journal, todo, lost>>
    PROVE  savedBar' = savedBar /\ (JournalInv => JournalInv')
<1>1. savedBar' = savedBar
  BY SavedIsBar
<1> QED BY <1>1 DEF JournalInv

\* What TouchRecord does when its read does not fault.
LEMMA RecordStep ==
    ASSUME TypeInv, TouchRecord, crash' = "no"
    PROVE  LET a == th["script"].addr
               C == Span(a, th["script"].len) IN
           /\ a \in Cells /\ C \subseteq Cells /\ journal[a] = Absent
           /\ journal' = [journal EXCEPT ![a] = [c \in C |-> mem[c]]]
           /\ lost' = lost \cup (C \cap (Covered(journal) \cup Covered(todo)))
           /\ UNCHANGED <<mem, todo>>
<1> DEFINE s == th["script"]
<1>1. s.addr \in Cells /\ s.len \in Widths /\ journal[s.addr] = Absent
  BY DEF TypeInv, TypeOK, Flow, TouchRecord, Threads, ThreadStates
<1>2. ~ReadFault("script", s.addr, s.len)
  BY DEF ReadFault, Crash
<1>3. /\ Faulting(s.addr, s.len, Accessible) = {}
      /\ journal' = [journal EXCEPT ![s.addr] = [c \in Span(s.addr, s.len) |-> mem[c]]]
      /\ lost' = lost \cup (Span(s.addr, s.len) \cap (Covered(journal) \cup Covered(todo)))
      /\ UNCHANGED <<mem, todo>>
  BY <1>2 DEF TouchRecord, Lose, memvars
<1>4. Span(s.addr, s.len) \subseteq Cells
  BY <1>1, <1>3, InCells
<1> QED BY <1>1, <1>3, <1>4

\* Recording an entry saves its cells.
LEMMA RecordSaves ==
    ASSUME TypeInv, JournalInv, TouchRecord, crash' = "no"
    PROVE  JournalInv' /\ \E C \in SUBSET Cells : Abs!Save(C)
<1> DEFINE a == th["script"].addr
           C == Span(a, th["script"].len)
<1>1. /\ a \in Cells /\ C \subseteq Cells /\ journal[a] = Absent
      /\ journal' = [journal EXCEPT ![a] = [c \in C |-> mem[c]]]
      /\ lost' = lost \cup (C \cap (Covered(journal) \cup Covered(todo)))
      /\ UNCHANGED <<mem, todo>>
  BY RecordStep
<1> HIDE DEF a, C
<1>2. /\ \A b \in Cells \ {a} : journal'[b] = journal[b]
      /\ DOMAIN journal'[a] = C /\ \A c \in C : journal'[a][c] = mem[c]
      /\ DOMAIN journal[a] = {}
  BY <1>1 DEF TypeInv, TypeOK, Absent
<1>3. Covered(journal') = Covered(journal) \cup C
  <2>1. \A c : c \in Covered(journal') <=> c \in Covered(journal) \/ c \in C
    BY <1>1, <1>2, CoveredCells
  <2> QED BY <2>1
<1>4. ASSUME NEW c \in Cells \ lost', c \in C, NEW b \in Cells
      PROVE  ~(c \in DOMAIN journal[b]) /\ ~(c \in DOMAIN todo[b])
  BY <1>1, <1>4, CoveredCells
<1>5. Once(journal', todo', lost')
  <2> SUFFICES ASSUME NEW c \in Cells \ lost', NEW d \in Cells, NEW b \in Cells
               PROVE  /\ c \in DOMAIN journal'[d] /\ c \in DOMAIN journal'[b] => d = b
                      /\ c \in DOMAIN todo'[d] /\ c \in DOMAIN todo'[b] => d = b
                      /\ ~(c \in DOMAIN journal'[d] /\ c \in DOMAIN todo'[b])
    BY DEF Once
  <2>1. c \in Cells \ lost
    BY <1>1
  <2>2. CASE c \in C
    BY <2>2, <1>1, <1>2, <1>4
  <2>3. CASE c \notin C
    BY <2>1, <2>3, <1>1, <1>2 DEF JournalInv, Once
  <2> QED BY <2>2, <2>3
<1>6. DOMAIN savedBar = (Covered(journal) \cup Covered(todo)) \ lost
  BY SavedCells
<1>7. DOMAIN savedBar' = (DOMAIN savedBar \cup C) \ lost'
  <2>1. DOMAIN savedBar' = (Covered(journal') \cup Covered(todo')) \ lost'
    BY SavedCells
  <2> QED BY <2>1, <1>1, <1>3, <1>6
<1>8. lost' = lost \cup (C \cap DOMAIN savedBar)
  BY <1>1, <1>6
<1>9. ASSUME NEW c \in DOMAIN savedBar'
      PROVE  savedBar'[c] = IF c \in DOMAIN savedBar THEN savedBar[c] ELSE mem[c]
  <2>0. c \in Cells /\ c \notin lost' /\ c \notin lost
    <3>1. c \in Cells
      BY <1>1, <1>6, <1>7, CoveredInside
    <3> QED BY <3>1, <1>1, <1>7, <1>9
  <2>1. CASE c \in C
    <3>1. c \notin DOMAIN savedBar
      BY <2>0, <2>1, <1>8
    <3>2. savedBar'[c] = journal'[a][c]
      BY <2>0, <2>1, <1>1, <1>2, <1>5, SavedNext
    <3> QED BY <3>1, <3>2, <2>1, <1>2
  <2>2. CASE c \notin C
    <3>1. c \in DOMAIN savedBar
      BY <2>2, <1>7
    <3>2. PICK b \in Cells : c \in DOMAIN journal[b] \/ c \in DOMAIN todo[b]
      BY <3>1, <1>6, CoveredCells
    <3>3. CASE c \in DOMAIN journal[b]
      <4>1. b # a /\ journal'[b] = journal[b]
        BY <3>3, <1>2
      <4>2. savedBar[c] = journal[b][c]
        BY <3>3, <2>0, SavedNow
      <4>3. savedBar'[c] = journal'[b][c]
        BY <3>3, <4>1, <2>0, <1>5, SavedNext
      <4> QED BY <3>1, <4>1, <4>2, <4>3
    <3>4. CASE c \in DOMAIN todo[b]
      <4>2. savedBar[c] = todo[b][c]
        BY <3>4, <2>0, SavedNow
      <4>3. savedBar'[c] = todo'[b][c]
        BY <3>4, <1>1, <2>0, <1>5, SavedNext
      <4> QED BY <3>1, <1>1, <4>2, <4>3
    <3> QED BY <3>2, <3>3, <3>4
  <2> QED BY <2>1, <2>2
<1>10. savedBar' = [c \in (DOMAIN savedBar \cup C) \ lost' |->
                      IF c \in DOMAIN savedBar THEN savedBar[c] ELSE mem[c]]
  <2>1. savedBar' = [c \in DOMAIN savedBar' |-> savedBar'[c]]
    BY SavedIsBar DEF Bar
  <2> HIDE DEF savedBar
  <2> QED BY <2>1, <1>7, <1>9
<1>11. Abs!Save(C)
  BY <1>1, <1>8, <1>10 DEF Abs!Save, Abs!Saved
<1> QED BY <1>1, <1>5, <1>11 DEF JournalInv

\* Entries keep their uniqueness when some are taken away and cells are lost.
LEMMA FewerEntries ==
    ASSUME JournalInv, lost \subseteq lost',
           \A a \in Cells : DOMAIN journal'[a] \subseteq DOMAIN journal[a],
           \A a \in Cells : DOMAIN todo'[a] \subseteq DOMAIN todo[a]
    PROVE  Once(journal', todo', lost')
  BY DEF JournalInv, Once

\* The originals that stay saved when the cells of C stop being covered.
LEMMA SavedLess ==
    ASSUME TypeInv, JournalInv, Once(journal', todo', lost'), NEW C,
           DOMAIN savedBar' = DOMAIN savedBar \ C, lost \subseteq lost',
           \A a \in Cells : /\ journal'[a] = journal[a] \/ DOMAIN journal[a] \subseteq C
                            /\ todo'[a] = todo[a] \/ DOMAIN todo[a] \subseteq C
    PROVE  savedBar' = [c \in DOMAIN savedBar \ C |-> savedBar[c]]
<1>1. ASSUME NEW c \in DOMAIN savedBar' PROVE savedBar'[c] = savedBar[c]
  <2>1. c \in DOMAIN savedBar /\ c \notin C
    BY <1>1
  <2>2. c \notin lost /\ c \notin lost' /\ c \in Cells
    BY <1>1, <2>1, SavedCells, CoveredInside
  <2>3. PICK b \in Cells : c \in DOMAIN journal[b] \/ c \in DOMAIN todo[b]
    BY <2>1, SavedCells, CoveredCells
  <2>4. CASE c \in DOMAIN journal[b]
    <3>1. journal'[b] = journal[b]
      BY <2>1, <2>4
    <3>2. savedBar[c] = journal[b][c]
      BY <2>2, <2>4, SavedNow
    <3>3. savedBar'[c] = journal'[b][c]
      BY <2>2, <2>4, <3>1, SavedNext
    <3> QED BY <3>1, <3>2, <3>3
  <2>5. CASE c \in DOMAIN todo[b]
    <3>1. todo'[b] = todo[b]
      BY <2>1, <2>5
    <3>2. savedBar[c] = todo[b][c]
      BY <2>2, <2>5, SavedNow
    <3>3. savedBar'[c] = todo'[b][c]
      BY <2>2, <2>5, <3>1, SavedNext
    <3> QED BY <3>1, <3>2, <3>3
  <2> QED BY <2>3, <2>4, <2>5
<1>2. savedBar' = [c \in DOMAIN savedBar' |-> savedBar'[c]]
  BY DEF savedBar
<1> QED BY <1>1, <1>2

\* What the copy of a guarded write does when it does not fault.
LEMMA CopyStepMeans ==
    ASSUME TypeInv, NEW t \in Threads, WriteCopy(t), crash' = "no"
    PROVE  LET C == Span(th[t].addr, th[t].len) IN
           /\ C \subseteq Cells /\ DOMAIN Bytes(t) = C
           /\ mem' = [c \in Cells |-> IF c \in C THEN Bytes(t)[c] ELSE mem[c]]
           /\ journal' = journal
           /\ t = "revert" => /\ todo' = [todo EXCEPT ![th[t].addr] = Absent] /\ lost' = lost
                              /\ Bytes(t) = todo[th[t].addr]
           /\ t = "script" => /\ lost' = lost \cup (C \ (Covered(journal) \cup Covered(todo)))
                              /\ todo' = todo /\ \A c \in C : Bytes(t)[c] = Script
<1> DEFINE a == th[t].addr
           w == th[t].len
           C == Span(a, w)
           bad == Faulting(a, w, Writable)
<1>1. /\ th[t].pc = "copy" /\ a \in Cells /\ w \in Widths
  BY DEF TypeInv, TypeOK, Flow, WriteCopy, ThreadStates
<1>2. bad = {}
  BY DEF WriteCopy, Crash
<1>3. C \subseteq Cells
  BY <1>1, <1>2, InCells
<1>4. DOMAIN Bytes(t) = C
  BY <1>1 DEF Bytes, TypeInv, Flow
<1>5. /\ mem' = Written(Bytes(t)) /\ journal' = journal
      /\ IF t = "revert"
         THEN todo' = [todo EXCEPT ![a] = Absent] /\ UNCHANGED lost
         ELSE Lose(DOMAIN Bytes(t) \ (Covered(journal) \cup Covered(todo))) /\ UNCHANGED todo
  BY <1>2 DEF WriteCopy
<1>6. mem' = [c \in Cells |-> IF c \in C THEN Bytes(t)[c] ELSE mem[c]]
  BY <1>4, <1>5 DEF Written
<1>7. t = "script" => \A c \in C : Bytes(t)[c] = Script
  BY DEF Bytes
<1>8. t = "revert" => Bytes(t) = todo[a]
  BY DEF Bytes
<1> QED BY <1>3, <1>4, <1>5, <1>6, <1>7, <1>8 DEF Lose

\* A script's copy writes its cells.
LEMMA ScriptCopyWrites ==
    ASSUME TypeInv, JournalInv, WriteCopy("script"), crash' = "no"
    PROVE  JournalInv' /\ \E C \in SUBSET Cells : Abs!Write(C)
<1> DEFINE C == Span(th["script"].addr, th["script"].len)
<1>1. /\ C \subseteq Cells /\ journal' = journal /\ todo' = todo
      /\ mem' = [c \in Cells |-> IF c \in C THEN Bytes("script")[c] ELSE mem[c]]
      /\ lost' = lost \cup (C \ (Covered(journal) \cup Covered(todo)))
      /\ \A c \in C : Bytes("script")[c] = Script
  BY CopyStepMeans DEF Threads
<1> HIDE DEF C
<1>2. Once(journal', todo', lost')
  BY <1>1, FewerEntries
<1>3. mem' = [c \in Cells |-> IF c \in C THEN Script ELSE mem[c]]
  BY <1>1
<1>4. lost' = lost \cup (C \ DOMAIN savedBar)
  BY <1>1, SavedCells
<1>5. DOMAIN savedBar' = DOMAIN savedBar \ {}
  BY <1>1, SavedCells
<1>6. savedBar' = [c \in DOMAIN savedBar \ {} |-> savedBar[c]]
  BY <1>1, <1>2, <1>5, SavedLess
<1>7. savedBar = [c \in DOMAIN savedBar |-> savedBar[c]]
  BY DEF savedBar
<1>8. savedBar' = savedBar
  BY <1>6, <1>7
<1>9. Abs!Write(C)
  BY <1>3, <1>4, <1>8 DEF Abs!Write, Abs!Saved
<1> QED BY <1>1, <1>2, <1>9 DEF JournalInv

\* What is covered once the entry of a is gone.
LEMMA EntryGone ==
    ASSUME TypeInv, NEW a \in Cells, todo' = [todo EXCEPT ![a] = Absent], journal' = journal
    PROVE  /\ \A b \in Cells \ {a} : todo'[b] = todo[b]
           /\ todo'[a] = Absent /\ DOMAIN todo'[a] = {}
           /\ DOMAIN todo[a] \subseteq Covered(todo) /\ DOMAIN todo[a] \subseteq Cells
           /\ \A b \in Cells : DOMAIN todo'[b] \subseteq DOMAIN todo[b]
<1>1. /\ \A b \in Cells \ {a} : todo'[b] = todo[b]
      /\ todo'[a] = Absent /\ DOMAIN todo'[a] = {}
  BY DEF TypeInv, TypeOK, Absent
<1>2. DOMAIN todo[a] \subseteq Covered(todo)
  BY CoveredCells
<1> QED BY <1>1, <1>2, CoveredInside

\* The cells that are saved once the entry of a is gone: those of the entry
\* are not any more, unless they were lost, and the others are.
LEMMA SavedWithoutEntry ==
    ASSUME TypeInv, JournalInv, NEW a \in Cells, todo' = [todo EXCEPT ![a] = Absent],
           journal' = journal,
           lost' = lost \/ lost' = lost \cup DOMAIN todo[a]
    PROVE  DOMAIN savedBar' = DOMAIN savedBar \ DOMAIN todo[a]
<1>1. /\ \A b \in Cells \ {a} : todo'[b] = todo[b]
      /\ DOMAIN todo'[a] = {}
      /\ DOMAIN todo[a] \subseteq Covered(todo) /\ DOMAIN todo[a] \subseteq Cells
  BY EntryGone
<1>2. ASSUME NEW c, c \in DOMAIN savedBar' PROVE c \in DOMAIN savedBar /\ c \notin DOMAIN todo[a]
  <2>1. c \notin lost' /\ c \notin lost /\ c \in Covered(journal') \cup Covered(todo')
    BY <1>2, SavedCells
  <2>2. PICK b \in Cells : c \in DOMAIN journal[b] \/ (b # a /\ c \in DOMAIN todo[b])
    BY <2>1, <1>1, CoveredCells
  <2>3. c \in DOMAIN savedBar
    BY <2>1, <2>2, CoveredCells, SavedCells
  <2>4. c \in Cells \ lost
    BY <2>1, <2>3, SavedCells, CoveredInside
  <2> QED BY <2>2, <2>3, <2>4 DEF JournalInv, Once
<1>3. ASSUME NEW c, c \in DOMAIN savedBar, c \notin DOMAIN todo[a] PROVE c \in DOMAIN savedBar'
  <2>1. c \notin lost /\ c \notin lost'
    BY <1>3, SavedCells
  <2>2. PICK b \in Cells : c \in DOMAIN journal[b] \/ c \in DOMAIN todo[b]
    BY <1>3, SavedCells, CoveredCells
  <2>3. c \in DOMAIN journal'[b] \/ c \in DOMAIN todo'[b]
    BY <2>2, <1>1, <1>3
  <2>4. c \in Covered(journal') \cup Covered(todo')
    BY <2>3, CoveredCells
  <2> QED BY <2>1, <2>4, SavedCells
<1> QED BY <1>2, <1>3

\* The revert's copy restores the cells of its entry.
LEMMA RevertCopyRestores ==
    ASSUME TypeInv, JournalInv, WriteCopy("revert"), crash' = "no"
    PROVE  JournalInv' /\ \E C \in SUBSET Cells : Abs!Restore(C)
<1> DEFINE a == th["revert"].addr
           C == Span(a, th["revert"].len)
<1>1. /\ C \subseteq Cells /\ journal' = journal /\ lost' = lost
      /\ todo' = [todo EXCEPT ![a] = Absent]
      /\ mem' = [c \in Cells |-> IF c \in C THEN todo[a][c] ELSE mem[c]]
      /\ DOMAIN todo[a] = C
  BY CopyStepMeans DEF Threads
<1>2. a \in Cells
  BY DEF TypeInv, TypeOK, Threads, ThreadStates
<1> HIDE DEF C, a
<1>3. /\ \A b \in Cells \ {a} : todo'[b] = todo[b]
      /\ DOMAIN todo[a] \subseteq Covered(todo)
      /\ \A b \in Cells : DOMAIN todo'[b] \subseteq DOMAIN todo[b]
  BY <1>1, <1>2, EntryGone
<1>4. Once(journal', todo', lost')
  BY <1>1, <1>3, FewerEntries
<1>5. DOMAIN savedBar' = DOMAIN savedBar \ C
  BY <1>1, <1>2, SavedWithoutEntry
<1>6. savedBar' = [c \in DOMAIN savedBar \ C |-> savedBar[c]]
  BY <1>1, <1>3, <1>4, <1>5, SavedLess
<1>7. C \subseteq DOMAIN savedBar \cup lost
  BY <1>1, <1>3, SavedCells
<1>8. ASSUME NEW c \in Cells, c \in DOMAIN savedBar, c \in C PROVE mem'[c] = savedBar[c]
  <2>1. c \notin lost
    BY <1>8, SavedCells
  <2>2. savedBar[c] = todo[a][c]
    BY <1>1, <1>2, <1>8, <2>1, SavedNow
  <2> QED BY <2>2, <1>1, <1>8
<1>9. DOMAIN mem' = Cells /\ \A c \in Cells : c \notin C => mem'[c] = mem[c]
  BY <1>1
<1>10. Abs!Restore(C)
  BY <1>1, <1>6, <1>7, <1>8, <1>9 DEF Abs!Restore, Abs!Saved
<1> QED BY <1>1, <1>4, <1>10 DEF JournalInv

\* A guarded write that fails abandons the revert's entry, and nothing else.
LEMMA FailedAbandons ==
    ASSUME TypeInv, JournalInv, NEW t \in Threads, Failed(t), UNCHANGED <<mem, journal>>
    PROVE  /\ JournalInv'
           /\ (\E C \in SUBSET Cells : Abs!Abandon(C)) \/ UNCHANGED Abs!vars
<1>1. CASE t = "script"
  <2>1. UNCHANGED <<todo, lost>>
    BY <1>1 DEF Failed
  <2> QED BY <2>1, SameEntries DEF Abs!vars
<1>2. CASE t = "revert"
  <2> DEFINE a == th["revert"].addr
             C == DOMAIN todo[a]
  <2>1. todo' = [todo EXCEPT ![a] = Absent] /\ lost' = lost \cup C
    BY <1>2 DEF Failed, Lose
  <2>2. a \in Cells
    BY DEF TypeInv, TypeOK, Threads, ThreadStates
  <2> HIDE DEF a
  <2>3. /\ \A b \in Cells \ {a} : todo'[b] = todo[b]
        /\ C \subseteq Covered(todo) /\ C \subseteq Cells
        /\ \A b \in Cells : DOMAIN todo'[b] \subseteq DOMAIN todo[b]
    BY <2>1, <2>2, EntryGone
  <2>4. Once(journal', todo', lost')
    BY <2>1, <2>3, FewerEntries
  <2>5. DOMAIN savedBar' = DOMAIN savedBar \ C
    BY <2>1, <2>2, SavedWithoutEntry
  <2>6. savedBar' = [c \in DOMAIN savedBar \ C |-> savedBar[c]]
    BY <2>1, <2>3, <2>4, <2>5, SavedLess
  <2>7. lost' = lost \cup (C \cap DOMAIN savedBar)
    BY <2>1, <2>3, SavedCells
  <2>8. Abs!Abandon(C)
    BY <2>6, <2>7 DEF Abs!Abandon, Abs!Saved
  <2> QED BY <2>3, <2>4, <2>8 DEF JournalInv
<1> QED BY <1>1, <1>2 DEF Threads

\* Taking the entries out of the journal saves and loses nothing.
LEMMA TakeStutters ==
    ASSUME TypeInv, JournalInv, TakeEntries PROVE JournalInv' /\ UNCHANGED Abs!vars
<1>1. /\ todo' = journal /\ journal' = [a \in Cells |-> Absent]
      /\ UNCHANGED <<mem, lost>> /\ \A a \in Cells : todo[a] = Absent
  BY DEF TakeEntries, memvars, TypeInv, Flow
<1>2. \A a \in Cells : DOMAIN todo[a] = {} /\ DOMAIN journal'[a] = {}
  BY <1>1 DEF Absent
<1>3. Once(journal', todo', lost')
  BY <1>1, <1>2 DEF JournalInv, Once
<1>4. DOMAIN savedBar' = DOMAIN savedBar
  <2>1. \A c : c \in DOMAIN savedBar' <=> c \in DOMAIN savedBar
    BY <1>1, <1>2, SavedCells, CoveredCells
  <2>2. DOMAIN savedBar' \subseteq DOMAIN savedBar /\ DOMAIN savedBar \subseteq DOMAIN savedBar'
    BY <2>1
  <2> QED BY <2>2
<1>5. ASSUME NEW c \in DOMAIN savedBar PROVE savedBar'[c] = savedBar[c]
  <2>1. c \notin lost /\ c \notin lost' /\ c \in Cells
    BY <1>1, SavedCells, CoveredInside
  <2>2. PICK b \in Cells : c \in DOMAIN journal[b]
    BY <1>2, SavedCells, CoveredCells
  <2>3. savedBar[c] = journal[b][c]
    BY <2>1, <2>2, SavedNow
  <2>4. savedBar'[c] = todo'[b][c]
    BY <1>1, <1>3, <2>1, <2>2, SavedNext
  <2> QED BY <1>1, <2>3, <2>4
<1>6. /\ savedBar = [c \in DOMAIN savedBar |-> savedBar[c]]
      /\ savedBar' = [c \in DOMAIN savedBar' |-> savedBar'[c]]
  BY DEF savedBar
<1>7. savedBar' = savedBar
  BY <1>4, <1>5, <1>6
<1> QED BY <1>1, <1>3, <1>7 DEF JournalInv, Abs!vars

\* Dropping the runtime abandons what its journal still holds.
LEMMA DropAbandons ==
    ASSUME TypeInv, JournalInv, DropRuntime
    PROVE  JournalInv' /\ \E C \in SUBSET Cells : Abs!Abandon(C)
<1> DEFINE C == Covered(journal)
<1>1. /\ journal' = [a \in Cells |-> Absent] /\ UNCHANGED <<mem, todo>>
      /\ lost' = lost \cup C /\ \A a \in Cells : todo[a] = Absent
  BY DEF DropRuntime, Lose, memvars
<1>2. \A a \in Cells : DOMAIN todo[a] = {} /\ DOMAIN journal'[a] = {} /\ DOMAIN todo'[a] = {}
  BY <1>1 DEF Absent
<1>3. Once(journal', todo', lost')
  BY <1>2 DEF Once
<1>4. DOMAIN savedBar = C \ lost
  BY <1>2, SavedCells, CoveredCells
<1>5. DOMAIN savedBar' = {}
  BY <1>2, SavedCells, CoveredCells
<1>6. C \subseteq Cells
  BY CoveredInside
<1> HIDE DEF C
<1>7. lost' = lost \cup (C \cap DOMAIN savedBar)
  BY <1>1, <1>4
<1>8. savedBar' = [c \in DOMAIN savedBar' |-> savedBar'[c]]
  BY DEF savedBar
<1>9. DOMAIN savedBar \ C = {}
  BY <1>4
<1>10. savedBar' = [c \in DOMAIN savedBar \ C |-> savedBar[c]]
  BY <1>5, <1>8, <1>9
<1>11. Abs!Abandon(C)
  BY <1>1, <1>7, <1>10 DEF Abs!Abandon, Abs!Saved
<1> QED BY <1>3, <1>6, <1>11 DEF JournalInv

\* A game byte in one cell, or a fresh page, is a step of the environment.
LEMMA GameIsEnv ==
    ASSUME TypeInv, JournalInv, \/ \E c \in Cells, v \in GameValues : GameWrite(c, v)
                                \/ \E p \in Pages, new \in Prots : GameProtect(p, new)
    PROVE  JournalInv' /\ Abs!Env
<1>1. UNCHANGED <<journal, todo, lost>>
  BY DEF GameWrite, GameProtect
<1>2. DOMAIN mem' = Cells /\ \A c \in Cells : mem'[c] = mem[c] \/ mem'[c] \in GameValues
  <2>1. mem \in [Cells -> Values]
    BY DEF TypeInv, TypeOK
  <2> QED BY <2>1, SpaceAssumption DEF GameWrite, GameProtect
<1> QED BY <1>1, <1>2, SameEntries DEF Abs!Env

\* Every step is a step of the revertible memory, or changes nothing of it.
LEMMA NextImplements ==
    TypeInv /\ JournalInv /\ [Next]_vars => JournalInv' /\ [Abs!Next]_(Abs!vars)
<1> SUFFICES ASSUME TypeInv, JournalInv, [Next]_vars
             PROVE  JournalInv' /\ [Abs!Next]_(Abs!vars)
  OBVIOUS
<1>0. ASSUME UNCHANGED <<mem, journal, todo, lost>>
      PROVE  JournalInv' /\ [Abs!Next]_(Abs!vars)
  BY <1>0, SameEntries DEF Abs!vars
<1>1. CASE UNCHANGED vars
  BY <1>0, <1>1 DEF vars
<1>2. CASE \/ \E a \in Cells, w \in Widths :
                \/ host_read(a, w) \/ host_write(a, w) \/ host_write_if(a, w)
                \/ host_write_permanent(a, w)
           \/ host_scan
  BY <1>0, <1>2 DEF host_read, host_write, host_write_if, host_write_permanent, host_scan,
     Call, memvars
<1>3. CASE ValidateRead \/ CopyRead \/ ScanRegion \/ TouchValidate
  BY <1>0, <1>3 DEF ValidateRead, CopyRead, ScanRegion, TouchValidate, ReadFault, Crash, memvars
<1>4. CASE TouchRecord
  <2>1. CASE crash' = "no"
    BY <1>4, <2>1, RecordSaves DEF Abs!Next
  <2>2. CASE crash' # "no"
    BY <1>0, <1>4, <2>2 DEF TouchRecord, ReadFault, Crash, memvars
  <2> QED BY <2>1, <2>2
<1>5. ASSUME NEW t \in Threads, WriteQuery(t) \/ WriteProtect(t)
      PROVE  JournalInv' /\ [Abs!Next]_(Abs!vars)
  <2>1. UNCHANGED <<mem, journal>> /\ (UNCHANGED <<todo, lost>> \/ Failed(t))
    BY <1>5 DEF WriteQuery, WriteProtect, memvars
  <2>2. CASE Failed(t)
    BY <2>1, <2>2, FailedAbandons DEF Abs!Next
  <2> QED BY <1>0, <2>1, <2>2
<1>6. ASSUME NEW t \in Threads, WriteCopy(t)
      PROVE  JournalInv' /\ [Abs!Next]_(Abs!vars)
  <2>1. CASE crash' = "no" /\ t = "script"
    BY <1>6, <2>1, ScriptCopyWrites DEF Abs!Next
  <2>2. CASE crash' = "no" /\ t = "revert"
    BY <1>6, <2>2, RevertCopyRestores DEF Abs!Next
  <2>3. CASE crash' # "no"
    BY <1>0, <1>6, <2>3 DEF WriteCopy, Crash, memvars
  <2> QED BY <2>1, <2>2, <2>3 DEF Threads
<1>7. ASSUME NEW t \in Threads, WriteRestore(t)
      PROVE  JournalInv' /\ [Abs!Next]_(Abs!vars)
  BY <1>0, <1>7 DEF WriteRestore, memvars
<1>8. CASE TakeEntries
  BY <1>8, TakeStutters
<1>9. CASE DropRuntime
  BY <1>9, DropAbandons DEF Abs!Next
<1>10. CASE (\E a \in Cells : RevertEntry(a)) \/ WalkStart \/ WalkQuery \/ WalkPublish
  BY <1>0, <1>10 DEF RevertEntry, WalkStart, WalkQuery, WalkPublish, memvars
<1>11. CASE \/ \E c \in Cells, v \in GameValues : GameWrite(c, v)
            \/ \E p \in Pages, new \in Prots : GameProtect(p, new)
  BY <1>11, GameIsEnv DEF Abs!Next
<1> QED BY <1>1, <1>2, <1>3, <1>4, <1>5, <1>6, <1>7, <1>8, <1>9, <1>10, <1>11 DEF Next

\* Nothing is saved or lost at the beginning.
LEMMA InitImplements == Init => JournalInv /\ Abs!Init
<1> SUFFICES ASSUME Init PROVE JournalInv /\ Abs!Init
  OBVIOUS
<1>1. \A a \in Cells : DOMAIN journal[a] = {} /\ DOMAIN todo[a] = {}
  BY DEF Init, Absent
<1>2. JournalInv
  BY <1>1 DEF JournalInv, Once
<1>3. DOMAIN savedBar = {}
  BY <1>1, SavedCells, CoveredCells
<1>4. savedBar = [c \in DOMAIN savedBar |-> savedBar[c]]
  BY DEF savedBar
<1>5. savedBar = [c \in {} |-> Script]
  BY <1>3, <1>4
<1>6. mem \in [Cells -> GameValues] /\ lost = {}
  BY SpaceAssumption DEF Init
<1> QED BY <1>2, <1>5, <1>6 DEF Abs!Init

\* The journal, the guarded write and the revert implement the revertible
\* memory: under every interleaving of script, orchestrator, refresher and
\* game, a cell's original is put back unless it became lost in one of the
\* three ways that specification names (journal.rs, write.rs, orchestrator.rs).
THEOREM JournalImplements == Spec => ImplementsRevertibleMemory
  BY InitImplements, NextImplements, TypeInvHolds, PTL
     DEF Spec, ImplementsRevertibleMemory, Abs!Spec

\* The proofs about the revertible memory, for the memory that is implemented.
Rev == INSTANCE RevertibleMemoryProofs WITH saved <- savedBar

\* Every script byte in the game's memory has its original in the journal or
\* among the entries being reverted, or its cell is lost, and no original that
\* would be put back is a script's byte (journal.rs).
THEOREM AllScriptBytesAccounted == Spec => []ScriptBytesAccounted
<1>1. Rev!Spec => []Rev!Accounted
  BY Rev!AllAccounted, SpaceAssumption, PTL
<1>2. Rev!Init <=> Abs!Init
  BY DEF Rev!Init, Abs!Init
<1>3. [Rev!Next]_(Rev!vars) <=> [Abs!Next]_(Abs!vars)
  BY DEF Rev!Next, Abs!Next, Rev!vars, Abs!vars, Rev!Env, Abs!Env, Rev!Save, Abs!Save,
     Rev!Write, Abs!Write, Rev!Restore, Abs!Restore, Rev!Abandon, Abs!Abandon,
     Rev!Saved, Abs!Saved
<1>4. Rev!Accounted <=> ScriptBytesAccounted
  BY DEF ScriptBytesAccounted, Rev!Accounted, Abs!Accounted, Rev!Saved, Abs!Saved
<1> QED BY <1>1, <1>2, <1>3, <1>4, JournalImplements, PTL
        DEF Rev!Spec, Abs!Spec, ImplementsRevertibleMemory
-----------------------------------------------------------------------------
\* ---- plain use

\* The game's own protections let the range be written, and the cells of the
\* entry e under address a.
HomeWritable(a, w) ==
    /\ home[Page(a)] \in Accessible
    /\ \A p \in PagesOf(a, w) : p \in Pages /\ home[p] = home[Page(a)]
EntryWritable(a, e) ==
    /\ home[Page(a)] \in Accessible
    /\ \A c \in DOMAIN e : Page(c) \in Pages /\ home[Page(c)] = home[Page(a)]

\* The script on its way to a write: its range has an entry of its own by the
\* time it can be written, and overlaps no other.
ScriptPlain ==
    LET s == th["script"] IN
    /\ s.pc # "idle" => phase = "running"
    /\ s.pc \in {"touch", "record", "query", "protect", "copy"} =>
         s.op \in {"write", "write_if"} /\ ~Overlaps(s.addr, s.len)
    /\ s.pc \in {"validate", "read"} /\ s.op = "write_if" => ~Overlaps(s.addr, s.len)
    /\ s.pc = "query" =>
         DOMAIN journal[s.addr] = Span(s.addr, s.len) \/ ~HomeWritable(s.addr, s.len)
    /\ s.pc \in {"protect", "copy"} =>
         DOMAIN journal[s.addr] = Span(s.addr, s.len) /\ HomeWritable(s.addr, s.len)

\* Entries are disjoint and hold bytes of the game, the journal is empty while
\* entries are reverted, and a script byte lies under an entry that the revert
\* will be able to write.
Held(c) ==
    \E a \in Cells : \/ c \in DOMAIN journal[a] /\ EntryWritable(a, journal[a])
                     \/ c \in DOMAIN todo[a] /\ EntryWritable(a, todo[a])
EntriesPlain ==
    /\ phase = "reverting" => \A a \in Cells : journal[a] = Absent
    /\ Once(journal, todo, {})
    /\ \A a \in Cells : /\ \A c \in DOMAIN journal[a] : journal[a][c] # Script
                        /\ \A c \in DOMAIN todo[a] : todo[a][c] # Script
    /\ \A c \in Cells : mem[c] = Script => Held(c)

PlainInv ==
    /\ tainted = {} /\ \A p \in Pages : home[p] # "x"
    /\ ScriptPlain /\ EntriesPlain

\* The invariant holds as long as nothing unusual happens.
WhenPlain == odd = {} => PlainInv
-----------------------------------------------------------------------------
\* Two ranges with the same cells start at the same address.
LEMMA SpanInj ==
    ASSUME NEW a \in Int, NEW b \in Int, NEW w \in Nat \ {0}, NEW v \in Nat \ {0},
           Span(a, w) = Span(b, v)
    PROVE  a = b
<1>1. a \in Span(b, v) /\ b \in Span(a, w)
  BY DEF Span
<1> QED BY <1>1 DEF Span

\* Between guarded writes the pages have the protections of the game.
LEMMA HomeIsProt ==
    ASSUME WriteInv, tainted = {}, \A t \in Threads : th[t].pc \notin {"copy", "restore"}
    PROVE  \A p \in Pages : prot[p] = home[p]
  BY DEF WriteInv, ProtectionRestored

\* Then what can be written is what the game's own protections let be written,
\* and a range that a live query does not find readable is not.
LEMMA WritableHome ==
    ASSUME NEW a \in Cells, NEW w \in Widths, \A p \in Pages : prot[p] = home[p],
           prot \in [Pages -> Prots], \A p \in Pages : home[p] # "x"
    PROVE  /\ can_write(a, w) <=> HomeWritable(a, w)
           /\ HomeWritable(a, w) => live_readable(a, w)
<1>1. w \in Nat \ {0} /\ a \in Int
  BY WidthType DEF Cells
<1>2. Page(a) \in Pages
  BY <1>1, CellsOfPages
<1>3. Within(a, w, VirtualQuery(Page(a)))
        <=> \A p \in PagesOf(a, w) : p \in Pages /\ prot[p] = prot[Page(a)]
  BY <1>1, WithinMeans
<1>4. (\A p \in PagesOf(a, w) : p \in Pages /\ prot[p] = prot[Page(a)])
        <=> \A p \in PagesOf(a, w) : p \in Pages /\ home[p] = home[Page(a)]
  BY <1>2
<1>5. /\ prot[Page(a)] \notin {"free", "guard"} <=> home[Page(a)] \in Accessible
      /\ home[Page(a)] \in Accessible => is_readable(prot[Page(a)])
  BY <1>2 DEF Accessible, Prots, is_readable
<1> QED BY <1>3, <1>4, <1>5 DEF can_write, HomeWritable, live_readable

\* The entry of a whole range is writable when the range is.
LEMMA RangeWritable ==
    ASSUME NEW a, NEW w, NEW e, DOMAIN e = Span(a, w)
    PROVE  EntryWritable(a, e) <=> HomeWritable(a, w)
  BY DEF EntryWritable, HomeWritable, PagesOf

\* Steps that leave memory and entries alone.
LEMMA PlainFrame ==
    ASSUME PlainInv, UNCHANGED <<mem, home, tainted, journal, todo, phase>>
    PROVE  /\ tainted' = {} /\ (\A p \in Pages : home'[p] # "x") /\ EntriesPlain'
           /\ \A a, w : (Overlaps(a, w)' <=> Overlaps(a, w)) /\ (HomeWritable(a, w)' <=> HomeWritable(a, w))
  BY DEF PlainInv, EntriesPlain, Once, Held, EntryWritable, Overlaps, HomeWritable

\* The script stays where it is.
LEMMA ScriptStays ==
    ASSUME PlainInv, UNCHANGED <<mem, home, tainted, journal, todo, phase>>,
           \/ th'["script"].pc = "idle"
           \/ /\ th'["script"].pc = th["script"].pc /\ th'["script"].op = th["script"].op
              /\ th'["script"].addr = th["script"].addr /\ th'["script"].len = th["script"].len
    PROVE  PlainInv'
<1>1. /\ tainted' = {} /\ (\A p \in Pages : home'[p] # "x") /\ EntriesPlain'
      /\ \A a, w : (Overlaps(a, w)' <=> Overlaps(a, w)) /\ (HomeWritable(a, w)' <=> HomeWritable(a, w))
  BY PlainFrame
<1>2. ScriptPlain'
  BY <1>1 DEF PlainInv, ScriptPlain, Overlaps, HomeWritable
<1> QED BY <1>1, <1>2 DEF PlainInv

\* A call of the script in plain use.
LEMMA CallPlain ==
    ASSUME TypeInv, PlainInv, odd' = {},
           \/ \E a \in Cells, w \in Widths :
                \/ host_read(a, w) \/ host_write(a, w) \/ host_write_if(a, w)
                \/ host_write_permanent(a, w)
           \/ host_scan
    PROVE  PlainInv'
<1>1. PICK op, pc, a, w, regs, strange :
        /\ Call(op, pc, a, w, regs, strange)
        /\ \/ op = "read" /\ pc = "validate"
           \/ op = "scan" /\ pc = "scan"
           \/ op = "write" /\ pc = "touch" /\ strange = Overlap(a, w)
           \/ op = "write_if" /\ pc = "validate" /\ strange = Overlap(a, w)
           \/ "permanent" \in strange
  BY Zenon DEF host_read, host_scan, host_write, host_write_if, host_write_permanent
<1>2. phase = "running" /\ strange = {} /\ UNCHANGED <<mem, home, tainted, journal, todo, phase>>
  BY <1>1 DEF Call, Odd, memvars, TypeInv, TypeOK
<1>3. op \in {"write", "write_if"} => ~Overlaps(a, w)
  BY <1>1, <1>2 DEF Overlap
<1>4. /\ th'["script"].pc = pc /\ th'["script"].op = op
      /\ th'["script"].addr = a /\ th'["script"].len = w
  <2> DEFINE n == [Idle EXCEPT !.pc = pc, !.op = op, !.addr = a, !.len = w, !.regs = regs,
                               !.gone = IF op = "scan" THEN gone ELSE {}]
  <2>1. n.pc = pc /\ n.op = op /\ n.addr = a /\ n.len = w
    BY DEF Idle
  <2>2. th' = [th EXCEPT !["script"] = n]
    BY <1>1 DEF Call
  <2> HIDE DEF n
  <2>3. th'["script"] = n
    BY <2>2, ScriptStep
  <2> QED BY <2>1, <2>3
<1>5. /\ tainted' = {} /\ (\A p \in Pages : home'[p] # "x") /\ EntriesPlain'
      /\ \A b, v : (Overlaps(b, v)' <=> Overlaps(b, v))
  BY <1>2, PlainFrame
<1>6. ScriptPlain'
  <2>1. Overlaps(th["script"].addr, th["script"].len)' <=> Overlaps(a, w)
    BY <1>4, <1>5
  <2> QED BY <1>1, <1>2, <1>3, <1>4, <2>1 DEF ScriptPlain
<1> QED BY <1>5, <1>6 DEF PlainInv

\* The validated reads and the scan in plain use.
LEMMA ReadersPlain ==
    ASSUME TypeInv, PlainInv, ValidateRead \/ CopyRead \/ ScanRegion
    PROVE  PlainInv'
<1>1. UNCHANGED <<mem, home, tainted, journal, todo, phase>>
  BY DEF ValidateRead, CopyRead, ScanRegion, ReadFault, Crash, memvars
<1>2. /\ tainted' = {} /\ (\A p \in Pages : home'[p] # "x") /\ EntriesPlain'
      /\ \A b, v : (Overlaps(b, v)' <=> Overlaps(b, v)) /\ (HomeWritable(b, v)' <=> HomeWritable(b, v))
  BY <1>1, PlainFrame
<1>3. th["script"] \in ThreadStates
  BY DEF TypeInv, TypeOK, Threads
<1>4. \/ th'["script"].pc = "idle"
      \/ /\ th'["script"].pc = th["script"].pc /\ th'["script"].op = th["script"].op
         /\ th'["script"].addr = th["script"].addr /\ th'["script"].len = th["script"].len
      \/ /\ th["script"].pc = "validate" /\ th'["script"].pc = "read"
         /\ th'["script"].op = th["script"].op
         /\ th'["script"].addr = th["script"].addr /\ th'["script"].len = th["script"].len
      \/ /\ th["script"].pc = "read" /\ th'["script"].pc = "touch"
         /\ th["script"].op = "write_if" /\ th'["script"].op = th["script"].op
         /\ th'["script"].addr = th["script"].addr /\ th'["script"].len = th["script"].len
  <2>1. \/ th' = th
        \/ th' = [th EXCEPT !["script"] = Idle]
        \/ /\ th["script"].pc = "validate"
           /\ th' = [th EXCEPT !["script"].pc = "read",
                               !["script"].gone = Fear(th["script"].addr, th["script"].len)]
        \/ /\ th["script"].pc = "read" /\ th["script"].op = "write_if"
           /\ th' = [th EXCEPT !["script"].pc = "touch", !["script"].gone = {}]
        \/ \E rs : th' = [th EXCEPT !["script"].regs = rs]
    <3>1. CASE ValidateRead
      BY <3>1 DEF ValidateRead
    <3>2. CASE CopyRead
      BY <3>2 DEF CopyRead, ReadFault, Crash, Goto, TypeInv, TypeOK, Threads
    <3>3. CASE ScanRegion
      BY <3>3 DEF ScanRegion, ReadFault, Crash
    <3> QED BY <3>1, <3>2, <3>3
  <2>2. th \in [Threads -> ThreadStates]
    BY DEF TypeInv, TypeOK
  <2> QED BY <2>1, <2>2, <1>3 DEF Threads, ThreadStates, Idle
<1>5. ScriptPlain'
  <2>1. CASE \/ th'["script"].pc = "idle"
             \/ /\ th'["script"].pc = th["script"].pc /\ th'["script"].op = th["script"].op
                /\ th'["script"].addr = th["script"].addr /\ th'["script"].len = th["script"].len
    BY <2>1, <1>1, ScriptStays DEF PlainInv
  <2>2. CASE th'["script"].pc \in {"read", "touch"} /\ th["script"].pc \in {"validate", "read"}
    <3>1. Overlaps(th["script"].addr, th["script"].len)' <=> Overlaps(th["script"].addr, th["script"].len)
      BY <1>2, <1>4, <2>2
    <3> QED BY <1>1, <1>4, <2>2, <3>1 DEF ScriptPlain, PlainInv
  <2> QED BY <2>1, <2>2, <1>4
<1> QED BY <1>2, <1>5 DEF PlainInv

\* An entry under the address of a range that overlaps none is the range's own.
LEMMA OwnEntry ==
    ASSUME TypeInv, NEW a \in Cells, NEW w \in Widths, ~Overlaps(a, w), journal[a] # Absent
    PROVE  DOMAIN journal[a] = Span(a, w)
<1>1. journal[a] \in EntriesAt(a)
  BY DEF TypeInv, TypeOK
<1>2. PICK v \in Widths : DOMAIN journal[a] = Span(a, v)
  BY <1>1, EntryShape
<1>3. a \in Span(a, v) /\ a \in Span(a, w)
  BY WidthType DEF Span, Cells
<1>4. DOMAIN journal[a] \cap Span(a, w) # {}
  BY <1>2, <1>3
<1> QED BY <1>4 DEF Overlaps

\* touch in plain use: what it does not read and record is recorded already, or
\* cannot be written.
LEMMA TouchPlain ==
    ASSUME TypeInv, WriteInv, PlainInv, TouchValidate
    PROVE  PlainInv'
<1> DEFINE a == th["script"].addr
           w == th["script"].len
<1>1. /\ UNCHANGED <<mem, home, tainted, journal, todo, phase>>
      /\ th["script"].pc = "touch"
  BY DEF TouchValidate, memvars
<1>2. /\ tainted' = {} /\ (\A p \in Pages : home'[p] # "x") /\ EntriesPlain'
      /\ \A b, v : (Overlaps(b, v)' <=> Overlaps(b, v)) /\ (HomeWritable(b, v)' <=> HomeWritable(b, v))
  BY <1>1, PlainFrame
<1>3. th["script"] \in ThreadStates /\ th \in [Threads -> ThreadStates]
  BY DEF TypeInv, TypeOK, Threads
<1>4. a \in Cells /\ w \in Widths
  BY <1>1, <1>3 DEF TypeInv, Flow, ThreadStates, Threads
<1>5. /\ th'["script"].op = th["script"].op /\ th'["script"].addr = a /\ th'["script"].len = w
      /\ th'["script"].pc \in {"record", "query"}
      /\ th'["script"].pc = "query" => ~(journal[a] = Absent /\ validate_read(a, w))
  BY <1>3 DEF TouchValidate, Goto, Threads, ThreadStates
<1>6. phase = "running" /\ ~Overlaps(a, w) /\ th["script"].op \in {"write", "write_if"}
  BY <1>1 DEF PlainInv, ScriptPlain
<1>7. \A p \in Pages : prot[p] = home[p]
  <2>1. th["revert"].pc = "idle"
    BY <1>6 DEF TypeInv, Flow
  <2> QED BY <1>1, <2>1, HomeIsProt DEF Threads, PlainInv
<1>8. th'["script"].pc = "query" => DOMAIN journal[a] = Span(a, w) \/ ~HomeWritable(a, w)
  <2>1. journal[a] # Absent => DOMAIN journal[a] = Span(a, w)
    BY <1>4, <1>6, OwnEntry
  <2>2. prot \in [Pages -> Prots] /\ \A p \in Pages : home[p] # "x"
    BY DEF TypeInv, TypeOK, PlainInv
  <2>3. HomeWritable(a, w) => validate_read(a, w)
    BY <1>4, <1>7, <2>2, WritableHome DEF validate_read
  <2> QED BY <1>5, <2>1, <2>3
<1>9. /\ Overlaps(th["script"].addr, th["script"].len)' <=> Overlaps(a, w)
      /\ HomeWritable(th["script"].addr, th["script"].len)' <=> HomeWritable(a, w)
  BY <1>2, <1>5
<1>10. ScriptPlain'
  BY <1>1, <1>5, <1>6, <1>8, <1>9 DEF ScriptPlain
<1> QED BY <1>2, <1>10 DEF PlainInv

\* Recording an entry in plain use: the range is not written yet, since a
\* script byte in it would lie under an entry that overlaps it.
LEMMA RecordPlain ==
    ASSUME TypeInv, PlainInv, TouchRecord, crash' = "no"
    PROVE  PlainInv'
<1> DEFINE a == th["script"].addr
           w == th["script"].len
           C == Span(a, w)
<1>1. /\ a \in Cells /\ C \subseteq Cells /\ journal[a] = Absent
      /\ journal' = [journal EXCEPT ![a] = [c \in C |-> mem[c]]]
      /\ UNCHANGED <<mem, todo>>
  BY RecordStep
<1>2. /\ th["script"].pc = "record" /\ UNCHANGED <<home, tainted, phase>>
      /\ th' = [Goto("script", "query") EXCEPT !["script"].gone = {}]
  BY DEF TouchRecord, ReadFault, Crash, memvars
<1>3. th["script"] \in ThreadStates /\ th \in [Threads -> ThreadStates]
  BY DEF TypeInv, TypeOK, Threads
<1>4. /\ th'["script"].op = th["script"].op /\ th'["script"].addr = a /\ th'["script"].len = w
      /\ th'["script"].pc = "query"
  BY <1>2, <1>3 DEF Goto, Threads, ThreadStates
<1>5. phase = "running" /\ ~Overlaps(a, w) /\ th["script"].op \in {"write", "write_if"}
  BY <1>2 DEF PlainInv, ScriptPlain
<1>6. w \in Widths /\ w \in Nat \ {0}
  BY <1>2, WidthType DEF TypeInv, Flow, Threads
<1>7. \A b \in Cells : todo[b] = Absent /\ DOMAIN todo[b] = {} /\ todo'[b] = todo[b]
  <2>1. \A b \in Cells : todo[b] = Absent
    BY <1>5 DEF TypeInv, Flow
  <2> QED BY <1>1, <2>1 DEF Absent
<1> HIDE DEF a, w, C
<1>8. /\ \A b \in Cells \ {a} : journal'[b] = journal[b]
      /\ DOMAIN journal'[a] = C /\ \A c \in C : journal'[a][c] = mem[c]
      /\ DOMAIN journal[a] = {}
  BY <1>1 DEF TypeInv, TypeOK, Absent
<1>9. ASSUME NEW b \in Cells, b # a, NEW c \in C, c \in DOMAIN journal[b] PROVE FALSE
  <2>1. DOMAIN journal[b] = C
    BY <1>5, <1>9 DEF Overlaps, C
  <2>2. journal[b] \in EntriesAt(b)
    BY DEF TypeInv, TypeOK
  <2>3. PICK v \in Widths : DOMAIN journal[b] = Span(b, v)
    BY <1>9, <2>2, EntryShape
  <2>4. v \in Nat \ {0} /\ a \in Int /\ b \in Int
    BY <1>1, WidthType DEF Cells
  <2> QED BY <1>6, <1>9, <2>1, <2>3, <2>4, SpanInj DEF C
<1>10. \A c \in C : mem[c] # Script
  <2> SUFFICES ASSUME NEW c \in C, mem[c] = Script PROVE FALSE
    OBVIOUS
  <2>1. PICK b \in Cells : c \in DOMAIN journal[b] \/ c \in DOMAIN todo[b]
    BY <1>1 DEF PlainInv, EntriesPlain, Held
  <2> QED BY <2>1, <1>7, <1>8, <1>9
<1>11. EntriesPlain'
  <2>1. phase' # "reverting"
    BY <1>2, <1>5
  <2>2. Once(journal', todo', {})
    <3> SUFFICES ASSUME NEW c \in Cells, NEW d \in Cells, NEW b \in Cells
                 PROVE  /\ c \in DOMAIN journal'[d] /\ c \in DOMAIN journal'[b] => d = b
                        /\ c \in DOMAIN todo'[d] /\ c \in DOMAIN todo'[b] => d = b
                        /\ ~(c \in DOMAIN journal'[d] /\ c \in DOMAIN todo'[b])
      BY DEF Once
    <3>1. ASSUME NEW x \in Cells \ {a}, NEW y \in Cells \ {a},
                 c \in DOMAIN journal[x], c \in DOMAIN journal[y] PROVE x = y
      BY <3>1 DEF PlainInv, EntriesPlain, Once
    <3> QED BY <3>1, <1>7, <1>8, <1>9
  <2>3. \A b \in Cells : /\ \A c \in DOMAIN journal'[b] : journal'[b][c] # Script
                         /\ \A c \in DOMAIN todo'[b] : todo'[b][c] # Script
    BY <1>7, <1>8, <1>10 DEF PlainInv, EntriesPlain
  <2>4. \A c \in Cells : mem'[c] = Script => Held(c)'
    <3> SUFFICES ASSUME NEW c \in Cells, mem[c] = Script PROVE Held(c)'
      BY <1>1
    <3>1. PICK b \in Cells : \/ c \in DOMAIN journal[b] /\ EntryWritable(b, journal[b])
                             \/ c \in DOMAIN todo[b] /\ EntryWritable(b, todo[b])
      BY DEF PlainInv, EntriesPlain, Held
    <3>2. b # a /\ journal'[b] = journal[b] /\ c \in DOMAIN journal[b]
      BY <3>1, <1>7, <1>8
    <3>3. EntryWritable(b, journal[b])'
      BY <3>1, <3>2, <1>2, <1>7 DEF EntryWritable
    <3> QED BY <3>2, <3>3 DEF Held
  <2> QED BY <2>1, <2>2, <2>3, <2>4 DEF EntriesPlain
<1>12. ~Overlaps(th["script"].addr, th["script"].len)'
  <2>1. ASSUME NEW b \in Cells PROVE /\ DOMAIN journal'[b] \cap C = {} \/ DOMAIN journal'[b] = C
                                     /\ DOMAIN todo'[b] \cap C = {}
    BY <1>7, <1>8, <1>9
  <2> QED BY <1>4, <2>1 DEF Overlaps, C
<1>13. ScriptPlain'
  <2>1. DOMAIN journal'[th'["script"].addr] = Span(th'["script"].addr, th'["script"].len)
    BY <1>4, <1>8 DEF C
  <2> QED BY <1>2, <1>4, <1>5, <1>12, <2>1 DEF ScriptPlain
<1> QED BY <1>2, <1>11, <1>13 DEF PlainInv

\* A writer in plain use: the revert never writes while the script does, so
\* that a guarded write taints nothing.
LEMMA OneWriter ==
    ASSUME TypeInv, PlainInv, NEW t \in Threads, NEW u \in Threads, u # t, th[t].pc # "idle"
    PROVE  th[u].pc = "idle"
<1>1. th["script"].pc # "idle" => th["revert"].pc = "idle"
  BY DEF PlainInv, ScriptPlain, TypeInv, Flow
<1> QED BY <1>1 DEF Threads

\* A write that fails in plain use: the cells of a revert's entry hold no
\* script byte, because that entry could not be written in the first place.
LEMMA FailedPlain ==
    ASSUME TypeInv, PlainInv, NEW t \in Threads, th[t].pc \in {"query", "protect"}, Failed(t),
           ~HomeWritable(th[t].addr, th[t].len),
           th' = [th EXCEPT ![t] = Idle],
           UNCHANGED <<memvars, journal, phase>>
    PROVE  PlainInv'
<1>0. UNCHANGED <<mem, home, tainted, journal, phase>>
  BY DEF memvars
<1>1. /\ \A u \in Threads \ {t} : th'[u] = th[u]
      /\ th'[t].pc = "idle"
  BY IdleStep DEF TypeInv
<1>2. CASE t = "script"
  <2>1. todo' = todo
    BY <1>2 DEF Failed
  <2> QED BY <1>0, <1>1, <1>2, <2>1, ScriptStays
<1>3. CASE t = "revert"
  <2> DEFINE a == th["revert"].addr
  <2>1. todo' = [todo EXCEPT ![a] = Absent]
    BY <1>3 DEF Failed
  <2>2. a \in Cells
    BY DEF TypeInv, TypeOK, Threads, ThreadStates
  <2>3. DOMAIN todo[a] = Span(a, th["revert"].len) /\ ~EntryWritable(a, todo[a])
    BY <1>3, RangeWritable DEF TypeInv, Flow
  <2> HIDE DEF a
  <2>4. /\ \A b \in Cells \ {a} : todo'[b] = todo[b]
        /\ todo'[a] = Absent /\ DOMAIN todo'[a] = {}
        /\ DOMAIN todo[a] \subseteq Cells
        /\ \A b \in Cells : DOMAIN todo'[b] \subseteq DOMAIN todo[b]
    BY <1>0, <2>1, <2>2, EntryGone
  <2>5. th'["script"].pc = "idle"
    BY <1>1, <1>3, OneWriter DEF Threads
  <2>6. ScriptPlain'
    BY <2>5 DEF ScriptPlain
  <2>7. Once(journal', todo', {})
    BY <1>0, <2>4 DEF PlainInv, EntriesPlain, Once
  <2>8. \A b \in Cells : /\ \A c \in DOMAIN journal'[b] : journal'[b][c] # Script
                         /\ \A c \in DOMAIN todo'[b] : todo'[b][c] # Script
    BY <1>0, <2>4 DEF PlainInv, EntriesPlain
  <2>9. \A c \in Cells : mem'[c] = Script => Held(c)'
    <3> SUFFICES ASSUME NEW c \in Cells, mem[c] = Script PROVE Held(c)'
      BY <1>0
    <3>1. PICK b \in Cells : \/ c \in DOMAIN journal[b] /\ EntryWritable(b, journal[b])
                             \/ c \in DOMAIN todo[b] /\ EntryWritable(b, todo[b])
      BY DEF PlainInv, EntriesPlain, Held
    <3>2. CASE c \in DOMAIN journal[b] /\ EntryWritable(b, journal[b])
      <4>1. EntryWritable(b, journal[b])' /\ c \in DOMAIN journal'[b]
        BY <1>0, <3>2 DEF EntryWritable
      <4> QED BY <4>1 DEF Held
    <3>3. CASE c \in DOMAIN todo[b] /\ EntryWritable(b, todo[b])
      <4>1. b # a /\ todo'[b] = todo[b]
        BY <2>3, <2>4, <3>3
      <4>2. EntryWritable(b, todo[b])' /\ c \in DOMAIN todo'[b]
        BY <1>0, <3>3, <4>1 DEF EntryWritable
      <4> QED BY <4>2 DEF Held
    <3> QED BY <3>1, <3>2, <3>3
  <2>10. EntriesPlain'
    BY <1>0, <2>7, <2>8, <2>9 DEF PlainInv, EntriesPlain
  <2> QED BY <1>0, <2>6, <2>10 DEF PlainInv
<1> QED BY <1>2, <1>3 DEF Threads

\* The query of a guarded write in plain use.
LEMMA QueryPlain ==
    ASSUME TypeInv, WriteInv, PlainInv, NEW t \in Threads, WriteQuery(t)
    PROVE  PlainInv'
<1> DEFINE a == th[t].addr
           w == th[t].len
<1>1. th[t].pc = "query" /\ UNCHANGED <<memvars, journal, phase>>
  BY DEF WriteQuery
<1>2. th[t] \in ThreadStates /\ a \in Cells /\ w \in Widths
  BY <1>1 DEF TypeInv, TypeOK, Flow, ThreadStates
<1>3. \A p \in Pages : prot[p] = home[p]
  <2>1. \A u \in Threads : th[u].pc \notin {"copy", "restore"}
    BY <1>1, OneWriter
  <2> QED BY <2>1, HomeIsProt DEF PlainInv
<1>4. can_write(a, w) <=> HomeWritable(a, w)
  BY <1>2, <1>3, WritableHome DEF TypeInv, TypeOK, PlainInv
<1>5. CASE can_write(a, w)
  <2>1. th' = Goto(t, "protect") /\ UNCHANGED <<mem, home, tainted, journal, todo, phase>>
    BY <1>5 DEF WriteQuery, memvars
  <2>2. /\ \A u \in Threads \ {t} : th'[u] = th[u]
        /\ th'[t].pc = "protect" /\ th'[t].addr = a /\ th'[t].len = w
        /\ th'[t].op = th[t].op
    BY <2>1, GotoStep DEF TypeInv, PCs
  <2>3. CASE t = "revert"
    BY <2>1, <2>2, <2>3, ScriptStays DEF Threads
  <2>4. CASE t = "script"
    <3>1. /\ tainted' = {} /\ (\A p \in Pages : home'[p] # "x") /\ EntriesPlain'
          /\ \A b, v : (Overlaps(b, v)' <=> Overlaps(b, v)) /\ (HomeWritable(b, v)' <=> HomeWritable(b, v))
      BY <2>1, PlainFrame
    <3>2. /\ Overlaps(th["script"].addr, th["script"].len)' <=> Overlaps(a, w)
          /\ HomeWritable(th["script"].addr, th["script"].len)' <=> HomeWritable(a, w)
      BY <3>1, <2>2, <2>4
    <3>3. ScriptPlain'
      BY <1>1, <1>4, <1>5, <2>1, <2>2, <2>4, <3>2 DEF ScriptPlain, PlainInv
    <3> QED BY <3>1, <3>3 DEF PlainInv
  <2> QED BY <2>3, <2>4 DEF Threads
<1>6. CASE ~can_write(a, w)
  <2>1. th' = [th EXCEPT ![t] = Idle] /\ Failed(t)
    BY <1>6 DEF WriteQuery
  <2> QED BY <1>1, <1>4, <1>6, <2>1, FailedPlain
<1> QED BY <1>5, <1>6

\* No page is tainted by a writer that is alone.
LEMMA NoTaint ==
    ASSUME TypeInv, PlainInv, NEW t \in Threads, th[t].pc # "idle", NEW ps, Taint(t, ps)
    PROVE  tainted' = {}
<1>1. \A u \in Threads : u # t => th[u].pc = "idle"
  BY OneWriter
<1>2. Disturbed(t, ps) = {}
  BY <1>1 DEF Disturbed
<1> QED BY <1>2 DEF Taint, PlainInv

\* The first VirtualProtect of a guarded write in plain use.
LEMMA ProtectPlain ==
    ASSUME TypeInv, WriteInv, PlainInv, NEW t \in Threads, WriteProtect(t)
    PROVE  PlainInv'
<1> DEFINE a == th[t].addr
           w == th[t].len
           ps == PagesOf(a, w)
<1>1. th[t].pc = "protect" /\ UNCHANGED <<journal, phase>>
  BY DEF WriteProtect
<1>2. th[t] \in ThreadStates /\ a \in Cells /\ w \in Widths /\ ps \subseteq Pages
  BY <1>1 DEF TypeInv, TypeOK, Flow, ThreadStates, Mine
<1>3. \A p \in Pages : prot[p] = home[p]
  <2>1. \A u \in Threads : th[u].pc \notin {"copy", "restore"}
    BY <1>1, OneWriter
  <2> QED BY <2>1, HomeIsProt DEF PlainInv
<1>4. CASE \E p \in ps : prot[p] = "free"
  <2>1. th' = [th EXCEPT ![t] = Idle] /\ Failed(t) /\ UNCHANGED memvars
    BY <1>4 DEF WriteProtect
  <2>2. ~HomeWritable(a, w)
    BY <1>2, <1>3, <1>4 DEF HomeWritable, Accessible
  <2> QED BY <1>1, <2>1, <2>2, FailedPlain
<1>5. CASE ~\E p \in ps : prot[p] = "free"
  <2> DEFINE np == [p \in Pages |-> IF p \in ps THEN "rwx" ELSE prot[p]]
             moved == [th EXCEPT ![t].pc = "copy", ![t].old = prot[Page(a)]]
  <2>1. Reprotect(np, moved) /\ Taint(t, ps) /\ UNCHANGED <<mem, home, journal, todo, phase>>
    BY <1>5 DEF WriteProtect
  <2>2. prot \in [Pages -> Prots] /\ prot[Page(a)] \in Prots
    <3>1. a \in Int /\ prot \in [Pages -> Prots]
      <4>1. prot \in [Pages -> Prots]
        BY DEF TypeInv, TypeOK
      <4> HIDE DEF a
      <4>2. a \in Int
        BY <1>2 DEF Cells
      <4> QED BY <4>1, <4>2
    <3>2. Page(a) \in Pages
      BY <1>2, <3>1, CellsOfPages
    <3> QED BY <3>1, <3>2
  <2>3. np \in [Pages -> Prots]
    BY <2>2 DEF Prots
  <2>4. /\ moved \in [Threads -> ThreadStates]
        /\ \A u \in Threads \ {t} : moved[u] = th[u]
        /\ moved[t].pc = "copy" /\ moved[t].addr = a /\ moved[t].len = w
        /\ moved[t].op = th[t].op
    <3>1. ASSUME NEW o \in Prots, NEW n, n = [th EXCEPT ![t].pc = "copy", ![t].old = o]
          PROVE  /\ n \in [Threads -> ThreadStates]
                 /\ \A u \in Threads \ {t} : n[u] = th[u]
                 /\ n[t].pc = "copy" /\ n[t].addr = a /\ n[t].len = w /\ n[t].op = th[t].op
      BY <3>1, CopyStep DEF TypeInv
    <3> QED BY <2>2, <3>1
  <2> HIDE DEF np, moved
  <2>5. \A u \in Threads :
          /\ th'[u].pc = moved[u].pc /\ th'[u].addr = moved[u].addr
          /\ th'[u].len = moved[u].len /\ th'[u].op = moved[u].op
    BY <2>1, <2>3, <2>4, ReprotectTypes DEF TypeInv
  <2>6. UNCHANGED <<mem, home, tainted, journal, todo, phase>>
    BY <1>1, <2>1, NoTaint DEF PlainInv
  <2>7. CASE t = "revert"
    BY <2>4, <2>5, <2>6, <2>7, ScriptStays DEF Threads
  <2>8. CASE t = "script"
    <3>1. /\ tainted' = {} /\ (\A p \in Pages : home'[p] # "x") /\ EntriesPlain'
      BY <2>6, PlainFrame
    <3>2. /\ th'["script"].pc = "copy" /\ th'["script"].addr = a /\ th'["script"].len = w
          /\ th'["script"].op = th["script"].op
      BY <2>4, <2>5, <2>8
    <3>3. /\ Overlaps(th["script"].addr, th["script"].len)' <=> Overlaps(a, w)
          /\ HomeWritable(th["script"].addr, th["script"].len)' <=> HomeWritable(a, w)
      BY <2>6, <3>2 DEF Overlaps, HomeWritable
    <3>4. ScriptPlain'
      BY <1>1, <2>6, <2>8, <3>2, <3>3 DEF ScriptPlain, PlainInv
    <3> QED BY <3>1, <3>4 DEF PlainInv
  <2> QED BY <2>7, <2>8 DEF Threads
<1> QED BY <1>4, <1>5

\* The copy of a script in plain use writes cells of its own entry.
LEMMA ScriptCopyPlain ==
    ASSUME TypeInv, PlainInv, WriteCopy("script"), crash' = "no"
    PROVE  PlainInv'
<1> DEFINE a == th["script"].addr
           w == th["script"].len
           C == Span(a, w)
<1>1. /\ C \subseteq Cells /\ journal' = journal /\ todo' = todo
      /\ mem' = [c \in Cells |-> IF c \in C THEN Bytes("script")[c] ELSE mem[c]]
  BY CopyStepMeans DEF Threads
<1>2. /\ th["script"].pc = "copy" /\ UNCHANGED <<home, tainted, phase>>
      /\ th' = Goto("script", "restore")
  BY DEF WriteCopy, Crash
<1>3. th'["script"].pc = "restore"
  BY <1>2, GotoStep DEF TypeInv, Threads, PCs
<1>4. DOMAIN journal[a] = C /\ EntryWritable(a, journal[a]) /\ phase = "running"
  BY <1>2, RangeWritable DEF PlainInv, ScriptPlain
<1>5. ScriptPlain'
  BY <1>2, <1>3, <1>4 DEF ScriptPlain
<1>6. a \in Cells
  BY DEF TypeInv, TypeOK, Threads, ThreadStates
<1>7. \A c \in Cells : mem'[c] = Script => Held(c)
  <2>1. \A c \in C : Held(c)
    BY <1>4, <1>6 DEF Held
  <2> QED BY <1>1, <2>1 DEF PlainInv, EntriesPlain
<1>8. \A c \in Cells : Held(c) => Held(c)'
  BY <1>1, <1>2 DEF Held, EntryWritable
<1>9. EntriesPlain'
  BY <1>1, <1>2, <1>7, <1>8 DEF PlainInv, EntriesPlain
<1> QED BY <1>2, <1>5, <1>9 DEF PlainInv

\* The copy of a revert in plain use leaves no script byte in its cells.
LEMMA RevertCopyPlain ==
    ASSUME TypeInv, PlainInv, WriteCopy("revert"), crash' = "no"
    PROVE  PlainInv'
<1> DEFINE a == th["revert"].addr
           C == Span(a, th["revert"].len)
<1>1. /\ C \subseteq Cells /\ journal' = journal
      /\ todo' = [todo EXCEPT ![a] = Absent]
      /\ mem' = [c \in Cells |-> IF c \in C THEN todo[a][c] ELSE mem[c]]
      /\ DOMAIN todo[a] = C
  BY CopyStepMeans DEF Threads
<1>2. a \in Cells
  BY DEF TypeInv, TypeOK, Threads, ThreadStates
<1>3. /\ th["revert"].pc = "copy" /\ UNCHANGED <<home, tainted, phase>>
      /\ th' = Goto("revert", "restore")
  BY DEF WriteCopy, Crash
<1>4. th'["script"].pc = "idle"
  <2>1. th["script"].pc = "idle"
    BY <1>3, OneWriter DEF Threads
  <2>2. th'["script"] = th["script"]
    BY <1>3, GotoStep DEF TypeInv, Threads, PCs
  <2> QED BY <2>1, <2>2
<1>5. ScriptPlain'
  BY <1>4 DEF ScriptPlain
<1> HIDE DEF a, C
<1>6. /\ \A b \in Cells \ {a} : todo'[b] = todo[b]
      /\ todo'[a] = Absent /\ DOMAIN todo'[a] = {}
      /\ \A b \in Cells : DOMAIN todo'[b] \subseteq DOMAIN todo[b]
  BY <1>1, <1>2, EntryGone
<1>7. Once(journal', todo', {})
  BY <1>1, <1>6 DEF PlainInv, EntriesPlain, Once
<1>8. \A b \in Cells : /\ \A c \in DOMAIN journal'[b] : journal'[b][c] # Script
                       /\ \A c \in DOMAIN todo'[b] : todo'[b][c] # Script
  BY <1>1, <1>6 DEF PlainInv, EntriesPlain
<1>9. \A c \in Cells : mem'[c] = Script => Held(c)'
  <2> SUFFICES ASSUME NEW c \in Cells, mem'[c] = Script PROVE Held(c)'
    OBVIOUS
  <2>1. c \notin C /\ mem[c] = Script
    BY <1>1, <1>2 DEF PlainInv, EntriesPlain
  <2>2. PICK b \in Cells : \/ c \in DOMAIN journal[b] /\ EntryWritable(b, journal[b])
                           \/ c \in DOMAIN todo[b] /\ EntryWritable(b, todo[b])
    BY <2>1 DEF PlainInv, EntriesPlain, Held
  <2>3. CASE c \in DOMAIN journal[b] /\ EntryWritable(b, journal[b])
    <3>1. EntryWritable(b, journal[b])' /\ c \in DOMAIN journal'[b]
      BY <1>1, <1>3, <2>3 DEF EntryWritable
    <3> QED BY <3>1 DEF Held
  <2>4. CASE c \in DOMAIN todo[b] /\ EntryWritable(b, todo[b])
    <3>1. todo'[b] = todo[b]
      BY <1>1, <1>6, <2>1, <2>4
    <3>2. EntryWritable(b, todo[b])' /\ c \in DOMAIN todo'[b]
      BY <1>3, <2>4, <3>1 DEF EntryWritable
    <3> QED BY <3>2 DEF Held
  <2> QED BY <2>2, <2>3, <2>4
<1>10. EntriesPlain'
  BY <1>1, <1>3, <1>7, <1>8, <1>9 DEF PlainInv, EntriesPlain
<1> QED BY <1>3, <1>5, <1>10 DEF PlainInv

\* The second VirtualProtect in plain use.
LEMMA RestorePlain ==
    ASSUME TypeInv, PlainInv, NEW t \in Threads, WriteRestore(t)
    PROVE  PlainInv'
<1> DEFINE ps == PagesOf(th[t].addr, th[t].len)
           moved == [th EXCEPT ![t] = Idle]
           np == [p \in Pages |-> IF p \in ps THEN th[t].old ELSE prot[p]]
<1>1. /\ th[t].pc = "restore" /\ UNCHANGED <<mem, home, journal, todo, phase>>
      /\ UNCHANGED tainted \/ Taint(t, ps)
      /\ th' = moved \/ Reprotect(np, moved)
  BY DEF WriteRestore, memvars
<1>2. UNCHANGED tainted
  BY <1>1, NoTaint DEF PlainInv
<1>3. /\ moved \in [Threads -> ThreadStates] /\ moved[t].pc = "idle"
      /\ \A u \in Threads \ {t} : moved[u] = th[u]
  BY IdleStep DEF TypeInv
<1>4. np \in [Pages -> Prots]
  <2>1. prot \in [Pages -> Prots] /\ th[t].old \in Prots
    BY DEF TypeInv, TypeOK, ThreadStates
  <2> QED BY <2>1
<1> HIDE DEF moved, np
<1>5. \A u \in Threads :
        /\ th'[u].pc = moved[u].pc /\ th'[u].addr = moved[u].addr
        /\ th'[u].len = moved[u].len /\ th'[u].op = moved[u].op
  BY <1>1, <1>3, <1>4, ReprotectTypes DEF TypeInv
<1>6. \/ th'["script"].pc = "idle"
      \/ /\ th'["script"].pc = th["script"].pc /\ th'["script"].op = th["script"].op
         /\ th'["script"].addr = th["script"].addr /\ th'["script"].len = th["script"].len
  BY <1>3, <1>5 DEF Threads
<1> QED BY <1>1, <1>2, <1>6, ScriptStays

\* The orchestrator in plain use: when a runtime is dropped no entry is left,
\* and so no script byte.
LEMMA OrchestratorPlain ==
    ASSUME TypeInv, PlainInv, TakeEntries \/ DropRuntime \/ \E a \in Cells : RevertEntry(a)
    PROVE  PlainInv'
<1>1. CASE TakeEntries
  <2>1. /\ todo' = journal /\ journal' = [a \in Cells |-> Absent]
        /\ UNCHANGED <<mem, home, tainted, th>> /\ th["script"].pc = "idle"
        /\ \A a \in Cells : todo[a] = Absent
    BY <1>1 DEF TakeEntries, memvars, TypeInv, Flow
  <2>2. \A a \in Cells : /\ DOMAIN todo[a] = {} /\ DOMAIN journal'[a] = {}
                         /\ journal'[a] = Absent /\ todo'[a] = journal[a]
    BY <2>1 DEF Absent
  <2>3. ScriptPlain'
    BY <2>1 DEF ScriptPlain
  <2>4. Once(journal', todo', {})
    BY <2>2 DEF PlainInv, EntriesPlain, Once
  <2>5. \A b \in Cells : /\ \A c \in DOMAIN journal'[b] : journal'[b][c] # Script
                         /\ \A c \in DOMAIN todo'[b] : todo'[b][c] # Script
    BY <2>2 DEF PlainInv, EntriesPlain
  <2>6. \A c \in Cells : mem'[c] = Script => Held(c)'
    <3> SUFFICES ASSUME NEW c \in Cells, mem[c] = Script PROVE Held(c)'
      BY <2>1
    <3>1. PICK b \in Cells : c \in DOMAIN journal[b] /\ EntryWritable(b, journal[b])
      BY <2>2 DEF PlainInv, EntriesPlain, Held
    <3>2. EntryWritable(b, todo[b])' /\ c \in DOMAIN todo'[b]
      BY <2>1, <2>2, <3>1 DEF EntryWritable
    <3> QED BY <3>2 DEF Held
  <2>7. EntriesPlain'
    BY <2>2, <2>4, <2>5, <2>6 DEF EntriesPlain
  <2> QED BY <2>1, <2>3, <2>7 DEF PlainInv
<1>2. CASE DropRuntime
  <2>1. /\ journal' = [a \in Cells |-> Absent] /\ UNCHANGED <<mem, home, tainted, todo, th>>
        /\ phase = "reverting" /\ phase' = "running" /\ th["script"].pc = "idle"
        /\ \A a \in Cells : todo[a] = Absent
    BY <1>2 DEF DropRuntime, memvars
  <2>2. \A a \in Cells : journal[a] = Absent
    BY <2>1 DEF PlainInv, EntriesPlain
  <2>3. \A a \in Cells : /\ DOMAIN journal[a] = {} /\ DOMAIN todo[a] = {}
                         /\ DOMAIN journal'[a] = {} /\ DOMAIN todo'[a] = {}
    BY <2>1, <2>2 DEF Absent
  <2>4. \A c \in Cells : mem'[c] # Script
    BY <2>1, <2>3 DEF PlainInv, EntriesPlain, Held
  <2>5. EntriesPlain'
    BY <2>1, <2>3, <2>4 DEF EntriesPlain, Once
  <2>6. ScriptPlain'
    BY <2>1 DEF ScriptPlain
  <2> QED BY <2>1, <2>5, <2>6 DEF PlainInv
<1>3. CASE \E a \in Cells : RevertEntry(a)
  <2>1. UNCHANGED <<mem, home, tainted, journal, todo, phase>> /\ th'["script"] = th["script"]
    BY <1>3 DEF RevertEntry, memvars, TypeInv, TypeOK, Threads
  <2> QED BY <2>1, ScriptStays
<1> QED BY <1>1, <1>2, <1>3

\* The game's own writes in plain use.
LEMMA GameWritePlain ==
    ASSUME TypeInv, PlainInv, NEW c \in Cells, NEW v \in GameValues, GameWrite(c, v)
    PROVE  PlainInv'
<1>1. /\ mem' = [mem EXCEPT ![c] = v]
      /\ UNCHANGED <<home, tainted, journal, todo, phase, th>>
  BY DEF GameWrite
<1>2. \A d \in Cells : mem'[d] = Script => mem[d] = Script
  BY <1>1, SpaceAssumption DEF TypeInv, TypeOK
<1>3. \A d \in Cells : Held(d) => Held(d)'
  BY <1>1 DEF Held, EntryWritable
<1>4. EntriesPlain'
  BY <1>1, <1>2, <1>3 DEF PlainInv, EntriesPlain
<1>5. ScriptPlain'
  BY <1>1 DEF PlainInv, ScriptPlain, Overlaps, HomeWritable
<1> QED BY <1>1, <1>4, <1>5 DEF PlainInv

\* What is unusual stays on record.
LEMMA OddGrows ==
    ASSUME [Next]_vars, odd' = {}
    PROVE  /\ odd = {}
           /\ ~\E p \in Pages, new \in Prots : GameProtect(p, new)
<1>1. CASE UNCHANGED vars
  <2>1. odd' = odd /\ game' = game
    BY <1>1 DEF vars
  <2>2. ~\E p \in Pages, new \in Prots : GameProtect(p, new)
    BY DEF GameProtect, Odd
  <2> QED BY <2>1, <2>2
<1>2. CASE Next
  <2>1. odd \subseteq odd'
    BY <1>2 DEF Next, host_read, host_write, host_write_if, host_write_permanent, host_scan, Call,
       Odd, ValidateRead, CopyRead, ScanRegion, TouchValidate, TouchRecord, ReadFault, Crash,
       WriteQuery, WriteProtect, WriteCopy, WriteRestore, TakeEntries, DropRuntime, RevertEntry,
       WalkStart, WalkQuery, WalkPublish, GameWrite, GameProtect
  <2>2. ~\E p \in Pages, new \in Prots : GameProtect(p, new)
    BY DEF GameProtect, Odd
  <2> QED BY <2>1, <2>2
<1> QED BY <1>1, <1>2

\* Every step of plain use keeps PlainInv.
LEMMA NextPlain ==
    TypeInv /\ WriteInv /\ WhenPlain /\ [Next]_vars => WhenPlain'
<1> SUFFICES ASSUME TypeInv, WriteInv, WhenPlain, [Next]_vars, odd' = {} PROVE PlainInv'
  BY DEF WhenPlain
<1>0. PlainInv /\ ~\E p \in Pages, new \in Prots : GameProtect(p, new)
  BY OddGrows DEF WhenPlain
<1>1. ASSUME UNCHANGED <<mem, home, tainted, journal, todo, phase, th>> PROVE PlainInv'
  BY <1>0, <1>1, ScriptStays
<1>2. CASE UNCHANGED vars
  BY <1>1, <1>2 DEF vars
<1>3. CASE \/ \E a \in Cells, w \in Widths :
                \/ host_read(a, w) \/ host_write(a, w) \/ host_write_if(a, w)
                \/ host_write_permanent(a, w)
           \/ host_scan
  BY <1>0, <1>3, CallPlain
<1>4. CASE ValidateRead \/ CopyRead \/ ScanRegion
  BY <1>0, <1>4, ReadersPlain
<1>5. CASE TouchValidate
  BY <1>0, <1>5, TouchPlain
<1>6. CASE TouchRecord
  <2>1. CASE crash' = "no"
    BY <1>0, <1>6, <2>1, RecordPlain
  <2>2. CASE crash' # "no"
    BY <1>1, <1>6, <2>2 DEF TouchRecord, ReadFault, Crash, memvars
  <2> QED BY <2>1, <2>2
<1>7. ASSUME NEW t \in Threads, WriteQuery(t) \/ WriteProtect(t) \/ WriteRestore(t) PROVE PlainInv'
  BY <1>0, <1>7, QueryPlain, ProtectPlain, RestorePlain
<1>8. ASSUME NEW t \in Threads, WriteCopy(t) PROVE PlainInv'
  <2>1. CASE crash' = "no"
    BY <1>0, <1>8, <2>1, ScriptCopyPlain, RevertCopyPlain DEF Threads
  <2>2. CASE crash' # "no"
    BY <1>1, <1>8, <2>2 DEF WriteCopy, Crash, memvars
  <2> QED BY <2>1, <2>2
<1>9. CASE TakeEntries \/ DropRuntime \/ \E a \in Cells : RevertEntry(a)
  BY <1>0, <1>9, OrchestratorPlain
<1>10. CASE WalkStart \/ WalkQuery \/ WalkPublish
  BY <1>1, <1>10 DEF WalkStart, WalkQuery, WalkPublish, memvars
<1>11. CASE \E c \in Cells, v \in GameValues : GameWrite(c, v)
  BY <1>0, <1>11, GameWritePlain
<1> QED BY <1>0, <1>2, <1>3, <1>4, <1>5, <1>6, <1>7, <1>8, <1>9, <1>10, <1>11 DEF Next

\* Plain use starts with the script idle and no script byte anywhere.
LEMMA InitPlain == Init => WhenPlain
<1> SUFFICES ASSUME Init, odd = {} PROVE PlainInv
  BY DEF WhenPlain
<1>1. \A p \in Pages : home[p] # "x"
  BY DEF Init
<1>2. \A a \in Cells : DOMAIN journal[a] = {} /\ DOMAIN todo[a] = {}
  BY DEF Init, Absent
<1>3. \A c \in Cells : mem[c] # Script
  BY SpaceAssumption DEF Init
<1>4. th["script"].pc = "idle" /\ phase = "running" /\ tainted = {}
  BY DEF Init, Threads, Idle
<1>5. ScriptPlain
  BY <1>4 DEF ScriptPlain
<1>6. EntriesPlain
  BY <1>2, <1>3, <1>4 DEF EntriesPlain, Once
<1> QED BY <1>1, <1>4, <1>5, <1>6 DEF PlainInv

\* Plain use is reverted completely: without permanent writes, overlapping
\* ranges, changing protections and handlers inside the revert, no original in
\* the journal is a script's byte, and once a reload has put back every entry
\* no script byte is left in the game's memory (journal.rs, orchestrator.rs).
THEOREM PlainUseReverted == Spec => []PlainUseFullyReverted
<1>1. WhenPlain => PlainUseFullyReverted
  <2> SUFFICES ASSUME PlainInv PROVE PlainUseFullyReverted
    BY DEF WhenPlain, PlainUseFullyReverted
  <2>1. \A a \in Cells : \A j \in {journal[a], todo[a]} : \A c \in DOMAIN j : j[c] # Script
    BY DEF PlainInv, EntriesPlain
  <2>2. ASSUME phase = "reverting", \A a \in Cells : todo[a] = Absent
        PROVE  \A c \in Cells : mem[c] # Script
    <3>1. \A a \in Cells : DOMAIN journal[a] = {} /\ DOMAIN todo[a] = {}
      BY <2>2 DEF PlainInv, EntriesPlain, Absent
    <3> QED BY <3>1 DEF PlainInv, EntriesPlain, Held
  <2> QED BY <2>1, <2>2 DEF PlainUseFullyReverted
<1> QED BY <1>1, InitPlain, NextPlain, TypeInvHolds, WriteInvHolds, PTL DEF Spec
=============================================================================
