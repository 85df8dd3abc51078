----------------------- MODULE RevertibleMemoryProofs -----------------------
(***************************************************************************)
(* Proof that the revertible memory accounts for every script byte.        *)
(***************************************************************************)
EXTENDS RevertibleMemory, TLAPS

\* Accounted is not inductive: what is saved must be a byte of the game, so
\* every cell that is neither saved nor lost has to hold one.  A restore says
\* nothing of the lost cells, which may then hold anything.
AccInv ==
    /\ \A c \in Cells : mem[c] \in GameValues \/ c \in Saved \/ c \in lost
    /\ \A c \in Saved : c \in Cells /\ saved[c] \in GameValues
    /\ \A c \in Saved : c \notin lost

\* The game writes bytes of its own (Env).
LEMMA EnvKeeps == ASSUME AccInv, Env PROVE AccInv'
  BY DEF AccInv, Env, Saved

\* What is saved for the first time was a byte of the game (WriteJournal::touch).
LEMMA SaveKeeps == ASSUME NEW C \in SUBSET Cells, AccInv, Save(C) PROVE AccInv'
<1>1. Saved' = (Saved \cup C) \ lost'
  BY DEF Save, Saved
<1>2. \A c \in Saved' : c \in Cells /\ saved'[c] \in GameValues
  <2> SUFFICES ASSUME NEW c \in Saved' PROVE c \in Cells /\ saved'[c] \in GameValues
    OBVIOUS
  <2>1. saved'[c] = IF c \in Saved THEN saved[c] ELSE mem[c]
    BY <1>1 DEF Save
  <2>2. CASE c \in Saved
    BY <2>1, <2>2 DEF AccInv
  <2>3. CASE c \notin Saved
    BY <2>1, <2>3, <1>1 DEF AccInv, Save
  <2> QED BY <2>2, <2>3
<1>3. \A c \in Cells : mem'[c] \in GameValues \/ c \in Saved' \/ c \in lost'
  BY <1>1 DEF AccInv, Save
<1> QED BY <1>1, <1>2, <1>3 DEF AccInv

\* A script write changes saved cells, or loses them (guarded_write).
LEMMA WriteKeeps == ASSUME NEW C \in SUBSET Cells, AccInv, Write(C) PROVE AccInv'
<1>1. Saved' = Saved /\ saved' = saved
  BY DEF Write, Saved
<1>2. \A c \in Cells : mem'[c] \in GameValues \/ c \in Saved' \/ c \in lost'
  BY <1>1 DEF AccInv, Write
<1> QED BY <1>1, <1>2 DEF AccInv, Write

\* A restored cell holds its original (the revert of an entry).
LEMMA RestoreKeeps == ASSUME NEW C \in SUBSET Cells, AccInv, Restore(C) PROVE AccInv'
<1>1. Saved' = Saved \ C /\ \A c \in Saved' : saved'[c] = saved[c]
  BY DEF Restore, Saved
<1>2. \A c \in Cells : mem'[c] \in GameValues \/ c \in Saved' \/ c \in lost'
  <2> SUFFICES ASSUME NEW c \in Cells PROVE mem'[c] \in GameValues \/ c \in Saved' \/ c \in lost'
    OBVIOUS
  <2>1. CASE c \notin C
    BY <1>1, <2>1 DEF AccInv, Restore
  <2>2. CASE c \in C /\ c \in Saved
    BY <2>2 DEF AccInv, Restore
  <2>3. CASE c \in C /\ c \notin Saved
    BY <2>3 DEF AccInv, Restore
  <2> QED BY <2>1, <2>2, <2>3
<1> QED BY <1>1, <1>2 DEF AccInv, Restore

\* What is given up is lost (a revert that fails, a journal that is dropped).
LEMMA AbandonKeeps == ASSUME NEW C \in SUBSET Cells, AccInv, Abandon(C) PROVE AccInv'
<1>1. Saved' = Saved \ C /\ \A c \in Saved' : saved'[c] = saved[c]
  BY DEF Abandon, Saved
<1> QED BY <1>1 DEF AccInv, Abandon

\* The journal accounts for every script byte: whatever the order of saves,
\* writes, restores and losses, a byte a script left in memory has its
\* original saved or its cell is known to be lost, and no saved original is a
\* script's byte.  So a revert that empties the journal leaves script bytes in
\* lost cells only (journal.rs, orchestrator.rs step 2).
THEOREM AllAccounted ==
    ASSUME Script \notin GameValues
    PROVE  Spec => []Accounted
<1>1. Init => AccInv
  BY DEF Init, AccInv, Saved
<1>2. AccInv /\ [Next]_vars => AccInv'
  <2> SUFFICES ASSUME AccInv, [Next]_vars PROVE AccInv'
    OBVIOUS
  <2>1. CASE Env
    BY <2>1, EnvKeeps
  <2>2. CASE \E C \in SUBSET Cells : Save(C) \/ Write(C) \/ Restore(C) \/ Abandon(C)
    BY <2>2, SaveKeeps, WriteKeeps, RestoreKeeps, AbandonKeeps
  <2>3. CASE UNCHANGED vars
    BY <2>3 DEF vars, AccInv, Saved
  <2> QED BY <2>1, <2>2, <2>3 DEF Next
<1>3. AccInv => Accounted
  BY DEF AccInv, Accounted, Saved
<1> QED BY <1>1, <1>2, <1>3, PTL DEF Spec
=============================================================================
