-------------------------- MODULE RevertibleMemory --------------------------
(***************************************************************************)
(* What the write journal promises, said without pages, caches, guarded    *)
(* writes or threads.  Memory is written by the game and by a script.      *)
(* Before a script writes, the bytes under the write are saved; a revert   *)
(* puts saved bytes back.  A cell whose original can no longer be put back *)
(* is in `lost`, and the specification says exactly which steps may put    *)
(* one there: saving it twice, writing it unsaved, or giving up what was   *)
(* saved.  MemAccess is shown to implement this specification.             *)
(***************************************************************************)

CONSTANTS
    Cells,        \* addresses
    GameValues,   \* bytes the game writes
    Script        \* the byte a script writes

VARIABLES
    mem,          \* the bytes in memory
    saved,        \* original bytes of the cells that a revert puts back
    lost          \* cells whose original nobody can put back

vars == <<mem, saved, lost>>

Saved == DOMAIN saved

(***************************************************************************)
(* No script byte is in memory at the beginning.                           *)
(***************************************************************************)
Init ==
    /\ mem \in [Cells -> GameValues]
    /\ saved = [c \in {} |-> Script]
    /\ lost = {}

\* The game writes any cells it likes, with bytes of its own.
Env ==
    /\ \A c \in Cells : mem'[c] = mem[c] \/ mem'[c] \in GameValues
    /\ DOMAIN mem' = Cells
    /\ UNCHANGED <<saved, lost>>

\* The bytes of C are saved.  A cell that was saved before now has two
\* originals, and which of them is put back last is not determined.
Save(C) ==
    /\ lost' = lost \cup (C \cap Saved)
    /\ saved' = [c \in (Saved \cup C) \ lost' |-> IF c \in Saved THEN saved[c] ELSE mem[c]]
    /\ UNCHANGED mem

\* A script writes C, saved or not.
Write(C) ==
    /\ mem' = [c \in Cells |-> IF c \in C THEN Script ELSE mem[c]]
    /\ lost' = lost \cup (C \ Saved)
    /\ UNCHANGED saved

\* The revert writes C: every saved cell of C gets its original back, and
\* nothing is said of the lost ones.
Restore(C) ==
    /\ C \subseteq Saved \cup lost
    /\ DOMAIN mem' = Cells
    /\ \A c \in Cells : c \in Saved /\ c \in C => mem'[c] = saved[c]
    /\ \A c \in Cells : c \notin C => mem'[c] = mem[c]
    /\ saved' = [c \in Saved \ C |-> saved[c]]
    /\ UNCHANGED lost

\* What was saved of C is given up: its revert failed, or its journal went.
Abandon(C) ==
    /\ lost' = lost \cup (C \cap Saved)
    /\ saved' = [c \in Saved \ C |-> saved[c]]
    /\ UNCHANGED mem

Next ==
    \/ Env
    \/ \E C \in SUBSET Cells : Save(C) \/ Write(C) \/ Restore(C) \/ Abandon(C)

Spec == Init /\ [][Next]_vars

(***************************************************************************)
(* Every script byte in memory is accounted for: its original is saved, or *)
(* the cell is lost; and what is saved is never a script's own byte.  So   *)
(* once nothing is saved any more, script bytes remain only in lost cells. *)
(***************************************************************************)
Accounted ==
    /\ \A c \in Cells : mem[c] = Script => c \in Saved \cup lost
    /\ \A c \in Saved : saved[c] \in GameValues
    /\ Saved \cap lost = {}
=============================================================================
