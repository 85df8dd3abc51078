----------------------------- MODULE MCHotReload -----------------------------
(***************************************************************************)
(* TLC instances of HotReload. The scripts are interchangeable, and so are *)
(* the game's threads: only the runs of invariants use the symmetry.       *)
(***************************************************************************)
EXTENDS HotReload, TLC

Symmetry == Permutations(Scripts) \cup Permutations(GameThreads)
=============================================================================
