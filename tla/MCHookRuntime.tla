---------------------------- MODULE MCHookRuntime ----------------------------
(* HookRuntime for TLC: methods and game threads are interchangeable. *)
EXTENDS HookRuntime, TLC

Symmetry == Permutations(Methods) \cup Permutations(GameThreads)
=============================================================================
