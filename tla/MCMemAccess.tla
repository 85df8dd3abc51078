----------------------------- MODULE MCMemAccess -----------------------------
(***************************************************************************)
(* MemAccess on two pages of one cell each.                               *)
(***************************************************************************)
EXTENDS MemAccess

MCInitProts ==
    { [p \in Pages |-> IF p = 0 THEN "ro" ELSE "rw"],
      [p \in Pages |-> IF p = 0 THEN "rw" ELSE "x"] }
=============================================================================
