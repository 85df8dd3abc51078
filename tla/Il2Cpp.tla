------------------------------- MODULE Il2Cpp --------------------------------
(***************************************************************************)
(* The host functions a script reaches the game's runtime with: values of  *)
(* calls (Marshal), members of classes and live instances (ClassWalk).     *)
(* The three share no state of the agent, so a behaviour exercises one of  *)
(* them, chosen at the start, and leaves the others as they are.           *)
(***************************************************************************)
EXTENDS Marshal, ClassWalk

VARIABLE part   \* "calls", "members" or "instances"

ivars == <<part, mvars, wvars>>

AnyOf(S) == {CHOOSE x \in S : TRUE}

Init ==
    \/ /\ part = "calls"
       /\ MarshalInit(Sigs) /\ WalkInit(AnyOf(Classes), AnyOf(Heaps))
    \/ /\ part = "members"
       /\ MarshalInit(AnyOf(Sigs)) /\ WalkInit(Classes, AnyOf(Heaps))
    \/ /\ part = "instances"
       /\ MarshalInit(AnyOf(Sigs)) /\ WalkInit(AnyOf(Classes), Heaps)

Next ==
    \/ part = "calls" /\ MarshalNext /\ UNCHANGED <<part, wvars>>
    \/ part = "members" /\ MemberNext /\ UNCHANGED <<part, mvars>>
    \/ part = "instances" /\ InstanceNext /\ UNCHANGED <<part, mvars>>

Spec == Init /\ [][Next]_ivars
=============================================================================
