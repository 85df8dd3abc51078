------------------------------ MODULE MCIl2Cpp -------------------------------
(***************************************************************************)
(* Il2Cpp with two register slots and signatures that use them in each     *)
(* way, arrays of three field slots and two methods, three heap cells, one *)
(* of them unaligned, and two walkers.                                     *)
(***************************************************************************)
EXTENDS Il2Cpp, TLC

Sig(ps, r, static) == [params |-> ps, ret |-> r, is_static |-> static]
\* The last two have an argument on the stack.
MCSigs ==
    { Sig(<<"U8", "I8">>, "I8", TRUE), Sig(<<"I8">>, "F64", FALSE), Sig(<<"F32", "U64">>, "F32", TRUE),
      Sig(<<"F64", "Ref">>, "Ref", TRUE), Sig(<<>>, "U64", FALSE), Sig(<<>>, "Void", FALSE),
      Sig(<<"Ref", "F32">>, "U8", FALSE), Sig(<<"U8", "U8", "U8">>, "U8", TRUE) }

Slot == {"end", "unnamed", "no token", "bad type", "x", "y", "xs"}
\* class_get_fields gives the fields at the head of the array.
Heads(f) == { n \in 0 .. Len(f) : \A i \in 1 .. n : f[i] \in {"x", "y", "xs"} }
MCClasses ==
    UNION { { [fields |-> f, ffi |-> FALSE, real |-> 0, methods |-> <<"m", "unnamed">>] } \cup
            { [fields |-> f, ffi |-> TRUE, real |-> n, methods |-> <<"m", "m">>] : n \in Heads(f) } :
              f \in [1 .. 3 -> Slot] }
    \cup { [fields |-> <<"x">>, ffi |-> FALSE, real |-> 0, methods |-> m] :
             m \in [1 .. 3 -> {"end", "unnamed", "m", "n"}] }

WalkerSymmetry == Permutations(Walkers)
=============================================================================
