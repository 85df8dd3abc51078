---------------------------- MODULE MCCalibration ----------------------------
(***************************************************************************)
(* Calibration in worlds of two class layouts, three method layouts and    *)
(* two parameter layouts, with every decoy that some probe would take.     *)
(***************************************************************************)
EXTENDS Calibration, TLC

\* Inline byval_arg (v24 to v29), and pointers with the rest moved up (v30).
InlineKlass ==
    16 :> "string" @@ 24 :> "namespace" @@ 40 :> "typebits" @@ 56 :> "typebits"
    @@ 128 :> "fields" @@ 152 :> "methods"
PointerKlass ==
    16 :> "string" @@ 24 :> "namespace" @@ 32 :> "type" @@ 40 :> "type"
    @@ 112 :> "fields" @@ 136 :> "methods"

InlineTruth == [klass_namespace |-> 24, klass_type_def |-> 32, klass_fields |-> 128,
                klass_methods |-> 152, klass_static_fields |-> 184]
PointerTruth == [klass_namespace |-> 24, klass_type_def |-> 32, klass_fields |-> 112,
                 klass_methods |-> 136, klass_static_fields |-> 168]

\* Method pointer at 8 with the invoker behind it; everything where the
\* fallback has it, moved, or with the name somewhere else.
MethodA ==
    8 :> "code" @@ 16 :> "code" @@ 24 :> "name" @@ 32 :> "klass" @@ 40 :> "return"
    @@ 48 :> "parameters" @@ 76 :> "flags" @@ 82 :> "argc"
MethodB ==
    0 :> "code" @@ 8 :> "code" @@ 24 :> "name" @@ 32 :> "klass" @@ 40 :> "parameters"
    @@ 48 :> "return" @@ 72 :> "flags" @@ 82 :> "argc"
MethodC ==
    0 :> "code" @@ 8 :> "code" @@ 16 :> "name" @@ 24 :> "klass" @@ 32 :> "return"
    @@ 40 :> "parameters" @@ 72 :> "flags" @@ 80 :> "argc"

TruthA == [method_pointer_off |-> 8, method_name_off |-> 24, method_klass_off |-> 32,
           method_flags_off |-> 76, method_parameters_off |-> 48,
           method_return_type_off |-> 40, method_param_count_off |-> 82]
TruthB == [method_pointer_off |-> 0, method_name_off |-> 24, method_klass_off |-> 32,
           method_flags_off |-> 72, method_parameters_off |-> 40,
           method_return_type_off |-> 48, method_param_count_off |-> 82]
TruthC == [method_pointer_off |-> 0, method_name_off |-> 16, method_klass_off |-> 24,
           method_flags_off |-> 72, method_parameters_off |-> 40,
           method_return_type_off |-> 32, method_param_count_off |-> 80]

TruthOf(k, mth) ==
    (IF k = InlineKlass THEN InlineTruth ELSE PointerTruth)
    @@ (CASE mth = MethodA -> TruthA [] mth = MethodB -> TruthB [] mth = MethodC -> TruthC)

NoDecoy == [struct |-> "none", off |-> NoWin, pair |-> None, kind |-> "other", pop |-> 0]
Decoys ==
    { [NoDecoy EXCEPT !.struct = "valuetype", !.pair = <<12, 1>>, !.pop = 10] } \cup
    UNION { LET p == ProbeOf(f, FALSE) IN
            { [NoDecoy EXCEPT !.struct = p.struct, !.off = p.cands[i], !.kind = k, !.pop = n] :
                i \in 1 .. Len(p.cands),
                k \in p.accepts \ {"statics"},
                n \in IF p.struct = "klass" THEN {8, 9, 10} ELSE {8, 10} } : f \in Fields \ Joint }

Plain(k, mth, par, gf, d) ==
    [klass |-> k, method |-> mth, param |-> par, class_get_fields |-> gf,
     valuetype |-> IF k = InlineKlass THEN {<<43, 128>>} ELSE {<<303, 1>>},
     truth |-> TruthOf(k, mth), decoy |-> d]

\* A decoy stands where the layout has nothing a probe knows.
Beside(w) ==
    \/ w.decoy.struct \notin {"klass", "method"}
    \/ w.decoy.off \notin DOMAIN w[w.decoy.struct]

\* Without anchors the method probes look at nothing; of pointers that only
\* pass for static fields one kind is enough.
Reaches(w) ==
    /\ w.decoy.struct = "method" => w.klass = InlineKlass
    /\ w.decoy.off >= 176 => w.decoy.kind = "pointer"

MCWorlds == { w \in
    { Plain(k, mth, par, gf, NoDecoy) :
        k \in {InlineKlass, PointerKlass}, mth \in {MethodA, MethodB, MethodC},
        par \in {<<24, 0>>, <<32, 8>>}, gf \in BOOLEAN }
    \cup { Plain(k, MethodB, <<24, 0>>, k = InlineKlass, d) :
             k \in {InlineKlass, PointerKlass},
             d \in Decoys } : Beside(w) /\ Reaches(w) }
=============================================================================
