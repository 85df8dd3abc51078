------------------------------- MODULE Marshal -------------------------------
(***************************************************************************)
(* The values of a hooked call on their way from the caller through the    *)
(* register image (RegArgs) to the handler, back into registers, to the    *)
(* original method and to the caller again; and the values of a method     *)
(* that a script invokes itself.                                           *)
(*                                                                         *)
(* Integer registers hold one of WordSize words (2^64), a narrow type one  *)
(* of Narrow values (2^8 for a byte) in the low bits; the upper bits of a  *)
(* narrow argument are whatever the caller left there.  U8 and I8 stand for the narrow types of each sign, U64 for the  *)
(* full ones and Ref for references, which travel as U64.  A vector        *)
(* register holds a 64-bit double or, in its low half, a 32-bit float: the *)
(* calling convention passes a float that way, and reading the image of    *)
(* one as the other gives zero for the values used here.                   *)
(***************************************************************************)
EXTENDS Integers, Sequences, FiniteSets

CONSTANTS
    Sigs,           \* signatures: [params, ret, is_static]
    RegSlots,       \* arguments that travel in registers (4)
    Narrow,         \* values of a narrow type
    WordSize,       \* values of a register
    MaxWrites,      \* bound on hook_set_arg calls of one handler
    MaxOriginals    \* bound on call_original calls of one handler

\* Both are powers of two; what matters is that a narrow type has a sign bit
\* and more, and that a word is a whole number of narrow values.
ASSUME WidthAssumption ==
    /\ Narrow \in Nat /\ WordSize \in Nat /\ 4 <= Narrow /\ Narrow < WordSize
    /\ Narrow % 2 = 0 /\ WordSize % Narrow = 0
    /\ RegSlots \in Nat \ {0} /\ MaxWrites \in Nat /\ MaxOriginals \in Nat

Half == Narrow \div 2

Types == {"U8", "I8", "U64", "F32", "F64", "Ref"}

ASSUME SigAssumption ==
    /\ Sigs # {}
    /\ Sigs \subseteq [params : Seq(Types), ret : Types \cup {"Void"}, is_static : BOOLEAN]

\* valtype_from_tc: what a type reads as; void, which has no value, as U64
\* too (read_signature).
valtype_from_tc(t) == IF t \in {"Ref", "Void"} THEN "U64" ELSE t

\* Values of a type, the edges of each.
Edges(t) ==
    CASE t = "U8" -> {0, Narrow - 1}
      [] t = "I8" -> {-Half, Half - 1}
      [] t \in {"F32", "F64"} -> {0, 1}
      [] OTHER -> {0, WordSize - 1}

This == 1       \* the instance of an instance method
Junk == -100    \* what nobody put there

\* InvokeArg: a typed primitive, or a handle, string, struct, array or null.
Prim(vt, v) == [kind |-> "prim", vt |-> vt, v |-> v]
NoPrim(k)   == [kind |-> k, vt |-> "none", v |-> 0]
Args == { Prim(vt, v) : vt \in {"U8", "I8", "U64", "F32", "F64"}, v \in {1} }
        \cup { Prim("I8", -1), NoPrim("null"), NoPrim("array"), NoPrim("string") }
\* What is not a primitive is all the same to hook_set_arg and hook_set_return.
HandlerArgs == Args \ { NoPrim("array"), NoPrim("string") }
Absent == NoPrim("absent")

-----------------------------------------------------------------------------
\* ---- registers

Xmm(fmt, v) == [fmt |-> fmt, v |-> v]
Zero == Xmm("f64", 0)

\* RegArgs, as the shim fills it.
NoRegs == [int |-> [p \in 0 .. RegSlots - 1 |-> 0], flt |-> [p \in 0 .. RegSlots - 1 |-> Zero],
           ret_int |-> 0, ret_float |-> Zero]

\* `as u64` of an unsigned value and `as i64 as u64` of a signed one.
ToWord(v) == v % WordSize
\* `as u8` and `as i8` of a register.
FromWord(vt, r) ==
    CASE vt = "U8" -> r % Narrow
      [] vt = "I8" -> IF r % Narrow >= Half THEN (r % Narrow) - Narrow ELSE r % Narrow
      [] OTHER -> r

\* The double that the image of a register stands for.
AsF64(x) == IF x.fmt = "f64" THEN x.v ELSE 0
\* The float in the low half of a register.
LowF32(x) == IF x.fmt = "f32" THEN x.v ELSE 0

\* A type as a method or a caller of the game finds it in registers.
Native(t, word, x) ==
    CASE t = "F32" -> LowF32(x) [] t = "F64" -> AsF64(x)
      [] OTHER -> FromWord(valtype_from_tc(t), word)

\* The calling convention: the slot of declared argument i; `this` is first.
AbiSlot(s, i) == IF s.is_static THEN i - 1 ELSE i

\* Mutant: declared arguments start at the first register of any method.
Physical_NoShift(s, i) == i - 1

\* reg_offset.
Physical(s, i) == (i - 1) + (IF s.is_static THEN 0 ELSE 1)

\* read_one_arg_from_regs.
read_one_arg(vt, p, regs) ==
    Prim(vt, IF vt \in {"F32", "F64"} THEN AsF64(regs.flt[p]) ELSE FromWord(vt, regs.int[p]))

\* write_one_arg_to_regs: a float is widened to a double.
write_one_arg(a, p, regs) ==
    IF a.vt \in {"F32", "F64"} THEN [regs EXCEPT !.flt[p] = Xmm("f64", a.v)]
    ELSE [regs EXCEPT !.int[p] = ToWord(a.v)]

\* arg_as_value.
Fits(a, t) == a.kind = "prim" /\ a.vt = valtype_from_tc(t)

Params(s) == 1 .. Len(s.params)
InRegisters(s) == \A i \in Params(s) : Physical(s, i) < RegSlots

\* regargs_to_args, for a method whose arguments are all in registers.
regargs_to_args(s, regs) ==
    [i \in Params(s) |-> read_one_arg(valtype_from_tc(s.params[i]), Physical(s, i), regs)]

\* The first argument that args_to_regargs cannot write.
FirstBad(s, args) ==
    LET bad == { i \in Params(s) : ~Fits(args[i], s.params[i]) }
    IN  IF bad = {} THEN Len(s.params) + 1 ELSE CHOOSE i \in bad : \A j \in bad : i <= j

\* args_to_regargs writes in the order of declaration and stops at the first
\* argument of another type; what it has written stays written.  Every
\* argument has a register of its own.
args_to_regargs(s, args, regs) ==
    LET Writes(p) == { i \in Params(s) : i < FirstBad(s, args) /\ Physical(s, i) = p }
        Written(p) == IF Writes(p) = {} THEN regs
                      ELSE write_one_arg(args[CHOOSE i \in Writes(p) : TRUE], p, regs)
    IN  [regs EXCEPT !.int = [p \in DOMAIN @ |-> Written(p).int[p]],
                     !.flt = [p \in DOMAIN @ |-> Written(p).flt[p]]]

\* Mutant: the value goes into the register that the type does not use.
pack_return_Swapped(s, a, regs) ==
    IF ~Fits(a, s.ret) THEN [regs EXCEPT !.ret_int = 0, !.ret_float = Zero]
    ELSE [regs EXCEPT !.ret_int = ToWord(a.v), !.ret_float = Zero]

\* pack_return_into_regargs: null and whatever does not fit leave zeros.
pack_return(s, a, regs) ==
    IF ~Fits(a, s.ret) THEN [regs EXCEPT !.ret_int = 0, !.ret_float = Zero]
    ELSE IF a.vt \in {"F32", "F64"} THEN [regs EXCEPT !.ret_int = 0, !.ret_float = Xmm("f64", a.v)]
    ELSE [regs EXCEPT !.ret_int = ToWord(a.v), !.ret_float = Zero]

\* The return value as call_original_now gives it to the handler.
ReturnArg(s, regs) ==
    LET vt == valtype_from_tc(s.ret) IN
    Prim(vt, IF vt \in {"F32", "F64"} THEN AsF64(regs.ret_float) ELSE FromWord(vt, regs.ret_int))
-----------------------------------------------------------------------------
VARIABLES
    pc,         \* "idle", "captured", "handler", "leaving", "returned", "invoked"
    sig,        \* MethodSignature of the method being called
    sent,       \* the values that the caller passed
    regs,       \* RegArgs
    cur,        \* CurrentContext.args
    explicit,   \* CurrentContext.explicit_return
    called,     \* CurrentContext.called_original
    accepted,   \* history: arguments as the caller sent and hook_set_arg accepted them
    rejected,   \* history: a hook_set_arg has failed
    offered,    \* history: values of the right type given to hook_set_arg, by argument
    writes, originals,
    got,        \* what the method found and what was meant for it, or NotRun
    ret,        \* what the method returned
    heard,      \* the value that call_original or invoke gave the script
    result      \* what the caller of the hooked method found

mvars == <<pc, sig, sent, regs, cur, explicit, called, accepted, rejected, offered, writes,
           originals, got, ret, heard, result>>
NotRun == [vals |-> <<>>, want |-> <<>>, tried |-> <<>>]

MarshalInit(sigs) ==
    /\ pc = "idle"
    /\ sig \in sigs
    /\ sent = <<>> /\ regs = NoRegs /\ cur = <<>> /\ explicit = Absent /\ called = FALSE
    /\ accepted = <<>> /\ rejected = FALSE /\ offered = <<>> /\ writes = 0 /\ originals = 0
    /\ got = NotRun /\ ret = Junk /\ heard = Absent /\ result = Junk
-----------------------------------------------------------------------------
\* The registers of a call: a narrow value under bits that nobody cleared, a
\* float in the low half, `this` in front.
Loaded(s, vals, dirt) ==
    LET arg(p) == { i \in Params(s) : AbiSlot(s, i) = p }
        type(p) == s.params[CHOOSE i \in arg(p) : TRUE]
        val(p) == vals[CHOOSE i \in arg(p) : TRUE]
    IN  [NoRegs EXCEPT
          !.int = [p \in DOMAIN @ |->
             IF arg(p) = {} THEN IF p = 0 /\ ~s.is_static THEN This ELSE dirt
             ELSE IF type(p) \in {"F32", "F64"} THEN dirt
             ELSE IF type(p) \in {"U8", "I8"} THEN (val(p) % Narrow) + dirt * Narrow ELSE val(p)],
          !.flt = [p \in DOMAIN @ |->
             IF arg(p) = {} THEN Zero
             ELSE IF type(p) = "F32" THEN Xmm("f32", val(p))
             ELSE IF type(p) = "F64" THEN Xmm("f64", val(p)) ELSE Zero]]

\* The game calls the hooked method.
Call ==
    /\ pc = "idle"
    /\ \E vals \in [Params(sig) -> UNION { Edges(t) : t \in {sig.params[i] : i \in Params(sig)} }], dirt \in {0, 1} :
        /\ \A i \in Params(sig) : vals[i] \in Edges(sig.params[i])
        /\ sent' = vals /\ accepted' = vals /\ offered' = [i \in Params(sig) |-> {}]
        /\ regs' = Loaded(sig, vals, dirt)
    /\ pc' = "captured"
    /\ UNCHANGED <<sig, cur, explicit, called, rejected, writes, originals, got, ret, heard, result>>

\* The original method runs on the registers of an image; arguments beyond
\* them lie on the stack of whoever calls it, which is not the caller's.
Found(s, r) ==
    [i \in Params(s) |->
        IF AbiSlot(s, i) < RegSlots THEN Native(s.params[i], r.int[AbiSlot(s, i)], r.flt[AbiSlot(s, i)])
        ELSE Junk]

\* call_trampoline_with_regargs: the method leaves its result in the register
\* of its type and anything in the other.
RunTrampoline ==
    /\ got' = [vals |-> Found(sig, regs), want |-> accepted, tried |-> offered]
    /\ \E v \in Edges(sig.ret), dirt \in {0, 1} :
        /\ ret' = v
        /\ regs' = CASE sig.ret \in {"F32", "F64"} ->
                        [regs EXCEPT !.ret_int = dirt, !.ret_float = Xmm(IF sig.ret = "F32" THEN "f32" ELSE "f64", v)]
                     [] sig.ret \in {"U8", "I8"} ->
                        [regs EXCEPT !.ret_int = (v % Narrow) + dirt * Narrow, !.ret_float = Zero]
                     [] OTHER -> [regs EXCEPT !.ret_int = v, !.ret_float = Zero]

\* dispatch_rust up to the handler; arguments that cannot be read, and the
\* method just runs.
Dispatch ==
    /\ pc = "captured"
    /\ IF InRegisters(sig)
       THEN /\ cur' = regargs_to_args(sig, regs) /\ pc' = "handler"
            /\ UNCHANGED <<regs, got, ret>>
       ELSE /\ RunTrampoline /\ pc' = "leaving" /\ UNCHANGED cur
    /\ UNCHANGED <<sig, sent, explicit, called, accepted, rejected, offered, writes, originals, heard, result>>

\* hook_arg_write: the argument is replaced in the context before it is known
\* to fit, and all arguments are written again.
SetArg(i, a) ==
    /\ pc = "handler" /\ writes < MaxWrites
    /\ writes' = writes + 1
    /\ cur' = [cur EXCEPT ![i] = a]
    /\ regs' = args_to_regargs(sig, cur', regs)
    /\ IF FirstBad(sig, cur') > Len(sig.params)
       THEN accepted' = [accepted EXCEPT ![i] = a.v] /\ UNCHANGED rejected
       ELSE rejected' = TRUE /\ UNCHANGED accepted
    /\ offered' = IF Fits(a, sig.params[i]) THEN [offered EXCEPT ![i] = @ \cup {a.v}] ELSE offered
    /\ UNCHANGED <<pc, sig, sent, explicit, called, originals, got, ret, heard, result>>

\* call_original_now.
CallOriginal ==
    /\ pc = "handler" /\ originals < MaxOriginals
    /\ originals' = originals + 1
    /\ called' = TRUE
    /\ RunTrampoline
    /\ heard' = ReturnArg(sig, regs')
    /\ UNCHANGED <<pc, sig, sent, cur, explicit, accepted, rejected, offered, writes, result>>

\* hook_set_return.
SetReturn(a) ==
    /\ pc = "handler"
    /\ explicit' = a
    /\ UNCHANGED <<pc, sig, sent, regs, cur, called, accepted, rejected, offered, writes, originals, got, ret, heard, result>>

\* The handler returns or traps; its return value is packed, or the method
\* runs if the handler has not run it.
HandlerEnds ==
    /\ pc = "handler"
    /\ pc' = "leaving"
    /\ IF explicit # Absent
       THEN regs' = pack_return(sig, explicit, regs) /\ UNCHANGED <<got, ret>>
       ELSE IF ~called THEN RunTrampoline
       ELSE UNCHANGED <<regs, got, ret>>
    /\ UNCHANGED <<sig, sent, cur, explicit, called, accepted, rejected, offered, writes, originals, heard, result>>

\* The shim loads both return registers; the caller looks at one of them.
ShimReturns ==
    /\ pc = "leaving"
    /\ result' = Native(sig.ret, regs.ret_int, regs.ret_float)
    /\ pc' = "returned"
    /\ UNCHANGED <<sig, sent, regs, cur, explicit, called, accepted, rejected, offered, writes, originals, got, ret, heard>>
-----------------------------------------------------------------------------
\* ---- invoke

\* InvokeContext::pack: an array is refused, a string where string_new is
\* missing or returns null.
Packs(a, string_new) == a.kind # "array" /\ (a.kind = "string" => string_new)

\* What runtime_invoke hands the method for a packed argument: a value is
\* read through its pointer, a reference is the pointer itself, which is that
\* of the slab.
Unpacked(t, a) ==
    CASE a.kind = "null" /\ t = "Ref" -> 0
      [] t # "Ref" /\ Fits(a, t) -> a.v
      [] OTHER -> Junk

\* unpack_return: no object, of a void method or a null reference, is null; a
\* value is taken out of its box; of a reference the first word of the object
\* is read, its class.
KlassWord == 2
unpack_return(t, v) ==
    CASE t = "Void" \/ (t = "Ref" /\ v = 0) -> NoPrim("null")
      [] t = "Ref" /\ v # 0 -> Prim("U64", KlassWord)
      [] OTHER -> Prim(valtype_from_tc(t), v)

Refused == NoPrim("error")

\* The checks of invoke_method: count, instance, and every argument packs.
Admitted(s, args, instance, string_new) ==
    /\ Len(args) = Len(s.params)
    /\ s.is_static \/ instance
    /\ \A i \in DOMAIN args : Packs(args[i], string_new)

\* invoke_method; the method may throw, after it has had its arguments.
invoke_method(args, instance, string_new) ==
    /\ pc = "idle"
    /\ pc' = "invoked"
    /\ IF ~Admitted(sig, args, instance, string_new)
       THEN got' = NotRun /\ ret' = Junk /\ heard' = Refused
       ELSE /\ got' = [vals |-> [i \in Params(sig) |->
                                  IF i \in DOMAIN args THEN Unpacked(sig.params[i], args[i]) ELSE Junk],
                       want |-> args, tried |-> <<>>]
            /\ \E v \in Edges(sig.ret) :
                /\ ret' = v
                /\ heard' \in {unpack_return(sig.ret, v), Refused}
    /\ UNCHANGED <<sig, sent, regs, cur, explicit, called, accepted, rejected, offered, writes, originals, result>>

\* The call is over, and so are the context and the registers of it.
Over ==
    /\ pc \in {"returned", "invoked"}
    /\ pc' = "idle"
    /\ sent' = <<>> /\ regs' = NoRegs /\ cur' = <<>> /\ explicit' = Absent /\ called' = FALSE
    /\ accepted' = <<>> /\ rejected' = FALSE /\ offered' = <<>> /\ writes' = 0 /\ originals' = 0
    /\ got' = NotRun /\ ret' = Junk /\ heard' = Absent /\ result' = Junk
    /\ UNCHANGED sig

Invoke ==
    \E n \in {Len(sig.params), Len(sig.params) - 1} \cap Nat, instance, string_new \in BOOLEAN :
        \E args \in [1 .. n -> Args] : invoke_method(args, instance, string_new)

SetArgs    == pc = "handler" /\ \E i \in Params(sig), a \in HandlerArgs : SetArg(i, a)
SetReturns == \E a \in HandlerArgs : SetReturn(a)

MarshalNext ==
    \/ Call \/ Dispatch \/ SetArgs \/ CallOriginal \/ SetReturns \/ HandlerEnds \/ ShimReturns
    \/ Invoke \/ Over
-----------------------------------------------------------------------------
(***************************************************************************)
(* Properties                                                              *)
(***************************************************************************)
\* When the original method runs, whoever runs it, it finds in its registers
\* what the caller sent or the handler last set.  After a write that was
\* refused, an argument may instead be any that the handler has passed for it,
\* be it one it was told was not set (hook_arg_write).  A 32-bit float
\* arrives as long as the handler writes no argument at all.  A method that a
\* script invokes runs with as many arguments as it has, and every one of its
\* own value type arrives (invoke_method).
MethodGetsArguments ==
    got # NotRun =>
        \A i \in Params(sig) :
            IF pc = "invoked"
            THEN /\ i \in DOMAIN got.want
                 /\ sig.params[i] # "Ref" /\ Fits(got.want[i], sig.params[i]) => got.vals[i] = got.want[i].v
            ELSE AbiSlot(sig, i) < RegSlots =>
                 \/ sig.params[i] = "F32" /\ writes > 0
                 \/ got.vals[i] = got.want[i]
                 \/ rejected /\ got.vals[i] \in got.tried[i]

\* Returns arrive: the caller of a hooked method finds what the handler set,
\* zero if that does not fit the method, and else what the method returned;
\* the script hears what the method returned, and null from an invoked method
\* only if that returned no object.  32-bit floats that pass through the
\* handler are left out, and references that invoke hands over.
ReturnsArrive ==
    /\ pc = "returned" /\ (sig.ret # "F32" \/ explicit = Absent) =>
        result = IF explicit = Absent THEN ret
                 ELSE IF Fits(explicit, sig.ret) THEN explicit.v ELSE 0
    /\ heard.kind = "prim" /\ sig.ret # (IF pc = "invoked" THEN "Ref" ELSE "F32") =>
        heard = Prim(valtype_from_tc(sig.ret), ret)
    /\ pc = "invoked" /\ heard.kind \in {"prim", "null"} =>
        (heard.kind = "null" <=> sig.ret = "Void" \/ (sig.ret = "Ref" /\ ret = 0))

\* marshal.rs says of a return value that the handler sets: "we're writing to
\* RAX/XMM0 which IS where the original method would put its un-boxed return
\* value".  So a float that the handler returns is the float the caller finds.
FloatReturnArrives ==
    pc = "returned" /\ sig.ret = "F32" /\ Fits(explicit, "F32") => result = explicit.v

\* replay.rs says that "additional stack-borne args are passed through
\* unchanged via the original stack frame (which the trampoline still sees)".
StackArgsPassThrough ==
    got # NotRun /\ pc # "invoked" =>
        \A i \in Params(sig) : AbiSlot(sig, i) >= RegSlots => got.vals[i] = sent[i]
=============================================================================
