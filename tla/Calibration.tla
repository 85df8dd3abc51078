----------------------------- MODULE Calibration -----------------------------
(***************************************************************************)
(* Startup: the worker waits for the class table of the game to settle,    *)
(* derives the offsets of il2cpp's structures by consensus over live       *)
(* objects, and brings the rest of the agent up; the game loads classes    *)
(* all the while.                                                          *)
(*                                                                         *)
(* A structure is a function from offsets to words.  A word has a kind,    *)
(* what a probe takes it for when it follows it, and a population: in how  *)
(* many of ten objects it looks that way.  A world is a layout of the      *)
(* class, method and parameter structures together with at most one decoy, *)
(* a word that looks like something it is not.                             *)
(***************************************************************************)
EXTENDS Integers, Sequences, FiniteSets

CONSTANTS
    Worlds,             \* the layouts and decoys to start in
    LoadSteps,          \* numbers of classes in the table as the game loads
    MinClasses,         \* Tunables.min_classes
    TableTries,         \* attempts at find_class_table
    MinStablePolls,     \* argument of await_class_table_stable
    MaxPolls            \* TIMEOUT divided by POLL_INTERVAL

ASSUME PollAssumption ==
    /\ MinStablePolls \in Nat \ {0} /\ MaxPolls \in Nat \ {0} /\ TableTries \in Nat \ {0}
    /\ LoadSteps \subseteq Nat /\ MinClasses \in Nat

ANCHOR_COUNT == 50
MIN_OVERRIDE_ANCHORS == 3
MIN_OVERRIDE_ANCHORS_PHASE2 == 2

NoWin == -1         \* winning_offset: None
None  == <<NoWin, NoWin>>

-----------------------------------------------------------------------------
(***************************************************************************)
(* The probes.  Candidates are tried in order; `accepts` are the kinds of  *)
(* word that the extract function of the probe takes for the field, and    *)
(* percent is its min_ratio.                                               *)
(***************************************************************************)
Probe(struct, cands, accepts, percent, min) ==
    [struct |-> struct, cands |-> cands, accepts |-> accepts,
     percent |-> percent, min |-> min]

klass_namespace ==
    Probe("klass", <<16, 24, 32, 40>>, {"namespace"}, 90, MIN_OVERRIDE_ANCHORS)
klass_fields ==
    Probe("klass", <<112, 120, 128, 136, 144>>, {"fields"}, 90, MIN_OVERRIDE_ANCHORS)
klass_methods ==
    Probe("klass", <<136, 144, 152, 160, 168>>, {"methods"}, 90, MIN_OVERRIDE_ANCHORS)
\* Any pointer passes, so nearly every class must have one there.
klass_static_fields ==
    Probe("klass", <<168, 176, 184, 192, 200>>, {"statics", "pointer", "fields", "methods"},
          99, MIN_OVERRIDE_ANCHORS)
method_pointer_off ==
    Probe("method", <<0, 8, 16>>, {"code"}, 90, MIN_OVERRIDE_ANCHORS_PHASE2)
method_name_off ==
    Probe("method", <<16, 24, 32>>, {"name"}, 90, MIN_OVERRIDE_ANCHORS_PHASE2)
method_klass_off ==
    Probe("method", <<24, 32, 40>>, {"klass"}, 90, MIN_OVERRIDE_ANCHORS_PHASE2)
method_flags_off ==
    Probe("method", <<64, 68, 72, 76, 80>>, {"flags"}, 90, MIN_OVERRIDE_ANCHORS_PHASE2)
method_parameters_off ==
    Probe("method", <<40, 48, 56>>, {"parameters"}, 90, MIN_OVERRIDE_ANCHORS_PHASE2)
method_return_type_off ==
    Probe("method", <<32, 40, 48>>, {"return"}, 90, MIN_OVERRIDE_ANCHORS_PHASE2)
method_param_count_off ==
    Probe("method", <<80, 82, 84>>, {"argc"}, 90, MIN_OVERRIDE_ANCHORS_PHASE2)
\* Two known types must have their exact type code when they can be found;
\* otherwise it is enough that most words lead to some valid type code.
klass_type_def(known) ==
    Probe("klass", <<24, 32, 40, 48>>, IF known THEN {"type"} ELSE {"type", "typelike"},
          90, MIN_OVERRIDE_ANCHORS)

Phase1 == <<"klass_namespace", "klass_type_def", "klass_fields", "klass_methods",
            "klass_static_fields", "klass_valuetype">>
Phase2 == <<"method_pointer_off", "method_name_off", "method_klass_off", "method_flags_off",
            "method_parameters_off", "method_return_type_off", "method_param_count_off">>
Phase3 == <<"type_discrim">>
Phase4 == <<"param_info">>
Order  == Phase1 \o Phase2 \o Phase3 \o Phase4
Fields == { Order[i] : i \in 1 .. Len(Order) }

ProbeOf(f, known) ==
    CASE f = "klass_namespace" -> klass_namespace
      [] f = "klass_type_def" -> klass_type_def(known)
      [] f = "klass_fields" -> klass_fields
      [] f = "klass_methods" -> klass_methods
      [] f = "klass_static_fields" -> klass_static_fields
      [] f = "method_pointer_off" -> method_pointer_off
      [] f = "method_name_off" -> method_name_off
      [] f = "method_klass_off" -> method_klass_off
      [] f = "method_flags_off" -> method_flags_off
      [] f = "method_parameters_off" -> method_parameters_off
      [] f = "method_return_type_off" -> method_return_type_off
      [] f = "method_param_count_off" -> method_param_count_off

Joint == {"klass_valuetype", "type_discrim", "param_info"}

\* Il2CppConfig::fallback_constants; the joint fields are pairs: byte and bit,
\* read_at and shift, size and type_off.
fallback_constants ==
    [klass_namespace |-> 24, klass_type_def |-> 32, klass_fields |-> 128, klass_methods |-> 152,
     klass_static_fields |-> 184, klass_valuetype |-> <<43, 128>>,
     method_pointer_off |-> 8, method_name_off |-> 24, method_klass_off |-> 32,
     method_flags_off |-> 76, method_parameters_off |-> 48, method_return_type_off |-> 40,
     method_param_count_off |-> 82, type_discrim |-> <<8, 16>>, param_info |-> <<24, 0>>]

\* What a layout is.  A method has one name, one class and one count of
\* parameters.  Of several words that a probe takes for a field the field
\* itself comes first (this_arg is behind byval_arg, the invoker behind the
\* method pointer).  The type bits do not lie where a type begins.  A decoy
\* stands where the layout has nothing a probe knows.
ASSUME WorldAssumption ==
    \A w \in Worlds :
        /\ \A kind \in {"name", "klass", "argc"} : \A x, y \in DOMAIN w.method :
              w.method[x] = kind /\ w.method[y] = kind => x = y
        /\ \A f \in Fields \ Joint, known \in BOOLEAN :
              LET p == ProbeOf(f, known)
                  Accepts(i) == /\ p.cands[i] \in DOMAIN w[p.struct]
                                /\ w[p.struct][p.cands[i]] \in p.accepts
              IN  \A i \in DOMAIN p.cands : Accepts(i) =>
                    \E j \in DOMAIN p.cands : j <= i /\ Accepts(j) /\ p.cands[j] = w.truth[f]
        /\ \A off \in {fallback_constants["klass_type_def"], w.truth["klass_type_def"]} :
              off \in Nat /\ (off \in DOMAIN w.klass => w.klass[off] # "typebits")
        /\ w.valuetype \subseteq Nat \X Nat
        /\ w.decoy.pop \in 0 .. 10
        /\ w.decoy.struct = "valuetype" => w.decoy.pair \in Nat \X Nat
        /\ w.decoy.struct \in {"klass", "method"} => w.decoy.off \notin DOMAIN w[w.decoy.struct]
-----------------------------------------------------------------------------
VARIABLES
    world,          \* the layouts of this game and the decoy
    slots,          \* classes in the table
    core,           \* core classes loaded: "none", "some" (the anchors), "all"
    pc,             \* where the worker is
    tries, polls,   \* attempts and polls so far
    anchors_met, prev_count, stable_run,
    phase0,         \* StabilityResult
    seen,           \* classes in the table when the region map was captured
    cfg,            \* Il2CppConfig
    thin,           \* history: fields changed on the word of fewer than three objects
    quiet           \* history: sleeps of the worker since the game last loaded

vars == <<world, slots, core, pc, tries, polls, anchors_met, prev_count, stable_run,
          phase0, seen, cfg, thin, quiet>>
waiting == <<tries, polls, anchors_met, prev_count, stable_run, phase0>>
game    == <<world, slots, core>>

Init ==
    /\ world \in Worlds
    /\ slots = 0 /\ core = "none"
    /\ pc = "gate"
    /\ tries = 0 /\ polls = 0
    /\ anchors_met = FALSE /\ prev_count = 0 /\ stable_run = 0
    /\ phase0 = [result |-> "none", count |-> 0, quiet |-> 0]
    /\ seen = 0
    /\ cfg = fallback_constants
    /\ thin = {}
    /\ quiet = 0
-----------------------------------------------------------------------------
\* ---- reading the world

\* The word at an offset of a structure, the decoy in front of the layout.
Word(struct, off) ==
    IF world.decoy.struct = struct /\ world.decoy.off = off THEN world.decoy
    ELSE IF off \in DOMAIN world[struct] THEN [kind |-> world[struct][off], pop |-> 10]
    ELSE [kind |-> "other", pop |-> 0]

\* local_find_method walks the methods with the fallback constants, whatever
\* the probes have found: class methods, name, declaring class and arity.
MethodAnchors ==
    /\ core # "none"
    /\ Word("klass", 152).kind = "methods" /\ Word("method", 24).kind = "name"
    /\ Word("method", 32).kind = "klass" /\ Word("method", 82).kind = "argc"

anchors_ready == MethodAnchors

Below(n, m) == IF n <= m THEN n ELSE m
\* sample_klass_anchors: the first classes of the table whose memory the map
\* knows; classes loaded since may or may not be in regions it knows.
Samples == { Below(n, ANCHOR_COUNT) : n \in seen .. slots }

\* Objects a probe compares with, out of a sample of n classes.  Without
\* class_get_fields the fields probe samples what the fallback finds.
Total(f, n) ==
    IF f \in { Phase2[i] : i \in 1 .. Len(Phase2) } THEN IF MethodAnchors THEN 2 ELSE 0
    ELSE IF f = "klass_fields" /\ ~world.class_get_fields
         THEN IF Word("klass", 128).kind = "fields" THEN (n * Word("klass", 128).pop) \div 10 ELSE 0
    ELSE n

\* extract on every object: how many match at a candidate offset.
Hits(p, off, total) ==
    IF Word(p.struct, off).kind \in p.accepts THEN (total * Word(p.struct, off).pop) \div 10 ELSE 0

Outcome(win, matches, total) == [win |-> win, matches |-> matches, total |-> total]

\* Mutant: a later candidate with as many matches takes over.
pick_offset_by_consensus_Last(p, total) ==
    LET hits(i) == Hits(p, p.cands[i], total)
        passes(i) == total > 0 /\ 100 * hits(i) >= p.percent * total
        best == { i \in DOMAIN p.cands : passes(i) /\ \A j \in DOMAIN p.cands :
                    passes(j) => hits(j) < hits(i) \/ (hits(j) = hits(i) /\ j <= i) }
    IN  IF best = {} THEN Outcome(NoWin, 0, total)
        ELSE LET i == CHOOSE i \in best : TRUE IN Outcome(p.cands[i], hits(i), total)

\* Of the candidates that reach the ratio the one with most matches wins, the
\* first of several.
pick_offset_by_consensus(p, total) ==
    LET hits(i) == Hits(p, p.cands[i], total)
        passes(i) == total > 0 /\ 100 * hits(i) >= p.percent * total
        best == { i \in DOMAIN p.cands : passes(i) /\ \A j \in DOMAIN p.cands :
                    passes(j) => hits(j) < hits(i) \/ (hits(j) = hits(i) /\ i <= j) }
    IN  IF best = {} THEN Outcome(NoWin, 0, total)
        ELSE LET i == CHOOSE i \in best : TRUE IN Outcome(p.cands[i], hits(i), total)

\* Pairs in the order in which two nested loops visit them.
Lex(a, b) == a[1] < b[1] \/ (a[1] = b[1] /\ a[2] <= b[2])
FirstPair(S) == CHOOSE a \in S : \A b \in S : Lex(a, b)

\* probe_klass_valuetype: the first byte and bit that separate five known value
\* types from four known reference types without an exception; too few of
\* them loaded, and it does not look.
probe_klass_valuetype ==
    LET pairs == world.valuetype \cup
                 (IF world.decoy.struct = "valuetype" THEN {world.decoy.pair} ELSE {})
    IN  IF core # "all" THEN Outcome(None, 0, 0)
        ELSE IF pairs = {} THEN Outcome(None, 0, 9)
        ELSE Outcome(FirstPair(pairs), 9, 9)

\* probe_type_discrim reads the type bits inside the class, behind the
\* klass_type_def that phase 1 settled on.  The known types are three of the
\* anchors and two more.
TypeAnchors == CASE core = "none" -> 0 [] core = "some" -> 3 [] core = "all" -> 5
probe_type_discrim ==
    LET pairs == { rs \in {0, 8} \X {0, 8, 16, 24} :
                     /\ TypeAnchors > 0 /\ rs[2] = 16
                     /\ Word("klass", cfg["klass_type_def"] + rs[1]).kind = "typebits" }
    IN  IF pairs = {} THEN Outcome(None, 0, TypeAnchors)
        ELSE Outcome(FirstPair(pairs), TypeAnchors, TypeAnchors)

\* probe_param_info decodes the two parameters of PadLeft with the offsets
\* found so far; a wrong one of them and no pair fits.
probe_param_info ==
    LET base == Word("method", cfg["method_parameters_off"]).kind IN
    IF ~MethodAnchors THEN Outcome(None, 0, 0)
    ELSE IF base = "parameters" /\ cfg["type_discrim"] = <<8, 16>>
         THEN Outcome(world.param, 2, 2)
         ELSE Outcome(None, 0, IF base = "other" THEN 0 ELSE 2)

\* Mutant: phase 1 has no lower bound on its anchors either.
apply_offset_Always(f, o, min) == IF o.matches = 0 THEN cfg[f] ELSE o.win

\* apply_offset_with_threshold: a winner with too few anchors is only logged.
apply_offset(f, o, min) ==
    IF o.matches = 0 \/ o.total < min THEN cfg[f] ELSE o.win
-----------------------------------------------------------------------------
\* ---- the game loads classes

\* Any number of classes, some of them the core classes.
Load ==
    \E n \in LoadSteps, c \in {"none", "some", "all"} :
        /\ n > slots
        /\ core = "all" => c = "all"
        /\ core = "some" => c # "none"
        /\ slots' = n /\ core' = c
        /\ quiet' = 0
        /\ UNCHANGED <<world, pc, waiting, seen, cfg, thin>>
-----------------------------------------------------------------------------
\* ---- the worker

Sleep == quiet' = Below(quiet + 1, MinStablePolls)

\* should_decline: with an anti-cheat module loaded the worker ends.
Gate ==
    /\ pc = "gate"
    /\ pc' \in {"table", "terminated"}
    /\ UNCHANGED <<game, waiting, seen, cfg, thin, quiet>>

\* find_class_table, tried again after a sleep until the table is dense enough.
FindTable ==
    /\ pc = "table"
    /\ IF slots >= MinClasses
       THEN pc' = "api" /\ UNCHANGED <<tries, quiet>>
       ELSE /\ tries' = tries + 1 /\ Sleep
            /\ pc' = IF tries' = TableTries THEN "terminated" ELSE "table"
    /\ UNCHANGED <<game, polls, anchors_met, prev_count, stable_run, phase0, seen, cfg, thin>>

\* Il2CppApi::resolve.
Resolve ==
    /\ pc = "api"
    /\ pc' \in {"phase0", "terminated"}
    /\ UNCHANGED <<game, waiting, seen, cfg, thin, quiet>>

\* Mutant: polls that wait for the anchors do not count towards the timeout.
Poll_Unbounded ==
    /\ pc = "phase0" /\ polls < MaxPolls
    /\ IF anchors_met \/ anchors_ready
       THEN /\ anchors_met' = TRUE
            /\ prev_count' = IF anchors_met THEN prev_count ELSE slots
            /\ polls' = polls + 1
            /\ pc' = "count" /\ UNCHANGED quiet
       ELSE Sleep /\ UNCHANGED <<anchors_met, prev_count, pc, polls>>
    /\ UNCHANGED <<game, tries, stable_run, phase0, seen, cfg, thin>>

\* A poll of await_class_table_stable up to the count: phase A waits for the
\* anchors and takes the first count.
Poll ==
    /\ pc = "phase0" /\ polls < MaxPolls
    /\ polls' = polls + 1
    /\ IF anchors_met \/ anchors_ready
       THEN /\ anchors_met' = TRUE
            /\ prev_count' = IF anchors_met THEN prev_count ELSE slots
            /\ pc' = "count" /\ UNCHANGED quiet
       ELSE Sleep /\ UNCHANGED <<anchors_met, prev_count, pc>>
    /\ UNCHANGED <<game, tries, stable_run, phase0, seen, cfg, thin>>

\* Mutant: a change of the count does not start the run again.
Count_NoReset ==
    /\ pc = "count"
    /\ stable_run' = IF slots = prev_count THEN stable_run + 1 ELSE stable_run
    /\ prev_count' = slots
    /\ IF stable_run' >= MinStablePolls
       THEN /\ phase0' = [result |-> "stable", count |-> slots, quiet |-> quiet]
            /\ pc' = "map" /\ UNCHANGED quiet
       ELSE pc' = "phase0" /\ Sleep /\ UNCHANGED phase0
    /\ UNCHANGED <<game, tries, polls, anchors_met, seen, cfg, thin>>

\* Phase B: the count is compared with the one before.
Count ==
    /\ pc = "count"
    /\ stable_run' = IF slots = prev_count THEN stable_run + 1 ELSE 0
    /\ prev_count' = slots
    /\ IF stable_run' >= MinStablePolls
       THEN /\ phase0' = [result |-> "stable", count |-> slots, quiet |-> quiet]
            /\ pc' = "map" /\ UNCHANGED quiet
       ELSE pc' = "phase0" /\ Sleep /\ UNCHANGED phase0
    /\ UNCHANGED <<game, tries, polls, anchors_met, seen, cfg, thin>>

\* The 30 seconds are over; the worker goes on all the same.
Timeout ==
    /\ pc = "phase0" /\ polls >= MaxPolls
    /\ phase0' = [result |-> "timeout", count |-> slots, quiet |-> quiet]
    /\ pc' = "map"
    /\ UNCHANGED <<game, tries, polls, anchors_met, prev_count, stable_run, seen, cfg, thin, quiet>>

\* RegionMap::capture, after the wait.
CaptureMap ==
    /\ pc = "map"
    /\ seen' = slots
    /\ pc' = Order[1]
    /\ UNCHANGED <<game, waiting, cfg, thin, quiet>>

After(f) == LET i == CHOOSE i \in 1 .. Len(Order) : Order[i] = f
            IN  IF i = Len(Order) THEN "bring up" ELSE Order[i + 1]

\* One probe of Il2CppConfig::probe and the application of its outcome.
Record(f, o, min) ==
    /\ cfg' = [cfg EXCEPT ![f] = apply_offset(f, o, min)]
    /\ thin' = IF o.total < 3 /\ cfg' # cfg THEN thin \cup {f} ELSE thin
    /\ pc' = After(f)
    /\ UNCHANGED <<game, waiting, seen, quiet>>

ProbeField ==
    /\ pc \in Fields \ Joint
    /\ \E p \in {ProbeOf(pc, core # "none")} :
       \E total \in { Total(pc, n) : n \in Samples } :
       \E o \in {pick_offset_by_consensus(p, total)} : Record(pc, o, p.min)

ProbeValuetype == pc = "klass_valuetype" /\ Record(pc, probe_klass_valuetype, MIN_OVERRIDE_ANCHORS)
ProbeDiscrim == pc = "type_discrim" /\ Record(pc, probe_type_discrim, MIN_OVERRIDE_ANCHORS)
\* Mutant: phase 4 uses the threshold of phase 2.
ProbeParams_Two == pc = "param_info" /\ Record(pc, probe_param_info, MIN_OVERRIDE_ANCHORS_PHASE2)
ProbeParams == pc = "param_info" /\ Record(pc, probe_param_info, MIN_OVERRIDE_ANCHORS)

\* The dump, the back ends, the context, the cold start and the watcher.
BringUp ==
    /\ pc = "bring up"
    /\ pc' = "running"
    /\ UNCHANGED <<game, waiting, seen, cfg, thin, quiet>>

Worker ==
    \/ Gate \/ FindTable \/ Resolve \/ Poll \/ Count \/ Timeout \/ CaptureMap
    \/ ProbeField \/ ProbeValuetype \/ ProbeDiscrim \/ ProbeParams \/ BringUp

Next == Load \/ Worker

\* The worker is a thread of its own and the operating system runs it; nothing
\* is assumed of the game.
Spec == Init /\ [][Next]_vars /\ WF_vars(Worker)
-----------------------------------------------------------------------------
(***************************************************************************)
(* Properties                                                              *)
(***************************************************************************)
Done == {"running", "terminated"}

\* "Stable" means that the game loaded nothing during all but one of the
\* required poll intervals and that the anchors were there; the first
\* comparison follows its own count without a sleep (stability.rs).
StableMeansQuiet ==
    phase0.result = "stable" =>
        /\ anchors_met /\ core # "none"
        /\ phase0.quiet >= MinStablePolls - 1
        /\ phase0.count <= slots

\* The offsets of the world, as far as the probes could find them.
Truth(f) ==
    CASE f = "klass_valuetype" -> world.valuetype
      [] f = "type_discrim" -> {<<8, 16>>}
      [] f = "param_info" -> {world.param}
      [] OTHER -> {world.truth[f]}

\* In a world where nothing looks like what it is not, every field of the
\* configuration is the right one or the verified prior: twins (this_arg after
\* byval_arg, the invoker after the method pointer) lose to the first, and
\* the recipes that depend on earlier phases agree with them (config.rs).
HonestWorldIsRight ==
    world.decoy.struct = "none" =>
        \A f \in Fields : cfg[f] = fallback_constants[f] \/ cfg[f] \in Truth(f)

\* A field that is neither right nor the prior holds the offset of the decoy,
\* which was seen in at least nine of ten objects, of at least three classes or
\* both anchor methods, or it depends on klass_type_def, which does.
WrongNeedsDecoy ==
    \A f \in Fields :
        \/ cfg[f] = fallback_constants[f] \/ cfg[f] \in Truth(f)
        \/ f = "klass_valuetype" /\ cfg[f] = world.decoy.pair
        \/ f = "type_discrim" /\ cfg["klass_type_def"] = world.decoy.off
        \/ /\ f \notin Joint
           /\ cfg[f] = world.decoy.off /\ world.decoy.pop >= 9
           /\ f \in { Phase1[i] : i \in 1 .. Len(Phase1) } => f \notin thin

\* Fields that are probed but cannot be corrected.  The anchors of phase 2 are
\* found with the fallback offsets of name, class and arity, so a probe of one
\* of these finds the fallback, unless a decoy gets in front of it or stands in
\* its place; and phase 4 has two anchors where three are asked for.
OnlyConfirmed ==
    /\ cfg["param_info"] = fallback_constants["param_info"]
    /\ \A f \in {"method_name_off", "method_klass_off", "method_param_count_off"} :
        \/ cfg[f] = fallback_constants[f]
        \/ world.decoy.struct = "method" /\ world.decoy.off \in {cfg[f], fallback_constants[f]}

\* The worker gets to the end of its startup, or gives up, however long the
\* game goes on loading (stability.rs: 30 s backstop; entry.rs: 30 tries).
StartupDecides == <>(pc \in Done)
=============================================================================
