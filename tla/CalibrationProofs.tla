-------------------------- MODULE CalibrationProofs --------------------------
(***************************************************************************)
(* Proofs about Calibration, for every number of polls, every sequence of  *)
(* class loads and every set of worlds: what the wait for a stable class   *)
(* table has established when it reports "stable", and which fields the    *)
(* probes can only confirm.                                                *)
(***************************************************************************)
EXTENDS Calibration, WellFoundedInduction, TLAPS

-----------------------------------------------------------------------------
(* The order of the probes leads from one to the next and then out of      *)
(* them, never back into the wait.                                         *)
LEMMA AfterLeaves == \A f \in Fields : After(f) \notin {"phase0", "count", "gate", "table", "api"}
<1>1. Len(Order) = 15 /\ \A i \in 1..15 : Order[i] \notin {"phase0", "count", "gate", "table", "api"}
  BY DEF Order, Phase1, Phase2, Phase3, Phase4
<1> SUFFICES ASSUME NEW f \in Fields PROVE After(f) \notin {"phase0", "count", "gate", "table", "api"}
  OBVIOUS
<1> DEFINE i == CHOOSE i \in 1 .. Len(Order) : Order[i] = f
<1>2. i \in 1 .. Len(Order)
  BY DEF Fields
<1> HIDE DEF i
<1>3. After(f) = IF i = Len(Order) THEN "bring up" ELSE Order[i + 1]
  BY DEF After, i
<1>4. CASE i = Len(Order)
  BY <1>3, <1>4
<1>5. CASE i # Len(Order)
  <2>1. i + 1 \in 1..15
    BY <1>1, <1>2, <1>5
  <2> QED BY <1>1, <1>3, <1>5, <2>1
<1> QED BY <1>4, <1>5

-----------------------------------------------------------------------------
(* The wait for a stable table.                                            *)

\* As long as the count is the one taken last, every comparison of the run
\* but the one to come had a sleep behind it in which nothing was loaded.
WaitInv ==
  /\ slots \in Nat /\ prev_count \in Nat /\ prev_count <= slots
  /\ quiet \in Nat /\ stable_run \in Nat /\ phase0.count \in Nat
  /\ core \in {"none", "some", "all"}
  /\ anchors_met \in BOOLEAN /\ (anchors_met => core # "none")
  /\ ~anchors_met => stable_run = 0
  /\ pc = "count" => anchors_met
  /\ pc \in {"gate", "table", "api"} => stable_run = 0
  /\ pc \in {"phase0", "count"} =>
       stable_run < MinStablePolls /\ (slots = prev_count => quiet >= stable_run)

(* The worker is not in the wait while it probes.                          *)
LEMMA ProbesLeaveWait ==
  ASSUME ProbeField \/ ProbeValuetype \/ ProbeDiscrim \/ ProbeParams
  PROVE  /\ pc' \notin {"phase0", "count", "gate", "table", "api"}
         /\ UNCHANGED <<game, waiting, seen, quiet>>
<1>1. pc \in Fields
  BY DEF ProbeField, ProbeValuetype, ProbeDiscrim, ProbeParams, Fields, Order, Phase1, Phase2, Phase3, Phase4
<1>2. pc' = After(pc) /\ UNCHANGED <<game, waiting, seen, quiet>>
  BY DEF ProbeField, ProbeValuetype, ProbeDiscrim, ProbeParams, Record
<1> QED BY <1>1, <1>2, AfterLeaves

(* A poll, a comparison and a load keep the account of the sleeps.         *)
LEMMA NextWait == WaitInv /\ [Next]_vars => WaitInv'
<1> SUFFICES ASSUME WaitInv, [Next]_vars PROVE WaitInv'
  OBVIOUS
<1> USE PollAssumption
<1>1. CASE Load
  BY <1>1 DEF Load, WaitInv, waiting, Below
<1>2. CASE Gate
  BY <1>2 DEF Gate, WaitInv, waiting, game, Below
<1>3. CASE FindTable
  BY <1>3 DEF FindTable, WaitInv, game, Below, Sleep
<1>4. CASE Resolve
  BY <1>4 DEF Resolve, WaitInv, waiting, game, Below
<1>5. CASE Poll
  <2>1. CASE anchors_met \/ anchors_ready
    <3>1. core # "none"
      BY <2>1 DEF WaitInv, anchors_ready, MethodAnchors
    <3>2. /\ anchors_met' = TRUE /\ pc' = "count" /\ pc = "phase0"
          /\ prev_count' = IF anchors_met THEN prev_count ELSE slots
          /\ UNCHANGED <<slots, core, stable_run, quiet, phase0>>
      BY <1>5, <2>1 DEF Poll, game
    <3> QED BY <3>1, <3>2 DEF WaitInv, Below
  <2>2. CASE ~(anchors_met \/ anchors_ready)
    <3>1. /\ quiet' = Below(quiet + 1, MinStablePolls)
          /\ UNCHANGED <<slots, core, stable_run, anchors_met, prev_count, pc, phase0>>
      BY <1>5, <2>2 DEF Poll, game, Sleep
    <3> QED BY <3>1 DEF WaitInv, Below
  <2> QED BY <2>1, <2>2
<1>6. CASE Count
  <2>1. /\ pc = "count" /\ prev_count' = slots
        /\ stable_run' = IF slots = prev_count THEN stable_run + 1 ELSE 0
        /\ UNCHANGED <<slots, core, anchors_met>>
    BY <1>6 DEF Count, game
  <2>2. CASE stable_run' >= MinStablePolls
    <3>1. pc' = "map" /\ quiet' = quiet /\ phase0'.count = slots
      BY <1>6, <2>2 DEF Count
    <3> QED BY <2>1, <2>2, <3>1 DEF WaitInv, Below
  <2>3. CASE ~(stable_run' >= MinStablePolls)
    <3>1. pc' = "phase0" /\ quiet' = Below(quiet + 1, MinStablePolls) /\ phase0' = phase0
      BY <1>6, <2>3 DEF Count, Sleep
    <3> QED BY <2>1, <2>3, <3>1 DEF WaitInv, Below
  <2> QED BY <2>2, <2>3
<1>7. CASE Timeout
  BY <1>7 DEF Timeout, WaitInv, game, Below
<1>8. CASE CaptureMap
  <2>1. Order[1] = "klass_namespace"
    BY DEF Order, Phase1, Phase2, Phase3, Phase4
  <2> QED BY <1>8, <2>1 DEF CaptureMap, WaitInv, game, waiting, Below
<1>9. CASE ProbeField \/ ProbeValuetype \/ ProbeDiscrim \/ ProbeParams
  BY <1>9, ProbesLeaveWait DEF WaitInv, game, waiting, Below
<1>10. CASE BringUp
  BY <1>10 DEF BringUp, WaitInv, game, waiting, Below
<1>11. CASE UNCHANGED vars
  BY <1>11 DEF vars, WaitInv, Below
<1> QED
  BY <1>1, <1>2, <1>3, <1>4, <1>5, <1>6, <1>7, <1>8, <1>9, <1>10, <1>11 DEF Next, Worker

(* What the report says, once it is there.                                 *)
LEMMA NextStable == WaitInv /\ StableMeansQuiet /\ [Next]_vars => StableMeansQuiet'
<1> SUFFICES ASSUME WaitInv, StableMeansQuiet, [Next]_vars PROVE StableMeansQuiet'
  OBVIOUS
<1> USE PollAssumption
<1>1. WaitInv'
  BY NextWait
<1>2. CASE Count
  <2>1. UNCHANGED <<slots, core, anchors_met>> /\ pc = "count"
    BY <1>2 DEF Count, game
  <2>2. CASE stable_run' >= MinStablePolls
    <3>1. phase0' = [result |-> "stable", count |-> slots, quiet |-> quiet]
      BY <1>2, <2>2 DEF Count
    <3>2. stable_run' = IF slots = prev_count THEN stable_run + 1 ELSE 0
      BY <1>2 DEF Count
    <3> QED BY <2>1, <2>2, <3>1, <3>2 DEF WaitInv, StableMeansQuiet
  <2>3. CASE ~(stable_run' >= MinStablePolls)
    BY <1>2, <2>1, <2>3 DEF Count, StableMeansQuiet
  <2> QED BY <2>2, <2>3
<1>3. CASE Timeout
  BY <1>3 DEF Timeout, StableMeansQuiet
<1>4. phase0' = phase0 /\ slots' >= slots /\ (anchors_met => anchors_met') => StableMeansQuiet'
  <2> SUFFICES ASSUME phase0' = phase0, slots' >= slots, anchors_met => anchors_met',
                      phase0.result = "stable"
               PROVE  StableMeansQuiet'
    BY DEF StableMeansQuiet
  <2>1. anchors_met' /\ core' # "none"
    BY <1>1 DEF WaitInv, StableMeansQuiet
  <2>2. phase0.count <= slots'
    BY <1>1 DEF WaitInv, StableMeansQuiet
  <2> QED BY <2>1, <2>2 DEF StableMeansQuiet
<1>5. CASE ProbeField \/ ProbeValuetype \/ ProbeDiscrim \/ ProbeParams
  BY <1>4, <1>5, ProbesLeaveWait DEF WaitInv, game, waiting
<1>6. CASE Load
  BY <1>4, <1>6 DEF Load, WaitInv, waiting
<1>7. CASE Gate \/ FindTable \/ Resolve \/ Poll \/ CaptureMap \/ BringUp \/ UNCHANGED vars
  <2>1. phase0' = phase0 /\ slots' = slots
    BY <1>7 DEF Gate, FindTable, Resolve, Poll, CaptureMap, BringUp, vars, game, waiting
  <2>2. anchors_met => anchors_met'
    BY <1>7 DEF Gate, FindTable, Resolve, Poll, CaptureMap, BringUp, vars, game, waiting
  <2> QED BY <1>4, <2>1, <2>2 DEF WaitInv
<1> QED BY <1>2, <1>3, <1>5, <1>6, <1>7 DEF Next, Worker

(* The wait begins without a run.                                          *)
LEMMA StableStart == Init => WaitInv /\ StableMeansQuiet
<1> SUFFICES ASSUME Init PROVE WaitInv /\ StableMeansQuiet
  OBVIOUS
<1>1. phase0.count = 0 /\ phase0.result # "stable"
  BY DEF Init
<1>2. /\ slots = 0 /\ prev_count = 0 /\ quiet = 0 /\ stable_run = 0
      /\ core = "none" /\ pc = "gate"
  BY DEF Init
<1>3. anchors_met = FALSE
  BY Zenon DEF Init
<1>4. anchors_met \in BOOLEAN /\ (anchors_met => core # "none")
  BY <1>3, Zenon
<1>5. WaitInv
  BY <1>1, <1>2, <1>4 DEF WaitInv
<1> QED BY <1>1, <1>5 DEF StableMeansQuiet

(* A table reported stable was quiet during all but one of the required    *)
(* intervals, and the anchor classes were loaded, whatever the game loaded *)
(* between any two steps of await_class_table_stable.                      *)
THEOREM StableIsQuiet == Spec => []StableMeansQuiet
<1>1. Init => WaitInv /\ StableMeansQuiet
  BY StableStart
<1>2. WaitInv /\ StableMeansQuiet /\ [Next]_vars => WaitInv' /\ StableMeansQuiet'
  BY NextWait, NextStable
<1> QED BY <1>1, <1>2, PTL DEF Spec

-----------------------------------------------------------------------------
(* Fields that can only be confirmed.                                      *)

FixedFields == {"method_name_off", "method_klass_off", "method_param_count_off"}

\* What the fixed fields are called in the layout of a method.
KindOf(f) == CASE f = "method_name_off" -> "name" [] f = "method_klass_off" -> "klass"
               [] f = "method_param_count_off" -> "argc"

\* A decoy that takes the place of the word at the fallback offset of f, or
\* stands at off.
DecoyAt(f, off) ==
  world.decoy.struct = "method" /\ world.decoy.off \in {off, fallback_constants[f]}

ConfirmInv ==
  /\ world \in Worlds /\ FixedFields \cup {"param_info"} \subseteq DOMAIN cfg
  /\ OnlyConfirmed

(* A winner of the vote has at least one object with a word of the kind    *)
(* that the probe is after.                                                *)
LEMMA WinnerAccepted ==
  ASSUME NEW p, NEW total, pick_offset_by_consensus(p, total).matches # 0
  PROVE  \E i \in DOMAIN p.cands :
           /\ pick_offset_by_consensus(p, total).win = p.cands[i]
           /\ Word(p.struct, p.cands[i]).kind \in p.accepts
<1> DEFINE hits(i) == Hits(p, p.cands[i], total)
           passes(i) == total > 0 /\ 100 * hits(i) >= p.percent * total
           best == { i \in DOMAIN p.cands : passes(i) /\ \A j \in DOMAIN p.cands :
                       passes(j) => hits(j) < hits(i) \/ (hits(j) = hits(i) /\ i <= j) }
           k == CHOOSE i \in best : TRUE
<1>1. pick_offset_by_consensus(p, total) =
        IF best = {} THEN Outcome(NoWin, 0, total) ELSE Outcome(p.cands[k], hits(k), total)
  BY DEF pick_offset_by_consensus
<1>2. best # {}
  BY <1>1 DEF Outcome
<1>3. k \in best
  BY <1>2
<1>4. k \in DOMAIN p.cands
  BY <1>3
<1> HIDE DEF k, best
<1>5. pick_offset_by_consensus(p, total) = [win |-> p.cands[k], matches |-> hits(k), total |-> total]
  BY <1>1, <1>2 DEF Outcome
<1>6. Word(p.struct, p.cands[k]).kind \in p.accepts
  BY <1>5 DEF Hits
<1> QED BY <1>4, <1>5, <1>6

(* The anchors of phase 2 vouch for the fallback offsets.                  *)
LEMMA AnchorsVouch ==
  ASSUME MethodAnchors, NEW f \in FixedFields
  PROVE  Word("method", fallback_constants[f]).kind = KindOf(f)
<1>1. /\ fallback_constants["method_name_off"] = 24
      /\ fallback_constants["method_klass_off"] = 32
      /\ fallback_constants["method_param_count_off"] = 82
  BY DEF fallback_constants
<1> QED BY <1>1 DEF FixedFields, KindOf, MethodAnchors

(* A word of the layout that is not the decoy is the layout's.             *)
LEMMA WordInLayout ==
  ASSUME NEW off, NEW kind \in {"name", "klass", "argc"}, Word("method", off).kind = kind,
         ~(world.decoy.struct = "method" /\ world.decoy.off = off)
  PROVE  off \in DOMAIN world.method /\ world.method[off] = kind
<1>1. Word("method", off) = IF off \in DOMAIN world.method
                            THEN [kind |-> world.method[off], pop |-> 10]
                            ELSE [kind |-> "other", pop |-> 0]
  BY DEF Word
<1> QED BY <1>1

(* The probe of a fixed field takes one kind of word, with two anchors or  *)
(* none.                                                                   *)
LEMMA FixedProbe ==
  ASSUME NEW f \in FixedFields, NEW known, NEW n
  PROVE  /\ ProbeOf(f, known).struct = "method" /\ ProbeOf(f, known).accepts = {KindOf(f)}
         /\ Total(f, n) = IF MethodAnchors THEN 2 ELSE 0
         /\ ProbeOf(f, known).min = 2
<1>1. f \in { Phase2[i] : i \in 1 .. Len(Phase2) }
  <2>1. Len(Phase2) = 7 /\ Phase2[2] = "method_name_off" /\ Phase2[3] = "method_klass_off"
        /\ Phase2[7] = "method_param_count_off"
    BY DEF Phase2
  <2> QED BY <2>1 DEF FixedFields
<1>2. Total(f, n) = IF MethodAnchors THEN 2 ELSE 0
  BY <1>1 DEF Total
<1>3. CASE f = "method_name_off"
  BY <1>2, <1>3 DEF ProbeOf, method_name_off, Probe, KindOf, MIN_OVERRIDE_ANCHORS_PHASE2
<1>4. CASE f = "method_klass_off"
  BY <1>2, <1>4 DEF ProbeOf, method_klass_off, Probe, KindOf, MIN_OVERRIDE_ANCHORS_PHASE2
<1>5. CASE f = "method_param_count_off"
  BY <1>2, <1>5 DEF ProbeOf, method_param_count_off, Probe, KindOf, MIN_OVERRIDE_ANCHORS_PHASE2
<1> QED BY <1>3, <1>4, <1>5 DEF FixedFields

(* What the probe of a fixed field makes of it.                            *)
LEMMA FixedStays ==
  ASSUME ConfirmInv, NEW f \in FixedFields, NEW known, NEW n,
         NEW off, off = apply_offset(f, pick_offset_by_consensus(ProbeOf(f, known), Total(f, n)), 2)
  PROVE  off = fallback_constants[f] \/ DecoyAt(f, off) \/ off = cfg[f]
<1> DEFINE p == ProbeOf(f, known)
           o == pick_offset_by_consensus(p, Total(f, n))
<1>1. p.struct = "method" /\ p.accepts = {KindOf(f)} /\ Total(f, n) = IF MethodAnchors THEN 2 ELSE 0
  BY FixedProbe
<1> HIDE DEF p
<1>2. o.total = Total(f, n)
  BY DEF pick_offset_by_consensus, Outcome
<1> HIDE DEF o
<1>3. CASE o.matches = 0 \/ o.total < 2
  BY <1>3 DEF apply_offset, o, p
<1>4. CASE ~(o.matches = 0 \/ o.total < 2)
  <2>1. off = o.win
    BY <1>4 DEF apply_offset, o, p
  <2>2. MethodAnchors
    BY <1>1, <1>2, <1>4
  <2>3. Word("method", off).kind = KindOf(f)
    BY <1>1, <1>4, <2>1, WinnerAccepted DEF o
  <2>4. Word("method", fallback_constants[f]).kind = KindOf(f)
    BY <2>2, AnchorsVouch
  <2>5. KindOf(f) \in {"name", "klass", "argc"}
    BY DEF FixedFields, KindOf
  <2>6. CASE DecoyAt(f, off)
    BY <2>6
  <2>7. CASE ~DecoyAt(f, off)
    <3>1. off \in DOMAIN world.method /\ world.method[off] = KindOf(f)
      BY <2>3, <2>5, <2>7, WordInLayout DEF DecoyAt
    <3>2. fallback_constants[f] \in DOMAIN world.method
          /\ world.method[fallback_constants[f]] = KindOf(f)
      BY <2>4, <2>5, <2>7, WordInLayout DEF DecoyAt
    <3> QED BY <2>5, <3>1, <3>2, WorldAssumption DEF ConfirmInv
  <2> QED BY <2>6, <2>7
<1> QED BY <1>3, <1>4

(* A probe writes the field it is for and no other.                        *)
LEMMA RecordWrites ==
  ASSUME NEW f, NEW o, NEW min, Record(f, o, min)
  PROVE  /\ DOMAIN cfg' = DOMAIN cfg
         /\ f \in DOMAIN cfg => cfg'[f] = apply_offset(f, o, min)
         /\ \A g \in DOMAIN cfg : g # f => cfg'[g] = cfg[g]
         /\ UNCHANGED world
BY DEF Record, game

(* Steps that leave the configuration alone, or write another field.       *)
LEMMA OtherFields ==
  ASSUME ConfirmInv, UNCHANGED world, DOMAIN cfg' = DOMAIN cfg,
         \A g \in FixedFields \cup {"param_info"} : cfg'[g] = cfg[g]
  PROVE  ConfirmInv'
<1>1. world' \in Worlds /\ FixedFields \cup {"param_info"} \subseteq DOMAIN cfg'
  BY DEF ConfirmInv
<1>2. cfg'["param_info"] = fallback_constants["param_info"]
  BY DEF ConfirmInv, OnlyConfirmed
<1>3. ASSUME NEW f \in FixedFields
      PROVE  \/ cfg'[f] = fallback_constants[f]
             \/ world'.decoy.struct = "method" /\ world'.decoy.off \in {cfg'[f], fallback_constants[f]}
  BY <1>3 DEF ConfirmInv, OnlyConfirmed, FixedFields
<1> QED BY <1>1, <1>2, <1>3 DEF ConfirmInv, OnlyConfirmed, FixedFields

(* No step corrects one of these fields.                                   *)
LEMMA NextConfirm == ConfirmInv /\ [Next]_vars => ConfirmInv'
<1> SUFFICES ASSUME ConfirmInv, [Next]_vars PROVE ConfirmInv'
  OBVIOUS
<1>1. CASE ProbeField
  <2>1. PICK n \in Samples :
          Record(pc, pick_offset_by_consensus(ProbeOf(pc, core # "none"), Total(pc, n)),
                 ProbeOf(pc, core # "none").min)
    BY <1>1 DEF ProbeField
  <2>2. pc \notin Joint
    BY <1>1 DEF ProbeField
  <2>3. CASE pc \in FixedFields
    <3> DEFINE off == cfg'[pc]
    <3>1. pc \in DOMAIN cfg
      BY <2>3 DEF ConfirmInv
    <3>2. off = apply_offset(pc, pick_offset_by_consensus(ProbeOf(pc, core # "none"), Total(pc, n)), 2)
      BY <2>1, <2>3, <3>1, RecordWrites, FixedProbe
    <3>3. off = fallback_constants[pc] \/ DecoyAt(pc, off) \/ off = cfg[pc]
      BY <2>3, <3>2, FixedStays
    <3>4. /\ DOMAIN cfg' = DOMAIN cfg /\ world' = world
          /\ \A g \in DOMAIN cfg : g # pc => cfg'[g] = cfg[g]
      BY <2>1, RecordWrites
    <3>5. cfg'["param_info"] = fallback_constants["param_info"]
      BY <2>3, <3>4 DEF ConfirmInv, OnlyConfirmed, FixedFields
    <3>6. ASSUME NEW f \in FixedFields
          PROVE  cfg'[f] = fallback_constants[f] \/ DecoyAt(f, cfg'[f])
      <4>1. cfg[f] = fallback_constants[f] \/ DecoyAt(f, cfg[f])
        BY <3>6 DEF ConfirmInv, OnlyConfirmed, FixedFields, DecoyAt
      <4>2. CASE f = pc
        BY <3>3, <4>1, <4>2
      <4>3. CASE f # pc
        BY <3>4, <3>6, <4>1, <4>3 DEF ConfirmInv
      <4> QED BY <4>2, <4>3
    <3>7. OnlyConfirmed'
      BY <3>4, <3>5, <3>6 DEF OnlyConfirmed, FixedFields, DecoyAt
    <3> QED BY <3>4, <3>7 DEF ConfirmInv
  <2>4. CASE pc \notin FixedFields
    <3>1. DOMAIN cfg' = DOMAIN cfg /\ world' = world
          /\ \A g \in FixedFields \cup {"param_info"} : cfg'[g] = cfg[g]
      BY <2>1, <2>2, <2>4, RecordWrites DEF ConfirmInv, Joint
    <3> QED BY <3>1, OtherFields
  <2> QED BY <2>3, <2>4
<1>2. CASE ProbeValuetype \/ ProbeDiscrim
  <2>1. PICK o : pc \in {"klass_valuetype", "type_discrim"} /\ Record(pc, o, MIN_OVERRIDE_ANCHORS)
    BY <1>2 DEF ProbeValuetype, ProbeDiscrim
  <2>2. DOMAIN cfg' = DOMAIN cfg /\ world' = world
        /\ \A g \in FixedFields \cup {"param_info"} : cfg'[g] = cfg[g]
    BY <2>1, RecordWrites DEF ConfirmInv, FixedFields
  <2> QED BY <2>2, OtherFields
<1>3. CASE ProbeParams
  <2>1. pc = "param_info" /\ Record(pc, probe_param_info, 3)
    BY <1>3 DEF ProbeParams, MIN_OVERRIDE_ANCHORS
  <2>2. probe_param_info.total < 3
    BY DEF probe_param_info, Outcome
  <2>3. apply_offset("param_info", probe_param_info, 3) = cfg["param_info"]
    BY <2>2 DEF apply_offset
  <2>4. DOMAIN cfg' = DOMAIN cfg /\ world' = world
        /\ \A g \in FixedFields \cup {"param_info"} : cfg'[g] = cfg[g]
    BY <2>1, <2>3, RecordWrites DEF ConfirmInv, FixedFields
  <2> QED BY <2>4, OtherFields
<1>4. CASE UNCHANGED <<world, cfg>>
  BY <1>4, OtherFields
<1>5. CASE Load \/ Gate \/ FindTable \/ Resolve \/ Poll \/ Count \/ Timeout \/ CaptureMap \/ BringUp
  BY <1>4, <1>5 DEF Load, Gate, FindTable, Resolve, Poll, Count, Timeout, CaptureMap, BringUp, game
<1>6. CASE UNCHANGED vars
  BY <1>4, <1>6 DEF vars
<1> QED BY <1>1, <1>2, <1>3, <1>5, <1>6 DEF Next, Worker

(* Name, class and arity of a method and the layout of a parameter keep    *)
(* the verified prior in every world whose methods have one of each, unless *)
(* a decoy is involved: the probes of phase 2 and 4 can only confirm them. *)
THEOREM FixedFieldsConfirmed == Spec => []OnlyConfirmed
<1>1. Init => ConfirmInv
  BY DEF Init, ConfirmInv, OnlyConfirmed, FixedFields, fallback_constants
<1> QED BY <1>1, NextConfirm, PTL DEF Spec, ConfirmInv

-----------------------------------------------------------------------------
(* What the votes can make of a configuration.                             *)

(* A set of natural numbers has a least one.                               *)
LEMMA Least ==
  ASSUME NEW T, T \subseteq Nat, T # {}
  PROVE  \E x \in T : \A y \in T : x <= y
<1> DEFINE R == OpToRel(<, Nat)
<1>1. PICK x \in T : \A y \in T : ~ (<<y, x>> \in R)
  <2>1. IsWellFoundedOn(R, Nat)
    BY NatLessThanWellFounded
  <2> HIDE DEF R
  <2> QED BY <2>1, WFMin
<1>2. R = {ss \in Nat \X Nat : ss[1] < ss[2]}
  BY DEF OpToRel
<1> HIDE DEF R
<1>3. ASSUME NEW y \in T PROVE x <= y
  <2>1. x \in Nat /\ y \in Nat
    OBVIOUS
  <2>2. y < x => <<y, x>> \in R
    BY <1>2, <2>1
  <2> QED BY <1>1, <2>1, <2>2
<1> QED BY <1>3

(* The first pair that two nested loops visit is one of the pairs.         *)
LEMMA FirstPairIn ==
  ASSUME NEW S, S \subseteq Nat \X Nat, S # {}
  PROVE  FirstPair(S) \in S
<1> DEFINE A == {a[1] : a \in S}
<1>0. A \subseteq Nat /\ A # {}
  OBVIOUS
<1>1. PICK x \in A : \A y \in A : x <= y
  <2> HIDE DEF A
  <2> QED BY <1>0, Least
<1> DEFINE B == {a[2] : a \in {b \in S : b[1] = x}}
<1>b. B \subseteq Nat /\ B # {}
  OBVIOUS
<1>2. PICK z \in B : \A y \in B : z <= y
  <2> HIDE DEF B
  <2> QED BY <1>b, Least
<1>3. PICK a \in S : a[1] = x /\ a[2] = z
  BY <1>2
<1>4. \A b \in S : Lex(a, b)
  BY <1>1, <1>2, <1>3 DEF Lex
<1> QED BY <1>3, <1>4 DEF FirstPair

(* The share of t objects in which a word of this population is found.     *)
LEMMA Share ==
  ASSUME NEW t \in Nat, NEW pop \in 0 .. 10
  PROVE  /\ (t * pop) \div 10 \in Nat /\ (t * pop) \div 10 <= t
         /\ pop = 10 => (t * pop) \div 10 = t
         /\ t > 0 /\ 100 * ((t * pop) \div 10) >= 90 * t => pop >= 9
<1>1. CASE pop \in {0, 1, 2, 3, 4, 5}
  BY <1>1
<1>2. CASE pop \in {6, 7, 8, 9, 10}
  BY <1>2
<1> QED BY <1>1, <1>2
Klass == {"klass_namespace", "klass_type_def", "klass_fields", "klass_methods", "klass_static_fields"}
Method == {"method_pointer_off", "method_name_off", "method_klass_off", "method_flags_off",
           "method_parameters_off", "method_return_type_off", "method_param_count_off"}

(* The fields by name.                                                     *)
LEMMA FieldsNamed == /\ Fields = Klass \cup Method \cup Joint
                     /\ { Phase1[i] : i \in 1 .. Len(Phase1) } = Klass \cup {"klass_valuetype"}
<1>1. /\ Len(Order) = 15
      /\ Order[1] = "klass_namespace" /\ Order[2] = "klass_type_def" /\ Order[3] = "klass_fields"
      /\ Order[4] = "klass_methods" /\ Order[5] = "klass_static_fields" /\ Order[6] = "klass_valuetype"
      /\ Order[7] = "method_pointer_off" /\ Order[8] = "method_name_off" /\ Order[9] = "method_klass_off"
      /\ Order[10] = "method_flags_off" /\ Order[11] = "method_parameters_off"
      /\ Order[12] = "method_return_type_off" /\ Order[13] = "method_param_count_off"
      /\ Order[14] = "type_discrim" /\ Order[15] = "param_info"
  BY DEF Order, Phase1, Phase2, Phase3, Phase4
<1>2. Fields \subseteq Klass \cup Method \cup Joint
  BY <1>1 DEF Fields, Klass, Method, Joint
<1>3. Klass \cup Method \cup Joint \subseteq Fields
  BY <1>1 DEF Fields, Klass, Method, Joint
<1>4. Len(Phase1) = 6 /\ \A i \in 1..6 : Phase1[i] = Order[i]
  BY <1>1 DEF Phase1
<1>5. { Phase1[i] : i \in 1 .. 6 } = Klass \cup {"klass_valuetype"}
  BY <1>1, <1>4 DEF Klass
<1> QED BY <1>2, <1>3, <1>4, <1>5

(* What the probes have in common.                                         *)
LEMMA ProbeShape ==
  ASSUME NEW f \in Fields \ Joint, NEW known
  PROVE  /\ ProbeOf(f, known).struct \in {"klass", "method"}
         /\ DOMAIN ProbeOf(f, known).cands \subseteq Nat
         /\ ProbeOf(f, known).percent \in {90, 99}
         /\ ProbeOf(f, known).min \in {2, 3}
         /\ f \in Klass => ProbeOf(f, known).min = 3
<1>1. f \in Klass \cup Method
  BY FieldsNamed
<1>2. CASE f = "klass_namespace"
  BY <1>2 DEF ProbeOf, klass_namespace, Probe, MIN_OVERRIDE_ANCHORS
<1>3. CASE f = "klass_type_def"
  BY <1>3 DEF ProbeOf, klass_type_def, Probe, MIN_OVERRIDE_ANCHORS
<1>4. CASE f = "klass_fields"
  BY <1>4 DEF ProbeOf, klass_fields, Probe, MIN_OVERRIDE_ANCHORS
<1>5. CASE f = "klass_methods"
  BY <1>5 DEF ProbeOf, klass_methods, Probe, MIN_OVERRIDE_ANCHORS
<1>6. CASE f = "klass_static_fields"
  BY <1>6 DEF ProbeOf, klass_static_fields, Probe, MIN_OVERRIDE_ANCHORS
<1>7. CASE f = "method_pointer_off"
  BY <1>7 DEF ProbeOf, method_pointer_off, Probe, MIN_OVERRIDE_ANCHORS_PHASE2, Klass
<1>8. CASE f = "method_name_off"
  BY <1>8 DEF ProbeOf, method_name_off, Probe, MIN_OVERRIDE_ANCHORS_PHASE2, Klass
<1>9. CASE f = "method_klass_off"
  BY <1>9 DEF ProbeOf, method_klass_off, Probe, MIN_OVERRIDE_ANCHORS_PHASE2, Klass
<1>10. CASE f = "method_flags_off"
  BY <1>10 DEF ProbeOf, method_flags_off, Probe, MIN_OVERRIDE_ANCHORS_PHASE2, Klass
<1>11. CASE f = "method_parameters_off"
  BY <1>11 DEF ProbeOf, method_parameters_off, Probe, MIN_OVERRIDE_ANCHORS_PHASE2, Klass
<1>12. CASE f = "method_return_type_off"
  BY <1>12 DEF ProbeOf, method_return_type_off, Probe, MIN_OVERRIDE_ANCHORS_PHASE2, Klass
<1>13. CASE f = "method_param_count_off"
  BY <1>13 DEF ProbeOf, method_param_count_off, Probe, MIN_OVERRIDE_ANCHORS_PHASE2, Klass
<1> QED BY <1>1, <1>2, <1>3, <1>4, <1>5, <1>6, <1>7, <1>8, <1>9,
           <1>10, <1>11, <1>12, <1>13 DEF Klass, Method

(* A word has a population of at most ten.                                 *)
LEMMA WordPop ==
  ASSUME world \in Worlds, NEW struct, NEW off
  PROVE  Word(struct, off).pop \in 0 .. 10
BY WorldAssumption DEF Word

(* The winner has the ratio, and no word that all objects have is in front *)
(* of it.                                                                  *)
LEMMA WinnerLeads ==
  ASSUME world \in Worlds, NEW p, NEW total \in Nat, p.percent \in {90, 99},
         DOMAIN p.cands \subseteq Nat, pick_offset_by_consensus(p, total).matches # 0
  PROVE  \E i \in DOMAIN p.cands :
           /\ pick_offset_by_consensus(p, total).win = p.cands[i]
           /\ Word(p.struct, p.cands[i]).kind \in p.accepts
           /\ Word(p.struct, p.cands[i]).pop >= 9
           /\ \A j \in DOMAIN p.cands :
                /\ Word(p.struct, p.cands[j]).kind \in p.accepts
                /\ Word(p.struct, p.cands[j]).pop = 10
                => i <= j
<1> DEFINE hits(i) == Hits(p, p.cands[i], total)
           passes(i) == total > 0 /\ 100 * hits(i) >= p.percent * total
           best == { i \in DOMAIN p.cands : passes(i) /\ \A j \in DOMAIN p.cands :
                       passes(j) => hits(j) < hits(i) \/ (hits(j) = hits(i) /\ i <= j) }
           k == CHOOSE i \in best : TRUE
<1>1. pick_offset_by_consensus(p, total) =
        IF best = {} THEN Outcome(NoWin, 0, total) ELSE Outcome(p.cands[k], hits(k), total)
  BY DEF pick_offset_by_consensus
<1>2. best # {}
  BY <1>1 DEF Outcome
<1>3. k \in best
  BY <1>2
<1> HIDE DEF k
<1>4. k \in DOMAIN p.cands /\ passes(k) /\ \A j \in DOMAIN p.cands :
        passes(j) => hits(j) < hits(k) \/ (hits(j) = hits(k) /\ k <= j)
  BY <1>3
<1>5. pick_offset_by_consensus(p, total) = [win |-> p.cands[k], matches |-> hits(k), total |-> total]
  BY <1>1, <1>2 DEF Outcome
<1>6. Word(p.struct, p.cands[k]).kind \in p.accepts
  BY <1>5 DEF Hits
<1>7. \A i \in DOMAIN p.cands : hits(i) \in Nat /\ hits(i) <= total
  <2> SUFFICES ASSUME NEW i \in DOMAIN p.cands PROVE hits(i) \in Nat /\ hits(i) <= total
    OBVIOUS
  <2>1. Word(p.struct, p.cands[i]).pop \in 0 .. 10
    BY WordPop
  <2> QED BY <2>1, Share DEF Hits
<1>8. Word(p.struct, p.cands[k]).pop >= 9
  <2>1. hits(k) = (total * Word(p.struct, p.cands[k]).pop) \div 10
    BY <1>6 DEF Hits
  <2>2. total > 0 /\ 100 * hits(k) >= 90 * total
    BY <1>4, <1>7
  <2> HIDE DEF hits
  <2>3. Word(p.struct, p.cands[k]).pop \in 0 .. 10
    BY WordPop
  <2> QED BY <2>1, <2>2, <2>3, Share
<1>9. ASSUME NEW j \in DOMAIN p.cands, Word(p.struct, p.cands[j]).kind \in p.accepts,
             Word(p.struct, p.cands[j]).pop = 10
      PROVE  k <= j
  <2>1. hits(j) = total
    BY <1>9, Share DEF Hits
  <2> HIDE DEF hits
  <2>2. passes(j)
    BY <1>4, <2>1
  <2>3. hits(k) <= total
    BY <1>4, <1>7
  <2> QED BY <1>4, <1>7, <2>1, <2>2, <2>3
<1> QED BY <1>4, <1>5, <1>6, <1>8, <1>9
\* An offset that is the prior, the right one, or that of a decoy which looks
\* right in nine of ten objects.
Explained(f, off) ==
  \/ off = fallback_constants[f] \/ off = world.truth[f]
  \/ /\ world.decoy.struct \in {"klass", "method"}
     /\ off = world.decoy.off /\ world.decoy.pop >= 9

(* The winner of a vote is the right offset or that of a decoy.            *)
LEMMA WinnerExplained ==
  ASSUME world \in Worlds, NEW f \in Fields \ Joint, NEW known \in BOOLEAN, NEW total \in Nat,
         pick_offset_by_consensus(ProbeOf(f, known), total).matches # 0
  PROVE  Explained(f, pick_offset_by_consensus(ProbeOf(f, known), total).win)
<1> DEFINE p == ProbeOf(f, known)
           Accepts(i) == /\ p.cands[i] \in DOMAIN world[p.struct]
                         /\ world[p.struct][p.cands[i]] \in p.accepts
           Fake(i) == world.decoy.struct = p.struct /\ world.decoy.off = p.cands[i]
<1>1. /\ p.struct \in {"klass", "method"} /\ DOMAIN p.cands \subseteq Nat /\ p.percent \in {90, 99}
  BY ProbeShape
<1>2. \A i \in DOMAIN p.cands : Accepts(i) =>
        \E j \in DOMAIN p.cands : j <= i /\ Accepts(j) /\ p.cands[j] = world.truth[f]
  BY WorldAssumption, SMT
<1>w. world.decoy.struct \in {"klass", "method"} =>
        world.decoy.off \notin DOMAIN world[world.decoy.struct]
  BY WorldAssumption, Zenon
<1> HIDE DEF p
<1>3. PICK i \in DOMAIN p.cands :
        /\ pick_offset_by_consensus(p, total).win = p.cands[i]
        /\ Word(p.struct, p.cands[i]).kind \in p.accepts
        /\ Word(p.struct, p.cands[i]).pop >= 9
        /\ \A j \in DOMAIN p.cands :
             /\ Word(p.struct, p.cands[j]).kind \in p.accepts
             /\ Word(p.struct, p.cands[j]).pop = 10
             => i <= j
  <2>1. pick_offset_by_consensus(p, total).matches # 0
    BY DEF p
  <2> QED BY <1>1, <2>1, WinnerLeads
<1>4. \A k \in DOMAIN p.cands : ~Fake(k) =>
        Word(p.struct, p.cands[k]) =
          IF p.cands[k] \in DOMAIN world[p.struct]
          THEN [kind |-> world[p.struct][p.cands[k]], pop |-> 10] ELSE [kind |-> "other", pop |-> 0]
  BY DEF Word
<1>5. CASE Fake(i)
  <2>1. Word(p.struct, p.cands[i]) = world.decoy
    BY <1>5 DEF Word
  <2> QED BY <1>1, <1>3, <1>5, <2>1 DEF Explained, p
<1>6. CASE ~Fake(i)
  <2>1. Accepts(i)
    <3>1. CASE p.cands[i] \in DOMAIN world[p.struct]
      <4>1. Word(p.struct, p.cands[i]) = [kind |-> world[p.struct][p.cands[i]], pop |-> 10]
        BY <1>4, <1>6, <3>1
      <4> QED BY <1>3, <3>1, <4>1
    <3>2. CASE p.cands[i] \notin DOMAIN world[p.struct]
      <4>1. Word(p.struct, p.cands[i]) = [kind |-> "other", pop |-> 0]
        BY <1>4, <1>6, <3>2
      <4> QED BY <1>3, <4>1
    <3> QED BY <3>1, <3>2
  <2>2. PICK j \in DOMAIN p.cands : j <= i /\ Accepts(j) /\ p.cands[j] = world.truth[f]
    BY <1>2, <2>1
  <2>3. ~Fake(j)
    <3> SUFFICES ASSUME Fake(j) PROVE FALSE
      OBVIOUS
    <3>1. world.decoy.struct \in {"klass", "method"}
      BY <1>1
    <3>2. world[world.decoy.struct] = world[p.struct]
      OBVIOUS
    <3> QED BY <1>w, <2>2, <3>1, <3>2, Zenon
  <2>4. Word(p.struct, p.cands[j]) = [kind |-> world[p.struct][p.cands[j]], pop |-> 10]
    BY <1>4, <2>2, <2>3
  <2>5. i <= j
    BY <1>3, <2>2, <2>4
  <2>6. i = j
    BY <1>1, <2>2, <2>5
  <2> QED BY <1>3, <2>2, <2>6 DEF Explained, p
<1> QED BY <1>5, <1>6

(* The number of objects that a probe compares with.                       *)
LEMMA TotalNat ==
  ASSUME world \in Worlds, slots \in Nat, seen \in Nat, NEW f, NEW n \in Samples
  PROVE  Total(f, n) \in Nat
<1>1. n \in Nat
  BY DEF Samples, Below, ANCHOR_COUNT
<1>2. (n * Word("klass", 128).pop) \div 10 \in Nat
  BY <1>1, WordPop, Share
<1> QED BY <1>1, <1>2 DEF Total

EarlyPcs == {"gate", "table", "api", "phase0", "count", "map", "klass_namespace", "klass_type_def"}

(* The probe of klass_type_def follows that of klass_namespace only.       *)
LEMMA AfterEarly == \A f \in Fields : After(f) \in EarlyPcs => f = "klass_namespace"
<1>1. /\ Len(Order) = 15 /\ Order[1] = "klass_namespace"
      /\ \A i \in 3..15 : Order[i] \notin EarlyPcs
  BY DEF Order, Phase1, Phase2, Phase3, Phase4, EarlyPcs
<1> SUFFICES ASSUME NEW f \in Fields, After(f) \in EarlyPcs PROVE f = "klass_namespace"
  OBVIOUS
<1> DEFINE i == CHOOSE i \in 1 .. Len(Order) : Order[i] = f
<1>2. i \in 1 .. Len(Order) /\ Order[i] = f
  BY DEF Fields
<1> HIDE DEF i
<1>3. After(f) = IF i = Len(Order) THEN "bring up" ELSE Order[i + 1]
  BY DEF After, i
<1>4. i # Len(Order)
  BY <1>3 DEF EarlyPcs
<1>5. i = 1
  <2>1. CASE i # 1
    <3>1. i + 1 \in 3..15
      BY <1>1, <1>2, <1>4, <2>1
    <3> QED BY <1>1, <1>3, <1>4, <3>1
  <2> QED BY <2>1
<1> QED BY <1>1, <1>2, <1>5
\* What the probes have made of the configuration so far.
Discrim == <<8, 16>>
Votes ==
  /\ \A f \in Fields \ Joint : Explained(f, cfg[f])
  /\ \/ cfg["klass_valuetype"] = fallback_constants["klass_valuetype"]
     \/ cfg["klass_valuetype"] \in world.valuetype
     \/ world.decoy.struct = "valuetype" /\ cfg["klass_valuetype"] = world.decoy.pair
  /\ \/ cfg["type_discrim"] = Discrim
     \/ world.decoy.struct \in {"klass", "method"} /\ cfg["klass_type_def"] = world.decoy.off

\* A field of phase 1 is never changed on the word of fewer than three
\* objects, and the type bits are probed after klass_type_def is settled.
VoteInv ==
  /\ world \in Worlds /\ seen \in Nat
  /\ cfg = [f \in Fields |-> cfg[f]]
  /\ thin \cap (Klass \cup {"klass_valuetype"}) = {}
  /\ Votes
  /\ pc \in EarlyPcs => cfg["type_discrim"] = Discrim

(* The part of a probe that is the same for all of them.                   *)
LEMMA RecordKeeps ==
  ASSUME VoteInv, NEW f \in Fields, NEW o, NEW min \in Nat, Record(f, o, min), pc = f
  PROVE  /\ cfg' = [g \in Fields |-> cfg'[g]] /\ UNCHANGED <<world, seen, slots>>
         /\ cfg'[f] = cfg[f] \/ (o.matches # 0 /\ ~(o.total < min) /\ cfg'[f] = o.win)
         /\ \A g \in Fields : g # f => cfg'[g] = cfg[g]
         /\ thin' = thin \/ (o.matches # 0 /\ ~(o.total < min) /\ o.total < 3 /\ thin' = thin \cup {f})
         /\ pc' \in EarlyPcs => pc = "klass_namespace"
<1> DEFINE v == apply_offset(f, o, min)
<1>1. cfg' = [cfg EXCEPT ![f] = v] /\ UNCHANGED <<world, seen, slots>>
      /\ thin' = (IF o.total < 3 /\ cfg' # cfg THEN thin \cup {f} ELSE thin) /\ pc' = After(f)
  BY DEF Record, game
<1>2. v = IF o.matches = 0 \/ o.total < min THEN cfg[f] ELSE o.win
  BY DEF apply_offset
<1> HIDE DEF v
<1>3. cfg = [g \in Fields |-> cfg[g]]
  BY DEF VoteInv
<1>4. cfg' = [g \in Fields |-> IF g = f THEN v ELSE cfg[g]]
  BY <1>1, <1>3
<1>5. cfg' = [g \in Fields |-> cfg'[g]] /\ cfg'[f] = v /\ \A g \in Fields : g # f => cfg'[g] = cfg[g]
  BY <1>4
<1>6. v = cfg[f] => cfg' = cfg
  BY <1>3, <1>4
<1>7. pc' \in EarlyPcs => pc = "klass_namespace"
  BY <1>1, AfterEarly
<1> QED BY <1>1, <1>2, <1>5, <1>6, <1>7

(* The vote on an offset.                                                  *)
LEMMA FieldVote == ASSUME VoteInv, slots \in Nat, ProbeField PROVE VoteInv'
<1>1. PICK n \in Samples :
        Record(pc, pick_offset_by_consensus(ProbeOf(pc, core # "none"), Total(pc, n)),
               ProbeOf(pc, core # "none").min)
  BY DEF ProbeField
<1> DEFINE o == pick_offset_by_consensus(ProbeOf(pc, core # "none"), Total(pc, n))
           min == ProbeOf(pc, core # "none").min
<1>2. pc \in Fields \ Joint /\ (core # "none") \in BOOLEAN
  BY DEF ProbeField
<1>3. min \in Nat /\ (pc \in Klass => min = 3)
  BY <1>2, ProbeShape
<1>4. o.matches # 0 => Explained(pc, o.win)
  BY <1>2, TotalNat, WinnerExplained DEF VoteInv
<1> HIDE DEF o, min
<1>5. /\ cfg' = [g \in Fields |-> cfg'[g]] /\ UNCHANGED <<world, seen, slots>>
      /\ cfg'[pc] = cfg[pc] \/ (o.matches # 0 /\ ~(o.total < min) /\ cfg'[pc] = o.win)
      /\ \A g \in Fields : g # pc => cfg'[g] = cfg[g]
      /\ thin' = thin \/ (o.matches # 0 /\ ~(o.total < min) /\ o.total < 3 /\ thin' = thin \cup {pc})
      /\ pc' \in EarlyPcs => pc = "klass_namespace"
  BY <1>1, <1>2, <1>3, RecordKeeps DEF o, min
<1>6. thin' \cap (Klass \cup {"klass_valuetype"}) = {}
  BY <1>2, <1>3, <1>5 DEF VoteInv, Joint
<1>7. \A f \in Fields \ Joint : Explained(f, cfg'[f])
  BY <1>2, <1>4, <1>5 DEF VoteInv, Votes
<1>8. "klass_valuetype" \in Fields /\ "type_discrim" \in Fields /\ "klass_type_def" \in Fields
      /\ "klass_valuetype" \in Joint /\ "type_discrim" \in Joint
  BY FieldsNamed DEF Klass, Joint
<1>9. cfg'["klass_valuetype"] = cfg["klass_valuetype"] /\ cfg'["type_discrim"] = cfg["type_discrim"]
  BY <1>2, <1>5, <1>8
<1>10. cfg["type_discrim"] # Discrim => cfg'["klass_type_def"] = cfg["klass_type_def"]
  BY <1>5, <1>8 DEF VoteInv, EarlyPcs
<1>11. Votes'
  BY <1>5, <1>7, <1>9, <1>10 DEF VoteInv, Votes, Explained
<1>12. pc' \in EarlyPcs => cfg'["type_discrim"] = Discrim
  BY <1>5, <1>9 DEF VoteInv, EarlyPcs
<1> QED BY <1>5, <1>6, <1>11, <1>12 DEF VoteInv
(* The byte and bit of the value types.                                    *)
LEMMA ValuetypeVote == ASSUME VoteInv, ProbeValuetype PROVE VoteInv'
<1> DEFINE o == probe_klass_valuetype
           pairs == world.valuetype \cup
                    (IF world.decoy.struct = "valuetype" THEN {world.decoy.pair} ELSE {})
<1>1. pc = "klass_valuetype" /\ Record(pc, o, 3)
  BY DEF ProbeValuetype, MIN_OVERRIDE_ANCHORS
<1>2. pairs \subseteq Nat \X Nat
  BY WorldAssumption DEF VoteInv
<1>3. o.matches # 0 => o.win \in pairs
  <2>1. o = IF core # "all" THEN Outcome(None, 0, 0)
            ELSE IF pairs = {} THEN Outcome(None, 0, 9) ELSE Outcome(FirstPair(pairs), 9, 9)
    BY DEF probe_klass_valuetype
  <2> HIDE DEF o, pairs
  <2>2. pairs # {} => FirstPair(pairs) \in pairs
    BY <1>2, FirstPairIn
  <2> QED BY <2>1, <2>2 DEF Outcome
<1>4. o.win \in pairs => o.win \in world.valuetype \/ (world.decoy.struct = "valuetype" /\ o.win = world.decoy.pair)
  OBVIOUS
<1> HIDE DEF o, pairs
<1>5. "klass_valuetype" \in Fields /\ "type_discrim" \in Fields /\ "klass_type_def" \in Fields
      /\ "klass_valuetype" \in Joint
  BY FieldsNamed DEF Klass, Joint
<1>6. /\ cfg' = [g \in Fields |-> cfg'[g]] /\ UNCHANGED <<world, seen, slots>>
      /\ cfg'[pc] = cfg[pc] \/ (o.matches # 0 /\ ~(o.total < 3) /\ cfg'[pc] = o.win)
      /\ \A g \in Fields : g # pc => cfg'[g] = cfg[g]
      /\ thin' = thin \/ (o.matches # 0 /\ ~(o.total < 3) /\ o.total < 3 /\ thin' = thin \cup {pc})
      /\ pc' \in EarlyPcs => pc = "klass_namespace"
  BY <1>1, <1>5, RecordKeeps
<1>7. thin' = thin /\ pc' \notin EarlyPcs
  BY <1>1, <1>6
<1>8. \A f \in Fields \ Joint : Explained(f, cfg'[f])
  BY <1>1, <1>5, <1>6 DEF VoteInv, Votes
<1>9. cfg'["type_discrim"] = cfg["type_discrim"] /\ cfg'["klass_type_def"] = cfg["klass_type_def"]
  BY <1>1, <1>5, <1>6
<1>10. \/ cfg'["klass_valuetype"] = fallback_constants["klass_valuetype"]
       \/ cfg'["klass_valuetype"] \in world.valuetype
       \/ world.decoy.struct = "valuetype" /\ cfg'["klass_valuetype"] = world.decoy.pair
  BY <1>1, <1>3, <1>4, <1>6 DEF VoteInv, Votes
<1>11. Votes'
  BY <1>6, <1>8, <1>9, <1>10 DEF VoteInv, Votes, Explained
<1> QED BY <1>6, <1>7, <1>11 DEF VoteInv

(* The type bits: they are read eight bytes into the type, unless          *)
(* klass_type_def is a decoy's.                                            *)
LEMMA DiscrimVote == ASSUME VoteInv, ProbeDiscrim PROVE VoteInv'
<1> DEFINE o == probe_type_discrim
           def == cfg["klass_type_def"]
           pairs == { rs \in {0, 8} \X {0, 8, 16, 24} :
                        /\ TypeAnchors > 0 /\ rs[2] = 16
                        /\ Word("klass", def + rs[1]).kind = "typebits" }
<1>1. pc = "type_discrim" /\ Record(pc, o, 3)
  BY DEF ProbeDiscrim, MIN_OVERRIDE_ANCHORS
<1>2. "klass_valuetype" \in Fields /\ "type_discrim" \in Fields /\ "klass_type_def" \in Fields \ Joint
      /\ "type_discrim" \in Joint
  BY FieldsNamed DEF Klass, Joint
<1>3. o.matches # 0 => o.win \in pairs
  <2>1. o = IF pairs = {} THEN Outcome(None, 0, TypeAnchors)
            ELSE Outcome(FirstPair(pairs), TypeAnchors, TypeAnchors)
    BY DEF probe_type_discrim
  <2>2. pairs \subseteq Nat \X Nat
    OBVIOUS
  <2> HIDE DEF o, pairs
  <2>3. pairs # {} => FirstPair(pairs) \in pairs
    BY <2>2, FirstPairIn
  <2> QED BY <2>1, <2>3 DEF Outcome
<1>4. o.win \in pairs => o.win = Discrim \/ (world.decoy.struct \in {"klass", "method"} /\ def = world.decoy.off)
  <2> SUFFICES ASSUME o.win \in pairs, o.win # Discrim
               PROVE  world.decoy.struct \in {"klass", "method"} /\ def = world.decoy.off
    OBVIOUS
  <2>1. Word("klass", def + 0).kind = "typebits"
    BY DEF Discrim
  <2>2. def = fallback_constants["klass_type_def"] \/ def = world.truth["klass_type_def"]
        \/ (world.decoy.struct \in {"klass", "method"} /\ def = world.decoy.off)
    BY <1>2 DEF VoteInv, Votes, Explained
  <2>3. CASE world.decoy.struct \in {"klass", "method"} /\ def = world.decoy.off
    BY <2>3
  <2>4. CASE def \in {fallback_constants["klass_type_def"], world.truth["klass_type_def"]}
    <3>1. def \in Nat /\ (def \in DOMAIN world.klass => world.klass[def] # "typebits")
      BY <2>4, WorldAssumption, SMT DEF VoteInv
    <3>2. Word("klass", def).kind = "typebits"
      BY <2>1, <3>1
    <3>3. ~(world.decoy.struct = "klass" /\ world.decoy.off = def) =>
            Word("klass", def) = IF def \in DOMAIN world.klass
                                 THEN [kind |-> world.klass[def], pop |-> 10]
                                 ELSE [kind |-> "other", pop |-> 0]
      BY DEF Word
    <3> HIDE DEF def
    <3> QED BY <3>1, <3>2, <3>3
  <2> QED BY <2>2, <2>3, <2>4
<1> HIDE DEF o, pairs, def
<1>5. /\ cfg' = [g \in Fields |-> cfg'[g]] /\ UNCHANGED <<world, seen, slots>>
      /\ cfg'[pc] = cfg[pc] \/ (o.matches # 0 /\ ~(o.total < 3) /\ cfg'[pc] = o.win)
      /\ \A g \in Fields : g # pc => cfg'[g] = cfg[g]
      /\ thin' = thin \/ (o.matches # 0 /\ ~(o.total < 3) /\ o.total < 3 /\ thin' = thin \cup {pc})
      /\ pc' \in EarlyPcs => pc = "klass_namespace"
  BY <1>1, <1>2, RecordKeeps
<1>6. thin' = thin /\ pc' \notin EarlyPcs
  BY <1>1, <1>5
<1>7. \A f \in Fields \ Joint : Explained(f, cfg'[f])
  BY <1>1, <1>2, <1>5 DEF VoteInv, Votes
<1>8. cfg'["klass_valuetype"] = cfg["klass_valuetype"] /\ cfg'["klass_type_def"] = cfg["klass_type_def"]
  BY <1>1, <1>2, <1>5
<1>9. \/ cfg'["type_discrim"] = Discrim
      \/ world.decoy.struct \in {"klass", "method"} /\ cfg["klass_type_def"] = world.decoy.off
  BY <1>1, <1>3, <1>4, <1>5 DEF VoteInv, Votes, def
<1>10. Votes'
  BY <1>5, <1>7, <1>8, <1>9 DEF VoteInv, Votes, Explained
<1> QED BY <1>5, <1>6, <1>10 DEF VoteInv
(* Steps that probe nothing.                                               *)
LEMMA NoVote ==
  ASSUME VoteInv, UNCHANGED <<world, cfg, thin>>, seen' \in Nat, pc' \in EarlyPcs => pc \in EarlyPcs
  PROVE  VoteInv'
BY DEF VoteInv, Votes, Explained

(* Every step keeps an explained configuration explained.                  *)
LEMMA NextVote == WaitInv /\ VoteInv /\ [Next]_vars => VoteInv'
<1> SUFFICES ASSUME WaitInv, VoteInv, [Next]_vars PROVE VoteInv'
  OBVIOUS
<1>0. slots \in Nat /\ seen \in Nat
  BY DEF WaitInv, VoteInv
<1>1. CASE ProbeField
  BY <1>0, <1>1, FieldVote
<1>2. CASE ProbeValuetype
  BY <1>2, ValuetypeVote
<1>3. CASE ProbeDiscrim
  BY <1>3, DiscrimVote
<1>4. CASE ProbeParams
  <2>1. pc = "param_info" /\ Record(pc, probe_param_info, 3)
    BY <1>4 DEF ProbeParams, MIN_OVERRIDE_ANCHORS
  <2>2. probe_param_info.total < 3
    BY DEF probe_param_info, Outcome
  <2>3. "param_info" \in Fields
    BY FieldsNamed DEF Joint
  <2>4. /\ cfg' = [g \in Fields |-> cfg'[g]] /\ UNCHANGED <<world, seen, slots>>
        /\ cfg'[pc] = cfg[pc] /\ \A g \in Fields : g # pc => cfg'[g] = cfg[g]
        /\ thin' = thin /\ pc' \notin EarlyPcs
    BY <2>1, <2>2, <2>3, RecordKeeps
  <2>5. cfg' = cfg
    BY <2>3, <2>4 DEF VoteInv
  <2> QED BY <1>0, <2>4, <2>5, NoVote
<1>5. CASE Gate \/ FindTable \/ Resolve \/ Poll \/ Count \/ Timeout \/ CaptureMap
  <2>1. pc \in EarlyPcs
    BY <1>5 DEF Gate, FindTable, Resolve, Poll, Count, Timeout, CaptureMap, EarlyPcs
  <2>2. UNCHANGED <<world, cfg, thin>>
    BY <1>5 DEF Gate, FindTable, Resolve, Poll, Count, Timeout, CaptureMap, game
  <2>3. seen' \in Nat
    BY <1>0, <1>5 DEF Gate, FindTable, Resolve, Poll, Count, Timeout, CaptureMap
  <2> QED BY <2>1, <2>2, <2>3, NoVote
<1>6. CASE Load \/ BringUp \/ UNCHANGED vars
  <2>1. pc' = pc \/ pc' = "running"
    BY <1>6 DEF Load, BringUp, vars
  <2>2. UNCHANGED <<world, cfg, thin, seen>>
    BY <1>6 DEF Load, BringUp, vars, game
  <2> QED BY <1>0, <2>1, <2>2, NoVote DEF EarlyPcs
<1> QED BY <1>1, <1>2, <1>3, <1>4, <1>5, <1>6 DEF Next, Worker

(* The priors explain themselves.                                          *)
LEMMA InitVote == Init => VoteInv
<1> SUFFICES ASSUME Init PROVE VoteInv
  OBVIOUS
<1>1. world \in Worlds /\ seen \in Nat /\ thin = {} /\ cfg = fallback_constants
  BY DEF Init
<1>2. Fields = Klass \cup Method \cup Joint
  BY FieldsNamed
<1>3. cfg = [f \in Fields |-> cfg[f]] /\ cfg["type_discrim"] = Discrim
  BY <1>1, <1>2 DEF fallback_constants, Klass, Method, Joint, Discrim
<1>4. \A f \in Fields \ Joint : Explained(f, cfg[f])
  BY <1>1 DEF Explained
<1>5. Votes
  BY <1>1, <1>3, <1>4 DEF Votes
<1> QED BY <1>1, <1>3, <1>5 DEF VoteInv

(* What the properties ask for, from the votes.                            *)
LEMMA VotesSuffice ==
  ASSUME VoteInv, OnlyConfirmed
  PROVE  HonestWorldIsRight /\ WrongNeedsDecoy
<1> USE DEF VoteInv
<1>1. \A f \in Fields \ Joint : Truth(f) = {world.truth[f]}
  BY DEF Truth, Joint
<1>2. Truth("klass_valuetype") = world.valuetype /\ Truth("type_discrim") = {Discrim}
  BY DEF Truth, Discrim
<1>3. fallback_constants["type_discrim"] = Discrim
  BY DEF fallback_constants, Discrim
<1>4. HonestWorldIsRight
  <2> SUFFICES ASSUME world.decoy.struct = "none", NEW f \in Fields
               PROVE  cfg[f] = fallback_constants[f] \/ cfg[f] \in Truth(f)
    BY DEF HonestWorldIsRight
  <2>1. CASE f \notin Joint
    BY <1>1, <2>1 DEF Votes, Explained
  <2>2. CASE f \in Joint
    BY <1>2, <1>3, <2>2 DEF Votes, Joint, OnlyConfirmed
  <2> QED BY <2>1, <2>2
<1>5. WrongNeedsDecoy
  <2> SUFFICES ASSUME NEW f \in Fields
               PROVE  \/ cfg[f] = fallback_constants[f] \/ cfg[f] \in Truth(f)
                      \/ f = "klass_valuetype" /\ cfg[f] = world.decoy.pair
                      \/ f = "type_discrim" /\ cfg["klass_type_def"] = world.decoy.off
                      \/ /\ f \notin Joint
                         /\ cfg[f] = world.decoy.off /\ world.decoy.pop >= 9
                         /\ f \in { Phase1[i] : i \in 1 .. Len(Phase1) } => f \notin thin
    BY DEF WrongNeedsDecoy
  <2>1. f \in { Phase1[i] : i \in 1 .. Len(Phase1) } => f \notin thin
    BY FieldsNamed
  <2>2. CASE f \notin Joint
    BY <1>1, <2>1, <2>2 DEF Votes, Explained
  <2>3. CASE f \in Joint
    BY <1>2, <1>3, <2>3 DEF Votes, Joint, OnlyConfirmed
  <2> QED BY <2>2, <2>3
<1> QED BY <1>4, <1>5

(* The calibrated configuration is explained at every moment.              *)
LEMMA VotesHold == Spec => [](VoteInv /\ OnlyConfirmed)
<1>1. Init => WaitInv /\ VoteInv
  BY InitVote, StableStart
<1>2. WaitInv /\ VoteInv /\ [Next]_vars => WaitInv' /\ VoteInv'
  BY NextWait, NextVote
<1> QED BY <1>1, <1>2, FixedFieldsConfirmed, PTL DEF Spec

(* In a world without decoys every field of Il2CppConfig is right or the   *)
(* verified prior, for any set of layouts.                                 *)
THEOREM HonestConfig == Spec => []HonestWorldIsRight
<1>1. VoteInv /\ OnlyConfirmed => HonestWorldIsRight
  BY VotesSuffice
<1> QED BY <1>1, VotesHold, PTL

(* A wrong field is the work of a decoy that nine of ten objects vouch     *)
(* for, and in phase 1 of three objects at least.                          *)
THEOREM WrongIsDecoy == Spec => []WrongNeedsDecoy
<1>1. VoteInv /\ OnlyConfirmed => WrongNeedsDecoy
  BY VotesSuffice
<1> QED BY <1>1, VotesHold, PTL

=============================================================================
