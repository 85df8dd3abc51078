---------------------------- MODULE Il2CppProofs -----------------------------
(***************************************************************************)
(* Proofs about Il2Cpp. The listings, for classes with arrays of any       *)
(* length, any heap and any number of threads that list: a listing of      *)
(* instances loses none and invents none while the game allocates and      *)
(* frees, and the walks over the members of a class agree. The values of   *)
(* calls, for any signatures, number of registers and widths of integers:  *)
(* arguments and returns arrive.                                           *)
(***************************************************************************)
EXTENDS WellFoundedInduction, Il2Cpp, TLAPS

-----------------------------------------------------------------------------
WalkTypes ==
  /\ at \in [Walkers -> {"idle", "next", "scan", "validate", "done"}]
  /\ job \in [Walkers -> {"none", "fields", "methods", "instances"}]
  /\ limit \in [Walkers -> Nat] /\ cursor \in [Walkers -> Nat]
  /\ out \in [Walkers -> Seq(Nat)]

(* Appending something larger keeps a list rising.                         *)
LEMMA AppendRises ==
  ASSUME NEW s \in Seq(Nat), Rising(s), NEW c \in Nat, \A i \in DOMAIN s : s[i] < c
  PROVE  /\ Append(s, c) \in Seq(Nat) /\ Rising(Append(s, c))
         /\ Len(Append(s, c)) = Len(s) + 1
         /\ Listed(Append(s, c)) = Listed(s) \cup {c}
         /\ \A i \in DOMAIN Append(s, c) :
              Append(s, c)[i] = c \/ (i \in DOMAIN s /\ Append(s, c)[i] = s[i])
<1> DEFINE t == Append(s, c)
<1>1. /\ t \in Seq(Nat) /\ Len(t) = Len(s) + 1 /\ DOMAIN t = 1 .. Len(s) + 1 /\ DOMAIN s = 1 .. Len(s)
      /\ \A i \in DOMAIN s : t[i] = s[i]
      /\ t[Len(s) + 1] = c
  OBVIOUS
<1> HIDE DEF t
<1>2. \A i \in DOMAIN t : (i = Len(s) + 1 /\ t[i] = c) \/ (i \in DOMAIN s /\ t[i] = s[i])
  BY <1>1
<1>3. Rising(t)
  <2> SUFFICES ASSUME NEW i \in DOMAIN t, NEW j \in DOMAIN t, i < j PROVE t[i] < t[j]
    BY DEF Rising
  <2>1. i \in DOMAIN s /\ t[i] = s[i]
    BY <1>1
  <2>2. CASE j \in DOMAIN s
    BY <1>1, <2>1, <2>2 DEF Rising
  <2>3. CASE j \notin DOMAIN s
    BY <1>2, <2>1, <2>3
  <2> QED BY <2>2, <2>3
<1>4. Listed(t) \subseteq Listed(s) \cup {c}
  BY <1>1, <1>2 DEF Listed
<1>5. Listed(s) \cup {c} \subseteq Listed(t)
  BY <1>1 DEF Listed
<1>6. Listed(t) = Listed(s) \cup {c}
  BY <1>4, <1>5
<1> QED BY <1>1, <1>2, <1>3, <1>6 DEF t

-----------------------------------------------------------------------------
(* Listings of instances.                                                  *)

\* The hits that a walker is through with.
Passed(w) == 1 .. (IF at[w] = "validate" THEN cursor[w] - 1 ELSE cursor[w])
Here == { c \in Cells : heap[c] = "klass" }

\* One scan at a time, before there is a list; the list is in order.
ScanInv ==
  /\ heap \in Heaps /\ cache_lock \in Walkers \cup {NoOne}
  /\ \A w \in Walkers : at[w] = "scan" <=> cache_lock = w
  /\ cache_lock # NoOne => scan_cache = NotScanned
  /\ scan_at \in Nat /\ hits \in Seq(Nat) /\ Rising(hits)
  /\ \A i \in DOMAIN hits : hits[i] \in Cells /\ hits[i] < scan_at
  /\ scan_cache # NotScanned =>
       /\ scan_cache \in Seq(Nat) /\ Rising(scan_cache)
       /\ \A i \in DOMAIN scan_cache : scan_cache[i] \in Cells

\* Of the hits passed those are listed that were valid at their turn, among
\* them all that have held the class since the listing began.
Listing(w) ==
  /\ steady[w] \subseteq Here /\ Here \subseteq held[w]
  /\ Len(out[w]) <= limit[w] /\ (at[w] \in {"scan", "validate"} => Len(out[w]) < limit[w])
  /\ Rising(out[w]) /\ Listed(out[w]) \subseteq held[w]
  /\ scan_cache = NotScanned => cursor[w] = 0 /\ out[w] = <<>> /\ at[w] # "validate"
  /\ scan_cache # NotScanned =>
       /\ cursor[w] <= Len(scan_cache) /\ (at[w] = "validate" => cursor[w] >= 1)
       /\ \A n \in DOMAIN out[w] :
            out[w][n] \notin Unaligned /\ \E i \in Passed(w) : out[w][n] = scan_cache[i]
       /\ \A i \in Passed(w) :
            scan_cache[i] \in steady[w] \ Unaligned => scan_cache[i] \in Listed(out[w])
  /\ at[w] = "done" /\ Len(out[w]) < limit[w] =>
       scan_cache # NotScanned /\ cursor[w] >= Len(scan_cache)

InstInv ==
  /\ WalkTypes /\ ScanInv
  /\ steady \in [Walkers -> SUBSET Cells] /\ held \in [Walkers -> SUBSET Cells]
  /\ \A w \in Walkers : job[w] \in {"none", "instances"} /\ (job[w] = "none" <=> at[w] = "idle")
  /\ \A w \in Walkers : job[w] = "instances" => Listing(w)

(* What a step leaves alone of a walker and the list leaves its listing    *)
(* as it is.                                                               *)
LEMMA ListingSame ==
  ASSUME NEW w \in Walkers, Listing(w), UNCHANGED <<heap, scan_cache>>,
         at'[w] = at[w], limit'[w] = limit[w], cursor'[w] = cursor[w], out'[w] = out[w],
         steady'[w] = steady[w], held'[w] = held[w]
  PROVE  Listing(w)'
BY DEF Listing, Passed, Here
(* The listings of the walkers that a step does not touch.                 *)
LEMMA OthersSame ==
  ASSUME InstInv, NEW w, UNCHANGED <<heap, scan_cache>>,
         \A u \in Walkers : u # w =>
           /\ at'[u] = at[u] /\ job'[u] = job[u] /\ limit'[u] = limit[u] /\ cursor'[u] = cursor[u]
           /\ out'[u] = out[u] /\ steady'[u] = steady[u] /\ held'[u] = held[u]
  PROVE  \A u \in Walkers : u # w =>
           /\ job'[u] \in {"none", "instances"} /\ (job'[u] = "none" <=> at'[u] = "idle")
           /\ job'[u] = "instances" => Listing(u)'
<1> SUFFICES ASSUME NEW u \in Walkers, u # w
             PROVE  /\ job'[u] \in {"none", "instances"} /\ (job'[u] = "none" <=> at'[u] = "idle")
                    /\ job'[u] = "instances" => Listing(u)'
  OBVIOUS
<1>1. job[u] = "instances" => Listing(u)
  BY DEF InstInv
<1>2. job'[u] = job[u] /\ at'[u] = at[u]
  OBVIOUS
<1>3. Listing(u) => Listing(u)'
  BY ListingSame
<1> QED BY <1>1, <1>2, <1>3 DEF InstInv

(* KlassPtr::iter.                                                         *)
LEMMA StartListing ==
  ASSUME InstInv, NEW w \in Walkers, NEW n \in Nat, Start(w, "instances", n)
  PROVE  InstInv'
<1>1. /\ at[w] = "idle" /\ UNCHANGED <<class, heap, scan_cache, cache_lock, scan_at, hits>>
      /\ at' = [at EXCEPT ![w] = "next"] /\ job' = [job EXCEPT ![w] = "instances"]
      /\ limit' = [limit EXCEPT ![w] = n] /\ cursor' = [cursor EXCEPT ![w] = 0]
      /\ out' = [out EXCEPT ![w] = <<>>]
      /\ steady' = [steady EXCEPT ![w] = Here] /\ held' = [held EXCEPT ![w] = Here]
  BY DEF Start, scanning, Here
<1>2. WalkTypes'
  BY <1>1 DEF InstInv, WalkTypes
<1>3. ScanInv'
  BY <1>1 DEF InstInv, WalkTypes, ScanInv
<1>4. steady' \in [Walkers -> SUBSET Cells] /\ held' \in [Walkers -> SUBSET Cells]
  BY <1>1 DEF InstInv, Here
<1>5. /\ at'[w] = "next" /\ job'[w] = "instances" /\ limit'[w] = n /\ cursor'[w] = 0 /\ out'[w] = <<>>
      /\ steady'[w] = Here /\ held'[w] = Here
  BY <1>1 DEF InstInv, WalkTypes
<1>6. Here' = Here
  BY <1>1 DEF Here
<1>7. Listing(w)'
  <2>1. scan_cache' # NotScanned => scan_cache' \in Seq(Nat)
    BY <1>3 DEF ScanInv
  <2>2. Passed(w)' = {}
    BY <1>5 DEF Passed
  <2>3. Rising(<<>>) /\ Listed(<<>>) = {} /\ Len(<<>>) = 0 /\ DOMAIN <<>> = {}
    BY DEF Rising, Listed
  <2> QED BY <1>5, <1>6, <2>1, <2>2, <2>3 DEF Listing
<1>8. \A u \in Walkers : u # w =>
        /\ job'[u] \in {"none", "instances"} /\ (job'[u] = "none" <=> at'[u] = "idle")
        /\ job'[u] = "instances" => Listing(u)'
  BY <1>1, OthersSame DEF InstInv, WalkTypes
<1> QED BY <1>2, <1>3, <1>4, <1>5, <1>7, <1>8 DEF InstInv

(* Finish.                                                                 *)
LEMMA FinishListing ==
  ASSUME InstInv, NEW w \in Walkers, Finish(w)
  PROVE  InstInv'
<1>1. /\ at[w] = "done" /\ UNCHANGED <<class, heap, scan_cache, cache_lock, scan_at, hits>>
      /\ at' = [at EXCEPT ![w] = "idle"] /\ job' = [job EXCEPT ![w] = "none"]
      /\ limit' = [limit EXCEPT ![w] = 0] /\ cursor' = [cursor EXCEPT ![w] = 0]
      /\ out' = [out EXCEPT ![w] = <<>>]
      /\ steady' = [steady EXCEPT ![w] = {}] /\ held' = [held EXCEPT ![w] = {}]
  BY DEF Finish, scanning
<1>2. WalkTypes'
  BY <1>1 DEF InstInv, WalkTypes
<1>3. ScanInv'
  BY <1>1 DEF InstInv, WalkTypes, ScanInv
<1>4. steady' \in [Walkers -> SUBSET Cells] /\ held' \in [Walkers -> SUBSET Cells]
  BY <1>1 DEF InstInv
<1>5. at'[w] = "idle" /\ job'[w] = "none"
  BY <1>1 DEF InstInv, WalkTypes
<1>6. \A u \in Walkers : u # w =>
        /\ job'[u] \in {"none", "instances"} /\ (job'[u] = "none" <=> at'[u] = "idle")
        /\ job'[u] = "instances" => Listing(u)'
  BY <1>1, OthersSame DEF InstInv, WalkTypes
<1> QED BY <1>2, <1>3, <1>4, <1>5, <1>6 DEF InstInv
(* scan_next_match takes the lock, and nobody else scans.                  *)
LEMMA ScanBeginsKeeps ==
  ASSUME InstInv, NEW w \in Walkers, ScanBegins(w)
  PROVE  InstInv'
<1>1. /\ at[w] = "next" /\ job[w] = "instances" /\ Len(out[w]) < limit[w]
      /\ scan_cache = NotScanned /\ cache_lock = NoOne /\ cache_lock' = w /\ scan_at' = 1 /\ hits' = <<>>
      /\ at' = [at EXCEPT ![w] = "scan"]
      /\ UNCHANGED <<heap, scan_cache, job, limit, cursor, out, steady, held>>
  BY DEF ScanBegins
<1>2. WalkTypes'
  BY <1>1 DEF InstInv, WalkTypes
<1>3. ScanInv'
  BY <1>1, ClassAssumption DEF InstInv, WalkTypes, ScanInv, Rising
<1>4. at'[w] = "scan"
  BY <1>1 DEF InstInv, WalkTypes
<1>5. Listing(w)'
  <2>1. Listing(w)
    BY <1>1 DEF InstInv
  <2>2. Here' = Here
    BY <1>1 DEF Here
  <2> QED BY <1>1, <1>4, <2>1, <2>2 DEF Listing
<1>6. \A u \in Walkers : u # w =>
        /\ job'[u] \in {"none", "instances"} /\ (job'[u] = "none" <=> at'[u] = "idle")
        /\ job'[u] = "instances" => Listing(u)'
  BY <1>1, OthersSame DEF InstInv, WalkTypes
<1> QED BY <1>1, <1>2, <1>3, <1>4, <1>5, <1>6 DEF InstInv

(* The scan goes on in order.                                              *)
LEMMA ScanCellKeeps ==
  ASSUME InstInv, NEW w \in Walkers, ScanCell(w)
  PROVE  InstInv'
<1>1. /\ scan_at \in Cells /\ scan_at' = scan_at + 1
      /\ hits' = (IF heap[scan_at] = "klass" /\ Len(hits) < MaxHits THEN Append(hits, scan_at) ELSE hits)
      /\ UNCHANGED <<heap, scan_cache, cache_lock, at, job, limit, cursor, out, steady, held>>
  BY DEF ScanCell
<1>2. /\ scan_at \in Nat /\ hits \in Seq(Nat) /\ Rising(hits)
      /\ \A i \in DOMAIN hits : hits[i] \in Cells /\ hits[i] \in Nat /\ hits[i] < scan_at
  BY DEF InstInv, ScanInv
<1>3. hits' \in Seq(Nat) /\ Rising(hits')
      /\ \A i \in DOMAIN hits' : hits'[i] \in Cells /\ hits'[i] < scan_at'
  <2>1. CASE hits' = Append(hits, scan_at)
    BY <1>1, <1>2, <2>1, AppendRises
  <2>2. CASE hits' = hits
    BY <1>1, <1>2, <2>2
  <2> QED BY <1>1, <2>1, <2>2
<1>4. ScanInv'
  BY <1>1, <1>2, <1>3 DEF InstInv, ScanInv
<1>5. \A u \in Walkers : job'[u] = "instances" => Listing(u)'
  BY <1>1, ListingSame DEF InstInv
<1> QED BY <1>1, <1>4, <1>5 DEF InstInv, WalkTypes

(* The list is there; nobody has used it yet.                              *)
LEMMA ScanEndsKeeps ==
  ASSUME InstInv, NEW w \in Walkers, ScanEnds(w)
  PROVE  InstInv'
<1>1. /\ at[w] = "scan" /\ scan_cache' = hits /\ cache_lock' = NoOne /\ scan_at' = 0 /\ hits' = <<>>
      /\ at' = [at EXCEPT ![w] = "next"]
      /\ UNCHANGED <<heap, job, limit, cursor, out, steady, held>>
  BY DEF ScanEnds
<1>2. cache_lock = w /\ cache_lock # NoOne /\ scan_cache = NotScanned
  BY <1>1, ClassAssumption DEF InstInv, ScanInv
<1>3. WalkTypes'
  BY <1>1 DEF InstInv, WalkTypes
<1>4. ScanInv'
  <2>1. \A u \in Walkers : at'[u] # "scan"
    BY <1>1, <1>2 DEF InstInv, WalkTypes, ScanInv
  <2>2. hits \in Seq(Nat) /\ Rising(hits) /\ heap \in Heaps /\ \A i \in DOMAIN hits : hits[i] \in Cells
    BY DEF InstInv, ScanInv
  <2> QED BY <1>1, <2>1, <2>2, ClassAssumption DEF ScanInv, Rising
<1>5. ASSUME NEW u \in Walkers, job'[u] = "instances" PROVE Listing(u)'
  <2>1. Listing(u)
    BY <1>1, <1>5 DEF InstInv
  <2>2. at'[u] = at[u] \/ (at'[u] = "next" /\ at[u] = "scan")
    BY <1>1 DEF InstInv, WalkTypes
  <2>3. cursor[u] = 0 /\ out[u] = <<>> /\ at[u] # "validate"
    BY <1>2, <2>1 DEF Listing
  <2>4. Passed(u)' = {}
    BY <1>1, <2>2, <2>3 DEF Passed
  <2>5. Len(hits) \in Nat
    BY DEF InstInv, ScanInv
  <2>6. Here' = Here
    BY <1>1 DEF Here
  <2>7. at[u] = "done" => ~(Len(out[u]) < limit[u])
    BY <1>2, <2>1 DEF Listing
  <2>8. DOMAIN <<>> = {}
    OBVIOUS
  <2> QED BY <1>1, <2>1, <2>2, <2>3, <2>4, <2>5, <2>6, <2>7, <2>8 DEF Listing
<1>6. \A u \in Walkers : job'[u] \in {"none", "instances"} /\ (job'[u] = "none" <=> at'[u] = "idle")
  BY <1>1 DEF InstInv, WalkTypes
<1> QED BY <1>1, <1>3, <1>4, <1>5, <1>6 DEF InstInv

(* The game changes a cell.                                                *)
LEMMA HeapKeeps ==
  ASSUME InstInv, NEW c \in Cells, NEW word \in {"klass", "other"}, GameHeap(c, word)
  PROVE  InstInv'
<1>1. /\ heap' = [heap EXCEPT ![c] = word]
      /\ steady' = [w \in Walkers |-> steady[w] \ {c}]
      /\ held' = [w \in Walkers |-> IF word = "klass" /\ at[w] # "idle" THEN held[w] \cup {c} ELSE held[w]]
      /\ UNCHANGED <<scan_cache, cache_lock, scan_at, hits, at, job, limit, cursor, out>>
  BY DEF GameHeap, scanning
<1>2. WalkTypes' /\ steady' \in [Walkers -> SUBSET Cells] /\ held' \in [Walkers -> SUBSET Cells]
  BY <1>1 DEF InstInv, WalkTypes
<1>3. ScanInv'
  BY <1>1 DEF InstInv, ScanInv, Heaps
<1>4. ASSUME NEW u \in Walkers, job'[u] = "instances" PROVE Listing(u)'
  <2>1. Listing(u) /\ at[u] # "idle"
    BY <1>1, <1>4 DEF InstInv
  <2>2. steady'[u] = steady[u] \ {c}
        /\ held'[u] = (IF word = "klass" THEN held[u] \cup {c} ELSE held[u])
    BY <1>1, <2>1
  <2>3. Here' \subseteq Here \cup {c} /\ Here \ {c} \subseteq Here' /\ (word # "klass" => c \notin Here')
    BY <1>1 DEF Here, InstInv, ScanInv, Heaps
  <2>4. steady'[u] \subseteq Here' /\ Here' \subseteq held'[u] /\ Listed(out[u]) \subseteq held'[u]
        /\ steady'[u] \subseteq steady[u]
    BY <2>1, <2>2, <2>3 DEF Listing
  <2>5. Passed(u)' = Passed(u)
    BY <1>1 DEF Passed
  <2> QED BY <1>1, <2>1, <2>4, <2>5 DEF Listing
<1> QED BY <1>1, <1>2, <1>3, <1>4 DEF InstInv
(* The next hit of the list, or the end of it.                             *)
LEMMA NextMatchKeeps ==
  ASSUME InstInv, NEW w \in Walkers, NextMatch(w)
  PROVE  InstInv'
<1> DEFINE ends == Len(out[w]) >= limit[w] \/ cursor[w] >= Len(scan_cache)
<1>1. /\ at[w] = "next" /\ job[w] = "instances"
      /\ Len(out[w]) >= limit[w] \/ (scan_cache # NotScanned /\ cache_lock = NoOne)
      /\ at' = [at EXCEPT ![w] = IF ends THEN "done" ELSE "validate"]
      /\ cursor' = [cursor EXCEPT ![w] = IF ends THEN cursor[w] ELSE cursor[w] + 1]
      /\ out' = [out EXCEPT ![w] = out[w]]
      /\ UNCHANGED <<heap, job, limit, steady, held, scan_cache, cache_lock, scan_at, hits>>
  BY DEF NextMatch, Step, scanning
<1> HIDE DEF ends
<1>2. out' = out
  BY <1>1 DEF InstInv, WalkTypes
<1>3. WalkTypes'
  BY <1>1, <1>2 DEF InstInv, WalkTypes
<1>4. ScanInv'
  BY <1>1 DEF InstInv, WalkTypes, ScanInv
<1>5. /\ at'[w] = (IF ends THEN "done" ELSE "validate")
      /\ cursor'[w] = (IF ends THEN cursor[w] ELSE cursor[w] + 1)
  BY <1>1 DEF InstInv, WalkTypes
<1>6. Listing(w)'
  <2>1. Listing(w)
    BY <1>1 DEF InstInv
  <2>2. Here' = Here
    BY <1>1 DEF Here
  <2>3. /\ cursor[w] \in Nat /\ limit[w] \in Nat /\ Len(out[w]) \in Nat
        /\ scan_cache # NotScanned => Len(scan_cache) \in Nat
    BY DEF InstInv, WalkTypes, ScanInv
  <2>4. Passed(w)' = Passed(w)
    BY <1>1, <1>5, <2>3 DEF Passed
  <2>5. CASE ends
    BY <1>1, <1>2, <1>5, <2>1, <2>2, <2>3, <2>4, <2>5 DEF Listing, ends
  <2>6. CASE ~ends
    <3>1. Len(out[w]) < limit[w] /\ scan_cache # NotScanned /\ cursor[w] + 1 <= Len(scan_cache)
      BY <1>1, <2>3, <2>6 DEF ends
    <3> QED BY <1>1, <1>2, <1>5, <2>1, <2>2, <2>3, <2>4, <2>6, <3>1 DEF Listing
  <2> QED BY <2>5, <2>6
<1>7. \A u \in Walkers : u # w =>
        /\ job'[u] \in {"none", "instances"} /\ (job'[u] = "none" <=> at'[u] = "idle")
        /\ job'[u] = "instances" => Listing(u)'
  BY <1>1, <1>2, OthersSame DEF InstInv, WalkTypes
<1> QED BY <1>1, <1>3, <1>4, <1>5, <1>6, <1>7 DEF InstInv

(* scan_validate, and the address is handed out or skipped.                *)
LEMMA ValidateKeeps ==
  ASSUME InstInv, NEW w \in Walkers, Validate(w), job[w] = "instances"
  PROVE  InstInv'
<1> DEFINE c == scan_cache[cursor[w]]
           o == IF scan_validate(c) THEN Append(out[w], c) ELSE out[w]
<1>1. /\ at[w] = "validate"
      /\ at' = [at EXCEPT ![w] = "next"] /\ cursor' = [cursor EXCEPT ![w] = cursor[w]]
      /\ out' = [out EXCEPT ![w] = o]
      /\ UNCHANGED <<heap, job, limit, steady, held, scan_cache, cache_lock, scan_at, hits>>
  BY DEF Validate, Step, scanning
<1>2. Listing(w)
  BY DEF InstInv
<1>3. /\ scan_cache # NotScanned /\ scan_cache \in Seq(Nat) /\ Rising(scan_cache)
      /\ cursor[w] \in 1 .. Len(scan_cache) /\ out[w] \in Seq(Nat) /\ limit[w] \in Nat
  BY <1>1, <1>2 DEF InstInv, ScanInv, WalkTypes, Listing
<1>4. c \in Nat
  BY <1>3
<1>5. Passed(w) = 1 .. cursor[w] - 1
  BY <1>1 DEF Passed
<1>6. \A n \in DOMAIN out[w] : out[w][n] < c
  <2> SUFFICES ASSUME NEW n \in DOMAIN out[w] PROVE out[w][n] < c
    OBVIOUS
  <2>1. PICK i \in Passed(w) : out[w][n] = scan_cache[i]
    BY <1>2, <1>3 DEF Listing
  <2>2. i \in DOMAIN scan_cache /\ cursor[w] \in DOMAIN scan_cache /\ i < cursor[w]
    BY <1>3, <1>5, <2>1
  <2> QED BY <1>3, <2>1, <2>2 DEF Rising
<1>7. /\ o \in Seq(Nat) /\ Rising(o) /\ Len(o) <= Len(out[w]) + 1
      /\ Listed(o) = Listed(out[w]) \cup (IF scan_validate(c) THEN {c} ELSE {})
      /\ \A n \in DOMAIN o : (o[n] = c /\ scan_validate(c)) \/ (n \in DOMAIN out[w] /\ o[n] = out[w][n])
  <2>1. CASE scan_validate(c)
    <3>1. o = Append(out[w], c)
      BY <2>1
    <3>2. Rising(out[w])
      BY <1>2 DEF Listing
    <3> HIDE DEF c, o
    <3> QED BY <1>3, <1>4, <1>6, <2>1, <3>1, <3>2, AppendRises
  <2>2. CASE ~scan_validate(c)
    BY <1>2, <1>3, <2>2 DEF Listing
  <2> QED BY <2>1, <2>2
<1>8. scan_validate(c) => c \notin Unaligned /\ heap[c] = "klass"
  BY DEF scan_validate
<1>9. c \in steady[w] \ Unaligned => scan_validate(c)
  BY <1>2 DEF Listing, Here, scan_validate
<1>10. scan_validate(c) => c \in held[w]
  <2>1. c \in Cells
    BY <1>3 DEF InstInv, ScanInv
  <2> QED BY <1>2, <1>8, <2>1 DEF Listing, Here
<1> HIDE DEF o
<1>11. at'[w] = "next" /\ cursor'[w] = cursor[w] /\ out'[w] = o /\ cursor' = cursor
  BY <1>1 DEF InstInv, WalkTypes
<1>12. WalkTypes'
  BY <1>1, <1>7, <1>11 DEF InstInv, WalkTypes
<1>13. ScanInv'
  BY <1>1 DEF InstInv, WalkTypes, ScanInv
<1>14. Listing(w)'
  <2>1. Passed(w)' = 1 .. cursor[w]
    BY <1>11 DEF Passed
  <2>2. Here' = Here
    BY <1>1 DEF Here
  <2>3. Len(o) <= limit[w]
    BY <1>1, <1>2, <1>3, <1>7 DEF Listing
  <2>4. Listed(o) \subseteq held[w]
    BY <1>2, <1>7, <1>10 DEF Listing
  <2>5. ASSUME NEW n \in DOMAIN o
        PROVE  o[n] \notin Unaligned /\ \E i \in 1 .. cursor[w] : o[n] = scan_cache[i]
    <3>1. CASE o[n] = c /\ scan_validate(c)
      BY <1>3, <1>8, <3>1
    <3>2. CASE n \in DOMAIN out[w] /\ o[n] = out[w][n]
      <4>1. out[w][n] \notin Unaligned /\ \E i \in Passed(w) : out[w][n] = scan_cache[i]
        BY <1>2, <1>3, <3>2 DEF Listing
      <4> QED BY <1>3, <1>5, <3>2, <4>1
    <3> QED BY <1>7, <3>1, <3>2
  <2>6. ASSUME NEW i \in 1 .. cursor[w], scan_cache[i] \in steady[w] \ Unaligned
        PROVE  scan_cache[i] \in Listed(o)
    <3>1. CASE i = cursor[w]
      BY <1>7, <1>9, <2>6, <3>1
    <3>2. CASE i # cursor[w]
      <4>1. i \in Passed(w)
        BY <1>3, <1>5, <3>2
      <4>2. scan_cache[i] \in Listed(out[w])
        BY <1>2, <1>3, <2>6, <4>1 DEF Listing
      <4> QED BY <1>7, <4>2
    <3> QED BY <3>1, <3>2
  <2>7. cursor[w] <= Len(scan_cache) /\ steady[w] \subseteq Here /\ Here \subseteq held[w]
    BY <1>2, <1>3 DEF Listing
  <2>8. Rising(o)
    BY <1>7
  <2>9. UNCHANGED <<limit, steady, held, scan_cache>>
    BY <1>1
  <2> HIDE DEF c
  <2>10. \A n \in DOMAIN out'[w] :
           out'[w][n] \notin Unaligned /\ \E i \in Passed(w)' : out'[w][n] = scan_cache'[i]
    BY <1>11, <2>1, <2>5, <2>9
  <2>11. \A i \in Passed(w)' :
           scan_cache'[i] \in steady'[w] \ Unaligned => scan_cache'[i] \in Listed(out'[w])
    BY <1>11, <2>1, <2>6, <2>9
  <2> QED BY <1>3, <1>11, <2>2, <2>3, <2>4, <2>7, <2>8, <2>9, <2>10, <2>11 DEF Listing
<1>15. \A u \in Walkers : u # w =>
        /\ job'[u] \in {"none", "instances"} /\ (job'[u] = "none" <=> at'[u] = "idle")
        /\ job'[u] = "instances" => Listing(u)'
  BY <1>1, <1>11, OthersSame DEF InstInv, WalkTypes
<1> QED BY <1>1, <1>11, <1>12, <1>13, <1>14, <1>15 DEF InstInv
(* Every step of a listing keeps all of them.                              *)
LEMMA NextListing == InstInv /\ [InstanceNext]_wvars => InstInv'
<1> SUFFICES ASSUME InstInv, [InstanceNext]_wvars PROVE InstInv'
  OBVIOUS
<1>1. CASE StartInstances
  <2>1. PICK w \in Walkers, n \in Limits : Start(w, "instances", n)
    BY <1>1 DEF StartInstances
  <2> QED BY <2>1, WalkAssumption, StartListing
<1>2. CASE Scan
  BY <1>2, ScanBeginsKeeps, ScanCellKeeps, ScanEndsKeeps DEF Scan
<1>3. CASE HandOut
  <2>1. PICK w \in Walkers : NextMatch(w) \/ Validate(w)
    BY <1>3 DEF HandOut
  <2>2. CASE NextMatch(w)
    BY <2>2, NextMatchKeeps
  <2>3. CASE Validate(w)
    <3>1. job[w] = "instances"
      BY <2>3 DEF Validate, InstInv
    <3> QED BY <2>3, <3>1, ValidateKeeps
  <2> QED BY <2>1, <2>2, <2>3
<1>4. CASE Finishes
  BY <1>4, FinishListing DEF Finishes
<1>5. CASE Game
  BY <1>5, HeapKeeps DEF Game
<1>6. CASE UNCHANGED wvars
  <2>1. UNCHANGED <<heap, scan_cache, cache_lock, scan_at, hits, at, job, limit, cursor, out, steady, held>>
    BY <1>6 DEF wvars
  <2>2. \A u \in Walkers : job'[u] = "instances" => Listing(u)'
    BY <2>1, ListingSame DEF InstInv
  <2>3. WalkTypes' /\ ScanInv'
    BY <2>1 DEF InstInv, WalkTypes, ScanInv
  <2> QED BY <2>1, <2>2, <2>3 DEF InstInv
<1> QED BY <1>1, <1>2, <1>3, <1>4, <1>5, <1>6 DEF InstanceNext

(* What the property asks for, from the invariant.                         *)
LEMMA ListingSuffices == InstInv => InstancesListed
<1> SUFFICES ASSUME InstInv, NEW w \in Walkers, job[w] = "instances"
             PROVE  /\ Rising(out[w]) /\ Len(out[w]) <= limit[w]
                    /\ Listed(out[w]) \subseteq held[w]
                    /\ out[w] # <<>> => Listed(out[w]) \subseteq Listed(scan_cache) \ Unaligned
                    /\ at[w] = "done" /\ Len(out[w]) < limit[w] =>
                         \A c \in steady[w] \ Unaligned : c \in Listed(scan_cache) => c \in Listed(out[w])
  BY DEF InstancesListed
<1>1. Listing(w)
  BY DEF InstInv
<1>2. scan_cache # NotScanned => scan_cache \in Seq(Nat) /\ cursor[w] \in Nat
  BY DEF InstInv, ScanInv, WalkTypes
<1>3. ASSUME out[w] # <<>> PROVE Listed(out[w]) \subseteq Listed(scan_cache) \ Unaligned
  <2>1. scan_cache # NotScanned
    BY <1>1, <1>3 DEF Listing
  <2>2. Passed(w) \subseteq DOMAIN scan_cache
    BY <1>1, <1>2, <2>1 DEF Listing, Passed
  <2>3. \A n \in DOMAIN out[w] :
          out[w][n] \notin Unaligned /\ \E i \in Passed(w) : out[w][n] = scan_cache[i]
    BY <1>1, <2>1 DEF Listing
  <2> QED BY <2>2, <2>3 DEF Listed
<1>4. ASSUME at[w] = "done", Len(out[w]) < limit[w], NEW c \in steady[w] \ Unaligned, c \in Listed(scan_cache)
      PROVE  c \in Listed(out[w])
  <2>1. scan_cache # NotScanned /\ cursor[w] >= Len(scan_cache)
    BY <1>1, <1>4 DEF Listing
  <2>2. PICK i \in DOMAIN scan_cache : c = scan_cache[i]
    BY <1>4 DEF Listed
  <2>3. i \in Passed(w)
    BY <1>2, <1>4, <2>1, <2>2 DEF Passed
  <2> QED BY <1>1, <1>4, <2>1, <2>2, <2>3 DEF Listing
<1> QED BY <1>1, <1>3, <1>4 DEF Listing
-----------------------------------------------------------------------------
(* Walks over the members.                                                 *)

(* A set of natural numbers has a least one.                               *)
LEMMA Least ==
  ASSUME NEW T, T \subseteq Nat, T # {}
  PROVE  \E x \in T : \A y \in T : x <= y
<1> DEFINE R == OpToRel(<, Nat)
<1>1. PICK x \in T : \A y \in T : ~ (<<y, x>> \in R)
  <2>1. IsWellFoundedOn(R, Nat)
    BY NatLessThanWellFounded
  <2> HIDE DEF R
  <2> QED BY <2>1, WFMin
<1>2. R = {ss \in Nat \X Nat : ss[1] < ss[2]}
  BY DEF OpToRel
<1> HIDE DEF R
<1>3. ASSUME NEW y \in T PROVE x <= y
  <2>1. x \in Nat /\ y \in Nat
    OBVIOUS
  <2>2. y < x => <<y, x>> \in R
    BY <1>2, <2>1
  <2> QED BY <1>1, <2>1, <2>2
<1> QED BY <1>3

(* A set of array indices has a first one.                                 *)
LEMMA FirstOf ==
  ASSUME NEW S, S \subseteq Nat, S # {}
  PROVE  LET i == CHOOSE i \in S : \A j \in S : i <= j
         IN  i \in S /\ \A j \in S : i <= j
<1>1. \E x \in S : \A j \in S : x <= j
  BY Least
<1> QED BY <1>1, Zenon

\* The slots of the field array that are fields.
Members(c) == { i \in Before(c.fields, MaxFields) : c.fields[i] \notin Garbage }

FieldWalk(w) ==
  /\ Rising(out[w]) /\ Listed(out[w]) = { i \in Members(class) : i <= cursor[w] }
  /\ at[w] = "done" => \A i \in Members(class) : i <= cursor[w]
MethodWalk(w) ==
  /\ Rising(out[w]) /\ Listed(out[w]) = 1 .. cursor[w]
  /\ 1 .. cursor[w] \subseteq Before(class.methods, MaxMethods)

MemberInv ==
  /\ WalkTypes /\ class \in Classes
  /\ \A w \in Walkers :
       /\ job[w] \in {"none", "fields", "methods"} /\ (job[w] = "none" <=> at[w] = "idle")
       /\ at[w] \in {"idle", "next", "done"}
       /\ job[w] = "fields" => FieldWalk(w)
       /\ job[w] = "methods" => MethodWalk(w)

(* An array up to its end or a bound.                                      *)
LEMMA BeforeIs ==
  ASSUME NEW a \in Seq(STRING), NEW m \in Nat
  PROVE  \A i : i \in Before(a, m) <=>
           i \in Nat /\ i >= 1 /\ i <= m /\ i <= Len(a) /\ \A j \in 1 .. i : a[j] # "end"
BY DEF Before, Upto

(* fields_at gives the next field, or none when there is none.             *)
LEMMA FieldsAt ==
  ASSUME class \in Classes, NEW k \in Nat
  PROVE  \/ fields_at(class, k) = 0 /\ \A i \in Members(class) : i <= k
         \/ /\ fields_at(class, k) \in Members(class) /\ fields_at(class, k) > k
            /\ \A i \in Members(class) : i > k => fields_at(class, k) <= i
<1> DEFINE found == { i \in Members(class) : i > k }
<1>1. fields_at(class, k) = IF found = {} THEN 0 ELSE CHOOSE i \in found : \A j \in found : i <= j
  <2>1. found = { i \in Before(class.fields, MaxFields) : i > k /\ class.fields[i] \notin Garbage }
    BY DEF Members
  <2> HIDE DEF found
  <2> QED BY <2>1 DEF fields_at
<1>2. Members(class) \subseteq Nat
  BY ClassAssumption, WalkAssumption, BeforeIs DEF Members
<1>3. CASE found = {}
  BY <1>1, <1>2, <1>3
<1>4. CASE found # {}
  <2>1. found \subseteq Nat
    BY <1>2
  <2> HIDE DEF found
  <2>2. fields_at(class, k) \in found /\ \A j \in found : fields_at(class, k) <= j
    BY <1>1, <1>4, <2>1, FirstOf
  <2> QED BY <2>2 DEF found
<1> QED BY <1>3, <1>4

(* Steps of another walker.                                                *)
LEMMA OtherWalksSame ==
  ASSUME MemberInv, NEW w, UNCHANGED class,
         \A u \in Walkers : u # w =>
           at'[u] = at[u] /\ job'[u] = job[u] /\ cursor'[u] = cursor[u] /\ out'[u] = out[u]
  PROVE  \A u \in Walkers : u # w =>
           /\ job'[u] \in {"none", "fields", "methods"} /\ (job'[u] = "none" <=> at'[u] = "idle")
           /\ at'[u] \in {"idle", "next", "done"}
           /\ job'[u] = "fields" => FieldWalk(u)'
           /\ job'[u] = "methods" => MethodWalk(u)'
<1> SUFFICES ASSUME NEW u \in Walkers, u # w
             PROVE  /\ job'[u] \in {"none", "fields", "methods"} /\ (job'[u] = "none" <=> at'[u] = "idle")
                    /\ at'[u] \in {"idle", "next", "done"}
                    /\ job'[u] = "fields" => FieldWalk(u)'
                    /\ job'[u] = "methods" => MethodWalk(u)'
  OBVIOUS
<1>1. (FieldWalk(u) => FieldWalk(u)') /\ (MethodWalk(u) => MethodWalk(u)')
  BY DEF FieldWalk, MethodWalk
<1> QED BY <1>1 DEF MemberInv

(* FieldInfoIter::next.                                                    *)
LEMMA NextField ==
  ASSUME MemberInv, NEW w \in Walkers, NextMember(w), job[w] = "fields"
  PROVE  FieldWalk(w)' /\ out'[w] \in Seq(Nat) /\ cursor'[w] \in Nat /\ at'[w] \in {"next", "done"}
<1> DEFINE next == IF cursor[w] >= MaxFields THEN 0 ELSE fields_at(class, cursor[w])
<1>1. /\ at[w] = "next" /\ UNCHANGED <<class, job>>
      /\ IF next <= cursor[w] THEN Step(w, "done", cursor[w], out[w])
         ELSE Step(w, "next", next, Append(out[w], next))
  BY DEF NextMember, Step
<1> HIDE DEF next
<1>2. FieldWalk(w) /\ cursor[w] \in Nat /\ out[w] \in Seq(Nat) /\ class \in Classes
  BY DEF MemberInv, WalkTypes
<1>3. \A i \in Members(class) : i \in Nat /\ i <= MaxFields
  BY <1>2, ClassAssumption, WalkAssumption, BeforeIs DEF Members
<1>4. \/ next = 0 /\ \A i \in Members(class) : i <= cursor[w]
      \/ /\ next \in Members(class) /\ next > cursor[w]
         /\ \A i \in Members(class) : i > cursor[w] => next <= i
  <2>1. CASE cursor[w] >= MaxFields
    BY <1>2, <1>3, <2>1, WalkAssumption DEF next
  <2>2. CASE ~(cursor[w] >= MaxFields)
    BY <1>2, <2>2, FieldsAt DEF next
  <2> QED BY <2>1, <2>2
<1>5. CASE next = 0 /\ \A i \in Members(class) : i <= cursor[w]
  <2>1. Step(w, "done", cursor[w], out[w])
    BY <1>1, <1>2, <1>5
  <2>2. at'[w] = "done" /\ cursor'[w] = cursor[w] /\ out'[w] = out[w]
    BY <2>1 DEF Step, MemberInv, WalkTypes
  <2> QED BY <1>1, <1>2, <1>5, <2>2 DEF FieldWalk
<1>6. CASE next \in Members(class) /\ next > cursor[w] /\ \A i \in Members(class) : i > cursor[w] => next <= i
  <2>1. Step(w, "next", next, Append(out[w], next)) /\ next \in Nat
    BY <1>1, <1>2, <1>3, <1>6
  <2>2. at'[w] = "next" /\ cursor'[w] = next /\ out'[w] = Append(out[w], next)
    BY <2>1 DEF Step, MemberInv, WalkTypes
  <2>3. \A i \in DOMAIN out[w] : out[w][i] < next
    <3>1. \A i \in DOMAIN out[w] : out[w][i] \in Listed(out[w])
      BY DEF Listed
    <3> QED BY <1>2, <1>3, <1>6, <2>1, <3>1 DEF FieldWalk
  <2>4. Rising(out[w])
    BY <1>2 DEF FieldWalk
  <2>5. /\ Append(out[w], next) \in Seq(Nat) /\ Rising(Append(out[w], next))
        /\ Listed(Append(out[w], next)) = Listed(out[w]) \cup {next}
    BY <1>2, <2>1, <2>3, <2>4, AppendRises
  <2>6. { i \in Members(class) : i <= next } = { i \in Members(class) : i <= cursor[w] } \cup {next}
    BY <1>2, <1>3, <1>6, <2>1
  <2> QED BY <1>1, <1>2, <2>1, <2>2, <2>5, <2>6 DEF FieldWalk
<1> QED BY <1>4, <1>5, <1>6

(* MethodPtrIter::next.                                                    *)
LEMMA NextMethod ==
  ASSUME MemberInv, NEW w \in Walkers, NextMember(w), job[w] = "methods"
  PROVE  MethodWalk(w)' /\ out'[w] \in Seq(Nat) /\ cursor'[w] \in Nat /\ at'[w] \in {"next", "done"}
<1> DEFINE next == IF cursor[w] >= MaxMethods THEN 0 ELSE methods_at(class, cursor[w])
<1>1. /\ at[w] = "next" /\ UNCHANGED <<class, job>>
      /\ IF next <= cursor[w] THEN Step(w, "done", cursor[w], out[w])
         ELSE Step(w, "next", next, Append(out[w], next))
  BY DEF NextMember, Step
<1>2. MethodWalk(w) /\ cursor[w] \in Nat /\ out[w] \in Seq(Nat) /\ class.methods \in Seq(STRING)
  BY ClassAssumption DEF MemberInv, WalkTypes
<1>3. \/ next = 0
      \/ /\ next = cursor[w] + 1 /\ cursor[w] < MaxMethods
         /\ cursor[w] + 1 \in Before(class.methods, cursor[w] + 1)
  BY <1>2, WalkAssumption DEF methods_at
<1> HIDE DEF next
<1>4. CASE next = 0
  <2>1. Step(w, "done", cursor[w], out[w])
    BY <1>1, <1>2, <1>4
  <2>2. at'[w] = "done" /\ cursor'[w] = cursor[w] /\ out'[w] = out[w]
    BY <2>1 DEF Step, MemberInv, WalkTypes
  <2> QED BY <1>1, <1>2, <2>2 DEF MethodWalk
<1>5. CASE next = cursor[w] + 1 /\ cursor[w] < MaxMethods
           /\ cursor[w] + 1 \in Before(class.methods, cursor[w] + 1)
  <2>1. Step(w, "next", next, Append(out[w], next)) /\ next \in Nat
    BY <1>1, <1>2, <1>5
  <2>2. at'[w] = "next" /\ cursor'[w] = next /\ out'[w] = Append(out[w], next)
    BY <2>1 DEF Step, MemberInv, WalkTypes
  <2>3. \A i \in DOMAIN out[w] : out[w][i] < next
    <3>1. \A i \in DOMAIN out[w] : out[w][i] \in Listed(out[w])
      BY DEF Listed
    <3> QED BY <1>2, <1>5, <2>1, <3>1 DEF MethodWalk
  <2>4. Rising(out[w])
    BY <1>2 DEF MethodWalk
  <2>5. /\ Append(out[w], next) \in Seq(Nat) /\ Rising(Append(out[w], next))
        /\ Listed(Append(out[w], next)) = Listed(out[w]) \cup {next}
    BY <1>2, <2>1, <2>3, <2>4, AppendRises
  <2>6. 1 .. next = 1 .. cursor[w] \cup {next}
    BY <1>2, <1>5
  <2>7. next \in Before(class.methods, MaxMethods)
    BY <1>2, <1>5, WalkAssumption, BeforeIs
  <2> QED BY <1>1, <1>2, <2>1, <2>2, <2>5, <2>6, <2>7 DEF MethodWalk
<1> QED BY <1>3, <1>4, <1>5
(* Every step of a walk keeps all of them.                                 *)
LEMMA NextWalk == MemberInv /\ [MemberNext]_wvars => MemberInv'
<1> SUFFICES ASSUME MemberInv, [MemberNext]_wvars PROVE MemberInv'
  OBVIOUS
<1>1. CASE StartMembers
  <2>1. PICK w \in Walkers, j \in {"fields", "methods"} : Start(w, j, 0)
    BY <1>1 DEF StartMembers
  <2>2. /\ at' = [at EXCEPT ![w] = "next"] /\ job' = [job EXCEPT ![w] = j]
        /\ limit' = [limit EXCEPT ![w] = 0] /\ cursor' = [cursor EXCEPT ![w] = 0]
        /\ out' = [out EXCEPT ![w] = <<>>] /\ UNCHANGED class
    BY <2>1 DEF Start
  <2>3. WalkTypes' /\ class' \in Classes
    BY <2>2 DEF MemberInv, WalkTypes
  <2>4. at'[w] = "next" /\ job'[w] = j /\ cursor'[w] = 0 /\ out'[w] = <<>>
    BY <2>2 DEF MemberInv, WalkTypes
  <2>5. Rising(<<>>) /\ Listed(<<>>) = {} /\ 1 .. 0 = {}
    BY DEF Rising, Listed
  <2>6. \A i \in Members(class) : i \in Nat /\ i >= 1
    BY ClassAssumption, WalkAssumption, BeforeIs DEF Members, MemberInv
  <2>7. { i \in Members(class) : i <= 0 } = {}
    BY <2>6
  <2>8. FieldWalk(w)' /\ MethodWalk(w)'
    BY <2>2, <2>4, <2>5, <2>7 DEF FieldWalk, MethodWalk
  <2>9. \A u \in Walkers : u # w =>
          /\ job'[u] \in {"none", "fields", "methods"} /\ (job'[u] = "none" <=> at'[u] = "idle")
          /\ at'[u] \in {"idle", "next", "done"}
          /\ job'[u] = "fields" => FieldWalk(u)'
          /\ job'[u] = "methods" => MethodWalk(u)'
    <3>1. \A u \in Walkers : u # w =>
            at'[u] = at[u] /\ job'[u] = job[u] /\ cursor'[u] = cursor[u] /\ out'[u] = out[u]
      BY <2>2 DEF MemberInv, WalkTypes
    <3> QED BY <2>2, <3>1, OtherWalksSame
  <2> QED BY <2>3, <2>4, <2>8, <2>9 DEF MemberInv
<1>2. CASE NextMembers
  <2>1. PICK w \in Walkers : NextMember(w)
    BY <1>2 DEF NextMembers
  <2>2. job[w] \in {"fields", "methods"} /\ at[w] = "next"
    BY <2>1 DEF NextMember
  <2>3. PICK where, k, o : Step(w, where, k, o)
    BY <2>1 DEF NextMember
  <2>4. /\ out'[w] \in Seq(Nat) /\ cursor'[w] \in Nat /\ at'[w] \in {"next", "done"}
        /\ job[w] = "fields" => FieldWalk(w)'
        /\ job[w] = "methods" => MethodWalk(w)'
    BY <2>1, <2>2, NextField, NextMethod
  <2>5. /\ at' = [at EXCEPT ![w] = where] /\ cursor' = [cursor EXCEPT ![w] = k]
        /\ out' = [out EXCEPT ![w] = o] /\ UNCHANGED <<class, job, limit>>
    BY <2>3 DEF Step
  <2>6. at'[w] = where /\ cursor'[w] = k /\ out'[w] = o
    BY <2>5 DEF MemberInv, WalkTypes
  <2>7. WalkTypes' /\ class' \in Classes
    BY <2>4, <2>5, <2>6 DEF MemberInv, WalkTypes
  <2>8. \A u \in Walkers : u # w =>
          /\ job'[u] \in {"none", "fields", "methods"} /\ (job'[u] = "none" <=> at'[u] = "idle")
          /\ at'[u] \in {"idle", "next", "done"}
          /\ job'[u] = "fields" => FieldWalk(u)'
          /\ job'[u] = "methods" => MethodWalk(u)'
    BY <2>5, OtherWalksSame DEF MemberInv, WalkTypes
  <2> QED BY <2>2, <2>4, <2>5, <2>7, <2>8 DEF MemberInv
<1>3. CASE Finishes
  <2>1. PICK w \in Walkers : Finish(w)
    BY <1>3 DEF Finishes
  <2>2. /\ at' = [at EXCEPT ![w] = "idle"] /\ job' = [job EXCEPT ![w] = "none"]
        /\ limit' = [limit EXCEPT ![w] = 0] /\ cursor' = [cursor EXCEPT ![w] = 0]
        /\ out' = [out EXCEPT ![w] = <<>>] /\ UNCHANGED class
    BY <2>1 DEF Finish
  <2>3. WalkTypes' /\ class' \in Classes
    BY <2>2 DEF MemberInv, WalkTypes
  <2>4. at'[w] = "idle" /\ job'[w] = "none"
    BY <2>2 DEF MemberInv, WalkTypes
  <2>5. \A u \in Walkers : u # w =>
          /\ job'[u] \in {"none", "fields", "methods"} /\ (job'[u] = "none" <=> at'[u] = "idle")
          /\ at'[u] \in {"idle", "next", "done"}
          /\ job'[u] = "fields" => FieldWalk(u)'
          /\ job'[u] = "methods" => MethodWalk(u)'
    <3>1. \A u \in Walkers : u # w =>
            at'[u] = at[u] /\ job'[u] = job[u] /\ cursor'[u] = cursor[u] /\ out'[u] = out[u]
      BY <2>2 DEF MemberInv, WalkTypes
    <3> QED BY <2>2, <3>1, OtherWalksSame
  <2> QED BY <2>3, <2>4, <2>5 DEF MemberInv
<1>4. CASE UNCHANGED wvars
  <2>1. UNCHANGED <<class, at, job, limit, cursor, out>>
    BY <1>4 DEF wvars
  <2> QED BY <2>1 DEF MemberInv, WalkTypes, FieldWalk, MethodWalk
<1> QED BY <1>1, <1>2, <1>3, <1>4 DEF MemberNext

(* What the property asks for, from the invariant.                         *)
LEMMA WalksSuffice == MemberInv => WalksAgree
<1> SUFFICES ASSUME MemberInv, NEW w \in Walkers, at[w] = "done"
             PROVE  /\ Rising(out[w])
                    /\ job[w] = "fields" =>
                        /\ ~class.ffi => Listed(out[w]) = for_each_field(class)
                        /\ class.ffi => { i \in for_each_field(class) : class.fields[i] \notin Garbage } \subseteq Listed(out[w])
                        /\ \A n \in {"x", "y"} : static_field(class, n) # 0 => static_field(class, n) \in Listed(out[w])
                    /\ job[w] = "methods" =>
                        \A i \in Listed(out[w]) :
                            class.methods[i] = "unnamed" \/ find_method(class, class.methods[i]) \in Listed(out[w])
  BY DEF WalksAgree
<1>1. /\ job[w] \in {"fields", "methods"} /\ class \in Classes /\ cursor[w] \in Nat
      /\ class.fields \in Seq(STRING) /\ class.methods \in Seq(STRING)
      /\ job[w] = "fields" => FieldWalk(w)
      /\ job[w] = "methods" => MethodWalk(w)
  BY ClassAssumption DEF MemberInv, WalkTypes
<1>2. Rising(out[w])
  BY <1>1 DEF FieldWalk, MethodWalk
<1>3. Members(class) \subseteq Nat
  BY <1>1, WalkAssumption, BeforeIs DEF Members
<1>4. { i \in for_each_field(class) : class.fields[i] \notin Garbage } \subseteq Members(class)
  <2>1. CASE class.ffi
    <3>1. class.real \in 0 .. Len(class.fields) /\ \A i \in 1 .. class.real : class.fields[i] # "end"
      BY <1>1, <2>1, ClassAssumption
    <3>2. for_each_field(class) = 1 .. Upto(class.real, MaxFields)
      BY <2>1 DEF for_each_field
    <3>3. ASSUME NEW i \in for_each_field(class) PROVE i \in Before(class.fields, MaxFields)
      BY <1>1, <3>1, <3>2, <3>3, WalkAssumption, BeforeIs DEF Upto
    <3> QED BY <3>3 DEF Members
  <2>2. CASE ~class.ffi
    BY <2>2 DEF for_each_field, Members
  <2> QED BY <2>1, <2>2
<1>5. ASSUME job[w] = "fields"
      PROVE  /\ ~class.ffi => Listed(out[w]) = for_each_field(class)
             /\ class.ffi => { i \in for_each_field(class) : class.fields[i] \notin Garbage } \subseteq Listed(out[w])
             /\ \A n \in {"x", "y"} : static_field(class, n) # 0 => static_field(class, n) \in Listed(out[w])
  <2>1. Listed(out[w]) = Members(class)
    BY <1>1, <1>5 DEF FieldWalk
  <2>2. ~class.ffi => for_each_field(class) = Members(class)
    BY DEF for_each_field, Members
  <2>3. ASSUME NEW n \in {"x", "y"}, static_field(class, n) # 0
        PROVE  static_field(class, n) \in Members(class)
    <3> DEFINE S == { i \in for_each_field(class) : class.fields[i] \notin Garbage /\ Name(class.fields[i]) = n }
    <3>1. static_field(class, n) = First(S)
      BY <2>3 DEF static_field, field_info
    <3>2. S \subseteq Members(class)
      BY <1>4
    <3> HIDE DEF S
    <3>3. S # {}
      BY <2>3, <3>1 DEF First
    <3>4. S \subseteq Nat
      BY <1>3, <3>2
    <3>5. First(S) \in S
      BY <3>3, <3>4, FirstOf DEF First
    <3> QED BY <3>1, <3>2, <3>5
  <2> QED BY <1>4, <2>1, <2>2, <2>3
<1>6. ASSUME job[w] = "methods", NEW i \in Listed(out[w])
      PROVE  find_method(class, class.methods[i]) \in Listed(out[w])
  <2>1. Listed(out[w]) = 1 .. cursor[w] /\ 1 .. cursor[w] \subseteq Before(class.methods, MaxMethods)
    BY <1>1, <1>6 DEF MethodWalk
  <2> DEFINE S == { k \in Before(class.methods, MaxMethods) : class.methods[k] = class.methods[i] }
  <2>2. i \in S /\ i \in 1 .. cursor[w]
    BY <1>6, <2>1
  <2>3. \A k \in S : k \in Nat /\ k >= 1
    BY <1>1, WalkAssumption, BeforeIs
  <2>4. find_method(class, class.methods[i]) = First(S)
    BY DEF find_method
  <2> HIDE DEF S
  <2>5. First(S) \in S /\ First(S) <= i
    BY <2>2, <2>3, FirstOf DEF First
  <2>6. First(S) \in Nat /\ First(S) >= 1 /\ i \in Nat /\ i <= cursor[w]
    <3>1. First(S) \in Nat /\ First(S) >= 1
      BY <2>3, <2>5
    <3>2. i \in Nat /\ i <= cursor[w]
      BY <1>1, <2>2
    <3> QED BY <3>1, <3>2
  <2>7. First(S) \in 1 .. cursor[w]
    BY <1>1, <2>5, <2>6
  <2> QED BY <2>1, <2>4, <2>7
<1> QED BY <1>2, <1>5, <1>6

-----------------------------------------------------------------------------
(* The listings of a runtime.                                              *)

ListInv ==
  /\ part \in {"calls", "members", "instances"}
  /\ part = "calls" => \A w \in Walkers : at[w] = "idle" /\ job[w] = "none"
  /\ part = "members" => MemberInv
  /\ part = "instances" => InstInv

(* No walker has begun.                                                    *)
LEMMA InitWalks == Init => ListInv
<1> SUFFICES ASSUME Init PROVE ListInv
  OBVIOUS
<1>1. /\ part \in {"calls", "members", "instances"}
      /\ part = "members" => class \in Classes
      /\ part = "instances" => heap \in Heaps
      /\ scan_cache = NotScanned /\ cache_lock = NoOne /\ scan_at = 0 /\ hits = <<>>
      /\ at = [w \in Walkers |-> "idle"] /\ job = [w \in Walkers |-> "none"]
      /\ limit = [w \in Walkers |-> 0] /\ cursor = [w \in Walkers |-> 0]
      /\ out = [w \in Walkers |-> <<>>] /\ steady = [w \in Walkers |-> {}] /\ held = [w \in Walkers |-> {}]
  BY DEF Init, WalkInit
<1>2. WalkTypes
  BY <1>1 DEF WalkTypes
<1>3. part = "members" => MemberInv
  BY <1>1, <1>2 DEF MemberInv
<1>4. part = "instances" => ScanInv
  BY <1>1, ClassAssumption DEF ScanInv, Rising
<1>5. part = "instances" => InstInv
  BY <1>1, <1>2, <1>4 DEF InstInv
<1> QED BY <1>1, <1>3, <1>5 DEF ListInv

(* The parts do not touch each other.                                      *)
LEMMA NextWalks == ListInv /\ [Next]_ivars => ListInv'
<1> SUFFICES ASSUME ListInv, [Next]_ivars PROVE ListInv'
  OBVIOUS
<1>1. part' = part
  BY DEF Next, ivars
<1>2. CASE part = "calls"
  <2>1. UNCHANGED <<at, job>>
    BY <1>2 DEF Next, ivars, wvars
  <2> QED BY <1>1, <1>2, <2>1 DEF ListInv
<1>3. CASE part = "members"
  <2>1. [MemberNext]_wvars
    BY <1>3 DEF Next, ivars
  <2> QED BY <1>1, <1>3, <2>1, NextWalk DEF ListInv
<1>4. CASE part = "instances"
  <2>1. [InstanceNext]_wvars
    BY <1>4 DEF Next, ivars
  <2> QED BY <1>1, <1>4, <2>1, NextListing DEF ListInv
<1> QED BY <1>2, <1>3, <1>4 DEF ListInv

(* The part that does nothing with the walkers has nothing to promise.     *)
LEMMA ListSuffices == ListInv => InstancesListed /\ WalksAgree
<1> SUFFICES ASSUME ListInv PROVE InstancesListed /\ WalksAgree
  OBVIOUS
<1>1. CASE part = "calls"
  BY <1>1 DEF ListInv, InstancesListed, WalksAgree
<1>2. CASE part = "members"
  <2>1. MemberInv
    BY <1>2 DEF ListInv
  <2>2. \A w \in Walkers : job[w] # "instances"
    BY <2>1 DEF MemberInv
  <2> QED BY <2>1, <2>2, WalksSuffice DEF InstancesListed
<1>3. CASE part = "instances"
  <2>1. InstInv
    BY <1>3 DEF ListInv
  <2>2. InstancesListed
    BY <2>1, ListingSuffices
  <2>3. \A w \in Walkers : at[w] = "done" => job[w] = "instances"
    BY <2>1 DEF InstInv
  <2> QED BY <2>2, <2>3 DEF InstancesListed, WalksAgree
<1> QED BY <1>1, <1>2, <1>3 DEF ListInv

(* A listing of live instances hands out each address once, within its     *)
(* limit, only what held the class since it began, and all that held it    *)
(* throughout, with any number of threads listing and the game at work.    *)
THEOREM NoInstanceLost == Spec => []InstancesListed
<1>1. ListInv => InstancesListed
  BY ListSuffices
<1> QED BY <1>1, InitWalks, NextWalks, PTL DEF Spec

(* The iterator walk and the callback walk over the members of a class     *)
(* agree, for arrays of any length and content.                            *)
THEOREM MembersAgree == Spec => []WalksAgree
<1>1. ListInv => WalksAgree
  BY ListSuffices
<1> QED BY <1>1, InitWalks, NextWalks, PTL DEF Spec

-----------------------------------------------------------------------------
(* Values in registers.                                                    *)

\* What a type can hold; a float is a double or a float by its register.
ValuesOf(t) ==
  CASE t = "U8" -> 0 .. Narrow - 1
    [] t = "I8" -> -Half .. Half - 1
    [] t \in {"F32", "F64"} -> Int
    [] OTHER -> 0 .. WordSize - 1

(* What is left of a number modulo another.                                *)
LEMMA ModIs ==
  ASSUME NEW n \in Nat, n > 0, NEW q \in Int, NEW r \in Int, 0 <= r, r < n
  PROVE  (q * n + r) % n = r
OBVIOUS

LEMMA ModBelow ==
  ASSUME NEW n \in Nat, n > 0, NEW v \in Int, -n <= v, v < 0
  PROVE  v % n = n + v
OBVIOUS

(* A narrow type has a sign bit, and a word is made of narrow values.      *)
LEMMA Widths ==
  /\ Narrow \in Nat /\ Half \in Nat /\ 2 <= Half /\ Narrow = Half + Half
  /\ WordSize \in Nat /\ Narrow < WordSize
  /\ \E k \in Int : WordSize = k * Narrow
<1>1. Narrow = 2 * (Narrow \div 2) + (Narrow % 2)
  BY WidthAssumption
<1>2. WordSize = Narrow * (WordSize \div Narrow) + (WordSize % Narrow)
  BY WidthAssumption
<1>3. WordSize \div Narrow \in Int /\ Narrow \div 2 \in Int
  BY WidthAssumption
<1>4. WordSize = (WordSize \div Narrow) * Narrow
  BY <1>2, <1>3, WidthAssumption
<1>5. \E k \in Int : WordSize = k * Narrow
  BY <1>3, <1>4
<1> QED BY <1>1, <1>3, <1>5, WidthAssumption DEF Half

(* `as u8` and `as i8` undo what put a value in the low bits.              *)
LEMMA LowBits ==
  ASSUME NEW t \in {"U8", "I8"}, NEW v \in ValuesOf(t), NEW r \in Int, r % Narrow = v % Narrow
  PROVE  FromWord(t, r) = v
<1>1. CASE t = "U8"
  <2>1. v \in 0 .. Narrow - 1
    BY <1>1 DEF ValuesOf
  <2>2. (0 * Narrow + v) % Narrow = v
    BY <2>1, ModIs, Widths
  <2>3. v % Narrow = v
    BY <2>1, <2>2, Widths
  <2> QED BY <1>1, <2>3 DEF FromWord
<1>2. CASE t = "I8" /\ v >= 0
  <2>1. v \in 0 .. Half - 1
    BY <1>2, Widths DEF ValuesOf
  <2>2. (0 * Narrow + v) % Narrow = v
    BY <2>1, ModIs, Widths
  <2>3. v % Narrow = v /\ ~(v >= Half)
    BY <2>1, <2>2, Widths
  <2> QED BY <1>2, <2>3 DEF FromWord
<1>3. CASE t = "I8" /\ v < 0
  <2>1. v \in Int /\ -Half <= v
    BY <1>3, Widths DEF ValuesOf
  <2>2. v % Narrow = Narrow + v
    <3>1. -Narrow <= v /\ v < 0 /\ Narrow > 0
      BY <1>3, <2>1, Widths
    <3> QED BY <2>1, <3>1, ModBelow, Widths
  <2>4. Narrow + v \in Int /\ Narrow + v >= Half /\ Narrow + v - Narrow = v
    BY <2>1, Widths
  <2>5. r % Narrow = Narrow + v
    BY <2>2
  <2>6. FromWord(t, r) = IF r % Narrow >= Half THEN (r % Narrow) - Narrow ELSE r % Narrow
    BY <1>3 DEF FromWord
  <2> QED BY <2>1, <2>4, <2>5, <2>6, Widths
<1>4. t = "I8" => v \in Int
  BY Widths DEF ValuesOf
<1> QED BY <1>1, <1>2, <1>3, <1>4

(* Bits above a narrow value do not matter.                                *)
LEMMA DirtyRead ==
  ASSUME NEW t \in {"U8", "I8"}, NEW v \in ValuesOf(t), NEW d \in {0, 1}
  PROVE  FromWord(t, (v % Narrow) + d * Narrow) = v
<1>1. v \in Int
  BY Widths DEF ValuesOf
<1> DEFINE m == v % Narrow
<1>2. m \in Int /\ 0 <= m /\ m < Narrow
  BY <1>1, Widths
<1> HIDE DEF m
<1>3. (d * Narrow + m) % Narrow = m
  BY <1>2, ModIs, Widths
<1>4. m + d * Narrow \in Int /\ (m + d * Narrow) % Narrow = m
  BY <1>2, <1>3, Widths
<1> QED BY <1>4, LowBits DEF m

(* `as u64` keeps every value of a type that travels in integer registers. *)
LEMMA WordRead ==
  ASSUME NEW t \in Types \ {"F32", "F64"}, NEW v \in ValuesOf(t)
  PROVE  ToWord(v) \in Int /\ FromWord(valtype_from_tc(t), ToWord(v)) = v
<1>1. CASE t \in {"U64", "Ref"}
  <2>1. v \in 0 .. WordSize - 1
    BY <1>1 DEF ValuesOf
  <2>2. (0 * WordSize + v) % WordSize = v
    BY <2>1, ModIs, Widths
  <2>3. v % WordSize = v
    BY <2>1, <2>2, Widths
  <2> QED BY <1>1, <2>1, <2>3 DEF ToWord, FromWord, valtype_from_tc
<1>2. CASE t \in {"U8", "I8"}
  <2>1. v \in Int /\ -WordSize < v /\ v < WordSize
    BY <1>2, Widths DEF ValuesOf
  <2>2. PICK k \in Int : WordSize = k * Narrow
    BY Widths
  <2> DEFINE m == v % Narrow
  <2>3. m \in Int /\ 0 <= m /\ m < Narrow /\ v \div Narrow \in Int /\ v = Narrow * (v \div Narrow) + m
    BY <2>1, Widths
  <2> HIDE DEF m
  <2>4. CASE v >= 0
    <3>1. (0 * WordSize + v) % WordSize = v
      BY <2>1, <2>4, ModIs, Widths
    <3>2. ToWord(v) = v
      BY <3>1, <2>1, Widths DEF ToWord
    <3> QED BY <1>2, <2>1, <3>2, LowBits DEF valtype_from_tc
  <2>5. CASE v < 0
    <3>1. -WordSize <= v /\ WordSize > 0
      BY <2>1, Widths
    <3>3. ToWord(v) = WordSize + v
      BY <2>1, <2>5, <3>1, ModBelow, Widths DEF ToWord
    <3> DEFINE q == k + (v \div Narrow)
    <3>4. q \in Int /\ q * Narrow + m = WordSize + v
      BY <2>2, <2>3, Widths
    <3> HIDE DEF q
    <3>7. m \in Int /\ 0 <= m /\ m < Narrow /\ q \in Int /\ Narrow \in Nat /\ Narrow > 0
      BY <2>3, <3>4, Widths
    <3>5. (q * Narrow + m) % Narrow = m
      BY <3>7, ModIs
    <3>6. ToWord(v) \in Int /\ ToWord(v) % Narrow = v % Narrow
      BY <2>1, <3>3, <3>4, <3>5, Widths DEF m
    <3> QED BY <1>2, <3>6, LowBits DEF valtype_from_tc
  <2> QED BY <2>1, <2>4, <2>5
<1> QED BY <1>1, <1>2 DEF Types

Float == [fmt : {"f32", "f64"}, v : Int]
Regs == 0 .. RegSlots - 1
RegImage == [int : [Regs -> Int], flt : [Regs -> Float], ret_int : Int, ret_float : Float]

(* The edges of a type are values of it, and values are integers.          *)
LEMMA EdgesAreValues ==
  ASSUME NEW t \in Types \cup {"Void"}
  PROVE  Edges(t) \subseteq ValuesOf(t) /\ ValuesOf(t) \subseteq Int
<1>1. CASE t = "U8"
  BY <1>1, Widths DEF Edges, ValuesOf
<1>2. CASE t = "I8"
  BY <1>2, Widths DEF Edges, ValuesOf
<1>3. CASE t \in {"F32", "F64"}
  BY <1>3 DEF Edges, ValuesOf
<1>4. CASE t \in {"U64", "Ref", "Void"}
  BY <1>4, Widths DEF Edges, ValuesOf
<1> QED BY <1>1, <1>2, <1>3, <1>4 DEF Types

LEMMA SigTypes ==
  ASSUME NEW s \in Sigs
  PROVE  /\ s.params \in Seq(Types) /\ s.ret \in Types \cup {"Void"} /\ s.is_static \in BOOLEAN
         /\ Len(s.params) \in Nat /\ Params(s) = 1 .. Len(s.params)
         /\ \A i \in Params(s) : s.params[i] \in Types
<1>1. s \in [params : Seq(Types), ret : Types \cup {"Void"}, is_static : BOOLEAN]
  BY SigAssumption
<1>2. s.params \in Seq(Types) /\ s.ret \in Types \cup {"Void"} /\ s.is_static \in BOOLEAN
  BY <1>1
<1> HIDE DEF Types
<1> QED BY <1>2 DEF Params

(* reg_offset follows the calling convention, and every argument has a     *)
(* place of its own.                                                       *)
LEMMA Places ==
  ASSUME NEW s \in Sigs, NEW i \in Params(s)
  PROVE  /\ i \in Nat /\ Physical(s, i) = AbiSlot(s, i) /\ AbiSlot(s, i) \in Nat
         /\ \A j \in Params(s) : AbiSlot(s, i) = AbiSlot(s, j) => i = j
<1>1. Params(s) = 1 .. Len(s.params) /\ Len(s.params) \in Nat
  BY SigTypes
<1>2. CASE s.is_static
  BY <1>1, <1>2 DEF Physical, AbiSlot
<1>3. CASE ~s.is_static
  BY <1>1, <1>3 DEF Physical, AbiSlot
<1> QED BY <1>2, <1>3

LEMMA NoRegsType == NoRegs \in RegImage
BY DEF NoRegs, RegImage, Regs, Float, Zero, Xmm

(* The image of a call: every argument in its register reads as it was     *)
(* passed.                                                                 *)
LEMMA LoadedReads ==
  ASSUME NEW s \in Sigs, NEW vals, \A i \in Params(s) : vals[i] \in ValuesOf(s.params[i]),
         NEW d \in {0, 1}
  PROVE  LET r == Loaded(s, vals, d)
         IN  /\ r \in RegImage
             /\ \A i \in Params(s) : AbiSlot(s, i) < RegSlots =>
                  Native(s.params[i], r.int[AbiSlot(s, i)], r.flt[AbiSlot(s, i)]) = vals[i]
<1> DEFINE arg(p) == { i \in Params(s) : AbiSlot(s, i) = p }
           type(p) == s.params[CHOOSE i \in arg(p) : TRUE]
           val(p) == vals[CHOOSE i \in arg(p) : TRUE]
           IntAt(p) == IF arg(p) = {} THEN IF p = 0 /\ ~s.is_static THEN This ELSE d
                       ELSE IF type(p) \in {"F32", "F64"} THEN d
                       ELSE IF type(p) \in {"U8", "I8"} THEN (val(p) % Narrow) + d * Narrow ELSE val(p)
           FltAt(p) == IF arg(p) = {} THEN Zero
                       ELSE IF type(p) = "F32" THEN Xmm("f32", val(p))
                       ELSE IF type(p) = "F64" THEN Xmm("f64", val(p)) ELSE Zero
           r == Loaded(s, vals, d)
<1>1. r = [NoRegs EXCEPT !.int = [p \in Regs |-> IntAt(p)], !.flt = [p \in Regs |-> FltAt(p)]]
  BY DEF Loaded, NoRegs, Regs
<1>2. \A p : arg(p) # {} => \E i \in Params(s) : type(p) = s.params[i] /\ val(p) = vals[i]
  OBVIOUS
<1>3. ASSUME NEW i \in Params(s)
      PROVE  /\ arg(AbiSlot(s, i)) = {i}
             /\ type(AbiSlot(s, i)) = s.params[i] /\ val(AbiSlot(s, i)) = vals[i]
  <2>1. arg(AbiSlot(s, i)) = {i}
    BY Places
  <2>2. (CHOOSE j \in {i} : TRUE) = i
    OBVIOUS
  <2> QED BY <2>1, <2>2
<1> HIDE DEF arg, type, val
<1>4. ASSUME NEW p, arg(p) # {}
      PROVE  type(p) \in Types /\ val(p) \in ValuesOf(type(p)) /\ val(p) \in Int
  <2>1. PICK i \in Params(s) : type(p) = s.params[i] /\ val(p) = vals[i]
    BY <1>2, <1>4
  <2> QED BY <2>1, SigTypes, EdgesAreValues
<1>5. ASSUME NEW p \in Regs PROVE IntAt(p) \in Int /\ FltAt(p) \in Float
  <2>1. CASE arg(p) = {}
    BY <2>1 DEF This, Float, Zero, Xmm
  <2>2. CASE arg(p) # {}
    <3>1. val(p) \in Int
      BY <2>2, <1>4
    <3>2. (val(p) % Narrow) + d * Narrow \in Int
      BY <3>1, Widths
    <3> QED BY <2>2, <3>1, <3>2 DEF Float, Zero, Xmm
  <2> QED BY <2>1, <2>2
<1> HIDE DEF IntAt, FltAt, r
<1>6. /\ r.int = [p \in Regs |-> IntAt(p)] /\ r.flt = [p \in Regs |-> FltAt(p)]
      /\ r.ret_int = 0 /\ r.ret_float = Zero /\ r \in RegImage
  <2>1. /\ r.int = [p \in Regs |-> IntAt(p)] /\ r.flt = [p \in Regs |-> FltAt(p)]
        /\ r.ret_int = 0 /\ r.ret_float = Zero
    BY <1>1 DEF NoRegs
  <2>2. r.int \in [Regs -> Int] /\ r.flt \in [Regs -> Float]
    BY <1>5, <2>1
  <2>3. r = [int |-> r.int, flt |-> r.flt, ret_int |-> r.ret_int, ret_float |-> r.ret_float]
    BY <1>1 DEF NoRegs
  <2>4. r.ret_int \in Int /\ r.ret_float \in Float
    BY <2>1 DEF Zero, Xmm, Float
  <2>5. r \in RegImage
    BY <2>2, <2>3, <2>4, Zenon DEF RegImage
  <2> QED BY <2>1, <2>5
<1>7. ASSUME NEW i \in Params(s), AbiSlot(s, i) < RegSlots
      PROVE  Native(s.params[i], r.int[AbiSlot(s, i)], r.flt[AbiSlot(s, i)]) = vals[i]
  <2> DEFINE p == AbiSlot(s, i)
             t == s.params[i]
  <2>0. AbiSlot(s, i) \in Nat
    BY Places
  <2>1. p \in Regs /\ arg(p) # {} /\ type(p) = t /\ val(p) = vals[i]
    <3>1. p \in Regs
      BY <2>0, <1>7, WidthAssumption DEF Regs
    <3>2. arg(p) = {i} /\ type(p) = t /\ val(p) = vals[i]
      BY <1>3, Zenon
    <3> QED BY <3>1, <3>2
  <2>2. t \in Types /\ vals[i] \in ValuesOf(t)
    BY SigTypes
  <2>3. r.int[p] = IntAt(p) /\ r.flt[p] = FltAt(p)
    BY <1>6, <2>1
  <2> HIDE DEF p, t
  <2>4. CASE t = "F32"
    <3>1. r.flt[p] = Xmm("f32", vals[i])
      BY <2>1, <2>3, <2>4 DEF FltAt
    <3> QED BY <2>4, <3>1 DEF Native, LowF32, Xmm, p, t
  <2>5. CASE t = "F64"
    <3>1. r.flt[p] = Xmm("f64", vals[i])
      BY <2>1, <2>3, <2>5 DEF FltAt
    <3> QED BY <2>5, <3>1 DEF Native, AsF64, Xmm, p, t
  <2>6. CASE t \in {"U8", "I8"}
    <3>1. r.int[p] = (vals[i] % Narrow) + d * Narrow
      BY <2>1, <2>3, <2>6 DEF IntAt
    <3>2. FromWord(t, r.int[p]) = vals[i]
      BY <2>2, <2>6, <3>1, DirtyRead
    <3> QED BY <2>6, <3>2 DEF Native, valtype_from_tc, p, t
  <2>7. CASE t \in {"U64", "Ref"}
    <3>1. r.int[p] = vals[i]
      BY <2>1, <2>3, <2>7 DEF IntAt
    <3> QED BY <2>7, <3>1 DEF Native, FromWord, valtype_from_tc, p, t
  <2> QED BY <2>2, <2>4, <2>5, <2>6, <2>7 DEF Types
<1> QED BY <1>6, <1>7 DEF r

(* All arguments before the first bad one fit; it is one itself unless     *)
(* there is none.                                                          *)
LEMMA FirstBadIs ==
  ASSUME NEW s \in Sigs, NEW args
  PROVE  /\ FirstBad(s, args) \in Nat
         /\ \A i \in Params(s) : i < FirstBad(s, args) => Fits(args[i], s.params[i])
         /\ FirstBad(s, args) > Len(s.params) => \A i \in Params(s) : i < FirstBad(s, args)
<1> DEFINE bad == { i \in Params(s) : ~Fits(args[i], s.params[i]) }
<1>1. Params(s) = 1 .. Len(s.params) /\ Len(s.params) \in Nat
  BY SigTypes
<1>2. CASE bad = {}
  <2>1. FirstBad(s, args) = Len(s.params) + 1
    BY <1>2 DEF FirstBad
  <2> QED BY <1>1, <1>2, <2>1
<1>3. CASE bad # {}
  <2>1. FirstBad(s, args) = CHOOSE i \in bad : \A j \in bad : i <= j
    BY <1>3 DEF FirstBad
  <2>2. bad \subseteq Nat
    BY <1>1
  <2> HIDE DEF bad
  <2>3. FirstBad(s, args) \in bad /\ \A j \in bad : FirstBad(s, args) <= j
    BY <1>3, <2>1, <2>2, FirstOf
  <2> USE DEF bad
  <2>4. FirstBad(s, args) \in Params(s) /\ FirstBad(s, args) <= Len(s.params)
    BY <1>1, <2>3
  <2>5. ASSUME NEW i \in Params(s), i < FirstBad(s, args) PROVE Fits(args[i], s.params[i])
    <3>1. i \in Nat /\ FirstBad(s, args) \in Nat
      BY <1>1, <2>4
    <3>2. i \notin bad
      BY <2>3, <2>5, <3>1
    <3> QED BY <3>2
  <2>6. FirstBad(s, args) \in Nat /\ ~(FirstBad(s, args) > Len(s.params))
    BY <1>1, <2>4
  <2> QED BY <2>5, <2>6
<1> QED BY <1>2, <1>3

(* What write_one_arg_to_regs puts into a register.                        *)
LEMMA OneWritten ==
  ASSUME NEW r \in RegImage, NEW p \in Regs, NEW a, a.v \in Int
  PROVE  LET w == write_one_arg(a, p, r)
         IN  w.int[p] \in Int /\ w.flt[p] \in Float
<1>1. r.int \in [Regs -> Int] /\ r.flt \in [Regs -> Float]
  BY DEF RegImage
<1>2. CASE a.vt \in {"F32", "F64"}
  BY <1>1, <1>2 DEF write_one_arg, Float, Xmm, RegImage
<1>3. CASE a.vt \notin {"F32", "F64"}
  <2>1. ToWord(a.v) \in Int
    BY Widths DEF ToWord
  <2> QED BY <1>1, <1>3, <2>1 DEF write_one_arg, RegImage
<1> QED BY <1>2, <1>3

(* An argument that fits its type reads as it was written; a float does    *)
(* not, since it is written as a double.                                   *)
LEMMA WrittenReads ==
  ASSUME NEW r \in RegImage, NEW p \in Regs, NEW a, NEW t \in Types \ {"F32"},
         Fits(a, t), a.v \in ValuesOf(t)
  PROVE  LET w == write_one_arg(a, p, r)
         IN  Native(t, w.int[p], w.flt[p]) = a.v
<1> DEFINE w == write_one_arg(a, p, r)
<1>0. r.int \in [Regs -> Int] /\ r.flt \in [Regs -> Float]
  BY DEF RegImage
<1>1. CASE t = "F64"
  <2>1. a.vt = "F64"
    BY <1>1 DEF Fits, valtype_from_tc
  <2>2. w.flt[p] = Xmm("f64", a.v)
    BY <2>1, <1>0 DEF write_one_arg, RegImage
  <2> QED BY <1>1, <2>2 DEF Native, AsF64, Xmm
<1>2. CASE t # "F64"
  <2>1. t \in Types \ {"F32", "F64"} /\ a.vt \notin {"F32", "F64"}
    BY <1>2 DEF Fits, valtype_from_tc, Types
  <2>2. w.int[p] = ToWord(a.v)
    BY <2>1, <1>0 DEF write_one_arg, RegImage
  <2>3. FromWord(valtype_from_tc(t), ToWord(a.v)) = a.v
    BY <2>1, WordRead
  <2>4. Native(t, w.int[p], w.flt[p]) = FromWord(valtype_from_tc(t), w.int[p])
    BY <2>1 DEF Native
  <2> QED BY <2>2, <2>3, <2>4
<1> QED BY <1>1, <1>2

(* args_to_regargs: arguments before the first bad one are in their        *)
(* registers, the others as they were, and so are the return registers.    *)
LEMMA ArgsWritten ==
  ASSUME NEW s \in Sigs, NEW args, \A i \in Params(s) : args[i].v \in Int, NEW r \in RegImage,
         InRegisters(s)
  PROVE  LET w == args_to_regargs(s, args, r)
         IN  /\ w \in RegImage /\ w.ret_int = r.ret_int /\ w.ret_float = r.ret_float
             /\ \A i \in Params(s) :
                  LET p == AbiSlot(s, i)
                      o == IF i < FirstBad(s, args) THEN write_one_arg(args[i], p, r) ELSE r
                  IN  p \in Regs /\ w.int[p] = o.int[p] /\ w.flt[p] = o.flt[p]
<1> DEFINE Writes(p) == { i \in Params(s) : i < FirstBad(s, args) /\ Physical(s, i) = p }
           Written(p) == IF Writes(p) = {} THEN r
                         ELSE write_one_arg(args[CHOOSE i \in Writes(p) : TRUE], p, r)
           w == args_to_regargs(s, args, r)
<1>1. r.int \in [Regs -> Int] /\ r.flt \in [Regs -> Float] /\ r.ret_int \in Int /\ r.ret_float \in Float
  BY DEF RegImage
<1>2. w = [r EXCEPT !.int = [p \in Regs |-> Written(p).int[p]], !.flt = [p \in Regs |-> Written(p).flt[p]]]
  BY <1>1 DEF args_to_regargs
<1>3. ASSUME NEW p \in Regs PROVE Written(p).int[p] \in Int /\ Written(p).flt[p] \in Float
  <2>1. CASE Writes(p) = {}
    BY <1>1, <2>1
  <2>2. CASE Writes(p) # {}
    <3>1. PICK i \in Params(s) : Written(p) = write_one_arg(args[i], p, r)
      BY <2>2
    <3> HIDE DEF Written
    <3> QED BY <3>1, OneWritten
  <2> QED BY <2>1, <2>2
<1>4. ASSUME NEW i \in Params(s)
      PROVE  Written(AbiSlot(s, i)) = IF i < FirstBad(s, args) THEN write_one_arg(args[i], AbiSlot(s, i), r) ELSE r
  <2> DEFINE p == AbiSlot(s, i)
  <2>1. \A j \in Params(s) : Physical(s, j) = p => j = i
    BY Places
  <2>2. Physical(s, i) = p
    BY Places
  <2>3. Writes(p) = IF i < FirstBad(s, args) THEN {i} ELSE {}
    BY <2>1, <2>2
  <2>4. (CHOOSE j \in {i} : TRUE) = i
    OBVIOUS
  <2> HIDE DEF p, Writes
  <2> QED BY <2>3, <2>4 DEF p
<1>5. \A i \in Params(s) : AbiSlot(s, i) \in Regs
  <2> TAKE i \in Params(s)
  <2>1. AbiSlot(s, i) \in Nat /\ AbiSlot(s, i) = Physical(s, i)
    BY Places
  <2>2. Physical(s, i) < RegSlots
    BY DEF InRegisters
  <2> QED BY <2>1, <2>2, WidthAssumption DEF Regs
<1> HIDE DEF Writes, Written, w
<1>6. /\ w.int = [p \in Regs |-> Written(p).int[p]] /\ w.flt = [p \in Regs |-> Written(p).flt[p]]
      /\ w.ret_int = r.ret_int /\ w.ret_float = r.ret_float
  BY <1>2 DEF RegImage
<1>7. w \in RegImage
  <2>1. w.int \in [Regs -> Int] /\ w.flt \in [Regs -> Float]
    BY <1>3, <1>6
  <2>2. w = [int |-> w.int, flt |-> w.flt, ret_int |-> w.ret_int, ret_float |-> w.ret_float]
    BY <1>2 DEF RegImage
  <2>3. w.ret_int \in Int /\ w.ret_float \in Float
    BY <1>1, <1>6
  <2> QED BY <2>1, <2>2, <2>3, Zenon DEF RegImage
<1>8. ASSUME NEW i \in Params(s)
      PROVE  LET p == AbiSlot(s, i)
                 o == IF i < FirstBad(s, args) THEN write_one_arg(args[i], p, r) ELSE r
             IN  p \in Regs /\ w.int[p] = o.int[p] /\ w.flt[p] = o.flt[p]
  <2> DEFINE p == AbiSlot(s, i)
             o == IF i < FirstBad(s, args) THEN write_one_arg(args[i], p, r) ELSE r
  <2>1. p \in Regs /\ Written(p) = o
    BY <1>4, <1>5
  <2>2. w.int[p] = Written(p).int[p] /\ w.flt[p] = Written(p).flt[p]
    BY <1>6, <2>1
  <2> QED BY <2>1, <2>2
<1> QED BY <1>6, <1>7, <1>8 DEF w

-----------------------------------------------------------------------------
(* Values of calls.                                                        *)

ArgRecord == [kind : {"prim", "null"}, vt : {"U8", "I8", "U64", "F32", "F64", "none"}, v : Int]

\* What the method would find for an argument if it ran now.
InReg(i) == Native(sig.params[i], regs.int[AbiSlot(sig, i)], regs.flt[AbiSlot(sig, i)])
\* What the caller would find if the shim returned now.
InRet == Native(sig.ret, regs.ret_int, regs.ret_float)

CallTypes ==
  /\ sig \in Sigs /\ writes \in Nat /\ rejected \in BOOLEAN /\ called \in BOOLEAN
  /\ pc \in {"idle", "captured", "handler", "leaving", "returned", "invoked"}
  /\ explicit \in HandlerArgs \cup {Absent}
  /\ pc \in {"captured", "handler"} =>
       /\ regs \in RegImage
       /\ accepted \in [Params(sig) -> Int] /\ offered \in [Params(sig) -> SUBSET Int]
  /\ pc = "handler" => InRegisters(sig) /\ cur \in [Params(sig) -> ArgRecord]

\* Before the handler nothing has happened to a call.
FreshInv ==
  /\ pc \in {"idle", "captured"} =>
       /\ heard = Absent /\ got = NotRun /\ explicit = Absent /\ called = FALSE
       /\ writes = 0 /\ rejected = FALSE
  /\ pc = "captured" => \A i \in Params(sig) : accepted[i] \in ValuesOf(sig.params[i])

\* A register holds what was sent or set or, after a refusal, what the
\* handler has passed for it.
ArgInv ==
  pc \in {"captured", "handler"} =>
    \A i \in Params(sig) : AbiSlot(sig, i) < RegSlots =>
      \/ sig.params[i] = "F32" /\ writes > 0
      \/ InReg(i) = accepted[i]
      \/ rejected /\ InReg(i) \in offered[i]

\* The context holds the same, besides what was refused.
CtxInv ==
  pc = "handler" =>
    \A i \in Params(sig) :
      /\ ~rejected => Fits(cur[i], sig.params[i])
      /\ Fits(cur[i], sig.params[i]) =>
           /\ cur[i].v \in ValuesOf(sig.params[i])
           /\ \/ sig.params[i] = "F32"
              \/ cur[i].v = accepted[i]
              \/ rejected /\ cur[i].v \in offered[i]

\* The return registers hold what the caller is to find.
RetInv ==
  /\ pc = "handler" /\ called => InRet = ret
  /\ pc = "leaving" /\ (sig.ret # "F32" \/ explicit = Absent) =>
       InRet = IF explicit = Absent THEN ret
               ELSE IF Fits(explicit, sig.ret) THEN explicit.v ELSE 0

HeardInv == heard.kind = "prim" /\ pc # "invoked" => called

CallInv ==
  /\ CallTypes /\ FreshInv /\ ArgInv /\ CtxInv /\ RetInv /\ HeardInv
  /\ MethodGetsArguments /\ ReturnsArrive

(* A primitive that a script passes is a value of its type.                *)
LEMMA HandlerArgIs ==
  ASSUME NEW a \in HandlerArgs
  PROVE  /\ a \in ArgRecord /\ a # Absent
         /\ \A t \in Types \cup {"Void"} : Fits(a, t) => a.v \in ValuesOf(t)
<1>1. \/ \E vt \in {"U8", "I8", "U64", "F32", "F64"} : a = Prim(vt, 1)
      \/ a = Prim("I8", -1) \/ a = NoPrim("null")
  BY DEF HandlerArgs, Args
<1>2. CASE \E vt \in {"U8", "I8", "U64", "F32", "F64"} : a = Prim(vt, 1)
  <2>1. PICK vt \in {"U8", "I8", "U64", "F32", "F64"} : a = Prim(vt, 1)
    BY <1>2
  <2>2. a \in ArgRecord /\ a # Absent /\ a.v = 1 /\ a.vt = vt
    BY <2>1 DEF ArgRecord, Prim, Absent, NoPrim
  <2>3. \A t \in Types \cup {"Void"} : 1 \in ValuesOf(t)
    BY Widths DEF ValuesOf, Types
  <2> QED BY <2>2, <2>3
<1>3. CASE a = Prim("I8", -1)
  <2>1. a \in ArgRecord /\ a # Absent /\ a.v = -1 /\ a.vt = "I8"
    BY <1>3 DEF ArgRecord, Prim, Absent, NoPrim
  <2>2. -1 \in ValuesOf("I8")
    BY Widths DEF ValuesOf
  <2>3. \A t \in Types \cup {"Void"} : Fits(a, t) => t = "I8"
    BY <2>1 DEF Fits, valtype_from_tc, Types
  <2> QED BY <2>1, <2>2, <2>3
<1>4. CASE a = NoPrim("null")
  <2>1. a \in ArgRecord /\ a # Absent /\ a.kind = "null"
    BY <1>4 DEF ArgRecord, Absent, NoPrim
  <2> QED BY <2>1 DEF Fits
<1> QED BY <1>1, <1>2, <1>3, <1>4

(* The original method leaves its result where its type belongs; both its  *)
(* caller and call_original read it there, a float only its caller.        *)
LEMMA TrampolineReturns ==
  ASSUME sig \in Sigs, sig' = sig, regs \in RegImage, RunTrampoline
  PROVE  /\ regs' \in RegImage /\ regs'.int = regs.int /\ regs'.flt = regs.flt
         /\ InRet' = ret'
         /\ sig.ret # "F32" => ReturnArg(sig, regs') = Prim(valtype_from_tc(sig.ret), ret')
<1> DEFINE t == sig.ret
<1>1. t \in Types \cup {"Void"}
  BY SigTypes
<1>2. PICK v \in Edges(t), d \in {0, 1} :
        /\ ret' = v
        /\ regs' = CASE t \in {"F32", "F64"} ->
                        [regs EXCEPT !.ret_int = d, !.ret_float = Xmm(IF t = "F32" THEN "f32" ELSE "f64", v)]
                     [] t \in {"U8", "I8"} ->
                        [regs EXCEPT !.ret_int = (v % Narrow) + d * Narrow, !.ret_float = Zero]
                     [] OTHER -> [regs EXCEPT !.ret_int = v, !.ret_float = Zero]
  BY DEF RunTrampoline
<1>3. v \in ValuesOf(t) /\ v \in Int
  BY <1>1, EdgesAreValues
<1> HIDE DEF t
<1>4. ASSUME NEW i \in Int, NEW x \in Float, regs' = [regs EXCEPT !.ret_int = i, !.ret_float = x]
      PROVE  /\ regs' \in RegImage /\ regs'.int = regs.int /\ regs'.flt = regs.flt
             /\ regs'.ret_int = i /\ regs'.ret_float = x
  BY <1>4 DEF RegImage
<1>5. CASE t \in {"F32", "F64"}
  <2> DEFINE x == Xmm(IF t = "F32" THEN "f32" ELSE "f64", v)
  <2>0. regs' = [regs EXCEPT !.ret_int = d, !.ret_float = x]
    BY <1>2, <1>5
  <2>1. x \in Float /\ d \in Int
    BY <1>3 DEF Xmm, Float
  <2> HIDE DEF x
  <2>2. /\ regs' \in RegImage /\ regs'.int = regs.int /\ regs'.flt = regs.flt
        /\ regs'.ret_int = d /\ regs'.ret_float = x
    BY <1>4, <2>0, <2>1
  <2>3. Native(t, regs'.ret_int, x) = v /\ (t = "F64" => AsF64(x) = v)
    BY <1>5 DEF Native, LowF32, AsF64, Xmm, x
  <2> QED BY <1>2, <1>5, <2>2, <2>3 DEF InRet, ReturnArg, valtype_from_tc, t
<1>6. CASE t \in {"U8", "I8"}
  <2> DEFINE i == (v % Narrow) + d * Narrow
  <2>1. regs' = [regs EXCEPT !.ret_int = i, !.ret_float = Zero] /\ Zero \in Float /\ i \in Int
    BY <1>2, <1>3, <1>6, Widths DEF Xmm, Float, Zero
  <2>2. FromWord(t, i) = v
    BY <1>3, <1>6, DirtyRead
  <2> HIDE DEF i
  <2>3. /\ regs' \in RegImage /\ regs'.int = regs.int /\ regs'.flt = regs.flt /\ regs'.ret_int = i
    BY <1>4, <2>1
  <2> QED BY <1>2, <1>6, <2>2, <2>3 DEF InRet, Native, ReturnArg, valtype_from_tc, t
<1>7. CASE t \in {"U64", "Ref", "Void"}
  <2>1. regs' = [regs EXCEPT !.ret_int = v, !.ret_float = Zero] /\ Zero \in Float
    BY <1>2, <1>7 DEF Xmm, Float, Zero
  <2>2. /\ regs' \in RegImage /\ regs'.int = regs.int /\ regs'.flt = regs.flt /\ regs'.ret_int = v
    BY <1>3, <1>4, <2>1
  <2> QED BY <1>2, <1>7, <2>2 DEF InRet, Native, FromWord, ReturnArg, valtype_from_tc, t
<1> QED BY <1>1, <1>5, <1>6, <1>7 DEF Types

(* The method finds what is in the registers.                              *)
LEMMA TrampolineFinds ==
  ASSUME CallTypes, ArgInv, pc \in {"captured", "handler"}, RunTrampoline, UNCHANGED <<sig, writes, rejected>>,
         pc' # "invoked"
  PROVE  MethodGetsArguments'
<1> SUFFICES ASSUME NEW i \in Params(sig), AbiSlot(sig, i) < RegSlots
             PROVE  \/ sig.params[i] = "F32" /\ writes > 0
                    \/ got'.vals[i] = got'.want[i]
                    \/ rejected /\ got'.vals[i] \in got'.tried[i]
  BY DEF MethodGetsArguments
<1>1. got' = [vals |-> Found(sig, regs), want |-> accepted, tried |-> offered]
  BY DEF RunTrampoline
<1>2. got'.vals[i] = InReg(i)
  BY <1>1 DEF Found, InReg
<1>3. got'.want[i] = accepted[i] /\ got'.tried[i] = offered[i]
  BY <1>1
<1> QED BY <1>2, <1>3 DEF ArgInv

LEMMA CallKeeps == CallInv /\ Call => CallInv'
<1> SUFFICES ASSUME CallInv, Call PROVE CallInv'
  OBVIOUS
<1>1. /\ pc = "idle" /\ pc' = "captured"
      /\ UNCHANGED <<sig, cur, explicit, called, rejected, writes, originals, got, ret, heard, result>>
  BY DEF Call
<1>2. PICK vals \in [Params(sig) -> UNION { Edges(t) : t \in {sig.params[i] : i \in Params(sig)} }],
           d \in {0, 1} :
        /\ \A i \in Params(sig) : vals[i] \in Edges(sig.params[i])
        /\ accepted' = vals /\ offered' = [i \in Params(sig) |-> {}]
        /\ regs' = Loaded(sig, vals, d)
  BY DEF Call
<1>3. CallTypes /\ FreshInv /\ sig \in Sigs
  BY DEF CallInv, CallTypes
<1>4. \A i \in Params(sig) : vals[i] \in ValuesOf(sig.params[i]) /\ vals[i] \in Int
  BY <1>2, <1>3, SigTypes, EdgesAreValues
<1>5. /\ regs' \in RegImage
      /\ \A i \in Params(sig) : AbiSlot(sig, i) < RegSlots =>
           Native(sig.params[i], regs'.int[AbiSlot(sig, i)], regs'.flt[AbiSlot(sig, i)]) = vals[i]
  BY <1>2, <1>3, <1>4, LoadedReads
<1>6. CallTypes'
  <2>1. accepted' \in [Params(sig) -> Int] /\ offered' \in [Params(sig) -> SUBSET Int]
    BY <1>2, <1>4
  <2> QED BY <1>1, <1>3, <1>5, <2>1 DEF CallTypes
<1>7. FreshInv'
  BY <1>1, <1>2, <1>3, <1>4 DEF FreshInv
<1>8. ArgInv'
  BY <1>1, <1>2, <1>5 DEF ArgInv, InReg
<1>9. CtxInv' /\ RetInv' /\ HeardInv'
  BY <1>1, <1>3 DEF CtxInv, RetInv, HeardInv, FreshInv, Absent, NoPrim
<1>10. MethodGetsArguments' /\ ReturnsArrive'
  BY <1>1, <1>3 DEF MethodGetsArguments, ReturnsArrive, FreshInv, Absent, NoPrim
<1> QED BY <1>6, <1>7, <1>8, <1>9, <1>10 DEF CallInv

LEMMA DispatchKeeps == CallInv /\ Dispatch => CallInv'
<1> SUFFICES ASSUME CallInv, Dispatch PROVE CallInv'
  OBVIOUS
<1>1. /\ pc = "captured"
      /\ UNCHANGED <<sig, sent, explicit, called, accepted, rejected, offered, writes, originals, heard, result>>
  BY DEF Dispatch
<1>2. CallTypes /\ FreshInv /\ ArgInv /\ sig \in Sigs /\ regs \in RegImage
  BY <1>1 DEF CallInv, CallTypes
<1>3. heard = Absent /\ got = NotRun /\ explicit = Absent /\ called = FALSE /\ heard.kind # "prim"
  BY <1>1, <1>2 DEF FreshInv, Absent, NoPrim
<1>4. CASE InRegisters(sig)
  <2>1. cur' = regargs_to_args(sig, regs) /\ pc' = "handler" /\ UNCHANGED <<regs, got, ret>>
    BY <1>4 DEF Dispatch
  <2>2. ASSUME NEW i \in Params(sig)
        PROVE  /\ cur'[i] \in ArgRecord /\ Fits(cur'[i], sig.params[i])
               /\ cur'[i].v \in ValuesOf(sig.params[i])
               /\ sig.params[i] = "F32" \/ cur'[i].v = accepted[i]
    <3> DEFINE t == sig.params[i]
               p == AbiSlot(sig, i)
               vt == valtype_from_tc(t)
    <3>1. t \in Types
      BY <1>2, SigTypes
    <3>2. p \in Regs /\ p = Physical(sig, i) /\ p < RegSlots
      <4>1. p \in Nat /\ p = Physical(sig, i)
        BY <1>2, Places
      <4> QED BY <4>1, <1>4, WidthAssumption DEF InRegisters, Regs
    <3>3. InReg(i) = accepted[i] /\ accepted[i] \in ValuesOf(t)
      BY <1>1, <1>2, <3>2 DEF ArgInv, FreshInv
    <3>4. cur'[i] = Prim(vt, IF vt \in {"F32", "F64"} THEN AsF64(regs.flt[p]) ELSE FromWord(vt, regs.int[p]))
      BY <2>1, <3>2 DEF regargs_to_args, read_one_arg
    <3>5. regs.flt[p] \in Float
      BY <1>2, <3>2 DEF RegImage
    <3>6. AsF64(regs.flt[p]) \in Int
      BY <3>5 DEF AsF64, Float
    <3>7. vt \in {"U8", "I8", "U64", "F32", "F64"}
      BY <3>1 DEF valtype_from_tc, Types
    <3>8. cur'[i].kind = "prim" /\ cur'[i].vt = vt
      BY <3>4 DEF Prim
    <3>9. CASE t = "F32"
      <4>1. cur'[i] = Prim("F32", AsF64(regs.flt[p]))
        BY <3>4, <3>9 DEF valtype_from_tc
      <4> QED BY <3>6, <3>8, <3>9, <4>1 DEF Prim, ArgRecord, Fits, ValuesOf
    <3>10. CASE t # "F32"
      <4>1. InReg(i) = cur'[i].v
        BY <3>1, <3>4, <3>10 DEF InReg, Native, Prim, valtype_from_tc, Types
      <4>2. accepted[i] \in Int
        BY <3>1, <3>3, EdgesAreValues
      <4>3. cur'[i] = Prim(vt, accepted[i])
        BY <3>3, <3>4, <4>1 DEF Prim
      <4> QED BY <3>3, <3>7, <3>8, <4>1, <4>2, <4>3 DEF Prim, ArgRecord, Fits
    <3> QED BY <3>9, <3>10
  <2>3. DOMAIN cur' = Params(sig) /\ cur' = [i \in Params(sig) |-> cur'[i]]
    BY <2>1 DEF regargs_to_args
  <2>4. CallTypes'
    <3>1. cur' \in [Params(sig) -> ArgRecord]
      BY <2>2, <2>3
    <3> QED BY <1>1, <1>2, <1>4, <2>1, <3>1 DEF CallTypes
  <2>5. CtxInv'
    BY <1>1, <2>2 DEF CtxInv
  <2>6. ArgInv'
    BY <1>1, <1>2, <2>1 DEF ArgInv, InReg
  <2>7. FreshInv' /\ RetInv' /\ HeardInv'
    BY <1>1, <1>3, <2>1 DEF FreshInv, RetInv, HeardInv
  <2>8. MethodGetsArguments' /\ ReturnsArrive'
    BY <1>1, <1>3, <2>1 DEF MethodGetsArguments, ReturnsArrive
  <2> QED BY <2>4, <2>5, <2>6, <2>7, <2>8 DEF CallInv
<1>5. CASE ~InRegisters(sig)
  <2>1. RunTrampoline /\ pc' = "leaving"
    BY <1>5 DEF Dispatch
  <2>2. InRet' = ret'
    BY <1>1, <1>2, <2>1, TrampolineReturns
  <2>3. MethodGetsArguments'
    BY <1>1, <1>2, <2>1, TrampolineFinds
  <2>4. CallTypes'
    BY <1>1, <1>2, <2>1 DEF CallTypes
  <2>5. FreshInv' /\ ArgInv' /\ CtxInv' /\ HeardInv' /\ RetInv'
    BY <1>1, <1>3, <2>1, <2>2 DEF FreshInv, ArgInv, CtxInv, HeardInv, RetInv
  <2>6. ReturnsArrive'
    BY <1>1, <1>3, <2>1 DEF ReturnsArrive
  <2> QED BY <2>3, <2>4, <2>5, <2>6 DEF CallInv
<1> QED BY <1>4, <1>5

(* hook_set_arg: when every argument fits, all registers hold their own;   *)
(* when one does not, those before it do and the others keep what they     *)
(* had.                                                                    *)
LEMMA SetArgKeeps ==
  ASSUME CallInv, NEW k \in Params(sig), NEW a \in HandlerArgs, SetArg(k, a)
  PROVE  CallInv'
<1>1. /\ pc = "handler" /\ writes' = writes + 1 /\ cur' = [cur EXCEPT ![k] = a]
      /\ regs' = args_to_regargs(sig, cur', regs)
      /\ offered' = IF Fits(a, sig.params[k]) THEN [offered EXCEPT ![k] = @ \cup {a.v}] ELSE offered
      /\ UNCHANGED <<pc, sig, sent, explicit, called, originals, got, ret, heard, result>>
  BY DEF SetArg
<1>2. /\ CallTypes /\ ArgInv /\ CtxInv /\ RetInv /\ HeardInv /\ MethodGetsArguments /\ ReturnsArrive
      /\ sig \in Sigs /\ regs \in RegImage /\ InRegisters(sig) /\ cur \in [Params(sig) -> ArgRecord]
      /\ accepted \in [Params(sig) -> Int] /\ offered \in [Params(sig) -> SUBSET Int]
      /\ writes \in Nat /\ rejected \in BOOLEAN
  BY <1>1 DEF CallInv, CallTypes
<1>3. a \in ArgRecord /\ (Fits(a, sig.params[k]) => a.v \in ValuesOf(sig.params[k]))
  <2>1. sig.params[k] \in Types \cup {"Void"}
    BY <1>2, SigTypes
  <2> QED BY <2>1, HandlerArgIs
<1>4. /\ cur' \in [Params(sig) -> ArgRecord] /\ cur'[k] = a
      /\ \A i \in Params(sig) : i # k => cur'[i] = cur[i]
  BY <1>1, <1>2, <1>3
<1>5. \A i \in Params(sig) : cur'[i].v \in Int
  BY <1>4 DEF ArgRecord
<1> DEFINE fb == FirstBad(sig, cur')
<1>6. /\ fb \in Nat
      /\ \A i \in Params(sig) : i < fb => Fits(cur'[i], sig.params[i])
      /\ fb > Len(sig.params) => \A i \in Params(sig) : i < fb
  BY <1>2, FirstBadIs
<1>7. /\ regs' \in RegImage /\ regs'.ret_int = regs.ret_int /\ regs'.ret_float = regs.ret_float
      /\ \A i \in Params(sig) :
           LET p == AbiSlot(sig, i)
               o == IF i < fb THEN write_one_arg(cur'[i], p, regs) ELSE regs
           IN  p \in Regs /\ regs'.int[p] = o.int[p] /\ regs'.flt[p] = o.flt[p]
  <2> DEFINE c == cur'
             w == args_to_regargs(sig, c, regs)
  <2>1. regs' = w /\ \A i \in Params(sig) : c[i].v \in Int
    BY <1>1, <1>5
  <2> HIDE DEF c
  <2>2. /\ w \in RegImage /\ w.ret_int = regs.ret_int /\ w.ret_float = regs.ret_float
        /\ \A i \in Params(sig) :
             LET p == AbiSlot(sig, i)
                 o == IF i < FirstBad(sig, c) THEN write_one_arg(c[i], p, regs) ELSE regs
             IN  p \in Regs /\ w.int[p] = o.int[p] /\ w.flt[p] = o.flt[p]
    BY <1>2, <2>1, ArgsWritten, Zenon
  <2> HIDE DEF w
  <2> QED BY <2>1, <2>2, Zenon DEF c
<1>8. /\ offered' \in [Params(sig) -> SUBSET Int]
      /\ \A i \in Params(sig) : offered[i] \subseteq offered'[i]
      /\ Fits(a, sig.params[k]) => a.v \in offered'[k]
  <2>1. a.v \in Int
    BY <1>3 DEF ArgRecord
  <2>2. CASE Fits(a, sig.params[k])
    BY <1>1, <1>2, <2>1, <2>2
  <2>3. CASE ~Fits(a, sig.params[k])
    BY <1>1, <1>2, <2>3
  <2> QED BY <2>2, <2>3
<1>9. /\ accepted' \in [Params(sig) -> Int] /\ rejected' \in BOOLEAN
      /\ \A i \in Params(sig) : i # k => accepted'[i] = accepted[i]
      /\ fb > Len(sig.params) => accepted'[k] = a.v /\ rejected' = rejected
      /\ ~(fb > Len(sig.params)) => accepted' = accepted /\ rejected' = TRUE
  <2>1. a.v \in Int
    BY <1>3 DEF ArgRecord
  <2>2. IF fb > Len(sig.params)
        THEN accepted' = [accepted EXCEPT ![k] = a.v] /\ rejected' = rejected
        ELSE rejected' = TRUE /\ accepted' = accepted
    BY DEF SetArg
  <2> HIDE DEF fb
  <2>3. CASE fb > Len(sig.params)
    BY <1>2, <2>1, <2>2, <2>3
  <2>4. CASE ~(fb > Len(sig.params))
    BY <1>2, <2>2, <2>4
  <2> QED BY <2>3, <2>4
<1>10. rejected => rejected'
  BY <1>2, <1>9
<1> HIDE DEF fb
<1>11. CallTypes'
  <2>1. writes' \in Nat
    BY <1>1, <1>2
  <2> QED BY <1>1, <1>2, <1>4, <1>7, <1>8, <1>9, <2>1 DEF CallTypes
\* What the context holds for an argument that fits.
<1>12. ASSUME NEW i \in Params(sig), Fits(cur'[i], sig.params[i])
       PROVE  /\ cur'[i].v \in ValuesOf(sig.params[i])
              /\ \/ sig.params[i] = "F32" \/ cur'[i].v = accepted'[i]
                 \/ rejected' /\ cur'[i].v \in offered'[i]
  <2>1. CASE i = k
    <3>1. cur'[i] = a /\ a.v \in ValuesOf(sig.params[i]) /\ a.v \in offered'[i]
      BY <1>3, <1>4, <1>8, <1>12, <2>1
    <3> QED BY <1>9, <2>1, <3>1
  <2>2. CASE i # k
    <3>1. cur'[i] = cur[i] /\ accepted'[i] = accepted[i]
      BY <1>4, <1>9, <2>2
    <3>2. /\ cur[i].v \in ValuesOf(sig.params[i])
          /\ \/ sig.params[i] = "F32" \/ cur[i].v = accepted[i]
             \/ rejected /\ cur[i].v \in offered[i]
      BY <1>1, <1>2, <1>12, <3>1 DEF CtxInv
    <3> QED BY <1>8, <1>10, <3>1, <3>2
  <2> QED BY <2>1, <2>2
<1>13. CtxInv'
  <2>1. ASSUME NEW i \in Params(sig), ~rejected' PROVE Fits(cur'[i], sig.params[i])
    <3>1. fb > Len(sig.params)
      BY <1>9, <2>1
    <3> QED BY <1>6, <3>1
  <2> QED BY <1>1, <1>12, <2>1 DEF CtxInv
<1>14. ArgInv'
  <2> SUFFICES ASSUME NEW i \in Params(sig), AbiSlot(sig, i) < RegSlots
               PROVE  \/ sig.params[i] = "F32" /\ writes' > 0
                      \/ InReg(i)' = accepted'[i]
                      \/ rejected' /\ InReg(i)' \in offered'[i]
    BY <1>1 DEF ArgInv
  <2> DEFINE p == AbiSlot(sig, i)
             t == sig.params[i]
  <2>1. p \in Regs /\ t \in Types
    BY <1>2, <1>7, SigTypes
  <2>2. InReg(i)' = Native(t, regs'.int[p], regs'.flt[p])
    BY <1>1 DEF InReg
  <2>3. writes' > 0
    BY <1>1, <1>2
  <2>4. CASE i < fb /\ t # "F32"
    <3>1. Fits(cur'[i], t) /\ cur'[i].v \in ValuesOf(t)
      BY <1>6, <1>12, <2>4
    <3> DEFINE w == write_one_arg(cur'[i], p, regs)
    <3>2. Native(t, w.int[p], w.flt[p]) = cur'[i].v
      BY <1>2, <2>1, <2>4, <3>1, WrittenReads
    <3>3. regs'.int[p] = w.int[p] /\ regs'.flt[p] = w.flt[p]
      BY <1>7, <2>4
    <3>4. InReg(i)' = cur'[i].v
      BY <2>2, <3>2, <3>3
    <3> QED BY <1>12, <2>4, <3>1, <3>4
  <2>5. CASE ~(i < fb) /\ t # "F32"
    <3>1. regs'.int[p] = regs.int[p] /\ regs'.flt[p] = regs.flt[p]
      BY <1>7, <2>5
    <3>2. InReg(i)' = InReg(i)
      BY <2>2, <3>1 DEF InReg
    <3>3. accepted' = accepted /\ rejected' = TRUE
      BY <1>6, <1>9, <2>5
    <3>4. InReg(i) = accepted[i] \/ (rejected /\ InReg(i) \in offered[i])
      BY <1>1, <1>2, <2>5 DEF ArgInv
    <3> QED BY <1>8, <3>2, <3>3, <3>4
  <2> QED BY <2>3, <2>4, <2>5
<1>15. RetInv' /\ HeardInv' /\ FreshInv'
  BY <1>1, <1>2, <1>7 DEF RetInv, HeardInv, FreshInv, InRet
<1>16. MethodGetsArguments'
  <2>1. writes > 0 => writes' > 0
    BY <1>1, <1>2
  <2> QED BY <1>1, <1>2, <1>10, <2>1 DEF MethodGetsArguments
<1>17. ReturnsArrive'
  BY <1>1, <1>2 DEF ReturnsArrive
<1> QED BY <1>11, <1>13, <1>14, <1>15, <1>16, <1>17 DEF CallInv

LEMMA CallOriginalKeeps == CallInv /\ CallOriginal => CallInv'
<1> SUFFICES ASSUME CallInv, CallOriginal PROVE CallInv'
  OBVIOUS
<1>1. /\ pc = "handler" /\ called' = TRUE /\ RunTrampoline /\ heard' = ReturnArg(sig, regs')
      /\ UNCHANGED <<pc, sig, sent, cur, explicit, accepted, rejected, offered, writes, result>>
  BY DEF CallOriginal
<1>2. CallTypes /\ ArgInv /\ CtxInv /\ sig \in Sigs /\ regs \in RegImage
  BY <1>1 DEF CallInv, CallTypes
<1>3. /\ regs' \in RegImage /\ regs'.int = regs.int /\ regs'.flt = regs.flt /\ InRet' = ret'
      /\ sig.ret # "F32" => heard' = Prim(valtype_from_tc(sig.ret), ret')
  BY <1>1, <1>2, TrampolineReturns
<1>4. MethodGetsArguments'
  BY <1>1, <1>2, TrampolineFinds
<1>5. CallTypes'
  BY <1>1, <1>2, <1>3 DEF CallTypes
<1>6. ArgInv' /\ CtxInv'
  BY <1>1, <1>2, <1>3 DEF ArgInv, CtxInv, InReg
<1>7. FreshInv' /\ RetInv' /\ HeardInv'
  BY <1>1, <1>3 DEF FreshInv, RetInv, HeardInv
<1>8. ReturnsArrive'
  BY <1>1, <1>3 DEF ReturnsArrive
<1> QED BY <1>4, <1>5, <1>6, <1>7, <1>8 DEF CallInv

LEMMA SetReturnKeeps ==
  ASSUME CallInv, NEW a \in HandlerArgs, SetReturn(a)
  PROVE  CallInv'
<1>1. /\ pc = "handler" /\ explicit' = a
      /\ UNCHANGED <<pc, sig, sent, regs, cur, called, accepted, rejected, offered, writes, originals,
                     got, ret, heard, result>>
  BY DEF SetReturn
<1>2. CallTypes' /\ ArgInv' /\ CtxInv'
  BY <1>1 DEF CallInv, CallTypes, ArgInv, CtxInv, InReg
<1>3. FreshInv' /\ RetInv' /\ HeardInv'
  BY <1>1 DEF CallInv, FreshInv, RetInv, HeardInv, InRet
<1>4. MethodGetsArguments' /\ ReturnsArrive'
  BY <1>1 DEF CallInv, MethodGetsArguments, ReturnsArrive
<1> QED BY <1>2, <1>3, <1>4 DEF CallInv

(* pack_return_into_regargs: what fits is read back, what does not is      *)
(* zero; a float is read back as something else.                           *)
LEMMA Packed ==
  ASSUME NEW s \in Sigs, NEW a \in HandlerArgs, NEW r \in RegImage, s.ret # "F32"
  PROVE  LET w == pack_return(s, a, r)
         IN  Native(s.ret, w.ret_int, w.ret_float) = IF Fits(a, s.ret) THEN a.v ELSE 0
<1> DEFINE t == s.ret
           w == pack_return(s, a, r)
<1>1. t \in Types \cup {"Void"} /\ t # "F32"
  BY SigTypes
<1>2. CASE ~Fits(a, t)
  <2>1. w.ret_int = 0 /\ w.ret_float = Zero
    BY <1>2 DEF pack_return, RegImage
  <2>2. FromWord(valtype_from_tc(t), 0) = 0
    <3>1. 0 % Narrow = 0 /\ ~(0 >= Half)
      BY Widths
    <3> QED BY <3>1 DEF FromWord
  <2>3. AsF64(Zero) = 0
    BY DEF AsF64, Zero, Xmm
  <2>4. Native(t, 0, Zero) = 0
    BY <1>1, <2>2, <2>3 DEF Native
  <2> QED BY <1>2, <2>1, <2>4
<1>3. CASE Fits(a, t) /\ t = "F64"
  <2>1. a.vt = "F64"
    BY <1>3 DEF Fits, valtype_from_tc
  <2>2. w.ret_float = Xmm("f64", a.v)
    BY <1>3, <2>1 DEF pack_return, RegImage
  <2> QED BY <1>3, <2>2 DEF Native, AsF64, Xmm
<1>4. CASE Fits(a, t) /\ t # "F64"
  <2>1. a.vt \notin {"F32", "F64"}
    BY <1>1, <1>4 DEF Fits, valtype_from_tc
  <2>2. w.ret_int = ToWord(a.v)
    BY <1>4, <2>1 DEF pack_return, RegImage
  <2>3. a.v \in ValuesOf(t)
    BY <1>1, <1>4, HandlerArgIs
  <2>4. FromWord(valtype_from_tc(t), ToWord(a.v)) = a.v
    <3>1. CASE t = "Void"
      <4>1. "Ref" \in Types \ {"F32", "F64"} /\ ValuesOf("Ref") = ValuesOf("Void")
        BY DEF Types, ValuesOf
      <4>2. FromWord(valtype_from_tc("Ref"), ToWord(a.v)) = a.v
        BY <2>3, <3>1, <4>1, WordRead
      <4> QED BY <3>1, <4>2 DEF valtype_from_tc
    <3>2. CASE t # "Void"
      BY <1>1, <1>4, <2>3, <3>2, WordRead
    <3> QED BY <3>1, <3>2
  <2>5. Native(t, w.ret_int, w.ret_float) = FromWord(valtype_from_tc(t), w.ret_int)
    BY <1>1, <1>4 DEF Native
  <2> QED BY <1>4, <2>2, <2>4, <2>5
<1> QED BY <1>2, <1>3, <1>4

LEMMA HandlerEndsKeeps == CallInv /\ HandlerEnds => CallInv'
<1> SUFFICES ASSUME CallInv, HandlerEnds PROVE CallInv'
  OBVIOUS
<1>1. /\ pc = "handler" /\ pc' = "leaving"
      /\ UNCHANGED <<sig, sent, cur, explicit, called, accepted, rejected, offered, writes, originals,
                     heard, result>>
  BY DEF HandlerEnds
<1>2. /\ CallTypes /\ ArgInv /\ RetInv /\ HeardInv /\ MethodGetsArguments /\ ReturnsArrive
      /\ sig \in Sigs /\ regs \in RegImage /\ called \in BOOLEAN /\ explicit \in HandlerArgs \cup {Absent}
  BY <1>1 DEF CallInv, CallTypes
<1>3. CallTypes' /\ FreshInv' /\ ArgInv' /\ CtxInv' /\ HeardInv'
  BY <1>1, <1>2 DEF CallTypes, FreshInv, ArgInv, CtxInv, HeardInv
<1>4. CASE explicit # Absent
  <2>1. regs' = pack_return(sig, explicit, regs) /\ UNCHANGED <<got, ret>>
    BY <1>4 DEF HandlerEnds
  <2>2. sig.ret # "F32" => InRet' = IF Fits(explicit, sig.ret) THEN explicit.v ELSE 0
    BY <1>1, <1>2, <1>4, <2>1, Packed DEF InRet
  <2>3. RetInv'
    BY <1>1, <1>4, <2>2 DEF RetInv
  <2>4. MethodGetsArguments' /\ ReturnsArrive'
    BY <1>1, <1>2, <2>1 DEF MethodGetsArguments, ReturnsArrive
  <2> QED BY <1>3, <2>3, <2>4 DEF CallInv
<1>5. CASE explicit = Absent /\ ~called
  <2>1. RunTrampoline
    BY <1>5 DEF HandlerEnds
  <2>2. InRet' = ret'
    BY <1>1, <1>2, <2>1, TrampolineReturns
  <2>3. RetInv'
    BY <1>1, <1>5, <2>2 DEF RetInv
  <2>4. MethodGetsArguments'
    BY <1>1, <1>2, <2>1, TrampolineFinds
  <2>5. ReturnsArrive'
    BY <1>1, <1>2, <1>5 DEF ReturnsArrive, HeardInv
  <2> QED BY <1>3, <2>3, <2>4, <2>5 DEF CallInv
<1>6. CASE explicit = Absent /\ called
  <2>1. UNCHANGED <<regs, got, ret>>
    BY <1>6 DEF HandlerEnds
  <2>2. RetInv'
    BY <1>1, <1>2, <1>6, <2>1 DEF RetInv, InRet
  <2>3. MethodGetsArguments' /\ ReturnsArrive'
    BY <1>1, <1>2, <2>1 DEF MethodGetsArguments, ReturnsArrive
  <2> QED BY <1>3, <2>2, <2>3 DEF CallInv
<1> QED BY <1>2, <1>4, <1>5, <1>6

LEMMA ShimReturnsKeeps == CallInv /\ ShimReturns => CallInv'
<1> SUFFICES ASSUME CallInv, ShimReturns PROVE CallInv'
  OBVIOUS
<1>1. /\ pc = "leaving" /\ pc' = "returned" /\ result' = InRet
      /\ UNCHANGED <<sig, sent, regs, cur, explicit, called, accepted, rejected, offered, writes,
                     originals, got, ret, heard>>
  BY DEF ShimReturns, InRet
<1>2. CallTypes' /\ FreshInv' /\ ArgInv' /\ CtxInv' /\ RetInv' /\ HeardInv'
  BY <1>1 DEF CallInv, CallTypes, FreshInv, ArgInv, CtxInv, RetInv, HeardInv
<1>3. MethodGetsArguments'
  BY <1>1 DEF CallInv, MethodGetsArguments
<1>4. ReturnsArrive'
  BY <1>1 DEF CallInv, ReturnsArrive, RetInv
<1> QED BY <1>2, <1>3, <1>4 DEF CallInv

LEMMA OverKeeps == CallInv /\ Over => CallInv'
<1> SUFFICES ASSUME CallInv, Over PROVE CallInv'
  OBVIOUS
<1>1. /\ pc' = "idle" /\ explicit' = Absent /\ called' = FALSE /\ rejected' = FALSE /\ writes' = 0
      /\ got' = NotRun /\ heard' = Absent /\ sig' = sig
  BY DEF Over
<1>2. CallTypes' /\ FreshInv' /\ ArgInv' /\ CtxInv' /\ RetInv' /\ HeardInv'
  BY <1>1 DEF CallInv, CallTypes, FreshInv, ArgInv, CtxInv, RetInv, HeardInv, Absent, NoPrim
<1>3. MethodGetsArguments' /\ ReturnsArrive'
  BY <1>1 DEF MethodGetsArguments, ReturnsArrive, Absent, NoPrim
<1> QED BY <1>2, <1>3 DEF CallInv

(* invoke_method: the method runs only with as many arguments as it has,   *)
(* and what is of its type arrives.                                        *)
LEMMA InvokeKeeps ==
  ASSUME CallInv, NEW n \in Nat, NEW args \in [1 .. n -> Args], NEW instance \in BOOLEAN,
         NEW string_new \in BOOLEAN, invoke_method(args, instance, string_new)
  PROVE  CallInv'
<1>1. /\ pc = "idle" /\ pc' = "invoked"
      /\ UNCHANGED <<sig, sent, regs, cur, explicit, called, accepted, rejected, offered, writes,
                     originals, result>>
  BY DEF invoke_method
<1>2. CallTypes' /\ FreshInv' /\ ArgInv' /\ CtxInv' /\ RetInv' /\ HeardInv'
  BY <1>1 DEF CallInv, CallTypes, FreshInv, ArgInv, CtxInv, RetInv, HeardInv
<1>3. sig \in Sigs
  BY DEF CallInv, CallTypes
<1>4. CASE ~Admitted(sig, args, instance, string_new)
  <2>1. got' = NotRun /\ heard' = Refused
    BY <1>4 DEF invoke_method
  <2>2. MethodGetsArguments' /\ ReturnsArrive'
    BY <1>1, <2>1 DEF MethodGetsArguments, ReturnsArrive, Refused, NoPrim
  <2> QED BY <1>2, <2>2 DEF CallInv
<1>5. CASE Admitted(sig, args, instance, string_new)
  <2>1. got' = [vals |-> [i \in Params(sig) |->
                           IF i \in DOMAIN args THEN Unpacked(sig.params[i], args[i]) ELSE Junk],
                want |-> args, tried |-> <<>>]
    BY <1>5 DEF invoke_method
  <2>2. PICK v \in Edges(sig.ret) : ret' = v /\ heard' \in {unpack_return(sig.ret, v), Refused}
    BY <1>5 DEF invoke_method
  <2>3. Params(sig) = 1 .. n
    <3>1. Len(args) = n /\ Len(args) = Len(sig.params)
      BY <1>5 DEF Admitted
    <3> QED BY <3>1 DEF Params
  <2>4. MethodGetsArguments'
    <3> SUFFICES ASSUME NEW i \in Params(sig)
                 PROVE  /\ i \in DOMAIN got'.want
                        /\ sig.params[i] # "Ref" /\ Fits(got'.want[i], sig.params[i])
                             => got'.vals[i] = got'.want[i].v
      BY <1>1 DEF MethodGetsArguments
    <3>1. i \in DOMAIN args
      BY <2>3
    <3>2. got'.want = args /\ got'.vals[i] = Unpacked(sig.params[i], args[i])
      BY <2>1, <3>1
    <3> QED BY <3>1, <3>2 DEF Unpacked
  <2>5. ReturnsArrive'
    <3>1. heard' = Refused \/ heard' = unpack_return(sig.ret, v)
      BY <2>2
    <3>2. CASE heard' = Refused
      BY <1>1, <3>2 DEF ReturnsArrive, Refused, NoPrim
    <3>3. CASE heard' = unpack_return(sig.ret, v)
      <4>1. CASE sig.ret = "Void" \/ (sig.ret = "Ref" /\ v = 0)
        <5>1. heard' = NoPrim("null")
          BY <3>3, <4>1 DEF unpack_return
        <5> QED BY <1>1, <2>2, <4>1, <5>1 DEF ReturnsArrive, NoPrim
      <4>2. CASE sig.ret = "Ref" /\ v # 0
        <5>1. heard' = Prim("U64", KlassWord)
          BY <3>3, <4>2 DEF unpack_return
        <5> QED BY <1>1, <2>2, <4>2, <5>1 DEF ReturnsArrive, Prim
      <4>3. CASE sig.ret \notin {"Void", "Ref"}
        <5>1. heard' = Prim(valtype_from_tc(sig.ret), v)
          BY <3>3, <4>3 DEF unpack_return
        <5> QED BY <1>1, <2>2, <4>3, <5>1 DEF ReturnsArrive, Prim
      <4> QED BY <4>1, <4>2, <4>3
    <3> QED BY <3>1, <3>2, <3>3
  <2> QED BY <1>2, <2>4, <2>5 DEF CallInv
<1> QED BY <1>4, <1>5

LEMMA NextCalls == CallInv /\ [MarshalNext]_mvars => CallInv'
<1> SUFFICES ASSUME CallInv, [MarshalNext]_mvars PROVE CallInv'
  OBVIOUS
<1>1. CASE Call
  BY <1>1, CallKeeps
<1>2. CASE Dispatch
  BY <1>2, DispatchKeeps
<1>3. CASE SetArgs
  BY <1>3, SetArgKeeps DEF SetArgs
<1>4. CASE CallOriginal
  BY <1>4, CallOriginalKeeps
<1>5. CASE SetReturns
  BY <1>5, SetReturnKeeps DEF SetReturns
<1>6. CASE HandlerEnds
  BY <1>6, HandlerEndsKeeps
<1>7. CASE ShimReturns
  BY <1>7, ShimReturnsKeeps
<1>8. CASE Invoke
  <2>1. PICK n \in {Len(sig.params), Len(sig.params) - 1} \cap Nat, instance, string_new \in BOOLEAN :
          \E args \in [1 .. n -> Args] : invoke_method(args, instance, string_new)
    BY <1>8 DEF Invoke
  <2> QED BY <2>1, InvokeKeeps
<1>9. CASE Over
  BY <1>9, OverKeeps
<1>10. CASE UNCHANGED mvars
  BY <1>10 DEF mvars, CallInv, CallTypes, FreshInv, ArgInv, CtxInv, RetInv, HeardInv, InReg, InRet,
               MethodGetsArguments, ReturnsArrive
<1> QED BY <1>1, <1>2, <1>3, <1>4, <1>5, <1>6, <1>7, <1>8, <1>9, <1>10 DEF MarshalNext

LEMMA InitCalls == Init => CallInv
<1> SUFFICES ASSUME Init PROVE CallInv
  OBVIOUS
<1>1. \E S \in SUBSET Sigs : MarshalInit(S)
  <2>1. AnyOf(Sigs) \subseteq Sigs
    BY SigAssumption DEF AnyOf
  <2> QED BY <2>1 DEF Init
<1>2. /\ sig \in Sigs /\ pc = "idle" /\ explicit = Absent /\ called = FALSE /\ rejected = FALSE
      /\ writes = 0 /\ got = NotRun /\ heard = Absent
  BY <1>1 DEF MarshalInit
<1>3. CallTypes /\ FreshInv /\ ArgInv /\ CtxInv /\ RetInv /\ HeardInv
  BY <1>2 DEF CallTypes, FreshInv, ArgInv, CtxInv, RetInv, HeardInv, Absent, NoPrim
<1>4. MethodGetsArguments /\ ReturnsArrive
  BY <1>2 DEF MethodGetsArguments, ReturnsArrive, Absent, NoPrim
<1> QED BY <1>3, <1>4 DEF CallInv

LEMMA StepCalls == CallInv /\ [Next]_ivars => CallInv'
<1> SUFFICES ASSUME CallInv, [Next]_ivars PROVE CallInv'
  OBVIOUS
<1>1. [MarshalNext]_mvars
  BY DEF Next, ivars
<1> QED BY <1>1, NextCalls

(* Whoever runs the original of a hooked method, it finds in its registers *)
(* what its caller sent or the handler last set, or after a refused write  *)
(* one of the values the handler has passed; so do methods that a script   *)
(* invokes. For any signatures, register file and widths.                  *)
THEOREM ArgumentsArrive == Spec => []MethodGetsArguments
<1>1. CallInv => MethodGetsArguments
  BY DEF CallInv
<1> QED BY <1>1, InitCalls, StepCalls, PTL DEF Spec

(* What a method returns, or the handler sets in its place, is what the    *)
(* caller finds and the script hears, 32-bit floats through the handler    *)
(* and invoked references left out.                                        *)
THEOREM ReturnsAreHeard == Spec => []ReturnsArrive
<1>1. CallInv => ReturnsArrive
  BY DEF CallInv
<1> QED BY <1>1, InitCalls, StepCalls, PTL DEF Spec

=============================================================================
