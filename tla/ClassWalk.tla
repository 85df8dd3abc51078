------------------------------ MODULE ClassWalk ------------------------------
(***************************************************************************)
(* What a script learns about classes: the walks over the field and method *)
(* arrays of a class, by callback and by iterator, and the search for live *)
(* instances, which scans memory once per class and validates each hit     *)
(* when it is handed out, while the game allocates and frees.              *)
(*                                                                         *)
(* A slot of the field array is "end" (no name pointer), one of the kinds  *)
(* of garbage that the walks skip, or a field: "x", "y", or "xs", a static *)
(* field named x.  An entry of the method array is "end" (null or of       *)
(* another class), "unnamed", or a method "m" or "n", a name with a number *)
(* of parameters.  The class has a block of static fields.                 *)
(***************************************************************************)
EXTENDS Integers, Sequences, FiniteSets

CONSTANTS
    Classes,        \* [fields, ffi, real, methods]: arrays of a class, whether
                    \* class_get_fields exists and how many fields it gives
    MaxFields,      \* MAX_FIELDS_PER_CLASS, 256
    MaxMethods,     \* MAX_METHODS_PER_CLASS, 4096
    Cells,          \* addresses where an instance may begin, 1 .. n
    Unaligned,      \* those that are not multiples of eight
    Walkers,        \* threads that list
    Limits,         \* out_cap_count of host_list_instances
    MaxHits         \* SCAN_MAX_INSTANCES

ASSUME WalkAssumption ==
    /\ Cells = 1 .. Cardinality(Cells)
    /\ Unaligned \subseteq Cells /\ Limits \subseteq Nat
    /\ MaxFields \in Nat /\ MaxMethods \in Nat /\ MaxHits \in Nat

Garbage == {"unnamed", "no token", "no type", "bad type"}
Name(slot) == IF slot = "xs" THEN "x" ELSE slot
Static(slot) == slot = "xs"
NotScanned == <<-1>>
NoOne == "no one"

\* class_get_fields gives entries of the array in front of its end.
ASSUME ClassAssumption ==
    /\ \A c \in Classes :
        /\ c.fields \in Seq(STRING) /\ c.methods \in Seq(STRING)
        /\ c.ffi => c.real \in 0 .. Len(c.fields) /\ \A i \in 1 .. c.real : c.fields[i] # "end"
    /\ NoOne \notin Walkers
-----------------------------------------------------------------------------
\* ---- walks over the arrays of a class

Upto(n, m) == IF n <= m THEN n ELSE m

\* The slots before the end of an array, at most max of them.
Before(array, max) ==
    { i \in 1 .. Upto(Len(array), max) : \A j \in 1 .. i : array[j] # "end" }

\* Mutant: an unnamed slot ends the iteration.
fields_at_Stops(c, cursor) ==
    LET found == { i \in Before(c.fields, MaxFields) :
                     /\ i > cursor /\ c.fields[i] \notin Garbage
                     /\ \A j \in cursor + 1 .. i : c.fields[j] # "unnamed" }
    IN  IF found = {} THEN 0 ELSE CHOOSE i \in found : \A j \in found : i <= j

\* fields_at: the next slot behind the cursor that is a field, 0 if there is
\* none; it is also the next cursor.
fields_at(c, cursor) ==
    LET found == { i \in Before(c.fields, MaxFields) : i > cursor /\ c.fields[i] \notin Garbage }
    IN  IF found = {} THEN 0 ELSE CHOOSE i \in found : \A j \in found : i <= j

\* methods_at: the array is dense.
methods_at(c, cursor) == IF cursor + 1 \in Before(c.methods, cursor + 1) THEN cursor + 1 ELSE 0

\* for_each_field visits what class_get_fields gives, or walks the array.
for_each_field(c) ==
    IF c.ffi THEN 1 .. Upto(c.real, MaxFields)
    ELSE { i \in Before(c.fields, MaxFields) : c.fields[i] \notin Garbage }

First(S) == IF S = {} THEN 0 ELSE CHOOSE i \in S : \A j \in S : i <= j

\* field_info: the first field of the name.
field_info(c, name) ==
    First({ i \in for_each_field(c) : c.fields[i] \notin Garbage /\ Name(c.fields[i]) = name })

\* static_field ends at the first field of the name, static or not.
static_field(c, name) ==
    LET i == field_info(c, name) IN IF i # 0 /\ Static(c.fields[i]) THEN i ELSE 0

\* find_method skips the unnamed.
find_method(c, name) == First({ i \in Before(c.methods, MaxMethods) : c.methods[i] = name })
-----------------------------------------------------------------------------
VARIABLES
    class,          \* the arrays of the class
    heap,           \* word of each cell: "klass" (the class asked for), or "other": any
                    \* other word, and none (memory that is not there)
    scan_cache,     \* SCAN_CACHE of the class
    cache_lock, scan_at, hits,  \* its lock, and a scan in progress
    at,             \* where each walker is
    job,            \* what it lists
    limit, cursor, out,
    steady, held    \* history: cells that have held the class ever since a walker
                    \* began, and at some time since

wvars == <<class, heap, scan_cache, cache_lock, scan_at, hits, at, job, limit, cursor, out, steady, held>>
scanning == <<scan_cache, cache_lock, scan_at, hits>>

Heaps == [Cells -> {"klass", "other"}]

WalkInit(classes, heaps) ==
    /\ class \in classes /\ heap \in heaps
    /\ scan_cache = NotScanned /\ cache_lock = NoOne /\ scan_at = 0 /\ hits = <<>>
    /\ at = [w \in Walkers |-> "idle"] /\ job = [w \in Walkers |-> "none"]
    /\ limit = [w \in Walkers |-> 0] /\ cursor = [w \in Walkers |-> 0]
    /\ out = [w \in Walkers |-> <<>>] /\ steady = [w \in Walkers |-> {}] /\ held = [w \in Walkers |-> {}]
-----------------------------------------------------------------------------
\* KlassPtr::iter: a fresh iterator.
Start(w, j, n) ==
    /\ at[w] = "idle"
    /\ at' = [at EXCEPT ![w] = "next"]
    /\ job' = [job EXCEPT ![w] = j]
    /\ limit' = [limit EXCEPT ![w] = n]
    /\ cursor' = [cursor EXCEPT ![w] = 0]
    /\ out' = [out EXCEPT ![w] = <<>>]
    /\ LET now == { c \in Cells : heap[c] = "klass" }
       IN  steady' = [steady EXCEPT ![w] = now] /\ held' = [held EXCEPT ![w] = now]
    /\ UNCHANGED <<class, heap, scanning>>

Step(w, where, cur, o) ==
    /\ at' = [at EXCEPT ![w] = where]
    /\ cursor' = [cursor EXCEPT ![w] = cur]
    /\ out' = [out EXCEPT ![w] = o]
    /\ UNCHANGED <<class, heap, job, limit, steady, held>>

\* FieldInfoIter::next, and MethodPtrIter::next, which counts itself.
NextMember(w) ==
    /\ at[w] = "next" /\ job[w] \in {"fields", "methods"}
    /\ LET max  == IF job[w] = "fields" THEN MaxFields ELSE MaxMethods
           next == IF cursor[w] >= max THEN 0
                   ELSE IF job[w] = "fields" THEN fields_at(class, cursor[w])
                   ELSE methods_at(class, cursor[w])
       IN  IF next <= cursor[w] THEN Step(w, "done", cursor[w], out[w])
           ELSE Step(w, "next", next, Append(out[w], next))
    /\ UNCHANGED scanning

\* scan_next_match: the first caller of a class scans, with the lock held.
ScanBegins(w) ==
    /\ at[w] = "next" /\ job[w] = "instances"
    /\ Len(out[w]) < limit[w]
    /\ scan_cache = NotScanned /\ cache_lock = NoOne
    /\ cache_lock' = w /\ scan_at' = 1 /\ hits' = <<>>
    /\ at' = [at EXCEPT ![w] = "scan"]
    /\ UNCHANGED <<class, heap, scan_cache, job, limit, cursor, out, steady, held>>

\* Memory is scanned in order; it changes meanwhile.
ScanCell(w) ==
    /\ at[w] = "scan" /\ scan_at \in Cells
    /\ hits' = IF heap[scan_at] = "klass" /\ Len(hits) < MaxHits THEN Append(hits, scan_at) ELSE hits
    /\ scan_at' = scan_at + 1
    /\ UNCHANGED <<class, heap, scan_cache, cache_lock, at, job, limit, cursor, out, steady, held>>

ScanEnds(w) ==
    /\ at[w] = "scan" /\ scan_at \notin Cells
    /\ scan_cache' = hits
    /\ cache_lock' = NoOne /\ scan_at' = 0 /\ hits' = <<>>
    /\ at' = [at EXCEPT ![w] = "next"]
    /\ UNCHANGED <<class, heap, job, limit, cursor, out, steady, held>>

\* The next hit of the cached list; `take` ends the iteration at the limit.
NextMatch(w) ==
    /\ at[w] = "next" /\ job[w] = "instances"
    /\ \/ Len(out[w]) >= limit[w]
       \/ scan_cache # NotScanned /\ cache_lock = NoOne
    /\ IF Len(out[w]) >= limit[w] \/ cursor[w] >= Len(scan_cache)
       THEN Step(w, "done", cursor[w], out[w])
       ELSE Step(w, "validate", cursor[w] + 1, out[w])
    /\ UNCHANGED scanning

\* Mutant: the class word was checked by the scan.
scan_validate_Trusting(c) == c \notin Unaligned

\* scan_validate: aligned, readable, and the class word still there.
scan_validate(c) == c \notin Unaligned /\ heap[c] = "klass"

Validate(w) ==
    /\ at[w] = "validate"
    /\ LET c == scan_cache[cursor[w]]
       IN  Step(w, "next", cursor[w], IF scan_validate(c) THEN Append(out[w], c) ELSE out[w])
    /\ UNCHANGED scanning

\* The list has been handed over (of methods, as many as the buffer holds).
Finish(w) ==
    /\ at[w] = "done"
    /\ at' = [at EXCEPT ![w] = "idle"]
    /\ out' = [out EXCEPT ![w] = <<>>]
    /\ job' = [job EXCEPT ![w] = "none"]
    /\ limit' = [limit EXCEPT ![w] = 0] /\ cursor' = [cursor EXCEPT ![w] = 0]
    /\ steady' = [steady EXCEPT ![w] = {}] /\ held' = [held EXCEPT ![w] = {}]
    /\ UNCHANGED <<class, heap, scanning>>

\* The game allocates an instance in a cell, uses it for something else or
\* gives the memory back; an object that is only dead keeps its word.
GameHeap(c, word) ==
    /\ heap[c] # word
    /\ heap' = [heap EXCEPT ![c] = word]
    /\ steady' = [w \in Walkers |-> steady[w] \ {c}]
    /\ held' = [w \in Walkers |-> IF word = "klass" /\ at[w] # "idle" THEN held[w] \cup {c} ELSE held[w]]
    /\ UNCHANGED <<class, scanning, at, job, limit, cursor, out>>

StartMembers   == \E w \in Walkers, j \in {"fields", "methods"} : Start(w, j, 0)
StartInstances == \E w \in Walkers, n \in Limits : Start(w, "instances", n)
NextMembers    == \E w \in Walkers : NextMember(w)
Scan    == \E w \in Walkers : ScanBegins(w) \/ ScanCell(w) \/ ScanEnds(w)
HandOut == \E w \in Walkers : NextMatch(w) \/ Validate(w)
Finishes == \E w \in Walkers : Finish(w)
Game    == \E c \in Cells, word \in {"klass", "other"} : GameHeap(c, word)

MemberNext   == StartMembers \/ NextMembers \/ Finishes
InstanceNext == StartInstances \/ Scan \/ HandOut \/ Finishes \/ Game
-----------------------------------------------------------------------------
(***************************************************************************)
(* Properties                                                              *)
(***************************************************************************)
Rising(s) == \A i, j \in DOMAIN s : i < j => s[i] < s[j]
Listed(s) == { s[i] : i \in DOMAIN s }

\* The iterator and the callback walk see the same members ("mirrors
\* for_each_field's validation logic exactly"): without class_get_fields the
\* same fields, with it every real field and perhaps entries behind them; a
\* method that find_method finds is listed, and what is listed and not found
\* has no name.
WalksAgree ==
    \A w \in Walkers : at[w] = "done" =>
        /\ Rising(out[w])
        /\ job[w] = "fields" =>
            /\ ~class.ffi => Listed(out[w]) = for_each_field(class)
            /\ class.ffi => { i \in for_each_field(class) : class.fields[i] \notin Garbage } \subseteq Listed(out[w])
            /\ \A n \in {"x", "y"} : static_field(class, n) # 0 => static_field(class, n) \in Listed(out[w])
        /\ job[w] = "methods" =>
            \A i \in Listed(out[w]) :
                class.methods[i] = "unnamed" \/ find_method(class, class.methods[i]) \in Listed(out[w])

\* A listing of instances hands out every address at most once, within its
\* limit, only addresses that the first scan of the class found and that have
\* held the class since the listing began, however old the scan is; and,
\* unless the limit ends it, every one of them that has held it all along:
\* neither the lock that a scan holds nor what another walker does loses one
\* (scan_next_match, scan_validate).
InstancesListed ==
    \A w \in Walkers : job[w] = "instances" =>
        /\ Rising(out[w]) /\ Len(out[w]) <= limit[w]
        /\ Listed(out[w]) \subseteq held[w]
        /\ out[w] # <<>> => Listed(out[w]) \subseteq Listed(scan_cache) \ Unaligned
        /\ at[w] = "done" /\ Len(out[w]) < limit[w] =>
            \A c \in steady[w] \ Unaligned : c \in Listed(scan_cache) => c \in Listed(out[w])
=============================================================================
