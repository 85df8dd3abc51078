---------------------------- MODULE CaptureProofs ----------------------------
(***************************************************************************)
(* Proofs about the packet capture: the mutexes and IN_HOOK are free when  *)
(* a thread is back in the game, bytes are read twice only through the     *)
(* entry of another call, entries of PENDING belong to operations under    *)
(* way, and the ring keeps its caps.                                       *)
(***************************************************************************)
EXTENDS Capture, FiniteSetTheorems, TLAPS

\* The steps of a detour that looks completions up, and of one that has an
\* entry to register.
Looking == {"complete", "scan", "walk", "evict"}
Unregistered(t) == thr[t].pc \in {"register", "insert"}

\* A mutex is held exactly through the steps that use it, and IN_HOOK is clear
\* outside the detours that set it.
Locks ==
  /\ \A t \in Actors :
       /\ pendLock = t => thr[t].pc \in {"insert", "scan", "retain", "walk", "evict"}
       /\ thr[t].pc \in {"insert", "scan", "retain"} => pendLock = t
       /\ thr[t].pc \in {"walk", "evict"} => pendLock = t \/ thr[t].todo = {}
       /\ thr[t].pc = "evict" => ringLock = t
       /\ thr[t].pc \in {"idle", "close", "retain", "shut"} => ~inHook[t]
  /\ \A t \in Threads : ringLock = t => thr[t].pc = "evict"
  /\ ringLock = Server => srv = "drain" \/ thr[Server].pc = "evict"
  /\ srv = "drain" => ringLock = Server
  /\ thr[Server].pc \in {"idle", "walk", "evict", "leave"}
  /\ thr[Server].pc # "idle" => srv = "sent"
  /\ pendLock # Server

\* total_bytes counts the frames, none of which is longer than the ring, and
\* the caps hold unless a push is evicting.
Lens(r) == [i \in DOMAIN r |-> r[i].len]
Frames ==
  /\ total = Sum(Lens(ring))
  /\ \A i \in DOMAIN ring : ring[i].len \in 1..MaxBytes
  /\ (\A t \in Actors : thr[t].pc # "evict") => Len(ring) <= MaxFrames /\ total <= MaxBytes

\* The bytes of c were found through the entry of another call, one that the
\* detours lost or whose array was filled again.
Blamed(c) == \E d \in slipped \cup lent : <<d, c>> \in misread

\* A call that waits in PENDING, or is about to be registered there, has not
\* been read but through the entry of another, and is nowhere else.
Unread ==
  /\ \A c \in Calls : (shown[c] <= 1 \/ Blamed(c)) /\ (c > calls => shown[c] = 0)
  /\ \A x \in Addrs : wsabuf[x].call <= calls
  /\ \A o \in DOMAIN pend :
       pend[o].call <= calls /\ (shown[pend[o].call] = 0 \/ Blamed(pend[o].call))
  /\ \A o, p \in DOMAIN pend : pend[o].call = pend[p].call => o = p
  /\ \A t \in Actors : Unregistered(t) =>
       /\ thr[t].call \in 1..calls /\ (shown[thr[t].call] = 0 \/ Blamed(thr[t].call))
       /\ \A o \in DOMAIN pend : pend[o].call # thr[t].call
       /\ \A u \in Actors : Unregistered(u) /\ thr[u].call = thr[t].call => u = t

\* What a detour has dequeued is its own until it returns.
Owned ==
  /\ \A t \in Actors : \A o \in thr[t].held : io[o].st = "taken"
  /\ \A t, u \in Actors : thr[t].held \cap thr[u].held # {} => t = u
  /\ \A t \in Actors : thr[t].pc \in Looking => thr[t].todo \subseteq thr[t].held

\* Entries, and entries to be, belong to an operation whose completion has not
\* been looked up, or passed the detours by.
Waiting ==
  /\ EntriesAreAwaited
  /\ \A t \in Actors : Unregistered(t) =>
       \A o \in thr[t].todo : Awaited(o, thr[t].call) \/ thr[t].call \in slipped

\* The address in an entry is that of the array the kernel has for the
\* operation, and it leads to the call of the entry, unless the completion
\* passed the detours by or the array was filled again. An array is not filled
\* again before its entry is made.
Lending ==
  /\ \A o \in DOMAIN pend :
       /\ io[o].call = pend[o].call => io[o].arr = pend[o].arr
       /\ wsabuf[pend[o].arr].call = pend[o].call \/ pend[o].call \in slipped \cup lent
  /\ \A t \in Actors : Unregistered(t) =>
       /\ wsabuf[thr[t].arr].call = thr[t].call
       /\ \A o \in thr[t].todo : io[o].call = thr[t].call => io[o].arr = thr[t].arr
-----------------------------------------------------------------------------
\* ---- sums of lengths

LEMMA PlacesMeans ==
  ASSUME NEW s, NEW x
  PROVE  x \in Places(s) <=> \E i \in DOMAIN s : \E k \in 1..s[i] : x = <<i, k>>
  BY DEF Places
LEMMA PlaceIn == ASSUME NEW s, NEW i \in DOMAIN s, NEW k \in 1..s[i] PROVE <<i, k>> \in Places(s)
  BY PlacesMeans

\* A sequence of lengths has finitely many places, so its sum is a number.
LEMMA SumType ==
  ASSUME NEW s \in Seq(Nat) PROVE IsFiniteSet(Places(s)) /\ Sum(s) \in Nat
<1> DEFINE B == { {i} \X (1..s[i]) : i \in DOMAIN s }
           f == [i \in DOMAIN s |-> {i} \X (1..s[i])]
<1>1. IsFiniteSet(DOMAIN s)
  <2>1. DOMAIN s = 1..Len(s) /\ Len(s) \in Nat
    OBVIOUS
  <2> QED BY <2>1, FS_Interval
<1>2. IsFiniteSet(B)
  <2>1. f \in Surjection(DOMAIN s, B)
    BY DEF Surjection
  <2> QED BY <1>1, <2>1, FS_Surjection
<1>3. \A T \in B : IsFiniteSet(T)
  <2>1. ASSUME NEW i \in DOMAIN s PROVE IsFiniteSet({i} \X (1..s[i]))
    <3>1. s[i] \in Nat
      OBVIOUS
    <3>2. IsFiniteSet(1..s[i])
      BY <3>1, FS_Interval
    <3>3. IsFiniteSet({i})
      BY FS_Singleton
    <3> QED BY <3>2, <3>3, FS_Product
  <2> QED BY <2>1
<1>4. IsFiniteSet(Places(s))
  BY <1>2, <1>3, FS_UNION DEF Places
<1> QED BY <1>4, FS_CardinalityType DEF Sum

\* The number of places in one buffer.
LEMMA RowSize ==
  ASSUME NEW i, NEW n \in Nat
  PROVE  IsFiniteSet({i} \X (1..n)) /\ Cardinality({i} \X (1..n)) = n
<1>1. IsFiniteSet(1..n) /\ Cardinality(1..n) = n
  BY FS_Interval
<1>2. IsFiniteSet({i}) /\ Cardinality({i}) = 1
  BY FS_Singleton
<1>3. IsFiniteSet({i} \X (1..n)) /\ Cardinality({i} \X (1..n)) = Cardinality({i}) * Cardinality(1..n)
  BY <1>1, <1>2, FS_Product
<1> QED BY <1>1, <1>2, <1>3

LEMMA SumEmpty == Sum(<<>>) = 0
<1>1. Places(<<>>) = {}
  BY DEF Places
<1> QED BY <1>1, FS_EmptySet DEF Sum

LEMMA SumAppend ==
  ASSUME NEW s \in Seq(Nat), NEW n \in Nat
  PROVE  Sum(Append(s, n)) = Sum(s) + n
<1> DEFINE R == {Len(s) + 1} \X (1..n)
<1>1. Places(Append(s, n)) = Places(s) \cup R
  <2>1. \A x : x \in Places(Append(s, n)) <=> x \in Places(s) \/ x \in R
    <3> TAKE x
    <3>1. /\ DOMAIN Append(s, n) = DOMAIN s \cup {Len(s) + 1}
          /\ \A i \in DOMAIN s : Append(s, n)[i] = s[i] /\ i # Len(s) + 1
          /\ Append(s, n)[Len(s) + 1] = n
      OBVIOUS
    <3>2. x \in R <=> \E k \in 1..n : x = <<Len(s) + 1, k>>
      OBVIOUS
    <3>3. x \in Places(s) <=> \E i \in DOMAIN s : \E k \in 1..s[i] : x = <<i, k>>
      BY PlacesMeans
    <3> DEFINE a == Append(s, n)
               l == Len(s) + 1
    <3> HIDE DEF a, l, R
    <3>4. /\ DOMAIN a = DOMAIN s \cup {l} /\ a[l] = n
          /\ \A i \in DOMAIN s : a[i] = s[i] /\ i # l
      BY <3>1 DEF a, l
    <3>5. x \in Places(a) <=> \E i \in DOMAIN a : \E k \in 1..a[i] : x = <<i, k>>
      BY PlacesMeans
    <3>6. x \in R <=> \E k \in 1..n : x = <<l, k>>
      BY <3>2 DEF l
    <3>7. x \in Places(a) <=> x \in Places(s) \/ x \in R
      BY <3>3, <3>4, <3>5, <3>6
    <3> QED BY <3>7 DEF a
  <2> QED BY <2>1
<1>2. Places(s) \cap R = {}
  <2>1. Len(s) + 1 \notin DOMAIN s
    OBVIOUS
  <2> QED BY <2>1, PlacesMeans
<1>3. IsFiniteSet(Places(s)) /\ IsFiniteSet(R) /\ Cardinality(R) = n /\ Sum(s) \in Nat
  BY SumType, RowSize
<1> HIDE DEF R
<1>4. Cardinality(Places(s) \cup R) = Cardinality(Places(s)) + Cardinality(R) - Cardinality({})
  BY <1>2, <1>3, FS_Union
<1>5. Cardinality({}) = 0
  BY FS_EmptySet
<1> QED BY <1>1, <1>3, <1>4, <1>5 DEF Sum

LEMMA SumTail ==
  ASSUME NEW s \in Seq(Nat), s # <<>>
  PROVE  Sum(s) = Head(s) + Sum(Tail(s))
<1> DEFINE tl == Tail(s)
           R == {1} \X (1..Head(s))
           T == Places(s) \ R
           f == [x \in Places(tl) |-> <<x[1] + 1, x[2]>>]
<1>1. /\ tl \in Seq(Nat) /\ Head(s) \in Nat /\ Head(s) = s[1]
      /\ Len(s) \in Nat \ {0} /\ Len(tl) = Len(s) - 1
      /\ DOMAIN s = 1..Len(s) /\ DOMAIN tl = 1..(Len(s) - 1)
      /\ \A i \in DOMAIN tl : tl[i] = s[i + 1]
  OBVIOUS
<1> HIDE DEF tl
<1>2. R \subseteq Places(s)
  <2>1. 1 \in DOMAIN s /\ s[1] = Head(s)
    BY <1>1
  <2>2. \A k \in 1..s[1] : <<1, k>> \in Places(s)
    BY <2>1, PlaceIn
  <2> QED BY <2>1, <2>2
<1>3. \A x : x \in T <=> \E i \in 2..Len(s) : \E k \in 1..s[i] : x = <<i, k>>
  <2> TAKE x
  <2>1. x \in T => \E i \in 2..Len(s) : \E k \in 1..s[i] : x = <<i, k>>
    <3> SUFFICES ASSUME x \in T PROVE \E i \in 2..Len(s) : \E k \in 1..s[i] : x = <<i, k>>
      OBVIOUS
    <3>1. PICK i \in DOMAIN s : \E k \in 1..s[i] : x = <<i, k>>
      BY PlacesMeans
    <3>2. i # 1
      BY <3>1, <1>1
    <3> QED BY <3>1, <3>2, <1>1
  <2>2. (\E i \in 2..Len(s) : \E k \in 1..s[i] : x = <<i, k>>) => x \in T
    <3> SUFFICES ASSUME NEW i \in 2..Len(s), NEW k \in 1..s[i], x = <<i, k>> PROVE x \in T
      OBVIOUS
    <3>1. x \in Places(s)
      <4>1. i \in DOMAIN s
        BY <1>1
      <4> QED BY <4>1, PlaceIn
    <3>2. x \notin R
      OBVIOUS
    <3> QED BY <3>1, <3>2
  <2> QED BY <2>1, <2>2
<1>4. f \in Bijection(Places(tl), T)
  <2>1. ASSUME NEW x \in Places(tl) PROVE f[x] \in T
    <3>1. PICK i \in DOMAIN tl : \E k \in 1..tl[i] : x = <<i, k>>
      BY PlacesMeans
    <3>2. PICK k \in 1..tl[i] : x = <<i, k>>
      BY <3>1
    <3>3. f[x] = <<i + 1, k>> /\ i + 1 \in 2..Len(s) /\ k \in 1..s[i + 1]
      <4>1. f[x] = <<x[1] + 1, x[2]>> /\ x[1] = i /\ x[2] = k
        BY <3>2
      <4>2. i + 1 \in 2..Len(s) /\ tl[i] = s[i + 1]
        BY <1>1
      <4> QED BY <3>2, <4>1, <4>2
    <3> QED BY <3>3, <1>3
  <2>2. ASSUME NEW x \in Places(tl), NEW y \in Places(tl), f[x] = f[y] PROVE x = y
    <3>1. PICK i \in DOMAIN tl : \E k \in 1..tl[i] : x = <<i, k>>
      BY PlacesMeans
    <3>a. PICK k \in 1..tl[i] : x = <<i, k>>
      BY <3>1
    <3>2. PICK j \in DOMAIN tl : \E l \in 1..tl[j] : y = <<j, l>>
      BY PlacesMeans
    <3>b. PICK l \in 1..tl[j] : y = <<j, l>>
      BY <3>2
    <3>3. f[x] = <<i + 1, k>> /\ f[y] = <<j + 1, l>>
      BY <3>a, <3>b
    <3>4. i + 1 = j + 1 /\ k = l /\ i \in Int /\ j \in Int
      <4>1. <<i + 1, k>> = <<j + 1, l>>
        BY <2>2, <3>3
      <4>2. i \in Int /\ j \in Int
        BY <1>1
      <4> QED BY <4>1, <4>2
    <3> QED BY <3>a, <3>b, <3>4
  <2>3. ASSUME NEW z \in T PROVE \E x \in Places(tl) : f[x] = z
    <3>1. PICK i \in 2..Len(s) : \E k \in 1..s[i] : z = <<i, k>>
      BY <1>3
    <3>2. PICK k \in 1..s[i] : z = <<i, k>>
      BY <3>1
    <3>3. i - 1 \in DOMAIN tl /\ tl[i - 1] = s[i] /\ (i - 1) + 1 = i
      <4>1. i \in Int /\ i - 1 \in 1..(Len(s) - 1) /\ (i - 1) + 1 = i
        BY <1>1
      <4>2. tl[i - 1] = s[(i - 1) + 1]
        BY <1>1, <4>1
      <4> QED BY <1>1, <4>1, <4>2
    <3>4. <<i - 1, k>> \in Places(tl)
      BY <3>2, <3>3, PlacesMeans
    <3>5. f[<<i - 1, k>>] = <<(i - 1) + 1, k>>
      BY <3>4
    <3> QED BY <3>2, <3>3, <3>4, <3>5
  <2>4. f \in [Places(tl) -> T]
    BY <2>1
  <2> DEFINE P == Places(tl)
  <2> HIDE DEF f, T, P
  <2>5. f \in [P -> T] /\ (\A x, y \in P : f[x] = f[y] => x = y) /\ \A z \in T : \E x \in P : f[x] = z
    BY <2>2, <2>3, <2>4 DEF P
  <2>6. f \in Injection(P, T)
    <3>1. IsInjective(f)
      BY <2>5 DEF IsInjective
    <3> QED BY <2>5, <3>1 DEF Injection
  <2>7. f \in Surjection(P, T)
    BY <2>5 DEF Surjection
  <2> QED BY <2>6, <2>7 DEF Bijection, P
<1>5. IsFiniteSet(Places(tl)) /\ Sum(tl) \in Nat /\ IsFiniteSet(Places(s)) /\ Sum(s) \in Nat
  BY <1>1, SumType
<1>6. IsFiniteSet(T) /\ Cardinality(T) = Cardinality(Places(tl))
  <2>1. ExistsBijection(Places(tl), T)
    BY <1>4 DEF ExistsBijection
  <2> QED BY <1>5, <2>1, FS_Bijection
<1>7. IsFiniteSet(R) /\ Cardinality(R) = Head(s)
  BY <1>1, RowSize
<1>8. Places(s) = R \cup T /\ R \cap T = {}
  BY <1>2
<1> HIDE DEF R, T
<1>9. Cardinality(R \cup T) = Cardinality(R) + Cardinality(T) - Cardinality({})
  BY <1>6, <1>7, <1>8, FS_Union
<1>10. Cardinality({}) = 0
  BY FS_EmptySet
<1> QED BY <1>1, <1>5, <1>6, <1>7, <1>8, <1>9, <1>10 DEF Sum, tl

\* The lengths of the frames follow the ring.
LEMMA LensOf ==
  ASSUME NEW r \in Seq(Frame)
  PROVE  /\ Lens(r) \in Seq(Nat) /\ Len(Lens(r)) = Len(r)
         /\ \A f \in Frame : Lens(Append(r, f)) = Append(Lens(r), f.len)
         /\ r # <<>> => /\ Lens(Tail(r)) = Tail(Lens(r)) /\ Head(Lens(r)) = Head(r).len
                        /\ Lens(r) # <<>>
<1>0. DOMAIN r = 1..Len(r) /\ Len(r) \in Nat /\ \A i \in 1..Len(r) : r[i] \in Frame
  OBVIOUS
<1>1. Lens(r) \in Seq(Nat) /\ Len(Lens(r)) = Len(r)
  <2>1. Lens(r) \in [1..Len(r) -> Nat]
    BY <1>0 DEF Lens, Frame
  <2> QED BY <1>0, <2>1
<1>2. ASSUME NEW f \in Frame PROVE Lens(Append(r, f)) = Append(Lens(r), f.len)
  BY <1>1 DEF Lens, Frame
<1>3. ASSUME r # <<>> PROVE /\ Lens(Tail(r)) = Tail(Lens(r)) /\ Head(Lens(r)) = Head(r).len
                            /\ Lens(r) # <<>>
  <2>1. /\ Len(r) > 0 /\ Tail(r) \in Seq(Frame) /\ Len(Tail(r)) = Len(r) - 1 /\ Head(r) = r[1]
        /\ \A i \in 1..(Len(r) - 1) : Tail(r)[i] = r[i + 1]
    BY <1>3
  <2>2. /\ Lens(r) # <<>> /\ Len(Tail(Lens(r))) = Len(r) - 1 /\ Head(Lens(r)) = Lens(r)[1]
        /\ Tail(Lens(r)) \in Seq(Nat)
        /\ \A i \in 1..(Len(r) - 1) : Tail(Lens(r))[i] = Lens(r)[i + 1]
    BY <1>1, <2>1
  <2>3. \A i \in 1..Len(r) : Lens(r)[i] = r[i].len
    BY <1>0 DEF Lens
  <2>4. /\ DOMAIN Lens(Tail(r)) = 1..(Len(r) - 1)
        /\ \A i \in 1..(Len(r) - 1) : Lens(Tail(r))[i] = Tail(r)[i].len
    BY <1>0, <2>1 DEF Lens
  <2>5. \A i \in 1..(Len(r) - 1) : Lens(Tail(r))[i] = Tail(Lens(r))[i]
    BY <1>0, <2>1, <2>2, <2>3, <2>4
  <2>6. Lens(Tail(r)) = [i \in 1..(Len(r) - 1) |-> Lens(Tail(r))[i]]
    BY <1>0, <2>1 DEF Lens
  <2>7. Tail(Lens(r)) = [i \in 1..(Len(r) - 1) |-> Tail(Lens(r))[i]]
    <3> DEFINE q == Tail(Lens(r))
    <3> HIDE DEF q
    <3>1. q \in Seq(Nat) /\ Len(q) = Len(r) - 1
      BY <2>2 DEF q
    <3>2. q \in [1..Len(q) -> Nat]
      BY <3>1
    <3> QED BY <3>1, <3>2 DEF q
  <2>8. Head(Lens(r)) = Head(r).len
    BY <1>0, <2>1, <2>2, <2>3
  <2> QED BY <2>2, <2>5, <2>6, <2>7, <2>8
<1> QED BY <1>1, <1>2, <1>3
-----------------------------------------------------------------------------
\* ---- what a step keeps

IInv == TypeOK /\ Locks /\ Frames /\ Unread /\ Owned /\ Waiting /\ Lending

\* No thread but t moves.
Alone(t) == \A u \in Actors \ {t} : thr'[u] = thr[u]

\* The entries of PENDING stay or go.
PendShrinks == DOMAIN pend' \subseteq DOMAIN pend /\ \A o \in DOMAIN pend' : pend'[o] = pend[o]

\* Nothing of the histories is forgotten.
HistGrows == slipped \subseteq slipped' /\ lent \subseteq lent' /\ misread \subseteq misread'

\* A thread that has an entry to register had it before.
StillUnregistered(t) ==
  Unregistered(t)' => /\ Unregistered(t) /\ thr'[t].call = thr[t].call /\ thr'[t].arr = thr[t].arr
                      /\ thr'[t].todo \subseteq thr[t].todo

LEMMA Moved ==
  ASSUME TypeOK, NEW t \in Actors, NEW n \in Thr, thr' = [thr EXCEPT ![t] = n]
  PROVE  thr' \in [Actors -> Thr] /\ thr'[t] = n /\ Alone(t)
  BY DEF TypeOK, Alone

LEMMA ThrType == ASSUME TypeOK, NEW t \in Actors PROVE thr[t] \in Thr
  BY DEF TypeOK

LEMMA IdleThr == Idle \in Thr /\ FreeIo \in Io
<1>1. AnySock \in Sockets /\ AnyAddr \in Addrs
  BY SocketsAssumption DEF AnySock, AnyAddr
<1>2. 0 \in 0..MaxCalls /\ <<>> \in Seq(Nat)
  BY CapsAssumption
<1> QED BY <1>1, <1>2 DEF Idle, FreeIo, Thr, Io, Pcs

LEMMA OwnedStep ==
  ASSUME TypeOK, Owned, NEW t \in Actors, Alone(t), thr'[t].held \subseteq thr[t].held,
         thr'[t].pc \in Looking => thr'[t].todo \subseteq thr'[t].held,
         \A o \in Overlaps : io[o].st = "taken" => io'[o].st = "taken"
  PROVE  Owned'
<1>1. \A u \in Actors : thr[u].held \subseteq Overlaps
  BY DEF TypeOK, Thr
<1>2. \A u \in Actors : thr'[u].held \subseteq thr[u].held
  BY DEF Alone
<1>3. \A u \in Actors : \A o \in thr'[u].held : io'[o].st = "taken"
  BY <1>1, <1>2 DEF Owned
<1>4. \A u, v \in Actors : thr'[u].held \cap thr'[v].held # {} => u = v
  BY <1>2 DEF Owned
<1>5. \A u \in Actors : thr'[u].pc \in Looking => thr'[u].todo \subseteq thr'[u].held
  BY DEF Owned, Alone
<1> QED BY <1>3, <1>4, <1>5 DEF Owned

\* Awaited in the next state.
StaysAwaited(o, c) ==
  /\ io'[o].call = c
  /\ \/ io'[o].st \in {"flight", "ok", "failed"}
     \/ \E t \in Threads : o \in thr'[t].todo /\ thr'[t].pc \in Looking

LEMMA AwaitedStep ==
  ASSUME NEW t \in Actors, Alone(t), NEW o, NEW c, Awaited(o, c), io'[o].call = io[o].call,
         \/ io'[o].st = io[o].st
         \/ {io[o].st, io'[o].st} \subseteq {"flight", "ok", "failed"},
         t \in Threads /\ thr[t].pc \in Looking /\ o \in thr[t].todo
           => thr'[t].pc \in Looking /\ o \in thr'[t].todo
  PROVE  StaysAwaited(o, c)
<1>1. CASE io[o].st \in {"flight", "ok", "failed"}
  BY <1>1 DEF Awaited, StaysAwaited
<1>2. CASE \E u \in Threads : o \in thr[u].todo /\ thr[u].pc \in Looking
  <2>1. PICK u \in Threads : o \in thr[u].todo /\ thr[u].pc \in Looking
    BY <1>2
  <2>2. o \in thr'[u].todo /\ thr'[u].pc \in Looking
    BY <2>1 DEF Alone, Actors
  <2> QED BY <2>2 DEF Awaited, StaysAwaited
<1> QED BY <1>1, <1>2 DEF Awaited, Looking

LEMMA WaitingStep ==
  ASSUME TypeOK, Waiting, NEW t \in Actors, Alone(t), slipped \subseteq slipped', PendShrinks,
         StillUnregistered(t),
         \A o \in Overlaps : \A c : Awaited(o, c) => StaysAwaited(o, c) \/ c \in slipped'
  PROVE  Waiting'
<1>1. DOMAIN pend \subseteq Overlaps /\ \A u \in Actors : thr[u].todo \subseteq Overlaps
  BY DEF TypeOK, Thr
<1>2. ASSUME NEW o \in DOMAIN pend'
      PROVE  StaysAwaited(o, pend'[o].call) \/ pend'[o].call \in slipped'
  <2>1. o \in DOMAIN pend /\ pend'[o] = pend[o] /\ o \in Overlaps
    BY <1>1 DEF PendShrinks
  <2>2. Awaited(o, pend[o].call) \/ pend[o].call \in slipped
    BY <2>1 DEF Waiting, EntriesAreAwaited
  <2> QED BY <2>1, <2>2
<1>3. ASSUME NEW u \in Actors, Unregistered(u)', NEW o \in thr'[u].todo
      PROVE  StaysAwaited(o, thr'[u].call) \/ thr'[u].call \in slipped'
  <2>1. Unregistered(u) /\ o \in thr[u].todo /\ thr'[u].call = thr[u].call /\ o \in Overlaps
    BY <1>1, <1>3 DEF Alone, StillUnregistered, Unregistered
  <2>2. Awaited(o, thr[u].call) \/ thr[u].call \in slipped
    BY <2>1 DEF Waiting
  <2> QED BY <2>1, <2>2
<1>4. EntriesAreAwaited'
  BY <1>2 DEF EntriesAreAwaited, Awaited, StaysAwaited, Looking
<1>5. \A u \in Actors : Unregistered(u)' =>
        \A o \in thr'[u].todo : Awaited(o, thr[u].call)' \/ thr'[u].call \in slipped'
  BY <1>3 DEF Awaited, StaysAwaited, Looking
<1> QED BY <1>4, <1>5 DEF Waiting

\* Blamed in the next state.
StaysBlamed(c) == \E d \in slipped' \cup lent' : <<d, c>> \in misread'

LEMMA BlameStays == ASSUME HistGrows, NEW c, Blamed(c) PROVE StaysBlamed(c)
  BY DEF HistGrows, Blamed, StaysBlamed

LEMMA UnreadStep ==
  ASSUME TypeOK, Unread, NEW t \in Actors, Alone(t), PendShrinks, StillUnregistered(t),
         HistGrows, shown' = shown, calls' \in Nat, calls <= calls',
         \A x \in Addrs : wsabuf'[x].call <= calls'
  PROVE  Unread'
<1>0. \A c : Blamed(c) => StaysBlamed(c)
  BY BlameStays
<1>1. calls \in Nat /\ \A o \in DOMAIN pend : pend[o].call \in Nat
  BY DEF TypeOK, Entry, Calls
<1>2. \A c \in Calls : (shown'[c] <= 1 \/ StaysBlamed(c)) /\ (c > calls' => shown'[c] = 0)
  BY <1>0, <1>1 DEF Unread, Calls
<1>3. \A o \in DOMAIN pend' :
        pend'[o].call <= calls' /\ (shown'[pend'[o].call] = 0 \/ StaysBlamed(pend'[o].call))
  BY <1>0, <1>1 DEF Unread, PendShrinks
<1>4. \A o, p \in DOMAIN pend' : pend'[o].call = pend'[p].call => o = p
  BY DEF Unread, PendShrinks
<1>5. \A u \in Actors : Unregistered(u)' => Unregistered(u) /\ thr'[u].call = thr[u].call
  BY DEF Alone, StillUnregistered, Unregistered
<1>6. ASSUME NEW u \in Actors, Unregistered(u)'
      PROVE  /\ thr'[u].call \in 1..calls'
             /\ shown'[thr'[u].call] = 0 \/ StaysBlamed(thr'[u].call)
             /\ \A o \in DOMAIN pend' : pend'[o].call # thr'[u].call
             /\ \A v \in Actors : Unregistered(v)' /\ thr'[v].call = thr'[u].call => v = u
  BY <1>0, <1>1, <1>5, <1>6 DEF Unread, PendShrinks
<1> QED BY <1>2, <1>3, <1>4, <1>6 DEF Unread, Blamed, StaysBlamed

LEMMA LendingStep ==
  ASSUME TypeOK, Unread, Lending, NEW t \in Actors, Alone(t), PendShrinks, StillUnregistered(t),
         HistGrows, wsabuf' = wsabuf,
         \A o \in Overlaps : \/ io'[o].call = io[o].call /\ io'[o].arr = io[o].arr
                             \/ io'[o].call = 0
  PROVE  Lending'
<1>1. DOMAIN pend \subseteq Overlaps /\ \A u \in Actors : thr[u].todo \subseteq Overlaps
  BY DEF TypeOK, Thr
<1>2. ASSUME NEW o \in DOMAIN pend'
      PROVE  /\ io'[o].call = pend'[o].call => io'[o].arr = pend'[o].arr
             /\ \/ wsabuf'[pend'[o].arr].call = pend'[o].call
                \/ pend'[o].call \in slipped' \cup lent'
  <2>1. o \in DOMAIN pend /\ pend'[o] = pend[o] /\ o \in Overlaps
    BY <1>1 DEF PendShrinks
  <2>2. pend[o].call # 0
    BY <2>1 DEF TypeOK, Entry, Calls
  <2> QED BY <2>1, <2>2 DEF Lending, HistGrows
<1>3. ASSUME NEW u \in Actors, Unregistered(u)'
      PROVE  /\ wsabuf'[thr'[u].arr].call = thr'[u].call
             /\ \A o \in thr'[u].todo : io'[o].call = thr'[u].call => io'[o].arr = thr'[u].arr
  <2>1. /\ Unregistered(u) /\ thr'[u].call = thr[u].call /\ thr'[u].arr = thr[u].arr
        /\ thr'[u].todo \subseteq thr[u].todo
    BY <1>3 DEF Alone, StillUnregistered, Unregistered
  <2>2. thr[u].call # 0
    BY <2>1 DEF Unread
  <2> QED BY <1>1, <2>1, <2>2 DEF Lending
<1> QED BY <1>2, <1>3 DEF Lending

LEMMA FramesStep ==
  ASSUME Frames, UNCHANGED <<ring, total>>, NEW t \in Actors, Alone(t),
         thr[t].pc = "evict" => thr'[t].pc = "evict"
  PROVE  Frames'
<1>1. (\A u \in Actors : thr'[u].pc # "evict") => \A u \in Actors : thr[u].pc # "evict"
  BY DEF Alone
<1> QED BY <1>1 DEF Frames
-----------------------------------------------------------------------------
\* ---- steps that move no thread

LEMMA StillStep ==
  ASSUME IInv, UNCHANGED <<thr, io, wsabuf, pend, slipped, lent, misread, shown>>,
         calls' \in Nat, calls <= calls'
  PROVE  /\ Unread' /\ Owned' /\ Waiting' /\ Lending'
         /\ UNCHANGED <<ring, total>> => Frames'
<1>1. Server \in Actors /\ Alone(Server) /\ PendShrinks /\ StillUnregistered(Server) /\ HistGrows
  BY DEF Actors, Alone, PendShrinks, StillUnregistered, Unregistered, HistGrows
<1>2. Unread'
  <2>1. calls \in Nat /\ \A x \in Addrs : wsabuf[x].call \in Nat /\ wsabuf[x].call <= calls
    BY DEF IInv, TypeOK, Unread
  <2>2. \A x \in Addrs : wsabuf'[x].call <= calls'
    BY <2>1
  <2> QED BY <1>1, <2>2, UnreadStep DEF IInv
<1>3. Owned'
  BY <1>1, OwnedStep DEF IInv, Owned
<1>4. Waiting'
  <2>1. ASSUME NEW o \in Overlaps, NEW c, Awaited(o, c) PROVE StaysAwaited(o, c)
    BY <2>1 DEF Awaited, StaysAwaited, Looking
  <2> QED BY <1>1, <2>1, WaitingStep DEF IInv
<1>5. UNCHANGED <<ring, total>> => Frames'
  BY <1>1, FramesStep DEF IInv
<1>6. Lending'
  BY <1>1, LendingStep DEF IInv
<1> QED BY <1>2, <1>3, <1>4, <1>5, <1>6

LEMMA FnsLen == Len(Fns) = 4
  BY DEF Fns

\* Installing and removing hooks.
LEMMA HooksKeep ==
  ASSUME IInv, InstallPatches \/ InstallSets \/ InstallFails \/ remove_packet_hooks
  PROVE  IInv'
<1>1. /\ UNCHANGED <<inHook, thr, io, wsabuf, pend, pendLock, ring, total, ringLock, srv, out, calls, slipped, lent, misread, shown>>
  BY DEF InstallPatches, InstallSets, InstallFails, remove_packet_hooks, pendVars, ringVars,
     srvVars, histVars, ioVars
<1>2. /\ hook' \in [1..Len(Fns) -> {"absent", "patched", "ready", "gone"}]
      /\ inst' \in 1..(Len(Fns) + 1)
  BY FnsLen DEF IInv, TypeOK, InstallPatches, InstallSets, InstallFails, remove_packet_hooks
<1>3. TypeOK'
  BY <1>1, <1>2 DEF IInv, TypeOK
<1>4. Locks'
  BY <1>1 DEF IInv, Locks
<1>5. calls \in Nat /\ calls' = calls
  BY <1>1 DEF IInv, TypeOK
<1>6. Unread' /\ Owned' /\ Waiting' /\ Lending' /\ Frames'
  BY <1>1, <1>5, StillStep
<1> QED BY <1>3, <1>4, <1>6 DEF IInv

\* The stream thread, but for the writes it sees captured.
LEMMA ServerKeeps ==
  ASSUME IInv, Accept \/ PollLock \/ Drain \/ WriteReturns \/ WriteUnseen \/ WriteFails
  PROVE  IInv'
<1>1. UNCHANGED <<hook, inst, inHook, thr, io, wsabuf, pend, pendLock, calls, slipped, lent, misread, shown>>
  BY DEF Accept, PollLock, Drain, WriteReturns, WriteUnseen, WriteFails, hookVars, pendVars,
     ringVars, srvVars, histVars, ioVars
<1>2. calls \in Nat /\ Server \in Actors /\ Header \in Nat /\ Server # NoOne
  BY CapsAssumption, ActorsAssumption DEF IInv, TypeOK, Actors
<1>3. Unread' /\ Owned' /\ Waiting' /\ Lending' /\ (UNCHANGED <<ring, total>> => Frames')
  BY <1>1, <1>2, StillStep
<1>4. CASE Drain
  <2>1. /\ srv = "drain" /\ out' = Sum([i \in DOMAIN ring |-> ring[i].len + Header])
        /\ ring' = <<>> /\ total' = 0 /\ ringLock' = NoOne /\ srv' \in {"poll", "write"}
    BY <1>4 DEF Drain
  <2>2. out' \in Nat
    <3> DEFINE q == [i \in DOMAIN ring |-> ring[i].len + Header]
    <3>1. ring \in Seq(Frame)
      BY DEF IInv, TypeOK
    <3>2. Len(ring) \in Nat /\ DOMAIN ring = 1..Len(ring) /\ \A i \in 1..Len(ring) : ring[i] \in Frame
      BY <3>1
    <3>3. \A i \in DOMAIN ring : ring[i].len + Header \in Nat
      BY <3>2, <1>2 DEF Frame
    <3>4. q \in [1..Len(ring) -> Nat]
      BY <3>2, <3>3
    <3> HIDE DEF q
    <3>5. q \in Seq(Nat)
      BY <3>2, <3>4
    <3>6. Sum(q) \in Nat
      BY <3>5, SumType
    <3> QED BY <2>1, <3>6 DEF q
  <2>3. TypeOK'
    BY <1>1, <2>1, <2>2 DEF IInv, TypeOK
  <2>4. thr[Server].pc = "idle"
    BY <2>1 DEF IInv, Locks
  <2>5. Locks'
    <3>1. ringLock = Server /\ \A t \in Actors : thr[t].pc # "evict"
      BY <2>1, <2>4 DEF IInv, Locks
    <3> QED BY <1>1, <1>2, <2>1, <2>4, <3>1, ActorsAssumption DEF IInv, Locks, Actors
  <2>6. Frames'
    <3>1. Lens(<<>>) = <<>>
      BY DEF Lens
    <3> QED BY <2>1, <3>1, SumEmpty, CapsAssumption DEF Frames
  <2> QED BY <1>3, <2>3, <2>5, <2>6 DEF IInv
<1>5. CASE Accept \/ PollLock \/ WriteReturns \/ WriteUnseen \/ WriteFails
  <2>1. UNCHANGED <<ring, total>>
    BY <1>5 DEF Accept, PollLock, WriteReturns, WriteUnseen, WriteFails, ringVars
  <2>2. TypeOK'
    BY <1>1, <1>2, <1>5, <2>1
       DEF IInv, TypeOK, Accept, PollLock, WriteReturns, WriteUnseen, WriteFails, ringVars
  <2>3. Locks'
    <3>1. CASE PollLock
      <4>1. /\ srv = "poll" /\ ringLock = NoOne /\ ringLock' = Server /\ srv' = "drain"
        BY <3>1 DEF PollLock
      <4> QED BY <1>1, <1>2, <4>1, ActorsAssumption DEF IInv, Locks, Actors
    <3>2. CASE Accept \/ WriteReturns \/ WriteUnseen \/ WriteFails
      <4>1. /\ ringLock' = ringLock /\ srv \notin {"drain"} /\ srv' # "drain"
            /\ srv = "sent" => thr[Server].pc = "idle"
        BY <3>2 DEF Accept, WriteReturns, WriteUnseen, WriteFails, ringVars
      <4> QED BY <1>1, <4>1 DEF IInv, Locks
    <3> QED BY <1>5, <3>1, <3>2
  <2> QED BY <1>3, <2>1, <2>2, <2>3 DEF IInv
<1> QED BY <1>4, <1>5
-----------------------------------------------------------------------------
\* ---- the calls of the game

\* An operation on an OVERLAPPED that is free disturbs no other.
LEMMA FreshIo ==
  ASSUME IInv, NEW o \in Overlaps, io[o].st = "free", NEW x \in Io, io' = [io EXCEPT ![o] = x]
  PROVE  /\ io' \in [Overlaps -> Io] /\ io'[o] = x
         /\ \A p \in Overlaps : io[p].st = "taken" => io'[p].st = "taken"
         /\ \A p \in Overlaps : \A c : Awaited(p, c) => p # o /\ io'[p] = io[p]
         /\ \A p \in Overlaps \ {o} : io'[p] = io[p]
<1>1. io \in [Overlaps -> Io]
  BY DEF IInv, TypeOK
<1>2. \A p \in Overlaps \ {o} : io'[p] = io[p]
  BY <1>1
<1>3. \A c : ~Awaited(o, c)
  <2>1. \A u \in Threads : thr[u].pc \in Looking => o \notin thr[u].todo
    BY DEF IInv, Owned, Actors
  <2> QED BY <2>1 DEF Awaited, Looking
<1> QED BY <1>1, <1>2, <1>3

\* The operation begun by call number c.
LEMMA BeginType ==
  ASSUME IInv, calls < MaxCalls, NEW s \in Sockets, NEW x \in Addrs, NEW a \in Arrays
  PROVE  /\ calls + 1 \in Calls /\ calls + 1 \in 0..MaxCalls /\ a \in Seq(Nat) /\ calls \in Nat
         /\ Begin(calls + 1, s, x, a) \in Io /\ Begin(calls + 1, s, x, a).call = calls + 1
         /\ Begin(calls + 1, s, x, a).st = "flight" /\ Begin(calls + 1, s, x, a).bufs = a
         /\ Begin(calls + 1, s, x, a).sock = s /\ Begin(calls + 1, s, x, a).arr = x
         /\ Sum(a) \in Nat
<1>1. calls \in Nat /\ MaxCalls \in Nat /\ a \in Seq(Nat)
  BY CapsAssumption, ArraysAssumption DEF IInv, TypeOK
<1>2. calls + 1 \in Calls /\ calls + 1 \in 0..MaxCalls
  BY <1>1 DEF Calls
<1>3. Sum(a) \in Nat
  BY <1>1, SumType
<1>4. FreeIo \in Io
  BY IdleThr
<1>5. /\ Begin(calls + 1, s, x, a) \in Io /\ Begin(calls + 1, s, x, a).call = calls + 1
      /\ Begin(calls + 1, s, x, a).st = "flight" /\ Begin(calls + 1, s, x, a).bufs = a
      /\ Begin(calls + 1, s, x, a).sock = s /\ Begin(calls + 1, s, x, a).arr = x
  BY <1>1, <1>2, <1>4 DEF Begin, Io, FreeIo
<1> QED BY <1>1, <1>2, <1>3, <1>5

\* The same operation when it completes at once.
LEMMA BeginDone ==
  ASSUME IInv, calls < MaxCalls, NEW s \in Sockets, NEW x \in Addrs, NEW a \in Arrays, NEW n \in Nat
  PROVE  Done(calls + 1, s, x, a, n) \in Io /\ Done(calls + 1, s, x, a, n).call = calls + 1
<1> DEFINE f == Begin(calls + 1, s, x, a)
<1>1. f \in Io /\ f.call = calls + 1
  BY BeginType
<1> HIDE DEF f
<1>2. [f EXCEPT !.st = "ok", !.n = n] \in Io /\ [f EXCEPT !.st = "ok", !.n = n].call = calls + 1
  BY <1>1 DEF Io
<1> QED BY <1>2 DEF f, Done

\* A detour that walks the buffers of a call.
LEMMA WalkingType ==
  ASSUME NEW c \in 0..MaxCalls, NEW a \in Seq(Nat), NEW n \in Nat
  PROVE  /\ Walking(c, a, n) \in Thr /\ Walking(c, a, n).pc = "walk"
         /\ Walking(c, a, n).todo = {} /\ Walking(c, a, n).held = {}
<1>1. Idle \in Thr
  BY IdleThr
<1>2. Walking(c, a, n) \in Thr
  BY <1>1 DEF Walking, Thr, Pcs
<1> QED BY <1>2 DEF Walking, Idle

\* The game fills an array for its next call: the entries that lead there are
\* of operations in flight, whose array is now lent, or of lost completions.
LEMMA FillStep ==
  ASSUME IInv, NEW t \in Threads, calls < MaxCalls, NEW x \in Addrs, NEW a \in Arrays,
         Fill(x, calls + 1, a), Alone(t), pend' = pend, slipped' = slipped,
         \A o \in Overlaps : io'[o] = io[o] \/ io'[o].call = calls + 1,
         Unregistered(t)' => /\ thr'[t].arr = x /\ thr'[t].call = calls + 1
                             /\ \A o \in thr'[t].todo : io'[o].arr = x
  PROVE  /\ Lending' /\ lent \subseteq lent' /\ lent' \subseteq 0..MaxCalls
         /\ wsabuf' \in [Addrs -> [call: 0..MaxCalls, bufs: Seq(Nat)]]
         /\ \A y \in Addrs : wsabuf'[y].call <= calls + 1
<1> DEFINE w == [call |-> calls + 1, bufs |-> a]
           moved == {io[o].call : o \in {p \in Overlaps : io[p].st # "free" /\ io[p].arr = x}}
<1>1. /\ wsabuf' = [wsabuf EXCEPT ![x] = w] /\ lent' = lent \cup moved
      /\ \A u \in Threads : thr[u].arr = x => thr[u].pc \notin {"register", "insert"}
  BY DEF Fill
<1>0. calls \in Nat /\ MaxCalls \in Nat /\ a \in Seq(Nat)
  BY CapsAssumption, ArraysAssumption DEF IInv, TypeOK
<1>2. calls \in Nat /\ calls + 1 \in 0..MaxCalls /\ a \in Seq(Nat)
  BY <1>0
<1>3. w \in [call: 0..MaxCalls, bufs: Seq(Nat)] /\ w.call = calls + 1
  BY <1>2
<1> HIDE DEF w
<1>4. /\ wsabuf \in [Addrs -> [call: 0..MaxCalls, bufs: Seq(Nat)]]
      /\ \A y \in Addrs : wsabuf[y].call <= calls /\ wsabuf[y].call \in Nat
  BY DEF IInv, TypeOK, Unread
<1>5. /\ wsabuf' \in [Addrs -> [call: 0..MaxCalls, bufs: Seq(Nat)]]
      /\ wsabuf'[x].call = calls + 1 /\ \A y \in Addrs \ {x} : wsabuf'[y] = wsabuf[y]
  BY <1>1, <1>3, <1>4
<1>6. ASSUME NEW y \in Addrs PROVE wsabuf'[y].call <= calls + 1
  <2>1. CASE y = x
    BY <1>2, <1>5, <2>1
  <2>2. CASE y # x
    <3>1. wsabuf'[y].call = wsabuf[y].call
      BY <1>5, <2>2
    <3> QED BY <1>2, <1>4, <3>1
  <2> QED BY <2>1, <2>2
<1>7. moved \subseteq 0..MaxCalls
  <2>1. \A o \in Overlaps : io[o].call \in 0..MaxCalls
    BY DEF IInv, TypeOK, Io
  <2> QED BY <2>1
<1>m. \A o \in Overlaps : io[o].st # "free" /\ io[o].arr = x => io[o].call \in moved
  OBVIOUS
<1> HIDE DEF moved
<1>8. lent \subseteq lent' /\ lent' \subseteq 0..MaxCalls
  BY <1>1, <1>7 DEF IInv, TypeOK
<1>9. ASSUME NEW o \in DOMAIN pend
      PROVE  /\ io'[o].call = pend[o].call => io'[o].arr = pend[o].arr
             /\ \/ wsabuf'[pend[o].arr].call = pend[o].call
                \/ pend[o].call \in slipped \cup lent'
  <2>1. o \in Overlaps /\ pend[o].arr \in Addrs /\ pend[o].call \in Nat /\ pend[o].call <= calls
    BY DEF IInv, TypeOK, Entry, Calls, Unread
  <2>2. pend[o].call # calls + 1
    BY <1>2, <2>1
  <2>3. /\ io[o].call = pend[o].call => io[o].arr = pend[o].arr
        /\ wsabuf[pend[o].arr].call = pend[o].call \/ pend[o].call \in slipped \cup lent
    BY DEF IInv, Lending
  <2>4. io'[o].call = pend[o].call => io'[o].arr = pend[o].arr
    BY <2>1, <2>2, <2>3
  <2>5. CASE pend[o].arr # x
    BY <1>5, <1>8, <2>1, <2>3, <2>4, <2>5
  <2>6. CASE pend[o].arr = x
    <3>1. Awaited(o, pend[o].call) \/ pend[o].call \in slipped
      BY DEF IInv, Waiting, EntriesAreAwaited
    <3>2. ASSUME Awaited(o, pend[o].call) PROVE pend[o].call \in lent'
      <4>1. io[o].call = pend[o].call
        BY <3>2 DEF Awaited
      <4>2. io[o].st # "free"
        <5>1. CASE io[o].st \in {"flight", "ok", "failed"}
          BY <5>1
        <5>2. CASE \E u \in Threads : o \in thr[u].todo /\ thr[u].pc \in Looking
          BY <5>2 DEF IInv, Owned, Actors
        <5> QED BY <3>2, <5>1, <5>2 DEF Awaited, Looking
      <4>3. io[o].call \in moved
        BY <1>m, <2>1, <2>3, <2>6, <4>1, <4>2
      <4> QED BY <1>1, <4>1, <4>3
    <3> QED BY <2>4, <3>1, <3>2
  <2> QED BY <2>5, <2>6
<1>10. ASSUME NEW u \in Actors, Unregistered(u)'
       PROVE  /\ wsabuf'[thr'[u].arr].call = thr'[u].call
              /\ \A o \in thr'[u].todo : io'[o].call = thr'[u].call => io'[o].arr = thr'[u].arr
  <2>1. CASE u = t
    BY <1>5, <1>10, <2>1
  <2>2. CASE u # t
    <3>1. thr'[u] = thr[u] /\ Unregistered(u)
      BY <1>10, <2>2 DEF Alone, Unregistered
    <3>2. u \in Threads
      BY <3>1 DEF IInv, Locks, Unregistered, Actors
    <3>3. /\ thr[u].arr \in Addrs /\ thr[u].arr # x /\ thr[u].todo \subseteq Overlaps
          /\ thr[u].call \in 1..calls /\ wsabuf[thr[u].arr].call = thr[u].call
          /\ \A o \in thr[u].todo : io[o].call = thr[u].call => io[o].arr = thr[u].arr
      BY <1>1, <3>1, <3>2 DEF IInv, TypeOK, Thr, Unread, Lending, Unregistered
    <3>4. thr[u].call # calls + 1
      BY <1>2, <3>3
    <3> QED BY <1>5, <3>1, <3>3, <3>4
  <2> QED BY <2>1, <2>2
<1>11. Lending'
  BY <1>9, <1>10 DEF Lending
<1> QED BY <1>5, <1>6, <1>8, <1>11

\* The bytes of a new call are read for the first time.
LEMMA FirstRead ==
  ASSUME IInv, NEW t \in Actors, Alone(t), pend' = pend, ~Unregistered(t)', calls < MaxCalls,
         calls' = calls + 1, shown' = [shown EXCEPT ![calls + 1] = @ + 1], HistGrows,
         \A x \in Addrs : wsabuf'[x].call <= calls + 1
  PROVE  Unread' /\ shown' \in [0..MaxCalls -> Nat]
<1>0. /\ calls \in Nat /\ MaxCalls \in Nat /\ shown \in [0..MaxCalls -> Nat]
      /\ calls + 1 \in Calls /\ Calls \subseteq 0..MaxCalls
  BY CapsAssumption DEF IInv, TypeOK, Calls
<1>b. \A c : Blamed(c) => StaysBlamed(c)
  BY BlameStays
<1>1. shown[calls + 1] = 0 /\ shown'[calls + 1] = 1 /\ \A c \in Calls \ {calls + 1} : shown'[c] = shown[c]
  BY <1>0 DEF IInv, Unread, Calls
<1>2. \A o \in DOMAIN pend : pend[o].call \in Calls /\ pend[o].call <= calls /\ pend[o].call # calls + 1
  <2>1. \A o \in DOMAIN pend : pend[o].call \in Calls /\ pend[o].call <= calls
    BY DEF IInv, TypeOK, Entry, Unread
  <2> QED BY <1>0, <2>1 DEF Calls
<1>3. \A u \in Actors : Unregistered(u)' => Unregistered(u) /\ thr'[u].call = thr[u].call
  BY DEF Alone, Unregistered
<1>4. \A c \in Calls : (shown'[c] <= 1 \/ StaysBlamed(c)) /\ (c > calls' => shown'[c] = 0)
  BY <1>0, <1>b, <1>1 DEF IInv, Unread, Calls
<1>5. \A o \in DOMAIN pend' :
        pend'[o].call <= calls' /\ (shown'[pend'[o].call] = 0 \/ StaysBlamed(pend'[o].call))
  BY <1>0, <1>b, <1>1, <1>2 DEF IInv, Unread, Calls
<1>6. \A o, p \in DOMAIN pend' : pend'[o].call = pend'[p].call => o = p
  BY DEF IInv, Unread
<1>7. ASSUME NEW u \in Actors, Unregistered(u)'
      PROVE  /\ thr'[u].call \in 1..calls'
             /\ shown'[thr'[u].call] = 0 \/ StaysBlamed(thr'[u].call)
             /\ \A o \in DOMAIN pend' : pend'[o].call # thr'[u].call
             /\ \A v \in Actors : Unregistered(v)' /\ thr'[v].call = thr'[u].call => v = u
  <2>1. /\ Unregistered(u) /\ thr'[u].call = thr[u].call /\ thr[u].call \in 1..calls
        /\ shown[thr[u].call] = 0 \/ Blamed(thr[u].call)
    BY <1>3, <1>7 DEF IInv, Unread
  <2>2. thr[u].call \in Calls \ {calls + 1}
    BY <1>0, <2>1 DEF Calls
  <2> QED BY <1>0, <1>b, <1>1, <1>3, <2>1, <2>2 DEF IInv, Unread
<1>8. shown' \in [0..MaxCalls -> Nat]
  BY <1>0
<1>9. \A x \in Addrs : wsabuf'[x].call <= calls'
  OBVIOUS
<1> QED BY <1>4, <1>5, <1>6, <1>7, <1>8, <1>9 DEF Unread, Blamed, StaysBlamed

\* A call of the send class.
LEMMA SyncCallKeeps ==
  ASSUME IInv, NEW t \in Threads, SyncCall(t) PROVE IInv'
<1>0. t \in Actors /\ Server # t
  BY ActorsAssumption DEF Actors
<1>1. PICK x \in Addrs, a \in Arrays : \E k \in 1..Sum(a) :
        Fill(x, calls + 1, a) /\ thr' = [thr EXCEPT ![t] = Walking(calls + 1, a, k)]
  BY DEF SyncCall
<1>2. PICK k \in 1..Sum(a) : thr' = [thr EXCEPT ![t] = Walking(calls + 1, a, k)]
  BY <1>1
<1>3. /\ thr[t].pc = "idle" /\ calls < MaxCalls /\ calls' = calls + 1
      /\ inHook' = [inHook EXCEPT ![t] = TRUE]
      /\ shown' = [shown EXCEPT ![calls + 1] = @ + 1]
      /\ UNCHANGED <<hook, inst, io, pend, pendLock, ring, total, ringLock, srv, out, slipped,
                     misread>>
  BY DEF SyncCall, NewCall, hookVars, pendVars, ringVars, srvVars
<1>4. calls + 1 \in 0..MaxCalls /\ a \in Seq(Nat) /\ Sum(a) \in Nat /\ k \in Nat
  <2>1. PICK s \in Sockets : TRUE
    BY SocketsAssumption
  <2>2. calls + 1 \in 0..MaxCalls /\ a \in Seq(Nat) /\ Sum(a) \in Nat
    BY <1>3, <2>1, BeginType
  <2>3. k \in Nat
    BY <2>2
  <2> QED BY <2>2, <2>3
<1> DEFINE n == Walking(calls + 1, a, k)
<1>5. n \in Thr /\ n.pc = "walk" /\ n.todo = {} /\ n.held = {}
  BY <1>4, WalkingType
<1> HIDE DEF n
<1>6. thr' \in [Actors -> Thr] /\ thr'[t] = n /\ Alone(t)
  BY <1>0, <1>2, <1>5, Moved DEF n, IInv
<1>f. /\ Lending' /\ lent \subseteq lent' /\ lent' \subseteq 0..MaxCalls
      /\ wsabuf' \in [Addrs -> [call: 0..MaxCalls, bufs: Seq(Nat)]]
      /\ \A y \in Addrs : wsabuf'[y].call <= calls + 1
  <2>1. ~Unregistered(t)' /\ Fill(x, calls + 1, a)
    BY <1>1, <1>5, <1>6 DEF Unregistered
  <2> QED BY <1>3, <1>6, <2>1, FillStep
<1>h. HistGrows
  BY <1>3, <1>f DEF HistGrows
<1>7. Unread' /\ shown' \in [0..MaxCalls -> Nat]
  BY <1>0, <1>3, <1>5, <1>6, <1>f, <1>h, FirstRead DEF Unregistered
<1>8. TypeOK'
  BY <1>0, <1>3, <1>4, <1>6, <1>7, <1>f DEF IInv, TypeOK
<1>9. Locks'
  BY <1>0, <1>3, <1>5, <1>6 DEF IInv, Locks, Alone, TypeOK, Actors
<1>10. Frames'
  BY <1>0, <1>3, <1>5, <1>6, FramesStep DEF IInv
<1>11. Owned'
  BY <1>0, <1>3, <1>5, <1>6, OwnedStep DEF IInv
<1>12. Waiting'
  <2>1. ASSUME NEW o \in Overlaps, NEW c, Awaited(o, c) PROVE StaysAwaited(o, c)
    BY <1>0, <1>3, <1>6, <2>1, AwaitedStep DEF Looking
  <2> QED BY <1>0, <1>3, <1>5, <1>6, <2>1, WaitingStep
          DEF IInv, PendShrinks, StillUnregistered, Unregistered
<1> QED BY <1>7, <1>8, <1>9, <1>10, <1>11, <1>12, <1>f DEF IInv

\* An overlapped operation that no detour registers.
LEMMA UnseenIoKeeps ==
  ASSUME IInv, NEW t \in Threads, UnseenIo(t) PROVE IInv'
<1>1. PICK o \in Overlaps, s \in Sockets, x \in Addrs, a \in Arrays :
        /\ io[o].st = "free" /\ Fill(x, calls + 1, a)
        /\ io' = [io EXCEPT ![o] = Begin(calls + 1, s, x, a)]
  BY DEF UnseenIo
<1>2. /\ calls < MaxCalls /\ calls' = calls + 1 /\ thr[t].pc \in {"idle", "wait"}
      /\ UNCHANGED <<hook, inst, inHook, thr, pend, pendLock, ring, total, ringLock, srv, out,
                     slipped, misread, shown>>
  BY DEF UnseenIo, hookVars, pendVars, ringVars, srvVars
<1>3. /\ calls \in Nat /\ calls + 1 \in 0..MaxCalls /\ Begin(calls + 1, s, x, a) \in Io
      /\ Begin(calls + 1, s, x, a).call = calls + 1
  BY <1>2, BeginType
<1>4. /\ io' \in [Overlaps -> Io] /\ io'[o] = Begin(calls + 1, s, x, a)
      /\ \A p \in Overlaps : io[p].st = "taken" => io'[p].st = "taken"
      /\ \A p \in Overlaps : \A c : Awaited(p, c) => p # o /\ io'[p] = io[p]
      /\ \A p \in Overlaps \ {o} : io'[p] = io[p]
  BY <1>1, <1>3, FreshIo
<1>f. /\ Lending' /\ lent \subseteq lent' /\ lent' \subseteq 0..MaxCalls
      /\ wsabuf' \in [Addrs -> [call: 0..MaxCalls, bufs: Seq(Nat)]]
      /\ \A y \in Addrs : wsabuf'[y].call <= calls + 1
  <2>1. ~Unregistered(t)' /\ Alone(t) /\ Fill(x, calls + 1, a)
    BY <1>1, <1>2 DEF Unregistered, Alone
  <2>2. \A p \in Overlaps : io'[p] = io[p] \/ io'[p].call = calls + 1
    BY <1>3, <1>4
  <2> QED BY <1>2, <2>1, <2>2, FillStep
<1>5. TypeOK'
  BY <1>2, <1>3, <1>4, <1>f DEF IInv, TypeOK
<1>6. Locks'
  BY <1>2 DEF IInv, Locks
<1>7. Server \in Actors /\ Alone(Server) /\ PendShrinks /\ StillUnregistered(Server) /\ HistGrows
  BY <1>2, <1>f DEF Actors, Alone, PendShrinks, StillUnregistered, Unregistered, HistGrows
<1>8. Unread'
  <2>1. calls' \in Nat /\ calls <= calls'
    BY <1>2, <1>3
  <2> QED BY <1>2, <1>7, <1>f, <2>1, UnreadStep DEF IInv
<1>9. Owned'
  BY <1>2, <1>4, <1>7, OwnedStep DEF IInv, Owned
<1>10. Frames'
  BY <1>2, <1>7, FramesStep DEF IInv
<1>11. Waiting'
  <2>1. ASSUME NEW p \in Overlaps, NEW c, Awaited(p, c) PROVE StaysAwaited(p, c)
    BY <1>2, <1>4, <1>7, <2>1, AwaitedStep
  <2> QED BY <1>2, <1>7, <2>1, WaitingStep DEF IInv
<1> QED BY <1>5, <1>6, <1>8, <1>9, <1>10, <1>11, <1>f DEF IInv

\* A receive that pends: its detour has an entry to register.
LEMMA RecvPendsKeeps ==
  ASSUME IInv, NEW t \in Threads, RecvPends(t) PROVE IInv'
<1>0. t \in Actors /\ Server # t
  BY ActorsAssumption DEF Actors
<1>1. PICK o \in Overlaps, s \in Sockets, x \in Addrs, a \in Arrays :
        /\ io[o].st = "free" /\ Fill(x, calls + 1, a)
        /\ io' = [io EXCEPT ![o] = Begin(calls + 1, s, x, a)]
        /\ thr' = [thr EXCEPT ![t] = Registering(calls + 1, s, x, a, o)]
  BY DEF RecvPends
<1>2. /\ thr[t].pc = "idle" /\ calls < MaxCalls /\ calls' = calls + 1
      /\ inHook' = [inHook EXCEPT ![t] = TRUE]
      /\ UNCHANGED <<hook, inst, pend, pendLock, ring, total, ringLock, srv, out, slipped, misread, shown>>
  BY DEF RecvPends, NewCall, hookVars, pendVars, ringVars, srvVars
<1> DEFINE b == Begin(calls + 1, s, x, a)
           n == Registering(calls + 1, s, x, a, o)
<1>3. /\ calls \in Nat /\ calls + 1 \in 0..MaxCalls /\ calls + 1 \in Calls /\ a \in Seq(Nat)
      /\ b \in Io /\ b.call = calls + 1 /\ b.st = "flight" /\ b.arr = x
  BY <1>2, BeginType
<1>4. n \in Thr /\ n.pc = "register" /\ n.call = calls + 1 /\ n.todo = {o} /\ n.held = {}
      /\ n.arr = x
  <2>1. Idle \in Thr
    BY IdleThr
  <2>2. n \in Thr
    BY <1>3, <2>1 DEF Thr, Pcs, Registering
  <2> QED BY <2>2 DEF Idle, Registering
<1> HIDE DEF b, n
<1>5. /\ io' \in [Overlaps -> Io] /\ io'[o] = b
      /\ \A p \in Overlaps : io[p].st = "taken" => io'[p].st = "taken"
      /\ \A p \in Overlaps : \A c : Awaited(p, c) => p # o /\ io'[p] = io[p]
      /\ \A p \in Overlaps \ {o} : io'[p] = io[p]
  BY <1>1, <1>3, FreshIo DEF b
<1>6. thr' \in [Actors -> Thr] /\ thr'[t] = n /\ Alone(t)
  BY <1>0, <1>1, <1>4, Moved DEF n, IInv
<1>f. /\ Lending' /\ lent \subseteq lent' /\ lent' \subseteq 0..MaxCalls
      /\ wsabuf' \in [Addrs -> [call: 0..MaxCalls, bufs: Seq(Nat)]]
      /\ \A y \in Addrs : wsabuf'[y].call <= calls + 1
  <2>1. /\ Fill(x, calls + 1, a) /\ thr'[t].arr = x /\ thr'[t].call = calls + 1
        /\ \A p \in thr'[t].todo : io'[p].arr = x
    BY <1>1, <1>3, <1>4, <1>5, <1>6
  <2>2. \A p \in Overlaps : io'[p] = io[p] \/ io'[p].call = calls + 1
    BY <1>3, <1>5
  <2> QED BY <1>2, <1>6, <2>1, <2>2, FillStep
<1>b. \A c : Blamed(c) => StaysBlamed(c)
  <2>1. HistGrows
    BY <1>2, <1>f DEF HistGrows
  <2> QED BY <2>1, BlameStays
<1>7. TypeOK'
  BY <1>0, <1>2, <1>3, <1>5, <1>6, <1>f DEF IInv, TypeOK
<1>8. Locks'
  BY <1>0, <1>2, <1>4, <1>6 DEF IInv, Locks, Alone, TypeOK, Actors
<1>9. Frames'
  BY <1>0, <1>2, <1>4, <1>6, FramesStep DEF IInv
<1>10. Owned'
  BY <1>0, <1>4, <1>5, <1>6, OwnedStep DEF IInv, Looking
<1>11. Unread'
  <2>1. \A p \in DOMAIN pend : pend[p].call \in Calls /\ pend[p].call <= calls /\ pend[p].call # calls + 1
    <3>1. \A p \in DOMAIN pend : pend[p].call \in Calls /\ pend[p].call <= calls
      BY DEF IInv, TypeOK, Entry, Unread
    <3> QED BY <1>3, <3>1 DEF Calls
  <2>2. \A u \in Actors \ {t} : Unregistered(u)' => /\ Unregistered(u) /\ thr'[u].call = thr[u].call
                                                   /\ thr[u].call \in 1..calls
    BY <1>6 DEF Alone, Unregistered, IInv, Unread
  <2>3. \A c \in Calls : (shown'[c] <= 1 \/ StaysBlamed(c)) /\ (c > calls' => shown'[c] = 0)
    BY <1>2, <1>3, <1>b DEF IInv, Unread, Calls
  <2>4. \A p \in DOMAIN pend' :
          pend'[p].call <= calls' /\ (shown'[pend'[p].call] = 0 \/ StaysBlamed(pend'[p].call))
    BY <1>2, <1>3, <1>b, <2>1 DEF IInv, Unread, Calls
  <2>5. \A p, q \in DOMAIN pend' : pend'[p].call = pend'[q].call => p = q
    BY <1>2 DEF IInv, Unread
  <2>6. ASSUME NEW u \in Actors, Unregistered(u)'
        PROVE  /\ thr'[u].call \in 1..calls'
               /\ shown'[thr'[u].call] = 0 \/ StaysBlamed(thr'[u].call)
               /\ \A p \in DOMAIN pend' : pend'[p].call # thr'[u].call
               /\ \A v \in Actors : Unregistered(v)' /\ thr'[v].call = thr'[u].call => v = u
    <3>1. CASE u = t
      <4>1. thr'[u].call = calls + 1 /\ shown[calls + 1] = 0 /\ calls + 1 \in 1..calls'
        BY <1>2, <1>3, <1>4, <1>6, <3>1 DEF IInv, Unread, Calls
      <4>2. \A v \in Actors \ {t} : Unregistered(v)' => thr'[v].call # calls + 1
        BY <1>3, <2>2
      <4> QED BY <1>2, <2>1, <3>1, <4>1, <4>2
    <3>2. CASE u # t
      <4>1. Unregistered(u) /\ thr'[u].call = thr[u].call /\ thr[u].call \in 1..calls
        BY <2>2, <2>6, <3>2
      <4>2. thr[u].call \in 1..calls' /\ thr[u].call # calls + 1
        BY <1>2, <1>3, <4>1
      <4>3. /\ shown'[thr'[u].call] = 0 \/ StaysBlamed(thr'[u].call)
            /\ \A p \in DOMAIN pend' : pend'[p].call # thr'[u].call
        BY <1>2, <1>b, <4>1 DEF IInv, Unread
      <4>4. \A v \in Actors : Unregistered(v)' /\ thr'[v].call = thr'[u].call => v = u
        BY <1>4, <1>6, <2>2, <4>1, <4>2 DEF IInv, Unread
      <4> QED BY <4>1, <4>2, <4>3, <4>4
    <3> QED BY <3>1, <3>2
  <2>7. \A y \in Addrs : wsabuf'[y].call <= calls'
    BY <1>2, <1>f
  <2> QED BY <2>3, <2>4, <2>5, <2>6, <2>7 DEF Unread, Blamed, StaysBlamed
<1>12. Waiting'
  <2>1. ASSUME NEW p \in Overlaps, NEW c, Awaited(p, c) PROVE StaysAwaited(p, c)
    BY <1>0, <1>2, <1>5, <1>6, <2>1, AwaitedStep DEF Looking
  <2>2. StaysAwaited(o, n.call)
    BY <1>3, <1>4, <1>5 DEF StaysAwaited
  <2>3. EntriesAreAwaited'
    <3>1. ASSUME NEW p \in DOMAIN pend PROVE StaysAwaited(p, pend[p].call) \/ pend[p].call \in slipped
      BY <2>1 DEF IInv, TypeOK, Waiting, EntriesAreAwaited
    <3> QED BY <1>2, <3>1 DEF EntriesAreAwaited, Awaited, StaysAwaited, Looking
  <2>4. ASSUME NEW u \in Actors, Unregistered(u)', NEW p \in thr'[u].todo
        PROVE  StaysAwaited(p, thr'[u].call) \/ thr'[u].call \in slipped'
    <3>1. CASE u = t
      BY <1>4, <1>6, <2>2, <2>4, <3>1
    <3>2. CASE u # t
      <4>1. thr'[u] = thr[u] /\ Unregistered(u) /\ thr[u].todo \subseteq Overlaps
        BY <1>6, <2>4, <3>2 DEF Alone, Unregistered, IInv, TypeOK, Thr
      <4> QED BY <1>2, <2>1, <2>4, <4>1 DEF IInv, Waiting
    <3> QED BY <3>1, <3>2
  <2>5. \A u \in Actors : Unregistered(u)' =>
          \A p \in thr'[u].todo : Awaited(p, thr[u].call)' \/ thr'[u].call \in slipped'
    BY <2>4 DEF Awaited, StaysAwaited, Looking
  <2> QED BY <2>3, <2>5 DEF Waiting
<1> QED BY <1>7, <1>8, <1>9, <1>10, <1>11, <1>12, <1>f DEF IInv

\* A receive that completes at once.
LEMMA RecvAtOnceKeeps ==
  ASSUME IInv, NEW t \in Threads, RecvAtOnce(t) PROVE IInv'
<1>0. t \in Actors /\ Server # t
  BY ActorsAssumption DEF Actors
<1>1. PICK o \in Overlaps, s \in Sockets, x \in Addrs, a \in Arrays : \E n \in 1..Sum(a) :
        /\ io[o].st = "free"
        /\ Fill(x, calls + 1, a)
        /\ io' \in {io, [io EXCEPT ![o] = Done(calls + 1, s, x, a, n)]}
        /\ thr' = [thr EXCEPT ![t] = Walking(calls + 1, a, n)]
  BY DEF RecvAtOnce
<1>2. PICK k \in 1..Sum(a) :
        /\ io[o].st = "free" /\ Fill(x, calls + 1, a)
        /\ io' \in {io, [io EXCEPT ![o] = Done(calls + 1, s, x, a, k)]}
        /\ thr' = [thr EXCEPT ![t] = Walking(calls + 1, a, k)]
  BY <1>1
<1>3. /\ thr[t].pc = "idle" /\ calls < MaxCalls /\ calls' = calls + 1
      /\ inHook' = [inHook EXCEPT ![t] = TRUE]
      /\ shown' = [shown EXCEPT ![calls + 1] = @ + 1]
      /\ UNCHANGED <<hook, inst, pend, pendLock, ring, total, ringLock, srv, out, slipped, misread>>
  BY DEF RecvAtOnce, NewCall, hookVars, pendVars, ringVars, srvVars
<1> DEFINE b == Done(calls + 1, s, x, a, k)
           n == Walking(calls + 1, a, k)
<1>4. calls + 1 \in 0..MaxCalls /\ a \in Seq(Nat) /\ Sum(a) \in Nat
  BY <1>3, BeginType
<1>5. k \in Nat /\ k \in 0..Sum(a)
  <2>1. Sum(a) \in Nat
    BY <1>4
  <2> QED BY <2>1
<1>6. b \in Io /\ b.call = calls + 1
  BY <1>3, <1>5, BeginDone
<1>7. n \in Thr /\ n.pc = "walk" /\ n.todo = {} /\ n.held = {}
  BY <1>4, <1>5, WalkingType
<1> HIDE DEF b, n
<1>8. /\ io' \in [Overlaps -> Io]
      /\ \A p \in Overlaps : io[p].st = "taken" => io'[p].st = "taken"
      /\ \A p \in Overlaps : \A c : Awaited(p, c) => io'[p] = io[p]
      /\ \A p \in Overlaps : io'[p] = io[p] \/ io'[p].call = calls + 1
  <2>1. CASE io' = [io EXCEPT ![o] = b]
    BY <1>2, <1>6, <2>1, FreshIo
  <2>2. CASE io' = io
    BY <2>2 DEF IInv, TypeOK
  <2> QED BY <1>2, <2>1, <2>2 DEF b
<1>9. thr' \in [Actors -> Thr] /\ thr'[t] = n /\ Alone(t)
  BY <1>0, <1>2, <1>7, Moved DEF n, IInv
<1>f. /\ Lending' /\ lent \subseteq lent' /\ lent' \subseteq 0..MaxCalls
      /\ wsabuf' \in [Addrs -> [call: 0..MaxCalls, bufs: Seq(Nat)]]
      /\ \A y \in Addrs : wsabuf'[y].call <= calls + 1
  <2>1. ~Unregistered(t)' /\ Fill(x, calls + 1, a)
    BY <1>2, <1>7, <1>9 DEF Unregistered
  <2> QED BY <1>3, <1>8, <1>9, <2>1, FillStep
<1>h. HistGrows
  BY <1>3, <1>f DEF HistGrows
<1>10. Unread' /\ shown' \in [0..MaxCalls -> Nat]
  BY <1>0, <1>3, <1>7, <1>9, <1>f, <1>h, FirstRead DEF Unregistered
<1>11. TypeOK'
  BY <1>0, <1>3, <1>4, <1>8, <1>9, <1>10, <1>f DEF IInv, TypeOK
<1>12. Locks'
  BY <1>0, <1>3, <1>7, <1>9 DEF IInv, Locks, Alone, TypeOK, Actors
<1>13. Frames'
  BY <1>0, <1>3, <1>7, <1>9, FramesStep DEF IInv
<1>14. Owned'
  BY <1>0, <1>7, <1>8, <1>9, OwnedStep DEF IInv
<1>15. Waiting'
  <2>1. ASSUME NEW p \in Overlaps, NEW c, Awaited(p, c) PROVE StaysAwaited(p, c)
    BY <1>0, <1>3, <1>8, <1>9, <2>1, AwaitedStep DEF Looking
  <2> QED BY <1>0, <1>3, <1>7, <1>9, <2>1, WaitingStep
          DEF IInv, PendShrinks, StillUnregistered, Unregistered
<1> QED BY <1>10, <1>11, <1>12, <1>13, <1>14, <1>15, <1>f DEF IInv
-----------------------------------------------------------------------------
\* ---- steps inside the detours

\* A step that reads no bytes, gives no call to register and dequeues nothing.
LEMMA PlainStep ==
  ASSUME IInv, TypeOK', Locks', Frames', NEW t \in Actors, Alone(t), PendShrinks,
         StillUnregistered(t), HistGrows, shown' = shown, calls <= calls', wsabuf' = wsabuf,
         thr'[t].held \subseteq thr[t].held,
         thr'[t].pc \in Looking => thr'[t].todo \subseteq thr'[t].held,
         \A o \in Overlaps :
           /\ io'[o].call = io[o].call /\ io'[o].arr = io[o].arr
           /\ \/ io'[o].st = io[o].st
              \/ {io[o].st, io'[o].st} \subseteq {"flight", "ok", "failed"},
         thr[t].pc \in Looking =>
           \A o \in thr[t].todo : \/ thr'[t].pc \in Looking /\ o \in thr'[t].todo
                                  \/ io[o].call \in slipped'
  PROVE  IInv'
<1>1. calls' \in Nat
  BY DEF TypeOK
<1>2. Unread'
  <2>1. calls \in Nat /\ \A x \in Addrs : wsabuf[x].call \in Nat /\ wsabuf[x].call <= calls
    BY DEF IInv, TypeOK, Unread
  <2>2. \A x \in Addrs : wsabuf'[x].call <= calls'
    BY <1>1, <2>1
  <2> QED BY <1>1, <2>2, UnreadStep DEF IInv
<1>3. Owned'
  <2>1. \A o \in Overlaps : io[o].st = "taken" => io'[o].st = "taken"
    OBVIOUS
  <2> QED BY <2>1, OwnedStep DEF IInv
<1>4. Waiting'
  <2>1. ASSUME NEW o \in Overlaps, NEW c, Awaited(o, c) PROVE StaysAwaited(o, c) \/ c \in slipped'
    <3>0. io[o].call = c
      BY <2>1 DEF Awaited
    <3>1. CASE thr[t].pc \in Looking /\ o \in thr[t].todo /\ io[o].call \in slipped'
      BY <3>0, <3>1
    <3>2. CASE ~(thr[t].pc \in Looking /\ o \in thr[t].todo /\ io[o].call \in slipped')
      <4>1. thr[t].pc \in Looking /\ o \in thr[t].todo => thr'[t].pc \in Looking /\ o \in thr'[t].todo
        BY <3>2
      <4>2. /\ io'[o].call = io[o].call
            /\ \/ io'[o].st = io[o].st
               \/ {io[o].st, io'[o].st} \subseteq {"flight", "ok", "failed"}
        OBVIOUS
      <4> QED BY <2>1, <4>1, <4>2, AwaitedStep
    <3> QED BY <3>1, <3>2
  <2> QED BY <2>1, WaitingStep DEF IInv, HistGrows
<1>5. Lending'
  BY LendingStep DEF IInv
<1> QED BY <1>2, <1>3, <1>4, <1>5 DEF IInv

\* The kernel finishes an operation.
LEMMA IoFinishesKeeps ==
  ASSUME IInv, NEW o \in Overlaps, IoFinishes(o) PROVE IInv'
<1>1. /\ io[o].st = "flight"
      /\ \/ \E n \in 0..Sum(io[o].bufs) : io' = [io EXCEPT ![o].st = "ok", ![o].n = n]
         \/ io' = [io EXCEPT ![o].st = "failed"]
      /\ UNCHANGED <<hook, inst, inHook, thr, pend, pendLock, ring, total, ringLock, srv, out,
                     wsabuf, calls, slipped, lent, misread, shown>>
  BY DEF IoFinishes, hookVars, pendVars, ringVars, srvVars, histVars, ioVars
<1>2. io \in [Overlaps -> Io] /\ io[o] \in Io /\ Sum(io[o].bufs) \in Nat
  <2>1. io \in [Overlaps -> Io] /\ io[o] \in Io /\ io[o].bufs \in Seq(Nat)
    BY DEF IInv, TypeOK, Io
  <2> QED BY <2>1, SumType
<1>3. \E x \in Io : /\ io' = [io EXCEPT ![o] = x] /\ x.call = io[o].call /\ x.arr = io[o].arr
                    /\ x.st \in {"ok", "failed"}
  <2>1. CASE io' = [io EXCEPT ![o].st = "failed"]
    <3> DEFINE x == [io[o] EXCEPT !.st = "failed"]
    <3>1. x \in Io /\ x.call = io[o].call /\ x.arr = io[o].arr /\ x.st = "failed"
      BY <1>2 DEF Io
    <3>2. io' = [io EXCEPT ![o] = x]
      BY <1>2, <2>1
    <3> HIDE DEF x
    <3> QED BY <3>1, <3>2
  <2>2. CASE \E n \in 0..Sum(io[o].bufs) : io' = [io EXCEPT ![o].st = "ok", ![o].n = n]
    <3>1. PICK n \in 0..Sum(io[o].bufs) : io' = [io EXCEPT ![o].st = "ok", ![o].n = n]
      BY <2>2
    <3> DEFINE x == [io[o] EXCEPT !.st = "ok", !.n = n]
    <3>2. n \in Nat
      BY <1>2
    <3>3. x \in Io /\ x.call = io[o].call /\ x.arr = io[o].arr /\ x.st = "ok"
      BY <1>2, <3>2 DEF Io
    <3>4. io' = [io EXCEPT ![o] = x]
      BY <1>2, <3>1
    <3> HIDE DEF x
    <3> QED BY <3>3, <3>4
  <2> QED BY <1>1, <2>1, <2>2
<1>4. /\ io' \in [Overlaps -> Io]
      /\ \A p \in Overlaps :
           /\ io'[p].call = io[p].call /\ io'[p].arr = io[p].arr
           /\ \/ io'[p].st = io[p].st
              \/ {io[p].st, io'[p].st} \subseteq {"flight", "ok", "failed"}
  BY <1>1, <1>2, <1>3
<1>5. TypeOK'
  BY <1>1, <1>4 DEF IInv, TypeOK
<1>6. Locks'
  BY <1>1 DEF IInv, Locks
<1>7. Server \in Actors /\ Alone(Server) /\ PendShrinks /\ StillUnregistered(Server)
  BY <1>1 DEF Actors, Alone, PendShrinks, StillUnregistered, Unregistered
<1>8. Frames'
  BY <1>1, <1>7, FramesStep DEF IInv
<1>9. calls <= calls' /\ HistGrows /\ shown' = shown /\ thr' = thr /\ wsabuf' = wsabuf
  BY <1>1 DEF IInv, TypeOK, HistGrows
<1>10. thr'[Server].pc \in Looking => thr'[Server].todo \subseteq thr'[Server].held
  BY <1>7, <1>9 DEF IInv, Owned
<1> QED BY <1>4, <1>5, <1>6, <1>7, <1>8, <1>9, <1>10, PlainStep

\* A step of t that leaves the kernel, the ring and the histories alone, and
\* does not abandon a completion.
LEMMA PcStep ==
  ASSUME IInv, NEW t \in Actors, NEW n \in Thr, thr' = [thr EXCEPT ![t] = n],
         n.held = thr[t].held, n.todo = thr[t].todo, n.call = thr[t].call,
         n.arr = thr[t].arr,
         n.pc \in {"register", "insert"} => Unregistered(t),
         thr[t].pc \notin Looking => n.pc \notin Looking,
         thr[t].pc \in Looking => n.pc \in Looking \/ thr[t].todo = {},
         thr[t].pc = "evict" => n.pc = "evict",
         PendShrinks, pend' \in [DOMAIN pend' -> Entry], pendLock' \in Actors \cup {NoOne},
         inHook' \in [Actors -> BOOLEAN], Locks',
         UNCHANGED <<hook, inst, io, wsabuf, ring, total, ringLock, srv, out, calls, slipped, lent, misread, shown>>
  PROVE  IInv'
<1>1. thr' \in [Actors -> Thr] /\ thr'[t] = n /\ Alone(t)
  BY Moved DEF IInv
<1>2. TypeOK'
  <2>1. DOMAIN pend' \subseteq Overlaps
    BY DEF IInv, TypeOK, PendShrinks
  <2> QED BY <1>1, <2>1 DEF IInv, TypeOK
<1>3. Frames'
  BY <1>1, FramesStep DEF IInv
<1>4. StillUnregistered(t)
  BY <1>1 DEF StillUnregistered, Unregistered
<1>5. /\ HistGrows /\ shown' = shown /\ calls <= calls' /\ wsabuf' = wsabuf
      /\ thr'[t].held \subseteq thr[t].held
  BY <1>1 DEF IInv, TypeOK, HistGrows
<1>6. thr'[t].pc \in Looking => thr'[t].todo \subseteq thr'[t].held
  BY <1>1 DEF IInv, Owned
<1>7. thr[t].pc \in Looking => \A o \in thr[t].todo : thr'[t].pc \in Looking /\ o \in thr'[t].todo
  BY <1>1
<1> QED BY <1>1, <1>2, <1>3, <1>4, <1>5, <1>6, <1>7, PlainStep

\* A new place in the detour.
LEMMA AtPc ==
  ASSUME IInv, NEW t \in Actors, NEW p \in Pcs
  PROVE  LET n == [thr[t] EXCEPT !.pc = p] IN
         /\ n \in Thr /\ n.pc = p /\ n.held = thr[t].held /\ n.todo = thr[t].todo
         /\ n.call = thr[t].call /\ n.sock = thr[t].sock /\ n.arr = thr[t].arr
         /\ [thr EXCEPT ![t].pc = p] = [thr EXCEPT ![t] = n]
<1>1. thr[t] \in Thr /\ thr \in [Actors -> Thr]
  BY DEF IInv, TypeOK
<1>2. [thr[t] EXCEPT !.pc = p] \in Thr
  BY <1>1 DEF Thr
<1> QED BY <1>1, <1>2 DEF Thr

\* A thread goes to wait, its wait times out, or it is done with a scan.
LEMMA WaitBeginsKeeps ==
  ASSUME IInv, NEW t \in Threads, WaitBegins(t) PROVE IInv'
<1>0. t \in Actors /\ t # Server
  BY ActorsAssumption DEF Actors
<1>1. /\ thr[t].pc = "idle" /\ inHook' = [inHook EXCEPT ![t] = TRUE]
      /\ thr' = [thr EXCEPT ![t].pc = "wait"]
      /\ UNCHANGED <<hook, inst, io, wsabuf, pend, pendLock, ring, total, ringLock, srv, out, calls,
                     slipped, lent, misread, shown>>
  BY DEF WaitBegins, hookVars, pendVars, ringVars, srvVars, histVars, ioVars
<1> DEFINE n == [thr[t] EXCEPT !.pc = "wait"]
<1>2. /\ n \in Thr /\ n.pc = "wait" /\ n.held = thr[t].held /\ n.todo = thr[t].todo
      /\ n.call = thr[t].call /\ n.arr = thr[t].arr /\ thr' = [thr EXCEPT ![t] = n]
  BY <1>0, <1>1, AtPc DEF Pcs
<1> HIDE DEF n
<1>3. thr'[t] = n /\ Alone(t)
  BY <1>0, <1>2, Moved DEF IInv
<1>4. Locks'
  BY <1>0, <1>1, <1>2, <1>3 DEF IInv, Locks, Alone, TypeOK, Actors
<1>5. PendShrinks /\ pend' \in [DOMAIN pend' -> Entry] /\ pendLock' \in Actors \cup {NoOne}
      /\ inHook' \in [Actors -> BOOLEAN]
  BY <1>1 DEF PendShrinks, IInv, TypeOK
<1> QED BY <1>0, <1>1, <1>2, <1>4, <1>5, PcStep DEF Looking

LEMMA WaitTimesOutKeeps ==
  ASSUME IInv, NEW t \in Threads, WaitTimesOut(t) PROVE IInv'
<1>0. t \in Actors /\ t # Server
  BY ActorsAssumption DEF Actors
<1>1. /\ thr[t].pc = "wait" /\ thr' = [thr EXCEPT ![t].pc = "leave"]
      /\ UNCHANGED <<hook, inst, inHook, io, wsabuf, pend, pendLock, ring, total, ringLock, srv, out,
                     calls, slipped, lent, misread, shown>>
  BY DEF WaitTimesOut, hookVars, pendVars, ringVars, srvVars, histVars, ioVars
<1> DEFINE n == [thr[t] EXCEPT !.pc = "leave"]
<1>2. /\ n \in Thr /\ n.pc = "leave" /\ n.held = thr[t].held /\ n.todo = thr[t].todo
      /\ n.call = thr[t].call /\ n.arr = thr[t].arr /\ thr' = [thr EXCEPT ![t] = n]
  BY <1>0, <1>1, AtPc DEF Pcs
<1> HIDE DEF n
<1>3. thr'[t] = n /\ Alone(t)
  BY <1>0, <1>2, Moved DEF IInv
<1>4. Locks'
  BY <1>0, <1>1, <1>2, <1>3 DEF IInv, Locks, Alone, Actors
<1>5. PendShrinks /\ pend' \in [DOMAIN pend' -> Entry] /\ pendLock' \in Actors \cup {NoOne}
      /\ inHook' \in [Actors -> BOOLEAN]
  BY <1>1 DEF PendShrinks, IInv, TypeOK
<1> QED BY <1>0, <1>1, <1>2, <1>4, <1>5, PcStep DEF Looking

LEMMA ScanEndsKeeps ==
  ASSUME IInv, NEW t \in Actors, ScanEnds(t) PROVE IInv'
<1>1. /\ thr[t].pc = "scan" /\ thr[t].todo = {} /\ pendLock' = NoOne
      /\ thr' = [thr EXCEPT ![t].pc = "leave"]
      /\ UNCHANGED <<hook, inst, inHook, io, wsabuf, pend, ring, total, ringLock, srv, out,
                     calls, slipped, lent, misread, shown>>
  BY DEF ScanEnds, hookVars, ringVars, srvVars, histVars, ioVars
<1>0. t # Server /\ t # NoOne /\ NoOne \notin Actors
  BY <1>1, ActorsAssumption DEF IInv, Locks
<1> DEFINE n == [thr[t] EXCEPT !.pc = "leave"]
<1>2. /\ n \in Thr /\ n.pc = "leave" /\ n.held = thr[t].held /\ n.todo = thr[t].todo
      /\ n.call = thr[t].call /\ n.arr = thr[t].arr /\ thr' = [thr EXCEPT ![t] = n]
  BY <1>1, AtPc DEF Pcs
<1> HIDE DEF n
<1>3. thr'[t] = n /\ Alone(t)
  BY <1>2, Moved DEF IInv
<1>4. Locks'
  <2>1. pendLock = t
    BY <1>1 DEF IInv, Locks
  <2> QED BY <1>0, <1>1, <1>2, <1>3, <2>1 DEF IInv, Locks, Alone, TypeOK, Actors
<1>5. PendShrinks /\ pend' \in [DOMAIN pend' -> Entry] /\ pendLock' \in Actors \cup {NoOne}
      /\ inHook' \in [Actors -> BOOLEAN]
  BY <1>1 DEF PendShrinks, IInv, TypeOK
<1> QED BY <1>1, <1>2, <1>4, <1>5, PcStep DEF Looking

\* An array is done.
LEMMA WalkEndsKeeps ==
  ASSUME IInv, NEW t \in Actors, WalkEnds(t) PROVE IInv'
<1> DEFINE p == IF pendLock = t THEN "scan" ELSE "leave"
           n == [thr[t] EXCEPT !.pc = p]
<1>1. /\ thr[t].pc = "walk" /\ thr' = [thr EXCEPT ![t].pc = p]
      /\ UNCHANGED <<hook, inst, inHook, io, wsabuf, pend, pendLock, ring, total, ringLock, srv, out,
                     calls, slipped, lent, misread, shown>>
  BY DEF WalkEnds, hookVars, pendVars, ringVars, srvVars, histVars, ioVars
<1>2. p \in Pcs /\ (pendLock = t => p = "scan") /\ (pendLock # t => p = "leave")
  BY DEF Pcs
<1> HIDE DEF p
<1>3. /\ n \in Thr /\ n.pc = p /\ n.held = thr[t].held /\ n.todo = thr[t].todo
      /\ n.call = thr[t].call /\ n.arr = thr[t].arr /\ thr' = [thr EXCEPT ![t] = n]
  BY <1>1, <1>2, AtPc
<1> HIDE DEF n
<1>4. thr'[t] = n /\ Alone(t)
  BY <1>3, Moved DEF IInv
<1>5. Locks'
  BY <1>1, <1>2, <1>3, <1>4, ActorsAssumption DEF IInv, Locks, Alone, TypeOK, Actors
<1>6. PendShrinks /\ pend' \in [DOMAIN pend' -> Entry] /\ pendLock' \in Actors \cup {NoOne}
      /\ inHook' \in [Actors -> BOOLEAN]
  BY <1>1 DEF PendShrinks, IInv, TypeOK
<1>7. n.pc \in Looking \/ thr[t].todo = {}
  BY <1>1, <1>2, <1>3 DEF IInv, Locks, Looking
<1>8. n.pc \notin {"register", "insert"} /\ thr[t].pc \in Looking
  BY <1>1, <1>2, <1>3 DEF Looking
<1> QED BY <1>1, <1>3, <1>5, <1>6, <1>7, <1>8, PcStep

\* closesocket drops the entries of its socket.
LEMMA RetainKeeps ==
  ASSUME IInv, NEW t \in Actors, Retain(t) PROVE IInv'
<1>1. /\ thr[t].pc = "retain" /\ pendLock' = NoOne
      /\ pend' = Restrict(pend, {o \in DOMAIN pend : pend[o].sock # thr[t].sock})
      /\ thr' = [thr EXCEPT ![t].pc = "shut"]
      /\ UNCHANGED <<hook, inst, inHook, io, wsabuf, ring, total, ringLock, srv, out,
                     calls, slipped, lent, misread, shown>>
  BY DEF Retain, hookVars, ringVars, srvVars, histVars, ioVars
<1>0. t # Server /\ t # NoOne /\ NoOne \notin Actors /\ Server \in Actors
  BY <1>1, ActorsAssumption DEF IInv, Locks, Actors
<1> DEFINE n == [thr[t] EXCEPT !.pc = "shut"]
<1>2. /\ n \in Thr /\ n.pc = "shut" /\ n.held = thr[t].held /\ n.todo = thr[t].todo
      /\ n.call = thr[t].call /\ n.arr = thr[t].arr /\ thr' = [thr EXCEPT ![t] = n]
  BY <1>1, AtPc DEF Pcs
<1> HIDE DEF n
<1>3. thr'[t] = n /\ Alone(t)
  BY <1>2, Moved DEF IInv
<1>4. Locks'
  <2>1. pendLock = t
    BY <1>1 DEF IInv, Locks
  <2> QED BY <1>0, <1>1, <1>2, <1>3, <2>1 DEF IInv, Locks, Alone, TypeOK, Actors
<1>5. PendShrinks /\ pend' \in [DOMAIN pend' -> Entry]
  <2>1. pend \in [DOMAIN pend -> Entry]
    BY DEF IInv, TypeOK
  <2> QED BY <1>1, <2>1 DEF PendShrinks, Restrict
<1>6. inHook' \in [Actors -> BOOLEAN] /\ pendLock' \in Actors \cup {NoOne}
  BY <1>1 DEF IInv, TypeOK
<1> QED BY <1>1, <1>2, <1>4, <1>5, <1>6, PcStep DEF Looking

\* try_lock of PENDING.
LEMMA TryPendingKeeps ==
  ASSUME IInv, NEW t \in Actors, TryPending(t) PROVE IInv'
<1> DEFINE next == [register |-> "insert", complete |-> "scan", close |-> "retain"]
<1>1. /\ thr[t].pc \in {"register", "complete", "close"}
      /\ UNCHANGED <<hook, inst, inHook, io, wsabuf, pend, ring, total, ringLock, srv, out, calls,
                     lent, misread, shown>>
  BY DEF TryPending, hookVars, ringVars, srvVars, ioVars
<1>0. t # Server /\ t # NoOne /\ NoOne \notin Actors /\ Server \in Actors /\ t \in Threads
  BY <1>1, ActorsAssumption DEF IInv, Locks, Actors
<1>t. thr[t] \in Thr /\ thr \in [Actors -> Thr]
  BY DEF IInv, TypeOK
<1>2. CASE pendLock = NoOne
  <2>1. /\ pendLock' = t /\ thr' = [thr EXCEPT ![t].pc = next[@]] /\ slipped' = slipped
    BY <1>2 DEF TryPending
  <2> DEFINE p == next[thr[t].pc]
             n == [thr[t] EXCEPT !.pc = p]
  <2>2. /\ p \in Pcs /\ (thr[t].pc = "register" => p = "insert")
        /\ (thr[t].pc = "complete" => p = "scan") /\ (thr[t].pc = "close" => p = "retain")
    BY <1>1 DEF Pcs
  <2>3. thr' = [thr EXCEPT ![t].pc = p]
    BY <1>t, <2>1
  <2> HIDE DEF p
  <2>4. /\ n \in Thr /\ n.pc = p /\ n.held = thr[t].held /\ n.todo = thr[t].todo
        /\ n.call = thr[t].call /\ n.arr = thr[t].arr /\ thr' = [thr EXCEPT ![t] = n]
    BY <2>2, <2>3, AtPc
  <2> HIDE DEF n
  <2>5. thr'[t] = n /\ Alone(t)
    BY <2>4, Moved DEF IInv
  <2>6. Locks'
    BY <1>0, <1>1, <1>2, <2>1, <2>2, <2>4, <2>5 DEF IInv, Locks, Alone, TypeOK, Actors
  <2>7. PendShrinks /\ pend' \in [DOMAIN pend' -> Entry] /\ pendLock' \in Actors \cup {NoOne}
        /\ inHook' \in [Actors -> BOOLEAN]
    BY <1>1, <2>1 DEF PendShrinks, IInv, TypeOK
  <2>8. /\ n.pc \in {"register", "insert"} => Unregistered(t)
        /\ thr[t].pc \in Looking => n.pc \in Looking
        /\ thr[t].pc \notin Looking => n.pc \notin Looking
        /\ thr[t].pc # "evict"
    BY <1>1, <2>2, <2>4 DEF Unregistered, Looking
  <2> QED BY <1>1, <2>1, <2>4, <2>6, <2>7, <2>8, PcStep
<1>3. CASE pendLock # NoOne
  <2> DEFINE p == IF thr[t].pc = "close" THEN "shut" ELSE "leave"
             n == [thr[t] EXCEPT !.pc = p]
             gone == IF thr[t].pc = "complete" THEN {io[o].call : o \in thr[t].todo} ELSE {}
  <2>1. /\ pendLock' = pendLock /\ slipped' = slipped \cup gone
        /\ thr' = [thr EXCEPT ![t].pc = IF @ = "close" THEN "shut" ELSE "leave"]
    BY <1>3 DEF TryPending
  <2>2. p \in Pcs /\ (thr[t].pc = "close" => p = "shut") /\ (thr[t].pc # "close" => p = "leave")
    BY DEF Pcs
  <2>3. thr' = [thr EXCEPT ![t].pc = p]
    BY <1>t, <2>1
  <2>4. gone \subseteq 0..MaxCalls
    <3>1. thr[t].todo \subseteq Overlaps /\ \A o \in Overlaps : io[o].call \in 0..MaxCalls
      BY <1>t DEF IInv, TypeOK, Thr, Io
    <3> QED BY <3>1
  <2>5. thr[t].pc = "complete" => \A o \in thr[t].todo : io[o].call \in slipped'
    BY <2>1
  <2> HIDE DEF p, gone
  <2>6. /\ n \in Thr /\ n.pc = p /\ n.held = thr[t].held /\ n.todo = thr[t].todo
        /\ n.call = thr[t].call /\ n.arr = thr[t].arr /\ thr' = [thr EXCEPT ![t] = n]
    BY <2>2, <2>3, AtPc
  <2> HIDE DEF n
  <2>7. thr' \in [Actors -> Thr] /\ thr'[t] = n /\ Alone(t)
    BY <2>6, Moved DEF IInv
  <2>8. Locks'
    BY <1>0, <1>1, <1>3, <2>1, <2>2, <2>6, <2>7 DEF IInv, Locks, Alone, Actors
  <2>9. TypeOK'
    BY <1>1, <2>1, <2>4, <2>7 DEF IInv, TypeOK
  <2>10. Frames'
    BY <1>1, <2>7, FramesStep DEF IInv
  <2>11. /\ PendShrinks /\ StillUnregistered(t) /\ HistGrows /\ shown' = shown /\ wsabuf' = wsabuf
         /\ calls <= calls' /\ thr'[t].held \subseteq thr[t].held /\ thr'[t].pc \notin Looking
    BY <1>1, <2>1, <2>2, <2>6, <2>7
       DEF PendShrinks, StillUnregistered, Unregistered, Looking, HistGrows, IInv, TypeOK
  <2>12. thr[t].pc \in Looking => \A o \in thr[t].todo : io[o].call \in slipped'
    BY <1>1, <2>5 DEF Looking
  <2> QED BY <1>1, <2>7, <2>8, <2>9, <2>10, <2>11, <2>12, PlainStep
<1> QED BY <1>2, <1>3

\* The original closesocket aborts what is in flight.
LEMMA ShutKeeps ==
  ASSUME IInv, NEW t \in Actors, Shut(t) PROVE IInv'
<1>1. /\ thr[t].pc = "shut"
      /\ io' = [o \in Overlaps |-> IF io[o].st = "flight" /\ io[o].sock = thr[t].sock
                                        /\ ~Unready("closesocket")
                                   THEN [io[o] EXCEPT !.st = "failed"] ELSE io[o]]
      /\ thr' = [thr EXCEPT ![t] = Idle]
      /\ UNCHANGED <<hook, inst, inHook, wsabuf, pend, pendLock, ring, total, ringLock, srv, out,
                     calls, slipped, lent, misread, shown>>
  BY DEF Shut, hookVars, pendVars, ringVars, srvVars, histVars, ioVars
<1>0. t # Server
  BY <1>1 DEF IInv, Locks
<1>2. Idle \in Thr /\ Idle.pc = "idle" /\ Idle.held = {}
  BY IdleThr DEF Idle
<1>3. thr' \in [Actors -> Thr] /\ thr'[t] = Idle /\ Alone(t)
  BY <1>1, <1>2, Moved DEF IInv
<1>4. ASSUME NEW o \in Overlaps
      PROVE  /\ io'[o] \in Io /\ io'[o].call = io[o].call /\ io'[o].arr = io[o].arr
             /\ \/ io'[o].st = io[o].st
                \/ {io[o].st, io'[o].st} \subseteq {"flight", "ok", "failed"}
  <2>1. io[o] \in Io
    BY DEF IInv, TypeOK
  <2>2. CASE io[o].st = "flight" /\ io[o].sock = thr[t].sock /\ ~Unready("closesocket")
    <3>1. io'[o] = [io[o] EXCEPT !.st = "failed"]
      BY <1>1, <2>2
    <3> QED BY <2>1, <2>2, <3>1 DEF Io
  <2>3. CASE ~(io[o].st = "flight" /\ io[o].sock = thr[t].sock /\ ~Unready("closesocket"))
    <3>1. io'[o] = io[o]
      BY <1>1, <2>3
    <3> QED BY <2>1, <3>1
  <2> QED BY <2>2, <2>3
<1>5. io' \in [Overlaps -> Io]
  BY <1>1, <1>4
<1>6. TypeOK'
  BY <1>1, <1>3, <1>5 DEF IInv, TypeOK
<1>7. Locks'
  BY <1>0, <1>1, <1>2, <1>3 DEF IInv, Locks, Alone, TypeOK, Actors
<1>8. Frames'
  BY <1>1, <1>3, FramesStep DEF IInv
<1>9. /\ PendShrinks /\ StillUnregistered(t) /\ HistGrows /\ shown' = shown /\ wsabuf' = wsabuf
      /\ calls <= calls' /\ thr'[t].held \subseteq thr[t].held /\ thr'[t].pc \notin Looking
      /\ thr[t].pc \notin Looking
  BY <1>1, <1>2, <1>3 DEF PendShrinks, StillUnregistered, Unregistered, Looking, HistGrows, IInv, TypeOK
<1> QED BY <1>3, <1>4, <1>6, <1>7, <1>8, <1>9, PlainStep

\* A call that a half-installed hook refuses.
LEMMA RefusedKeeps ==
  ASSUME IInv, NEW t \in Threads, Refused(t) PROVE IInv'
<1>0. t \in Actors /\ Server # t
  BY ActorsAssumption DEF Actors
<1>1. /\ thr[t].pc = "idle" /\ calls < MaxCalls /\ calls' = calls + 1
      /\ inHook' = [inHook EXCEPT ![t] = TRUE] /\ thr' = [thr EXCEPT ![t].pc = "leave"]
      /\ UNCHANGED <<hook, inst, io, wsabuf, pend, pendLock, ring, total, ringLock, srv, out,
                     slipped, lent, misread, shown>>
  BY DEF Refused, NewCall, hookVars, pendVars, ringVars, srvVars, histVars, ioVars
<1> DEFINE n == [thr[t] EXCEPT !.pc = "leave"]
<1>2. /\ n \in Thr /\ n.pc = "leave" /\ n.held = thr[t].held /\ n.todo = thr[t].todo
      /\ n.call = thr[t].call /\ n.arr = thr[t].arr /\ thr' = [thr EXCEPT ![t] = n]
  BY <1>0, <1>1, AtPc DEF Pcs
<1> HIDE DEF n
<1>3. thr' \in [Actors -> Thr] /\ thr'[t] = n /\ Alone(t)
  BY <1>0, <1>2, Moved DEF IInv
<1>4. calls' \in 0..MaxCalls /\ calls <= calls'
  BY <1>1, CapsAssumption DEF IInv, TypeOK
<1>5. TypeOK'
  BY <1>1, <1>3, <1>4 DEF IInv, TypeOK
<1>6. Locks'
  BY <1>0, <1>1, <1>2, <1>3 DEF IInv, Locks, Alone, TypeOK, Actors
<1>7. Frames'
  BY <1>0, <1>1, <1>3, FramesStep DEF IInv
<1>8. /\ PendShrinks /\ StillUnregistered(t) /\ HistGrows /\ shown' = shown /\ wsabuf' = wsabuf
      /\ thr'[t].held \subseteq thr[t].held /\ thr'[t].pc \notin Looking /\ thr[t].pc \notin Looking
  BY <1>1, <1>2, <1>3 DEF PendShrinks, StillUnregistered, Unregistered, Looking, HistGrows
<1>9. io' = io
  BY <1>1
<1> QED BY <1>0, <1>3, <1>4, <1>5, <1>6, <1>7, <1>8, <1>9, PlainStep

LEMMA CloseBeginsKeeps ==
  ASSUME IInv, NEW t \in Threads, CloseBegins(t) PROVE IInv'
<1>0. t \in Actors /\ Server # t
  BY ActorsAssumption DEF Actors
<1>1. PICK s \in Sockets : thr' = [thr EXCEPT ![t] = [Idle EXCEPT !.pc = "close", !.sock = s]]
  BY DEF CloseBegins
<1>2. /\ thr[t].pc = "idle" /\ calls < MaxCalls /\ calls' = calls + 1
      /\ UNCHANGED <<hook, inst, inHook, io, wsabuf, pend, pendLock, ring, total, ringLock, srv, out,
                     slipped, lent, misread, shown>>
  BY DEF CloseBegins, NewCall, hookVars, pendVars, ringVars, srvVars, histVars, ioVars
<1> DEFINE n == [Idle EXCEPT !.pc = "close", !.sock = s]
<1>3. n \in Thr /\ n.pc = "close" /\ n.held = {}
  <2>1. Idle \in Thr
    BY IdleThr
  <2>2. n \in Thr
    BY <2>1 DEF Thr, Pcs
  <2> QED BY <2>2 DEF Idle
<1> HIDE DEF n
<1>4. thr' \in [Actors -> Thr] /\ thr'[t] = n /\ Alone(t)
  BY <1>0, <1>1, <1>3, Moved DEF IInv, n
<1>5. calls' \in 0..MaxCalls /\ calls <= calls'
  BY <1>2, CapsAssumption DEF IInv, TypeOK
<1>6. TypeOK'
  BY <1>2, <1>4, <1>5 DEF IInv, TypeOK
<1>7. Locks'
  BY <1>0, <1>2, <1>3, <1>4 DEF IInv, Locks, Alone, TypeOK, Actors
<1>8. Frames'
  BY <1>0, <1>2, <1>4, FramesStep DEF IInv
<1>9. /\ PendShrinks /\ StillUnregistered(t) /\ HistGrows /\ shown' = shown /\ wsabuf' = wsabuf
      /\ thr'[t].held \subseteq thr[t].held /\ thr'[t].pc \notin Looking /\ thr[t].pc \notin Looking
  BY <1>2, <1>3, <1>4 DEF PendShrinks, StillUnregistered, Unregistered, Looking, HistGrows
<1>10. io' = io
  BY <1>2
<1> QED BY <1>0, <1>4, <1>5, <1>6, <1>7, <1>8, <1>9, <1>10, PlainStep

\* A completion that the detours do not see.
LEMMA UnseenCompletionKeeps ==
  ASSUME IInv, UnseenCompletion PROVE IInv'
<1>1. PICK o \in Queued : io' = [io EXCEPT ![o] = FreeIo] /\ slipped' = slipped \cup {io[o].call}
  BY DEF UnseenCompletion
<1>2. UNCHANGED <<hook, inst, inHook, thr, wsabuf, pend, pendLock, ring, total, ringLock, srv, out,
                  calls, lent, misread, shown>>
  BY DEF UnseenCompletion, hookVars, pendVars, ringVars, srvVars
<1>3. o \in Overlaps /\ io[o].st \in {"ok", "failed"} /\ io \in [Overlaps -> Io]
      /\ io[o].call \in 0..MaxCalls /\ FreeIo \in Io /\ FreeIo.call = 0
  BY IdleThr DEF FreeIo, Queued, IInv, TypeOK, Io
<1>4. io' \in [Overlaps -> Io] /\ io'[o] = FreeIo /\ \A p \in Overlaps \ {o} : io'[p] = io[p]
  BY <1>1, <1>3
<1>5. TypeOK'
  BY <1>1, <1>2, <1>3, <1>4 DEF IInv, TypeOK
<1>6. Locks'
  BY <1>2 DEF IInv, Locks
<1>7. Server \in Actors /\ Alone(Server) /\ PendShrinks /\ StillUnregistered(Server) /\ HistGrows
  BY <1>1, <1>2 DEF Actors, Alone, PendShrinks, StillUnregistered, Unregistered, HistGrows
<1>8. Frames'
  BY <1>2, <1>7, FramesStep DEF IInv
<1>9. Unread'
  <2>1. calls' \in Nat /\ calls <= calls' /\ \A x \in Addrs : wsabuf'[x].call <= calls'
    BY <1>2 DEF IInv, TypeOK, Unread
  <2> QED BY <1>2, <1>7, <2>1, UnreadStep DEF IInv
<1>10. Owned'
  <2>1. \A p \in Overlaps : io[p].st = "taken" => io'[p].st = "taken"
    BY <1>3, <1>4
  <2> QED BY <1>2, <1>7, <2>1, OwnedStep DEF IInv, Owned
<1>11. Waiting'
  <2>1. ASSUME NEW p \in Overlaps, NEW c, Awaited(p, c) PROVE StaysAwaited(p, c) \/ c \in slipped'
    <3>1. CASE p = o
      BY <1>1, <2>1, <3>1 DEF Awaited
    <3>2. CASE p # o
      BY <1>2, <1>4, <1>7, <2>1, <3>2, AwaitedStep
    <3> QED BY <3>1, <3>2
  <2> QED BY <1>1, <1>7, <2>1, WaitingStep DEF IInv
<1>12. Lending'
  <2>1. \A p \in Overlaps : (io'[p].call = io[p].call /\ io'[p].arr = io[p].arr) \/ io'[p].call = 0
    BY <1>3, <1>4
  <2> QED BY <1>2, <1>7, <2>1, LendingStep DEF IInv
<1> QED BY <1>5, <1>6, <1>8, <1>9, <1>10, <1>11, <1>12 DEF IInv

\* The original returns with completions.
LEMMA WaitReturnsKeeps ==
  ASSUME IInv, NEW t \in Threads, WaitReturns(t) PROVE IInv'
<1>0. t \in Actors /\ Server # t
  BY ActorsAssumption DEF Actors
<1>1. PICK os \in SUBSET Queued \ {{}}, ex \in BOOLEAN :
       LET lost == \E o \in os : ~ex /\ io[o].st = "failed" IN
       /\ ex \/ Cardinality(os) = 1
       /\ io' = [o \in Overlaps |-> IF o \in os THEN [io[o] EXCEPT !.st = "taken"] ELSE io[o]]
       /\ thr' = [thr EXCEPT ![t].pc = IF lost THEN "leave" ELSE "complete",
                             ![t].todo = os, ![t].held = os]
       /\ slipped' = slipped \cup (IF lost THEN {io[o].call : o \in os} ELSE {})
  BY DEF WaitReturns
<1>2. /\ thr[t].pc = "wait"
      /\ UNCHANGED <<hook, inst, inHook, wsabuf, pend, pendLock, ring, total, ringLock, srv, out,
                     calls, lent, misread, shown>>
  BY DEF WaitReturns, hookVars, pendVars, ringVars, srvVars
<1> DEFINE lost == \E o \in os : ~ex /\ io[o].st = "failed"
           p == IF lost THEN "leave" ELSE "complete"
           n == [thr[t] EXCEPT !.pc = p, !.todo = os, !.held = os]
           gone == IF lost THEN {io[o].call : o \in os} ELSE {}
<1>3. os \subseteq Overlaps /\ \A o \in os : io[o].st \in {"ok", "failed"}
  BY DEF Queued
<1>4. p \in {"leave", "complete"} /\ slipped' = slipped \cup gone
      /\ (p = "leave" => \A o \in os : io[o].call \in slipped')
  BY <1>1
<1>5. gone \subseteq 0..MaxCalls
  <2>1. \A o \in Overlaps : io[o].call \in 0..MaxCalls
    BY DEF IInv, TypeOK, Io
  <2> QED BY <1>3, <2>1
<1>6. thr' = [thr EXCEPT ![t] = n]
  <2>1. thr' = [thr EXCEPT ![t].pc = p, ![t].todo = os, ![t].held = os]
    BY <1>1
  <2>2. thr \in [Actors -> Thr]
    BY DEF IInv, TypeOK
  <2> HIDE DEF p
  <2> QED BY <1>0, <2>1, <2>2
<1> HIDE DEF lost, p, gone
<1>7. n \in Thr /\ n.pc = p /\ n.todo = os /\ n.held = os
  <2>1. thr[t] \in Thr
    BY <1>0 DEF IInv, TypeOK
  <2> QED BY <1>3, <1>4, <2>1 DEF Thr, Pcs
<1> HIDE DEF n
<1>8. thr' \in [Actors -> Thr] /\ thr'[t] = n /\ Alone(t)
  BY <1>0, <1>6, <1>7, Moved DEF IInv
<1>9. ASSUME NEW o \in Overlaps
      PROVE  /\ io'[o] \in Io /\ io'[o].call = io[o].call /\ io'[o].arr = io[o].arr
             /\ o \in os => io'[o].st = "taken"
             /\ o \notin os => io'[o] = io[o]
  <2>1. io[o] \in Io
    BY DEF IInv, TypeOK
  <2>2. CASE o \in os
    <3>1. io'[o] = [io[o] EXCEPT !.st = "taken"]
      BY <1>1, <2>2
    <3> QED BY <2>1, <2>2, <3>1 DEF Io
  <2>3. CASE o \notin os
    <3>1. io'[o] = io[o]
      BY <1>1, <2>3
    <3> QED BY <2>1, <2>3, <3>1
  <2> QED BY <2>2, <2>3
<1>10. io' \in [Overlaps -> Io]
  BY <1>1, <1>9
<1>11. TypeOK'
  BY <1>2, <1>4, <1>5, <1>8, <1>10 DEF IInv, TypeOK
<1>12. Locks'
  BY <1>0, <1>2, <1>4, <1>7, <1>8 DEF IInv, Locks, Alone, TypeOK, Actors
<1>13. Frames'
  BY <1>0, <1>2, <1>8, FramesStep DEF IInv
<1>14. /\ PendShrinks /\ StillUnregistered(t) /\ HistGrows /\ calls' \in Nat
       /\ calls <= calls' /\ shown' = shown /\ \A x \in Addrs : wsabuf'[x].call <= calls'
  BY <1>2, <1>4, <1>7, <1>8
     DEF PendShrinks, StillUnregistered, Unregistered, HistGrows, IInv, TypeOK, Unread
<1>15. Unread'
  BY <1>0, <1>8, <1>14, UnreadStep DEF IInv
<1>16. Owned'
  <2>1. \A u \in Actors \ {t} : /\ thr'[u].held = thr[u].held /\ thr[u].held \cap os = {}
                                /\ thr[u].held \subseteq Overlaps
                                /\ \A o \in thr[u].held : io[o].st = "taken"
    BY <1>3, <1>8 DEF IInv, Owned, Alone, TypeOK, Thr
  <2>2. thr'[t].held = os /\ thr'[t].todo = os
    BY <1>7, <1>8
  <2>3. \A u \in Actors : \A o \in thr'[u].held : io'[o].st = "taken"
    BY <1>3, <1>9, <2>1, <2>2
  <2>4. \A u, v \in Actors : thr'[u].held \cap thr'[v].held # {} => u = v
    BY <2>1, <2>2 DEF IInv, Owned
  <2>5. \A u \in Actors : thr'[u].pc \in Looking => thr'[u].todo \subseteq thr'[u].held
    BY <1>8, <2>2 DEF IInv, Owned, Alone
  <2> QED BY <2>3, <2>4, <2>5 DEF Owned
<1>17. Waiting'
  <2>1. ASSUME NEW o \in Overlaps, NEW c, Awaited(o, c) PROVE StaysAwaited(o, c) \/ c \in slipped'
    <3>0. io[o].call = c
      BY <2>1 DEF Awaited
    <3>1. CASE o \notin os
      BY <1>0, <1>2, <1>8, <1>9, <2>1, <3>1, AwaitedStep DEF Looking
    <3>2. CASE o \in os /\ p = "leave"
      BY <1>4, <3>0, <3>2
    <3>3. CASE o \in os /\ p = "complete"
      <4>1. o \in thr'[t].todo /\ thr'[t].pc = "complete"
        BY <1>7, <1>8, <3>3
      <4> QED BY <1>9, <3>0, <4>1 DEF StaysAwaited, Looking
    <3> QED BY <1>4, <3>1, <3>2, <3>3
  <2> QED BY <1>0, <1>8, <1>14, <2>1, WaitingStep DEF IInv, HistGrows
<1>18. Lending'
  BY <1>0, <1>2, <1>8, <1>9, <1>14, LendingStep DEF IInv
<1> QED BY <1>11, <1>12, <1>13, <1>15, <1>16, <1>17, <1>18 DEF IInv

\* map.insert.
LEMMA InsertKeeps ==
  ASSUME IInv, NEW t \in Actors, Insert(t) PROVE IInv'
<1> DEFINE e == [call |-> thr[t].call, sock |-> thr[t].sock, arr |-> thr[t].arr,
                 count |-> Len(thr[t].bufs)]
           n == [thr[t] EXCEPT !.pc = "leave"]
<1>1. /\ thr[t].pc = "insert" /\ pendLock' = NoOne /\ thr' = [thr EXCEPT ![t].pc = "leave"]
      /\ UNCHANGED <<hook, inst, inHook, io, wsabuf, ring, total, ringLock, srv, out, calls, slipped, lent, misread, shown>>
  BY DEF Insert, hookVars, ringVars, srvVars, histVars, ioVars
<1>0. t # Server /\ t # NoOne /\ NoOne \notin Actors /\ Server \in Actors
  BY <1>1, ActorsAssumption DEF IInv, Locks, Actors
<1>2. PICK o \in thr[t].todo :
        \/ pend' = [p \in DOMAIN pend \cup {o} |-> IF p = o THEN e ELSE pend[p]]
        \/ pend' = pend
  BY DEF Insert
<1>3. /\ n \in Thr /\ n.pc = "leave" /\ n.held = thr[t].held /\ n.todo = thr[t].todo
      /\ n.call = thr[t].call /\ n.arr = thr[t].arr /\ thr' = [thr EXCEPT ![t] = n]
  BY <1>1, AtPc DEF Pcs
<1>4. Unregistered(t) /\ thr[t] \in Thr
  BY <1>1 DEF IInv, TypeOK, Unregistered
<1>5. /\ thr[t].call \in 1..calls /\ (shown[thr[t].call] = 0 \/ Blamed(thr[t].call))
      /\ \A p \in DOMAIN pend : pend[p].call # thr[t].call
      /\ \A u \in Actors : Unregistered(u) /\ thr[u].call = thr[t].call => u = t
  BY <1>4 DEF IInv, Unread
<1>6. thr[t].call \in Calls /\ o \in Overlaps /\ e \in Entry /\ e.call = thr[t].call
      /\ e.arr = thr[t].arr
  <2>1. thr[t].call \in Calls
    BY <1>5, CapsAssumption DEF IInv, TypeOK, Calls
  <2>2. Len(thr[t].bufs) \in Nat
    BY <1>4 DEF Thr
  <2> QED BY <1>4, <2>1, <2>2 DEF Thr, Entry
<1> HIDE DEF n, e
<1>7. thr' \in [Actors -> Thr] /\ thr'[t] = n /\ Alone(t)
  BY <1>3, Moved DEF IInv
<1>8. Locks'
  <2>1. pendLock = t
    BY <1>1 DEF IInv, Locks
  <2> QED BY <1>0, <1>1, <1>3, <1>7, <2>1 DEF IInv, Locks, Alone, TypeOK, Actors
<1>9. CASE pend' = pend
  <2>1. PendShrinks /\ pend' \in [DOMAIN pend' -> Entry] /\ pendLock' \in Actors \cup {NoOne}
        /\ inHook' \in [Actors -> BOOLEAN]
    BY <1>1, <1>9 DEF PendShrinks, IInv, TypeOK
  <2> QED BY <1>1, <1>3, <1>8, <2>1, PcStep DEF Looking
<1>10. CASE pend' = [p \in DOMAIN pend \cup {o} |-> IF p = o THEN e ELSE pend[p]]
  <2>1. /\ DOMAIN pend' = DOMAIN pend \cup {o} /\ pend'[o] = e
        /\ \A p \in DOMAIN pend' : p # o => p \in DOMAIN pend /\ pend'[p] = pend[p]
    BY <1>10
  <2>2. DOMAIN pend' \subseteq Overlaps /\ pend' \in [DOMAIN pend' -> Entry]
    <3>1. DOMAIN pend \subseteq Overlaps /\ \A p \in DOMAIN pend : pend[p] \in Entry
      BY DEF IInv, TypeOK
    <3> QED BY <1>6, <1>10, <2>1, <3>1
  <2>3. TypeOK'
    BY <1>1, <1>7, <2>2 DEF IInv, TypeOK
  <2>4. Frames'
    BY <1>1, <1>7, FramesStep DEF IInv
  <2>5. Owned'
    <3>1. thr'[t].held \subseteq thr[t].held /\ thr'[t].pc \notin Looking
      BY <1>3, <1>7 DEF Looking
    <3> QED BY <1>1, <1>7, <3>1, OwnedStep DEF IInv
  <2>6. \A u \in Actors : Unregistered(u)' => u # t /\ Unregistered(u) /\ thr'[u] = thr[u]
    BY <1>3, <1>7 DEF Alone, Unregistered
  <2>7. Unread'
    <3>b. \A c : Blamed(c) => StaysBlamed(c)
      BY <1>1 DEF Blamed, StaysBlamed
    <3>1. \A c \in Calls : (shown'[c] <= 1 \/ StaysBlamed(c)) /\ (c > calls' => shown'[c] = 0)
      BY <1>1, <3>b DEF IInv, Unread
    <3>2. \A p \in DOMAIN pend' :
            pend'[p].call <= calls' /\ (shown'[pend'[p].call] = 0 \/ StaysBlamed(pend'[p].call))
      BY <1>1, <1>5, <1>6, <2>1, <3>b DEF IInv, Unread
    <3>3. \A p, q \in DOMAIN pend' : pend'[p].call = pend'[q].call => p = q
      BY <1>5, <1>6, <2>1 DEF IInv, Unread
    <3>4. ASSUME NEW u \in Actors, Unregistered(u)'
          PROVE  /\ thr'[u].call \in 1..calls'
                 /\ shown'[thr'[u].call] = 0 \/ StaysBlamed(thr'[u].call)
                 /\ \A p \in DOMAIN pend' : pend'[p].call # thr'[u].call
                 /\ \A v \in Actors : Unregistered(v)' /\ thr'[v].call = thr'[u].call => v = u
      <4>1. u # t /\ Unregistered(u) /\ thr'[u] = thr[u]
        BY <2>6, <3>4
      <4>2. thr[u].call # thr[t].call
        BY <1>5, <4>1
      <4>3. \A p \in DOMAIN pend' : pend'[p].call # thr'[u].call
        BY <1>6, <2>1, <4>1, <4>2 DEF IInv, Unread
      <4> QED BY <1>1, <2>6, <3>b, <4>1, <4>3 DEF IInv, Unread
    <3>5. \A x \in Addrs : wsabuf'[x].call <= calls'
      BY <1>1 DEF IInv, Unread
    <3> QED BY <3>1, <3>2, <3>3, <3>4, <3>5 DEF Unread, Blamed, StaysBlamed
  <2>8. Waiting'
    <3>1. ASSUME NEW p \in Overlaps, NEW c, Awaited(p, c) PROVE StaysAwaited(p, c)
      BY <1>1, <1>7, <3>1, AwaitedStep DEF Looking
    <3>2. ASSUME NEW p \in DOMAIN pend'
          PROVE  StaysAwaited(p, pend'[p].call) \/ pend'[p].call \in slipped'
      <4>1. CASE p = o
        <5>1. Awaited(o, thr[t].call) \/ thr[t].call \in slipped
          BY <1>4 DEF IInv, Waiting
        <5> QED BY <1>1, <1>6, <2>1, <3>1, <4>1, <5>1
      <4>2. CASE p # o
        <5>1. p \in DOMAIN pend /\ pend'[p] = pend[p] /\ p \in Overlaps
          BY <2>1, <2>2, <4>2
        <5>2. Awaited(p, pend[p].call) \/ pend[p].call \in slipped
          BY <5>1 DEF IInv, Waiting, EntriesAreAwaited
        <5> QED BY <1>1, <3>1, <5>1, <5>2
      <4> QED BY <4>1, <4>2
    <3>3. ASSUME NEW u \in Actors, Unregistered(u)', NEW p \in thr'[u].todo
          PROVE  StaysAwaited(p, thr'[u].call) \/ thr'[u].call \in slipped'
      <4>1. Unregistered(u) /\ thr'[u] = thr[u]
        BY <2>6, <3>3
      <4>2. p \in Overlaps
        BY <1>7 DEF Thr
      <4>3. Awaited(p, thr[u].call) \/ thr[u].call \in slipped
        BY <4>1 DEF IInv, Waiting
      <4> QED BY <1>1, <3>1, <4>1, <4>2, <4>3
    <3>4. EntriesAreAwaited'
      BY <3>2 DEF EntriesAreAwaited, Awaited, StaysAwaited, Looking
    <3>5. \A u \in Actors : Unregistered(u)' =>
            \A p \in thr'[u].todo : Awaited(p, thr[u].call)' \/ thr'[u].call \in slipped'
      BY <3>3 DEF Awaited, StaysAwaited, Looking
    <3> QED BY <3>4, <3>5 DEF Waiting
  <2>9. Lending'
    <3>1. ASSUME NEW p \in DOMAIN pend'
          PROVE  /\ io[p].call = pend'[p].call => io[p].arr = pend'[p].arr
                 /\ \/ wsabuf[pend'[p].arr].call = pend'[p].call
                    \/ pend'[p].call \in slipped \cup lent
      <4>1. CASE p = o
        BY <1>4, <1>6, <2>1, <4>1 DEF IInv, Lending
      <4>2. CASE p # o
        BY <2>1, <4>2 DEF IInv, Lending
      <4> QED BY <4>1, <4>2
    <3>2. ASSUME NEW u \in Actors, Unregistered(u)'
          PROVE  /\ wsabuf[thr'[u].arr].call = thr'[u].call
                 /\ \A p \in thr'[u].todo : io[p].call = thr'[u].call => io[p].arr = thr'[u].arr
      BY <2>6, <3>2 DEF IInv, Lending
    <3> QED BY <1>1, <3>1, <3>2 DEF Lending
  <2> QED BY <1>8, <2>3, <2>4, <2>5, <2>7, <2>8, <2>9 DEF IInv
<1> QED BY <1>2, <1>9, <1>10

\* The detour returns with what it dequeued.
LEMMA LeaveKeeps ==
  ASSUME IInv, NEW t \in Actors, Leave(t) PROVE IInv'
<1>1. /\ thr[t].pc = "leave" /\ inHook' = [inHook EXCEPT ![t] = FALSE]
      /\ io' = [o \in Overlaps |-> IF o \in thr[t].held THEN FreeIo ELSE io[o]]
      /\ thr' = [thr EXCEPT ![t] = Idle]
      /\ UNCHANGED <<hook, inst, wsabuf, pend, pendLock, ring, total, ringLock, srv, out, calls,
                     slipped, lent, misread, shown>>
  BY DEF Leave, hookVars, pendVars, ringVars, srvVars, histVars, ioVars
<1>2. Idle \in Thr /\ Idle.pc = "idle" /\ Idle.held = {} /\ FreeIo \in Io /\ FreeIo.call = 0
  BY IdleThr DEF Idle, FreeIo
<1>3. thr' \in [Actors -> Thr] /\ thr'[t] = Idle /\ Alone(t)
  BY <1>1, <1>2, Moved DEF IInv
<1>4. io \in [Overlaps -> Io] /\ \A o \in Overlaps \ thr[t].held : io'[o] = io[o]
  BY <1>1 DEF IInv, TypeOK
<1>5. io' \in [Overlaps -> Io]
  BY <1>1, <1>2, <1>4
<1>6. TypeOK'
  BY <1>1, <1>3, <1>5 DEF IInv, TypeOK
<1>7. Locks'
  BY <1>1, <1>2, <1>3 DEF IInv, Locks, Alone, TypeOK, Actors
<1>8. Frames'
  BY <1>1, <1>3, FramesStep DEF IInv
<1>9. /\ PendShrinks /\ StillUnregistered(t) /\ HistGrows /\ calls' \in Nat
      /\ calls <= calls' /\ shown' = shown /\ \A x \in Addrs : wsabuf'[x].call <= calls'
  BY <1>1, <1>2, <1>3
     DEF PendShrinks, StillUnregistered, Unregistered, HistGrows, IInv, TypeOK, Unread
<1>10. Unread'
  BY <1>3, <1>9, UnreadStep DEF IInv
<1>11. Owned'
  <2>1. \A u \in Actors \ {t} : /\ thr'[u].held = thr[u].held /\ thr[u].held \cap thr[t].held = {}
                                /\ thr[u].held \subseteq Overlaps
    BY <1>3 DEF IInv, Owned, Alone, TypeOK, Thr
  <2>2. \A u \in Actors : \A o \in thr'[u].held : io'[o].st = "taken"
    <3>1. ASSUME NEW u \in Actors, NEW o \in thr'[u].held PROVE io'[o].st = "taken"
      <4>1. u # t
        BY <1>2, <1>3
      <4>2. o \in thr[u].held /\ o \in Overlaps \ thr[t].held
        BY <2>1, <4>1
      <4> QED BY <1>4, <4>2 DEF IInv, Owned
    <3> QED BY <3>1
  <2>3. \A u, v \in Actors : thr'[u].held \cap thr'[v].held # {} => u = v
    BY <1>2, <1>3, <2>1 DEF IInv, Owned
  <2>4. \A u \in Actors : thr'[u].pc \in Looking => thr'[u].todo \subseteq thr'[u].held
    BY <1>2, <1>3 DEF IInv, Owned, Alone, Looking
  <2> QED BY <2>2, <2>3, <2>4 DEF Owned
<1>12. Waiting'
  <2>1. ASSUME NEW o \in Overlaps, NEW c, Awaited(o, c) PROVE StaysAwaited(o, c)
    <3>1. o \notin thr[t].held
      <4> SUFFICES ASSUME o \in thr[t].held PROVE FALSE
        OBVIOUS
      <4>1. io[o].st = "taken"
        BY DEF IInv, Owned
      <4>2. PICK u \in Threads : o \in thr[u].todo /\ thr[u].pc \in Looking
        BY <2>1, <4>1 DEF Awaited, Looking
      <4>3. u \in Actors /\ u # t /\ o \in thr[u].held
        BY <1>1, <4>2 DEF IInv, Owned, Actors, Looking
      <4> QED BY <4>3 DEF IInv, Owned
    <3>2. io'[o] = io[o]
      BY <1>4, <3>1
    <3> QED BY <1>1, <1>3, <2>1, <3>2, AwaitedStep DEF Looking
  <2> QED BY <1>3, <1>9, <2>1, WaitingStep DEF IInv, HistGrows
<1>13. Lending'
  <2>1. ASSUME NEW o \in Overlaps
        PROVE  (io'[o].call = io[o].call /\ io'[o].arr = io[o].arr) \/ io'[o].call = 0
    <3>1. io'[o] = FreeIo \/ io'[o] = io[o]
      BY <1>1
    <3> QED BY <1>2, <3>1
  <2> QED BY <1>1, <1>3, <1>9, <2>1, LendingStep DEF IInv
<1> QED BY <1>6, <1>7, <1>8, <1>10, <1>11, <1>12, <1>13 DEF IInv

\* One completion is looked up, and the bytes of its entry are read.
LEMMA ScanKeeps ==
  ASSUME IInv, NEW t \in Actors, Scan(t) PROVE IInv'
<1>1. /\ thr[t].pc = "scan"
      /\ UNCHANGED <<hook, inst, inHook, io, wsabuf, pendLock, ring, total, ringLock, srv, out, calls,
                     lent>>
  BY DEF Scan, hookVars, ringVars, srvVars, ioVars
<1>0. t \in Threads /\ t # Server /\ pendLock = t
  BY <1>1 DEF IInv, Locks, Actors
<1>2. PICK o \in thr[t].todo :
       LET hit == o \in DOMAIN pend
           data == hit /\ io[o].n > 0
           at == Found(pend[o]) IN
       /\ pend' = Remove(o)
       /\ slipped' = IF hit /\ pend[o].call = io[o].call THEN slipped
                     ELSE slipped \cup {io[o].call}
       /\ thr' = [thr EXCEPT ![t].todo = @ \ {o},
                             ![t].pc = IF data THEN "walk" ELSE "scan",
                             ![t].call = IF data THEN at.call ELSE @,
                             ![t].of = io[o].call,
                             ![t].bufs = IF data THEN at.bufs ELSE @,
                             ![t].left = io[o].n]
       /\ shown' = IF data THEN [shown EXCEPT ![at.call] = @ + 1] ELSE shown
       /\ misread' = IF data /\ at.call # pend[o].call
                     THEN misread \cup {<<pend[o].call, at.call>>} ELSE misread
  BY DEF Scan
<1> DEFINE data == o \in DOMAIN pend /\ io[o].n > 0
           p == IF data THEN "walk" ELSE "scan"
           at == Found(pend[o])
           c0 == IF data THEN at.call ELSE thr[t].call
           b0 == IF data THEN at.bufs ELSE thr[t].bufs
           n == [thr[t] EXCEPT !.todo = @ \ {o}, !.pc = p, !.call = c0, !.of = io[o].call,
                               !.bufs = b0, !.left = io[o].n]
<1>3. /\ thr \in [Actors -> Thr] /\ thr[t] \in Thr /\ o \in Overlaps /\ io[o] \in Io
      /\ \A q \in DOMAIN pend : pend[q] \in Entry
  BY DEF IInv, TypeOK, Thr
<1>a. ASSUME o \in DOMAIN pend
      PROVE  /\ at.call = wsabuf[pend[o].arr].call /\ at.call \in 0..MaxCalls /\ at.call <= calls
             /\ at.bufs \in Seq(Nat)
  <2> DEFINE w == wsabuf[pend[o].arr]
             m == Min2(pend[o].count, Len(w.bufs))
  <2>1. /\ pend[o].arr \in Addrs /\ pend[o].count \in Nat
        /\ w.call \in 0..MaxCalls /\ w.bufs \in Seq(Nat) /\ w.call <= calls
    BY <1>3, <1>a DEF IInv, TypeOK, Entry, Unread
  <2> HIDE DEF w
  <2>2. Len(w.bufs) \in Nat /\ \A i \in 1..Len(w.bufs) : w.bufs[i] \in Nat
    BY <2>1
  <2>3. m \in 0..Len(w.bufs)
    BY <2>1, <2>2 DEF Min2
  <2> HIDE DEF m
  <2>4. SubSeq(w.bufs, 1, m) \in Seq(Nat)
    BY <2>1, <2>2, <2>3
  <2>5. at.call = w.call /\ at.bufs = SubSeq(w.bufs, 1, m)
    BY DEF Found, w, m
  <2> QED BY <2>1, <2>4, <2>5 DEF w
<1>4. /\ p \in {"walk", "scan"} /\ c0 \in 0..MaxCalls /\ b0 \in Seq(Nat)
      /\ io[o].call \in 0..MaxCalls /\ io[o].n \in Nat
  <2> HIDE DEF at
  <2> QED BY <1>3, <1>a DEF Thr, Io
<1>5. thr' = [thr EXCEPT ![t] = n]
  <2>1. thr' = [thr EXCEPT ![t].todo = @ \ {o}, ![t].pc = p, ![t].call = IF data THEN at.call ELSE @,
                           ![t].of = io[o].call, ![t].bufs = IF data THEN at.bufs ELSE @,
                           ![t].left = io[o].n]
    BY <1>2
  <2> HIDE DEF p, data, at
  <2> QED BY <1>3, <2>1 DEF Thr
<1>6. /\ data => shown' = [shown EXCEPT ![at.call] = @ + 1]
      /\ ~data => shown' = shown /\ misread' = misread
      /\ data /\ at.call = pend[o].call => misread' = misread
      /\ data /\ at.call # pend[o].call => misread' = misread \cup {<<pend[o].call, at.call>>}
      /\ slipped' = slipped \cup {io[o].call} \/ slipped' = slipped
      /\ (o \in DOMAIN pend /\ pend[o].call = io[o].call) \/ io[o].call \in slipped'
      /\ pend' = Remove(o)
  BY <1>2
<1>d. data => o \in DOMAIN pend
  OBVIOUS
<1> HIDE DEF p, c0, b0, data, at
<1>7. n \in Thr /\ n.pc = p /\ n.held = thr[t].held /\ n.todo = thr[t].todo \ {o}
  BY <1>3, <1>4 DEF Thr, Pcs
<1> HIDE DEF n
<1>8. thr' \in [Actors -> Thr] /\ thr'[t] = n /\ Alone(t)
  BY <1>5, <1>7, Moved DEF IInv
<1>9. PendShrinks /\ o \notin DOMAIN pend' /\ pend' \in [DOMAIN pend' -> Entry]
      /\ DOMAIN pend' \subseteq Overlaps
  <2>1. pend \in [DOMAIN pend -> Entry] /\ DOMAIN pend \subseteq Overlaps
    BY DEF IInv, TypeOK
  <2>2. pend' = [q \in DOMAIN pend \ {o} |-> pend[q]]
    BY <1>6 DEF Remove, Restrict
  <2>3. DOMAIN pend' = DOMAIN pend \ {o} /\ \A q \in DOMAIN pend' : pend'[q] = pend[q] /\ pend[q] \in Entry
    BY <2>1, <2>2
  <2> QED BY <2>1, <2>2, <2>3 DEF PendShrinks
<1>10. slipped \subseteq slipped' /\ slipped' \subseteq 0..MaxCalls
  BY <1>4, <1>6 DEF IInv, TypeOK
<1>m. misread \subseteq misread' /\ misread' \subseteq (0..MaxCalls) \X (0..MaxCalls)
  <2>1. misread \subseteq (0..MaxCalls) \X (0..MaxCalls)
    BY DEF IInv, TypeOK
  <2>2. CASE data /\ at.call # pend[o].call
    <3>1. pend[o].call \in 0..MaxCalls /\ at.call \in 0..MaxCalls
      BY <1>3, <1>a, <1>d, <2>2 DEF Entry, Calls
    <3> QED BY <1>6, <2>1, <2>2, <3>1
  <2>3. CASE ~(data /\ at.call # pend[o].call)
    BY <1>6, <2>1, <2>3
  <2> QED BY <2>2, <2>3
<1>h. HistGrows /\ \A c : Blamed(c) => StaysBlamed(c)
  <2>1. HistGrows
    BY <1>1, <1>10, <1>m DEF HistGrows
  <2> QED BY <2>1, BlameStays
\* Bytes of another call than that of the entry are blamed on the entry.
<1>r. data /\ at.call # pend[o].call => StaysBlamed(at.call)
  <2> SUFFICES ASSUME data, at.call # pend[o].call PROVE StaysBlamed(at.call)
    OBVIOUS
  <2>1. pend[o].call \in slipped \cup lent
    BY <1>a, <1>d DEF IInv, Lending
  <2>2. pend[o].call \in slipped' \cup lent' /\ <<pend[o].call, at.call>> \in misread'
    BY <1>1, <1>6, <1>10, <2>1
  <2> QED BY <2>2 DEF StaysBlamed
<1>11. /\ shown' \in [0..MaxCalls -> Nat]
       /\ \A c \in 0..MaxCalls : shown'[c] = shown[c] \/ (data /\ c = at.call)
       /\ \A c \in Calls : shown'[c] <= 1 \/ StaysBlamed(c)
  <2>1. shown \in [0..MaxCalls -> Nat] /\ Calls \subseteq 0..MaxCalls
        /\ \A c \in Calls : shown[c] <= 1 \/ Blamed(c)
    BY CapsAssumption DEF IInv, TypeOK, Unread, Calls
  <2>2. CASE data
    <3>0. o \in DOMAIN pend /\ at.call \in 0..MaxCalls
      BY <1>a, <1>d, <2>2
    <3>1. /\ shown' \in [0..MaxCalls -> Nat] /\ shown'[at.call] = shown[at.call] + 1
          /\ \A c \in 0..MaxCalls : c # at.call => shown'[c] = shown[c]
      BY <1>6, <2>1, <2>2, <3>0
    <3>2. at.call = pend[o].call => shown[at.call] = 0 \/ Blamed(at.call)
      BY <3>0 DEF IInv, Unread
    <3>3. shown'[at.call] <= 1 \/ StaysBlamed(at.call)
      BY <1>h, <1>r, <2>2, <3>1, <3>2
    <3> QED BY <1>h, <2>1, <2>2, <3>1, <3>3
  <2>3. CASE ~data
    BY <1>6, <1>h, <2>1, <2>3
  <2> QED BY <2>2, <2>3
<1>12. TypeOK'
  BY <1>1, <1>8, <1>9, <1>10, <1>m, <1>11 DEF IInv, TypeOK
<1>13. Locks'
  BY <1>0, <1>1, <1>4, <1>7, <1>8 DEF IInv, Locks, Alone, TypeOK, Actors
<1>14. Frames'
  BY <1>1, <1>8, FramesStep DEF IInv
<1>15. Owned'
  <2>1. thr'[t].held \subseteq thr[t].held /\ thr'[t].todo \subseteq thr'[t].held
    BY <1>1, <1>7, <1>8 DEF IInv, Owned, Looking
  <2> QED BY <1>1, <1>8, <2>1, OwnedStep DEF IInv
<1>16. \A u \in Actors : Unregistered(u)' => u # t /\ Unregistered(u) /\ thr'[u] = thr[u]
  BY <1>4, <1>7, <1>8 DEF Alone, Unregistered
\* The bytes of a call that waits are left alone, or blamed on the entry.
<1>w. ASSUME NEW c \in Calls, shown[c] = 0 \/ Blamed(c), o \in DOMAIN pend => c # pend[o].call
      PROVE  shown'[c] = 0 \/ StaysBlamed(c)
  <2>1. CASE data /\ c = at.call
    BY <1>d, <1>r, <1>w, <2>1
  <2>2. CASE ~(data /\ c = at.call)
    <3>1. shown'[c] = shown[c]
      BY <1>11, <2>2, CapsAssumption DEF Calls
    <3> QED BY <1>h, <1>w, <3>1
  <2> QED BY <2>1, <2>2
<1>17. Unread'
  <2>0. calls \in Nat /\ MaxCalls \in Nat
    BY CapsAssumption DEF IInv, TypeOK
  <2>1. \A c \in Calls : c > calls' => shown'[c] = 0
    <3>1. ASSUME NEW c \in Calls, c > calls PROVE shown'[c] = 0
      <4>1. shown[c] = 0 /\ c \in 0..MaxCalls
        BY <2>0, <3>1 DEF IInv, Unread, Calls
      <4>2. data => at.call <= calls /\ at.call \in 0..MaxCalls
        BY <1>a, <1>d
      <4>3. ~(data /\ c = at.call)
        BY <2>0, <3>1, <4>1, <4>2
      <4> QED BY <1>11, <4>1, <4>3
    <3> QED BY <1>1, <3>1
  <2>2. ASSUME NEW q \in DOMAIN pend'
        PROVE  pend'[q].call <= calls' /\ (shown'[pend'[q].call] = 0 \/ StaysBlamed(pend'[q].call))
    <3>1. q \in DOMAIN pend /\ pend'[q] = pend[q] /\ q # o /\ pend[q].call \in Calls
      BY <1>3, <1>9 DEF PendShrinks, Entry
    <3>2. o \in DOMAIN pend => pend[q].call # pend[o].call
      BY <3>1 DEF IInv, Unread
    <3>3. pend[q].call <= calls /\ (shown[pend[q].call] = 0 \/ Blamed(pend[q].call))
      BY <3>1 DEF IInv, Unread
    <3>4. shown'[pend[q].call] = 0 \/ StaysBlamed(pend[q].call)
      BY <1>w, <3>1, <3>2, <3>3
    <3> QED BY <1>1, <3>1, <3>3, <3>4
  <2>3. \A q, r \in DOMAIN pend' : pend'[q].call = pend'[r].call => q = r
    BY <1>9 DEF IInv, Unread, PendShrinks
  <2>4. ASSUME NEW u \in Actors, Unregistered(u)'
        PROVE  /\ thr'[u].call \in 1..calls'
               /\ shown'[thr'[u].call] = 0 \/ StaysBlamed(thr'[u].call)
               /\ \A q \in DOMAIN pend' : pend'[q].call # thr'[u].call
               /\ \A v \in Actors : Unregistered(v)' /\ thr'[v].call = thr'[u].call => v = u
    <3>1. Unregistered(u) /\ thr'[u] = thr[u]
      BY <1>16, <2>4
    <3>2. /\ thr[u].call \in 1..calls /\ (shown[thr[u].call] = 0 \/ Blamed(thr[u].call))
          /\ \A q \in DOMAIN pend : pend[q].call # thr[u].call
          /\ \A v \in Actors : Unregistered(v) /\ thr[v].call = thr[u].call => v = u
      BY <3>1 DEF IInv, Unread
    <3>3. thr[u].call \in Calls
      BY <3>2, CapsAssumption DEF IInv, TypeOK, Calls
    <3>4. shown'[thr[u].call] = 0 \/ StaysBlamed(thr[u].call)
      BY <1>w, <3>2, <3>3
    <3> QED BY <1>1, <1>9, <1>16, <3>1, <3>2, <3>4 DEF PendShrinks
  <2>5. \A x \in Addrs : wsabuf'[x].call <= calls'
    BY <1>1 DEF IInv, Unread
  <2> QED BY <1>11, <2>1, <2>2, <2>3, <2>4, <2>5 DEF Unread, Blamed, StaysBlamed
<1>18. Waiting'
  <2>1. ASSUME NEW q \in Overlaps, NEW c, Awaited(q, c)
        PROVE  \/ StaysAwaited(q, c) \/ c \in slipped'
               \/ q = o /\ o \in DOMAIN pend /\ c = pend[o].call
    <3>1. CASE q = o
      BY <1>6, <2>1, <3>1 DEF Awaited
    <3>2. CASE q # o
      <4>1. thr'[t].pc \in Looking /\ (q \in thr[t].todo => q \in thr'[t].todo)
        BY <1>4, <1>7, <1>8, <3>2 DEF Looking
      <4> QED BY <1>1, <1>8, <2>1, <4>1, AwaitedStep
    <3> QED BY <3>1, <3>2
  <2>2. ASSUME NEW q \in DOMAIN pend'
        PROVE  StaysAwaited(q, pend'[q].call) \/ pend'[q].call \in slipped'
    <3>1. q \in DOMAIN pend /\ pend'[q] = pend[q] /\ q # o /\ q \in Overlaps
      BY <1>9 DEF PendShrinks
    <3>2. Awaited(q, pend[q].call) \/ pend[q].call \in slipped
      BY <3>1 DEF IInv, Waiting, EntriesAreAwaited
    <3> QED BY <1>10, <2>1, <3>1, <3>2
  <2>3. ASSUME NEW u \in Actors, Unregistered(u)', NEW q \in thr'[u].todo
        PROVE  StaysAwaited(q, thr'[u].call) \/ thr'[u].call \in slipped'
    <3>1. Unregistered(u) /\ thr'[u] = thr[u]
      BY <1>16, <2>3
    <3>2. q \in Overlaps
      BY <1>8 DEF Thr
    <3>3. Awaited(q, thr[u].call) \/ thr[u].call \in slipped
      BY <3>1 DEF IInv, Waiting
    <3>4. \A r \in DOMAIN pend : pend[r].call # thr[u].call
      BY <3>1 DEF IInv, Unread
    <3> QED BY <1>10, <2>1, <3>1, <3>2, <3>3, <3>4
  <2>4. EntriesAreAwaited'
    BY <2>2 DEF EntriesAreAwaited, Awaited, StaysAwaited, Looking
  <2>5. \A u \in Actors : Unregistered(u)' =>
          \A q \in thr'[u].todo : Awaited(q, thr[u].call)' \/ thr'[u].call \in slipped'
    BY <2>3 DEF Awaited, StaysAwaited, Looking
  <2> QED BY <2>4, <2>5 DEF Waiting
<1>19. Lending'
  <2>1. StillUnregistered(t)
    BY <1>16 DEF StillUnregistered
  <2> QED BY <1>1, <1>8, <1>9, <1>h, <2>1, LendingStep DEF IInv
<1> QED BY <1>12, <1>13, <1>14, <1>15, <1>17, <1>18, <1>19 DEF IInv

\* The stream thread's own write is captured.
LEMMA WriteCapturedKeeps ==
  ASSUME IInv, WriteCaptured PROVE IInv'
<1> DEFINE n == Walking(0, <<out>>, out)
<1>1. /\ srv = "write" /\ srv' = "sent" /\ inHook' = [inHook EXCEPT ![Server] = TRUE]
      /\ thr' = [thr EXCEPT ![Server] = n]
      /\ UNCHANGED <<hook, inst, io, wsabuf, pend, pendLock, ring, total, ringLock, out, calls,
                     slipped, lent, misread, shown>>
  BY DEF WriteCaptured, hookVars, pendVars, ringVars, histVars, ioVars
<1>2. Server \in Actors /\ thr[Server].pc = "idle"
  BY <1>1 DEF IInv, Locks, Actors
<1>3. n \in Thr /\ n.pc = "walk" /\ n.todo = {} /\ n.held = {}
  <2>1. 0 \in 0..MaxCalls /\ out \in Nat
    BY CapsAssumption DEF IInv, TypeOK
  <2>2. <<out>> \in Seq(Nat)
    BY <2>1
  <2> QED BY <2>1, <2>2, WalkingType
<1> HIDE DEF n
<1>4. thr' \in [Actors -> Thr] /\ thr'[Server] = n /\ Alone(Server)
  BY <1>1, <1>2, <1>3, Moved DEF IInv
<1>5. TypeOK'
  BY <1>1, <1>4 DEF IInv, TypeOK
<1>6. Locks'
  BY <1>1, <1>2, <1>3, <1>4 DEF IInv, Locks, Alone, TypeOK, Actors
<1>7. Frames'
  BY <1>1, <1>2, <1>4, FramesStep DEF IInv
<1>8. /\ PendShrinks /\ StillUnregistered(Server) /\ HistGrows /\ shown' = shown /\ wsabuf' = wsabuf
      /\ calls <= calls' /\ thr'[Server].held \subseteq thr[Server].held
      /\ thr'[Server].todo \subseteq thr'[Server].held /\ thr[Server].pc \notin Looking /\ io' = io
  BY <1>1, <1>2, <1>3, <1>4 DEF PendShrinks, StillUnregistered, Unregistered, Looking, HistGrows, IInv, TypeOK
<1> QED BY <1>2, <1>4, <1>5, <1>6, <1>7, <1>8, PlainStep

\* One buffer of an array.
LEMMA WalkBufferKeeps ==
  ASSUME IInv, NEW t \in Actors, WalkBuffer(t) PROVE IInv'
<1> DEFINE k == Take(t)
           p == IF Captures(t) THEN "evict" ELSE thr[t].pc
           n == [thr[t] EXCEPT !.pc = p, !.bufs = Tail(thr[t].bufs), !.left = thr[t].left - k]
           f == [call |-> thr[t].call, of |-> thr[t].of, len |-> k]
<1>1. /\ thr[t].pc = "walk" /\ MoreToWalk(t)
      /\ thr' = [thr EXCEPT ![t].pc = IF Captures(t) THEN "evict" ELSE @,
                            ![t].bufs = Tail(@), ![t].left = @ - k]
      /\ Captures(t) => ringLock' = t /\ ring' = Append(ring, f) /\ total' = total + k
      /\ ~Captures(t) => UNCHANGED <<ring, total, ringLock>>
      /\ UNCHANGED <<hook, inst, inHook, io, wsabuf, pend, pendLock, srv, out, calls, slipped, lent, misread, shown>>
  BY DEF WalkBuffer, Counted, hookVars, pendVars, ringVars, srvVars, histVars, ioVars
<1>2. thr \in [Actors -> Thr] /\ thr[t] \in Thr /\ thr[t].bufs \in Seq(Nat) /\ thr[t].left \in Nat
  BY DEF IInv, TypeOK, Thr
<1>3. k \in Nat /\ thr[t].left - k \in Nat /\ Tail(thr[t].bufs) \in Seq(Nat)
  <2>1. thr[t].bufs # <<>>
    BY <1>1 DEF MoreToWalk
  <2>2. Head(thr[t].bufs) \in Nat /\ Tail(thr[t].bufs) \in Seq(Nat)
    BY <1>2, <2>1
  <2> QED BY <1>2, <2>2 DEF Take, Min2
<1>4. Captures(t) => k \in 1..MaxBytes /\ ringLock = NoOne
  BY DEF Captures
<1>5. thr' = [thr EXCEPT ![t] = n]
  <2>1. thr' = [thr EXCEPT ![t].pc = IF Captures(t) THEN "evict" ELSE @,
                           ![t].bufs = Tail(@), ![t].left = @ - k]
    BY <1>1
  <2> HIDE DEF k
  <2> QED BY <1>2, <2>1 DEF Thr
<1>6. (Captures(t) => p = "evict") /\ (~Captures(t) => p = "walk")
  BY <1>1
<1>7. f \in Frame /\ f.len = k
  BY <1>2, <1>3 DEF Frame, Thr
<1> HIDE DEF k, p, f
<1>8. n \in Thr /\ n.pc = p /\ n.held = thr[t].held /\ n.todo = thr[t].todo
  BY <1>2, <1>3, <1>6 DEF Thr, Pcs
<1> HIDE DEF n
<1>9. thr' \in [Actors -> Thr] /\ thr'[t] = n /\ Alone(t)
  BY <1>5, <1>8, Moved DEF IInv
<1>10. ring' \in Seq(Frame) /\ total' \in Nat /\ ringLock' \in Actors \cup {NoOne}
  <2>0. ring \in Seq(Frame) /\ total \in Nat /\ ringLock \in Actors \cup {NoOne}
    BY DEF IInv, TypeOK
  <2>1. CASE Captures(t)
    <3>1. ringLock' = t /\ ring' = Append(ring, f) /\ total' = total + k
      BY <1>1, <2>1
    <3> QED BY <1>3, <1>7, <2>0, <3>1
  <2>2. CASE ~Captures(t)
    BY <1>1, <2>0, <2>2
  <2> QED BY <2>1, <2>2
<1>11. TypeOK'
  BY <1>1, <1>9, <1>10 DEF IInv, TypeOK
<1>12. Locks'
  <2>1. CASE Captures(t)
    <3>1. /\ ringLock = NoOne /\ ringLock' = t /\ thr'[t].pc = "evict" /\ thr'[t].todo = thr[t].todo
          /\ t = Server => srv = "sent"
      BY <1>1, <1>4, <1>6, <1>8, <1>9, <2>1 DEF IInv, Locks
    <3> QED BY <1>1, <1>9, <3>1, ActorsAssumption DEF IInv, Locks, Alone, TypeOK, Actors
  <2>2. CASE ~Captures(t)
    <3>1. /\ ringLock' = ringLock /\ thr'[t].pc = "walk" /\ thr'[t].todo = thr[t].todo
      BY <1>1, <1>6, <1>8, <1>9, <2>2
    <3> QED BY <1>1, <1>9, <3>1 DEF IInv, Locks, Alone, TypeOK, Actors
  <2> QED BY <2>1, <2>2
<1>13. Frames'
  <2>1. CASE Captures(t)
    <3>0. ring \in Seq(Frame) /\ ring' = Append(ring, f) /\ total' = total + k /\ k \in 1..MaxBytes
      BY <1>1, <1>4, <2>1 DEF IInv, TypeOK
    <3>1. Lens(ring) \in Seq(Nat) /\ Lens(ring') = Append(Lens(ring), k)
      BY <1>7, <3>0, LensOf
    <3>2. Sum(Append(Lens(ring), k)) = Sum(Lens(ring)) + k
      BY <1>3, <3>1, SumAppend
    <3>3. total' = Sum(Lens(ring'))
      BY <3>0, <3>1, <3>2 DEF IInv, Frames
    <3>4. \A i \in DOMAIN ring' : ring'[i].len \in 1..MaxBytes
      <4>1. \A i \in DOMAIN ring' : (i \in DOMAIN ring /\ ring'[i] = ring[i]) \/ ring'[i] = f
        BY <1>7, <3>0
      <4> QED BY <1>7, <3>0, <4>1 DEF IInv, Frames
    <3>5. thr'[t].pc = "evict"
      BY <1>6, <1>8, <1>9, <2>1
    <3> QED BY <3>3, <3>4, <3>5 DEF Frames
  <2>2. CASE ~Captures(t)
    BY <1>1, <1>9, <2>2, FramesStep DEF IInv
  <2> QED BY <2>1, <2>2
<1>14. /\ PendShrinks /\ StillUnregistered(t) /\ HistGrows /\ shown' = shown /\ wsabuf' = wsabuf
       /\ calls <= calls' /\ thr'[t].held \subseteq thr[t].held /\ io' = io
       /\ thr'[t].pc \in Looking /\ thr'[t].todo = thr[t].todo /\ thr[t].pc \in Looking
  BY <1>1, <1>6, <1>8, <1>9 DEF PendShrinks, StillUnregistered, Unregistered, Looking, HistGrows, IInv, TypeOK
<1>15. thr'[t].todo \subseteq thr'[t].held
  BY <1>8, <1>9, <1>14 DEF IInv, Owned
<1> QED BY <1>9, <1>11, <1>12, <1>13, <1>14, <1>15, PlainStep

\* push evicts a frame, or is done.
LEMMA EvictKeeps ==
  ASSUME IInv, NEW t \in Actors, Evict(t) PROVE IInv'
<1>1. /\ thr[t].pc = "evict"
      /\ UNCHANGED <<hook, inst, inHook, io, wsabuf, pend, pendLock, srv, out, calls, slipped, lent, misread, shown>>
  BY DEF Evict, hookVars, pendVars, srvVars, histVars, ioVars
<1>2. /\ ring \in Seq(Frame) /\ total \in Nat /\ {MaxFrames, MaxBytes} \subseteq Nat \ {0}
      /\ Len(ring) \in Nat /\ DOMAIN ring = 1..Len(ring)
  BY CapsAssumption DEF IInv, TypeOK
<1>3. Lens(ring) \in Seq(Nat) /\ total = Sum(Lens(ring)) /\ Len(Lens(ring)) = Len(ring)
  BY <1>2, LensOf DEF IInv, Frames
<1>4. ASSUME ring # <<>>
      PROVE  /\ Lens(Tail(ring)) \in Seq(Nat) /\ Sum(Lens(Tail(ring))) \in Nat
             /\ Head(ring).len \in 1..MaxBytes /\ total = Head(ring).len + Sum(Lens(Tail(ring)))
  <2>1. /\ Lens(Tail(ring)) = Tail(Lens(ring)) /\ Head(Lens(ring)) = Head(ring).len
        /\ Lens(ring) # <<>>
    BY <1>2, <1>4, LensOf
  <2>2. Sum(Lens(ring)) = Head(Lens(ring)) + Sum(Tail(Lens(ring)))
    BY <1>3, <2>1, SumTail
  <2>3. Tail(Lens(ring)) \in Seq(Nat)
    BY <1>3, <2>1
  <2>4. Sum(Tail(Lens(ring))) \in Nat
    BY <2>3, SumType
  <2>5. 1 \in DOMAIN ring /\ Head(ring) = ring[1]
    BY <1>2, <1>4
  <2>6. Head(ring).len \in 1..MaxBytes
    BY <2>5 DEF IInv, Frames
  <2> QED BY <1>3, <2>1, <2>2, <2>3, <2>4, <2>6
<1>5. CASE OverCaps
  <2>1. total' = total - Head(ring).len /\ ring' = Tail(ring) /\ ringLock' = ringLock /\ thr' = thr
    BY <1>5 DEF Evict
  <2>2. ring # <<>>
    BY <1>2, <1>5 DEF OverCaps
  <2>3. total' = Sum(Lens(ring')) /\ total' \in Nat
    <3> DEFINE s == Sum(Lens(Tail(ring)))
               h == Head(ring).len
    <3> HIDE DEF s, h
    <3>1. s \in Nat /\ h \in Nat /\ total = h + s /\ total' = total - h
      BY <1>2, <1>4, <2>1, <2>2 DEF s, h
    <3>2. total' = s /\ total' \in Nat
      BY <3>1
    <3> QED BY <2>1, <3>2 DEF s
  <2>4. ring' \in Seq(Frame) /\ \A i \in DOMAIN ring' : i + 1 \in DOMAIN ring /\ ring'[i] = ring[i + 1]
    BY <1>2, <2>1, <2>2
  <2>5. TypeOK'
    BY <1>1, <2>1, <2>3, <2>4 DEF IInv, TypeOK
  <2>6. Locks'
    BY <1>1, <2>1 DEF IInv, Locks
  <2>7. Frames'
    <3>1. \A i \in DOMAIN ring' : ring'[i].len \in 1..MaxBytes
      BY <2>4 DEF IInv, Frames
    <3> QED BY <1>1, <2>1, <2>3, <3>1 DEF Frames
  <2>8. calls' \in Nat /\ calls <= calls'
    BY <1>1 DEF IInv, TypeOK
  <2>9. Unread' /\ Owned' /\ Waiting' /\ Lending'
    BY <1>1, <2>1, <2>8, StillStep
  <2> QED BY <2>5, <2>6, <2>7, <2>9 DEF IInv
<1>6. CASE ~OverCaps
  <2>1. /\ ringLock' = NoOne /\ thr' = [thr EXCEPT ![t].pc = "walk"] /\ UNCHANGED <<ring, total>>
    BY <1>6 DEF Evict
  <2> DEFINE n == [thr[t] EXCEPT !.pc = "walk"]
  <2>2. /\ n \in Thr /\ n.pc = "walk" /\ n.held = thr[t].held /\ n.todo = thr[t].todo
        /\ n.call = thr[t].call /\ n.arr = thr[t].arr /\ thr' = [thr EXCEPT ![t] = n]
    BY <2>1, AtPc DEF Pcs
  <2> HIDE DEF n
  <2>3. thr' \in [Actors -> Thr] /\ thr'[t] = n /\ Alone(t)
    BY <2>2, Moved DEF IInv
  <2>4. TypeOK'
    BY <1>1, <2>1, <2>3 DEF IInv, TypeOK
  <2>5. Locks'
    <3>1. ringLock = t /\ (t = Server => srv = "sent")
      BY <1>1 DEF IInv, Locks
    <3> QED BY <1>1, <2>1, <2>2, <2>3, <3>1, ActorsAssumption DEF IInv, Locks, Alone, TypeOK, Actors
  <2>6. Len(ring) <= MaxFrames /\ total <= MaxBytes
    <3>1. Len(ring) <= MaxFrames /\ (total <= MaxBytes \/ Len(ring) <= 1)
      BY <1>2, <1>6 DEF OverCaps
    <3>2. CASE ring = <<>>
      <4>1. Lens(ring) = <<>>
        BY <3>2 DEF Lens
      <4> QED BY <1>2, <1>3, <3>1, <4>1, SumEmpty
    <3>3. CASE ring # <<>> /\ Len(ring) <= 1
      <4>1. Tail(ring) = <<>>
        BY <1>2, <3>3
      <4>2. Lens(Tail(ring)) = <<>>
        BY <4>1 DEF Lens
      <4>3. total = Head(ring).len + 0 /\ Head(ring).len \in 1..MaxBytes
        BY <1>4, <3>3, <4>2, SumEmpty
      <4> QED BY <1>2, <3>1, <4>3
    <3> QED BY <1>2, <3>1, <3>2, <3>3
  <2>7. Frames'
    BY <2>1, <2>6 DEF IInv, Frames
  <2>8. /\ PendShrinks /\ StillUnregistered(t) /\ HistGrows /\ shown' = shown /\ wsabuf' = wsabuf
        /\ calls <= calls' /\ thr'[t].held \subseteq thr[t].held /\ io' = io
        /\ thr'[t].pc \in Looking /\ thr'[t].todo = thr[t].todo /\ thr[t].pc \in Looking
    BY <1>1, <2>2, <2>3 DEF PendShrinks, StillUnregistered, Unregistered, Looking, HistGrows, IInv, TypeOK
  <2>9. thr'[t].todo \subseteq thr'[t].held
    BY <2>2, <2>3, <2>8 DEF IInv, Owned
  <2> QED BY <2>3, <2>4, <2>5, <2>7, <2>8, <2>9, PlainStep
<1> QED BY <1>5, <1>6
-----------------------------------------------------------------------------
\* ---- the theorems

LEMMA InitHolds == ASSUME Init PROVE IInv
<1>1. Idle \in Thr /\ FreeIo \in Io /\ Idle.pc = "idle" /\ Idle.held = {} /\ Idle.todo = {}
  BY IdleThr DEF Idle
<1>2. /\ thr = [t \in Actors |-> Idle] /\ io = [o \in Overlaps |-> FreeIo] /\ pend = <<>>
      /\ pendLock = NoOne /\ ringLock = NoOne /\ ring = <<>> /\ total = 0 /\ calls = 0
      /\ slipped = {} /\ lent = {} /\ misread = {} /\ shown = [c \in 0..MaxCalls |-> 0] /\ inHook = [t \in Actors |-> FALSE]
      /\ srv \in {"accept", "down"} /\ out = 0 /\ inst = 1
      /\ hook = [i \in 1..Len(Fns) |-> "absent"]
      /\ wsabuf = [x \in Addrs |-> [call |-> 0, bufs |-> <<>>]]
  BY DEF Init
<1>3. TypeOK
  <2>1. DOMAIN pend = {} /\ pend \in [DOMAIN pend -> Entry]
    BY <1>2
  <2>2. wsabuf \in [Addrs -> [call: 0..MaxCalls, bufs: Seq(Nat)]]
    BY <1>2, CapsAssumption
  <2> QED BY <1>1, <1>2, <2>1, <2>2, FnsLen, CapsAssumption DEF TypeOK
<1>4. Server \in Actors /\ NoOne \notin Actors /\ Threads \subseteq Actors
      /\ \A t \in Actors : thr[t].pc = "idle" /\ thr[t].held = {}
  BY <1>1, <1>2, ActorsAssumption DEF Actors
<1>5. Locks
  BY <1>2, <1>4 DEF Locks
<1>6. Frames
  <2>1. Lens(ring) = <<>>
    BY <1>2 DEF Lens
  <2> QED BY <1>2, <2>1, SumEmpty, CapsAssumption DEF Frames
<1>7. Unread
  BY <1>2, <1>4, CapsAssumption DEF Unread, Unregistered, Calls
<1>8. Owned
  BY <1>4 DEF Owned, Looking
<1>9. Waiting
  BY <1>2, <1>4 DEF Waiting, EntriesAreAwaited, Unregistered
<1>10. Lending
  BY <1>2, <1>4 DEF Lending, Unregistered
<1> QED BY <1>3, <1>5, <1>6, <1>7, <1>8, <1>9, <1>10 DEF IInv

LEMMA NextKeeps == ASSUME IInv, [Next]_vars PROVE IInv'
<1>1. CASE InstallPatches \/ InstallSets \/ InstallFails \/ remove_packet_hooks
  BY <1>1, HooksKeep
<1>2. ASSUME NEW t \in Threads, GameStep(t) PROVE IInv'
  BY <1>2, RefusedKeeps, SyncCallKeeps, UnseenIoKeeps, RecvPendsKeeps, RecvAtOnceKeeps,
     WaitBeginsKeeps, WaitReturnsKeeps, WaitTimesOutKeeps, CloseBeginsKeeps DEF GameStep
<1>3. ASSUME NEW t \in Actors, DetourStep(t) PROVE IInv'
  BY <1>3, TryPendingKeeps, InsertKeeps, ScanKeeps, ScanEndsKeeps, RetainKeeps, ShutKeeps,
     WalkBufferKeeps, EvictKeeps, WalkEndsKeeps, LeaveKeeps DEF DetourStep
<1>4. ASSUME NEW o \in Overlaps, IoFinishes(o) PROVE IInv'
  BY <1>4, IoFinishesKeeps
<1>5. CASE UnseenCompletion
  BY <1>5, UnseenCompletionKeeps
<1>6. CASE Accept \/ PollLock \/ ServerStep \/ WriteEnds
  BY <1>6, ServerKeeps, WriteCapturedKeeps DEF ServerStep, WriteEnds
<1>7. CASE UNCHANGED vars
  <2>1. UNCHANGED <<hook, inst, inHook, thr, io, wsabuf, pend, pendLock, ring, total, ringLock, srv, out,
                    calls, slipped, lent, misread, shown>>
    BY <1>7 DEF vars, hookVars, pendVars, ringVars, srvVars, histVars, ioVars
  <2>2. calls' \in Nat /\ calls <= calls'
    BY <2>1 DEF IInv, TypeOK
  <2>3. Unread' /\ Owned' /\ Waiting' /\ Lending' /\ Frames'
    BY <2>1, <2>2, StillStep
  <2>4. TypeOK'
    BY <2>1 DEF IInv, TypeOK
  <2>5. Locks'
    BY <2>1 DEF IInv, Locks
  <2> QED BY <2>3, <2>4, <2>5 DEF IInv
<1> QED BY <1>1, <1>2, <1>3, <1>4, <1>5, <1>6, <1>7 DEF Next

LEMMA Inductive == Spec => []IInv
<1>1. Init => IInv
  BY InitHolds
<1>2. IInv /\ [Next]_vars => IInv'
  BY NextKeeps
<1> QED BY <1>1, <1>2, PTL DEF Spec

\* The state of the hooks, the detours, PENDING, the ring and the stream
\* thread keeps its types: no counter goes below zero, no lock is lost.
THEOREM CaptureTypes == Spec => []TypeOK
<1>1. IInv => TypeOK
  BY DEF IInv
<1> QED BY <1>1, Inductive, PTL

\* Whatever path a detour takes, the thread is back in the game without the
\* mutexes of RING and PENDING and with IN_HOOK clear.
THEOREM ThreadsLeaveClean == Spec => []GameHoldsNothing
<1>1. IInv => GameHoldsNothing
  BY DEF IInv, Locks, GameHoldsNothing, Actors
<1> QED BY <1>1, Inductive, PTL

\* An entry of PENDING is for the operation its OVERLAPPED carries now, but
\* for the completions that passed the detours by.
THEOREM EntriesAwaited == Spec => []EntriesAreAwaited
<1>1. IInv => EntriesAreAwaited
  BY DEF IInv, Waiting
<1> QED BY <1>1, Inductive, PTL

\* The bytes of a call are read at most once, however it completes and however
\* the threads of the game interleave, unless PENDING leads to them from the
\* entry of a call that the detours lost or whose array was filled again.
THEOREM BytesReadOnce == Spec => []CapturedOnce
<1>1. IInv => CapturedOnce
  BY DEF IInv, Unread, Blamed, CapturedOnce
<1> QED BY <1>1, Inductive, PTL

\* Whoever takes the mutex of RING finds it within MAX_FRAMES and MAX_BYTES,
\* with total_bytes exact.
THEOREM RingKeepsCaps == Spec => []RingWithinCaps
<1>1. ASSUME IInv, ringLock = NoOne
      PROVE  /\ Len(ring) <= MaxFrames /\ total <= MaxBytes
             /\ total = Sum([i \in DOMAIN ring |-> ring[i].len])
  <2>1. \A t \in Actors : thr[t].pc # "evict"
    BY <1>1, ActorsAssumption DEF IInv, Locks
  <2> QED BY <1>1, <2>1 DEF IInv, Frames, Lens
<1>2. IInv => RingWithinCaps
  BY <1>1 DEF RingWithinCaps
<1> QED BY <1>2, Inductive, PTL
=============================================================================
