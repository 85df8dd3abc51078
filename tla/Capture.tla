------------------------------- MODULE Capture -------------------------------
(***************************************************************************)
(* Packet capture: the detours of the WinSock and completion port          *)
(* functions and the thread that streams what they saw                     *)
(* (agent/src/protocol/capture.rs, agent-core/src/protocol.rs).            *)
(*                                                                         *)
(* The eleven detours are four classes: "send" for the six that find their *)
(* bytes on return (send, sendto, WSASend, WSASendTo, recv, recvfrom),     *)
(* "WSARecv" for WSARecv and WSARecvFrom, "closesocket", and "GQCS" for    *)
(* GetQueuedCompletionStatus and its Ex form. Every call of the game has a *)
(* number; bytes are known by the number of the call whose buffers hold    *)
(* them. A WSABUF array is the sequence of its buffer lengths. The game    *)
(* fills the array at some address for every call and may fill it again as *)
(* soon as the call has returned, also while the operation is in flight;   *)
(* it never takes it out of memory.                                        *)
(*                                                                         *)
(* The stream thread writes through send like everybody else, so what it   *)
(* sends to the client is captured again; the number of its calls is 0.    *)
(***************************************************************************)
EXTENDS Naturals, Sequences, FiniteSets, Functions

CONSTANTS
  Threads,      \* threads of the game
  Server,       \* the thread of start_tcp_server
  NoOne,        \* no thread
  Sockets,
  Overlaps,     \* addresses of OVERLAPPED structures
  Addrs,        \* addresses of WSABUF arrays
  Arrays,       \* what they may hold, as sequences of buffer lengths
  MaxFrames,    \* MAX_FRAMES
  MaxBytes,     \* MAX_BYTES
  MaxPending,   \* MAX_PENDING
  Header,       \* bytes of a record before its payload
  Installable,  \* the classes whose installation succeeds
  Serve,        \* the stream thread gets its port
  PortOnly,     \* the game learns of every completion by the hooked functions
  MaxCalls      \* bound: calls the game makes

Actors == Threads \cup {Server}
Calls == 1..MaxCalls
Fns == <<"send", "WSARecv", "closesocket", "GQCS">>

ASSUME ActorsAssumption == Server \notin Threads /\ NoOne \notin Actors
ASSUME CapsAssumption ==
  {MaxFrames, MaxBytes, MaxPending, Header, MaxCalls} \subseteq Nat \ {0}
ASSUME ArraysAssumption == Arrays \subseteq Seq(Nat)
ASSUME SocketsAssumption == Sockets # {} /\ Addrs # {}
ASSUME GameAssumption == {Serve, PortOnly} \subseteq BOOLEAN

VARIABLES
  hook,      \* each class of functions: absent, patched (ORIG unset), ready, gone
  inst,      \* the class that install_packet_hooks is at
  inHook,    \* IN_HOOK of each thread
  thr,       \* the detour each thread is in
  io,        \* the kernel's view of each OVERLAPPED
  wsabuf,    \* the array at each address, and the call it was filled for
  pend,      \* PENDING
  pendLock,  \* the thread that holds the PENDING mutex
  ring,      \* frames of RING
  total,     \* total_bytes of RING
  ringLock,  \* the thread that holds the RING mutex
  srv,       \* where the stream thread is
  out,       \* bytes of the buffer it is about to write
  calls,     \* calls made so far
  slipped,   \* history: calls completed without their PENDING entry removed
  lent,      \* history: calls whose array was filled again before they completed
  misread,   \* history: <<d, c>> when the entry of d led to the bytes of c
  shown      \* history: how often the bytes of each call were read

hookVars == <<hook, inst>>
ioVars == <<io, wsabuf>>
pendVars == <<pend, pendLock>>
ringVars == <<ring, total, ringLock>>
srvVars == <<srv, out>>
histVars == <<slipped, lent, misread, shown>>
vars == <<hookVars, inHook, thr, ioVars, pendVars, ringVars, srvVars, calls, histVars>>

Min2(a, b) == IF a < b THEN a ELSE b

\* The sum of a sequence of lengths is the number of places in buffers that long.
Places(s) == UNION { {i} \X (1..s[i]) : i \in DOMAIN s }
Sum(s) == Cardinality(Places(s))

Pcs == {"idle", "wait", "register", "insert", "complete", "scan", "walk",
        "evict", "close", "retain", "shut", "leave"}

\* call owns the buffers being read, of is the I/O whose completion led there.
\* todo are completions still to be looked up, held all that this detour returns.
Thr == [pc: Pcs, call: 0..MaxCalls, of: 0..MaxCalls, sock: Sockets, arr: Addrs,
        bufs: Seq(Nat), left: Nat, todo: SUBSET Overlaps, held: SUBSET Overlaps]
\* An entry has the socket, the address of the array and its length; call is history.
Entry == [call: Calls, sock: Sockets, arr: Addrs, count: Nat]
Io == [st: {"free", "flight", "ok", "failed", "taken"}, call: 0..MaxCalls,
       sock: Sockets, arr: Addrs, bufs: Seq(Nat), n: Nat]
Frame == [call: 0..MaxCalls, of: 0..MaxCalls, len: Nat]

AnySock == CHOOSE s \in Sockets : TRUE
AnyAddr == CHOOSE x \in Addrs : TRUE
Idle == [pc |-> "idle", call |-> 0, of |-> 0, sock |-> AnySock, arr |-> AnyAddr,
         bufs |-> <<>>, left |-> 0, todo |-> {}, held |-> {}]
FreeIo == [st |-> "free", call |-> 0, sock |-> AnySock, arr |-> AnyAddr,
           bufs |-> <<>>, n |-> 0]
Walking(c, a, n) == [Idle EXCEPT !.pc = "walk", !.call = c, !.of = c, !.bufs = a, !.left = n]

Init ==
  /\ hook = [i \in 1..Len(Fns) |-> "absent"] /\ inst = 1
  /\ inHook = [t \in Actors |-> FALSE]
  /\ thr = [t \in Actors |-> Idle]
  /\ io = [o \in Overlaps |-> FreeIo]
  /\ wsabuf = [x \in Addrs |-> [call |-> 0, bufs |-> <<>>]]
  /\ pend = <<>> /\ pendLock = NoOne
  /\ ring = <<>> /\ total = 0 /\ ringLock = NoOne
  /\ srv = (IF Serve THEN "accept" ELSE "down") /\ out = 0
  /\ calls = 0 /\ slipped = {} /\ lent = {} /\ misread = {}
  /\ shown = [c \in 0..MaxCalls |-> 0]

Hooked(f) == \E i \in 1..Len(Fns) : Fns[i] = f /\ hook[i] = "ready"
Unready(f) == \E i \in 1..Len(Fns) : Fns[i] = f /\ hook[i] = "patched"
Unhooked(f) == \E i \in 1..Len(Fns) : Fns[i] = f /\ hook[i] \in {"absent", "gone"}

-----------------------------------------------------------------------------
\* install_packet_hooks and remove_packet_hooks

\* inline_detour::install writes the jump; ORIG has no trampoline yet.
InstallPatches ==
  /\ inst <= Len(Fns) /\ hook[inst] = "absent" /\ Fns[inst] \in Installable
  /\ hook' = [hook EXCEPT ![inst] = "patched"]
  /\ UNCHANGED <<inst, inHook, thr, ioVars, pendVars, ringVars, srvVars, calls, histVars>>

\* ORIG is set and the Hook is pushed on HOOKS.
InstallSets ==
  /\ inst <= Len(Fns) /\ hook[inst] = "patched"
  /\ hook' = [hook EXCEPT ![inst] = "ready"]
  /\ inst' = inst + 1
  /\ UNCHANGED <<inHook, thr, ioVars, pendVars, ringVars, srvVars, calls, histVars>>

\* The symbol is not found, or install returns None.
InstallFails ==
  /\ inst <= Len(Fns) /\ hook[inst] = "absent" /\ Fns[inst] \notin Installable
  /\ inst' = inst + 1
  /\ UNCHANGED <<hook, inHook, thr, ioVars, pendVars, ringVars, srvVars, calls, histVars>>

\* At detach the hooks are drained from HOOKS and removed, oldest first.
remove_packet_hooks ==
  /\ inst > Len(Fns)
  /\ \E i \in 1..Len(Fns) :
       /\ hook[i] = "ready" /\ \A j \in 1..(i - 1) : hook[j] # "ready"
       /\ hook' = [hook EXCEPT ![i] = "gone"]
  /\ UNCHANGED <<inst, inHook, thr, ioVars, pendVars, ringVars, srvVars, calls, histVars>>

-----------------------------------------------------------------------------
\* The calls of the game

\* A thread outside every detour makes a call; it gets the next number.
NewCall(t) == thr[t].pc = "idle" /\ calls < MaxCalls /\ calls' = calls + 1

\* The game fills the array at x for a call, not while WSARecv is at work with
\* it. History: the operations in flight whose array it was.
Fill(x, c, a) ==
  /\ \A t \in Threads : thr[t].arr = x => thr[t].pc \notin {"register", "insert"}
  /\ wsabuf' = [wsabuf EXCEPT ![x] = [call |-> c, bufs |-> a]]
  /\ lent' = lent \cup {io[o].call : o \in {p \in Overlaps : io[p].st # "free" /\ io[p].arr = x}}

\* A detour without a trampoline yet clears IN_HOOK again and fails;
\* closesocket_detour is another matter (CloseBegins).
Refused(t) ==
  /\ NewCall(t) /\ \E f \in {"send", "WSARecv", "GQCS"} : Unready(f)
  /\ inHook' = [inHook EXCEPT ![t] = TRUE]
  /\ thr' = [thr EXCEPT ![t].pc = "leave"]
  /\ UNCHANGED <<hookVars, ioVars, pendVars, ringVars, srvVars, histVars>>

\* The send class: the call transferred n bytes of the array.
SyncCall(t) ==
  /\ NewCall(t) /\ Hooked("send")
  /\ inHook' = [inHook EXCEPT ![t] = TRUE]
  /\ \E x \in Addrs, a \in Arrays : \E n \in 1..Sum(a) :
       /\ Fill(x, calls + 1, a)
       /\ thr' = [thr EXCEPT ![t] = Walking(calls + 1, a, n)]
  /\ shown' = [shown EXCEPT ![calls + 1] = @ + 1]
  /\ UNCHANGED <<hookVars, io, pendVars, ringVars, srvVars, slipped, misread>>

Begin(c, s, x, a) ==
  [FreeIo EXCEPT !.st = "flight", !.call = c, !.sock = s, !.arr = x, !.bufs = a]
Done(c, s, x, a, n) == [Begin(c, s, x, a) EXCEPT !.st = "ok", !.n = n]

\* An overlapped operation that no detour registers: WSASend that pends, a
\* receive that is not hooked, or one made inside a detour (an APC during the
\* wait of GetQueuedCompletionStatusEx finds IN_HOOK set).
UnseenIo(t) ==
  /\ thr[t].pc \in {"idle", "wait"} /\ calls < MaxCalls /\ calls' = calls + 1
  /\ \E o \in Overlaps, s \in Sockets, x \in Addrs, a \in Arrays :
       /\ io[o].st = "free"
       /\ Fill(x, calls + 1, a)
       /\ io' = [io EXCEPT ![o] = Begin(calls + 1, s, x, a)]
  /\ UNCHANGED <<hookVars, inHook, thr, pendVars, ringVars, srvVars, slipped, misread, shown>>

\* What the detour of a receive has to register for its OVERLAPPED.
Registering(c, s, x, a, o) ==
  [Idle EXCEPT !.pc = "register", !.call = c, !.sock = s, !.arr = x, !.bufs = a, !.todo = {o}]

\* wsarecv_detour, ret = -1 with WSA_IO_PENDING and no completion routine.
RecvPends(t) ==
  /\ NewCall(t) /\ Hooked("WSARecv")
  /\ inHook' = [inHook EXCEPT ![t] = TRUE]
  /\ \E o \in Overlaps, s \in Sockets, x \in Addrs, a \in Arrays :
       /\ io[o].st = "free"
       /\ Fill(x, calls + 1, a)
       /\ io' = [io EXCEPT ![o] = Begin(calls + 1, s, x, a)]
       /\ thr' = [thr EXCEPT ![t] = Registering(calls + 1, s, x, a, o)]
  /\ UNCHANGED <<hookVars, pendVars, ringVars, srvVars, slipped, misread, shown>>

\* wsarecv_detour, ret = 0: captured at once. The kernel queues a completion
\* all the same, unless the port is told to skip it.
RecvAtOnce(t) ==
  /\ NewCall(t) /\ Hooked("WSARecv")
  /\ inHook' = [inHook EXCEPT ![t] = TRUE]
  /\ \E o \in Overlaps, s \in Sockets, x \in Addrs, a \in Arrays : \E n \in 1..Sum(a) :
       /\ io[o].st = "free"
       /\ Fill(x, calls + 1, a)
       /\ io' \in {io, [io EXCEPT ![o] = Done(calls + 1, s, x, a, n)]}
       /\ thr' = [thr EXCEPT ![t] = Walking(calls + 1, a, n)]
  /\ shown' = [shown EXCEPT ![calls + 1] = @ + 1]
  /\ UNCHANGED <<hookVars, pendVars, ringVars, srvVars, slipped, misread>>

\* The kernel finishes an operation and queues its completion.
IoFinishes(o) ==
  /\ io[o].st = "flight"
  /\ \/ \E n \in 0..Sum(io[o].bufs) : io' = [io EXCEPT ![o].st = "ok", ![o].n = n]
     \/ io' = [io EXCEPT ![o].st = "failed"]
  /\ UNCHANGED <<hookVars, inHook, thr, wsabuf, pendVars, ringVars, srvVars, calls, histVars>>

-----------------------------------------------------------------------------
\* PENDING: registration, completion and closesocket

\* try_lock of PENDING. A detour that loses goes on without its entries.
TryPending(t) ==
  LET next == [register |-> "insert", complete |-> "scan", close |-> "retain"] IN
  /\ thr[t].pc \in DOMAIN next
  /\ IF pendLock = NoOne
     THEN /\ pendLock' = t
          /\ thr' = [thr EXCEPT ![t].pc = next[@]]
          /\ UNCHANGED slipped
     ELSE /\ thr' = [thr EXCEPT ![t].pc = IF @ = "close" THEN "shut" ELSE "leave"]
          /\ slipped' = slipped \cup (IF thr[t].pc = "complete"
                                      THEN {io[o].call : o \in thr[t].todo} ELSE {})
          /\ UNCHANGED pendLock
  /\ UNCHANGED <<hookVars, inHook, ioVars, pend, ringVars, srvVars, calls, lent, misread, shown>>

\* map.insert, or note_pending_cap_hit when the map is full.
Insert(t) ==
  /\ thr[t].pc = "insert"
  /\ \E o \in thr[t].todo :
       pend' = IF Cardinality(DOMAIN pend) < MaxPending
               THEN [p \in DOMAIN pend \cup {o} |->
                       IF p = o
                       THEN [call |-> thr[t].call, sock |-> thr[t].sock,
                             arr |-> thr[t].arr, count |-> Len(thr[t].bufs)]
                       ELSE pend[p]]
               ELSE pend
  /\ pendLock' = NoOne
  /\ thr' = [thr EXCEPT ![t].pc = "leave"]
  /\ UNCHANGED <<hookVars, inHook, ioVars, ringVars, srvVars, calls, histVars>>

\* A thread goes to wait for completions; IN_HOOK is set during the wait.
WaitBegins(t) ==
  /\ thr[t].pc = "idle" /\ Hooked("GQCS")
  /\ inHook' = [inHook EXCEPT ![t] = TRUE]
  /\ thr' = [thr EXCEPT ![t].pc = "wait"]
  /\ UNCHANGED <<hookVars, ioVars, pendVars, ringVars, srvVars, calls, histVars>>

Queued == {o \in Overlaps : io[o].st \in {"ok", "failed"}}

\* The original returns: GQCS one completion, GQCSEx several. GQCS reports a
\* failed operation with res = 0 and the detour does not look it up; GQCSEx
\* reports it among the others.
WaitReturns(t) ==
  /\ thr[t].pc = "wait"
  /\ \E os \in SUBSET Queued \ {{}}, ex \in BOOLEAN :
       LET lost == \E o \in os : ~ex /\ io[o].st = "failed" IN
       /\ ex \/ Cardinality(os) = 1
       /\ io' = [o \in Overlaps |-> IF o \in os THEN [io[o] EXCEPT !.st = "taken"] ELSE io[o]]
       /\ thr' = [thr EXCEPT ![t].pc = IF lost THEN "leave" ELSE "complete",
                             ![t].todo = os, ![t].held = os]
       /\ slipped' = slipped \cup (IF lost THEN {io[o].call : o \in os} ELSE {})
  /\ UNCHANGED <<hookVars, inHook, wsabuf, pendVars, ringVars, srvVars, calls, lent, misread, shown>>

\* The wait times out.
WaitTimesOut(t) ==
  /\ thr[t].pc = "wait"
  /\ thr' = [thr EXCEPT ![t].pc = "leave"]
  /\ UNCHANGED <<hookVars, inHook, ioVars, pendVars, ringVars, srvVars, calls, histVars>>

\* A completion the game learns of elsewhere: a completion routine, the result
\* of WSAGetOverlappedResult, or a port whose functions are not hooked.
UnseenCompletion ==
  /\ ~PortOnly
  /\ \E o \in Queued :
       io' = [io EXCEPT ![o] = FreeIo] /\ slipped' = slipped \cup {io[o].call}
  /\ UNCHANGED <<hookVars, inHook, thr, wsabuf, pendVars, ringVars, srvVars, calls, lent, misread, shown>>

\* Mutant: an entry is only removed when there is data to capture.
RemoveWithData(o) == IF io[o].n > 0 THEN Restrict(pend, DOMAIN pend \ {o}) ELSE pend

\* Mutant: get in the place of remove.
Get(o) == pend

\* map.remove of PENDING.
Remove(o) == Restrict(pend, DOMAIN pend \ {o})

\* What capture_wsabufs finds at the address of an entry: the buffers of the
\* call the array was filled for last.
Found(e) == LET w == wsabuf[e.arr] IN
  [call |-> w.call, bufs |-> SubSeq(w.bufs, 1, Min2(e.count, Len(w.bufs)))]

\* One round of the loop over the completions, PENDING held: map.remove, and
\* capture_wsabufs for what was there if bytes were transferred.
Scan(t) ==
  /\ thr[t].pc = "scan"
  /\ \E o \in thr[t].todo :
       LET hit == o \in DOMAIN pend
           data == hit /\ io[o].n > 0
           at == Found(pend[o]) IN
       /\ pend' = Remove(o)
       /\ slipped' = IF hit /\ pend[o].call = io[o].call THEN slipped
                     ELSE slipped \cup {io[o].call}
       /\ thr' = [thr EXCEPT ![t].todo = @ \ {o},
                             ![t].pc = IF data THEN "walk" ELSE "scan",
                             ![t].call = IF data THEN at.call ELSE @,
                             ![t].of = io[o].call,
                             ![t].bufs = IF data THEN at.bufs ELSE @,
                             ![t].left = io[o].n]
       /\ shown' = IF data THEN [shown EXCEPT ![at.call] = @ + 1] ELSE shown
       /\ misread' = IF data /\ at.call # pend[o].call
                     THEN misread \cup {<<pend[o].call, at.call>>} ELSE misread
  /\ UNCHANGED <<hookVars, inHook, ioVars, pendLock, ringVars, srvVars, calls, lent>>

\* The loop ends and the guard of PENDING is dropped.
ScanEnds(t) ==
  /\ thr[t].pc = "scan" /\ thr[t].todo = {}
  /\ pendLock' = NoOne
  /\ thr' = [thr EXCEPT ![t].pc = "leave"]
  /\ UNCHANGED <<hookVars, inHook, ioVars, pend, ringVars, srvVars, calls, histVars>>

\* closesocket_detour sets no IN_HOOK, and looks for its trampoline last.
CloseBegins(t) ==
  /\ NewCall(t)
  /\ Hooked("closesocket") \/ Unready("closesocket")
  /\ \E s \in Sockets : thr' = [thr EXCEPT ![t] = [Idle EXCEPT !.pc = "close", !.sock = s]]
  /\ UNCHANGED <<hookVars, inHook, ioVars, pendVars, ringVars, srvVars, histVars>>

\* map.retain drops the entries of the socket.
Retain(t) ==
  /\ thr[t].pc = "retain"
  /\ pend' = Restrict(pend, {o \in DOMAIN pend : pend[o].sock # thr[t].sock})
  /\ pendLock' = NoOne
  /\ thr' = [thr EXCEPT ![t].pc = "shut"]
  /\ UNCHANGED <<hookVars, inHook, ioVars, ringVars, srvVars, calls, histVars>>

\* The original closesocket aborts what is in flight on the socket. Without a
\* trampoline yet the socket stays open.
Shut(t) ==
  /\ thr[t].pc = "shut"
  /\ io' = [o \in Overlaps |->
               IF io[o].st = "flight" /\ io[o].sock = thr[t].sock /\ ~Unready("closesocket")
               THEN [io[o] EXCEPT !.st = "failed"] ELSE io[o]]
  /\ thr' = [thr EXCEPT ![t] = Idle]
  /\ UNCHANGED <<hookVars, inHook, wsabuf, pendVars, ringVars, srvVars, calls, histVars>>

-----------------------------------------------------------------------------
\* capture_wsabufs, capture and FrameRing::push

Take(t) == Min2(thr[t].left, Head(thr[t].bufs))
MoreToWalk(t) == thr[t].bufs # <<>> /\ thr[t].left > 0

\* Mutant: without the length check of capture.
CapturesAnyLength(t) == Take(t) > 0 /\ ringLock = NoOne

\* A buffer that yields a frame, once the lock of RING is had by try_lock.
Captures(t) == Take(t) \in 1..MaxBytes /\ ringLock = NoOne

\* Mutant: push forgets to count the bytes.
Uncounted(t) == total

\* push adds the length of the frame to total_bytes.
Counted(t) == total + Take(t)

\* One buffer of the array: the frame is appended and the lock kept for the
\* evictions, or the frame is dropped.
WalkBuffer(t) ==
  /\ thr[t].pc = "walk" /\ MoreToWalk(t)
  /\ IF Captures(t)
     THEN /\ ringLock' = t
          /\ ring' = Append(ring, [call |-> thr[t].call, of |-> thr[t].of, len |-> Take(t)])
          /\ total' = Counted(t)
     ELSE UNCHANGED ringVars
  /\ thr' = [thr EXCEPT ![t].pc = IF Captures(t) THEN "evict" ELSE @,
                        ![t].bufs = Tail(@), ![t].left = @ - Take(t)]
  /\ UNCHANGED <<hookVars, inHook, ioVars, pendVars, srvVars, calls, histVars>>

\* The while condition of push.
OverCaps == Len(ring) > MaxFrames \/ (total > MaxBytes /\ Len(ring) > 1)

Evict(t) ==
  /\ thr[t].pc = "evict"
  /\ IF OverCaps
     THEN /\ total' = total - Head(ring).len
          /\ ring' = Tail(ring)
          /\ UNCHANGED <<ringLock, thr>>
     ELSE /\ ringLock' = NoOne
          /\ thr' = [thr EXCEPT ![t].pc = "walk"]
          /\ UNCHANGED <<ring, total>>
  /\ UNCHANGED <<hookVars, inHook, ioVars, pendVars, srvVars, calls, histVars>>

\* The array is done: GQCS goes on with its next completion.
WalkEnds(t) ==
  /\ thr[t].pc = "walk" /\ ~MoreToWalk(t)
  /\ thr' = [thr EXCEPT ![t].pc = IF pendLock = t THEN "scan" ELSE "leave"]
  /\ UNCHANGED <<hookVars, inHook, ioVars, pendVars, ringVars, srvVars, calls, histVars>>

\* Mutant: a return that forgets IN_HOOK.
LeaveFlagged(t) ==
  /\ thr[t].pc = "leave"
  /\ inHook' = inHook
  /\ io' = [o \in Overlaps |-> IF o \in thr[t].held THEN FreeIo ELSE io[o]]
  /\ thr' = [thr EXCEPT ![t] = Idle]
  /\ UNCHANGED <<hookVars, wsabuf, pendVars, ringVars, srvVars, calls, histVars>>

\* The detour returns; the game may use the OVERLAPPEDs it got back again.
Leave(t) ==
  /\ thr[t].pc = "leave"
  /\ inHook' = [inHook EXCEPT ![t] = FALSE]
  /\ io' = [o \in Overlaps |-> IF o \in thr[t].held THEN FreeIo ELSE io[o]]
  /\ thr' = [thr EXCEPT ![t] = Idle]
  /\ UNCHANGED <<hookVars, wsabuf, pendVars, ringVars, srvVars, calls, histVars>>

-----------------------------------------------------------------------------
\* start_tcp_server

Accept ==
  /\ srv = "accept" /\ srv' = "poll"
  /\ UNCHANGED <<hookVars, inHook, thr, ioVars, pendVars, ringVars, out, calls, histVars>>

\* try_lock of RING after the sleep; losing it only means another sleep.
PollLock ==
  /\ srv = "poll" /\ ringLock = NoOne
  /\ ringLock' = Server /\ srv' = "drain"
  /\ UNCHANGED <<hookVars, inHook, thr, ioVars, pendVars, ring, total, out, calls, histVars>>

\* drain; nothing is written when there were no frames.
Drain ==
  /\ srv = "drain"
  /\ out' = Sum([i \in DOMAIN ring |-> ring[i].len + Header])
  /\ ring' = <<>> /\ total' = 0 /\ ringLock' = NoOne
  /\ srv' = IF ring = <<>> THEN "poll" ELSE "write"
  /\ UNCHANGED <<hookVars, inHook, thr, ioVars, pendVars, calls, histVars>>

\* write_all is one send, of which send_detour makes a frame again.
WriteCaptured ==
  /\ srv = "write" /\ Hooked("send")
  /\ inHook' = [inHook EXCEPT ![Server] = TRUE]
  /\ thr' = [thr EXCEPT ![Server] = Walking(0, <<out>>, out)]
  /\ srv' = "sent"
  /\ UNCHANGED <<hookVars, ioVars, pendVars, ringVars, out, calls, histVars>>

WriteReturns ==
  /\ srv = "sent" /\ thr[Server].pc = "idle"
  /\ srv' = "poll" /\ out' = 0
  /\ UNCHANGED <<hookVars, inHook, thr, ioVars, pendVars, ringVars, calls, histVars>>

\* The same while send is not hooked.
WriteUnseen ==
  /\ srv = "write" /\ Unhooked("send")
  /\ srv' = "poll" /\ out' = 0
  /\ UNCHANGED <<hookVars, inHook, thr, ioVars, pendVars, ringVars, calls, histVars>>

\* Mutant: the thread ends with its client.
WriteFailsForGood ==
  /\ srv = "write"
  /\ srv' = "down" /\ out' = 0
  /\ UNCHANGED <<hookVars, inHook, thr, ioVars, pendVars, ringVars, calls, histVars>>

\* The client is gone, or send has no trampoline yet: the frames are lost.
WriteFails ==
  /\ srv = "write"
  /\ srv' = "accept" /\ out' = 0
  /\ UNCHANGED <<hookVars, inHook, thr, ioVars, pendVars, ringVars, calls, histVars>>

\* The stream thread goes on by itself, but for the write: write_all returns
\* when the client takes the bytes or goes, and there is no timeout.
ServerStep == Drain \/ WriteReturns
WriteEnds == WriteCaptured \/ WriteUnseen \/ WriteFails

\* What a thread inside a detour does next, the original's own wait aside.
DetourStep(t) ==
  \/ TryPending(t) \/ Insert(t) \/ Scan(t) \/ ScanEnds(t) \/ Retain(t) \/ Shut(t)
  \/ WalkBuffer(t) \/ Evict(t) \/ WalkEnds(t) \/ Leave(t)

GameStep(t) ==
  \/ Refused(t) \/ SyncCall(t) \/ UnseenIo(t) \/ RecvPends(t) \/ RecvAtOnce(t)
  \/ WaitBegins(t) \/ WaitReturns(t) \/ WaitTimesOut(t) \/ CloseBegins(t)

Next ==
  \/ InstallPatches \/ InstallSets \/ InstallFails \/ remove_packet_hooks
  \/ \E t \in Threads : GameStep(t)
  \/ \E t \in Actors : DetourStep(t)
  \/ \E o \in Overlaps : IoFinishes(o)
  \/ UnseenCompletion
  \/ Accept \/ PollLock \/ ServerStep \/ WriteEnds

Spec == Init /\ [][Next]_vars

\* A thread inside a detour goes on, and so does the stream thread outside
\* write_all. Its try_lock every 50 ms does not meet the microseconds of a push
\* for ever. Nothing is assumed of the game, the kernel or the client: it may
\* stay away, stop reading or stay connected for ever.
FairSpec ==
  /\ Spec
  /\ \A t \in Actors : WF_vars(DetourStep(t))
  /\ WF_vars(ServerStep) /\ SF_vars(PollLock)

-----------------------------------------------------------------------------
TypeOK ==
  /\ hook \in [1..Len(Fns) -> {"absent", "patched", "ready", "gone"}]
  /\ inst \in 1..(Len(Fns) + 1)
  /\ inHook \in [Actors -> BOOLEAN]
  /\ thr \in [Actors -> Thr]
  /\ io \in [Overlaps -> Io]
  /\ wsabuf \in [Addrs -> [call: 0..MaxCalls, bufs: Seq(Nat)]]
  /\ DOMAIN pend \subseteq Overlaps /\ pend \in [DOMAIN pend -> Entry]
  /\ {pendLock, ringLock} \subseteq Actors \cup {NoOne}
  /\ ring \in Seq(Frame) /\ total \in Nat
  /\ srv \in {"down", "accept", "poll", "drain", "write", "sent"} /\ out \in Nat
  /\ calls \in 0..MaxCalls /\ {slipped, lent} \subseteq SUBSET (0..MaxCalls)
  /\ misread \subseteq (0..MaxCalls) \X (0..MaxCalls) /\ shown \in [0..MaxCalls -> Nat]

\* FrameRing keeps its promise to whoever takes the lock: no more than
\* MAX_FRAMES frames, no more than MAX_BYTES bytes, and total_bytes says how
\* many there are. push leaves one frame whatever its size, so this rests on
\* the length check of capture.
RingWithinCaps ==
  ringLock = NoOne =>
    /\ Len(ring) <= MaxFrames /\ total <= MaxBytes
    /\ total = Sum([i \in DOMAIN ring |-> ring[i].len])

\* An operation whose completion has not reached its lookup in PENDING.
Awaited(o, c) ==
  /\ io[o].call = c
  /\ \/ io[o].st \in {"flight", "ok", "failed"}
     \/ \E t \in Threads : o \in thr[t].todo /\ thr[t].pc \in {"complete", "scan", "walk", "evict"}

\* An entry of PENDING is for the operation that its OVERLAPPED carries now.
\* The exceptions are the completions that passed the detours by: lost
\* try_lock, failed operation, completion ahead of the registration.
EntriesAreAwaited ==
  \A o \in DOMAIN pend : Awaited(o, pend[o].call) \/ pend[o].call \in slipped

\* The bytes of one call are read once, whether it completes at once, through
\* the port or both. They are read again only through the entry of another
\* call that the detours lost (slipped), or whose array the game took for this
\* call before the operation was over (lent): PENDING keeps the address of the
\* array, and it is read on completion.
CapturedOnce ==
  \A c \in Calls : shown[c] <= 1 \/ \E d \in slipped \cup lent : <<d, c>> \in misread

\* A thread back in the game holds neither mutex, and IN_HOOK is clear, so
\* that its next call is captured.
GameHoldsNothing ==
  \A t \in Threads : thr[t].pc = "idle" => t \notin {ringLock, pendLock} /\ ~inHook[t]

\* While a client stays connected and takes what is written, a frame of the
\* game does not stay in the ring: the stream thread comes round to it whatever
\* the detours do.
FramesAreSent ==
  \/ <>[](srv = "write")
  \/ \A c \in Calls :
       (\E i \in DOMAIN ring : ring[i].call = c) /\ srv \notin {"down", "accept"}
         ~> (\A i \in DOMAIN ring : ring[i].call # c) \/ srv = "accept"

\* The detours of the port hand out bytes of the operation that completed:
\* entries are removed on completion, so that a reused OVERLAPPED finds none.
NoStaleAliasing == \A i \in DOMAIN ring : ring[i].call = ring[i].of
=============================================================================
