----------------------------- MODULE SocketPool -----------------------------
(***************************************************************************)
(* The generational socket pool of ggl-socket (socket_handle.c), as it is  *)
(* used by the core bus server, the core bus client and the IPC server.    *)
(*                                                                         *)
(* A thread obtains a file descriptor from the kernel (accept or connect), *)
(* registers it and gets a 32-bit handle; any thread that knows a handle   *)
(* may read, write or close through it, also long after another thread     *)
(* closed it.  The pool's recursive mutex is held for one validation and   *)
(* one partial read or write at a time, and for the whole of a release,    *)
(* including the on_release callback, which may register a new connection  *)
(* (a client's on_close callback that subscribes again).  The descriptor   *)
(* itself is closed after the mutex is dropped, and the kernel hands the   *)
(* same numbers out again.                                                 *)
(***************************************************************************)
EXTENDS Integers, FiniteSets

CONSTANTS
    MaxFds,     \* pool->max_fds: the number of slots
    GenMod,     \* generations are counted modulo this (2^16 in the code)
    Fds,        \* the descriptor numbers the kernel hands out
    Threads,    \* the threads using the pool
    MaxConns,   \* bound: connections made in one behaviour
    MaxUses,    \* bound: releases of one slot
    NoThread    \* nobody holds the mutex across a callback

ASSUME PoolAssumption ==
    /\ MaxFds \in Nat /\ 0 < MaxFds /\ MaxFds <= 65535
    /\ GenMod \in Nat /\ 0 < GenMod /\ GenMod <= 65536
    /\ Fds \subseteq Nat
    /\ MaxConns \in Nat /\ MaxUses \in Nat
    /\ NoThread \notin Threads

VARIABLES
    fds,          \* slot -> descriptor, or FD_FREE
    generations,  \* slot -> generation count
    mtx,          \* the thread inside an on_release callback, or NoThread
    rel,          \* what that thread is releasing, or Nothing
    own,          \* thread -> descriptor it owns outside the pool, or FD_FREE
    todo,         \* thread -> what it does next with own[t]
    io,           \* thread -> what it is reading or writing, or Nothing
    peer,         \* kernel: descriptor -> connection behind it, or NoConn
    nextConn,     \* kernel: the next connection's identity
    uses,         \* history: slot -> number of completed releases
    issued,       \* history: every handle returned, and for which connection
    touched       \* history: thread -> connections its transfer has reached

poolVars == <<fds, generations, mtx, rel>>
localVars == <<own, todo, io>>
historyVars == <<uses, issued, touched>>
vars == <<fds, generations, mtx, rel, own, todo, io, peer, nextConn,
          uses, issued, touched>>

FD_FREE == -1
NoConn == 0
Index == 0..(MaxFds - 1)

\* A handle in the hands of a thread, with the history of its registration:
\* the code sees the field handle only.
Nothing == [handle |-> 0, slot |-> 0, use |-> 0, conn |-> NoConn]

\* The low 16 bits of a handle are the slot's index plus one, so that 0 is no
\* handle; the high 16 bits are the generation.
Handle(gen, i) == gen * 65536 + i + 1
HandleIndex(h) == (h % 65536) - 1
HandleGeneration(h) == h \div 65536

\* validate_handle does not look at fds: a free slot whose generation matches
\* passes.
Valid(h) ==
    /\ HandleIndex(h) \in Index
    /\ HandleGeneration(h) = generations[HandleIndex(h)]

\* Mutant of NextGeneration: a release does not count.
SameGeneration(g) == g

\* generations[index] += 1 on a uint16_t.
NextGeneration(g) == (g + 1) % GenMod

FreeSlots == {i \in Index : fds[i] = FD_FREE}

\* A thread can take the recursive mutex if no other thread holds it.
CanLock(t) == mtx \in {NoThread, t}

Init ==
    /\ fds = [i \in Index |-> FD_FREE]
    /\ generations = [i \in Index |-> 0]
    /\ mtx = NoThread
    /\ rel = Nothing
    /\ own = [t \in Threads |-> FD_FREE]
    /\ todo = [t \in Threads |-> "idle"]
    /\ io = [t \in Threads |-> Nothing]
    /\ peer = [f \in Fds |-> NoConn]
    /\ nextConn = 1
    /\ uses = [i \in Index |-> 0]
    /\ issued = {}
    /\ touched = [t \in Threads |-> {}]

\* accept4 or connect: the kernel returns a descriptor that is not in use.
Connect(t, f) ==
    /\ todo[t] = "idle" /\ io[t] = Nothing
    /\ peer[f] = NoConn
    /\ nextConn <= MaxConns
    /\ peer' = [peer EXCEPT ![f] = nextConn]
    /\ nextConn' = nextConn + 1
    /\ own' = [own EXCEPT ![t] = f]
    /\ todo' = [todo EXCEPT ![t] = "register"]
    /\ UNCHANGED <<poolVars, io, historyVars>>

\* ggl_socket_pool_register, a free slot found and on_register succeeds.
Register(t, i) ==
    /\ todo[t] = "register" /\ CanLock(t)
    /\ i \in FreeSlots /\ \A j \in FreeSlots : i <= j
    /\ fds' = [fds EXCEPT ![i] = own[t]]
    /\ issued' = issued \cup {[handle |-> Handle(generations[i], i),
                               slot |-> i, use |-> uses[i],
                               conn |-> peer[own[t]]]}
    /\ own' = [own EXCEPT ![t] = FD_FREE]
    /\ todo' = [todo EXCEPT ![t] = "idle"]
    /\ UNCHANGED <<generations, mtx, rel, io, peer, nextConn, uses,
                   touched>>

\* ggl_socket_pool_register returns an error: no slot is free, or on_register
\* failed and the slot was put back; the caller closes its descriptor.
RegisterFails(t) ==
    /\ todo[t] = "register" /\ CanLock(t)
    /\ todo' = [todo EXCEPT ![t] = "close"]
    /\ UNCHANGED <<poolVars, own, io, peer, nextConn, historyVars>>

\* ggl_socket_pool_release with a handle that validates: the mutex is held and
\* on_release is entered.
BeginRelease(t, r) ==
    /\ todo[t] = "idle" /\ io[t] = Nothing
    /\ mtx = NoThread
    /\ Valid(r.handle)
    /\ uses[HandleIndex(r.handle)] < MaxUses
    /\ mtx' = t
    /\ rel' = r
    /\ UNCHANGED <<fds, generations, localVars, peer, nextConn, historyVars>>

\* Mutant of FinishRelease: the slot is left holding the descriptor.
FinishReleaseKeepsFd(t) ==
    LET i == HandleIndex(rel.handle) IN
    /\ mtx = t /\ todo[t] = "idle"
    /\ generations' = [generations EXCEPT ![i] = NextGeneration(@)]
    /\ uses' = [uses EXCEPT ![i] = @ + 1]
    /\ own' = [own EXCEPT ![t] = fds[i]]
    /\ todo' = [todo EXCEPT ![t] = "close"]
    /\ mtx' = NoThread
    /\ rel' = Nothing
    /\ UNCHANGED <<fds, io, peer, nextConn, issued, touched>>

\* on_release succeeded: the slot is recycled, the mutex dropped, and
\* ggl_socket_handle_close is left with the descriptor.
FinishRelease(t) ==
    LET i == HandleIndex(rel.handle) IN
    /\ mtx = t /\ todo[t] = "idle"
    /\ generations' = [generations EXCEPT ![i] = NextGeneration(@)]
    /\ fds' = [fds EXCEPT ![i] = FD_FREE]
    /\ uses' = [uses EXCEPT ![i] = @ + 1]
    /\ own' = [own EXCEPT ![t] = fds[i]]
    /\ todo' = [todo EXCEPT ![t] = "close"]
    /\ mtx' = NoThread
    /\ rel' = Nothing
    /\ UNCHANGED <<io, peer, nextConn, issued, touched>>

\* on_release failed: the slot stays as it was.
ReleaseFails(t) ==
    /\ mtx = t /\ todo[t] = "idle"
    /\ mtx' = NoThread
    /\ rel' = Nothing
    /\ UNCHANGED <<fds, generations, localVars, peer, nextConn, historyVars>>

\* ggl_close on a descriptor the thread owns; close of FD_FREE is EBADF.
CloseFd(t) ==
    /\ todo[t] = "close"
    /\ peer' = [f \in Fds |-> IF f = own[t] THEN NoConn ELSE peer[f]]
    /\ own' = [own EXCEPT ![t] = FD_FREE]
    /\ todo' = [todo EXCEPT ![t] = "idle"]
    /\ UNCHANGED <<poolVars, io, nextConn, historyVars>>

\* A thread calls read, write, get_peer_pid or protected with a handle it
\* was given at some time.
StartIo(t, r) ==
    /\ todo[t] = "idle" /\ io[t] = Nothing
    /\ mtx # t
    /\ io' = [io EXCEPT ![t] = r]
    /\ touched' = [touched EXCEPT ![t] = {}]
    /\ UNCHANGED <<poolVars, own, todo, peer, nextConn, uses, issued>>

\* Mutant of IoPart: the handle is validated when the call starts only.
IoPartUnchecked(t) ==
    LET h == io[t].handle
        f == fds[HandleIndex(h)]
    IN
    /\ io[t] # Nothing
    /\ mtx = NoThread
    /\ touched' = [touched EXCEPT ![t] =
                     @ \cup (IF f \in Fds THEN {peer[f]} ELSE {NoConn})]
    /\ UNCHANGED <<poolVars, localVars, peer, nextConn, uses, issued>>

\* One pass of the loop in ggl_socket_handle_read and _write: lock, validate,
\* one partial transfer on the slot's descriptor, unlock.
IoPart(t) ==
    LET h == io[t].handle
        f == fds[HandleIndex(h)]
    IN
    /\ io[t] # Nothing
    /\ mtx = NoThread
    /\ Valid(h)
    /\ touched' = [touched EXCEPT ![t] =
                     @ \cup (IF f \in Fds THEN {peer[f]} ELSE {NoConn})]
    /\ UNCHANGED <<poolVars, localVars, peer, nextConn, uses, issued>>

\* The call returns: nothing is left to transfer, the descriptor reported an
\* error, or the handle does not validate.
EndIo(t) ==
    /\ io[t] # Nothing
    /\ mtx = NoThread
    /\ io' = [io EXCEPT ![t] = Nothing]
    /\ touched' = [touched EXCEPT ![t] = {}]
    /\ UNCHANGED <<poolVars, own, todo, peer, nextConn, uses, issued>>

Next ==
    \E t \in Threads :
        \/ \E f \in Fds : Connect(t, f)
        \/ \E i \in Index : Register(t, i)
        \/ RegisterFails(t)
        \/ \E r \in issued : BeginRelease(t, r) \/ StartIo(t, r)
        \/ FinishRelease(t)
        \/ ReleaseFails(t)
        \/ CloseFd(t)
        \/ IoPart(t)
        \/ EndIo(t)

Spec == Init /\ [][Next]_vars
-----------------------------------------------------------------------------
IssuedRecord ==
    [handle : Nat, slot : Index, use : Nat, conn : Nat \ {NoConn}]

TypeOK ==
    /\ fds \in [Index -> Fds \cup {FD_FREE}]
    /\ generations \in [Index -> 0..(GenMod - 1)]
    /\ mtx \in Threads \cup {NoThread}
    /\ rel \in IssuedRecord \cup {Nothing}
    /\ own \in [Threads -> Fds \cup {FD_FREE}]
    /\ todo \in [Threads -> {"idle", "register", "close"}]
    /\ io \in [Threads -> IssuedRecord \cup {Nothing}]
    /\ peer \in [Fds -> Nat]
    /\ nextConn \in Nat \ {0}
    /\ uses \in [Index -> Nat]
    /\ issued \subseteq IssuedRecord
    /\ touched \in [Threads -> SUBSET Nat]

\* Every open descriptor belongs to exactly one slot or thread, and nothing in
\* the pool is closed: ggl_socket_handle_close takes the descriptor out of the
\* pool before it closes it, so a number the kernel hands out again is never
\* still in a slot, and no path loses a descriptor.
FdOwnedOnce ==
    /\ \A i, j \in Index : fds[i] # FD_FREE /\ fds[i] = fds[j] => i = j
    /\ \A t, u \in Threads : own[t] # FD_FREE /\ own[t] = own[u] => t = u
    /\ \A i \in Index, t \in Threads : fds[i] # FD_FREE => fds[i] # own[t]
    /\ \A f \in Fds : peer[f] # NoConn <=>
         \/ \E i \in Index : fds[i] = f
         \/ \E t \in Threads : own[t] = f

\* The slot of r has been released fewer than GenMod times since.
NotWrapped(r) == uses[r.slot] - r.use < GenMod

\* A handle that still validates names the connection it was issued for, as
\* long as its slot's 16-bit generation has not come full circle: closing bumps
\* the generation, so a kept handle never reaches a later user of the slot.
HandleReachesItsConnection ==
    \A r \in issued : Valid(r.handle) /\ NotWrapped(r) =>
        /\ fds[r.slot] # FD_FREE
        /\ peer[fds[r.slot]] = r.conn

\* A read or write that goes through several partial transfers, dropping the
\* mutex between them, moves data on one connection only, the one its handle
\* was issued for: each part validates the handle again.
TransferStaysOnConnection ==
    \A t \in Threads :
        io[t] # Nothing /\ NotWrapped(io[t]) => touched[t] \subseteq {io[t].conn}

\* Without the exception for wrapped generations: a handle is useless once its
\* socket has been closed (socket_handle.h: generational indices "invalidate
\* use of dangling references after a socket is closed").
DanglingHandleRejected ==
    \A r \in issued : Valid(r.handle) =>
        \E f \in Fds : fds[r.slot] = f /\ peer[f] = r.conn
=============================================================================
