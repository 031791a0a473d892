-------------------------- MODULE SocketPoolProofs --------------------------
(***************************************************************************)
(* The invariants of SocketPool, proved for any number of slots, threads,  *)
(* descriptors and connections and any generation width up to 16 bits.     *)
(***************************************************************************)
EXTENDS SocketPool, TLAPS

\* The generation d releases after generation g, for d up to GenMod: stated
\* without division so that it composes one release at a time.
After(g, d) == IF g + d < GenMod THEN g + d ELSE g + d - GenMod

\* What a thread owns outside the pool agrees with what it does next.
OwnInv ==
    \A t \in Threads :
        /\ todo[t] = "register" => own[t] \in Fds
        /\ todo[t] = "idle" => own[t] = FD_FREE

\* Every issued handle encodes its slot and the generation of that use of the
\* slot; the current use of a slot, and no other, is backed by its descriptor.
IssuedInv ==
    \A r \in issued :
        /\ r.handle = Handle(HandleGeneration(r.handle), r.slot)
        /\ HandleGeneration(r.handle) \in 0..(GenMod - 1)
        /\ r.use <= uses[r.slot]
        /\ NotWrapped(r) => generations[r.slot] =
              After(HandleGeneration(r.handle), uses[r.slot] - r.use)
        /\ r.use = uses[r.slot] =>
              fds[r.slot] # FD_FREE /\ peer[fds[r.slot]] = r.conn

\* Handles in use were issued; a release in progress keeps its slot valid.
HeldInv ==
    /\ mtx # NoThread => rel \in issued /\ Valid(rel.handle)
    /\ \A t \in Threads : io[t] \in issued \cup {Nothing}

IInv ==
    /\ TypeOK
    /\ FdOwnedOnce
    /\ OwnInv
    /\ IssuedInv
    /\ HeldInv
    /\ TransferStaysOnConnection

\* Fewer than GenMod releases never lead back to the same generation.
LEMMA AfterInjective ==
    ASSUME NEW g \in 0..(GenMod - 1), NEW d \in Nat, d < GenMod,
           After(g, d) = g
    PROVE  d = 0
BY SMTT(60), PoolAssumption DEF After

\* One more release is one more increment modulo GenMod.
LEMMA AfterStep ==
    ASSUME NEW g \in 0..(GenMod - 1), NEW d \in Nat, d + 1 < GenMod
    PROVE  After(g, d + 1) = (After(g, d) + 1) % GenMod
<1>1. ASSUME NEW x \in 0..(GenMod - 1)
      PROVE  (x + 1) % GenMod = IF x + 1 < GenMod THEN x + 1 ELSE 0
  BY SMTT(60), PoolAssumption
<1>2. After(g, d) \in 0..(GenMod - 1)
  BY SMTT(60), PoolAssumption DEF After
<1>3. (After(g, d) + 1) % GenMod
        = IF After(g, d) + 1 < GenMod THEN After(g, d) + 1 ELSE 0
  BY Zenon, <1>1, <1>2
<1> QED
  BY SMTT(60), <1>3, PoolAssumption DEF After

\* A handle that still encodes its slot's generation, its slot not released a
\* full circle since, belongs to the slot's current use.
LEMMA ValidIsCurrent ==
    ASSUME IInv, NEW r \in issued, Valid(r.handle), NotWrapped(r)
    PROVE  /\ r.use = uses[r.slot]
           /\ HandleIndex(r.handle) = r.slot
           /\ fds[r.slot] # FD_FREE /\ peer[fds[r.slot]] = r.conn
<1> r \in IssuedRecord
  BY Zenon DEF IInv, TypeOK
<1> DEFINE g == HandleGeneration(r.handle)
<1>1. /\ r.handle = g * 65536 + r.slot + 1
      /\ g \in 0..(GenMod - 1)
      /\ r.slot \in Nat /\ r.slot < 65535
  <2>1. r.slot \in Nat /\ r.slot < 65535
    BY SMTT(60), PoolAssumption DEF IssuedRecord, Index
  <2>2. r.handle = Handle(g, r.slot) /\ g \in 0..(GenMod - 1)
    BY Zenon DEF IInv, IssuedInv
  <2> QED BY SMTT(60), <2>1, <2>2 DEF Handle
<1>2. HandleIndex(r.handle) = r.slot
  <2> HIDE DEF g
  <2> QED BY SMTT(60), <1>1, PoolAssumption DEF HandleIndex
<1>3. generations[r.slot] = g
  BY Zenon, <1>2 DEF Valid
<1>4. generations[r.slot] = After(g, uses[r.slot] - r.use)
  BY Zenon DEF IInv, IssuedInv
<1>5. r.use \in Nat /\ uses[r.slot] \in Nat /\ r.use <= uses[r.slot]
  BY Zenon DEF IInv, IssuedInv, TypeOK, IssuedRecord
<1>6. r.use = uses[r.slot]
  <2> HIDE DEF g
  <2> DEFINE d == uses[r.slot] - r.use
  <2>1. d \in Nat /\ d < GenMod
    BY SMTT(60), <1>5 DEF NotWrapped
  <2>2. d = 0
    <3> HIDE DEF d
    <3> QED BY SMTT(60), <1>1, <1>3, <1>4, <2>1, AfterInjective DEF d
  <2> QED BY SMTT(60), <1>5, <2>2
<1> QED
  BY Zenon, <1>2, <1>6 DEF IInv, IssuedInv
-----------------------------------------------------------------------------
\* The handle built by ggl_socket_pool_register decodes to what it was built
\* from.
LEMMA HandleDecodes ==
    ASSUME NEW g \in 0..(GenMod - 1), NEW i \in Index
    PROVE  /\ Handle(g, i) \in Nat
           /\ HandleGeneration(Handle(g, i)) = g
           /\ HandleIndex(Handle(g, i)) = i
<1>1. g \in Nat /\ i \in Nat /\ i < 65535
  BY SMTT(60), PoolAssumption DEF Index
<1> QED
  BY SMTT(60), <1>1 DEF Handle, HandleGeneration, HandleIndex

LEMMA InitIInv == Init => IInv
<1> SUFFICES ASSUME Init PROVE IInv
  BY Zenon
<1>1. TypeOK
  BY SMTT(60), PoolAssumption DEF Init, TypeOK, FD_FREE, NoConn, Nothing
<1>2. FdOwnedOnce
  BY SMTT(60), PoolAssumption DEF Init, FdOwnedOnce, FD_FREE, NoConn
<1>3. OwnInv /\ IssuedInv /\ HeldInv /\ TransferStaysOnConnection
  BY Zenon DEF Init, OwnInv, IssuedInv, HeldInv, TransferStaysOnConnection
<1> QED
  BY Zenon, <1>1, <1>2, <1>3 DEF IInv

LEMMA ConnectIInv ==
    ASSUME IInv, NEW t \in Threads, NEW f \in Fds, Connect(t, f)
    PROVE  IInv'
<1> USE DEF Connect, poolVars, historyVars
<1>1. TypeOK'
  BY SMTT(60) DEF IInv, TypeOK
<1>2. own[t] = FD_FREE /\ f # FD_FREE /\ nextConn # NoConn
  BY SMTT(60), PoolAssumption DEF IInv, OwnInv, TypeOK, FD_FREE, NoConn
<1>3. \A i \in Index : fds[i] # f
  BY Zenon DEF IInv, FdOwnedOnce
<1>4. FdOwnedOnce'
  <2>1. \A u \in Threads : own'[u] = IF u = t THEN f ELSE own[u]
    BY Zenon DEF IInv, TypeOK
  <2>2. \A u \in Threads : own[u] # f
    BY Zenon DEF IInv, FdOwnedOnce
  <2>3. \A g \in Fds : peer'[g] = IF g = f THEN nextConn ELSE peer[g]
    BY Zenon DEF IInv, TypeOK
  <2>4. \A g \in Fds : peer'[g] # NoConn <=>
           \/ \E i \in Index : fds[i] = g
           \/ \E u \in Threads : own'[u] = g
    <3> TAKE g \in Fds
    <3>1. g # FD_FREE
      BY SMTT(60), PoolAssumption DEF FD_FREE
    <3>2. CASE g = f
      BY Zenon, <1>2, <2>1, <2>3, <3>2
    <3>3. CASE g # f
      <4>1. (\E u \in Threads : own[u] = g) <=> (\E u \in Threads : own'[u] = g)
        BY Zenon, <1>2, <2>1, <3>1, <3>3
      <4> QED BY Zenon, <2>3, <3>3, <4>1 DEF IInv, FdOwnedOnce
    <3> QED BY Zenon, <3>2, <3>3
  <2> QED
    BY SMTT(60), <1>2, <1>3, <2>1, <2>2, <2>4 DEF IInv, FdOwnedOnce
<1>5. OwnInv'
  BY Zenon DEF IInv, OwnInv, TypeOK
<1>6. IssuedInv'
  BY SMTT(60), <1>3 DEF IInv, IssuedInv, TypeOK, NotWrapped, IssuedRecord
<1>7. HeldInv' /\ TransferStaysOnConnection'
  BY Zenon DEF IInv, HeldInv, TransferStaysOnConnection, Valid, NotWrapped
<1> QED
  BY Zenon, <1>1, <1>4, <1>5, <1>6, <1>7 DEF IInv

LEMMA RegisterIInv ==
    ASSUME IInv, NEW t \in Threads, NEW i \in Index, Register(t, i)
    PROVE  IInv'
<1> USE DEF Register
<1> DEFINE new == [handle |-> Handle(generations[i], i), slot |-> i,
                   use |-> uses[i], conn |-> peer[own[t]]]
<1>1. /\ own[t] \in Fds /\ own[t] # FD_FREE
      /\ fds[i] = FD_FREE
      /\ generations[i] \in 0..(GenMod - 1)
      /\ uses[i] \in Nat
  BY SMTT(60), PoolAssumption DEF IInv, OwnInv, TypeOK, FD_FREE, FreeSlots
<1>2. peer[own[t]] \in Nat \ {NoConn}
  BY Zenon, <1>1 DEF IInv, FdOwnedOnce, TypeOK
<1>3. new \in IssuedRecord
  BY Zenon, <1>1, <1>2, HandleDecodes DEF IssuedRecord
<1>4. TypeOK'
  BY Zenon, <1>1, <1>3 DEF IInv, TypeOK
<1>5. FdOwnedOnce'
  BY SMTT(60), <1>1 DEF IInv, FdOwnedOnce, TypeOK
<1>6. OwnInv'
  BY Zenon, <1>1 DEF IInv, OwnInv, TypeOK
<1>7. IssuedInv'
  <2> SUFFICES ASSUME NEW r \in issued'
               PROVE  IssuedInv!(r)'
    BY Zenon DEF IssuedInv
  <2>1. CASE r \in issued
    <3>1. r.slot \in Index /\ IssuedInv!(r)
      BY Zenon, <2>1 DEF IInv, TypeOK, IssuedRecord, IssuedInv
    <3>2. r.use = uses[r.slot] => r.slot # i
      BY Zenon, <1>1, <3>1
    <3> QED BY Zenon, <3>1, <3>2 DEF NotWrapped, IInv, TypeOK
  <2>2. CASE r = new
    <3>1. After(generations[i], 0) = generations[i]
      BY SMTT(60), <1>1, PoolAssumption DEF After
    <3>2. /\ r.slot = i /\ r.use = uses[i] /\ r.conn = peer[own[t]]
          /\ HandleGeneration(r.handle) = generations[i]
          /\ r.handle = Handle(generations[i], i)
      BY Zenon, <1>1, <2>2, HandleDecodes
    <3> QED BY SMTT(60), <1>1, <3>1, <3>2 DEF IInv, TypeOK
  <2> QED BY Zenon, <2>1, <2>2
<1>8. HeldInv' /\ TransferStaysOnConnection'
  BY Zenon DEF IInv, HeldInv, TransferStaysOnConnection, Valid, NotWrapped
<1> QED
  BY Zenon, <1>4, <1>5, <1>6, <1>7, <1>8 DEF IInv

LEMMA BeginReleaseIInv ==
    ASSUME IInv, NEW t \in Threads, NEW r \in issued, BeginRelease(t, r)
    PROVE  IInv'
<1> USE DEF BeginRelease, localVars, historyVars
<1>1. TypeOK'
  BY Zenon DEF IInv, TypeOK
<1>2. HeldInv'
  BY Zenon DEF IInv, HeldInv, Valid
<1>3. /\ FdOwnedOnce' /\ OwnInv' /\ IssuedInv'
      /\ TransferStaysOnConnection'
  BY SMTT(60) DEF IInv, FdOwnedOnce, OwnInv, IssuedInv, NotWrapped,
         TransferStaysOnConnection
<1> QED
  BY Zenon, <1>1, <1>2, <1>3 DEF IInv

LEMMA FinishReleaseIInv ==
    ASSUME IInv, NEW t \in Threads, FinishRelease(t)
    PROVE  IInv'
<1> DEFINE i == HandleIndex(rel.handle)
<1>1. /\ i \in Index /\ own[t] = FD_FREE
      /\ generations[i] \in 0..(GenMod - 1) /\ uses[i] \in Nat
      /\ fds[i] \in Fds \cup {FD_FREE}
  <2>1. i \in Index
    BY SMTT(60), PoolAssumption DEF FinishRelease, IInv, HeldInv, Valid
  <2> QED BY Zenon, <2>1 DEF FinishRelease, IInv, OwnInv, TypeOK
<1>2. /\ generations' = [generations EXCEPT ![i] = (@ + 1) % GenMod]
      /\ fds' = [fds EXCEPT ![i] = FD_FREE]
      /\ uses' = [uses EXCEPT ![i] = @ + 1]
      /\ own' = [own EXCEPT ![t] = fds[i]]
      /\ todo' = [todo EXCEPT ![t] = "close"]
      /\ mtx' = NoThread /\ rel' = Nothing
      /\ UNCHANGED <<io, peer, nextConn, issued, touched>>
  BY Zenon DEF FinishRelease, NextGeneration
<1> HIDE DEF i
<1>3. TypeOK'
  <2>1. (generations[i] + 1) % GenMod \in 0..(GenMod - 1)
    BY SMTT(60), <1>1, PoolAssumption
  <2> QED BY SMTT(60), <1>1, <1>2, <2>1 DEF IInv, TypeOK
<1>4. FdOwnedOnce'
  <2>1. \A u \in Threads : own'[u] = IF u = t THEN fds[i] ELSE own[u]
    BY Zenon, <1>2 DEF IInv, TypeOK
  <2>2. \A j \in Index : fds'[j] = IF j = i THEN FD_FREE ELSE fds[j]
    BY Zenon, <1>2 DEF IInv, TypeOK
  <2>3. \A f \in Fds : f # FD_FREE
    BY SMTT(60), PoolAssumption DEF FD_FREE
  <2>4. \A f \in Fds :
          (\E j \in Index : fds[j] = f) \/ (\E u \in Threads : own[u] = f)
          <=>
          (\E j \in Index : fds'[j] = f) \/ (\E u \in Threads : own'[u] = f)
    BY SMTT(60), <1>1, <2>1, <2>2, <2>3
  <2> QED
    BY SMTT(60), <1>1, <1>2, <2>1, <2>2, <2>4 DEF IInv, FdOwnedOnce
<1>5. OwnInv'
  BY Zenon, <1>2 DEF IInv, OwnInv, TypeOK
<1>6. \A r \in IssuedRecord : NotWrapped(r)' => NotWrapped(r)
  BY SMTT(60), <1>1, <1>2, PoolAssumption DEF NotWrapped, IInv, TypeOK, IssuedRecord
<1>7. IssuedInv'
  <2> SUFFICES ASSUME NEW r \in issued PROVE IssuedInv!(r)'
    BY Zenon, <1>2 DEF IssuedInv
  <2> DEFINE g == HandleGeneration(r.handle)
             d == uses[r.slot] - r.use
  <2>1. /\ r \in IssuedRecord /\ r.slot \in Index /\ r.use \in Nat
        /\ IssuedInv!(r) /\ uses[r.slot] \in Nat
    BY Zenon DEF IInv, TypeOK, IssuedRecord, IssuedInv
  <2>2. CASE r.slot # i
    BY Zenon, <1>2, <2>1, <2>2 DEF NotWrapped, IInv, TypeOK
  <2>3. CASE r.slot = i
    <3>1. /\ uses'[r.slot] = uses[r.slot] + 1
          /\ generations'[r.slot] = (generations[r.slot] + 1) % GenMod
      BY Zenon, <1>2, <2>1, <2>3 DEF IInv, TypeOK
    <3>2. ASSUME NotWrapped(r)'
          PROVE  generations'[r.slot] = After(g, uses'[r.slot] - r.use)
      <4>1. /\ d \in Nat /\ d + 1 < GenMod
            /\ uses'[r.slot] - r.use = d + 1
        BY SMTT(60), <2>1, <3>1, <3>2 DEF NotWrapped
      <4>2. g \in 0..(GenMod - 1) /\ generations[r.slot] = After(g, d)
        BY Zenon, <1>6, <2>1, <3>2
      <4> HIDE DEF g, d
      <4> QED BY Zenon, <3>1, <4>1, <4>2, AfterStep
    <3>3. r.use <= uses'[r.slot] /\ r.use # uses'[r.slot]
      BY SMTT(60), <2>1, <3>1
    <3> QED BY Zenon, <2>1, <3>2, <3>3
  <2> QED BY Zenon, <2>2, <2>3
<1>8. HeldInv'
  BY Zenon, <1>2 DEF IInv, HeldInv
<1>9. TransferStaysOnConnection'
  BY Zenon, <1>2, <1>6 DEF IInv, TransferStaysOnConnection, HeldInv, TypeOK
<1> QED
  BY Zenon, <1>3, <1>4, <1>5, <1>7, <1>8, <1>9 DEF IInv

LEMMA CloseFdIInv ==
    ASSUME IInv, NEW t \in Threads, CloseFd(t)
    PROVE  IInv'
<1> USE DEF CloseFd, poolVars, historyVars
<1>1. TypeOK'
  BY Zenon DEF IInv, TypeOK, NoConn
<1>2. /\ \A f \in Fds : peer'[f] = IF f = own[t] THEN NoConn ELSE peer[f]
      /\ \A u \in Threads : own'[u] = IF u = t THEN FD_FREE ELSE own[u]
  BY Zenon DEF IInv, TypeOK
<1>3. FdOwnedOnce'
  <2>1. \A f \in Fds : peer'[f] # NoConn <=>
           \/ \E i \in Index : fds[i] = f
           \/ \E u \in Threads : own'[u] = f
    <3> TAKE f \in Fds
    <3>1. f # FD_FREE
      BY SMTT(60), PoolAssumption DEF FD_FREE
    <3>2. CASE f = own[t]
      <4>1. \A i \in Index : fds[i] # f
        BY Zenon, <3>1, <3>2 DEF IInv, FdOwnedOnce
      <4>2. \A u \in Threads : own'[u] # f
        BY SMTT(60), <1>2, <3>1, <3>2 DEF IInv, FdOwnedOnce
      <4> QED BY Zenon, <1>2, <3>2, <4>1, <4>2
    <3>3. CASE f # own[t]
      <4>1. (\E u \in Threads : own[u] = f) <=> (\E u \in Threads : own'[u] = f)
        BY SMTT(60), <1>2, <3>1, <3>3
      <4> QED BY Zenon, <1>2, <3>3, <4>1 DEF IInv, FdOwnedOnce
    <3> QED BY Zenon, <3>2, <3>3
  <2> QED
    BY SMTT(60), <1>2, <2>1 DEF IInv, FdOwnedOnce
<1>4. OwnInv'
  BY Zenon DEF IInv, OwnInv, TypeOK
<1>5. IssuedInv'
  <2> SUFFICES ASSUME NEW r \in issued PROVE IssuedInv!(r)'
    BY Zenon DEF IssuedInv
  <2>1. r.slot \in Index /\ IssuedInv!(r)
    BY Zenon DEF IInv, TypeOK, IssuedRecord, IssuedInv
  <2>2. fds[r.slot] # FD_FREE =>
          fds[r.slot] \in Fds /\ fds[r.slot] # own[t]
    BY SMTT(60), <2>1 DEF IInv, FdOwnedOnce, TypeOK
  <2> QED BY Zenon, <1>2, <2>1, <2>2 DEF NotWrapped
<1>6. HeldInv' /\ TransferStaysOnConnection'
  BY Zenon DEF IInv, HeldInv, TransferStaysOnConnection, Valid, NotWrapped
<1> QED
  BY Zenon, <1>1, <1>3, <1>4, <1>5, <1>6 DEF IInv

LEMMA IoPartIInv ==
    ASSUME IInv, NEW t \in Threads, IoPart(t)
    PROVE  IInv'
<1> USE DEF IoPart, poolVars, localVars
<1>1. io[t] \in issued /\ Valid(io[t].handle) /\ io[t] \in IssuedRecord
  BY Zenon DEF IInv, HeldInv, TypeOK
<1> DEFINE f == fds[HandleIndex(io[t].handle)]
           reached == IF f \in Fds THEN {peer[f]} ELSE {NoConn}
<1>2. touched' = [touched EXCEPT ![t] = @ \cup reached]
  BY Zenon
<1>3. reached \subseteq Nat
  BY SMTT(60) DEF IInv, TypeOK, NoConn
<1>4. NotWrapped(io[t]) => reached = {io[t].conn}
  <2> SUFFICES ASSUME NotWrapped(io[t]) PROVE reached = {io[t].conn}
    BY Zenon
  <2>1. /\ HandleIndex(io[t].handle) = io[t].slot
        /\ fds[io[t].slot] # FD_FREE /\ peer[fds[io[t].slot]] = io[t].conn
    BY Zenon, <1>1, ValidIsCurrent
  <2>2. f \in Fds
    BY Zenon, <1>1, <2>1 DEF IInv, TypeOK, IssuedRecord
  <2> QED BY Zenon, <2>1, <2>2
<1> HIDE DEF f, reached
<1>5. TypeOK'
  BY Zenon, <1>2, <1>3 DEF IInv, TypeOK
<1>6. TransferStaysOnConnection'
  BY SMTT(60), <1>2, <1>4 DEF IInv, TransferStaysOnConnection, NotWrapped, TypeOK
<1>7. FdOwnedOnce' /\ OwnInv' /\ IssuedInv' /\ HeldInv'
  BY SMTT(60) DEF IInv, FdOwnedOnce, OwnInv, IssuedInv, HeldInv, NotWrapped, Valid
<1> QED
  BY Zenon, <1>5, <1>6, <1>7 DEF IInv

LEMMA NextIInv == IInv /\ [Next]_vars => IInv'
<1> SUFFICES ASSUME IInv, [Next]_vars PROVE IInv'
  BY Zenon
<1>1. ASSUME NEW t \in Threads, RegisterFails(t) PROVE IInv'
  BY SMTT(60), <1>1 DEF RegisterFails, poolVars, historyVars, IInv, TypeOK, FdOwnedOnce,
     OwnInv, IssuedInv, HeldInv, TransferStaysOnConnection, NotWrapped, Valid
<1>2. ASSUME NEW t \in Threads, ReleaseFails(t) PROVE IInv'
  BY SMTT(60), <1>2 DEF ReleaseFails, localVars, historyVars, IInv, TypeOK, FdOwnedOnce,
     OwnInv, IssuedInv, HeldInv, TransferStaysOnConnection, NotWrapped, Valid
<1>3. ASSUME NEW t \in Threads, NEW r \in issued, StartIo(t, r) PROVE IInv'
  BY SMTT(60), <1>3 DEF StartIo, poolVars, IInv, TypeOK, FdOwnedOnce,
     OwnInv, IssuedInv, HeldInv, TransferStaysOnConnection, NotWrapped, Valid
<1>4. ASSUME NEW t \in Threads, EndIo(t) PROVE IInv'
  BY SMTT(60), <1>4 DEF EndIo, poolVars, IInv, TypeOK, FdOwnedOnce,
     OwnInv, IssuedInv, HeldInv, TransferStaysOnConnection, NotWrapped, Valid
<1>5. CASE UNCHANGED vars
  BY SMTT(60), <1>5 DEF vars, IInv, TypeOK, FdOwnedOnce, OwnInv, IssuedInv, HeldInv,
     TransferStaysOnConnection, NotWrapped, Valid
<1> QED
  BY Zenon, <1>1, <1>2, <1>3, <1>4, <1>5, ConnectIInv, RegisterIInv,
     BeginReleaseIInv, FinishReleaseIInv, CloseFdIInv, IoPartIInv DEF Next

LEMMA AlwaysIInv == Spec => []IInv
BY InitIInv, NextIInv, PTL DEF Spec

\* The pool's state is always well typed.
THEOREM TypeCorrect == Spec => []TypeOK
<1>1. IInv => TypeOK
  BY Zenon DEF IInv
<1> QED BY <1>1, AlwaysIInv, PTL

\* No descriptor is ever in two slots, leaked, or closed while in the pool.
THEOREM FdsOwnedOnce == Spec => []FdOwnedOnce
<1>1. IInv => FdOwnedOnce
  BY Zenon DEF IInv
<1> QED BY <1>1, AlwaysIInv, PTL

\* A handle that validates reaches the connection it was issued for and no
\* other, until its slot's generation has come full circle.
THEOREM HandlesReachTheirConnection == Spec => []HandleReachesItsConnection
<1>1. IInv => HandleReachesItsConnection
  BY Zenon, ValidIsCurrent DEF HandleReachesItsConnection
<1> QED BY <1>1, AlwaysIInv, PTL

\* All the parts of one read or write reach one connection.
THEOREM TransfersStayOnConnection == Spec => []TransferStaysOnConnection
<1>1. IInv => TransferStaysOnConnection
  BY Zenon DEF IInv
<1> QED BY <1>1, AlwaysIInv, PTL
=============================================================================
