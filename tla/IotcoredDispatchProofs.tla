----------------------- MODULE IotcoredDispatchProofs -----------------------
(***************************************************************************)
(* What holds of iotcored's subscriptions for every number of slots,       *)
(* connections, filters and losses of the MQTT connection.                 *)
(*                                                                         *)
(* SlotsStayLive is carried by OwnerInv, and holds whatever fails.         *)
(* BrokerStaysInStep is about runs in which clients hang up and the        *)
(* connection is lost, but not during the walk of the table; there the     *)
(* walk has subscribed every slot it has passed (WalkInv), and outside it  *)
(* table and session differ only by the request that is being served       *)
(* (InStepInv).  That the filters of a request reach slots of their own is *)
(* RankNumbers: the n-th free slot exists, and there is one for each n.    *)
(***************************************************************************)
EXTENDS IotcoredDispatch, FiniteSetTheorems, TLAPS

ServerPlaces == {"idle", "register", "fill", "send", "undo", "error", "accept",
                 "close", "on_close"}
ReceiverPlaces == {"down", "reregister", "refill", "resend", "loop", "respond",
                   "close", "on_close"}
Serving == {"register", "fill", "send", "undo", "error", "accept"}
Closing == {"close", "on_close"}

\* Each thread is at one of its own places; the receiver holds mtx while it walks the
\* table, and a connection that is closed was opened before.
PlaceInv ==
    /\ th[S].pc \in ServerPlaces /\ th[R].pc \in ReceiverPlaces
    /\ mtx = IF th[R].pc \in {"refill", "resend", "respond"} \cup Closing THEN R ELSE None
    /\ th[S].pc \in Serving =>
         th[S].handle \in Handles /\ client[th[S].handle] = "asking"
    /\ \A t \in {S, R} : th[t].pc \in Closing =>
         th[t].handle \in Handles /\ client[th[t].handle] \in {"open", "closed"}
    /\ th[R].pc \in {"refill", "respond"} => th[R].slot \in 1 .. NSlots + 1
    /\ th[R].pc = "resend" => th[R].slot \in Slots

\* A slot in use has its owner's filter.  The handle being served has no slots before it
\* registers them, and none once it has failed.
OwnerInv ==
    /\ \A i \in Slots : FilterAt(i) # None =>
         /\ slots[i].handle \in Handles
         /\ client[slots[i].handle] \in {"asking", "open"}
         /\ FilterAt(i) \in FiltersOf(slots[i].handle)
    /\ th[S].pc \in {"register", "error"} =>
         \A i \in SlotsOf(th[S].handle) : FilterAt(i) = None

\* The broker's session is empty while the connection is down.
SessionInv ==
    /\ ~conn => broker = {}
    /\ th[R].pc = "down" => ~conn

\* What iotcored_mqtt_subscribe sends has been filled in, by either thread.
SendInv ==
    /\ th[S].pc = "send" =>
         \A k \in DOMAIN asked[th[S].handle] : k \in 1 .. MaxFilters /\ sub_infos[k] # None
    /\ th[R].pc = "resend" => sub_infos[1] # None

Good == seen \subseteq {"hangup", "request"}

\* Whose filters are in the table: an accepted client's, and the one's being served once
\* they are registered.
Registered(h) == client[h] = "open" \/ (th[S].pc \in {"fill", "send", "accept"} /\ th[S].handle = h)

Has(h, f) == \E i \in Slots : slots[i].handle = h /\ FilterAt(i) = f

\* Nothing but hang-ups and losses of the connection during a request:
\* the walk of the table meets no request and no loss, ...
WalkInv ==
    Good =>
        /\ th[R].pc \notin Closing
        /\ Reregistering => conn /\ th[S].pc \notin Serving
        /\ th[R].pc = "reregister" => broker = {}
        /\ th[R].pc \in {"refill", "resend"} =>
             \A i \in Slots : i < th[R].slot /\ FilterAt(i) # None => FilterAt(i) \in broker
        /\ th[R].pc = "resend" => sub_infos[1] = FilterAt(th[R].slot)

\* ... what is to be sent is what was asked for, and every filter of an accepted client is
\* in the table, as is every filter in the session.  While the receiver is
\* in its loop the session has every filter of the table, but for those of
\* the client whose request has not been sent.
InStepInv ==
    Good =>
        /\ \A h \in Handles : Registered(h) =>
             \A k \in DOMAIN asked[h] : Has(h, asked[h][k])
        /\ th[S].pc = "send" =>
             \A k \in DOMAIN asked[th[S].handle] :
                 sub_infos[k] = asked[th[S].handle][k]
        /\ th[S].pc = "undo" => ~conn
        /\ broker \subseteq {FilterAt(i) : i \in Slots}
        /\ conn /\ th[R].pc \in {"loop", "respond"} =>
             \A i \in Slots : FilterAt(i) # None =>
               \/ FilterAt(i) \in broker
               \/ th[S].pc \in {"fill", "send"} /\ slots[i].handle = th[S].handle

IInv == TypeOK /\ PlaceInv /\ OwnerInv /\ SessionInv /\ SendInv /\ WalkInv /\ InStepInv

\* Counting the members of a set of slots up to a member numbers them.
LEMMA RankNumbers ==
    ASSUME NEW F \in SUBSET Slots
    PROVE  LET rank(i) == Cardinality({j \in F : j <= i})
               n == Cardinality(F)
           IN  /\ n \in Nat
               /\ \A i \in F : rank(i) \in 1 .. n
               /\ \A k \in 1 .. n : \E i \in F : rank(i) = k
<1> DEFINE upto(i) == {j \in F : j <= i}
           rank(i) == Cardinality(upto(i))
           n == Cardinality(F)
<1>1. IsFiniteSet(F) /\ n \in Nat /\ F \subseteq Nat
  <2>1. IsFiniteSet(Slots) /\ Slots \subseteq Nat
    BY SMTT(60), FS_Interval, DispatchAssumption DEF Slots
  <2> QED BY Zenon, <2>1, FS_Subset, FS_CardinalityType
<1>2. \A i \in F : IsFiniteSet(upto(i)) /\ rank(i) \in Nat /\ rank(i) <= n
  BY Zenon, <1>1, FS_Subset, FS_CardinalityType
<1>3. \A i \in F : rank(i) # 0
  BY SMTT(60), <1>1, <1>2, FS_EmptySet
<1> HIDE DEF upto
<1>4. \A i, j \in F : i < j => rank(i) < rank(j)
  <2> SUFFICES ASSUME NEW i \in F, NEW j \in F, i < j PROVE rank(i) < rank(j)
    BY Zenon
  <2>1. upto(i) \subseteq upto(j) /\ j \in upto(j) /\ j \notin upto(i)
    <3>1. i \in Nat /\ j \in Nat /\ \A x \in F : x \in Nat
      BY Zenon, <1>1
    <3>2. \A x \in F : x <= i => x <= j
      BY SMTT(60), <3>1
    <3>3. j <= j /\ ~(j <= i)
      BY SMTT(60), <3>1
    <3> QED BY <3>2, <3>3, Zenon DEF upto
  <2>2. IsFiniteSet(upto(j)) /\ rank(i) \in Nat /\ rank(j) \in Nat
    BY Zenon, <1>2
  <2>3. upto(i) \in SUBSET upto(j) /\ upto(i) # upto(j)
    BY Zenon, <2>1
  <2> QED BY SMTT(60), <2>2, <2>3, FS_Subset
<1> DEFINE f == [i \in F |-> rank(i)]
<1>5. f \in Injection(F, 1 .. n)
  <2>1. f \in [F -> 1 .. n]
    BY SMTT(60), <1>1, <1>2, <1>3
  <2>2. \A i, j \in F : f[i] = f[j] => i = j
    BY SMTT(60), <1>1, <1>2, <1>4
  <2> HIDE DEF f
  <2> QED BY Zenon, <2>1, <2>2 DEF Injection, IsInjective
<1>6. IsFiniteSet(1 .. n) /\ Cardinality(1 .. n) = n
  BY SMTT(60), <1>1, FS_Interval
<1>7. f \in Surjection(F, 1 .. n)
  BY Zenon, <1>5, <1>6, FS_Injection
<1>8. \A k \in 1 .. n : \E i \in F : f[i] = k
  BY Zenon, <1>7 DEF Surjection
<1>9. \A i \in F : f[i] = rank(i) /\ rank(i) \in 1 .. n
  BY SMTT(60), <1>1, <1>2, <1>3
<1> QED
  BY Zenon, <1>1, <1>8, <1>9 DEF upto

USE DEF S, R

\* A thread that moves on keeps its handle and its slot, and the other thread stays.
LEMMA Goes ==
    ASSUME TypeOK, NEW t \in {S, R}, NEW p \in Places, Go(t, p)
    PROVE  /\ th' \in [{S, R} -> ThreadState]
           /\ th'[t].pc = p /\ th'[t].handle = th[t].handle /\ th'[t].slot = th[t].slot
           /\ \A u \in {S, R} : u # t => th'[u] = th[u]
<1>1. [th[t] EXCEPT !.pc = p] \in ThreadState
  BY Zenon DEF TypeOK, ThreadState
<1>2. th' = [th EXCEPT ![t] = [th[t] EXCEPT !.pc = p]]
  BY Zenon DEF Go, TypeOK
<1>3. th[t] \in ThreadState
  BY Zenon DEF TypeOK
<1> QED
  BY Zenon, <1>1, <1>2, <1>3 DEF TypeOK, ThreadState

LEMMA Becomes ==
    ASSUME TypeOK, NEW t \in {S, R}, NEW r \in ThreadState, th' = [th EXCEPT ![t] = r]
    PROVE  /\ th' \in [{S, R} -> ThreadState] /\ th'[t] = r
           /\ \A u \in {S, R} : u # t => th'[u] = th[u]
BY Zenon DEF TypeOK

LEMMA NextSlotGoes ==
    ASSUME TypeOK, NEW p \in Places, NextSlot(p), th[R].slot \in Slots
    PROVE  /\ th' \in [{S, R} -> ThreadState]
           /\ th'[R].pc = p /\ th'[R].handle = th[R].handle /\ th'[R].slot = th[R].slot + 1
           /\ th'[S] = th[S]
<1> DEFINE r == [th[R] EXCEPT !.pc = p, !.slot = @ + 1]
<1>1. /\ r \in ThreadState
      /\ r.pc = p /\ r.handle = th[R].handle /\ r.slot = th[R].slot + 1
  <2>1. th[R] \in ThreadState /\ th[R].slot + 1 \in 0 .. NSlots + 1
    BY SMTT(60), DispatchAssumption DEF TypeOK, Slots
  <2> QED BY Zenon, <2>1 DEF ThreadState
<1>2. th' = [th EXCEPT ![R] = r]
  BY Zenon DEF NextSlot, TypeOK
<1> HIDE DEF r
<1> QED
  BY Zenon, <1>1, <1>2, Becomes DEF S, R

-----------------------------------------------------------------------------
(* The server thread *)

\* Clearing slots leaves the handles and the other slots' filters.
LEMMA ClearedSlots ==
    ASSUME TypeOK, NEW I, slots' = Cleared(I)
    PROVE  /\ slots' \in [Slots -> [filter : Filters \cup {None}, handle : Handles \cup {None}]]
           /\ \A i \in Slots : /\ slots'[i].handle = slots[i].handle
                               /\ FilterAt(i)' = IF i \in I THEN None ELSE FilterAt(i)
<1> DEFINE Slot == [filter : Filters \cup {None}, handle : Handles \cup {None}]
           new(i) == IF i \in I THEN [slots[i] EXCEPT !.filter = None] ELSE slots[i]
<1>1. slots' = [i \in Slots |-> new(i)]
  BY Zenon DEF Cleared
<1>2. ASSUME NEW i \in Slots
      PROVE  /\ new(i) \in Slot /\ new(i).handle = slots[i].handle
             /\ new(i).filter = IF i \in I THEN None ELSE slots[i].filter
  <2>1. slots[i] \in Slot
    BY Zenon DEF TypeOK
  <2> QED BY <2>1, SMTT(60)
<1> HIDE DEF new, Slot
<1>3. \A i \in Slots : slots'[i] = new(i)
  BY <1>1, Zenon
<1>4. slots' \in [Slots -> Slot]
  BY <1>1, <1>2, Zenon
<1>5. \A i \in Slots : /\ slots'[i].handle = slots[i].handle
                      /\ slots'[i].filter = IF i \in I THEN None ELSE slots[i].filter
  BY <1>2, <1>3, Zenon
<1> QED BY <1>4, <1>5, Zenon DEF Slot, FilterAt


LEMMA AskStep ==
    ASSUME IInv, NEW h \in Handles, NEW fs \in Requests, Ask(h, fs)
    PROVE  IInv'
<1>1. /\ th[S].pc = "idle" /\ client[h] = "new"
      /\ seen' = seen \cup When("overlap", Reregistering) /\ seen' \subseteq Faults
      /\ current' = h /\ client' = [client EXCEPT ![h] = "asking"]
      /\ asked' = [asked EXCEPT ![h] = fs] /\ fs \in Seq(Filters)
      /\ UNCHANGED <<slots, mtx, pool_mtx, gone, sub_infos, conn, broker, msg>>
  BY Zenon, DispatchAssumption DEF Ask, At, Allowed, table, mqtt, IInv, TypeOK
<1>2. /\ th' \in [{S, R} -> ThreadState] /\ th'[R] = th[R]
      /\ th'[S].pc \in {"error", "register"} /\ th'[S].handle = h
  <2>1. PICK p \in {"error", "register"} :
          th' = [th EXCEPT ![S] = [pc |-> p, handle |-> h, slot |-> 0]]
    BY Zenon DEF Ask
  <2>2. [pc |-> p, handle |-> h, slot |-> 0] \in ThreadState
    BY SMTT(60), DispatchAssumption DEF ThreadState, Places
  <2> QED BY Zenon, <2>1, <2>2, Becomes DEF IInv
<1>3. TypeOK'
  BY Zenon, <1>1, <1>2 DEF IInv, TypeOK
<1>4. PlaceInv' /\ SessionInv' /\ SendInv'
  BY Zenon, <1>1, <1>2 DEF IInv, TypeOK, PlaceInv, SessionInv, SendInv, ServerPlaces, Serving, Closing
<1>5. OwnerInv'
  <2>1. \A i \in Slots : FilterAt(i) # None => slots[i].handle # h
    BY Zenon, <1>1 DEF IInv, OwnerInv
  <2>2. \A i \in Slots : FilterAt(i)' = FilterAt(i)
    BY Zenon, <1>1 DEF FilterAt
  <2>3. \A g \in Handles : g # h => client'[g] = client[g] /\ FiltersOf(g)' = FiltersOf(g)
    BY Zenon, <1>1 DEF IInv, TypeOK, FiltersOf
  <2> QED
    BY SMTT(60), <1>1, <1>2, <2>1, <2>2, <2>3 DEF IInv, OwnerInv, SlotsOf
<1>6. Good' => Good /\ ~Reregistering
  BY Zenon, <1>1 DEF Good, When
<1>7. WalkInv'
  BY Zenon, <1>1, <1>2, <1>6 DEF IInv, WalkInv, Reregistering, FilterAt
<1>8. InStepInv'
  <2>1. \A g \in Handles : Registered(g)' => Registered(g) /\ asked'[g] = asked[g]
    BY Zenon, <1>1, <1>2 DEF Registered, IInv, TypeOK
  <2>2. \A i : FilterAt(i)' = FilterAt(i)
    BY Zenon, <1>1 DEF FilterAt
  <2>3. \A g, f : Has(g, f)' <=> Has(g, f)
    BY Zenon, <1>1, <2>2 DEF Has
  <2>4. Good' => \A g \in Handles : Registered(g)' => \A k \in DOMAIN asked'[g] :
                   Has(g, asked[g][k])'
    BY Zenon, <1>6, <2>1, <2>3 DEF IInv, InStepInv
  <2> QED
    BY Zenon, <1>1, <1>2, <1>6, <2>2, <2>4 DEF IInv, InStepInv
<1> QED
  BY Zenon, <1>3, <1>4, <1>5, <1>7, <1>8 DEF IInv

\* The first free slots get the filters, or none when they do not fit.
LEMMA RegisterStep ==
    ASSUME IInv, RegisterSubscriptions
    PROVE  IInv'
<1>1. PICK h \in Handles, fs \in Seq(Filters), F \in SUBSET Slots :
        h = th[S].handle /\ fs = asked[h] /\ F = FreeSlots
  BY Zenon DEF RegisterSubscriptions, At, IInv, PlaceInv, TypeOK, Serving, FreeSlots
<1> DEFINE rank(i) == Cardinality({j \in F : j <= i})
           n == Cardinality(F)
<1>2. /\ n \in Nat
      /\ \A i \in F : rank(i) \in 1 .. n
      /\ \A k \in 1 .. n : \E i \in F : rank(i) = k
  BY Zenon, RankNumbers
<1>3. PICK fit \in BOOLEAN :
        /\ fit <=> Len(fs) <= n
        /\ slots' = [i \in Slots |->
                       IF i \notin F \/ rank(i) > Len(fs) THEN slots[i]
                       ELSE [filter |-> IF fit THEN fs[rank(i)] ELSE None, handle |-> h]]
        /\ Go(S, IF fit THEN "fill" ELSE "error")
  BY Zenon, <1>1 DEF RegisterSubscriptions, Rank
<1> HIDE DEF rank, n
<1>4. /\ th[S].pc = "register" /\ mtx = None
      /\ UNCHANGED <<mtx, pool_mtx, current, client, gone, asked, sub_infos, conn, broker,
                     msg, seen>>
  BY Zenon DEF RegisterSubscriptions, At, Free, bus, mqtt, marks
<1>5. /\ th' \in [{S, R} -> ThreadState] /\ th'[R] = th[R]
      /\ th'[S].pc = (IF fit THEN "fill" ELSE "error") /\ th'[S].handle = h
  BY Zenon, <1>1, <1>3, Goes DEF IInv, Places
<1>6. \A i \in Slots :
        \/ slots'[i] = slots[i] /\ (i \in F /\ ~fit => FALSE)
        \/ /\ i \in F /\ fit /\ rank(i) \in 1 .. Len(fs)
           /\ slots'[i] = [filter |-> fs[rank(i)], handle |-> h]
        \/ i \in F /\ ~fit /\ slots'[i] = [filter |-> None, handle |-> h]
  BY SMTT(60), <1>2, <1>3
<1>7. \A i \in Slots : FilterAt(i) # None => slots'[i] = slots[i]
  BY Zenon, <1>1, <1>6 DEF FreeSlots
<1>8. TypeOK'
  <2>1. slots' \in [Slots -> [filter : Filters \cup {None}, handle : Handles \cup {None}]]
    <3>1. \A i \in Slots : slots'[i] \in [filter : Filters \cup {None}, handle : Handles \cup {None}]
      <4> SUFFICES ASSUME NEW i \in Slots
                   PROVE  slots'[i] \in [filter : Filters \cup {None}, handle : Handles \cup {None}]
        BY Zenon
      <4>1. CASE slots'[i] = slots[i]
        BY Zenon, <4>1 DEF IInv, TypeOK
      <4>2. CASE rank(i) \in 1 .. Len(fs) /\ slots'[i] = [filter |-> fs[rank(i)], handle |-> h]
        <5>1. fs[rank(i)] \in Filters
          BY SMTT(60), <1>1, <4>2
        <5> QED BY SMTT(60), <4>2, <5>1
      <4>3. CASE slots'[i] = [filter |-> None, handle |-> h]
        BY SMTT(60), <4>3
      <4> QED BY Zenon, <1>6, <4>1, <4>2, <4>3
    <3>2. DOMAIN slots' = Slots /\ slots' = [i \in Slots |-> slots'[i]]
      BY Zenon, <1>3
    <3> QED BY Zenon, <3>1, <3>2
  <2> QED BY Zenon, <1>4, <1>5, <2>1 DEF IInv, TypeOK
<1>9. PlaceInv' /\ SessionInv' /\ SendInv'
  BY Zenon, <1>1, <1>4, <1>5 DEF IInv, TypeOK, PlaceInv, SessionInv, SendInv, ServerPlaces, Serving,
     Closing
<1>10. OwnerInv'
  <2>1. \A k \in 1 .. Len(fs) : fs[k] \in FiltersOf(h)
    BY SMTT(60), <1>1 DEF FiltersOf
  <2>2. client[h] = "asking" /\ \A i \in Slots : slots[i].handle = h => FilterAt(i) = None
    BY Zenon, <1>1, <1>4 DEF IInv, PlaceInv, Serving, OwnerInv, SlotsOf
  <2>3. \A g : FiltersOf(g)' = FiltersOf(g)
    BY Zenon, <1>4 DEF FiltersOf
  <2>4. \A i \in Slots : FilterAt(i)' # None =>
          /\ slots'[i].handle \in Handles
          /\ client'[slots'[i].handle] \in {"asking", "open"}
          /\ FilterAt(i)' \in FiltersOf(slots[i].handle)'
    <3> SUFFICES ASSUME NEW i \in Slots, FilterAt(i)' # None
                 PROVE  /\ slots'[i].handle \in Handles
                        /\ client'[slots'[i].handle] \in {"asking", "open"}
                        /\ FilterAt(i)' \in FiltersOf(slots'[i].handle)
      BY Zenon, <2>3
    <3>1. CASE slots'[i] = slots[i]
      BY Zenon, <1>4, <3>1 DEF IInv, OwnerInv, FilterAt
    <3>2. CASE rank(i) \in 1 .. Len(fs) /\ slots'[i] = [filter |-> fs[rank(i)], handle |-> h]
      BY SMTT(60), <1>4, <2>1, <2>2, <3>2 DEF FilterAt
    <3> QED BY SMTT(60), <1>6, <3>1, <3>2 DEF FilterAt
  <2>5. ~fit => \A i \in Slots : slots'[i].handle = h => FilterAt(i)' = None
    <3> SUFFICES ASSUME ~fit, NEW i \in Slots, slots'[i].handle = h PROVE FilterAt(i)' = None
      BY Zenon
    <3>1. CASE slots'[i] = slots[i]
      BY Zenon, <2>2, <3>1 DEF FilterAt
    <3>2. CASE slots'[i] = [filter |-> None, handle |-> h]
      BY SMTT(60), <3>2 DEF FilterAt
    <3> QED BY Zenon, <1>6, <3>1, <3>2
  <2> QED
    BY Zenon, <1>5, <2>4, <2>5 DEF OwnerInv, SlotsOf
<1>11. Good' => Good /\ ~Reregistering
  BY Zenon, <1>4 DEF Good, IInv, WalkInv, Serving
<1>12. WalkInv'
  BY Zenon, <1>5, <1>11 DEF IInv, WalkInv, Reregistering
<1>13. InStepInv'
  <2> SUFFICES ASSUME Good' PROVE InStepInv'
    BY Zenon DEF InStepInv
  <2>1. ASSUME NEW g \in Handles, Registered(g)', NEW k \in DOMAIN asked'[g]
        PROVE  Has(g, asked[g][k])'
    <3>1. CASE g = h
      <4>1. fit /\ k \in 1 .. n /\ asked'[g][k] = fs[k]
        BY SMTT(60), <1>1, <1>2, <1>3, <1>4, <1>5, <2>1, <3>1 DEF Registered, IInv, PlaceInv, Serving
      <4>2. PICK i \in F : rank(i) = k
        BY Zenon, <1>2, <4>1
      <4>3. k <= Len(fs)
        BY SMTT(60), <1>1, <1>4, <2>1, <3>1
      <4>4. slots'[i] = [filter |-> fs[k], handle |-> h] /\ i \in Slots
        BY SMTT(60), <1>1, <1>3, <4>1, <4>2, <4>3
      <4> QED BY SMTT(60), <3>1, <4>1, <4>4 DEF Has, FilterAt
    <3>2. CASE g # h
      <4>1. Registered(g) /\ asked' = asked
        BY Zenon, <1>4, <1>5, <2>1, <3>2 DEF Registered
      <4>2. PICK i \in Slots : slots[i].handle = g /\ FilterAt(i) = asked[g][k]
        BY Zenon, <1>11, <2>1, <4>1 DEF IInv, InStepInv, Has
      <4>3. asked[g][k] \in Filters /\ asked[g][k] # None
        BY SMTT(60), <2>1, <4>1, DispatchAssumption DEF IInv, TypeOK
      <4> QED BY Zenon, <1>7, <4>1, <4>2, <4>3 DEF FilterAt, Has
    <3> QED BY Zenon, <3>1, <3>2
  <2>2. broker' \subseteq {FilterAt(i)' : i \in Slots}
    <3>1. \A f \in broker : f # None /\ \E i \in Slots : FilterAt(i) = f
      BY SMTT(60), <1>11, DispatchAssumption DEF IInv, InStepInv, TypeOK
    <3> QED BY SMTT(60), <1>4, <1>7, <3>1 DEF FilterAt
  <2>3. conn' /\ th'[R].pc \in {"loop", "respond"} =>
          \A i \in Slots : FilterAt(i)' # None =>
            FilterAt(i)' \in broker' \/ (th'[S].pc = "fill" /\ slots'[i].handle = h)
    <3> SUFFICES ASSUME conn', th'[R].pc \in {"loop", "respond"},
                        NEW i \in Slots, FilterAt(i)' # None
                 PROVE  FilterAt(i)' \in broker' \/ (th'[S].pc = "fill" /\ slots'[i].handle = h)
      BY Zenon
    <3>1. CASE slots'[i] = slots[i]
      BY Zenon, <1>4, <1>5, <1>11, <3>1 DEF IInv, InStepInv, FilterAt
    <3>2. CASE fit /\ slots'[i] = [filter |-> fs[rank(i)], handle |-> h]
      BY SMTT(60), <1>5, <3>2
    <3>3. CASE ~fit /\ slots'[i] = [filter |-> None, handle |-> h]
      BY SMTT(60), <3>3 DEF FilterAt
    <3> QED BY Zenon, <1>6, <3>1, <3>2, <3>3
  <2> QED
    BY Zenon, <1>5, <2>1, <2>2, <2>3 DEF InStepInv
<1> QED
  BY Zenon, <1>8, <1>9, <1>10, <1>12, <1>13 DEF IInv

LEMMA FillStep ==
    ASSUME IInv, Fill
    PROVE  IInv'
<1>1. PICK h \in Handles, fs \in Seq(Filters) : h = th[S].handle /\ fs = asked[h]
  BY Zenon DEF Fill, At, IInv, PlaceInv, TypeOK, Serving
<1>2. /\ th[S].pc = "fill"
      /\ UNCHANGED <<slots, mtx, pool_mtx, current, client, gone, asked, conn, broker, msg,
                     seen>>
  BY Zenon DEF Fill, At, table, bus, mqtt
<1>3. CASE sub_infos' = sub_infos /\ th' = th
  BY SMTT(60), <1>2, <1>3 DEF IInv, TypeOK, PlaceInv, OwnerInv, SessionInv, SendInv, WalkInv,
     InStepInv, FilterAt,     SlotsOf, FiltersOf, Has, Good, Registered, Reregistering
<1>4. CASE /\ Len(fs) < MaxFilters /\ Go(S, "send")
           /\ sub_infos' = [k \in 1 .. MaxFilters |->
                              IF k <= Len(fs) THEN fs[k] ELSE sub_infos[k]]
  <2>1. /\ th' \in [{S, R} -> ThreadState] /\ th'[R] = th[R]
        /\ th'[S].pc = "send" /\ th'[S].handle = h
    BY Zenon, <1>1, <1>4, Goes DEF IInv, Places
  <2>2. /\ sub_infos' \in [1 .. MaxFilters -> Filters \cup {None}]
        /\ \A k \in 1 .. Len(fs) : k \in 1 .. MaxFilters /\ sub_infos'[k] = fs[k]
    BY SMTT(60), <1>1, <1>4, DispatchAssumption DEF IInv, TypeOK
  <2>3. TypeOK'
    BY Zenon, <1>2, <2>1, <2>2 DEF IInv, TypeOK
  <2>4. PlaceInv' /\ SessionInv' /\ OwnerInv'
    BY SMTT(60), <1>1, <1>2, <2>1 DEF IInv, TypeOK, PlaceInv, SessionInv, OwnerInv, ServerPlaces, Serving,
       Closing, FilterAt, SlotsOf, FiltersOf
  <2>5. SendInv'
    <3>1. \A k \in 1 .. Len(fs) : sub_infos'[k] # None
      BY SMTT(60), <1>1, <2>2, DispatchAssumption
    <3>2. sub_infos[1] # None => sub_infos'[1] # None
      BY SMTT(60), <1>1, <1>4, <3>1, DispatchAssumption
    <3> QED BY SMTT(60), <1>1, <1>2, <2>1, <2>2, <3>1, <3>2 DEF IInv, SendInv
  <2>6. Good' => Good /\ ~Reregistering
    BY Zenon, <1>2 DEF Good, IInv, WalkInv, Serving
  <2>7. WalkInv'
    BY Zenon, <2>1, <2>6 DEF IInv, WalkInv, Reregistering
  <2>8. InStepInv'
    <3>1. \A g : Registered(g)' <=> Registered(g)
      BY Zenon, <1>1, <1>2, <2>1 DEF Registered
    <3>3. \A g, f : Has(g, f)' <=> Has(g, f)
      BY Zenon, <1>2 DEF Has, FilterAt
    <3>2. \A k \in DOMAIN asked'[th'[S].handle] : sub_infos'[k] = asked'[th'[S].handle][k]
      BY SMTT(60), <1>1, <1>2, <2>1, <2>2
    <3> QED
      BY Zenon, <1>1, <1>2, <2>1, <2>6, <3>1, <3>2, <3>3 DEF IInv, InStepInv, FilterAt
  <2> QED BY Zenon, <2>3, <2>4, <2>5, <2>7, <2>8 DEF IInv
<1> QED
  BY Zenon, <1>1, <1>3, <1>4 DEF Fill, AssertCount

\* With the connection up the session gets the filters that were filled in.
LEMMA SendStep ==
    ASSUME IInv, Send
    PROVE  IInv'
<1>1. PICK h \in Handles, fs \in Seq(Filters) : h = th[S].handle /\ fs = asked[h]
  BY Zenon DEF Send, At, IInv, PlaceInv, TypeOK, Serving
<1>2. /\ th[S].pc = "send"
      /\ UNCHANGED <<slots, mtx, pool_mtx, current, client, gone, asked, sub_infos, conn, msg,
                     seen>>
  BY Zenon DEF Send, At, table, bus, marks
<1>3. PICK p \in {"accept", "undo"} : Go(S, p) /\ (p = "accept" <=> conn)
  BY Zenon DEF Send
<1>4. broker' = IF conn THEN broker \cup {sub_infos[k] : k \in 1 .. Len(fs)} ELSE broker
  BY Zenon, <1>1 DEF Send
<1>5. /\ th' \in [{S, R} -> ThreadState] /\ th'[R] = th[R]
      /\ th'[S].pc = p /\ th'[S].handle = h
  BY Zenon, <1>1, <1>3, Goes DEF IInv, Places
<1>6. \A k \in 1 .. Len(fs) : sub_infos[k] \in Filters
  BY SMTT(60), <1>1, <1>2 DEF IInv, SendInv, TypeOK
<1>7. TypeOK'
  BY SMTT(60), <1>2, <1>4, <1>5, <1>6 DEF IInv, TypeOK
<1>8. PlaceInv' /\ SessionInv' /\ SendInv' /\ OwnerInv'
  BY SMTT(60), <1>1, <1>2, <1>4, <1>5 DEF IInv, TypeOK, PlaceInv, SessionInv, SendInv, OwnerInv, ServerPlaces,
     Serving, Closing, FilterAt, SlotsOf, FiltersOf
<1>9. Good' => Good /\ ~Reregistering
  BY Zenon, <1>2 DEF Good, IInv, WalkInv, Serving
<1>10. WalkInv'
  BY Zenon, <1>5, <1>9 DEF IInv, WalkInv, Reregistering
<1>11. InStepInv'
  <2> SUFFICES ASSUME Good' PROVE InStepInv'
    BY Zenon DEF InStepInv
  <2>1. \A g : Registered(g)' => Registered(g)
    BY Zenon, <1>1, <1>2, <1>5 DEF Registered
  <2>2. conn => broker' = broker \cup FiltersOf(h)
    <3>1. \A k \in 1 .. Len(fs) : sub_infos[k] = fs[k]
      BY SMTT(60), <1>1, <1>2, <1>9 DEF IInv, InStepInv
    <3> QED BY SMTT(60), <1>1, <1>4, <3>1 DEF FiltersOf
  <2>3. FiltersOf(h) \subseteq {FilterAt(i) : i \in Slots}
    <3>1. \A k \in DOMAIN fs : Has(h, fs[k])
      BY Zenon, <1>1, <1>2, <1>9 DEF IInv, InStepInv, Registered
    <3> QED BY SMTT(60), <1>1, <3>1 DEF FiltersOf, Has
  <2>4. broker' \subseteq {FilterAt(i)' : i \in Slots}
    BY Zenon, <1>2, <1>4, <1>9, <2>2, <2>3 DEF IInv, InStepInv, FilterAt
  <2>5. conn' /\ th'[R].pc \in {"loop", "respond"} =>
          \A i \in Slots : FilterAt(i)' # None => FilterAt(i)' \in broker'
    BY Zenon, <1>1, <1>2, <1>5, <1>9, <2>2 DEF IInv, InStepInv, OwnerInv, FilterAt
  <2>6. \A g, f : Has(g, f)' <=> Has(g, f)
    BY Zenon, <1>2 DEF Has, FilterAt
  <2> QED
    BY Zenon, <1>2, <1>3, <1>5, <1>9, <2>1, <2>4, <2>5, <2>6 DEF IInv, InStepInv
<1> QED
  BY Zenon, <1>7, <1>8, <1>10, <1>11 DEF IInv

LEMMA UndoStep ==
    ASSUME IInv, Undo
    PROVE  IInv'
<1>1. PICK h \in Handles : h = th[S].handle
  BY Zenon DEF Undo, At, IInv, PlaceInv, Serving
<1>2. /\ th[S].pc = "undo" /\ Go(S, "error")
      /\ slots' = Cleared(SlotsOf(h))
      /\ UNCHANGED <<mtx, pool_mtx, current, client, gone, asked, sub_infos, conn, broker,
                     msg, seen>>
  BY Zenon, <1>1 DEF Undo, At, bus, mqtt, marks
<1>3. /\ th' \in [{S, R} -> ThreadState] /\ th'[R] = th[R]
      /\ th'[S].pc = "error" /\ th'[S].handle = h
  BY Zenon, <1>1, <1>2, Goes DEF IInv, Places
<1>4. /\ slots' \in [Slots -> [filter : Filters \cup {None}, handle : Handles \cup {None}]]
      /\ \A i \in Slots : /\ slots'[i].handle = slots[i].handle
                          /\ FilterAt(i)' = IF slots[i].handle = h THEN None ELSE FilterAt(i)
  BY SMTT(60), <1>2, ClearedSlots DEF IInv, SlotsOf
<1>5. TypeOK'
  BY Zenon, <1>2, <1>3, <1>4 DEF IInv, TypeOK
<1>6. PlaceInv' /\ SessionInv' /\ SendInv'
  BY Zenon, <1>1, <1>2, <1>3 DEF IInv, TypeOK, PlaceInv, SessionInv, SendInv, ServerPlaces, Serving,
     Closing
<1>7. OwnerInv'
  <2>1. \A g : FiltersOf(g)' = FiltersOf(g)
    BY Zenon, <1>2 DEF FiltersOf
  <2> QED BY Zenon, <1>2, <1>3, <1>4, <2>1 DEF IInv, OwnerInv, SlotsOf
<1>8. Good' => Good /\ ~Reregistering /\ ~conn /\ broker = {}
  BY Zenon, <1>2 DEF Good, IInv, WalkInv, InStepInv, SessionInv, Serving
<1>9. WalkInv'
  BY Zenon, <1>3, <1>8 DEF IInv, WalkInv, Reregistering
<1>10. InStepInv'
  <2>1. \A g \in Handles : Registered(g)' => Registered(g) /\ g # h
    BY Zenon, <1>1, <1>2, <1>3 DEF Registered, IInv, PlaceInv, Serving
  <2>2. \A g, f : Has(g, f) /\ g # h => Has(g, f)'
    BY Zenon, <1>4 DEF Has
  <2> QED
    BY Zenon, <1>2, <1>3, <1>8, <2>1, <2>2 DEF IInv, InStepInv
<1> QED
  BY Zenon, <1>5, <1>6, <1>7, <1>9, <1>10 DEF IInv

LEMMA ErrorStep ==
    ASSUME IInv, Error
    PROVE  IInv'
<1>1. PICK h \in Handles : h = th[S].handle
  BY Zenon DEF Error, At, IInv, PlaceInv, Serving
<1>2. /\ th[S].pc = "error" /\ Go(S, "idle") /\ current' = None
      /\ client' = [client EXCEPT ![h] = "closed"]
      /\ UNCHANGED <<slots, mtx, pool_mtx, gone, asked, sub_infos, conn, broker, msg, seen>>
  BY Zenon, <1>1 DEF Error, At, table, mqtt, marks
<1>3. /\ th' \in [{S, R} -> ThreadState] /\ th'[R] = th[R]
      /\ th'[S].pc = "idle" /\ th'[S].handle = h
  BY Zenon, <1>1, <1>2, Goes DEF IInv, Places
<1>4. \A i \in Slots : FilterAt(i)' = FilterAt(i) /\ (slots[i].handle = h => FilterAt(i) = None)
  BY Zenon, <1>1, <1>2 DEF IInv, OwnerInv, SlotsOf, FilterAt
<1>5. TypeOK'
  BY Zenon, <1>2, <1>3 DEF IInv, TypeOK
<1>6. PlaceInv' /\ SessionInv' /\ SendInv'
  BY Zenon, <1>1, <1>2, <1>3 DEF IInv, TypeOK, PlaceInv, SessionInv, SendInv, ServerPlaces, Serving,
     Closing
<1>7. OwnerInv'
  <2>1. \A g : FiltersOf(g)' = FiltersOf(g)
    BY Zenon, <1>2 DEF FiltersOf
  <2> QED BY Zenon, <1>2, <1>3, <1>4, <2>1 DEF IInv, TypeOK, OwnerInv
<1>8. WalkInv'
  BY Zenon, <1>2, <1>3, <1>4 DEF IInv, WalkInv, Reregistering, Good, Serving, FilterAt
<1>9. InStepInv'
  <2>1. \A g \in Handles : Registered(g)' => Registered(g)
    BY Zenon, <1>1, <1>2, <1>3 DEF Registered, IInv, TypeOK
  <2>2. \A g, f : Has(g, f)' <=> Has(g, f)
    BY Zenon, <1>2, <1>4 DEF Has
  <2> QED
    BY SMTT(60), <1>2, <1>3, <1>4, <2>1, <2>2 DEF IInv, InStepInv, Good
<1> QED
  BY Zenon, <1>5, <1>6, <1>7, <1>8, <1>9 DEF IInv

\* The answer is written, or its connection has to be closed.
LEMMA AcceptStep ==
    ASSUME IInv, Accept
    PROVE  IInv'
<1>1. PICK h \in Handles, p \in {"idle", "close"} : h = th[S].handle /\ Go(S, p)
  BY Zenon DEF Accept, At, IInv, PlaceInv, Serving
<1>2. /\ th[S].pc = "accept" /\ current' \in Handles \cup {None}
      /\ client' = [client EXCEPT ![h] = "open"]
      /\ seen \subseteq seen' /\ seen' \subseteq Faults
      /\ UNCHANGED <<slots, mtx, pool_mtx, gone, asked, sub_infos, conn, broker, msg>>
  BY Zenon, <1>1 DEF Accept, Answered, Allowed, At, table, mqtt, IInv, TypeOK
<1>3. /\ th' \in [{S, R} -> ThreadState] /\ th'[R] = th[R]
      /\ th'[S].pc = p /\ th'[S].handle = h
  BY Zenon, <1>1, Goes DEF IInv, Places
<1>4. \A i : FilterAt(i)' = FilterAt(i) /\ FiltersOf(i)' = FiltersOf(i)
  BY Zenon, <1>2 DEF FilterAt, FiltersOf
<1>5. TypeOK'
  BY Zenon, <1>2, <1>3 DEF IInv, TypeOK
<1>6. PlaceInv' /\ SessionInv' /\ SendInv'
  BY SMTT(60), <1>1, <1>2, <1>3 DEF IInv, TypeOK, PlaceInv, SessionInv, SendInv, ServerPlaces, Serving,
     Closing
<1>7. OwnerInv'
  BY Zenon, <1>1, <1>2, <1>3, <1>4 DEF IInv, TypeOK, OwnerInv
<1>8. Good' => Good
  BY Zenon, <1>2 DEF Good
<1>9. WalkInv'
  BY Zenon, <1>1, <1>2, <1>3, <1>4, <1>8 DEF IInv, WalkInv, Reregistering, Serving
<1>10. InStepInv'
  <2>1. \A g \in Handles : Registered(g)' => Registered(g)
    BY Zenon, <1>1, <1>2, <1>3 DEF Registered, IInv, TypeOK
  <2>2. \A g, f : Has(g, f)' <=> Has(g, f)
    BY Zenon, <1>2, <1>4 DEF Has
  <2> QED
    BY Zenon, <1>1, <1>2, <1>3, <1>4, <1>8, <2>1, <2>2 DEF IInv, InStepInv
<1> QED
  BY Zenon, <1>5, <1>6, <1>7, <1>9, <1>10 DEF IInv

\* A step that only moves a thread, between places the invariant treats alike.
LEMMA ServerMoves ==
    ASSUME IInv,
           UNCHANGED <<slots, mtx, client, asked, sub_infos, conn, broker>>,
           msg' \in Topics \cup {None}, pool_mtx' \in {None, S, R}, current' \in Handles \cup {None},
           gone' \subseteq Handles, seen \subseteq seen', seen' \subseteq Faults,
           th' \in [{S, R} -> ThreadState], th'[R] = th[R],
           \/ th'[S] = th[S]
           \/ /\ th[S].pc \in {"idle", "close"} /\ th'[S].pc \in Closing
              /\ th'[S].handle \in Handles /\ client[th'[S].handle] \in {"open", "closed"}
    PROVE  IInv'
<1>1. \A i : FilterAt(i)' = FilterAt(i) /\ FiltersOf(i)' = FiltersOf(i)
  BY Zenon DEF FilterAt, FiltersOf
<1>2. TypeOK'
  BY Zenon DEF IInv, TypeOK
<1>3. PlaceInv' /\ SessionInv' /\ SendInv'
  BY Zenon DEF IInv, TypeOK, PlaceInv, SessionInv, SendInv, ServerPlaces, Serving, Closing
<1>4. OwnerInv'
  BY Zenon, <1>1 DEF IInv, OwnerInv, SlotsOf, Closing
<1>5. Good' => Good
  BY Zenon DEF Good
<1>6. WalkInv'
  BY Zenon, <1>1, <1>5 DEF IInv, WalkInv, Reregistering, Serving, Closing
<1>7. InStepInv'
  <2>1. \A g \in Handles : Registered(g)' => Registered(g)
    BY Zenon DEF Registered, Closing
  <2>2. \A g, f : Has(g, f)' <=> Has(g, f)
    BY Zenon, <1>1 DEF Has
  <2> QED
    BY Zenon, <1>1, <1>5, <2>1, <2>2 DEF IInv, InStepInv, Closing
<1> QED
  BY Zenon, <1>2, <1>3, <1>4, <1>6, <1>7 DEF IInv

LEMMA HangupStep ==
    ASSUME IInv, NEW h \in Handles, Hangup(h)
    PROVE  IInv'
<1>1. [th[S] EXCEPT !.pc = "close", !.handle = h] \in ThreadState
  BY Zenon DEF IInv, TypeOK, ThreadState, Places
<1>2. th' = [th EXCEPT ![S] = [th[S] EXCEPT !.pc = "close", !.handle = h]]
  BY Zenon DEF Hangup, IInv, TypeOK
<1>3. /\ th' \in [{S, R} -> ThreadState] /\ th'[R] = th[R]
      /\ th'[S].pc = "close" /\ th'[S].handle = h
  BY Zenon, <1>1, <1>2 DEF IInv, TypeOK, ThreadState
<1>4. th[S].pc = "idle" /\ client[h] = "open" /\ seen \subseteq seen' /\ seen' \subseteq Faults
  BY Zenon DEF Hangup, At, Allowed, IInv, TypeOK
<1> QED
  BY Zenon, <1>3, <1>4, ServerMoves DEF Hangup, table, bus, mqtt, IInv, TypeOK, Closing

\* Only the server thread gets to run a close callback: the receiver still holds mtx.
LEMMA OnCloseStep ==
    ASSUME IInv, NEW t \in {S, R}, OnClose(t)
    PROVE  IInv'
<1>1. t = S
  BY Zenon, DispatchAssumption DEF OnClose, At, Free, IInv, PlaceInv, Closing
<1>2. PICK h \in Handles : h = th[S].handle
  BY Zenon, <1>1 DEF OnClose, At, IInv, PlaceInv, Closing
<1>3. /\ th[S].pc = "on_close" /\ Go(S, "idle") /\ client[h] \in {"open", "closed"}
      /\ broker' = broker \ OnlyOf(h)
      /\ slots' = Cleared(SlotsOf(h))
      /\ client' = [client EXCEPT ![h] = "closed"]
      /\ pool_mtx' = None /\ current' \in Handles \cup {None}
      /\ UNCHANGED <<mtx, gone, asked, sub_infos, conn, msg, seen>>
  BY Zenon, <1>1, <1>2 DEF OnClose, At, Unsubscribed, Unregistered, marks, IInv, TypeOK,
     PlaceInv, Closing
<1>4. /\ th' \in [{S, R} -> ThreadState] /\ th'[R] = th[R]
      /\ th'[S].pc = "idle" /\ th'[S].handle = h
  BY Zenon, <1>2, <1>3, Goes DEF IInv, Places
<1>5. /\ slots' \in [Slots -> [filter : Filters \cup {None}, handle : Handles \cup {None}]]
      /\ \A i \in Slots : /\ slots'[i].handle = slots[i].handle
                          /\ FilterAt(i)' = IF slots[i].handle = h THEN None ELSE FilterAt(i)
  BY SMTT(60), <1>3, ClearedSlots DEF IInv, SlotsOf
<1>6. \A i \in Slots : slots[i].handle # h => FilterAt(i) \notin OnlyOf(h)
  BY Zenon DEF OnlyOf, SlotsOf
<1>7. \A f \in broker', j \in Slots : FilterAt(j) = f =>
        \E i \in Slots : slots[i].handle # h /\ FilterAt(i) = f
  BY Zenon, <1>3 DEF OnlyOf, SlotsOf
<1>8. TypeOK'
  BY Zenon, <1>3, <1>4, <1>5 DEF IInv, TypeOK
<1>9. PlaceInv' /\ SessionInv' /\ SendInv'
  BY Zenon, <1>2, <1>3, <1>4 DEF IInv, TypeOK, PlaceInv, SessionInv, SendInv, ServerPlaces, Serving,
     Closing
<1>10. OwnerInv'
  <2>1. \A g : FiltersOf(g)' = FiltersOf(g)
    BY Zenon, <1>3 DEF FiltersOf
  <2> QED BY SMTT(60), <1>3, <1>4, <1>5, <2>1 DEF IInv, TypeOK, OwnerInv
<1>11. WalkInv'
  <2>1. Good' => Good /\ th[R].pc \notin {"refill", "resend"}
    BY Zenon, <1>3, DispatchAssumption DEF Good, OnClose, Free, IInv, PlaceInv
  <2> QED
    BY Zenon, <1>3, <1>4, <2>1 DEF IInv, WalkInv, Reregistering, Serving
<1>12. InStepInv'
  <2>1. \A g \in Handles : Registered(g)' => Registered(g) /\ g # h
    BY Zenon, <1>3, <1>4 DEF Registered, IInv, TypeOK
  <2>2. \A g, f : Has(g, f) /\ g # h => Has(g, f)'
    BY Zenon, <1>5 DEF Has
  <2>3. Good' => broker' \subseteq {FilterAt(i)' : i \in Slots}
    BY SMTT(60), <1>3, <1>5, <1>7 DEF IInv, InStepInv, Good
  <2>4. Good' /\ conn' /\ th'[R].pc \in {"loop", "respond"} =>
          \A i \in Slots : FilterAt(i)' # None => FilterAt(i)' \in broker'
    BY SMTT(60), <1>3, <1>4, <1>5, <1>6 DEF IInv, InStepInv, Good
  <2> QED
    BY Zenon, <1>3, <1>4, <2>1, <2>2, <2>3, <2>4 DEF IInv, InStepInv, Good
<1> QED
  BY Zenon, <1>8, <1>9, <1>10, <1>11, <1>12 DEF IInv

-----------------------------------------------------------------------------
(* The receiver *)

\* The table has been walked up to a slot: its filters are in the session.
Walked(n) == \A i \in Slots : i < n /\ FilterAt(i) # None => FilterAt(i) \in broker

\* What a move of the receiver must keep that leaves table and session alone.
ReceiverKeeps ==
    /\ th'[R].pc \in {"down", "refill", "loop", "respond", "close", "on_close"}
    /\ mtx' = IF th'[R].pc \in {"refill", "respond"} \cup Closing THEN R ELSE None
    /\ th'[R].pc \in Closing =>
         th'[R].handle \in Handles /\ client[th'[R].handle] \in {"open", "closed"}
    /\ th'[R].pc \in {"refill", "respond"} => th'[R].slot \in 1 .. NSlots + 1
    /\ th'[R].pc = "down" => ~conn
    /\ Good' => /\ th'[R].pc \notin Closing
                /\ th'[R].pc = "refill" => Reregistering /\ Walked(th'[R].slot)
                /\ th'[R].pc \in {"loop", "respond"} =>
                     th[R].pc \in {"loop", "respond"} \/ Walked(NSlots + 1)

LEMMA ReceiverMoves ==
    ASSUME IInv,
           UNCHANGED <<slots, current, client, gone, asked, sub_infos, conn, broker>>,
           pool_mtx' \in {None, S, R}, msg' \in Topics \cup {None},
           seen \subseteq seen', seen' \subseteq Faults,
           th' \in [{S, R} -> ThreadState], th'[S] = th[S], ReceiverKeeps
    PROVE  IInv'
<1>1. \A i : FilterAt(i)' = FilterAt(i) /\ FiltersOf(i)' = FiltersOf(i)
  BY Zenon DEF FilterAt, FiltersOf
<1>2. TypeOK'
  BY Zenon DEF IInv, TypeOK, ReceiverKeeps
<1>3. PlaceInv' /\ SessionInv' /\ SendInv'
  BY Zenon DEF IInv, TypeOK, PlaceInv, SessionInv, SendInv, ReceiverKeeps, ReceiverPlaces, Serving,
     Closing
<1>4. OwnerInv'
  BY Zenon, <1>1 DEF IInv, OwnerInv, SlotsOf
<1>5. Good' => Good
  BY Zenon DEF Good
<1>6. WalkInv'
  BY Zenon, <1>1, <1>5 DEF IInv, WalkInv, Reregistering, Serving, ReceiverKeeps, Walked
<1>7. InStepInv'
  <2>1. \A g, f : /\ Has(g, f)' <=> Has(g, f)
                  /\ Registered(g)' <=> Registered(g)
    BY Zenon, <1>1 DEF Has, Registered
  <2>2. Good' /\ th'[R].pc \in {"loop", "respond"} /\ th[R].pc \notin {"loop", "respond"} =>
          \A i \in Slots : FilterAt(i) # None => FilterAt(i) \in broker
    BY SMTT(60), DispatchAssumption DEF ReceiverKeeps, Walked, Slots
  <2> QED
    BY Zenon, <1>1, <1>5, <2>1, <2>2 DEF IInv, InStepInv
<1> QED
  BY Zenon, <1>2, <1>3, <1>4, <1>6, <1>7 DEF IInv

LEMMA CloseLockStep ==
    ASSUME IInv, NEW t \in {S, R}, CloseLock(t)
    PROVE  IInv'
<1>1. /\ th' \in [{S, R} -> ThreadState] /\ \A u \in {S, R} : u # t => th'[u] = th[u]
      /\ th'[t].pc = "on_close" /\ th'[t].handle = th[t].handle /\ th[t].pc = "close"
      /\ th[t].handle \in Handles /\ client[th[t].handle] \in {"open", "closed"}
  BY Zenon, Goes DEF CloseLock, At, IInv, PlaceInv, Places, Closing
<1>2. /\ UNCHANGED <<slots, mtx, current, client, gone, asked, sub_infos, conn, broker, msg, seen>>
      /\ pool_mtx' \in {None, S, R}
      /\ gone' \subseteq Handles /\ seen \subseteq seen' /\ seen' \subseteq Faults
      /\ current' \in Handles \cup {None} /\ msg' \in Topics \cup {None}
  BY Zenon DEF CloseLock, table, mqtt, marks, IInv, TypeOK
<1>3. CASE t = S
  BY Zenon, <1>1, <1>2, <1>3, ServerMoves DEF Closing
<1>4. CASE t = R
  <2>1. ReceiverKeeps
    BY Zenon, <1>1, <1>2, <1>4 DEF ReceiverKeeps, Closing, IInv, PlaceInv, WalkInv, Good
  <2> QED BY Zenon, <1>1, <1>2, <1>4, <2>1, ReceiverMoves
<1> QED
  BY Zenon, <1>3, <1>4

LEMMA ConnectStep ==
    ASSUME IInv, Connect
    PROVE  IInv'
<1>1. /\ th[R].pc = "down" /\ ~conn /\ broker = {}
      /\ seen' = seen \cup When("overlap", ~At(S, "idle")) /\ seen' \subseteq Faults
      /\ conn' = TRUE /\ broker' = {} /\ Go(R, "reregister")
      /\ UNCHANGED <<slots, mtx, pool_mtx, current, client, gone, asked, sub_infos, msg>>
  BY Zenon DEF Connect, At, Allowed, table, bus, IInv, TypeOK, SessionInv, When
<1>2. /\ th' \in [{S, R} -> ThreadState] /\ th'[S] = th[S] /\ th'[R].pc = "reregister"
  BY Zenon, <1>1, Goes DEF IInv, Places
<1>3. \A i : FilterAt(i)' = FilterAt(i) /\ FiltersOf(i)' = FiltersOf(i)
  BY Zenon, <1>1 DEF FilterAt, FiltersOf
<1>4. TypeOK'
  BY Zenon, <1>1, <1>2 DEF IInv, TypeOK
<1>5. PlaceInv' /\ SessionInv' /\ SendInv'
  BY Zenon, <1>1, <1>2 DEF IInv, TypeOK, PlaceInv, SessionInv, SendInv, ReceiverPlaces, Serving, Closing
<1>6. OwnerInv'
  BY Zenon, <1>1, <1>2, <1>3 DEF IInv, OwnerInv, SlotsOf
<1>7. Good' => Good /\ th[S].pc = "idle"
  BY Zenon, <1>1 DEF Good, When, At
<1>8. WalkInv'
  BY Zenon, <1>1, <1>2, <1>7 DEF IInv, WalkInv, Reregistering, Serving, Closing
<1>9. InStepInv'
  <2>1. \A g, f : /\ Has(g, f)' <=> Has(g, f)
                  /\ Registered(g)' <=> Registered(g)
    BY Zenon, <1>1, <1>2, <1>3 DEF Has, Registered
  <2> QED
    BY Zenon, <1>1, <1>2, <1>3, <1>7, <2>1 DEF IInv, InStepInv
<1> QED
  BY Zenon, <1>4, <1>5, <1>6, <1>8, <1>9 DEF IInv

LEMMA ReregisterStep ==
    ASSUME IInv, Reregister \/ Receive
    PROVE  IInv'
<1>1. PICK p \in {"refill", "respond"} :
        /\ th[R].pc = (IF p = "refill" THEN "reregister" ELSE "loop")
        /\ th' = [th EXCEPT ![R].pc = p, ![R].slot = 1]
  BY Zenon DEF Reregister, Receive, At
<1>2. /\ UNCHANGED <<slots, pool_mtx, current, client, gone, asked, sub_infos, conn, broker, msg,
                     seen>>
      /\ mtx' = R
  BY Zenon DEF Reregister, Receive, bus, mqtt, marks
<1>3. /\ th' \in [{S, R} -> ThreadState] /\ th'[S] = th[S]
      /\ th'[R].pc = p /\ th'[R].slot = 1
  <2>1. th[R] \in ThreadState /\ 1 \in 0 .. NSlots + 1
    BY SMTT(60), DispatchAssumption DEF IInv, TypeOK
  <2>2. /\ [th[R] EXCEPT !.pc = p, !.slot = 1] \in ThreadState
        /\ [th[R] EXCEPT !.pc = p, !.slot = 1].pc = p
        /\ [th[R] EXCEPT !.pc = p, !.slot = 1].slot = 1
    BY Zenon, <2>1 DEF ThreadState, Places
  <2>3. th' = [th EXCEPT ![R] = [th[R] EXCEPT !.pc = p, !.slot = 1]]
    BY Zenon, <1>1 DEF IInv, TypeOK
  <2> QED BY Zenon, <2>2, <2>3, Becomes DEF IInv
<1>4. 1 \in 1 .. NSlots + 1 /\ Walked(1)
  BY SMTT(60), DispatchAssumption DEF Walked, Slots
<1>5. ReceiverKeeps
  BY Zenon, <1>1, <1>2, <1>3, <1>4 DEF ReceiverKeeps, Reregistering, Closing
<1> QED
  BY Zenon, <1>2, <1>3, <1>5, ReceiverMoves DEF IInv, TypeOK

LEMMA RefillStep ==
    ASSUME IInv, Refill
    PROVE  IInv'
<1>1. PICK i \in 1 .. NSlots + 1 : i = th[R].slot
  BY Zenon DEF Refill, At, IInv, PlaceInv
<1>2. /\ th[R].pc = "refill"
      /\ UNCHANGED <<slots, pool_mtx, current, client, gone, asked, conn, broker, msg, seen>>
  BY Zenon DEF Refill, At, bus, mqtt, marks
<1>3. mtx = R /\ (Good => Walked(i))
  BY Zenon, <1>1, <1>2 DEF IInv, PlaceInv, WalkInv, Walked
<1>4. CASE i > NSlots /\ mtx' = None /\ Go(R, "loop") /\ sub_infos' = sub_infos
  <2>1. /\ th' \in [{S, R} -> ThreadState] /\ th'[S] = th[S] /\ th'[R].pc = "loop"
    BY Zenon, <1>4, Goes DEF IInv, Places
  <2>2. i = NSlots + 1
    BY SMTT(60), <1>1, <1>4, DispatchAssumption
  <2>3. ReceiverKeeps
    BY Zenon, <1>2, <1>3, <1>4, <2>1, <2>2 DEF ReceiverKeeps, Closing, Good
  <2> QED BY Zenon, <1>2, <1>4, <2>1, <2>3, ReceiverMoves DEF IInv, TypeOK
<1>5. CASE i \in Slots /\ FilterAt(i) = None /\ NextSlot("refill") /\ UNCHANGED <<mtx, sub_infos>>
  <2>1. /\ th' \in [{S, R} -> ThreadState] /\ th'[S] = th[S]
        /\ th'[R].pc = "refill" /\ th'[R].slot = i + 1
    BY Zenon, <1>1, <1>5, NextSlotGoes DEF IInv, Places
  <2>2. i + 1 \in 1 .. NSlots + 1 /\ (Good => Walked(i + 1))
    BY SMTT(60), <1>3, <1>5, DispatchAssumption DEF Walked, Slots
  <2>3. ReceiverKeeps
    BY Zenon, <1>2, <1>3, <1>5, <2>1, <2>2 DEF ReceiverKeeps, Closing, Good, Reregistering
  <2> QED BY Zenon, <1>2, <1>5, <2>1, <2>3, ReceiverMoves DEF IInv, TypeOK
<1>6. CASE /\ i \in Slots /\ FilterAt(i) # None /\ Go(R, "resend")
           /\ sub_infos' = [sub_infos EXCEPT ![1] = FilterAt(i)] /\ mtx' = mtx
  <2>1. /\ th' \in [{S, R} -> ThreadState] /\ th'[S] = th[S]
        /\ th'[R].pc = "resend" /\ th'[R].slot = i
    BY Zenon, <1>1, <1>6, Goes DEF IInv, Places
  <2>2. FilterAt(i) \in Filters \cup {None}
    BY Zenon, <1>6 DEF IInv, TypeOK, FilterAt
  <2>3. /\ sub_infos' \in [1 .. MaxFilters -> Filters \cup {None}] /\ sub_infos'[1] = FilterAt(i)
        /\ \A k \in 1 .. MaxFilters : sub_infos[k] # None => sub_infos'[k] # None
    BY SMTT(60), <1>6, <2>2, DispatchAssumption DEF IInv, TypeOK
  <2>4. \A j : FilterAt(j)' = FilterAt(j) /\ FiltersOf(j)' = FiltersOf(j)
    BY Zenon, <1>2 DEF FilterAt, FiltersOf
  <2>5. TypeOK'
    BY Zenon, <1>2, <1>3, <1>6, <2>1, <2>3 DEF IInv, TypeOK
  <2>6. PlaceInv' /\ SessionInv' /\ SendInv'
    BY Zenon, <1>2, <1>3, <1>6, <2>1, <2>3 DEF IInv, PlaceInv, SessionInv, SendInv, ReceiverPlaces,
       Serving, Closing
  <2>7. OwnerInv'
    BY Zenon, <1>2, <2>1, <2>4 DEF IInv, OwnerInv, SlotsOf
  <2>8. WalkInv'
    BY Zenon, <1>1, <1>2, <2>1, <2>3, <2>4 DEF IInv, WalkInv, Good, Reregistering, Serving, Closing
  <2>9. InStepInv'
    <3>1. \A g, f : /\ Has(g, f)' <=> Has(g, f)
                    /\ Registered(g)' <=> Registered(g)
      BY Zenon, <1>2, <2>1, <2>4 DEF Has, Registered
    <3>2. Good' => Good /\ th[S].pc \notin {"send", "undo"}
      BY Zenon, <1>2 DEF Good, IInv, WalkInv, Reregistering, Serving
    <3> QED
      BY Zenon, <1>2, <2>1, <2>4, <3>1, <3>2 DEF IInv, InStepInv
  <2> QED BY Zenon, <2>5, <2>6, <2>7, <2>8, <2>9 DEF IInv
<1> QED
  BY Zenon, <1>1, <1>4, <1>5, <1>6 DEF Refill, Skips

LEMMA ResendStep ==
    ASSUME IInv, Resend
    PROVE  IInv'
<1>1. PICK n \in Slots : n = th[R].slot
  BY Zenon DEF Resend, At, IInv, PlaceInv
<1>2. /\ th[R].pc = "resend" /\ NextSlot("refill")
      /\ UNCHANGED <<mtx, pool_mtx, current, client, gone, asked, sub_infos, conn, msg, seen>>
  BY Zenon DEF Resend, At, bus, marks
<1>3. /\ th' \in [{S, R} -> ThreadState] /\ th'[S] = th[S]
      /\ th'[R].pc = "refill" /\ th'[R].slot = n + 1 /\ n + 1 \in 1 .. NSlots + 1
  BY SMTT(60), <1>1, <1>2, NextSlotGoes, DispatchAssumption DEF IInv, Places, Slots
<1>4. sub_infos[1] \in Filters
  BY SMTT(60), <1>2, DispatchAssumption DEF IInv, TypeOK, SendInv
<1>5. \/ conn /\ broker' = broker \cup {sub_infos[1]} /\ slots' = slots
      \/ ~conn /\ broker' = broker /\ slots' = Cleared({n})
  BY Zenon, <1>1 DEF Resend
<1>6. /\ slots' \in [Slots -> [filter : Filters \cup {None}, handle : Handles \cup {None}]]
      /\ \A i \in Slots : /\ slots'[i].handle = slots[i].handle
                          /\ FilterAt(i)' \in {FilterAt(i), None}
                          /\ conn => FilterAt(i)' = FilterAt(i)
  <2>1. CASE slots' = slots
    BY Zenon, <2>1 DEF IInv, TypeOK, FilterAt
  <2>2. CASE ~conn /\ slots' = Cleared({n})
    BY Zenon, <2>2, ClearedSlots DEF IInv
  <2> QED BY Zenon, <1>5, <2>1, <2>2
<1>7. \A g : FiltersOf(g)' = FiltersOf(g)
  BY Zenon, <1>2 DEF FiltersOf
<1>8. TypeOK'
  BY Zenon, <1>2, <1>3, <1>4, <1>5, <1>6 DEF IInv, TypeOK
<1>9. PlaceInv' /\ SessionInv' /\ SendInv'
  BY Zenon, <1>2, <1>3, <1>5 DEF IInv, TypeOK, PlaceInv, SessionInv, SendInv, ReceiverPlaces, Serving,
     Closing
<1>10. OwnerInv'
  BY SMTT(60), <1>2, <1>3, <1>6, <1>7 DEF IInv, TypeOK, OwnerInv, SlotsOf
<1>11. Good' => /\ Good /\ conn /\ th[S].pc \notin Serving /\ sub_infos[1] = FilterAt(n)
                /\ Walked(n)
  BY Zenon, <1>1, <1>2 DEF Good, IInv, WalkInv, Reregistering, Walked
<1>12. Good' => Walked(n + 1)'
  BY SMTT(60), <1>1, <1>5, <1>6, <1>11, DispatchAssumption DEF Walked, Slots
<1>13. WalkInv'
  BY Zenon, <1>2, <1>3, <1>11, <1>12 DEF WalkInv, Reregistering, Closing, Walked
<1>14. InStepInv'
  <2>1. Good' => \A g, f : /\ Has(g, f)' <=> Has(g, f)
                           /\ Registered(g)' <=> Registered(g)
    BY Zenon, <1>2, <1>3, <1>6, <1>11 DEF Has, Registered
  <2>2. Good' => broker' \subseteq {FilterAt(i)' : i \in Slots}
    BY SMTT(60), <1>1, <1>5, <1>6, <1>11 DEF IInv, InStepInv
  <2> QED
    BY Zenon, <1>2, <1>3, <1>11, <2>1, <2>2 DEF IInv, InStepInv, Serving
<1> QED
  BY Zenon, <1>8, <1>9, <1>10, <1>13, <1>14 DEF IInv

LEMMA LoopStep ==
    ASSUME IInv, Disconnect \/ Received
    PROVE  IInv'
<1>1. PICK p \in {"down", "loop"} :
        /\ Go(R, p) /\ th[R].pc \in {"loop", "respond"} /\ mtx' = None
        /\ p = "down" => ~conn
  BY Zenon DEF Disconnect, Received, At, table, IInv, PlaceInv, Closing
<1>2. /\ UNCHANGED <<slots, pool_mtx, current, client, gone, asked, sub_infos, conn, broker, seen>>
      /\ msg' \in Topics \cup {None}
  BY Zenon DEF Disconnect, Received, table, bus, mqtt, marks, IInv, TypeOK
<1>3. /\ th' \in [{S, R} -> ThreadState] /\ th'[S] = th[S] /\ th'[R].pc = p
  BY Zenon, <1>1, Goes DEF IInv, Places
<1>4. ReceiverKeeps
  BY Zenon, <1>1, <1>3 DEF ReceiverKeeps, Closing
<1> QED
  BY Zenon, <1>2, <1>3, <1>4, ReceiverMoves DEF IInv, TypeOK

LEMMA RespondStep ==
    ASSUME IInv, Respond
    PROVE  IInv'
<1>1. PICK n \in Slots : n = th[R].slot
  BY Zenon DEF Respond
<1>2. /\ th[R].pc = "respond" /\ mtx = R
      /\ UNCHANGED <<slots, mtx, pool_mtx, current, client, gone, asked, sub_infos, conn, broker,
                     msg>>
  BY Zenon DEF Respond, At, table, bus, mqtt, IInv, PlaceInv
<1>3. n + 1 \in 1 .. NSlots + 1
  BY SMTT(60), DispatchAssumption DEF Slots
<1>4. CASE NextSlot("respond") /\ seen' = seen
  <2>1. /\ th' \in [{S, R} -> ThreadState] /\ th'[S] = th[S]
        /\ th'[R].pc = "respond" /\ th'[R].slot = n + 1
    BY Zenon, <1>1, <1>2, <1>4, NextSlotGoes DEF IInv, Places
  <2>2. ReceiverKeeps
    BY Zenon, <1>2, <1>3, <2>1 DEF ReceiverKeeps, Closing
  <2> QED BY Zenon, <1>2, <1>4, <2>1, <2>2, ReceiverMoves DEF IInv, TypeOK
<1>5. CASE /\ Wanted(n) /\ slots[n].handle \in gone /\ client[slots[n].handle] = "open"
           /\ Allowed({"write"})
           /\ th' = [th EXCEPT ![R] = [pc |-> "close", handle |-> slots[n].handle,
                                       slot |-> n + 1]]
  <2>1. PICK h \in Handles : h = slots[n].handle /\ client[h] = "open"
    BY Zenon, <1>5 DEF IInv, TypeOK
  <2>2. [pc |-> "close", handle |-> h, slot |-> n + 1] \in ThreadState
    BY SMTT(60), <1>3 DEF ThreadState, Places
  <2>3. /\ th' \in [{S, R} -> ThreadState] /\ th'[S] = th[S]
        /\ th'[R].pc = "close" /\ th'[R].handle = h
    BY Zenon, <1>5, <2>1, <2>2, Becomes DEF IInv
  <2>4. seen \subseteq seen' /\ seen' \subseteq Faults /\ ~Good'
    BY Zenon, <1>5 DEF Allowed, Good, IInv, TypeOK
  <2>5. ReceiverKeeps
    BY Zenon, <1>2, <2>1, <2>3, <2>4 DEF ReceiverKeeps, Closing
  <2> QED BY Zenon, <1>2, <2>3, <2>4, <2>5, ReceiverMoves DEF IInv, TypeOK
<1> QED
  BY Zenon, <1>1, <1>4, <1>5 DEF Respond

-----------------------------------------------------------------------------
(* Clients, network and broker *)

LEMMA ClientGoesStep ==
    ASSUME IInv, NEW h \in Handles, ClientGoes(h)
    PROVE  IInv'
BY Zenon, ServerMoves DEF ClientGoes, table, mqtt, marks, IInv, TypeOK

LEMMA PublishStep ==
    ASSUME IInv, NEW topic \in Topics, Publish(topic)
    PROVE  IInv'
BY Zenon, ServerMoves DEF Publish, table, bus, marks, IInv, TypeOK

LEMMA ConnectionLostStep ==
    ASSUME IInv, ConnectionLost
    PROVE  IInv'
<1>1. /\ conn /\ conn' = FALSE /\ broker' = {}
      /\ seen' = seen \cup When("request", ~At(S, "idle")) \cup When("reregister", Reregistering)
      /\ seen' \subseteq Faults /\ msg' \in {msg, None}
      /\ UNCHANGED <<slots, mtx, pool_mtx, current, client, gone, asked, sub_infos, th>>
  BY Zenon DEF ConnectionLost, Allowed, When, table, bus, IInv, TypeOK
<1>2. \A i : FilterAt(i)' = FilterAt(i) /\ FiltersOf(i)' = FiltersOf(i)
  BY Zenon, <1>1 DEF FilterAt, FiltersOf
<1>3. TypeOK'
  BY Zenon, <1>1 DEF IInv, TypeOK
<1>4. PlaceInv' /\ SessionInv' /\ SendInv'
  BY Zenon, <1>1 DEF IInv, TypeOK, PlaceInv, SessionInv, SendInv
<1>5. OwnerInv'
  BY Zenon, <1>1, <1>2 DEF IInv, OwnerInv, SlotsOf
<1>6. Good' => Good /\ ~Reregistering
  BY Zenon, <1>1 DEF Good, When
<1>7. WalkInv'
  BY Zenon, <1>1, <1>6 DEF IInv, WalkInv, Reregistering
<1>8. InStepInv'
  <2>1. \A g, f : /\ Has(g, f)' <=> Has(g, f)
                  /\ Registered(g)' <=> Registered(g)
    BY Zenon, <1>1, <1>2 DEF Has, Registered
  <2> QED
    BY Zenon, <1>1, <1>2, <1>6, <2>1 DEF IInv, InStepInv
<1> QED
  BY Zenon, <1>3, <1>4, <1>5, <1>7, <1>8 DEF IInv

-----------------------------------------------------------------------------
(* The invariant and what follows from it *)

LEMMA InitIInv == Init => IInv
<1> SUFFICES ASSUME Init PROVE IInv
  BY Zenon
<1> DEFINE st(t) == [pc |-> IF t = S THEN "idle" ELSE "down", handle |-> None, slot |-> 0]
<1>1. \A t \in {S, R} : st(t) \in ThreadState
  BY SMTT(60), DispatchAssumption DEF ThreadState, Places
<1>2. th = [t \in {S, R} |-> st(t)] /\ th \in [{S, R} -> ThreadState]
  BY Zenon, <1>1 DEF Init
<1>3. /\ th[S].pc = "idle" /\ th[R].pc = "down"
      /\ \A i \in Slots : FilterAt(i) = None
  BY SMTT(60), <1>2 DEF Init, FilterAt
<1>4. TypeOK
  <2>1. slots \in [Slots -> [filter : Filters \cup {None}, handle : Handles \cup {None}]]
    BY Zenon DEF Init
  <2>2. <<>> \in Seq(Filters)
    BY SMTT(60)
  <2>3. asked \in [Handles -> Seq(Filters)]
    BY Zenon, <2>2 DEF Init
  <2>4. /\ sub_infos \in [1 .. MaxFilters -> Filters \cup {None}]
        /\ client \in [Handles -> {"new", "asking", "open", "closed"}]
    BY Zenon DEF Init
  <2> QED BY Zenon, <1>2, <2>1, <2>3, <2>4 DEF Init, TypeOK
<1>5. PlaceInv /\ OwnerInv /\ SessionInv /\ SendInv
  BY Zenon, <1>3 DEF Init, PlaceInv, OwnerInv, SessionInv, SendInv, ServerPlaces, ReceiverPlaces, Serving,
     Closing
<1>6. WalkInv /\ InStepInv
  BY Zenon, <1>3 DEF Init, WalkInv, InStepInv, Reregistering, Closing, Registered
<1> QED
  BY Zenon, <1>4, <1>5, <1>6 DEF IInv

LEMMA StutterStep == IInv /\ UNCHANGED vars => IInv'
<1> SUFFICES ASSUME IInv, UNCHANGED vars PROVE IInv'
  BY Zenon
<1>1. /\ UNCHANGED <<slots, mtx, client, asked, sub_infos, conn, broker, msg, pool_mtx, current,
                     gone, seen, th>>
  BY Zenon DEF vars
<1> QED
  BY Zenon, <1>1, ServerMoves DEF IInv, TypeOK

LEMMA NextIInv == IInv /\ [Next]_vars => IInv'
<1> SUFFICES ASSUME IInv, [Next]_vars PROVE IInv'
  BY Zenon
<1>1. CASE UNCHANGED vars
  BY Zenon, <1>1, StutterStep
<1>2. ASSUME NEW h \in Handles, NEW fs \in Requests, Ask(h, fs) PROVE IInv'
  BY Zenon, <1>2, AskStep
<1>3. CASE ServerStep
  BY Zenon, <1>3, RegisterStep, FillStep, SendStep, UndoStep, ErrorStep, AcceptStep, CloseLockStep,
     OnCloseStep, HangupStep DEF ServerStep, CloseStep
<1>4. CASE ReceiverStep
  BY Zenon, <1>4, ConnectStep, ReregisterStep, RefillStep, ResendStep, LoopStep, RespondStep,
     CloseLockStep, OnCloseStep DEF ReceiverStep, CloseStep
<1>5. CASE ConnectionLost
  BY Zenon, <1>5, ConnectionLostStep
<1>6. ASSUME NEW h \in Handles, ClientGoes(h) PROVE IInv'
  BY Zenon, <1>6, ClientGoesStep
<1>7. ASSUME NEW topic \in Topics, Publish(topic) PROVE IInv'
  BY Zenon, <1>7, PublishStep
<1> QED
  BY Zenon, <1>1, <1>2, <1>3, <1>4, <1>5, <1>6, <1>7 DEF Next

LEMMA Invariance == Spec => []IInv
BY InitIInv, NextIInv, PTL DEF Spec

\* A slot of the table in use belongs to a connection that is being served or
\* is open, whatever fails: the undo of a failed request and the close
\* callback clear a handle's slots before its connection is released
\* (iotcored_register_subscriptions, iotcored_unregister_subscriptions).
THEOREM SlotsStayLive == Spec => []SlotsAreLive
<1>1. IInv => SlotsAreLive
  BY Zenon DEF IInv, OwnerInv, SlotsAreLive
<1> QED
  BY <1>1, Invariance, PTL

\* Between requests, with the connection up and the table walked, the broker
\* has the filters of every accepted client and only filters of the table,
\* however clients share filters and hang up and however often the connection
\* is lost between and during requests (rpc_subscribe, sub_close_callback,
\* iotcored_re_register_all_subs).
THEOREM BrokerStaysInStep == Spec => []BrokerInStep
<1>1. IInv => AcceptedIsSubscribed
  <2> SUFFICES ASSUME IInv, Settled, Good, NEW h \in Handles, client[h] = "open",
                      NEW k \in DOMAIN asked[h]
               PROVE  asked[h][k] \in broker
    BY Zenon DEF AcceptedIsSubscribed, FiltersOf, Good
  <2>1. PICK i \in Slots : slots[i].handle = h /\ FilterAt(i) = asked[h][k]
    BY Zenon DEF IInv, InStepInv, Registered, Has
  <2>2. FilterAt(i) # None
    BY SMTT(60), <2>1, DispatchAssumption DEF IInv, TypeOK
  <2> QED
    BY Zenon, <2>1, <2>2 DEF IInv, InStepInv, Settled, At
<1>2. IInv => NothingLeftSubscribed
  BY Zenon DEF IInv, InStepInv, NothingLeftSubscribed, Good
<1> QED
  BY <1>1, <1>2, Invariance, PTL DEF BrokerInStep
=============================================================================
