----------------------- MODULE DeploymentQueueProofs ------------------------
(***************************************************************************)
(* For any size of the queue, any number of enqueuers, with releases       *)
(* racing enqueues and with failing copies: the deployment being handled   *)
(* is never overwritten, and the ring buffer implements the queue of       *)
(* DeploymentFifo.                                                         *)
(***************************************************************************)
EXTENDS DeploymentQueue, TLAPS

\* While the handler works, the ring holds at least its deployment, so no slot
\* an enqueue chooses is the handler's; an enqueue that chose its slot before
\* still holds the mutex, which the handler needed to get its deployment.
HandleInv ==
    pc = "handle" =>
        /\ queue_count >= 1
        /\ started.state = "IN_PROGRESS"
        /\ enq.pc # "none" => enq.slot # queue_index

\* The call in progress belongs to the holder of the mutex and found room.
CallInv ==
    /\ queue_mtx = None <=> enq.pc = "none"
    /\ enq.pc # "none" => enq.id \in Ids /\ enq.doc \in Docs
    /\ enq.pc = "count" => enq.count < QueueSize
    /\ pc = "release" => loaded >= 1

IInv == TypeOK /\ HandledNotOverwritten /\ HandleInv /\ CallInv

\* The ring's arithmetic: for an offset below its size, one subtraction at most.
LEMMA RingStep ==
    ASSUME NEW q \in Slots, NEW c \in 0..QueueSize
    PROVE  (q + c) % QueueSize
             = IF q + c < QueueSize THEN q + c ELSE q + c - QueueSize
BY SMTT(60), QueueAssumption DEF Slots

LEMMA SlotInRange ==
    ASSUME queue_index \in Slots, NEW c \in 0..QueueSize
    PROVE  /\ Slot(c) \in Slots
           /\ c >= 1 /\ c < QueueSize => Slot(c) # queue_index
BY SMTT(60), RingStep, QueueAssumption DEF Slot, Slots

LEMMA InitIInv == Init => IInv
BY SMTT(60), QueueAssumption DEF Init, IInv, TypeOK, HandledNotOverwritten, HandleInv,
   CallInv, Slots, EmptySlot, NoCall, SlotRecord

LEMMA EnqueueReplaceIInv ==
    ASSUME IInv, NEW e \in Enqueuers, NEW id \in Ids, NEW doc \in Docs,
           EnqueueReplace(e, id, doc)
    PROVE  IInv'
<1> USE DEF EnqueueReplace, MayEnqueue
<1>1. PICK i \in Slots :
        /\ Matching(id, i)
        /\ Replaceable(Slot(i))
        /\ enq' = [id |-> id, doc |-> doc, slot |-> Slot(i), count |-> 0,
                   pc |-> "replace"]
  BY Zenon
<1>2. Slot(i) \in Slots
  <2>1. i \in 0..QueueSize /\ queue_index \in Slots
    BY SMTT(60), QueueAssumption DEF IInv, TypeOK, Slots
  <2> QED BY Zenon, <2>1, SlotInRange
<1>3. pc = "handle" => Slot(i) # queue_index
  BY Zenon, <1>1 DEF IInv, HandleInv, HandledNotOverwritten, Replaceable
<1>4. TypeOK'
  BY SMTT(60), <1>1, <1>2, QueueAssumption DEF IInv, TypeOK
<1>5. CallInv'
  BY Zenon, <1>1, QueueAssumption DEF IInv, CallInv
<1>6. HandledNotOverwritten' /\ HandleInv'
  BY Zenon, <1>1, <1>3 DEF IInv, HandledNotOverwritten, HandleInv
<1> QED
  BY Zenon, <1>4, <1>5, <1>6 DEF IInv

LEMMA EnqueueNewIInv ==
    ASSUME IInv, NEW e \in Enqueuers, NEW id \in Ids, NEW doc \in Docs,
           EnqueueNew(e, id, doc)
    PROVE  IInv'
<1> USE DEF EnqueueNew, MayEnqueue, HasRoom
<1>1. /\ Slot(queue_count) \in Slots
      /\ pc = "handle" => Slot(queue_count) # queue_index
  BY Zenon, SlotInRange DEF IInv, TypeOK, HandleInv
<1>2. TypeOK'
  BY SMTT(60), <1>1, QueueAssumption DEF IInv, TypeOK
<1>3. CallInv'
  BY Zenon, QueueAssumption DEF IInv, CallInv
<1>4. HandledNotOverwritten' /\ HandleInv'
  BY Zenon, <1>1 DEF IInv, HandledNotOverwritten, HandleInv
<1> QED
  BY Zenon, <1>2, <1>3, <1>4 DEF IInv

LEMMA EnqueueCopyIInv ==
    ASSUME IInv, EnqueueCopy \/ EnqueueCopyFails
    PROVE  IInv'
<1>1. /\ enq.pc # "none" /\ enq.id \in Ids /\ enq.doc \in Docs
      /\ enq.slot \in Slots
      /\ deployments[enq.slot] \in SlotRecord
  BY Zenon DEF IInv, CallInv, TypeOK, EnqueueCopy, EnqueueCopyFails
<1>2. PICK d \in SlotRecord : deployments' = [deployments EXCEPT ![enq.slot] = d]
  <2>1. CASE EnqueueCopy
    <3> [id |-> enq.id, doc |-> enq.doc, state |-> "QUEUED"] \in SlotRecord
      BY Zenon, <1>1 DEF SlotRecord
    <3> QED BY Zenon, <2>1 DEF EnqueueCopy
  <2>2. CASE EnqueueCopyFails
    <3>1. PICK id \in {deployments[enq.slot].id, enq.id} :
            deployments' = [deployments EXCEPT ![enq.slot].id = id,
                                               ![enq.slot].doc = Garbled]
      BY Zenon, <2>2 DEF EnqueueCopyFails
    <3>2. deployments' = [deployments EXCEPT ![enq.slot] =
                            [deployments[enq.slot] EXCEPT !.id = id,
                                                          !.doc = Garbled]]
      BY Zenon, <1>1, <3>1 DEF IInv, TypeOK
    <3>3. [deployments[enq.slot] EXCEPT !.id = id, !.doc = Garbled]
            \in SlotRecord
      BY Zenon, <1>1 DEF SlotRecord
    <3> QED BY Zenon, <3>2, <3>3
  <2> QED BY Zenon, <2>1, <2>2
<1>3. /\ enq' = NoCall /\ queue_mtx' = None
      /\ UNCHANGED <<queue_index, queue_count, current, loaded, calls, started>>
      /\ pending' \in [Ids -> Docs \cup {None}]
      /\ pc' = pc \/ (pc = "wait" /\ pc' = "dequeue")
      /\ calm' \in BOOLEAN
  BY Zenon, <1>1 DEF IInv, TypeOK, EnqueueCopy, EnqueueCopyFails, Signalled
<1>4. TypeOK'
  BY SMTT(60), <1>1, <1>2, <1>3, QueueAssumption DEF IInv, TypeOK, NoCall, Slots
<1>5. CallInv'
  BY Zenon, <1>3 DEF IInv, CallInv, NoCall
<1>6. HandledNotOverwritten' /\ HandleInv'
  BY Zenon, <1>1, <1>2, <1>3 DEF IInv, HandledNotOverwritten, HandleInv, TypeOK, NoCall
<1> QED
  BY Zenon, <1>4, <1>5, <1>6 DEF IInv

LEMMA DequeueIInv ==
    ASSUME IInv, Dequeue
    PROVE  IInv'
<1> USE DEF Dequeue, enqVars
<1> DEFINE d == deployments[queue_index]
           s == [d EXCEPT !.state = "IN_PROGRESS"]
<1>1. d \in SlotRecord /\ s \in SlotRecord /\ s.state = "IN_PROGRESS"
  BY Zenon DEF IInv, TypeOK, SlotRecord
<1>2. deployments' = [deployments EXCEPT ![queue_index] = s] /\ started' = s
  BY Zenon DEF IInv, TypeOK
<1>3. pending' \in [Ids -> Docs \cup {None}]
  BY Zenon DEF IInv, TypeOK
<1> HIDE DEF s, d
<1>4. TypeOK'
  BY SMTT(60), <1>1, <1>2, <1>3 DEF IInv, TypeOK
<1>5. HandledNotOverwritten' /\ HandleInv' /\ CallInv'
  BY SMTT(60), <1>1, <1>2 DEF IInv, TypeOK, HandledNotOverwritten, HandleInv, CallInv
<1> QED
  BY Zenon, <1>4, <1>5 DEF IInv

LEMMA NextIInv == IInv /\ [Next]_vars => IInv'
<1> SUFFICES ASSUME IInv, [Next]_vars PROVE IInv'
  BY Zenon
<1> USE QueueAssumption
    DEF IInv, TypeOK, HandledNotOverwritten, HandleInv, CallInv, enqVars
<1>1. ASSUME NEW e \in Enqueuers, NEW id \in Ids, EnqueueRefused(e, id)
      PROVE  IInv'
  BY SMTT(60), <1>1 DEF EnqueueRefused, MayEnqueue
<1>2. CASE EnqueueCount
  BY SMTT(60), <1>2 DEF EnqueueCount
<1>3. CASE DequeueWait \/ SpuriousWakeup
  BY SMTT(60), <1>3 DEF DequeueWait, SpuriousWakeup
<1>4. CASE ReleaseLoad
  BY Zenon, <1>4 DEF ReleaseLoad
<1>5. CASE ReleaseCount
  BY SMTT(60), <1>5 DEF ReleaseCount
<1>6. CASE ReleaseIndex
  BY SMTT(60), <1>6 DEF ReleaseIndex, Slots
<1>7. CASE UNCHANGED vars
  BY SMTT(60), <1>7 DEF vars
<1> QED
  BY Zenon, <1>1, <1>2, <1>3, <1>4, <1>5, <1>6, <1>7, EnqueueReplaceIInv,
     EnqueueNewIInv, EnqueueCopyIInv, DequeueIInv
  DEF Next, EnqueueRest, Handler

LEMMA AlwaysIInv == Spec => []IInv
BY InitIInv, NextIInv, PTL DEF Spec

\* The queue's state is always well typed: in particular queue_count never
\* leaves 0..QueueSize, whatever updates of it the race loses.
THEOREM TypeCorrect == Spec => []TypeOK
<1>1. IInv => TypeOK
  BY Zenon DEF IInv
<1> QED BY <1>1, AlwaysIInv, PTL

\* No enqueue ever writes the slot of the deployment being handled, and the
\* assertion of ggl_deployment_release holds.
THEOREM HandledNeverOverwritten == Spec => []HandledNotOverwritten
<1>1. IInv => HandledNotOverwritten
  BY Zenon DEF IInv
<1> QED BY <1>1, AlwaysIInv, PTL
-----------------------------------------------------------------------------
(* The ring implements the queue of the header *)

\* As long as calm: a release has the count that is stored and no call beside
\* it; a call that found no match and room still has none, and the slot after
\* the last one, and one that found a match still has it.
CalmInv ==
    calm =>
        /\ Releasing => enq.pc = "none"
        /\ pc = "release" => loaded = queue_count
        /\ pc = "counted" => queue_count < QueueSize
        /\ enq.pc \in {"count", "copy"} =>
             /\ enq.slot = Slot(enq.count) /\ enq.count < QueueSize
             /\ queue_count = IF enq.pc = "copy" THEN enq.count + 1 ELSE enq.count
             /\ \A i \in 0..(enq.count - 1) : deployments[Slot(i)].id # enq.id
        /\ enq.pc = "replace" =>
             \E i \in 0..(queue_count - 1) :
                 enq.slot = Slot(i) /\ deployments[Slot(i)].id = enq.id

LEMMA InitCalm == Init => CalmInv
BY SMTT(60) DEF Init, CalmInv, Releasing, NoCall

LEMMA NextCalm == IInv /\ CalmInv /\ [Next]_vars => CalmInv'
<1> SUFFICES ASSUME IInv, CalmInv, [Next]_vars, calm' PROVE CalmInv'
  BY Zenon DEF CalmInv
<1> USE DEF Releasing, enqVars
<1>1. ASSUME NEW e \in Enqueuers, NEW id \in Ids, NEW doc \in Docs,
             EnqueueReplace(e, id, doc)
      PROVE  CalmInv'
  <2>1. PICK i \in Slots : Matching(id, i) /\ enq'.slot = Slot(i)
                             /\ enq'.id = id /\ enq'.pc = "replace"
    BY SMTT(60), <1>1 DEF EnqueueReplace
  <2>2. Slot(i)' = Slot(i) /\ i \in 0..(queue_count' - 1)
    BY Zenon, <1>1, <2>1 DEF EnqueueReplace, Slot, Matching
  <2> QED BY Zenon, <1>1, <2>1, <2>2 DEF EnqueueReplace, MayEnqueue, CalmInv, Matching
<1>2. ASSUME NEW e \in Enqueuers, NEW id \in Ids, NEW doc \in Docs,
             EnqueueNew(e, id, doc)
      PROVE  CalmInv'
  <2>1. \A i : Slot(i)' = Slot(i)
    BY Zenon, <1>2 DEF EnqueueNew, Slot
  <2> QED BY Zenon, <1>2, <2>1 DEF EnqueueNew, MayEnqueue, CalmInv, MatchExists, HasRoom
<1>3. ASSUME NEW e \in Enqueuers, NEW id \in Ids, EnqueueRefused(e, id)
      PROVE  CalmInv'
  BY Zenon, <1>3 DEF EnqueueRefused, MayEnqueue, CalmInv, Slot
<1>4. CASE EnqueueCount
  BY Zenon, <1>4 DEF EnqueueCount, CalmInv, Slot, IInv, TypeOK
<1>5. CASE EnqueueRest /\ ~EnqueueCount
  <2>1. EnqueueCopy
    BY Zenon, <1>5 DEF EnqueueRest, EnqueueCopyFails
  <2>2. enq.pc # "none" /\ enq'.pc = "none" /\ calm
    BY Zenon, <2>1 DEF EnqueueCopy, NoCall
  <2>3. ~Releasing'
    BY Zenon, <2>1, <2>2 DEF EnqueueCopy, Signalled, CalmInv
  <2> QED BY Zenon, <2>2, <2>3 DEF CalmInv
<1>6. CASE DequeueWait \/ SpuriousWakeup \/ UNCHANGED vars
  BY Zenon, <1>6 DEF DequeueWait, SpuriousWakeup, CalmInv, vars, Slot
<1>7. CASE Dequeue
  BY Zenon, <1>7 DEF Dequeue, CalmInv, IInv, CallInv
<1>8. CASE ReleaseLoad
  BY Zenon, <1>8 DEF ReleaseLoad, CalmInv, IInv, CallInv
<1>9. CASE ReleaseCount
  BY SMTT(60), <1>9, QueueAssumption DEF ReleaseCount, CalmInv, IInv, CallInv, TypeOK
<1>10. CASE ReleaseIndex
  BY Zenon, <1>10 DEF ReleaseIndex, CalmInv
<1> QED
  BY Zenon, <1>1, <1>2, <1>3, <1>4, <1>5, <1>6, <1>7, <1>8, <1>9, <1>10
  DEF Next, EnqueueRest, Handler
\* The parts of the queue the ring stands for.
First == IF pc = "counted" THEN 1 ELSE 0
Length == IF enq.pc = "copy" THEN queue_count - 1 ELSE queue_count
Entry(s) == [id |-> deployments[s].id, doc |-> deployments[s].doc]

Entries == [id : Ids \cup {None}, doc : Docs \cup {None, Garbled}]

RingFacts ==
    /\ Length \in 0..QueueSize /\ First \in 0..1
    /\ RingQueue \in Seq(Entries) /\ Len(RingQueue) = Length
    /\ \A i \in 1..Length : RingQueue[i] = Entry(Slot(First + i - 1))

LEMMA RingIsSequence == IInv /\ CalmInv /\ calm => RingFacts
<1> SUFFICES ASSUME IInv, CalmInv, calm PROVE RingFacts
  BY Zenon
<1>1. Length \in 0..QueueSize /\ First \in 0..1
  BY SMTT(60), QueueAssumption DEF Length, First, IInv, TypeOK, CalmInv
<1>2. RingQueue = [i \in 1..Length |-> Entry(Slot(First + i - 1))]
  BY Zenon DEF RingQueue, Length, First, Entry
<1>3. \A i \in 1..Length : Entry(Slot(First + i - 1)) \in Entries
  <2> SUFFICES ASSUME NEW i \in 1..Length
               PROVE  Entry(Slot(First + i - 1)) \in Entries
    BY Zenon
  <2>1. First + i - 1 \in 0..QueueSize
    BY SMTT(60), <1>1, QueueAssumption
  <2>2. Slot(First + i - 1) \in Slots
    BY Zenon, <2>1, SlotInRange DEF IInv, TypeOK
  <2> QED
    BY Zenon, <2>2 DEF IInv, TypeOK, SlotRecord, Entry, Entries
<1> HIDE DEF First, Length
<1>4. Length \in Nat
  BY SMTT(60), <1>1, QueueAssumption
<1>5. RingQueue \in [1..Length -> Entries]
  BY Zenon, <1>2, <1>3
<1>6. RingQueue \in Seq(Entries) /\ Len(RingQueue) = Length
  BY SMTT(60), <1>4, <1>5
<1> QED
  BY Zenon, <1>1, <1>2, <1>6 DEF RingFacts

LEMMA CalmBefore == [Next]_vars /\ calm' => calm
BY Zenon DEF Next, EnqueueRest, Handler, EnqueueReplace, EnqueueNew, EnqueueRefused, MayEnqueue,
   EnqueueCount, EnqueueCopy, EnqueueCopyFails, DequeueWait, Dequeue, ReleaseLoad,
   ReleaseCount, ReleaseIndex, SpuriousWakeup, vars

LEMMA SlotIs ==
    ASSUME queue_index \in Slots
    PROVE  \A i \in 0..QueueSize :
             Slot(i) = IF queue_index + i < QueueSize THEN queue_index + i
                       ELSE queue_index + i - QueueSize
BY Zenon, RingStep DEF Slot

LEMMA SameSequence ==
    ASSUME NEW S, NEW s \in Seq(S), NEW t \in Seq(S), Len(s) = Len(t),
           \A i \in 1..Len(s) : s[i] = t[i]
    PROVE  s = t
BY SMTT(60)

\* The ring before and after a step, which leaves calm true.
Ring ==
    /\ IInv /\ CalmInv /\ calm /\ RingFacts
    /\ IInv' /\ CalmInv' /\ calm' /\ RingFacts'

LEMMA RingStays ==
    ASSUME Ring, Length' = Length,
           \A i \in 1..Length : Entry(Slot(First + i - 1))' = Entry(Slot(First + i - 1))
    PROVE  RingQueue' = RingQueue
<1>1. \A i \in 1..Length : RingQueue'[i] = RingQueue[i]
  BY Zenon DEF Ring, RingFacts
<1>2. /\ RingQueue \in Seq(Entries) /\ RingQueue' \in Seq(Entries)
      /\ Len(RingQueue) = Length /\ Len(RingQueue') = Length
  BY Zenon DEF Ring, RingFacts, Entries
<1> QED
  BY Zenon, <1>1, <1>2, SameSequence

\* A copy stored in the slot after the last one adds a deployment.
LEMMA CopyAdds ==
    ASSUME Ring, EnqueueCopy, enq.pc = "copy"
    PROVE  Fifo!FifoNext
<1>1. PICK d \in [id : Ids, doc : Docs], n \in 0..(QueueSize - 1) :
        /\ d = [id |-> enq.id, doc |-> enq.doc] /\ n = enq.count
  <2>1. enq.id \in Ids /\ enq.doc \in Docs
    BY Zenon DEF Ring, IInv, CallInv
  <2>2. enq.count \in 0..(QueueSize - 1)
    BY SMTT(60), QueueAssumption DEF Ring, CalmInv, IInv, TypeOK
  <2> QED BY Zenon, <2>1, <2>2
<1>2. /\ d \in Entries /\ queue_count = n + 1 /\ queue_index \in Slots
      /\ enq.slot = Slot(n) /\ First = 0 /\ First' = 0 /\ Length = n /\ Length' = n + 1
      /\ Busy' = Busy
  BY SMTT(60), <1>1, QueueAssumption DEF Ring, CalmInv, IInv, CallInv, TypeOK, First, Length,
     EnqueueCopy, Entries, NoCall, Busy, Releasing, Signalled
<1>3. /\ \A i : Slot(i)' = Slot(i)
      /\ \A i \in 0..n : Slot(i) \in Slots /\ (i < n => Slot(i) # Slot(n))
  <2>1. \A i : Slot(i)' = Slot(i)
    BY Zenon DEF Slot, EnqueueCopy
  <2> QED
    BY SMTT(60), <1>2, <2>1, SlotIs, QueueAssumption DEF Slots
<1>4. /\ Entry(Slot(n))' = d
      /\ \A i \in 0..(n - 1) : Entry(Slot(i))' = Entry(Slot(i))
  BY SMTT(60), <1>1, <1>2, <1>3 DEF EnqueueCopy, Entry, Ring, IInv, TypeOK
<1>5. RingQueue' = Append(RingQueue, d)
  <2>1. /\ RingQueue \in Seq(Entries) /\ RingQueue' \in Seq(Entries)
        /\ Len(RingQueue) = n /\ Len(RingQueue') = n + 1
    BY Zenon, <1>2 DEF Ring, RingFacts, Entries
  <2>2. \A i \in 1..n : RingQueue'[i] = RingQueue[i]
    BY SMTT(60), <1>2, <1>4 DEF Ring, RingFacts
  <2>3. RingQueue'[n + 1] = d
    BY SMTT(60), <1>2, <1>4 DEF Ring, RingFacts
  <2>4. Append(RingQueue, d) \in Seq(Entries)
    BY SMTT(60), <1>2, <2>1
  <2> QED BY SMTT(60), <1>1, <2>1, <2>2, <2>3, <2>4, SameSequence
<1>6. \A i \in 1..n : RingQueue[i].id # d.id
  <2> SUFFICES ASSUME NEW i \in 1..n PROVE RingQueue[i].id # d.id
    BY Zenon
  <2>1. RingQueue[i] = Entry(Slot(i - 1)) /\ i - 1 \in 0..(n - 1)
    BY SMTT(60), <1>2 DEF Ring, RingFacts
  <2>2. deployments[Slot(i - 1)].id # d.id
    BY Zenon, <1>1, <2>1 DEF Ring, CalmInv
  <2> QED BY SMTT(60), <2>1, <2>2 DEF Entry
<1>7. Len(RingQueue) = n /\ DOMAIN RingQueue = 1..n
  BY SMTT(60), <1>2 DEF Ring, RingFacts
<1>8. Fifo!Add(d)
  BY SMTT(60), <1>2, <1>5, <1>6, <1>7, QueueAssumption DEF Fifo!Add
<1> QED
  BY Zenon, <1>1, <1>8 DEF Fifo!FifoNext, Fifo!Deployment

\* A copy stored over a waiting deployment replaces it in its place.
LEMMA CopyReplaces ==
    ASSUME Ring, EnqueueCopy, enq.pc = "replace"
    PROVE  Fifo!FifoNext
<1>1. PICK d \in [id : Ids, doc : Docs], j \in 0..(queue_count - 1) :
        /\ d = [id |-> enq.id, doc |-> enq.doc]
        /\ enq.slot = Slot(j) /\ deployments[Slot(j)].id = d.id
  <2>1. enq.id \in Ids /\ enq.doc \in Docs
    BY Zenon DEF Ring, IInv, CallInv
  <2>2. \E j \in 0..(queue_count - 1) :
            enq.slot = Slot(j) /\ deployments[Slot(j)].id = enq.id
    BY Zenon DEF Ring, CalmInv
  <2>3. PICK d \in [id : Ids, doc : Docs] : d = [id |-> enq.id, doc |-> enq.doc]
    BY Zenon, <2>1
  <2> QED BY Zenon, <2>2, <2>3
<1>2. PICK n \in 0..QueueSize : n = queue_count
  BY Zenon DEF Ring, IInv, TypeOK
<1>3. /\ d \in Entries /\ queue_index \in Slots
      /\ First = 0 /\ First' = 0 /\ Length = n /\ Length' = n /\ Busy' = Busy
  BY SMTT(60), <1>1, <1>2, QueueAssumption DEF Ring, CalmInv, IInv, TypeOK, First, Length,
     EnqueueCopy, Entries, NoCall, Busy, Releasing, Signalled
<1>4. Busy => j # 0
  <2>1. Slot(0) = queue_index
    BY SMTT(60), <1>3, SlotIs, QueueAssumption DEF Slots
  <2>2. Busy => pc = "handle"
    BY Zenon DEF Busy, Ring, CalmInv, Releasing
  <2>3. pc = "handle" => enq.slot # queue_index
    BY Zenon DEF Ring, IInv, HandleInv
  <2> QED BY Zenon, <1>1, <2>1, <2>2, <2>3
<1>5. /\ \A i : Slot(i)' = Slot(i)
      /\ \A i \in 0..(n - 1) : Slot(i) \in Slots /\ (i # j => Slot(i) # Slot(j))
  <2>1. \A i : Slot(i)' = Slot(i)
    BY Zenon DEF Slot, EnqueueCopy
  <2> QED
    BY SMTT(60), <1>1, <1>2, <1>3, <2>1, SlotIs, QueueAssumption DEF Slots
<1>6. \A i \in 0..(n - 1) : Entry(Slot(i))' = IF i = j THEN d ELSE Entry(Slot(i))
  BY SMTT(60), <1>1, <1>2, <1>5 DEF EnqueueCopy, Entry, Ring, IInv, TypeOK
<1>7. /\ RingQueue \in Seq(Entries) /\ RingQueue' \in Seq(Entries)
      /\ Len(RingQueue) = n /\ Len(RingQueue') = n
      /\ RingQueue[j + 1].id = d.id
  BY SMTT(60), <1>1, <1>2, <1>3 DEF Ring, RingFacts, Entries, Entry
<1>8. \A i \in 1..n : RingQueue'[i] = IF i = j + 1 THEN d ELSE RingQueue[i]
  <2> SUFFICES ASSUME NEW i \in 1..n
               PROVE  RingQueue'[i] = IF i = j + 1 THEN d ELSE RingQueue[i]
    BY Zenon
  <2>1. RingQueue[i] = Entry(Slot(i - 1)) /\ RingQueue'[i] = Entry(Slot(i - 1))'
    BY SMTT(60), <1>3 DEF Ring, RingFacts
  <2> QED BY SMTT(60), <1>1, <1>2, <1>6, <2>1
<1>9. RingQueue' = [RingQueue EXCEPT ![j + 1] = d]
  <2> DEFINE q == [RingQueue EXCEPT ![j + 1] = d]
  <2>1. RingQueue \in [1..n -> Entries] /\ n \in Nat
    BY SMTT(60), <1>7
  <2>2. q \in [1..n -> Entries] /\ \A i \in 1..n : q[i] = IF i = j + 1 THEN d ELSE RingQueue[i]
    BY Zenon, <1>3, <2>1
  <2> HIDE DEF q
  <2>3. q \in Seq(Entries) /\ Len(q) = n
    BY SMTT(60), <2>1, <2>2
  <2>4. RingQueue' = q
    BY Zenon, <1>7, <1>8, <2>2, <2>3, SameSequence
  <2> QED BY Zenon, <2>4 DEF q
<1>10. j + 1 \in DOMAIN RingQueue /\ Fifo!Replace(d, j + 1)
  BY SMTT(60), <1>1, <1>2, <1>3, <1>4, <1>7, <1>9 DEF Fifo!Replace
<1> QED
  BY Zenon, <1>1, <1>10 DEF Fifo!FifoNext, Fifo!Deployment

\* The ring's first deployment is started by Dequeue and leaves by ReleaseCount.
LEMMA DequeueStarts ==
    ASSUME Ring, Dequeue
    PROVE  Fifo!FifoNext
<1> USE DEF Dequeue, enqVars
<1>1. First = 0 /\ First' = 0 /\ Length' = Length /\ Length # 0 /\ ~Busy /\ Busy'
  BY Zenon DEF Ring, IInv, CallInv, First, Length, Busy
<1>2. \A i : Slot(i)' = Slot(i)
  BY Zenon DEF Slot
<1>3. \A i \in 1..Length : Slot(First + i - 1) \in Slots
  <2>1. \A i \in 1..Length : First + i - 1 \in 0..QueueSize
    BY SMTT(60), <1>1, QueueAssumption DEF Ring, RingFacts
  <2>2. \A i \in 0..QueueSize : Slot(i) \in Slots
    BY Zenon, SlotInRange DEF Ring, IInv, TypeOK
  <2> QED BY Zenon, <2>1, <2>2
<1>4. \A s \in Slots : Entry(s)' = Entry(s)
  <2>1. queue_index \in Slots /\ deployments \in [Slots -> SlotRecord]
    BY Zenon DEF Ring, IInv, TypeOK
  <2>2. \A s \in Slots : deployments'[s].id = deployments[s].id
                           /\ deployments'[s].doc = deployments[s].doc
    BY Zenon, <2>1 DEF SlotRecord
  <2> QED BY Zenon, <2>2 DEF Entry
<1>5. RingQueue' = RingQueue
  BY Zenon, <1>1, <1>2, <1>3, <1>4, RingStays
<1>6. RingQueue # <<>>
  BY SMTT(60), <1>1 DEF Ring, RingFacts
<1> QED
  BY Zenon, <1>1, <1>5, <1>6 DEF Fifo!FifoNext, Fifo!Start

LEMMA ReleaseFinishes ==
    ASSUME Ring, ReleaseCount
    PROVE  Fifo!FifoNext
<1> USE DEF ReleaseCount, enqVars
<1>1. PICK n \in 1..QueueSize : n = queue_count
  BY SMTT(60) DEF Ring, IInv, CallInv, CalmInv, TypeOK
<1>2. First = 0 /\ First' = 1 /\ Length = n /\ Length' = n - 1 /\ Busy /\ ~Busy'
  BY Zenon, <1>1 DEF Ring, CalmInv, First, Length, Busy, Releasing
<1>3. \A s : Slot(s)' = Slot(s) /\ Entry(s)' = Entry(s)
  BY Zenon DEF Slot, Entry
<1>4. /\ RingQueue \in Seq(Entries) /\ RingQueue' \in Seq(Entries)
      /\ Len(RingQueue) = n /\ Len(RingQueue') = n - 1
  BY Zenon, <1>2 DEF Ring, RingFacts, Entries
<1>5. \A i \in 1..(n - 1) : RingQueue'[i] = RingQueue[i + 1]
  <2> SUFFICES ASSUME NEW i \in 1..(n - 1) PROVE RingQueue'[i] = RingQueue[i + 1]
    BY Zenon
  <2>1. RingQueue[i + 1] = Entry(Slot(i)) /\ RingQueue'[i] = Entry(Slot(i))'
    BY SMTT(60), <1>1, <1>2 DEF Ring, RingFacts
  <2> QED BY Zenon, <1>3, <2>1
<1>6. RingQueue' = Tail(RingQueue)
  <2>1. Tail(RingQueue) \in Seq(Entries) /\ Len(Tail(RingQueue)) = n - 1
    BY SMTT(60), <1>1, <1>4
  <2>2. \A i \in 1..(n - 1) : Tail(RingQueue)[i] = RingQueue[i + 1]
    BY SMTT(60), <1>1, <1>4
  <2> QED BY Zenon, <1>4, <1>5, <2>1, <2>2, SameSequence
<1> QED
  BY SMTT(60), <1>2, <1>6 DEF Fifo!FifoNext, Fifo!Finish

\* Moving queue_index on leaves the sequence as ReleaseCount left it.
LEMMA IndexStays ==
    ASSUME Ring, ReleaseIndex
    PROVE  RingQueue' = RingQueue /\ Busy' = Busy
<1> USE DEF ReleaseIndex, enqVars
<1>1. First = 1 /\ First' = 0 /\ Length' = Length /\ Length \in 0..(QueueSize - 1)
      /\ Busy' = Busy
  BY SMTT(60), QueueAssumption DEF Ring, RingFacts, CalmInv, First, Length, Busy, Releasing, IInv, TypeOK
<1>2. \A i \in 0..(QueueSize - 1) : Slot(i)' = Slot(i + 1)
  <2>1. queue_index \in Slots /\ queue_index' \in Slots
    BY Zenon DEF Ring, IInv, TypeOK, Slots
  <2>2. queue_index' = IF queue_index + 1 < QueueSize THEN queue_index + 1 ELSE 0
    BY SMTT(60), <2>1, QueueAssumption, RingStep DEF Slots
  <2> SUFFICES ASSUME NEW i \in 0..(QueueSize - 1) PROVE Slot(i)' = Slot(i + 1)
    BY Zenon
  <2>3. i \in 0..QueueSize /\ i + 1 \in 0..QueueSize
    BY SMTT(60), QueueAssumption
  <2>4. /\ Slot(i)' = IF queue_index' + i < QueueSize THEN queue_index' + i
                                                      ELSE queue_index' + i - QueueSize
        /\ Slot(i + 1) = IF queue_index + (i + 1) < QueueSize THEN queue_index + (i + 1)
                                               ELSE queue_index + (i + 1) - QueueSize
    BY Zenon, <2>1, <2>3, RingStep DEF Slot
  <2> QED
    BY SMTT(60), <2>1, <2>2, <2>4, QueueAssumption DEF Slots
<1>3. \A i \in 1..Length : Entry(Slot(First + i - 1))' = Entry(Slot(First + i - 1))
  <2> SUFFICES ASSUME NEW i \in 1..Length
               PROVE  Entry(Slot(First + i - 1))' = Entry(Slot(First + i - 1))
    BY Zenon
  <2>1. First + i - 1 = i /\ (First + i - 1)' = i - 1 /\ i - 1 \in 0..(QueueSize - 1)
    BY SMTT(60), <1>1, QueueAssumption
  <2>2. Slot(First + i - 1)' = Slot(First + i - 1)
    BY SMTT(60), <1>2, <2>1 DEF Slot
  <2> QED BY Zenon, <2>2 DEF Entry
<1> QED
  BY Zenon, <1>1, <1>3, RingStays

\* Any other step leaves the sequence and the handler's part alone.
LEMMA OthersStay ==
    ASSUME Ring, UNCHANGED <<deployments, queue_index>>, Length' = Length,
           First' = First, Busy' = Busy
    PROVE  RingQueue' = RingQueue /\ Busy' = Busy
<1>1. \A i : Slot(i)' = Slot(i) /\ Entry(i)' = Entry(i)
  BY Zenon DEF Slot, Entry
<1> QED
  BY Zenon, <1>1, RingStays

LEMMA StepRefines ==
    IInv /\ CalmInv /\ [Next]_vars /\ IInv' /\ CalmInv'
      => [calm' => Fifo!FifoNext]_<<RingQueue, Busy>>
<1> SUFFICES ASSUME IInv, CalmInv, [Next]_vars, IInv', CalmInv', calm'
             PROVE  Fifo!FifoNext \/ (RingQueue' = RingQueue /\ Busy' = Busy)
  BY Zenon
<1>1. Ring
  <2>1. (IInv /\ CalmInv /\ calm => RingFacts)'
    BY RingIsSequence, PTL
  <2> QED BY Zenon, <2>1, CalmBefore, RingIsSequence DEF Ring
<1>2. CASE EnqueueCopy
  BY Zenon, <1>1, <1>2, CopyAdds, CopyReplaces DEF EnqueueCopy
<1>3. ASSUME NEW e \in Enqueuers, NEW id \in Ids, NEW doc \in Docs,
             EnqueueReplace(e, id, doc) \/ EnqueueNew(e, id, doc)
      PROVE  RingQueue' = RingQueue /\ Busy' = Busy
  <2>1. /\ UNCHANGED <<deployments, queue_index, queue_count, pc>>
        /\ enq.pc = "none" /\ enq'.pc # "copy"
    <3>1. queue_mtx = None /\ UNCHANGED <<deployments, queue_index, queue_count, pc>>
      BY Zenon, <1>3 DEF EnqueueReplace, EnqueueNew, MayEnqueue
    <3>2. enq'.pc # "copy"
      BY SMTT(60), <1>3 DEF EnqueueReplace, EnqueueNew
    <3> QED BY Zenon, <1>1, <3>1, <3>2 DEF Ring, IInv, CallInv
  <2> QED BY Zenon, <1>1, <2>1, OthersStay DEF First, Busy, Length
<1>4. CASE EnqueueCount
  <2>1. Length' = Length
    BY SMTT(60), <1>1, <1>4 DEF EnqueueCount, Length, Ring, CalmInv, IInv, TypeOK
  <2> QED BY Zenon, <1>1, <1>4, <2>1, OthersStay DEF EnqueueCount, First, Busy
<1>5. CASE DequeueWait \/ SpuriousWakeup \/ ReleaseLoad \/ UNCHANGED vars
  <2>1. UNCHANGED <<deployments, queue_index, queue_count, enq>>
    BY Zenon, <1>5 DEF DequeueWait, SpuriousWakeup, ReleaseLoad, vars, enqVars
  <2>2. \/ pc' = pc \/ {pc, pc'} = {"dequeue", "wait"}
        \/ pc = "handle" /\ pc' = "release"
    BY Zenon, <1>5 DEF DequeueWait, SpuriousWakeup, ReleaseLoad, vars
  <2>3. First' = First /\ Busy' = Busy
    BY SMTT(60), <2>2 DEF First, Busy
  <2> QED BY Zenon, <1>1, <2>1, <2>3, OthersStay DEF Length
<1>6. ASSUME NEW e \in Enqueuers, NEW id \in Ids, EnqueueRefused(e, id)
      PROVE  RingQueue' = RingQueue /\ Busy' = Busy
  BY Zenon, <1>1, <1>6, OthersStay DEF EnqueueRefused, First, Busy, Length
<1> QED
  BY Zenon, <1>1, <1>2, <1>3, <1>4, <1>5, <1>6, DequeueStarts, ReleaseFinishes, IndexStays
  DEF Next, EnqueueRest, Handler, EnqueueCopyFails

\* As long as no enqueue falls into a release and no copy fails, the ring
\* implements the queue of its header, for any size: deployments are handled
\* one at a time in the order ggl_deployment_enqueue accepted them, and one
\* with the identifier of a waiting deployment takes its place.
THEOREM RingImplementsFifo == Spec => ImplementsFifo
<1>1. Init => Fifo!FifoInit
  BY SMTT(60) DEF Init, Fifo!FifoInit, RingQueue, Busy, NoCall
<1>2. Init => IInv /\ CalmInv
  BY Zenon, InitIInv, InitCalm
<1>3. IInv /\ CalmInv /\ [Next]_vars => IInv' /\ CalmInv'
  BY Zenon, NextIInv, NextCalm
<1> QED
  BY <1>1, <1>2, <1>3, StepRefines, PTL DEF Spec, ImplementsFifo
=============================================================================
