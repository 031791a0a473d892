-------------------------- MODULE DeploymentQueue ---------------------------
(***************************************************************************)
(* The deployment queue of ggdeploymentd (deployment_queue.c) and the loop *)
(* of the handler thread that empties it (ggl_deployment_listen).          *)
(*                                                                         *)
(* The queue is a ring.  Enqueuers are the core bus server thread          *)
(* (create_local_deployment) and the IoT jobs threads.  Enqueue and        *)
(* dequeue hold queue_mtx; ggl_deployment_release does not, so its         *)
(* accesses to queue_count and queue_index are steps of their own here, as *)
(* are the ones of an enqueue they can fall between.                       *)
(***************************************************************************)
EXTENDS Integers, Sequences, FiniteSets

CONSTANTS
    QueueSize,     \* DEPLOYMENT_QUEUE_SIZE
    Enqueuers,     \* threads that call ggl_deployment_enqueue
    Ids, Docs,     \* deployment identifiers and documents
    None,          \* no identifier, no document, no thread
    Garbled,       \* a document part old, part new
    MaxEnqueues    \* bound: calls of enqueue in one behaviour

ASSUME QueueAssumption ==
    /\ QueueSize \in Nat /\ QueueSize > 0
    /\ MaxEnqueues \in Nat
    /\ None \notin Enqueuers \cup Ids \cup Docs
    /\ Garbled \notin Docs

VARIABLES
    deployments,   \* slot -> [id, doc, state], the copy in deployment_mem
    queue_index,
    queue_count,
    queue_mtx,     \* the enqueuer holding the mutex, or None
    enq,           \* the call in progress: [id, doc, slot, count, pc]
    pc,            \* where the handler thread is
    current,       \* the slot dequeue returned a pointer to
    loaded,        \* queue_count as release loaded it
    calls,         \* enqueues so far
    pending,       \* history: id -> document accepted and not yet started
    started,       \* history: the deployment as it was when dequeued
    calm           \* history: no enqueue met a release and no copy failed

enqVars == <<queue_mtx, enq, calls>>
vars == <<deployments, queue_index, queue_count, queue_mtx, enq, pc, current,
          loaded, calls, pending, started, calm>>

Slots == 0..(QueueSize - 1)
Slot(i) == (queue_index + i) % QueueSize

EmptySlot == [id |-> None, doc |-> None, state |-> "QUEUED"]
NoCall == [id |-> None, doc |-> None, slot |-> 0, count |-> 0, pc |-> "none"]

Init ==
    /\ deployments = [s \in Slots |-> EmptySlot]
    /\ queue_index = 0
    /\ queue_count = 0
    /\ queue_mtx = None
    /\ enq = NoCall
    /\ pc = "dequeue"
    /\ current = 0
    /\ loaded = 0
    /\ calls = 0
    /\ pending = [d \in Ids |-> None]
    /\ started = EmptySlot
    /\ calm = TRUE

Releasing == pc \in {"release", "counted"}

\* get_matching_deployment: the first of the queued slots with this id.
Matching(id, i) ==
    /\ i \in 0..(queue_count - 1)
    /\ deployments[Slot(i)].id = id
    /\ \A j \in 0..(i - 1) : deployments[Slot(j)].id # id

\* Mutant of MatchExists: the queue is not searched.
NoMatch(id) == FALSE

MatchExists(id) == \E i \in 0..(queue_count - 1) : deployments[Slot(i)].id = id

HasRoom == queue_count < QueueSize

\* Mutant of Replaceable: the deployment in progress can be replaced.
AlwaysReplaceable(s) == TRUE

Replaceable(s) == deployments[s].state = "QUEUED"

\* ggl_deployment_enqueue takes the mutex; parsing the document and returning
\* its id leave the queue alone.
MayEnqueue(e) ==
    /\ queue_mtx = None
    /\ calls < MaxEnqueues
    /\ calm' = (calm /\ ~Releasing)

\* The id is in the queue and still waiting: its slot is overwritten.
EnqueueReplace(e, id, doc) ==
    /\ MayEnqueue(e)
    /\ \E i \in Slots :
         /\ Matching(id, i)
         /\ Replaceable(Slot(i))
         /\ enq' = [id |-> id, doc |-> doc, slot |-> Slot(i), count |-> 0,
                    pc |-> "replace"]
    /\ queue_mtx' = e
    /\ calls' = calls + 1
    /\ UNCHANGED <<deployments, queue_index, queue_count, pc, current, loaded,
                   pending, started>>

\* The id is new and there is room: the slot after the last one is chosen.
EnqueueNew(e, id, doc) ==
    /\ MayEnqueue(e)
    /\ ~MatchExists(id)
    /\ HasRoom
    /\ enq' = [id |-> id, doc |-> doc, slot |-> Slot(queue_count),
               count |-> queue_count, pc |-> "count"]
    /\ queue_mtx' = e
    /\ calls' = calls + 1
    /\ UNCHANGED <<deployments, queue_index, queue_count, pc, current, loaded,
                   pending, started>>

\* GGL_ERR_FAILURE for a deployment in progress, GGL_ERR_BUSY for a full queue.
EnqueueRefused(e, id) ==
    /\ MayEnqueue(e)
    /\ \/ \E i \in Slots : Matching(id, i) /\ ~Replaceable(Slot(i))
       \/ ~MatchExists(id) /\ ~HasRoom
    /\ calls' = calls + 1
    /\ UNCHANGED <<deployments, queue_index, queue_count, queue_mtx, enq, pc,
                   current, loaded, pending, started>>

\* queue_count += 1, from the value loaded for the size check.
EnqueueCount ==
    /\ enq.pc = "count"
    /\ queue_count' = enq.count + 1
    /\ enq' = [enq EXCEPT !.pc = "copy"]
    /\ UNCHANGED <<deployments, queue_index, queue_mtx, pc, current, loaded,
                   calls, pending, started, calm>>

\* Mutant of Signalled: a waiting handler is not woken.
NotSignalled == pc

\* pthread_cond_signal(&notify_cond)
Signalled == IF pc = "wait" THEN "dequeue" ELSE pc

\* deep_copy_deployment succeeds: store, signal, unlock.
EnqueueCopy ==
    /\ enq.pc \in {"copy", "replace"}
    /\ deployments' = [deployments EXCEPT ![enq.slot] =
                         [id |-> enq.id, doc |-> enq.doc, state |-> "QUEUED"]]
    /\ pending' = [pending EXCEPT ![enq.id] = enq.doc]
    /\ pc' = Signalled
    /\ enq' = NoCall
    /\ queue_mtx' = None
    /\ UNCHANGED <<queue_index, queue_count, current, loaded, calls, started, calm>>

\* deep_copy_deployment fails: the slot's memory is partly overwritten, its
\* record is not, nobody is signalled and queue_count keeps its new value.
EnqueueCopyFails ==
    /\ enq.pc \in {"copy", "replace"}
    /\ calm' = FALSE
    /\ \E id \in {deployments[enq.slot].id, enq.id} :
         /\ deployments[enq.slot].id = None => id = None
         /\ deployments' = [deployments EXCEPT
                              ![enq.slot].id = id,
                              ![enq.slot].doc = Garbled]
    /\ enq' = NoCall
    /\ queue_mtx' = None
    /\ UNCHANGED <<queue_index, queue_count, pc, current, loaded, calls,
                   pending, started>>

\* ggl_deployment_dequeue with an empty queue: wait on notify_cond.
DequeueWait ==
    /\ pc = "dequeue" /\ queue_mtx = None
    /\ queue_count = 0
    /\ pc' = "wait"
    /\ UNCHANGED <<deployments, queue_index, queue_count, enqVars, current,
                   loaded, pending, started, calm>>

\* pthread_cond_wait may also return without a signal.
SpuriousWakeup ==
    /\ pc = "wait" /\ queue_mtx = None
    /\ pc' = "dequeue"
    /\ UNCHANGED <<deployments, queue_index, queue_count, enqVars, current,
                   loaded, pending, started, calm>>

\* ggl_deployment_dequeue with a deployment: mark it and return a pointer.
Dequeue ==
    LET d == deployments[queue_index] IN
    /\ pc = "dequeue" /\ queue_mtx = None
    /\ queue_count # 0
    /\ deployments' = [deployments EXCEPT ![queue_index].state = "IN_PROGRESS"]
    /\ started' = [d EXCEPT !.state = "IN_PROGRESS"]
    /\ pending' = [i \in Ids |-> IF i = d.id /\ pending[i] = d.doc
                                 THEN None ELSE pending[i]]
    /\ current' = queue_index
    /\ pc' = "handle"
    /\ UNCHANGED <<queue_index, queue_count, enqVars, loaded, calm>>

\* handle_deployment is over: ggl_deployment_release loads queue_count.
ReleaseLoad ==
    /\ pc = "handle"
    /\ calm' = (calm /\ queue_mtx = None)
    /\ loaded' = queue_count
    /\ pc' = "release"
    /\ UNCHANGED <<deployments, queue_index, queue_count, enqVars, current,
                   pending, started>>

\* queue_count -= 1, stored.
ReleaseCount ==
    /\ pc = "release"
    /\ queue_count' = loaded - 1
    /\ pc' = "counted"
    /\ UNCHANGED <<deployments, queue_index, enqVars, current, loaded, pending,
                   started, calm>>

\* queue_index moves on and the thread goes back to ggl_deployment_dequeue.
ReleaseIndex ==
    /\ pc = "counted"
    /\ queue_index' = (queue_index + 1) % QueueSize
    /\ pc' = "dequeue"
    /\ UNCHANGED <<deployments, queue_count, enqVars, current, loaded, pending,
                   started, calm>>

Handler ==
    \/ DequeueWait \/ Dequeue
    \/ ReleaseLoad \/ ReleaseCount \/ ReleaseIndex

EnqueueRest == EnqueueCount \/ EnqueueCopy \/ EnqueueCopyFails

Next ==
    \/ \E e \in Enqueuers, id \in Ids, doc \in Docs :
         EnqueueReplace(e, id, doc) \/ EnqueueNew(e, id, doc)
    \/ \E e \in Enqueuers, id \in Ids : EnqueueRefused(e, id)
    \/ EnqueueRest
    \/ Handler
    \/ SpuriousWakeup

Spec == Init /\ [][Next]_vars

\* The handler thread and a thread inside ggl_deployment_enqueue keep running.
FairSpec == Spec /\ WF_vars(Handler) /\ WF_vars(EnqueueRest)
-----------------------------------------------------------------------------
SlotRecord ==
    [id : Ids \cup {None}, doc : Docs \cup {None, Garbled},
     state : {"QUEUED", "IN_PROGRESS"}]

TypeOK ==
    /\ deployments \in [Slots -> SlotRecord]
    /\ queue_index \in Slots
    /\ queue_count \in 0..QueueSize
    /\ queue_mtx \in Enqueuers \cup {None}
    /\ enq \in [id : Ids \cup {None}, doc : Docs \cup {None}, slot : Slots,
               count : 0..QueueSize, pc : {"none", "count", "copy", "replace"}]
    /\ pc \in {"dequeue", "wait", "handle", "release", "counted"}
    /\ current \in Slots
    /\ loaded \in 0..QueueSize
    /\ calls \in 0..MaxEnqueues
    /\ pending \in [Ids -> Docs \cup {None}]
    /\ started \in SlotRecord
    /\ calm \in BOOLEAN

\* The deployment the handler thread works on is never overwritten under it,
\* although enqueues write the ring's slots and its memory all the while and
\* release moves the ring without the mutex; and it is at queue_index when it
\* is released (the assertion in ggl_deployment_release).
HandledNotOverwritten ==
    pc = "handle" => deployments[current] = started /\ current = queue_index

\* The ring seen as a sequence: an enqueue takes effect when its copy is
\* stored, a release when queue_count is.
RingQueue ==
    LET first == IF pc = "counted" THEN 1 ELSE 0
        length == IF enq.pc = "copy" THEN queue_count - 1 ELSE queue_count
    IN [i \in 1..length |->
          [id |-> deployments[Slot(first + i - 1)].id,
           doc |-> deployments[Slot(first + i - 1)].doc]]

Busy == pc \in {"handle", "release"}

Fifo == INSTANCE DeploymentFifo WITH queue <- RingQueue, busy <- Busy

\* As long as no enqueue falls into a release and no copy fails, the ring
\* implements the bounded first-in first-out queue of its header: nothing
\* accepted is lost, and nothing else is handled.
ImplementsFifo ==
    Fifo!FifoInit /\ [][calm' => Fifo!FifoNext]_<<RingQueue, Busy>>

\* As long as that is so, every accepted deployment is started in the end: no
\* wakeup is lost.
AcceptedStarts ==
    \A i \in Ids, d \in Docs : calm /\ pending[i] = d ~> ~calm \/ pending[i] # d
=============================================================================
