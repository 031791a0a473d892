--------------------------- MODULE DeploymentFifo ---------------------------
(***************************************************************************)
(* What the deployment queue promises (deployment_queue.h): deployments    *)
(* are handled one at a time in the order they were accepted; one with the *)
(* identifier of a deployment still waiting replaces it in its place; one  *)
(* with the identifier of the deployment in progress is refused.           *)
(***************************************************************************)
EXTENDS Naturals, Sequences

CONSTANTS Ids, Docs, QueueSize

VARIABLES
    queue,  \* the accepted deployments, oldest first
    busy    \* the first one is being handled

Deployment == [id : Ids, doc : Docs]

FifoInit == queue = <<>> /\ busy = FALSE

Add(d) ==
    /\ Len(queue) < QueueSize
    /\ \A i \in DOMAIN queue : queue[i].id # d.id
    /\ queue' = Append(queue, d)
    /\ UNCHANGED busy

Replace(d, i) ==
    /\ queue[i].id = d.id
    /\ ~(busy /\ i = 1)
    /\ queue' = [queue EXCEPT ![i] = d]
    /\ UNCHANGED busy

Start == queue # <<>> /\ ~busy /\ busy' = TRUE /\ UNCHANGED queue

Finish == busy /\ queue' = Tail(queue) /\ busy' = FALSE

FifoNext ==
    \/ \E d \in Deployment : Add(d) \/ \E i \in DOMAIN queue : Replace(d, i)
    \/ Start
    \/ Finish

FifoSpec == FifoInit /\ [][FifoNext]_<<queue, busy>>
=============================================================================
