---------------------------- MODULE JobsListener ----------------------------
(***************************************************************************)
(* ggdeploymentd's exchange with AWS IoT Jobs (iot_jobs_listener.c) and    *)
(* the deployment thread that reports through it (ggl_deployment_listen).  *)
(*                                                                         *)
(* Three kinds of thread share the globals current_job_id,                 *)
(* current_deployment_id, current_job_version, next_job_handle and         *)
(* topic_scratch_mutex: a listener thread subscribes, asks for the next    *)
(* job and ends; the subscription thread runs the notification callback    *)
(* and the close callback, which starts a new listener; the deployment     *)
(* thread reports the status of the deployment it works on.                *)
(*                                                                         *)
(* A request to the cloud (ggl_aws_iot_call) returns when the subscription *)
(* thread has handled its response.  Job documents carry no deployment_id, *)
(* so every enqueue draws a new identifier of 36 bytes.                    *)
(***************************************************************************)
EXTENDS Integers, Sequences, FiniteSets, SequencesExt

CONSTANTS
    Jobs,        \* jobs of the cloud, in the order they are offered: 1..n
    BadJobs,     \* jobs whose document does not parse as a deployment
    Listeners,   \* threads that may run listen_for_jobs_deployments
    SubThread,   \* the core bus subscription thread
    Deployer,    \* the deployment thread
    QueueSize,   \* DEPLOYMENT_QUEUE_SIZE
    MaxIds,      \* bound: deployment identifiers drawn
    MaxCloses,   \* bound: times iotcored closes the subscription
    Faults,      \* what may happen: jobs that "overlap", "cancel", "offline",
                 \* "local" deployments, a "payload" that cannot be read
    NoThread

ASSUME JobsAssumption ==
    /\ Jobs \subseteq Nat \ {0} /\ BadJobs \subseteq Jobs
    /\ QueueSize \in Nat \ {0} /\ MaxIds \in Nat /\ MaxCloses \in Nat
    /\ Faults \subseteq {"overlap", "cancel", "offline", "local", "payload"}

VARIABLES
    cloud,     \* job -> [status, version] as AWS IoT Jobs has it
    notes,     \* notifications not yet handled: sequence of [handle, job]
    open,      \* handles of the subscriptions in the client's pool
    eof,       \* those that iotcored has closed
    made,      \* subscriptions made so far, the last handle
    next_job_handle,
    scratch,   \* holder of topic_scratch_mutex
    job_id,    \* current_job_id, 0 when empty
    dep_id,    \* current_deployment_id, 0 when empty
    version,   \* current_job_version
    queue,     \* the deployment queue: sequence of [id, job]
    active,    \* the deployment being handled
    lastId,    \* the last deployment identifier drawn
    th,        \* thread -> [pc, job, status, version, back]
    calm       \* history: jobs came one at a time, nothing was canceled, closed
               \* or out of reach, and no job met a full queue

cloudVars == <<cloud, notes, calm>>
connVars == <<open, eof, made, next_job_handle>>
jobVars == <<job_id, dep_id, version>>
queueVars == <<queue, active, lastId>>
vars == <<cloud, notes, open, eof, made, next_job_handle, scratch, job_id,
          dep_id, version, queue, active, lastId, th, calm>>

Threads == Listeners \cup {SubThread, Deployer}
NoJob == 0
Nothing == [id |-> 0, job |-> NoJob]

\* job: the job the thread works on; status, version: the update it sends;
\* back: where update_job and enqueue_job return to.
Resting(place) == [pc |-> place, job |-> NoJob, status |-> "none",
                   version |-> 0, back |-> "idle"]

Init ==
    /\ cloud = [j \in Jobs |-> [status |-> "none", version |-> 1]]
    /\ notes = <<>>
    /\ open = {} /\ eof = {} /\ made = 0
    /\ next_job_handle = 0
    /\ scratch = NoThread
    /\ job_id = NoJob /\ dep_id = 0 /\ version = 1
    /\ queue = <<>> /\ active = Nothing /\ lastId = 0
    /\ \E first \in Listeners :
         th = [t \in Threads |-> Resting(CASE t = first -> "start"
                                           [] t = Deployer -> "dequeue"
                                           [] OTHER -> "idle")]
    /\ calm = TRUE

At(t, place) == th[t].pc = place
Go(t, place) == th' = [th EXCEPT ![t].pc = place]

-----------------------------------------------------------------------------
(* AWS IoT Jobs *)

\* The job execution offered next: one in progress before one queued.
NextJob(c) ==
    LET of(s) == {j \in Jobs : c[j].status = s}
    IN  IF of("IN_PROGRESS") # {} THEN Min(of("IN_PROGRESS"))
        ELSE IF of("QUEUED") # {} THEN Min(of("QUEUED"))
        ELSE NoJob

\* A change of the next job is notified on every open subscription.
CloudBecomes(c) ==
    LET note(h) == [handle |-> h, job |-> NextJob(c)]
    IN  /\ cloud' = c
        /\ notes' = IF NextJob(c) \in {NextJob(cloud), NoJob} THEN notes
                    ELSE notes \o SetToSeq({note(h) : h \in open \ eof})

\* No exchange is under way on the device.
Quiet ==
    /\ NextJob(cloud) = NoJob /\ notes = <<>> /\ queue = <<>>
    /\ \A t \in Threads : th[t].pc \in {"idle", "start", "subscribe", "dequeue"}

Submit(j) ==
    /\ cloud[j].status = "none"
    /\ "overlap" \in Faults \/ Quiet
    /\ calm' = (calm /\ Quiet)
    /\ \A i \in Jobs : i < j => cloud[i].status # "none"
    /\ CloudBecomes([cloud EXCEPT ![j].status = "QUEUED"])
    /\ UNCHANGED <<connVars, scratch, jobVars, queueVars, th>>

Cancel(j) ==
    /\ "cancel" \in Faults
    /\ calm' = FALSE
    /\ cloud[j].status \in {"QUEUED", "IN_PROGRESS"}
    /\ CloudBecomes([cloud EXCEPT ![j].status = "CANCELED"])
    /\ UNCHANGED <<connVars, scratch, jobVars, queueVars, th>>

\* iotcored closes a subscription: it restarts, or a write to it timed out.
IotcoredCloses(h) ==
    /\ h \in open \ eof /\ made <= MaxCloses
    /\ calm' = FALSE
    /\ eof' = eof \cup {h}
    /\ UNCHANGED <<cloud, notes, open, made, next_job_handle, scratch, jobVars,
                   queueVars, th>>

-----------------------------------------------------------------------------
(* listen_for_jobs_deployments *)

Start(l) ==
    /\ At(l, "start")
    /\ next_job_handle' = 0
    /\ Go(l, "subscribe")
    /\ UNCHANGED <<cloudVars, open, eof, made, scratch, jobVars, queueVars>>

\* Callbacks run with the client pool's mutex held: while the subscription
\* thread is in one, no other thread can register a subscription.
PoolFree(t) == t = SubThread \/ At(SubThread, "idle")

\* subscribe_to_next_job_topics takes topic_scratch_mutex; with a handle there
\* is nothing to do.
Subscribe(l) ==
    /\ At(l, "subscribe") /\ scratch = NoThread
    /\ IF next_job_handle = 0 THEN Go(l, "register") /\ scratch' = l
                              ELSE Go(l, "describe") /\ UNCHANGED scratch
    /\ UNCHANGED <<cloudVars, connVars, jobVars, queueVars>>

\* Mutant of Register: the subscription stays open although ggl_subscribe fails
RegisterLeaks(l) ==
    /\ At(l, "register") /\ PoolFree(l)
    /\ made' = made + 1 /\ made < 3
    /\ open' = open \cup {made'}
    /\ Go(l, "subscribe") /\ scratch' = NoThread
    /\ UNCHANGED <<cloudVars, eof, next_job_handle, jobVars, queueVars>>

Register(l) ==
    /\ At(l, "register") /\ PoolFree(l)
    /\ made' = made + 1
    /\ open' = open \cup {made'}
    /\ Go(l, "assign")
    /\ UNCHANGED <<cloudVars, eof, next_job_handle, scratch, jobVars, queueVars>>

\* A failed subscription is tried again later.
SubscribeFails(l) ==
    /\ At(l, "register") /\ "offline" \in Faults
    /\ calm' = FALSE
    /\ scratch' = NoThread
    /\ Go(l, "subscribe")
    /\ UNCHANGED <<cloud, notes, connVars, jobVars, queueVars>>

\* ggl_subscribe stores the handle once the subscription is live.
Assign(l) ==
    /\ At(l, "assign")
    /\ next_job_handle' = made
    /\ scratch' = NoThread
    /\ Go(l, "describe")
    /\ UNCHANGED <<cloudVars, open, eof, made, jobVars, queueVars>>

\* describe_next_job holds topic_scratch_mutex until the job is processed.
Describe(l) ==
    /\ At(l, "describe") /\ scratch = NoThread
    /\ scratch' = l
    /\ th' = [th EXCEPT ![l].pc = "called", ![l].status = "none"]
    /\ UNCHANGED <<cloudVars, connVars, jobVars, queueVars>>

Described(l) ==
    /\ At(l, "described")
    /\ scratch' = NoThread
    /\ th' = [th EXCEPT ![l] = Resting("idle")]
    /\ UNCHANGED <<cloudVars, connVars, jobVars, queueVars>>

-----------------------------------------------------------------------------
(* ggl_aws_iot_call, for a description or for an update *)

Reported == {"IN_PROGRESS", "SUCCEEDED", "FAILED"}

\* The cloud applies an update that has a valid status for a job that is not
\* over and the version it expects; any other it rejects.
CloudAnswers(t) ==
    LET u == th[t]
        ok == /\ u.status \in Reported
              /\ cloud[u.job].status \in {"QUEUED", "IN_PROGRESS"}
              /\ cloud[u.job].version = u.version
    IN  /\ At(t, "called") /\ PoolFree(t)
        /\ CASE u.status = "none" ->
                  /\ th' = [th EXCEPT ![t].pc = "answered",
                                      ![t].job = NextJob(cloud)]
                  /\ UNCHANGED cloudVars
             [] u.status # "none" ->
                  /\ Go(t, "answered")
                  /\ IF ok THEN CloudBecomes([cloud EXCEPT ![u.job] =
                                    [status |-> u.status, version |-> @.version + 1]])
                           ELSE UNCHANGED <<cloud, notes>>
                  /\ UNCHANGED calm
        /\ UNCHANGED <<connVars, scratch, jobVars, queueVars>>

NextVersion == version + 1

\* update_job goes on, whatever the call returned.
UpdateDone(t) ==
    /\ version' = NextVersion
    /\ scratch' = NoThread
    /\ th' = [th EXCEPT ![t] = Resting(@.back)]

\* Only the subscription thread can deliver a response, between callbacks.
Deliver(t) ==
    /\ At(t, "answered") /\ At(SubThread, "idle")
    /\ IF th[t].status = "none"
         THEN /\ th' = [th EXCEPT ![t].pc = IF th[t].job = NoJob THEN "described"
                                                            ELSE "job_id",
                                  ![t].back = "described"]
              /\ UNCHANGED <<scratch, version>>
         ELSE UpdateDone(t)
    /\ UNCHANGED <<cloudVars, connVars, job_id, dep_id, queueVars>>

\* The call fails, or its subscription closes before the answer arrives: a
\* description is asked for again later.
CallFails(t) ==
    /\ At(t, "called") \/ (At(t, "answered") /\ At(SubThread, "idle"))
    /\ "offline" \in Faults /\ calm' = FALSE
    /\ IF th[t].status = "none"
         THEN Go(t, "describe") /\ scratch' = NoThread /\ UNCHANGED version
         ELSE UpdateDone(t)
    /\ UNCHANGED <<cloud, notes, connVars, job_id, dep_id, queueVars>>

-----------------------------------------------------------------------------
(* update_job *)

\* The job and the version are read once topic_scratch_mutex is held; the
\* failure of an enqueue names its own job.
UpdateJob(t) ==
    /\ At(t, "update") /\ scratch = NoThread
    /\ scratch' = t
    /\ th' = [th EXCEPT ![t].pc = "called",
                        ![t].job = IF t = Deployer THEN job_id ELSE @,
                        ![t].version = version]
    /\ UNCHANGED <<cloudVars, connVars, jobVars, queueVars>>

-----------------------------------------------------------------------------
(* enqueue_job, for the thread's job *)

SetJobId(t) ==
    /\ At(t, "job_id")
    /\ job_id' = th[t].job
    /\ version' = 1
    /\ Go(t, "dep_id")
    /\ UNCHANGED <<cloudVars, connVars, scratch, dep_id, queueVars>>

ClearDepId(t) ==
    /\ At(t, "dep_id")
    /\ dep_id' = 0
    /\ Go(t, "enqueue")
    /\ UNCHANGED <<cloudVars, connVars, scratch, job_id, version, queueVars>>

EnqueueFails(t) ==
    th' = [th EXCEPT ![t].pc = "update", ![t].status = "FAILURE"]

Busy == Len(queue) = QueueSize

\* ggl_deployment_enqueue: the identifier is appended to a buffer that holds
\* one, then a full queue is BUSY and the enqueue is tried again.
Enqueue(t) ==
    LET d == [id |-> lastId + 1, job |-> th[t].job]
    IN  /\ At(t, "enqueue")
        /\ IF th[t].job \in BadJobs \/ dep_id # 0
             THEN EnqueueFails(t) /\ UNCHANGED <<dep_id, lastId, queue, calm>>
             ELSE /\ lastId' = d.id /\ dep_id' = d.id
                  /\ calm' = (calm /\ ~Busy)
                  /\ IF Busy
                       THEN UNCHANGED <<queue, th>>
                       ELSE /\ queue' = Append(queue, d)
                            /\ th' = [th EXCEPT ![t] = Resting(@.back)]
        /\ UNCHANGED <<cloud, notes, connVars, scratch, job_id, version, active>>

-----------------------------------------------------------------------------
(* The subscription thread *)

\* next_job_execution_changed_callback
JobChanged ==
    LET n == Head(notes)
    IN  /\ At(SubThread, "idle") /\ notes # <<>>
        /\ notes' = Tail(notes)
        /\ th' = [th EXCEPT ![SubThread].pc = "job_id",
                            ![SubThread].job = n.job]
        /\ UNCHANGED <<cloud, calm, connVars, scratch, jobVars, queueVars>>

\* ggl_socket_handle_close: the close callback starts a listener if the
\* handle is the one stored.
Close(h) ==
    /\ open' = open \ {h} /\ eof' = eof \ {h}
    /\ IF h = next_job_handle
         THEN /\ next_job_handle' = 0
              /\ \E l \in Listeners : At(l, "idle") /\ Go(l, "start")
         ELSE UNCHANGED <<next_job_handle, th>>
    /\ UNCHANGED <<cloud, made, scratch, jobVars, queueVars>>

\* The connection's end is read after its last notification.
OnClose(h) ==
    /\ At(SubThread, "idle") /\ h \in eof
    /\ \A i \in DOMAIN notes : notes[i].handle # h
    /\ Close(h)
    /\ UNCHANGED <<notes, calm>>

\* The callback returns an error for a payload it cannot read: the client
\* closes the subscription, with what is still to be read from it.
JobUnreadable ==
    /\ At(SubThread, "idle") /\ notes # <<>>
    /\ "payload" \in Faults /\ made <= MaxCloses
    /\ LET h == Head(notes).handle
       IN  /\ notes' = SelectSeq(notes, LAMBDA n : n.handle # h)
           /\ Close(h)
    /\ calm' = FALSE

-----------------------------------------------------------------------------
(* The deployment thread: ggl_deployment_listen *)

\* Mutants of IsCurrent: any deployment is reported, or none
AnyDeployment == dep_id # 0
NoDeployment == FALSE

IsCurrent == active.id = dep_id

\* update_current_jobs_deployment, then the code after it.
Report(status, next) ==
    th' = [th EXCEPT ![Deployer] =
              IF IsCurrent
                THEN [Resting("update") EXCEPT !.status = status, !.back = next]
                ELSE Resting(next)]

Dequeue ==
    /\ At(Deployer, "dequeue") /\ queue # <<>>
    /\ active' = Head(queue)
    /\ Go(Deployer, "starting")
    /\ UNCHANGED <<cloudVars, connVars, scratch, jobVars, queue, lastId>>

Starting ==
    /\ At(Deployer, "starting")
    /\ Report("IN_PROGRESS", "handle")
    /\ UNCHANGED <<cloudVars, connVars, scratch, jobVars, queueVars>>

\* handle_deployment succeeds or fails.
Handled ==
    /\ At(Deployer, "handle")
    /\ \E status \in {"SUCCEEDED", "FAILED"} : Report(status, "release")
    /\ UNCHANGED <<cloudVars, connVars, scratch, jobVars, queueVars>>

Release ==
    /\ At(Deployer, "release")
    /\ queue' = Tail(queue) /\ active' = Nothing
    /\ th' = [th EXCEPT ![Deployer] = Resting("dequeue")]
    /\ UNCHANGED <<cloudVars, connVars, scratch, jobVars, lastId>>

\* A local deployment arrives at the server thread; its caller's identifier
\* is not stored.
Local ==
    /\ "local" \in Faults /\ lastId < MaxIds
    /\ Len(queue) < QueueSize
    /\ lastId' = lastId + 1
    /\ queue' = Append(queue, [id |-> lastId', job |-> NoJob])
    /\ UNCHANGED <<cloudVars, connVars, scratch, jobVars, active, th>>

-----------------------------------------------------------------------------

ListenerStep(l) ==
    \/ Start(l) \/ Subscribe(l) \/ Register(l) \/ SubscribeFails(l)
    \/ Assign(l) \/ Describe(l) \/ Described(l)
ThreadStep(t) ==
    CloudAnswers(t) \/ Deliver(t) \/ CallFails(t) \/ UpdateJob(t)
      \/ SetJobId(t) \/ ClearDepId(t) \/ Enqueue(t)
DeployerStep == Dequeue \/ Starting \/ Handled \/ Release
CloseStep == \E h \in open : OnClose(h)
CloudStep == \E j \in Jobs : Submit(j) \/ Cancel(j)

Next ==
    \/ \E l \in Listeners : ListenerStep(l)
    \/ \E t \in Threads : ThreadStep(t)
    \/ JobChanged \/ JobUnreadable \/ CloseStep \/ DeployerStep \/ Local \/ CloudStep
    \/ \E h \in open : IotcoredCloses(h)

Spec == Init /\ [][Next]_vars

\* Threads run, the cloud answers, and a mutex is not denied for ever to a
\* thread that waits for it while others take and release it.
FairSpec ==
    /\ Spec
    /\ \A l \in Listeners : SF_vars(ListenerStep(l))
    /\ \A t \in Threads : SF_vars(ThreadStep(t))
    /\ WF_vars(JobChanged) /\ WF_vars(CloseStep) /\ WF_vars(DeployerStep)

-----------------------------------------------------------------------------
(* Properties *)

Places == {"idle", "start", "subscribe", "register", "assign", "describe",
           "described", "called", "answered", "update", "job_id", "dep_id",
           "enqueue", "dequeue", "starting", "handle", "release"}
Statuses == {"none", "QUEUED", "IN_PROGRESS", "SUCCEEDED", "FAILED",
             "CANCELED", "FAILURE"}
Deployments == [id : 0 .. lastId, job : Jobs \cup {NoJob}]

\* The type invariant.
TypeOK ==
    /\ \A j \in Jobs : cloud[j].status \in Statuses /\ cloud[j].version \in Nat
    /\ \A i \in DOMAIN notes : notes[i].handle \in 1 .. made /\ notes[i].job \in Jobs
    /\ open \subseteq 1 .. made /\ eof \subseteq open /\ next_job_handle \in 0 .. made
    /\ scratch \in Threads \cup {NoThread}
    /\ job_id \in Jobs \cup {NoJob} /\ dep_id \in 0 .. lastId /\ version \in Nat
    /\ queue \in Seq(Deployments) /\ Len(queue) <= QueueSize
    /\ active \in Deployments
    /\ \A t \in Threads : /\ th[t].pc \in Places /\ th[t].back \in Places
                          /\ th[t].job \in Jobs \cup {NoJob}
                          /\ th[t].status \in Statuses /\ th[t].version \in Nat

\* An update carries the version that the cloud has for its job.
UpdateInStep ==
    At(Deployer, "called") /\ cloud[th[Deployer].job].status \in {"QUEUED", "IN_PROGRESS"}
      => th[Deployer].version = cloud[th[Deployer].job].version

Updating == th[Deployer].pc \in {"called", "answered"}

\* When jobs come one at a time, among local deployments, and no update gets
\* lost, the status that the deployment thread sends to the cloud is sent for
\* the job of the deployment it is handling, and carries the version that the
\* cloud has for that job (current_job_id, current_job_version).
ReportsOwnJob == calm => (Updating => th[Deployer].job = active.job) /\ UpdateInStep

\* A subscription to the next job topic is live or one listener is on its way
\* to make it, never both and never two: jobs are not announced twice.
OneSubscription ==
    LET coming == {l \in Listeners : th[l].pc \in {"start", "subscribe", "register"}}
    IN  TypeOK /\ Cardinality(open) + Cardinality(coming) <= 1

\* A job offered to the device ends up reported, unless another job comes, the
\* cloud goes out of reach or the queue is full.
JobsReported ==
    \A j \in Jobs : calm /\ cloud[j].status = "QUEUED"
                      ~> ~calm \/ cloud[j].status \in {"SUCCEEDED", "FAILED"}

-----------------------------------------------------------------------------
(* Promises that do not hold once a document does not parse (the first), a    *)
(* job that is described again after a lost subscription meets a full queue   *)
(* (the second) or a subscription closes before its handle is stored (the     *)
(* third).  UpdateInStep by itself does not hold once an update is lost.      *)

\* A callback on the subscription thread returns.
SubThreadReturns == []<>At(SubThread, "idle")

\* A deployment that was started is finished and makes room in the queue.
DeploymentEnds == active # Nothing ~> active = Nothing

\* A lost subscription is made again.
Resubscribes == []<>(open \ eof # {})

=============================================================================
