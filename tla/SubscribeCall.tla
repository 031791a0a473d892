---------------------------- MODULE SubscribeCall ----------------------------
(***************************************************************************)
(* A blocking call made of a core bus subscription: ggl_aws_iot_call       *)
(* (aws-iot-call) and ggl_sub_response (core-bus-sub-response) on top of   *)
(* the client's subscriptions (core-bus/src/client_subscribe.c).           *)
(*                                                                         *)
(* The caller subscribes with callbacks whose context lives on its stack,  *)
(* publishes its request and waits on a condition variable.  The process's *)
(* one subscription thread reads responses and runs the callbacks with     *)
(* pool.mtx held; the close callback wakes the caller, whose frame then    *)
(* goes away.                                                              *)
(***************************************************************************)
EXTENDS Integers, Sequences

CONSTANTS
    Callers,     \* threads that make calls
    SubThread,   \* the subscription thread
    MaxCalls,    \* bound: calls made by one caller
    MaxMessages, \* bound: responses sent on one subscription
    NoThread

ASSUME CallAssumption ==
    /\ SubThread \notin Callers
    /\ NoThread \notin Callers \cup {SubThread}
    /\ MaxCalls \in Nat /\ MaxMessages \in Nat

VARIABLES
    sub,      \* caller -> its subscription: "none", "pooled" or "released"
    set,      \* caller -> sub_callbacks of that subscription are set
    polled,   \* caller -> it has been added to the epoll instance
    stream,   \* caller -> responses sent and not yet read
    eof,      \* caller -> the server has closed the connection
    calls,    \* caller -> number of its current or last call
    ready,    \* caller -> ctx.ready
    ret,      \* caller -> ctx.ret
    frame,    \* caller -> the call's stack frame, with ctx, exists
    notify,   \* caller -> holder of ctx.mtx
    pool,     \* holder of pool.mtx across a callback
    pc,       \* thread -> its position
    job,      \* thread -> the subscription it works on: [c, n]
    sent      \* history: caller -> responses sent on its subscription

connVars == <<stream, eof, sent>>
poolVars == <<sub, set, polled>>
ctxVars == <<ready, ret, frame>>
vars == <<sub, set, polled, stream, eof, calls, ready, ret, frame, notify,
          pool, pc, job, sent>>

Threads == Callers \cup {SubThread}

\* What a response does to the callback: "answer" matches the client token and
\* ends the call, "skip" does not match, "bad" cannot be decoded.
Responses == {"answer", "skip", "bad"}

Init ==
    /\ sub = [c \in Callers |-> "none"]
    /\ set = [c \in Callers |-> FALSE]
    /\ polled = [c \in Callers |-> FALSE]
    /\ stream = [c \in Callers |-> <<>>]
    /\ eof = [c \in Callers |-> FALSE]
    /\ calls = [c \in Callers |-> 0]
    /\ ready = [c \in Callers |-> FALSE]
    /\ ret = [c \in Callers |-> "failure"]
    /\ frame = [c \in Callers |-> FALSE]
    /\ notify = [c \in Callers |-> NoThread]
    /\ pool = NoThread
    /\ pc = [t \in Threads |-> "idle"]
    /\ job = [t \in Threads |-> [c |-> NoThread, n |-> 0]]
    /\ sent = [c \in Callers |-> 0]

At(t, place) == pc[t] = place
Go(t, place) == pc' = [pc EXCEPT ![t] = place]

\* validate_handle: the subscription is in the pool, and not a later one.
Valid(j) == sub[j.c] = "pooled" /\ calls[j.c] = j.n

-----------------------------------------------------------------------------
(* The server, as its client sees it *)

\* Responses come once the subscription is accepted, answers once the request
\* is published.
Respond(c) ==
    /\ sub[c] = "pooled" /\ ~eof[c] /\ sent[c] < MaxMessages
    /\ \E r \in Responses :
         /\ r = "answer" => pc[c] \in {"lock", "test", "waiting"}
         /\ stream' = [stream EXCEPT ![c] = Append(@, r)]
    /\ sent' = [sent EXCEPT ![c] = @ + 1]
    /\ UNCHANGED <<poolVars, eof, calls, ctxVars, notify, pool, pc, job>>

CloseConnection(c) ==
    /\ sub[c] = "pooled" /\ ~eof[c]
    /\ eof' = [eof EXCEPT ![c] = TRUE]
    /\ UNCHANGED <<poolVars, stream, sent, calls, ctxVars, notify, pool, pc, job>>

-----------------------------------------------------------------------------
(* The caller, up to its wait: ggl_subscribe and the publish *)

\* A new call: its frame, with a fresh context.
ToCall(c) == calls[c] + 1

\* The request is accepted and its connection registered, without callbacks.
Subscribe(c) ==
    /\ At(c, "idle") /\ calls[c] < MaxCalls /\ pool = NoThread
    /\ calls' = [calls EXCEPT ![c] = ToCall(c)]
    /\ job' = [job EXCEPT ![c] = [c |-> c, n |-> ToCall(c)]]
    /\ frame' = [frame EXCEPT ![c] = TRUE]
    /\ ready' = [ready EXCEPT ![c] = FALSE]
    /\ ret' = [ret EXCEPT ![c] = "failure"]
    /\ stream' = [stream EXCEPT ![c] = <<>>]
    /\ eof' = [eof EXCEPT ![c] = FALSE]
    /\ sent' = [sent EXCEPT ![c] = 0]
    /\ sub' = [sub EXCEPT ![c] = "pooled"]
    /\ set' = [set EXCEPT ![c] = FALSE]
    /\ polled' = [polled EXCEPT ![c] = FALSE]
    /\ Go(c, "callbacks")
    /\ UNCHANGED <<notify, pool>>

\* The server refuses the subscription, or the pool is full.
SubscribeFails(c) ==
    /\ At(c, "idle") /\ calls[c] < MaxCalls
    /\ calls' = [calls EXCEPT ![c] = ToCall(c)]
    /\ ret' = [ret EXCEPT ![c] = "failure"]
    /\ UNCHANGED <<poolVars, connVars, ready, frame, notify, pool, pc, job>>

SetCallbacks(c) ==
    /\ At(c, "callbacks") /\ pool = NoThread
    /\ set' = [set EXCEPT ![c] = TRUE]
    /\ Go(c, "epoll")
    /\ UNCHANGED <<sub, polled, connVars, calls, ctxVars, notify, pool, job>>

EpollAdd(c) ==
    /\ At(c, "epoll")
    /\ polled' = [polled EXCEPT ![c] = TRUE]
    /\ Go(c, "publish")
    /\ UNCHANGED <<sub, set, connVars, calls, ctxVars, notify, pool, job>>

\* The callbacks are cleared before the handle is closed.
EpollAddFails(c) ==
    /\ At(c, "epoll") /\ pool = NoThread
    /\ set' = [set EXCEPT ![c] = FALSE]
    /\ sub' = [sub EXCEPT ![c] = "released"]
    /\ Go(c, "return")
    /\ UNCHANGED <<polled, connVars, calls, ctxVars, notify, pool, job>>

Publish(c) ==
    /\ At(c, "publish")
    /\ Go(c, "lock")
    /\ UNCHANGED <<poolVars, connVars, calls, ctxVars, notify, pool, job>>

\* Mutant of AfterFailedPublish: the subscription is left open
LeaveOpen == "return"

AfterFailedPublish == "close"

PublishFails(c) ==
    /\ At(c, "publish")
    /\ Go(c, AfterFailedPublish)
    /\ UNCHANGED <<poolVars, connVars, calls, ctxVars, notify, pool, job>>

-----------------------------------------------------------------------------
(* The caller's wait *)

LockNotify(c) ==
    /\ At(c, "lock") /\ notify[c] = NoThread
    /\ notify' = [notify EXCEPT ![c] = c]
    /\ Go(c, "test")
    /\ UNCHANGED <<poolVars, connVars, calls, ctxVars, pool, job>>

\* while (!ctx.ready): pthread_cond_timedwait releases the mutex as it sleeps.
TestReady(c) ==
    /\ At(c, "test")
    /\ notify' = [notify EXCEPT ![c] = NoThread]
    /\ Go(c, IF ready[c] THEN "return" ELSE "waiting")
    /\ UNCHANGED <<poolVars, connVars, calls, ctxVars, pool, job>>

ETIMEDOUT == 110
EINTR == 4

\* The test made of the value pthread_cond_timedwait returns.
TimedOut(cond_ret) == cond_ret < 0 /\ cond_ret # EINTR

\* The deadline has passed: timedwait returns with the mutex held.
TimedWaitExpires(c) ==
    /\ At(c, "waiting") /\ notify[c] = NoThread
    /\ notify' = [notify EXCEPT ![c] = IF TimedOut(ETIMEDOUT) THEN NoThread ELSE c]
    /\ Go(c, IF TimedOut(ETIMEDOUT) THEN "close" ELSE "test")
    /\ UNCHANGED <<poolVars, connVars, calls, ctxVars, pool, job>>

Return(c) ==
    /\ At(c, "return")
    /\ frame' = [frame EXCEPT ![c] = FALSE]
    /\ Go(c, "idle")
    /\ UNCHANGED <<poolVars, connVars, calls, ready, ret, notify, pool, job>>

-----------------------------------------------------------------------------
(* Closing a subscription: by the caller after a failed publish, or by the   *)
(* subscription thread.                                                      *)

\* Where a thread goes when its close is done.
Closed(t) == IF t = SubThread THEN "idle" ELSE "return"

\* ggl_socket_handle_close takes pool.mtx and holds it over the callback.
CloseSub(t) ==
    /\ At(t, "close") /\ pool = NoThread
    /\ IF Valid(job[t])
         THEN pool' = t /\ Go(t, "on_close")
         ELSE Go(t, Closed(t)) /\ UNCHANGED pool
    /\ UNCHANGED <<poolVars, connVars, calls, ctxVars, notify, job>>

\* Mutant of Signal: the condition is signalled before ready is set
SignalOnly(c) == UNCHANGED ready

Signal(c) == ready' = [ready EXCEPT ![c] = TRUE]

\* The close callback: sets ready and signals under ctx.mtx.
OnClose(t) ==
    LET c == job[t].c
    IN  /\ At(t, "on_close") /\ notify[c] = NoThread
        /\ Signal(c)
        /\ pc' = [pc EXCEPT ![t] = "release",
                            ![c] = CASE c = t -> "release"
                                     [] @ = "waiting" -> "lock"
                                     [] OTHER -> @]
        /\ UNCHANGED <<poolVars, connVars, calls, ret, frame, notify, pool, job>>

\* The slot is freed and pool.mtx released.
Release(t) ==
    /\ At(t, "release")
    /\ sub' = [sub EXCEPT ![job[t].c] = "released"]
    /\ pool' = NoThread
    /\ Go(t, Closed(t))
    /\ UNCHANGED <<set, polled, connVars, calls, ctxVars, notify, job>>

-----------------------------------------------------------------------------
(* The subscription thread *)

\* epoll reports a subscription; its owner may close it before it is read.
SubFdReady(c) ==
    /\ At(SubThread, "idle") /\ sub[c] = "pooled" /\ polled[c]
    /\ stream[c] # <<>> \/ eof[c]
    /\ job' = [job EXCEPT ![SubThread] = [c |-> c, n |-> calls[c]]]
    /\ Go(SubThread, "read")
    /\ UNCHANGED <<poolVars, connVars, calls, ctxVars, notify, pool>>

\* The next response is read; end of stream, and a released handle, close.
ReadResponse ==
    LET j == job[SubThread]
    IN  /\ At(SubThread, "read") /\ pool = NoThread
        /\ Go(SubThread, IF Valid(j) /\ stream[j.c] # <<>> THEN "callback"
                                                           ELSE "close")
        /\ UNCHANGED <<poolVars, connVars, calls, ctxVars, notify, pool, job>>

\* Mutant of MayCall: the handle is not validated again
MayAlwaysCall(j) == TRUE

MayCall(j) == Valid(j)

\* The callback ignores a response to some other call and keeps the
\* subscription.
Skips(r) == r = "skip"

\* The response callback, within pool.mtx.  It skips a response that does not
\* carry the client token; otherwise it returns an error, and the handle is
\* closed within the same critical section.
OnResponse ==
    LET j == job[SubThread]
        r == Head(stream[j.c])
    IN  /\ At(SubThread, "callback") /\ pool = NoThread
        /\ IF MayCall(j)
             THEN /\ stream' = [stream EXCEPT ![j.c] = Tail(@)]
                  /\ pool' = IF Skips(r) THEN NoThread ELSE SubThread
                  /\ ret' = IF r = "answer" THEN [ret EXCEPT ![j.c] = "ok"]
                                            ELSE ret
                  /\ Go(SubThread, IF Skips(r) THEN "idle" ELSE "on_close")
             ELSE Go(SubThread, "close") /\ UNCHANGED <<stream, pool, ret>>
        /\ UNCHANGED <<poolVars, eof, sent, calls, ready, frame, notify, job>>

-----------------------------------------------------------------------------

CallerStep(c) ==
    \/ SetCallbacks(c) \/ EpollAdd(c) \/ EpollAddFails(c)
    \/ Publish(c) \/ PublishFails(c)
    \/ LockNotify(c) \/ TestReady(c) \/ TimedWaitExpires(c) \/ Return(c)

CloseStep(t) == CloseSub(t) \/ OnClose(t) \/ Release(t)

SubStep == ReadResponse \/ OnResponse \/ \E c \in Callers : SubFdReady(c)

Next ==
    \/ \E c \in Callers : Subscribe(c) \/ SubscribeFails(c) \/ CallerStep(c)
                          \/ Respond(c) \/ CloseConnection(c)
    \/ \E t \in Threads : CloseStep(t)
    \/ SubStep

Spec == Init /\ [][Next]_vars

\* Threads are scheduled, and a deadline that has passed is noticed; nothing
\* is assumed of the server.
FairSpec ==
    /\ Spec
    /\ \A c \in Callers : WF_vars(CallerStep(c))
    /\ \A t \in Threads : SF_vars(CloseStep(t))
    /\ SF_vars(SubStep)

-----------------------------------------------------------------------------
(* Properties *)

\* Every variable has its type.
TypeOK ==
    /\ sub \in [Callers -> {"none", "pooled", "released"}]
    /\ set \in [Callers -> BOOLEAN] /\ polled \in [Callers -> BOOLEAN]
    /\ stream \in [Callers -> Seq(Responses)]
    /\ eof \in [Callers -> BOOLEAN]
    /\ calls \in [Callers -> 0..MaxCalls]
    /\ ready \in [Callers -> BOOLEAN] /\ frame \in [Callers -> BOOLEAN]
    /\ ret \in [Callers -> {"failure", "ok"}]
    /\ notify \in [Callers -> Callers \cup {NoThread}]
    /\ pool \in Threads \cup {NoThread}
    /\ pc \in [Threads -> {"idle", "callbacks", "epoll", "publish", "lock",
                           "test", "waiting", "return", "close", "on_close",
                           "release", "read", "callback"}]
    /\ job \in [Threads -> [c : Callers \cup {NoThread}, n : 0..MaxCalls]]
    /\ sent \in [Callers -> 0..MaxMessages]

\* The context a callback uses exists: the caller's frame outlives every
\* callback of its subscription, including the close callback run by the
\* subscription thread while the caller is about to return, and a subscription
\* left in the pool for others to find still has its frame.
ContextInScope ==
    /\ TypeOK
    /\ \A t \in Threads : At(t, "on_close") =>
          frame[job[t].c] /\ calls[job[t].c] = job[t].n
    /\ \A c \in Callers : (sub[c] = "pooled" /\ set[c] /\ pool = NoThread) =>
          frame[c]

\* A response is handed to the callback only while the subscription is open
\* ("User callback must not run during/after a subscription close").
OnlyWhileOpen ==
    [][\A c \in Callers :
          (calls'[c] = calls[c] /\ Len(stream'[c]) < Len(stream[c])) =>
             (sub[c] = "pooled" /\ set[c] /\ ~ready[c])]_vars

\* A caller whose subscription has been answered or closed by the server
\* returns, and both the caller and the subscription thread get past
\* pool.mtx and ctx.mtx.
AnsweredReturns ==
    \A c \in Callers :
        (At(c, "waiting") /\ (eof[c] \/ \E i \in 1..Len(stream[c]) :
                                            stream[c][i] # "skip"))
            ~> At(c, "idle")

\* A call returns, at the latest when its timeout has passed.
CallReturns == \A c \in Callers : ~At(c, "idle") ~> At(c, "idle")

=============================================================================
