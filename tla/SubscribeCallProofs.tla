------------------------ MODULE SubscribeCallProofs ------------------------
(***************************************************************************)
(* The safety of blocking calls, proved for any number of callers, calls   *)
(* and responses.                                                          *)
(***************************************************************************)
EXTENDS SubscribeCall, TLAPS

\* The places of a thread that holds pool.mtx over a callback.
Holding == {"on_close", "release"}

\* pool.mtx is held by the one thread that runs a close callback or frees the
\* slot after it.
PoolInv == \A t \in Threads : pc[t] \in Holding <=> pool = t

\* A caller reads no responses, and the subscription thread makes no calls.
PlaceInv ==
    /\ \A c \in Callers : pc[c] \notin {"read", "callback"}
    /\ pc[SubThread] \in {"idle", "read", "callback", "close"} \cup Holding

\* A call that has begun has its frame and works on its own subscription,
\* whose callbacks are set before it is polled.
CallInv ==
    \A c \in Callers :
        /\ pc[c] # "idle" => frame[c] /\ job[c] = [c |-> c, n |-> calls[c]]
        /\ pc[c] = "epoll" => set[c]
        /\ sub[c] = "pooled" /\ polled[c] => set[c]

\* The slot of c is about to be freed by t.
Freeing(t, c) == pool = t /\ pc[t] = "release" /\ job[t].c = c

\* A subscription is still in the pool after its close callback, or after its
\* caller went on, only for as long as the thread that closed it takes to free
\* the slot.
PooledInv ==
    \A c \in Callers : sub[c] = "pooled" =>
        /\ ready[c] => \E t \in {c, SubThread} : Freeing(t, c)
        /\ pc[c] \in {"idle", "return"} => Freeing(SubThread, c)

\* The close callback runs for a subscription that is in the pool and whose
\* callback has not run before.
ClosingInv ==
    \A t \in Threads : pc[t] = "on_close" =>
        job[t].c \in Callers /\ Valid(job[t]) /\ ~ready[job[t].c]

\* What the subscription thread works on was polled, and still has the
\* response that was read if it is the same subscription.
ReaderInv ==
    LET j == job[SubThread]
    IN  pc[SubThread] # "idle" =>
          /\ j.c \in Callers /\ j.n <= calls[j.c]
          /\ Valid(j) => polled[j.c]
          /\ pc[SubThread] = "callback" /\ Valid(j) => stream[j.c] # <<>>

IInv ==
    /\ TypeOK
    /\ PoolInv
    /\ PlaceInv
    /\ CallInv
    /\ PooledInv
    /\ ClosingInv
    /\ ReaderInv

-----------------------------------------------------------------------------
\* No call has begun and nothing is in the pool.
LEMMA InitIInv == Init => IInv
BY CallAssumption, SMTT(30)
   DEF Init, IInv, TypeOK, PoolInv, PlaceInv, CallInv, PooledInv, ClosingInv,
       ReaderInv, Holding, Threads, Responses

\* The steps of one caller and of the server of its subscription.
LEMMA CallerSteps ==
    ASSUME IInv, NEW c \in Callers,
           Respond(c) \/ CloseConnection(c) \/ Subscribe(c) \/ SubscribeFails(c)
             \/ CallerStep(c) \/ SubFdReady(c)
    PROVE  IInv'
<1> USE CallAssumption DEF IInv, TypeOK, Threads, At, Go, poolVars, connVars, ctxVars
<1>1. CASE Respond(c)
  <2>1. TypeOK'
    BY <1>1, SMTT(30) DEF Respond, Responses
  <2>2. PoolInv' /\ PlaceInv' /\ CallInv' /\ PooledInv' /\ ClosingInv'
    BY SMTT(60), <1>1 DEF Respond, PoolInv, PlaceInv, CallInv, PooledInv, ClosingInv, Freeing, Valid
  <2>3. ReaderInv'
    <3>1. \A d \in Callers : stream[d] # <<>> => stream'[d] # <<>>
      BY SMTT(60), <1>1 DEF Respond, Responses
    <3> QED
      BY Zenon, <1>1, <3>1 DEF Respond, ReaderInv, Valid
  <2> HIDE DEF TypeOK
  <2> QED
    BY Zenon, <2>1, <2>2, <2>3
<1>2. CASE CloseConnection(c)
  <2>1. TypeOK'
    BY Zenon, <1>2 DEF CloseConnection
  <2>2. PoolInv' /\ PlaceInv' /\ CallInv' /\ PooledInv' /\ ClosingInv'
    BY SMTT(60), <1>2 DEF CloseConnection, PoolInv, PlaceInv, CallInv, PooledInv, ClosingInv, Freeing, Valid
  <2>3. ReaderInv'
    BY Zenon, <1>2 DEF CloseConnection, ReaderInv, Valid
  <2> HIDE DEF TypeOK
  <2> QED
    BY Zenon, <2>1, <2>2, <2>3
<1>3. CASE Subscribe(c)
  <2>1. TypeOK'
    BY SMTT(60), <1>3 DEF Subscribe, ToCall
  <2>2. PoolInv' /\ PlaceInv'
    BY Zenon, <1>3 DEF Subscribe, ToCall, PoolInv, PlaceInv, Holding
  <2>3. CallInv'
    BY SMTT(60), <1>3 DEF Subscribe, ToCall, CallInv, PlaceInv, Holding
  <2>4. PooledInv'
    BY SMTT(60), <1>3 DEF Subscribe, ToCall, PoolInv, PlaceInv, CallInv, PooledInv, ClosingInv,
           Holding, Freeing, Valid
  <2>5. ClosingInv'
    BY SMTT(60), <1>3 DEF Subscribe, ToCall, PoolInv, PlaceInv, CallInv, PooledInv, ClosingInv,
           ReaderInv, Holding, Freeing, Valid
  <2>6. ReaderInv'
    BY <1>3, SMTT(30) DEF Subscribe, ToCall, PlaceInv, ReaderInv, Holding, Valid
  <2> HIDE DEF TypeOK
  <2> QED
    BY Zenon, <2>1, <2>2, <2>3, <2>4, <2>5, <2>6
<1>4. CASE SubscribeFails(c)
  <2>1. TypeOK'
    BY <1>4, SMTT(30) DEF SubscribeFails, ToCall
  <2>2. PoolInv' /\ PlaceInv'
    BY Zenon, <1>4 DEF SubscribeFails, ToCall, PoolInv, PlaceInv, Holding
  <2>3. CallInv'
    BY SMTT(60), <1>4 DEF SubscribeFails, ToCall, CallInv, PlaceInv, Holding
  <2>4. PooledInv'
    BY SMTT(60), <1>4 DEF SubscribeFails, ToCall, PoolInv, PlaceInv, CallInv, PooledInv,
           ClosingInv, Holding, Freeing, Valid
  <2>5. ClosingInv'
    BY SMTT(60), <1>4 DEF SubscribeFails, ToCall, PoolInv, PlaceInv, CallInv, PooledInv,
           ClosingInv, ReaderInv, Holding, Freeing, Valid
  <2>6. ReaderInv'
    BY SMTT(60), <1>4 DEF SubscribeFails, ToCall, PlaceInv, ReaderInv, Holding, Valid
  <2> HIDE DEF TypeOK
  <2> QED
    BY Zenon, <2>1, <2>2, <2>3, <2>4, <2>5, <2>6
<1>5. CASE SetCallbacks(c)
  <2>1. TypeOK'
    BY Zenon, <1>5 DEF SetCallbacks
  <2>2. PoolInv' /\ PlaceInv'
    BY Zenon, <1>5 DEF SetCallbacks, PoolInv, PlaceInv, Holding
  <2>3. CallInv'
    BY SMTT(60), <1>5 DEF SetCallbacks, CallInv, PlaceInv, Holding
  <2>4. PooledInv'
    BY SMTT(60), <1>5 DEF SetCallbacks, PoolInv, PlaceInv, CallInv, PooledInv, ClosingInv,
           Holding, Freeing, Valid
  <2>5. ClosingInv'
    BY Zenon, <1>5 DEF SetCallbacks, PoolInv, PlaceInv, CallInv, PooledInv, ClosingInv,
           ReaderInv, Holding, Freeing, Valid
  <2>6. ReaderInv'
    BY Zenon, <1>5 DEF SetCallbacks, PlaceInv, ReaderInv, Holding, Valid
  <2> HIDE DEF TypeOK
  <2> QED
    BY Zenon, <2>1, <2>2, <2>3, <2>4, <2>5, <2>6
<1>6. CASE EpollAdd(c)
  <2>1. TypeOK'
    BY Zenon, <1>6 DEF EpollAdd
  <2>2. PoolInv' /\ PlaceInv'
    BY Zenon, <1>6 DEF EpollAdd, PoolInv, PlaceInv, Holding
  <2>3. CallInv'
    BY SMTT(60), <1>6 DEF EpollAdd, CallInv, PlaceInv, Holding
  <2>4. PooledInv'
    BY SMTT(60), <1>6 DEF EpollAdd, PoolInv, PlaceInv, CallInv, PooledInv, ClosingInv, Holding,
           Freeing, Valid
  <2>5. ClosingInv'
    BY SMTT(60), <1>6 DEF EpollAdd, PoolInv, PlaceInv, CallInv, PooledInv, ClosingInv,
           ReaderInv, Holding, Freeing, Valid
  <2>6. ReaderInv'
    BY SMTT(60), <1>6 DEF EpollAdd, PlaceInv, ReaderInv, Holding, Valid
  <2> HIDE DEF TypeOK
  <2> QED
    BY Zenon, <2>1, <2>2, <2>3, <2>4, <2>5, <2>6
<1>7. CASE EpollAddFails(c)
  <2>1. TypeOK'
    BY Zenon, <1>7 DEF EpollAddFails
  <2>2. PoolInv' /\ PlaceInv'
    BY Zenon, <1>7 DEF EpollAddFails, PoolInv, PlaceInv, Holding
  <2>3. CallInv'
    BY SMTT(60), <1>7 DEF EpollAddFails, CallInv, PlaceInv, Holding
  <2>4. PooledInv'
    BY SMTT(60), <1>7 DEF EpollAddFails, PoolInv, PlaceInv, CallInv, PooledInv, ClosingInv,
           Holding, Freeing, Valid
  <2>5. ClosingInv'
    BY SMTT(60), <1>7 DEF EpollAddFails, PoolInv, PlaceInv, CallInv, PooledInv, ClosingInv,
           ReaderInv, Holding, Freeing, Valid
  <2>6. ReaderInv'
    BY SMTT(60), <1>7 DEF EpollAddFails, PlaceInv, ReaderInv, Holding, Valid
  <2> HIDE DEF TypeOK
  <2> QED
    BY Zenon, <2>1, <2>2, <2>3, <2>4, <2>5, <2>6
<1>8. CASE Publish(c)
  <2>1. TypeOK'
    BY Zenon, <1>8 DEF Publish
  <2>2. PoolInv' /\ PlaceInv'
    BY Zenon, <1>8 DEF Publish, PoolInv, PlaceInv, Holding
  <2>3. CallInv'
    BY Zenon, <1>8 DEF Publish, CallInv, PlaceInv, Holding
  <2>4. PooledInv'
    BY SMTT(60), <1>8 DEF Publish, PoolInv, PlaceInv, CallInv, PooledInv, ClosingInv, Holding,
           Freeing, Valid
  <2>5. ClosingInv'
    BY Zenon, <1>8 DEF Publish, PoolInv, PlaceInv, CallInv, PooledInv, ClosingInv,
           ReaderInv, Holding, Freeing, Valid
  <2>6. ReaderInv'
    BY Zenon, <1>8 DEF Publish, PlaceInv, ReaderInv, Holding, Valid
  <2> HIDE DEF TypeOK
  <2> QED
    BY Zenon, <2>1, <2>2, <2>3, <2>4, <2>5, <2>6
<1>9. CASE PublishFails(c)
  <2>1. TypeOK'
    BY Zenon, <1>9 DEF PublishFails, AfterFailedPublish
  <2>2. PoolInv' /\ PlaceInv'
    BY Zenon, <1>9 DEF PublishFails, AfterFailedPublish, PoolInv, PlaceInv, Holding
  <2>3. CallInv'
    BY Zenon, <1>9 DEF PublishFails, AfterFailedPublish, CallInv, PlaceInv, Holding
  <2>4. PooledInv'
    BY SMTT(60), <1>9 DEF PublishFails, AfterFailedPublish, PoolInv, PlaceInv, CallInv,
           PooledInv, ClosingInv, Holding, Freeing, Valid
  <2>5. ClosingInv'
    BY SMTT(60), <1>9 DEF PublishFails, AfterFailedPublish, PoolInv, PlaceInv, CallInv,
           PooledInv, ClosingInv, ReaderInv, Holding, Freeing, Valid
  <2>6. ReaderInv'
    BY Zenon, <1>9 DEF PublishFails, AfterFailedPublish, PlaceInv, ReaderInv, Holding,
           Valid
  <2> HIDE DEF TypeOK
  <2> QED
    BY Zenon, <2>1, <2>2, <2>3, <2>4, <2>5, <2>6
<1>10. CASE LockNotify(c)
  <2>1. TypeOK'
    BY Zenon, <1>10 DEF LockNotify
  <2>2. PoolInv' /\ PlaceInv'
    BY Zenon, <1>10 DEF LockNotify, PoolInv, PlaceInv, Holding
  <2>3. CallInv'
    BY Zenon, <1>10 DEF LockNotify, CallInv, PlaceInv, Holding
  <2>4. PooledInv'
    BY SMTT(60), <1>10 DEF LockNotify, PoolInv, PlaceInv, CallInv, PooledInv, ClosingInv,
           Holding, Freeing, Valid
  <2>5. ClosingInv'
    BY Zenon, <1>10 DEF LockNotify, PoolInv, PlaceInv, CallInv, PooledInv, ClosingInv,
           ReaderInv, Holding, Freeing, Valid
  <2>6. ReaderInv'
    BY Zenon, <1>10 DEF LockNotify, PlaceInv, ReaderInv, Holding, Valid
  <2> HIDE DEF TypeOK
  <2> QED
    BY Zenon, <2>1, <2>2, <2>3, <2>4, <2>5, <2>6
<1>11. CASE TestReady(c)
  <2>1. TypeOK'
    BY Zenon, <1>11 DEF TestReady
  <2>2. PoolInv' /\ PlaceInv'
    BY Zenon, <1>11 DEF TestReady, PoolInv, PlaceInv, Holding
  <2>3. CallInv'
    BY Zenon, <1>11 DEF TestReady, CallInv, PlaceInv, Holding
  <2>4. PooledInv'
    BY SMTT(60), <1>11 DEF TestReady, PoolInv, PlaceInv, CallInv, PooledInv, ClosingInv,
           Holding, Freeing, Valid
  <2>5. ClosingInv'
    BY Zenon, <1>11 DEF TestReady, PoolInv, PlaceInv, CallInv, PooledInv, ClosingInv,
           ReaderInv, Holding, Freeing, Valid
  <2>6. ReaderInv'
    BY Zenon, <1>11 DEF TestReady, PlaceInv, ReaderInv, Holding, Valid
  <2> HIDE DEF TypeOK
  <2> QED
    BY Zenon, <2>1, <2>2, <2>3, <2>4, <2>5, <2>6
<1>12. CASE TimedWaitExpires(c)
  <2>1. TypeOK'
    BY Zenon, <1>12 DEF TimedWaitExpires, TimedOut, ETIMEDOUT, EINTR
  <2>2. PoolInv' /\ PlaceInv'
    BY SMTT(60), <1>12 DEF TimedWaitExpires, TimedOut, ETIMEDOUT, EINTR, PoolInv, PlaceInv,
           Holding
  <2>3. CallInv'
    BY Zenon, <1>12 DEF TimedWaitExpires, TimedOut, ETIMEDOUT, EINTR, CallInv, PlaceInv,
           Holding
  <2>4. PooledInv'
    BY SMTT(60), <1>12 DEF TimedWaitExpires, TimedOut, ETIMEDOUT, EINTR, PoolInv, PlaceInv,
           CallInv, PooledInv, ClosingInv, Holding, Freeing, Valid
  <2>5. ClosingInv'
    BY SMTT(60), <1>12 DEF TimedWaitExpires, TimedOut, ETIMEDOUT, EINTR, PoolInv, PlaceInv,
           CallInv, PooledInv, ClosingInv, ReaderInv, Holding, Freeing, Valid
  <2>6. ReaderInv'
    BY Zenon, <1>12 DEF TimedWaitExpires, TimedOut, ETIMEDOUT, EINTR, PlaceInv, ReaderInv,
           Holding, Valid
  <2> HIDE DEF TypeOK
  <2> QED
    BY Zenon, <2>1, <2>2, <2>3, <2>4, <2>5, <2>6
<1>13. CASE Return(c)
  <2>1. TypeOK'
    BY Zenon, <1>13 DEF Return
  <2>2. PoolInv' /\ PlaceInv'
    BY Zenon, <1>13 DEF Return, PoolInv, PlaceInv, Holding
  <2>3. CallInv'
    BY SMTT(60), <1>13 DEF Return, CallInv, PlaceInv, Holding
  <2>4. PooledInv'
    BY SMTT(60), <1>13 DEF Return, PoolInv, PlaceInv, CallInv, PooledInv, ClosingInv, Holding,
           Freeing, Valid
  <2>5. ClosingInv'
    BY Zenon, <1>13 DEF Return, PoolInv, PlaceInv, CallInv, PooledInv, ClosingInv,
           ReaderInv, Holding, Freeing, Valid
  <2>6. ReaderInv'
    BY Zenon, <1>13 DEF Return, PlaceInv, ReaderInv, Holding, Valid
  <2> HIDE DEF TypeOK
  <2> QED
    BY Zenon, <2>1, <2>2, <2>3, <2>4, <2>5, <2>6
<1>14. CASE SubFdReady(c)
  <2>1. TypeOK'
    BY Zenon, <1>14 DEF SubFdReady
  <2>2. PoolInv' /\ PlaceInv'
    BY Zenon, <1>14 DEF SubFdReady, PoolInv, PlaceInv, Holding
  <2>3. CallInv'
    BY SMTT(60), <1>14 DEF SubFdReady, CallInv, PlaceInv, Holding
  <2>4. PooledInv'
    BY SMTT(60), <1>14 DEF SubFdReady, PoolInv, PlaceInv, CallInv, PooledInv, ClosingInv,
           Holding, Freeing, Valid
  <2>5. ClosingInv'
    BY Zenon, <1>14 DEF SubFdReady, PoolInv, PlaceInv, CallInv, PooledInv, ClosingInv,
           ReaderInv, Holding, Freeing, Valid
  <2>6. ReaderInv'
    BY SMTT(60), <1>14 DEF SubFdReady, PlaceInv, ReaderInv, Holding, Valid
  <2> HIDE DEF TypeOK
  <2> QED
    BY Zenon, <2>1, <2>2, <2>3, <2>4, <2>5, <2>6
<1> HIDE DEF IInv, TypeOK
<1> QED
  BY Zenon, <1>1, <1>2, <1>3, <1>4, <1>5, <1>6, <1>7, <1>8, <1>9, <1>10, <1>11, <1>12, <1>13, <1>14 DEF CallerStep

\* Closing a subscription, by whichever thread does it.
LEMMA ThreadSteps ==
    ASSUME IInv, NEW t \in Threads, CloseStep(t) PROVE IInv'
<1> USE CallAssumption DEF IInv, TypeOK, Threads, At, Go, poolVars, connVars, ctxVars
<1>1. CASE CloseSub(t)
  <2>1. TypeOK'
    <3>1. pool' \in Threads \cup {NoThread}
      BY Zenon, <1>1 DEF CloseSub
    <3>2. pc' \in [Threads -> {"idle", "callbacks", "epoll", "publish", "lock",
                              "test", "waiting", "return", "close", "on_close",
                              "release", "read", "callback"}]
      <4>1. \E p \in {"on_close", "idle", "return"} : pc' = [pc EXCEPT ![t] = p]
        BY Zenon, <1>1 DEF CloseSub, Closed
      <4> QED BY Zenon, <4>1
    <3> QED
      BY Zenon, <1>1, <3>1, <3>2 DEF CloseSub
  <2>2. PoolInv' /\ PlaceInv'
    <3>1. CASE Valid(job[t])
      BY SMTT(60), <1>1, <3>1 DEF CloseSub, PoolInv, PlaceInv, Holding
    <3>2. CASE ~Valid(job[t])
      BY SMTT(60), <1>1, <3>2 DEF CloseSub, Closed, PoolInv, PlaceInv, Holding
    <3> QED BY Zenon, <3>1, <3>2
  <2>3. CallInv'
    BY SMTT(60), <1>1 DEF CloseSub, Closed, CallInv, PlaceInv, Holding
  <2>4. PooledInv'
    BY SMTT(60), <1>1 DEF CloseSub, Closed, PoolInv, PlaceInv, CallInv, PooledInv, ClosingInv,
           Holding, Freeing, Valid
  <2>5. ClosingInv'
    BY <1>1, SMTT(30) DEF CloseSub, Closed, PoolInv, PlaceInv, CallInv, PooledInv, ClosingInv,
           ReaderInv, Holding, Freeing, Valid
  <2>6. ReaderInv'
    BY SMTT(60), <1>1 DEF CloseSub, Closed, PlaceInv, ReaderInv, Holding, Valid
  <2> HIDE DEF TypeOK
  <2> QED
    BY Zenon, <2>1, <2>2, <2>3, <2>4, <2>5, <2>6
<1>2. CASE OnClose(t)
  <2>1. TypeOK'
    BY Zenon, <1>2 DEF OnClose, Signal
  <2>2. PoolInv' /\ PlaceInv'
    BY <1>2, SMTT(30) DEF OnClose, Signal, PoolInv, PlaceInv, Holding
  <2>3. CallInv'
    BY SMTT(60), <1>2 DEF OnClose, Signal, CallInv, PlaceInv, Holding
  <2>4. PooledInv'
    BY SMTT(60), <1>2 DEF OnClose, Signal, PoolInv, PlaceInv, CallInv, PooledInv, ClosingInv,
           Holding, Freeing, Valid
  <2>5. ClosingInv'
    BY SMTT(60), <1>2 DEF OnClose, Signal, PoolInv, PlaceInv, CallInv, PooledInv, ClosingInv,
           ReaderInv, Holding, Freeing, Valid
  <2>6. ReaderInv'
    BY Zenon, <1>2 DEF OnClose, Signal, PlaceInv, ReaderInv, Holding, Valid
  <2> HIDE DEF TypeOK
  <2> QED
    BY Zenon, <2>1, <2>2, <2>3, <2>4, <2>5, <2>6
<1>3. CASE Release(t)
  <2>1. TypeOK'
    BY Zenon, <1>3 DEF Release, Closed
  <2>2. PoolInv' /\ PlaceInv'
    BY Zenon, <1>3 DEF Release, Closed, PoolInv, PlaceInv, Holding
  <2>3. CallInv'
    BY SMTT(60), <1>3 DEF Release, Closed, CallInv, PlaceInv, Holding
  <2>4. PooledInv'
    BY SMTT(60), <1>3 DEF Release, Closed, PoolInv, PlaceInv, CallInv, PooledInv, ClosingInv,
           Holding, Freeing, Valid
  <2>5. ClosingInv'
    BY SMTT(60), <1>3 DEF Release, Closed, PoolInv, PlaceInv, CallInv, PooledInv, ClosingInv,
           ReaderInv, Holding, Freeing, Valid
  <2>6. ReaderInv'
    BY SMTT(60), <1>3 DEF Release, Closed, PlaceInv, ReaderInv, Holding, Valid
  <2> HIDE DEF TypeOK
  <2> QED
    BY Zenon, <2>1, <2>2, <2>3, <2>4, <2>5, <2>6
<1> HIDE DEF IInv, TypeOK
<1> QED
  BY Zenon, <1>1, <1>2, <1>3 DEF CloseStep

\* The subscription thread reads a response and hands it to the callback.
LEMMA ReaderSteps ==
    ASSUME IInv, ReadResponse \/ OnResponse PROVE IInv'
<1> USE CallAssumption DEF IInv, TypeOK, Threads, At, Go, poolVars, connVars, ctxVars
<1>1. CASE ReadResponse
  <2>1. TypeOK'
    BY Zenon, <1>1 DEF ReadResponse
  <2>2. PoolInv' /\ PlaceInv'
    BY Zenon, <1>1 DEF ReadResponse, PoolInv, PlaceInv, Holding
  <2>3. CallInv'
    BY Zenon, <1>1 DEF ReadResponse, CallInv, PlaceInv, Holding
  <2>4. PooledInv'
    BY <1>1, SMTT(30) DEF ReadResponse, PoolInv, PlaceInv, CallInv, PooledInv, ClosingInv,
           Holding, Freeing, Valid
  <2>5. ClosingInv'
    BY Zenon, <1>1 DEF ReadResponse, PoolInv, PlaceInv, CallInv, PooledInv, ClosingInv,
           ReaderInv, Holding, Freeing, Valid
  <2>6. ReaderInv'
    BY Zenon, <1>1 DEF ReadResponse, PlaceInv, ReaderInv, Holding, Valid
  <2> HIDE DEF TypeOK
  <2> QED
    BY Zenon, <2>1, <2>2, <2>3, <2>4, <2>5, <2>6
<1>2. CASE OnResponse
  <2>1. TypeOK'
    <3> DEFINE j == job[SubThread]
    <3>1. j.c \in Callers
      BY Zenon, <1>2 DEF OnResponse, ReaderInv
    <3>2. CASE ~Valid(j)
      BY Zenon, <1>2, <3>1, <3>2 DEF OnResponse, MayCall
    <3>3. CASE Valid(j)
      <4>1. stream[j.c] \in Seq(Responses) /\ stream[j.c] # <<>>
        BY Zenon, <1>2, <3>1, <3>3 DEF OnResponse, ReaderInv
      <4>2. Tail(stream[j.c]) \in Seq(Responses)
        BY SMTT(60), <4>1
      <4>3. stream' \in [Callers -> Seq(Responses)]
        <5>1. stream' = [stream EXCEPT ![j.c] = Tail(stream[j.c])]
          BY Zenon, <1>2, <3>3 DEF OnResponse, MayCall
        <5> HIDE DEF j
        <5> QED BY Zenon, <4>2, <5>1
      <4>4. ret' \in [Callers -> {"failure", "ok"}]
        <5>1. ret' = ret \/ ret' = [ret EXCEPT ![j.c] = "ok"]
          BY Zenon, <1>2, <3>3 DEF OnResponse, MayCall
        <5>2. ret \in [Callers -> {"failure", "ok"}]
          BY Zenon
        <5> HIDE DEF j, IInv
        <5> QED BY Zenon, <5>1, <5>2
      <4>5. pool' \in Threads \cup {NoThread}
        BY Zenon, <1>2, <3>3 DEF OnResponse, MayCall
      <4>6. \E p \in {"idle", "on_close"} : pc' = [pc EXCEPT ![SubThread] = p]
        BY Zenon, <1>2, <3>3 DEF OnResponse, MayCall
      <4> QED
        BY SMTT(60), <1>2, <4>3, <4>4, <4>5, <4>6 DEF OnResponse
    <3> QED BY Zenon, <3>2, <3>3
  <2>2. PoolInv' /\ PlaceInv'
    BY SMTT(60), <1>2 DEF OnResponse, MayCall, Skips, Responses, PoolInv, PlaceInv, Holding
  <2>3. CallInv'
    BY <1>2, SMTT(30) DEF OnResponse, MayCall, Skips, Responses, CallInv, PlaceInv, Holding
  <2>4. PooledInv'
    BY <1>2, SMTT(30) DEF OnResponse, MayCall, Skips, Responses, PoolInv, PlaceInv, CallInv,
           PooledInv, ClosingInv, Holding, Freeing, Valid
  <2>5. ClosingInv'
    BY <1>2, SMTT(30) DEF OnResponse, MayCall, Skips, Responses, PoolInv, PlaceInv, CallInv,
           PooledInv, ClosingInv, ReaderInv, Holding, Freeing, Valid
  <2>6. ReaderInv'
    BY SMTT(60), <1>2 DEF OnResponse, MayCall, Skips, Responses, PlaceInv, ReaderInv, Holding,
           Valid
  <2> HIDE DEF TypeOK
  <2> QED
    BY Zenon, <2>1, <2>2, <2>3, <2>4, <2>5, <2>6
<1> HIDE DEF IInv, TypeOK
<1> QED
  BY Zenon, <1>1, <1>2

\* Every step keeps the invariant.
LEMMA NextIInv == IInv /\ [Next]_vars => IInv'
<1> SUFFICES ASSUME IInv, [Next]_vars PROVE IInv'
  BY Zenon
<1>1. CASE Next
  BY <1>1, CallerSteps, ThreadSteps, ReaderSteps, SMTT(30) DEF Next, SubStep
<1>2. CASE UNCHANGED vars
  BY <1>2, SMTT(30)
     DEF vars, IInv, TypeOK, PoolInv, PlaceInv, CallInv, PooledInv, ClosingInv,
         ReaderInv, Holding, Freeing, Valid
<1> QED
  BY Zenon, <1>1, <1>2

\* The invariant holds in every state of the calls.
THEOREM Invariance == Spec => []IInv
BY InitIInv, NextIInv, PTL DEF Spec

\* A caller's frame, with the context of its callbacks, outlives the callbacks
\* of its subscription, for any number of callers and calls: the close callback
\* runs before the slot is freed, and until then the caller cannot have gone on
\* past its wait (call_close_callback, subscription_close_callback).
THEOREM ContextStaysInScope == Spec => []ContextInScope
<1>1. ASSUME IInv PROVE ContextInScope
  <2>1. ASSUME NEW t \in Threads, At(t, "on_close")
        PROVE  frame[job[t].c] /\ calls[job[t].c] = job[t].n
    <3>1. /\ pool = t
          /\ job[t].c \in Callers /\ Valid(job[t])
      BY Zenon, <1>1, <2>1 DEF IInv, PoolInv, ClosingInv, Holding, At
    <3>2. pc[job[t].c] \notin {"idle", "return"}
      BY Zenon, <1>1, <2>1, <3>1 DEF IInv, PooledInv, Freeing, Valid, At
    <3> QED
      BY Zenon, <1>1, <3>1, <3>2 DEF IInv, CallInv, Valid
  <2>2. ASSUME NEW c \in Callers, sub[c] = "pooled", pool = NoThread
        PROVE  frame[c]
    BY Zenon, <1>1, <2>2, CallAssumption DEF IInv, PooledInv, CallInv, Freeing
  <2> QED
    BY Zenon, <1>1, <2>1, <2>2 DEF ContextInScope, IInv
<1> QED
  BY Invariance, <1>1, PTL

\* A response reaches the callback only while its subscription is in the pool
\* with its callbacks set and before its close callback, whatever the other
\* threads do between the reading of the response and the call
\* (get_subscription_response, call_on_response_callback).
THEOREM CallbackOnlyWhileOpen == Spec => OnlyWhileOpen
<1> DEFINE Shrinks(c) == calls'[c] = calls[c] /\ Len(stream'[c]) < Len(stream[c])
           Open(c) == sub[c] = "pooled" /\ set[c] /\ ~ready[c]
<1>1. ASSUME IInv, Next, NEW c \in Callers, Shrinks(c) PROVE Open(c)
  <2>1. stream[c] \in Seq(Responses) /\ calls[c] \in Nat
    BY SMTT(60), <1>1, CallAssumption DEF IInv, TypeOK
  <2>2. ASSUME NEW d \in Callers, Subscribe(d) PROVE FALSE
    BY SMTT(60), <1>1, <2>1, <2>2 DEF Subscribe, ToCall, IInv, TypeOK
  <2>3. ASSUME NEW d \in Callers, Respond(d) PROVE FALSE
    <3>1. stream' = stream \/ \E r \in Responses : stream'[c] = Append(stream[c], r)
                           \/ stream'[c] = stream[c]
      BY SMTT(60), <1>1, <2>3 DEF Respond, IInv, TypeOK
    <3> QED BY SMTT(60), <1>1, <2>1, <3>1
  <2>4. ASSUME UNCHANGED stream PROVE FALSE
    <3>1. Len(stream[c]) \in Nat
      BY SMTT(60), <2>1
    <3> QED BY SMTT(60), <1>1, <2>4, <3>1
  <2>5. CASE OnResponse
    <3>1. c = job[SubThread].c /\ Valid(job[SubThread]) /\ pool = NoThread
      BY SMTT(60), <1>1, <2>1, <2>5 DEF OnResponse, MayCall, IInv, TypeOK
    <3> QED
      BY SMTT(60), <1>1, <2>5, <3>1, CallAssumption
         DEF IInv, TypeOK, PoolInv, CallInv, PooledInv, ReaderInv, OnResponse, At,
             Holding, Freeing, Valid, Threads
  <2> QED
    BY SMTT(60), <1>1, <2>2, <2>3, <2>4, <2>5
       DEF Next, SubscribeFails, CallerStep, SetCallbacks, EpollAdd, EpollAddFails,
           Publish, PublishFails, LockNotify, TestReady, TimedWaitExpires, Return,
           CloseConnection, CloseStep, CloseSub, OnClose, Release, SubStep,
           ReadResponse, SubFdReady, connVars
<1>2. ASSUME IInv, UNCHANGED vars, NEW c \in Callers, Shrinks(c) PROVE FALSE
  <2>1. Len(stream[c]) \in Nat
    BY SMTT(60), <1>2 DEF IInv, TypeOK
  <2>2. stream' = stream
    BY Zenon, <1>2 DEF vars
  <2> QED BY SMTT(60), <1>2, <2>1, <2>2
<1>3. IInv /\ [Next]_vars => [\A c \in Callers : Shrinks(c) => Open(c)]_vars
  BY Zenon, <1>1, <1>2
<1> QED
  BY Invariance, <1>3, PTL DEF Spec, OnlyWhileOpen
============================================================================
