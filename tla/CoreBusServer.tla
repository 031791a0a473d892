--------------------------- MODULE CoreBusServer ---------------------------
(***************************************************************************)
(* The server side of the core bus (core-bus/src/server.c): how requests   *)
(* of clients reach a daemon's handlers, and how call responses,           *)
(* subscription accepts, subscription responses and errors reach clients.  *)
(*                                                                         *)
(* One thread runs ggl_listen and calls the handlers; the daemon's other   *)
(* threads (Responders) send subscription responses at any time to the     *)
(* handles the daemon has registered, and a handler may send them too.     *)
(* current_handle is what keeps a responder from overtaking the accept     *)
(* message of the subscription whose handler still runs.                   *)
(*                                                                         *)
(* A handle is a connection's identity and is never reused: that a stale   *)
(* handle is rejected is what SocketPool shows.  Each pool operation is    *)
(* one step, as it runs under pool.mtx.  Clients follow client_common.c:   *)
(* one request per connection.                                             *)
(***************************************************************************)
EXTENDS Naturals, Sequences, FiniteSets

CONSTANTS
    Handles,     \* connections made in one behaviour (bound)
    MaxFds,      \* pool.max_fds
    Server,      \* the thread running ggl_listen
    Responders,  \* other threads that call ggl_sub_respond
    Requests,    \* the kinds of request clients send
    Chunks,      \* partial writes needed for one message
    MaxUpdates,  \* bound: calls of ggl_sub_respond in one behaviour
    NoThread, NoHandle

ASSUME ServerAssumption ==
    /\ Server \notin Responders
    /\ NoThread \notin Responders \cup {Server}
    /\ NoHandle \notin Handles
    /\ MaxFds \in Nat /\ Chunks \in Nat \ {0} /\ MaxUpdates \in Nat
    /\ Requests \subseteq
         {"call", "notify", "subscribe", "malformed", "truncated"}

VARIABLES
    conn,        \* handle -> "none", "live" (in the pool) or "released"
    peer,        \* handle -> whether the client still has its end open
    inbox,       \* handle -> the request not yet read, or "none"
    rtype,       \* client_request_types
    cleanup,     \* subscription_cleanup: whether a close callback is set
    current,     \* current_handle
    curMtx,      \* holder of current_handle_mtx
    encode,      \* holder of encode_array_mtx
    th,          \* thread -> its position, see ThreadState
    req,         \* the handle client_ready is handling
    registered,  \* the daemon's table of subscription handles
    wire,        \* handle -> pieces of messages written to the client
    closes,      \* history: handle -> calls of the close callback
    updates      \* history: calls of ggl_sub_respond

poolVars == <<conn, cleanup, rtype>>
clientVars == <<peer, inbox>>
appVars == <<registered, closes>>
vars == <<conn, peer, inbox, rtype, cleanup, current, curMtx, encode, th, req,
          registered, wire, closes, updates>>

Threads == Responders \cup {Server}
Messages == {"none", "accepted", "response", "error", "update"}
Places == {"idle", "read", "dispatch", "drop", "handler", "respond",
           "accept", "handled", "check", "wait", "waitlock", "recheck",
           "condwait", "asleep", "lock", "write", "close", "clear"}

\* pc: where the thread is; hd: the handle it works on; msg: what it sends;
\* part: pieces written; back: where ggl_sub_respond returns to.
ThreadState == [pc : Places, hd : Handles \cup {NoHandle}, msg : Messages,
                part : 0..Chunks, back : {"idle", "handler", "handled"}]

Idle == [pc |-> "idle", hd |-> NoHandle, msg |-> "none", part |-> 0,
         back |-> "idle"]

Init ==
    /\ conn = [h \in Handles |-> "none"]
    /\ peer = [h \in Handles |-> TRUE]
    /\ inbox = [h \in Handles |-> "none"]
    /\ rtype = [h \in Handles |-> "call"]
    /\ cleanup = [h \in Handles |-> FALSE]
    /\ current = NoHandle
    /\ curMtx = NoThread
    /\ encode = NoThread
    /\ th = [t \in Threads |-> Idle]
    /\ req = NoHandle
    /\ registered = {}
    /\ wire = [h \in Handles |-> <<>>]
    /\ closes = [h \in Handles |-> 0]
    /\ updates = 0

Live == {h \in Handles : conn[h] = "live"}
Valid(h) == conn[h] = "live"
At(t, place) == th[t].pc = place
Go(t, place) == th' = [th EXCEPT ![t].pc = place]

\* Return from ggl_sub_respond: to the caller in a responder, to the handler
\* in the server thread, whose own request is req.
Returned(t) ==
    IF t = Server THEN [Idle EXCEPT !.pc = th[t].back, !.hd = req] ELSE Idle

-----------------------------------------------------------------------------
(* Clients, and the listening socket *)

\* A client connects and sends its request (ggl_client_send_message); the
\* server accepts and registers the connection and resets the slot's state.
NewClient(h) ==
    /\ At(Server, "idle") /\ conn[h] = "none"
    /\ Cardinality(Live) < MaxFds
    /\ \E r \in Requests : inbox' = [inbox EXCEPT ![h] = r]
    /\ conn' = [conn EXCEPT ![h] = "live"]
    /\ rtype' = [rtype EXCEPT ![h] = "call"]
    /\ cleanup' = [cleanup EXCEPT ![h] = FALSE]
    /\ UNCHANGED <<peer, current, curMtx, encode, th, req, appVars, wire,
                   updates>>

\* The new connection is closed at once: the pool is full, or the socket cannot
\* be given its timeouts or be added to the epoll set.
ClientRefused(h) ==
    /\ At(Server, "idle") /\ conn[h] = "none"
    /\ conn' = [conn EXCEPT ![h] = "released"]
    /\ UNCHANGED <<clientVars, rtype, cleanup, current, curMtx, encode, th,
                   req, appVars, wire, updates>>

\* The client closes its end; what it has sent can still be read.
Disconnect(h) ==
    /\ conn[h] = "live" /\ peer[h]
    /\ peer' = [peer EXCEPT ![h] = FALSE]
    /\ UNCHANGED <<inbox, poolVars, current, curMtx, encode, th, req, appVars,
                   wire, updates>>

-----------------------------------------------------------------------------
(* client_ready: from the epoll event to the handler *)

\* epoll reports a connection.  A responder may close it before it is read.
ClientReady(h) ==
    /\ At(Server, "idle") /\ Valid(h)
    /\ inbox[h] # "none" \/ ~peer[h]
    /\ th' = [th EXCEPT ![Server] = [Idle EXCEPT !.pc = "read", !.hd = h]]
    /\ req' = h
    /\ UNCHANGED <<clientVars, poolVars, current, curMtx, encode, appVars,
                   wire, updates>>

Fail == [th[Server] EXCEPT !.pc = "lock", !.msg = "error"]

\* Read, decode, and store the request type.  A failed read (end of stream,
\* receive timeout, released handle) drops the connection; a request that does
\* not decode, lacks a header or has a wrong payload is answered with an
\* error.  No other thread knows the handle of a connection not yet dispatched,
\* so nothing comes between these.
ReadRequest ==
    LET got == IF Valid(req) THEN inbox[req] ELSE "none"
    IN  /\ At(Server, "read")
        /\ inbox' = [inbox EXCEPT ![req] = "none"]
        /\ th' = [th EXCEPT ![Server] =
                    CASE got \in {"none", "truncated"} -> [@ EXCEPT !.pc = "drop"]
                      [] got = "malformed" -> Fail
                      [] OTHER -> [@ EXCEPT !.pc = "dispatch"]]
        /\ rtype' = IF got \in {"call", "notify", "subscribe"}
                      THEN [rtype EXCEPT ![req] = got] ELSE rtype
        /\ UNCHANGED <<conn, peer, cleanup, current, curMtx, encode, req,
                       appVars, wire, updates>>

\* The method is found: current_handle is set and the handler called.
Dispatch ==
    /\ At(Server, "dispatch")
    /\ current' = req
    /\ Go(Server, "handler")
    /\ UNCHANGED <<clientVars, poolVars, curMtx, encode, req, appVars, wire,
                   updates>>

\* No handler has the name, or the one that has it is of the other kind.
DispatchFails ==
    /\ At(Server, "dispatch")
    /\ th' = [th EXCEPT ![Server] = Fail]
    /\ UNCHANGED <<clientVars, poolVars, current, curMtx, encode, req, appVars,
                   wire, updates>>

-----------------------------------------------------------------------------
(* The daemon's handlers, within the contract stated in server.h: respond or *)
(* accept and return GGL_ERR_OK, or return an error having done neither.     *)

IsSubscription == rtype[req] = "subscribe"

\* A subscription's handle is saved before it is accepted (iotcored,
\* ggpubsubd, gghealthd all do).
HandlerRegisters ==
    /\ At(Server, "handler") /\ IsSubscription /\ req \notin registered
    /\ registered' = registered \cup {req}
    /\ UNCHANGED <<clientVars, poolVars, current, curMtx, encode, th, req, wire,
                   closes, updates>>

\* The handler calls ggl_respond or ggl_sub_accept.
HandlerSucceeds ==
    /\ At(Server, "handler")
    /\ IsSubscription => req \in registered
    /\ Go(Server, IF IsSubscription THEN "accept" ELSE "respond")
    /\ UNCHANGED <<clientVars, poolVars, current, curMtx, encode, req, appVars,
                   wire, updates>>

\* The handler takes its registration back and returns an error.
HandlerFails ==
    /\ At(Server, "handler")
    /\ registered' = registered \ {req}
    /\ th' = [th EXCEPT ![Server] = Fail]
    /\ UNCHANGED <<clientVars, poolVars, current, curMtx, encode, req, wire,
                   closes, updates>>

\* The handler returns GGL_ERR_OK.
HandlerReturns ==
    /\ At(Server, "handled")
    /\ th' = [th EXCEPT ![Server] = Idle]
    /\ req' = NoHandle
    /\ UNCHANGED <<clientVars, poolVars, current, curMtx, encode, appVars, wire,
                   updates>>

\* ggl_sub_respond is called for a handle found in the daemon's table: by a
\* responder thread, or by a handler that publishes, before it responds to a
\* call or after it has accepted a subscription.
SubRespond(t, h) ==
    /\ th[t].pc \in IF t = Server THEN {"handler", "handled"} ELSE {"idle"}
    /\ h \in registered /\ updates < MaxUpdates
    /\ t = Server => h # current
    /\ th' = [th EXCEPT ![t] = [Idle EXCEPT !.pc = "check", !.hd = h,
                                            !.back = th[t].pc]]
    /\ updates' = updates + 1
    /\ UNCHANGED <<clientVars, poolVars, current, curMtx, encode, req, appVars,
                   wire>>

-----------------------------------------------------------------------------
(* Closing a handle: ggl_socket_handle_close with close_subscription *)

\* The daemon's close callback forgets the handle.
OnClose(h) ==
    /\ closes' = [closes EXCEPT ![h] = @ + 1]
    /\ registered' = registered \ {h}

\* Mutant of CloseSubscription: the callback is not called on release
SkipCloseSubscription(h) == UNCHANGED appVars

CloseSubscription(h) == IF cleanup[h] THEN OnClose(h) ELSE UNCHANGED appVars

CloseHandle(h) ==
    IF Valid(h)
      THEN conn' = [conn EXCEPT ![h] = "released"] /\ CloseSubscription(h)
      ELSE UNCHANGED <<conn, appVars>>

\* client_data_ready closes the handle when client_ready returns an error.
Drop ==
    /\ At(Server, "drop")
    /\ CloseHandle(req)
    /\ th' = [th EXCEPT ![Server] = Idle]
    /\ req' = NoHandle
    /\ UNCHANGED <<clientVars, rtype, cleanup, current, curMtx, encode, wire,
                   updates>>

\* ggl_server_sub_close, by a thread that has the handle of a subscription.
ServerSubClose(t, h) ==
    /\ t # Server /\ At(t, "idle") /\ h \in registered
    /\ CloseHandle(h)
    /\ UNCHANGED <<clientVars, rtype, cleanup, current, curMtx, encode, th, req,
                   wire, updates>>

-----------------------------------------------------------------------------
(* ggl_respond and ggl_sub_accept, up to their message *)

\* A notification gets no response, only the close.
Respond ==
    /\ At(Server, "respond")
    /\ LET next == IF ~Valid(req) THEN "clear"
                   ELSE IF rtype[req] = "notify" THEN "close" ELSE "lock"
       IN  th' = [th EXCEPT ![Server] = [@ EXCEPT !.pc = next, !.msg = "response"]]
    /\ UNCHANGED <<clientVars, poolVars, current, curMtx, encode, req, appVars,
                   wire, updates>>

\* The close callback is attached to the handle; if the handle was closed
\* meanwhile, it is called directly.
SubAccept ==
    /\ At(Server, "accept")
    /\ IF Valid(req)
         THEN cleanup' = [cleanup EXCEPT ![req] = TRUE] /\ UNCHANGED appVars
         ELSE OnClose(req) /\ UNCHANGED cleanup
    /\ LET next == IF Valid(req) THEN "lock" ELSE "clear"
       IN  th' = [th EXCEPT ![Server] = [@ EXCEPT !.pc = next, !.msg = "accepted"]]
    /\ UNCHANGED <<clientVars, conn, rtype, current, curMtx, encode, req, wire,
                   updates>>

-----------------------------------------------------------------------------
(* ggl_sub_respond, up to its message *)

CheckType(t) ==
    /\ At(t, "check")
    /\ th' = [th EXCEPT ![t] = IF Valid(@.hd) THEN [@ EXCEPT !.pc = "wait"]
                                              ELSE Returned(t)]
    /\ UNCHANGED <<clientVars, poolVars, current, curMtx, encode, req, appVars,
                   wire, updates>>

SendUpdate(t) == [th[t] EXCEPT !.pc = "lock", !.msg = "update"]

\* Mutant of IsCurrent: responses never wait for the handler
NeverCurrent(t) == FALSE

IsCurrent(t) == th[t].hd = current

\* wait_while_current_handle: a first look without the mutex ...
WaitWhileCurrentHandle(t) ==
    /\ At(t, "wait")
    /\ th' = [th EXCEPT ![t] = IF IsCurrent(t)
                                 THEN [@ EXCEPT !.pc = "waitlock"]
                                 ELSE SendUpdate(t)]
    /\ UNCHANGED <<clientVars, poolVars, current, curMtx, encode, req, appVars,
                   wire, updates>>

WaitLock(t) ==
    /\ At(t, "waitlock") /\ curMtx = NoThread
    /\ curMtx' = t
    /\ Go(t, "recheck")
    /\ UNCHANGED <<clientVars, poolVars, current, encode, req, appVars, wire,
                   updates>>

\* ... then a second under it ...
Recheck(t) ==
    /\ At(t, "recheck")
    /\ th' = [th EXCEPT ![t] = IF IsCurrent(t)
                                 THEN [@ EXCEPT !.pc = "condwait"]
                                 ELSE SendUpdate(t)]
    /\ curMtx' = IF IsCurrent(t) THEN t ELSE NoThread
    /\ UNCHANGED <<clientVars, poolVars, current, encode, req, appVars, wire,
                   updates>>

\* ... and pthread_cond_wait, which releases the mutex as it goes to sleep.
CondWait(t) ==
    /\ At(t, "condwait")
    /\ curMtx' = NoThread
    /\ Go(t, "asleep")
    /\ UNCHANGED <<clientVars, poolVars, current, encode, req, appVars, wire,
                   updates>>

-----------------------------------------------------------------------------
(* Sending one message, and what its sender does next *)

EncodeFree == encode = NoThread

LockEncode(t) ==
    /\ At(t, "lock") /\ EncodeFree
    /\ encode' = t
    /\ th' = [th EXCEPT ![t] = [@ EXCEPT !.pc = "write", !.part = 0]]
    /\ UNCHANGED <<clientVars, poolVars, current, curMtx, req, appVars, wire,
                   updates>>

\* The handle survives a sent accept and a sent subscription response.
KeptOpen(t, ok) == ok /\ th[t].msg \in {"accepted", "update"}

\* After the message: the scope guards run in reverse order of declaration, so
\* encode_array_mtx is released before the handle is closed; only
\* send_err_response closes the handle within its critical section.
Sent(t, ok) ==
    /\ encode' = IF th[t].msg = "error" THEN encode ELSE NoThread
    /\ th' = [th EXCEPT ![t] =
                IF ~KeptOpen(t, ok) THEN [@ EXCEPT !.pc = "close"]
                ELSE IF @.msg = "accepted" THEN [@ EXCEPT !.pc = "clear"]
                ELSE Returned(t)]

IsLast(n) == n = Chunks

\* ggl_socket_handle_write: pieces go out one by one, pool.mtx is released
\* between them.
Write(t) ==
    LET h == th[t].hd
        piece == [msg |-> th[t].msg, part |-> th[t].part + 1, by |-> t]
    IN  /\ At(t, "write") /\ Valid(h) /\ peer[h]
        /\ wire' = [wire EXCEPT ![h] = Append(@, piece)]
        /\ IF IsLast(piece.part)
             THEN Sent(t, TRUE)
             ELSE th' = [th EXCEPT ![t].part = piece.part] /\ UNCHANGED encode
        /\ UNCHANGED <<clientVars, poolVars, current, curMtx, req, appVars,
                       updates>>

\* The handle is no longer valid, the client is gone, the five second send
\* timeout expires, or (before the first piece) the value does not encode.
WriteFails(t) ==
    /\ At(t, "write")
    /\ Sent(t, FALSE)
    /\ UNCHANGED <<clientVars, poolVars, current, curMtx, req, appVars, wire,
                   updates>>

\* An error before the handler ran leaves current_handle alone: client_ready
\* returns.
Close(t) ==
    /\ At(t, "close")
    /\ CloseHandle(th[t].hd)
    /\ encode' = IF encode = t THEN NoThread ELSE encode
    /\ LET returns == th[t].msg = "error" /\ current = NoHandle
       IN  /\ th' = [th EXCEPT ![t] =
                       IF @.msg = "update" THEN Returned(t)
                       ELSE IF returns THEN Idle
                       ELSE [@ EXCEPT !.pc = "clear"]]
           /\ req' = IF t = Server /\ returns THEN NoHandle ELSE req
    /\ UNCHANGED <<clientVars, rtype, cleanup, curMtx, current, wire, updates>>

\* Mutant of CurrentFree: current_handle is cleared without the mutex
CurrentAlwaysFree == TRUE

CurrentFree == curMtx = NoThread

\* Mutant of ClearedHandle: current_handle keeps its value
ClearedKeeps == current

ClearedHandle == NoHandle

\* clear_current_handle, under current_handle_mtx, wakes every waiter.  It is
\* the last thing ggl_respond and ggl_sub_accept do, and what client_ready
\* does after an error response.
ClearCurrentHandle ==
    /\ At(Server, "clear") /\ CurrentFree
    /\ current' = ClearedHandle
    /\ LET failed == th[Server].msg = "error"
       IN  /\ th' = [t \in Threads |->
                       IF t = Server
                         THEN IF failed THEN Idle
                              ELSE [th[t] EXCEPT !.pc = "handled"]
                       ELSE IF At(t, "asleep")
                         THEN [th[t] EXCEPT !.pc = "waitlock"] ELSE th[t]]
           /\ req' = IF failed THEN NoHandle ELSE req
    /\ UNCHANGED <<clientVars, poolVars, curMtx, encode, appVars, wire, updates>>

-----------------------------------------------------------------------------

ServerStep ==
    \/ ReadRequest \/ Dispatch \/ DispatchFails
    \/ HandlerRegisters \/ HandlerSucceeds \/ HandlerFails \/ HandlerReturns
    \/ Respond \/ SubAccept \/ ClearCurrentHandle \/ Drop

Step(t) ==
    \/ CheckType(t) \/ WaitWhileCurrentHandle(t) \/ WaitLock(t) \/ Recheck(t)
    \/ CondWait(t)
    \/ LockEncode(t) \/ Write(t) \/ WriteFails(t) \/ Close(t)

Next ==
    \/ \E h \in Handles : NewClient(h) \/ ClientRefused(h) \/ Disconnect(h)
                          \/ ClientReady(h)
    \/ ServerStep
    \/ \E t \in Threads : Step(t)
    \/ \E t \in Threads, h \in Handles : SubRespond(t, h) \/ ServerSubClose(t, h)

Spec == Init /\ [][Next]_vars

\* Threads are scheduled, handlers return, and the send and receive timeouts
\* bound every transfer; nothing is assumed of clients or of callers.
FairSpec ==
    /\ Spec
    /\ WF_vars(ServerStep)
    /\ \A t \in Threads : WF_vars(Step(t))

-----------------------------------------------------------------------------
(* Properties *)

\* Every variable has its type.
TypeOK ==
    /\ conn \in [Handles -> {"none", "live", "released"}]
    /\ peer \in [Handles -> BOOLEAN]
    /\ inbox \in [Handles -> Requests \cup {"none"}]
    /\ rtype \in [Handles -> {"call", "notify", "subscribe"}]
    /\ cleanup \in [Handles -> BOOLEAN]
    /\ current \in Handles \cup {NoHandle}
    /\ curMtx \in Threads \cup {NoThread}
    /\ encode \in Threads \cup {NoThread}
    /\ th \in [Threads -> ThreadState]
    /\ req \in Handles \cup {NoHandle}
    /\ registered \subseteq Handles
    /\ wire \in [Handles -> Seq([msg : Messages, part : 1..Chunks,
                                 by : Threads])]
    /\ closes \in [Handles -> Nat]
    /\ updates \in 0..MaxUpdates

\* The client of a subscription sees the accept message before any response,
\* the client of a call sees one answer, and nothing follows an error, also
\* when responders race with the handler that registers, accepts or refuses
\* the subscription (current_handle, wait_while_current_handle, and closing
\* the handle before clearing it).
AcceptedFirst ==
    \A h \in Handles : \A i \in 1..Len(wire[h]) :
        IF wire[h][i].msg = "update"
          THEN /\ i > Chunks
               /\ \A j \in 1..Chunks : wire[h][j].msg = "accepted"
          ELSE i <= Chunks

\* A thread whose write to the handle failed is about to close it.
Closing(h) == \E t \in Threads : At(t, "close") /\ th[t].hd = h

\* Pieces written by two threads to one connection are never mixed
\* (encode_array_mtx is held over the partial writes), and a message cut short
\* by a failed write is followed by another only in the window in which its
\* writer has released encode_array_mtx and not yet closed the handle.
MessagesWhole ==
    \A h \in Handles : \A i \in 1..Len(wire[h]) :
        LET p == wire[h][i]
        IN  IF p.part = 1
              THEN \/ i = 1 \/ wire[h][i - 1].part = Chunks
                   \/ Closing(h) \/ conn[h] = "released"
              ELSE i > 1 /\ wire[h][i - 1] = [p EXCEPT !.part = @ - 1]

\* What a client reads makes sense to it: whole messages, in the order of the
\* protocol.
ClientSeesAnswers == AcceptedFirst /\ MessagesWhole

\* The assertions of server.c hold however responders interleave with the
\* handler: ggl_respond and ggl_sub_accept find their handle in
\* current_handle, a handler that returns GGL_ERR_OK leaves it cleared, a call
\* response never goes to a subscription, and a subscription response only to
\* a subscription.
AssertsHold ==
    /\ (At(Server, "respond") \/ At(Server, "accept")) => current = req
    /\ At(Server, "respond") => ~IsSubscription
    /\ At(Server, "handled") => current = NoHandle
    /\ \A t \in Threads :
          (At(t, "check") /\ Valid(th[t].hd)) => rtype[th[t].hd] = "subscribe"

\* The close callback given to ggl_sub_accept is called at most once, never
\* while the connection is usable, and has been called for every accepted
\* subscription whose handle was released, whoever released it: the server on
\* end of stream, a responder on a failed write, or ggl_server_sub_close before
\* the accept.
ClosedExactlyOnce ==
    \A h \in Handles :
        /\ closes[h] <= 1
        /\ closes[h] = 1 => conn[h] = "released"
        /\ (cleanup[h] /\ conn[h] = "released") => closes[h] = 1

\* A daemon's table holds a released handle only while the handler that
\* registered it is still running: no dead subscriptions are left behind.
TableIsLive ==
    \A h \in registered : conn[h] = "live" \/ (conn[h] = "released" /\ req = h)

\* A daemon hears of the end of each subscription once and forgets it then.
EntriesEndOnce == TypeOK /\ ClosedExactlyOnce /\ TableIsLive

\* Every request is disposed of and every ggl_sub_respond returns: responders
\* waiting for current_handle are woken, and no order of the mutexes blocks a
\* thread for ever.
EveryCallReturns ==
    \A t \in Threads : ~At(t, "idle") ~> At(t, "idle")

=============================================================================
