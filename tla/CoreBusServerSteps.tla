------------------------ MODULE CoreBusServerSteps -------------------------
(***************************************************************************)
(* The inductive invariant of the core bus server, and the steps that      *)
(* write nothing to a client: what clients do, the server thread on its    *)
(* way through a request, and ggl_sub_respond up to the write.  The last   *)
(* lemmas say what locking, failing, closing and writing do by themselves. *)
(***************************************************************************)
EXTENDS CoreBusServer, TLAPS

Waits == {"check", "wait", "waitlock", "recheck", "condwait", "asleep"}
Sends == {"lock", "write", "close"}

\* The thread is in ggl_sub_respond.
Updating(t) ==
    \/ th[t].pc \in Waits
    \/ th[t].pc \in Sends /\ th[t].msg = "update"

\* Where the server thread is in the request it handles.
Where == IF Updating(Server) THEN th[Server].back ELSE th[Server].pc

\* The whole accept message has been written.
Accepted(h) ==
    /\ Len(wire[h]) >= Chunks
    /\ \A j \in 1..Chunks : wire[h][j].msg = "accepted"

LastPiece(h) == wire[h][Len(wire[h])]

\* Responders do nothing but ggl_sub_respond, and the server thread works on
\* its request except within ggl_sub_respond, which it never calls for the
\* handle it would have to wait for.
PlaceInv ==
    /\ \A t \in Responders : th[t].pc = "idle" \/ Updating(t)
    /\ \A t \in Threads : Updating(t) => th[t].hd \in Handles
    /\ Updating(Server) => /\ th[Server].back \in {"handler", "handled"}
                           /\ th[Server].hd # current
    /\ Where # "idle" => req \in Handles
    /\ (Where # "idle" /\ ~Updating(Server)) => th[Server].hd = req
    /\ Where \in Sends \cup {"clear"} =>
         th[Server].msg \in {"accepted", "response", "error"}

\* current_handle is the request's handle from the call of the handler until
\* the request has been answered.
CurrentInv ==
    /\ Where \in {"handler", "respond", "accept", "clear"} => current = req
    /\ Where \in {"idle", "read", "dispatch", "drop", "handled"} => current = NoHandle
    /\ Where \in Sends => \/ current = req
                          \/ current = NoHandle /\ th[Server].msg = "error"

\* A connection whose request has not been read is known to nobody but the
\* server thread that is about to read it.
FreshInv ==
    /\ Where # "idle" => conn[req] # "none"
    /\ \A h \in Handles : (conn[h] = "none" \/ inbox[h] # "none") =>
         /\ h \notin registered /\ ~cleanup[h] /\ closes[h] = 0
         /\ wire[h] = <<>>
         /\ \A t \in Threads : Updating(t) => th[t].hd # h
         /\ req = h => Where \in {"idle", "read"}

\* Until the request is answered nothing has been sent, and then only the one
\* message the server thread is sending.  No other thread knows the handle
\* before the handler is called.  When current_handle is cleared the
\* connection is closed or accepted.
RequestInv ==
    /\ Where \in {"dispatch", "handler", "respond", "accept"} =>
         ~cleanup[req] /\ closes[req] = 0 /\ wire[req] = <<>>
    /\ (Where = "dispatch" \/ (Where \in Sends /\ current = NoHandle)) =>
         req \notin registered /\ \A t \in Threads : Updating(t) => th[t].hd # req
    /\ Where = "respond" => rtype[req] # "subscribe"
    /\ Where = "lock" => wire[req] = <<>>
    /\ Where = "write" => Len(wire[req]) = th[Server].part
    /\ Where \in Sends => /\ Len(wire[req]) <= Chunks
                          /\ \A i \in 1..Len(wire[req]) :
                               wire[req][i].msg = th[Server].msg
    /\ (Where = "close" /\ th[Server].msg = "accepted") => Len(wire[req]) < Chunks
    /\ Where = "clear" => \/ conn[req] = "released"
                          \/ th[Server].msg = "accepted" /\ Accepted(req)

\* The daemon's table holds subscriptions only: live ones with a close
\* callback, and the one whose handler has not accepted it yet.
TableInv ==
    \A h \in registered :
        /\ rtype[h] = "subscribe"
        /\ h = current \/ Accepted(h) \/ conn[h] = "released"
        /\ \/ cleanup[h] /\ conn[h] = "live"
           \/ req = h /\ Where \in {"handler", "accept"}

\* A subscription response that has got past wait_while_current_handle goes
\* to a subscription that was accepted, or to nobody.
UpdateInv ==
    \A t \in Threads : Updating(t) =>
        LET h == th[t].hd
        IN  /\ rtype[h] = "subscribe"
            /\ \/ h = current /\ th[t].pc \in Waits
               \/ Accepted(h) \/ conn[h] = "released"

\* The thread is within a critical section of encode_array_mtx.
Encodes(t) == At(t, "write") \/ (At(t, "close") /\ th[t].msg = "error")

\* encode_array_mtx is held over the parts of a message, and by
\* send_err_response until it has closed the handle.
EncodeInv == \A t \in Threads : encode = t <=> Encodes(t)

\* The last piece on the wire is the last that the writing thread has written.
WriteInv ==
    \A t \in Threads : At(t, "write") =>
        /\ th[t].part < Chunks
        /\ th[t].part > 0 =>
             /\ wire[th[t].hd] # <<>>
             /\ LastPiece(th[t].hd) =
                  [msg |-> th[t].msg, part |-> th[t].part, by |-> t]

\* A message is incomplete on a usable connection only while its writer is
\* writing it or about to close the handle.
TailInv ==
    \A h \in Handles :
        (conn[h] = "live" /\ wire[h] # <<>> /\ LastPiece(h).part # Chunks) =>
            \/ Closing(h)
            \/ \E t \in Threads : At(t, "write") /\ th[t].hd = h /\ th[t].part > 0

IInv ==
    /\ TypeOK
    /\ PlaceInv
    /\ CurrentInv
    /\ FreshInv
    /\ RequestInv
    /\ TableInv
    /\ UpdateInv
    /\ ClosedExactlyOnce
    /\ EncodeInv
    /\ WriteInv
    /\ TailInv
    /\ AcceptedFirst
    /\ MessagesWhole

-----------------------------------------------------------------------------
\* The values that a thread's record is given.
LEMMA StateType ==
    /\ Idle \in ThreadState
    /\ \A s \in ThreadState, p \in Places : [s EXCEPT !.pc = p] \in ThreadState
    /\ \A s \in ThreadState, p \in Places, m \in Messages :
         [s EXCEPT !.pc = p, !.msg = m] \in ThreadState
    /\ \A s \in ThreadState : [s EXCEPT !.pc = "write", !.part = 0] \in ThreadState
    /\ \A s \in ThreadState, n \in 0..Chunks : [s EXCEPT !.part = n] \in ThreadState
    /\ \A p \in Places, h \in Handles \cup {NoHandle} :
         [Idle EXCEPT !.pc = p, !.hd = h] \in ThreadState
<1>1. 0 \in 0..Chunks
  BY SMTT(60), ServerAssumption
<1>2. Idle \in ThreadState
  BY Zenon, <1>1 DEF Idle, ThreadState, Places, Messages
<1>3. \A s \in ThreadState : [s EXCEPT !.pc = "write", !.part = 0] \in ThreadState
  BY Zenon, <1>1 DEF ThreadState, Places
<1> QED
  BY Zenon, <1>2, <1>3 DEF ThreadState, Idle

\* A step of one thread changes only its own record.
LEMMA OneThread ==
    ASSUME TypeOK, NEW t \in Threads, NEW s \in ThreadState,
           th' = [th EXCEPT ![t] = s]
    PROVE  /\ th' \in [Threads -> ThreadState]
           /\ th'[t] = s
           /\ \A u \in Threads : u # t => th'[u] = th[u]
BY Zenon DEF TypeOK

\* A step that closes the handle h, and calls its close callback if it has one.
Releases(h) ==
    /\ conn' \in [Handles -> {"none", "live", "released"}]
    /\ conn'[h] = "released"
    /\ closes' \in [Handles -> Nat]
    /\ registered' \subseteq registered
    /\ ~cleanup[h] => closes'[h] = closes[h]
    /\ (cleanup[h] /\ Valid(h)) => h \notin registered'
    /\ \A g \in Handles : g # h => conn'[g] = conn[g] /\ closes'[g] = closes[g]
    /\ \A g \in registered : g # h => g \in registered'

\* CloseHandle releases the handle.
LEMMA CloseReturns ==
    ASSUME TypeOK, ClosedExactlyOnce, NEW h \in Handles, conn[h] # "none",
           CloseHandle(h), cleanup' = cleanup
    PROVE  Releases(h) /\ ClosedExactlyOnce'
<1> USE DEF Releases, CloseHandle, CloseSubscription, OnClose, Valid, appVars
<1>1. CASE Valid(h) /\ cleanup[h]
  <2>1. closes[h] = 0
    BY SMTT(60), <1>1 DEF ClosedExactlyOnce, TypeOK
  <2>2. /\ closes' = [closes EXCEPT ![h] = 1]
        /\ registered' = registered \ {h}
        /\ conn' = [conn EXCEPT ![h] = "released"]
    BY SMTT(60), <1>1, <2>1 DEF TypeOK
  <2> QED
    BY SMTT(60), <1>1, <2>1, <2>2 DEF TypeOK, ClosedExactlyOnce
<1>2. CASE Valid(h) /\ ~cleanup[h]
  BY ZenonT(60), <1>2 DEF TypeOK, ClosedExactlyOnce
<1>3. CASE ~Valid(h)
  <2>1. conn[h] = "released"
    BY Zenon, <1>3 DEF TypeOK
  <2> QED
    BY Zenon, <1>3, <2>1 DEF TypeOK, ClosedExactlyOnce
<1> QED
  BY Zenon, <1>1, <1>2, <1>3

\* The thread is writing, or about to close the handle it wrote to.
Writing(t) == At(t, "write") \/ At(t, "close")

\* Nothing is written and no thread begins or ends writing: what was said of
\* the messages on the wire still holds.
LEMMA SameMessages ==
    ASSUME AcceptedFirst, MessagesWhole, TailInv, EncodeInv, WriteInv,
           wire' = wire, encode' = encode,
           \A h \in Handles : conn'[h] = conn[h] \/ wire[h] = <<>> \/ conn'[h] = "released",
           \A t \in Threads : (Writing(t) \/ Encodes(t)') => th'[t] = th[t]
    PROVE  /\ AcceptedFirst' /\ MessagesWhole' /\ TailInv' /\ EncodeInv' /\ WriteInv'
           /\ \A h \in Handles : Accepted(h)' = Accepted(h)
<1>1. AcceptedFirst' /\ \A h \in Handles : Accepted(h)' = Accepted(h)
  BY Zenon DEF AcceptedFirst, Accepted
<1>2. EncodeInv'
  BY Zenon DEF EncodeInv, Writing, Encodes, At
<1>6. WriteInv'
  BY ZenonT(30) DEF WriteInv, LastPiece, Encodes, At
<1>3. \A h \in Handles : Closing(h) => Closing(h)'
  BY Zenon DEF Closing, Writing, At
<1>4. TailInv'
  BY SMTT(60), <1>3 DEF TailInv, LastPiece, Writing, At
<1>5. MessagesWhole'
  BY SMTT(60), <1>3 DEF MessagesWhole
<1> QED
  BY Zenon, <1>1, <1>2, <1>4, <1>5, <1>6

\* What a step of the server thread's own answer leaves of the other threads.
OthersStay ==
    /\ \A u \in Threads : Updating(u)' = Updating(u)
    /\ \A u \in Threads : Updating(u) => th'[u] = th[u]
    /\ \A u \in Threads : u # Server => th'[u] = th[u]

LEMMA OwnStep ==
    ASSUME IInv, ~Updating(Server), NEW s \in ThreadState, th' = [th EXCEPT ![Server] = s],
           s.pc \notin Waits, s.pc \notin Sends \/ s.msg # "update"
    PROVE  /\ th' \in [Threads -> ThreadState] /\ th'[Server] = s
           /\ OthersStay /\ ~Updating(Server)' /\ Where' = s.pc
<1>1. /\ th' \in [Threads -> ThreadState] /\ th'[Server] = s
      /\ \A u \in Threads : u # Server => th'[u] = th[u]
  BY Zenon, OneThread DEF IInv, Threads
<1>2. ~Updating(Server)'
  BY Zenon, <1>1 DEF Updating
<1> QED
  BY Zenon, <1>1, <1>2 DEF OthersStay, Updating, Where

\* The places of the server thread in its request, other than sending.
ServerPlaces == {"read", "dispatch", "drop", "handler", "respond", "accept", "handled",
                 "clear"}

LEMMA ServerAt ==
    ASSUME IInv, th[Server].pc \in ServerPlaces
    PROVE  /\ ~Updating(Server) /\ Where = th[Server].pc
           /\ th[Server] \in ThreadState /\ th[Server].hd = req
           /\ req \in Handles /\ conn[req] # "none"
<1>1. ~Updating(Server) /\ Where = th[Server].pc
  BY Zenon DEF Updating, Where, Waits, Sends, ServerPlaces
<1> QED
  BY Zenon, <1>1 DEF IInv, TypeOK, PlaceInv, FreshInv, ServerPlaces, Threads

\* The server thread's record with a new place, and with a message to send.
To(p) == [th[Server] EXCEPT !.pc = p]
Say(p, m) == [th[Server] EXCEPT !.pc = p, !.msg = m]

LEMMA ServerRecords ==
    ASSUME IInv
    PROVE  /\ Idle \in ThreadState /\ Idle.pc = "idle"
           /\ \A p \in Places : /\ To(p) \in ThreadState
                                /\ To(p).pc = p /\ To(p).hd = th[Server].hd
                                /\ To(p).msg = th[Server].msg
           /\ \A p \in Places, m \in Messages :
                /\ Say(p, m) \in ThreadState
                /\ Say(p, m).pc = p /\ Say(p, m).hd = th[Server].hd /\ Say(p, m).msg = m
<1>1. th[Server] \in ThreadState
  BY Zenon DEF IInv, TypeOK, Threads
<1>2. Idle \in ThreadState /\ Idle.pc = "idle"
  BY Zenon, StateType DEF Idle
<1>3. \A p \in Places : To(p) \in ThreadState
  BY Zenon, <1>1, StateType DEF To
<1>4. \A p \in Places, m \in Messages : Say(p, m) \in ThreadState
  BY Zenon, <1>1, StateType DEF Say
<1>5. \A p \in Places : /\ To(p).pc = p /\ To(p).hd = th[Server].hd
                        /\ To(p).msg = th[Server].msg
  BY Zenon, <1>1 DEF To, ThreadState
<1>6. \A p \in Places, m \in Messages :
        Say(p, m).pc = p /\ Say(p, m).hd = th[Server].hd /\ Say(p, m).msg = m
  BY Zenon, <1>1 DEF Say, ThreadState
<1> QED
  BY SMTT(60), <1>2, <1>3, <1>4, <1>5, <1>6

\* The server thread goes on with its request, or is done with it.
Moves(s) ==
    /\ s \in ThreadState /\ th' = [th EXCEPT ![Server] = s]
    /\ s.pc \notin Waits \cup {"read", "write"}
    /\ ~(s.pc = "close" /\ s.msg = "error")
    /\ s.pc \in Sends \cup {"clear"} => s.msg \in {"accepted", "response", "error"}
    /\ IF s.pc = "idle" THEN req' = NoHandle ELSE s.hd = req /\ req' = req

LEMMA ServerMoves ==
    ASSUME IInv, th[Server].pc \in ServerPlaces, NEW s, Moves(s),
           wire' = wire, encode' = encode,
           \A h \in Handles : conn'[h] = conn[h] \/ conn'[h] = "released"
    PROVE  /\ th' \in [Threads -> ThreadState] /\ th'[Server] = s
           /\ OthersStay /\ ~Updating(Server)' /\ Where' = s.pc /\ PlaceInv'
           /\ AcceptedFirst' /\ MessagesWhole' /\ TailInv' /\ EncodeInv' /\ WriteInv'
           /\ \A h \in Handles : Accepted(h)' = Accepted(h)
<1> USE ServerAssumption DEF Moves
<1>1. ~Updating(Server) /\ req \in Handles
  BY Zenon, ServerAt
<1>2. /\ th' \in [Threads -> ThreadState] /\ th'[Server] = s
      /\ OthersStay /\ ~Updating(Server)' /\ Where' = s.pc
  BY Zenon, <1>1, OwnStep
<1>3. PlaceInv'
  BY Zenon, <1>1, <1>2 DEF IInv, PlaceInv, OthersStay, Threads
<1>4. \A u \in Threads : (Writing(u) \/ Encodes(u)') => th'[u] = th[u]
  BY Zenon, <1>2 DEF Writing, Encodes, At, OthersStay, ServerPlaces
<1> QED
  BY Zenon, <1>2, <1>3, <1>4, SameMessages DEF IInv

\* A step of the server thread that leaves the connections alone.
LEMMA ServerKeeps ==
    ASSUME IInv, th[Server].pc \in ServerPlaces \ {"read"}, NEW s, Moves(s),
           UNCHANGED <<conn, peer, inbox, rtype, cleanup, curMtx, encode, wire, closes,
                       updates>>,
           current' = current \/ (current = NoHandle /\ current' = req),
           registered' \subseteq registered
    PROVE  /\ TypeOK' /\ FreshInv' /\ UpdateInv' /\ ClosedExactlyOnce'
<1> USE ServerAssumption
<1>1. Where = th[Server].pc /\ req \in Handles
  BY Zenon, ServerAt
<1>2. /\ th' \in [Threads -> ThreadState] /\ OthersStay /\ Where' = s.pc
      /\ \A h \in Handles : Accepted(h)' = Accepted(h)
  BY Zenon, ServerMoves
<1>3. req' \in {req, NoHandle} /\ (Where' # "idle" => req' = req)
  BY Zenon, <1>2 DEF Moves
<1>4. TypeOK'
  BY Zenon, <1>1, <1>2, <1>3 DEF IInv, TypeOK
<1>5. FreshInv'
  <2>1. \A h \in Handles : (conn[h] = "none" \/ inbox[h] # "none") => h # req
    BY Zenon, <1>1 DEF IInv, FreshInv, ServerPlaces
  <2> QED
    BY SMTT(60), <1>1, <1>2, <1>3, <2>1 DEF IInv, FreshInv, OthersStay
<1>6. UpdateInv'
  BY SMTT(60), <1>2 DEF IInv, UpdateInv, PlaceInv, OthersStay
<1> QED
  BY Zenon, <1>4, <1>5, <1>6 DEF IInv, ClosedExactlyOnce

\* The handler is found and called, or is not found.
LEMMA DispatchSteps ==
    ASSUME IInv, Dispatch \/ DispatchFails
    PROVE  IInv'
<1> USE ServerAssumption DEF At, Go, Fail, clientVars, poolVars, appVars
<1>1. /\ th[Server].pc = "dispatch" /\ req' = req
      /\ UNCHANGED <<conn, peer, inbox, rtype, cleanup, curMtx, encode, wire, closes,
                     updates, registered>>
  BY Zenon DEF Dispatch, DispatchFails
<1>2. Where = "dispatch" /\ req \in Handles /\ th[Server].hd = req /\ current = NoHandle
  BY Zenon, <1>1, ServerAt DEF ServerPlaces, IInv, CurrentInv
<1>3. PICK s : /\ Moves(s)
               /\ \/ s.pc = "handler" /\ current' = req
                  \/ s.pc = "lock" /\ s.msg = "error" /\ current' = current
  <2>1. \/ th' = [th EXCEPT ![Server] = To("handler")] /\ current' = req
        \/ th' = [th EXCEPT ![Server] = Say("lock", "error")] /\ current' = current
    BY Zenon DEF Dispatch, DispatchFails, To, Say
  <2> QED
    BY SMTT(60), <1>1, <1>2, <2>1, ServerRecords DEF Moves, Places, Messages, Waits, Sends
<1>4. /\ TypeOK' /\ FreshInv' /\ UpdateInv' /\ ClosedExactlyOnce'
  BY Zenon, <1>1, <1>2, <1>3, ServerKeeps DEF ServerPlaces
<1>5. /\ th'[Server] = s /\ OthersStay /\ ~Updating(Server)' /\ Where' = s.pc /\ PlaceInv'
      /\ AcceptedFirst' /\ MessagesWhole' /\ TailInv' /\ EncodeInv' /\ WriteInv'
      /\ \A h \in Handles : Accepted(h)' = Accepted(h)
  BY Zenon, <1>1, <1>3, ServerMoves DEF ServerPlaces
<1>6. CurrentInv'
  BY Zenon, <1>1, <1>2, <1>3, <1>5 DEF CurrentInv, Sends
<1>7. RequestInv'
  BY SMTT(60), <1>1, <1>2, <1>3, <1>5 DEF IInv, RequestInv, OthersStay, Sends
<1>8. TableInv'
  BY SMTT(60), <1>1, <1>2, <1>5 DEF IInv, TableInv, RequestInv, TypeOK
<1> QED
  BY Zenon, <1>4, <1>5, <1>6, <1>7, <1>8 DEF IInv

\* The handler answers, fails, or returns.
LEMMA HandlerSteps ==
    ASSUME IInv, HandlerSucceeds \/ HandlerFails
    PROVE  IInv'
<1> USE ServerAssumption DEF At, Go, Fail, clientVars, poolVars, appVars
<1>1. /\ th[Server].pc = "handler" /\ req' = req /\ current' = current
      /\ UNCHANGED <<conn, peer, inbox, rtype, cleanup, curMtx, encode, wire, closes,
                     updates>>
  BY Zenon DEF HandlerSucceeds, HandlerFails
<1>2. Where = "handler" /\ req \in Handles /\ th[Server].hd = req /\ current = req
  BY Zenon, <1>1, ServerAt DEF ServerPlaces, IInv, CurrentInv
<1>3. PICK s : /\ Moves(s)
               /\ \/ s.pc = "accept" /\ registered' = registered
                  \/ /\ s.pc = "respond" /\ rtype[req] # "subscribe"
                     /\ registered' = registered
                  \/ s.pc = "lock" /\ s.msg = "error" /\ registered' = registered \ {req}
  <2>1. \/ /\ th' = [th EXCEPT ![Server] = To("accept")] /\ registered' = registered
        \/ /\ th' = [th EXCEPT ![Server] = To("respond")] /\ rtype[req] # "subscribe"
           /\ registered' = registered
        \/ /\ th' = [th EXCEPT ![Server] = Say("lock", "error")]
           /\ registered' = registered \ {req}
    BY Zenon DEF HandlerSucceeds, HandlerFails, IsSubscription, To, Say
  <2>2. /\ Moves(To("accept")) \/ th' # [th EXCEPT ![Server] = To("accept")]
        /\ Moves(To("respond")) \/ th' # [th EXCEPT ![Server] = To("respond")]
        /\ Moves(Say("lock", "error")) \/ th' # [th EXCEPT ![Server] = Say("lock", "error")]
    BY SMTT(60), <1>1, <1>2, ServerRecords DEF Moves, Places, Messages, Waits, Sends
  <2>3. /\ To("accept").pc = "accept" /\ To("respond").pc = "respond"
        /\ Say("lock", "error").pc = "lock" /\ Say("lock", "error").msg = "error"
    BY SMTT(60), ServerRecords DEF Places, Messages
  <2> QED
    BY Zenon, <2>1, <2>2, <2>3
<1>4. /\ TypeOK' /\ FreshInv' /\ UpdateInv' /\ ClosedExactlyOnce'
  BY Zenon, <1>1, <1>2, <1>3, ServerKeeps DEF ServerPlaces
<1>5. /\ th'[Server] = s /\ OthersStay /\ ~Updating(Server)' /\ Where' = s.pc /\ PlaceInv'
      /\ AcceptedFirst' /\ MessagesWhole' /\ TailInv' /\ EncodeInv' /\ WriteInv'
      /\ \A h \in Handles : Accepted(h)' = Accepted(h)
  BY Zenon, <1>1, <1>3, ServerMoves DEF ServerPlaces
<1>6. CurrentInv'
  BY Zenon, <1>1, <1>2, <1>3, <1>5 DEF CurrentInv, Sends
<1>7. RequestInv'
  BY SMTT(60), <1>1, <1>2, <1>3, <1>5 DEF IInv, RequestInv, Sends
<1>8. TableInv'
  BY SMTT(60), <1>1, <1>2, <1>3, <1>5 DEF IInv, TableInv, TypeOK
<1> QED
  BY Zenon, <1>4, <1>5, <1>6, <1>7, <1>8 DEF IInv

LEMMA ReturnStep ==
    ASSUME IInv, HandlerReturns
    PROVE  IInv'
<1> USE ServerAssumption DEF At, clientVars, poolVars, appVars
<1>1. /\ th[Server].pc = "handled" /\ th' = [th EXCEPT ![Server] = Idle] /\ req' = NoHandle
      /\ UNCHANGED <<conn, peer, inbox, rtype, cleanup, current, curMtx, encode, wire,
                     closes, updates, registered>>
  BY Zenon DEF HandlerReturns
<1>2. Where = "handled" /\ current = NoHandle
  BY Zenon, <1>1, ServerAt DEF ServerPlaces, IInv, CurrentInv
<1>3. Moves(Idle) /\ Idle.pc = "idle"
  BY Zenon, <1>1, ServerRecords DEF Moves, Waits, Sends
<1>4. /\ TypeOK' /\ FreshInv' /\ UpdateInv' /\ ClosedExactlyOnce'
  BY Zenon, <1>1, <1>3, ServerKeeps DEF ServerPlaces
<1>5. /\ Where' = "idle" /\ PlaceInv'
      /\ AcceptedFirst' /\ MessagesWhole' /\ TailInv' /\ EncodeInv' /\ WriteInv'
      /\ \A h \in Handles : Accepted(h)' = Accepted(h)
  BY Zenon, <1>1, <1>3, ServerMoves DEF ServerPlaces
<1>6. CurrentInv' /\ RequestInv'
  BY Zenon, <1>1, <1>2, <1>5 DEF CurrentInv, RequestInv, Sends
<1>7. TableInv'
  BY Zenon, <1>1, <1>2, <1>5 DEF IInv, TableInv, TypeOK
<1> QED
  BY Zenon, <1>4, <1>5, <1>6, <1>7 DEF IInv

\* ggl_respond up to its message.
LEMMA RespondStep ==
    ASSUME IInv, Respond
    PROVE  IInv'
<1> USE ServerAssumption DEF At, Valid, clientVars, poolVars, appVars
<1>1. /\ th[Server].pc = "respond" /\ req' = req
      /\ UNCHANGED <<conn, peer, inbox, rtype, cleanup, current, curMtx, encode, wire,
                     closes, updates, registered>>
  BY Zenon DEF Respond
<1>2. /\ Where = "respond" /\ req \in Handles /\ th[Server].hd = req /\ current = req
      /\ conn[req] # "none"
  BY Zenon, <1>1, ServerAt DEF ServerPlaces, IInv, CurrentInv
<1>3. PICK s : /\ Moves(s) /\ s.msg = "response"
               /\ s.pc \in {"close", "lock"} \/ (s.pc = "clear" /\ conn[req] = "released")
  <2>1. PICK p \in {"clear", "close", "lock"} :
          /\ th' = [th EXCEPT ![Server] = Say(p, "response")]
          /\ p = "clear" => conn[req] # "live"
    BY Zenon DEF Respond, Say
  <2>2. conn[req] \in {"none", "live", "released"}
    BY Zenon, <1>2 DEF IInv, TypeOK
  <2>3. /\ Say(p, "response") \in ThreadState /\ Say(p, "response").pc = p
        /\ Say(p, "response").hd = req /\ Say(p, "response").msg = "response"
    BY SMTT(60), <1>2, <2>1, ServerRecords DEF Places, Messages
  <2>4. Moves(Say(p, "response"))
    BY Zenon, <1>1, <2>1, <2>3 DEF Moves, Waits, Sends
  <2> QED
    BY Zenon, <1>2, <2>1, <2>2, <2>3, <2>4
<1>4. /\ TypeOK' /\ FreshInv' /\ UpdateInv' /\ ClosedExactlyOnce'
  BY Zenon, <1>1, <1>3, ServerKeeps DEF ServerPlaces
<1>5. /\ th'[Server] = s /\ Where' = s.pc /\ PlaceInv'
      /\ AcceptedFirst' /\ MessagesWhole' /\ TailInv' /\ EncodeInv' /\ WriteInv'
      /\ \A h \in Handles : Accepted(h)' = Accepted(h)
  BY Zenon, <1>1, <1>3, ServerMoves DEF ServerPlaces
<1>6. CurrentInv'
  BY Zenon, <1>1, <1>2, <1>3, <1>5 DEF CurrentInv, Sends
<1>7. RequestInv'
  BY SMTT(60), <1>1, <1>2, <1>3, <1>5 DEF IInv, RequestInv, Sends
<1>8. TableInv'
  BY Zenon, <1>1, <1>2, <1>5 DEF IInv, TableInv, TypeOK
<1> QED
  BY Zenon, <1>4, <1>5, <1>6, <1>7, <1>8 DEF IInv

\* ggl_sub_accept up to its message: the close callback is attached to a valid
\* handle, and called for one that was closed before.
LEMMA AcceptStep ==
    ASSUME IInv, SubAccept
    PROVE  IInv'
<1> USE ServerAssumption DEF At, Valid, clientVars, poolVars, appVars
<1>1. /\ th[Server].pc = "accept" /\ req' = req
      /\ UNCHANGED <<conn, peer, inbox, rtype, current, curMtx, encode, wire, updates>>
  BY Zenon DEF SubAccept
<1>2. /\ Where = "accept" /\ req \in Handles /\ th[Server].hd = req /\ current = req
      /\ conn[req] # "none" /\ ~cleanup[req] /\ closes[req] = 0
  BY Zenon, <1>1, ServerAt DEF ServerPlaces, IInv, CurrentInv, RequestInv
<1>3. \/ /\ conn[req] = "live" /\ th' = [th EXCEPT ![Server] = Say("lock", "accepted")]
         /\ cleanup' = [cleanup EXCEPT ![req] = TRUE]
         /\ registered' = registered /\ closes' = closes
      \/ /\ conn[req] = "released" /\ th' = [th EXCEPT ![Server] = Say("clear", "accepted")]
         /\ cleanup' = cleanup
         /\ registered' = registered \ {req} /\ closes' = [closes EXCEPT ![req] = 1]
  <2>1. conn[req] \in {"none", "live", "released"}
    BY Zenon, <1>2 DEF IInv, TypeOK
  <2>2. CASE conn[req] = "live"
    BY Zenon, <2>2 DEF SubAccept, Say
  <2>3. CASE conn[req] = "released"
    <3>1. closes' = [closes EXCEPT ![req] = closes[req] + 1] /\ closes[req] + 1 = 1
      BY SMTT(60), <1>2, <2>3 DEF SubAccept, OnClose
    <3> QED
      BY Zenon, <2>3, <3>1 DEF SubAccept, OnClose, Say
  <2> QED
    BY Zenon, <1>2, <2>1, <2>2, <2>3
<1>4. PICK s : /\ Moves(s) /\ s.msg = "accepted"
               /\ s.pc = "lock" \/ (s.pc = "clear" /\ conn[req] = "released")
  BY SMTT(60), <1>1, <1>2, <1>3, ServerRecords DEF Moves, Places, Messages, Waits, Sends
<1>5. /\ th' \in [Threads -> ThreadState] /\ th'[Server] = s
      /\ OthersStay /\ Where' = s.pc /\ PlaceInv'
      /\ AcceptedFirst' /\ MessagesWhole' /\ TailInv' /\ EncodeInv' /\ WriteInv'
      /\ \A h \in Handles : Accepted(h)' = Accepted(h)
  BY Zenon, <1>1, <1>4, ServerMoves DEF ServerPlaces
<1>6. /\ cleanup' \in [Handles -> BOOLEAN] /\ closes' \in [Handles -> Nat]
      /\ \A h \in Handles : h # req => cleanup'[h] = cleanup[h] /\ closes'[h] = closes[h]
      /\ \/ /\ conn[req] = "live" /\ cleanup'[req] /\ closes'[req] = 0
            /\ registered' = registered
         \/ conn[req] = "released" /\ closes'[req] = 1 /\ registered' = registered \ {req}
  <2>1. cleanup \in [Handles -> BOOLEAN] /\ closes \in [Handles -> Nat]
    BY Zenon DEF IInv, TypeOK
  <2>2. CASE conn[req] = "live"
    BY Zenon, <1>2, <1>3, <2>1, <2>2
  <2>3. CASE conn[req] = "released"
    BY SMTT(60), <1>2, <1>3, <2>1, <2>3
  <2> QED
    BY Zenon, <1>3, <2>2, <2>3
<1>7. TypeOK'
  BY Zenon, <1>1, <1>5, <1>6 DEF IInv, TypeOK
<1>8. CurrentInv'
  BY Zenon, <1>1, <1>2, <1>4, <1>5 DEF CurrentInv, Sends
<1>9. FreshInv'
  <2>1. \A h \in Handles : (conn[h] = "none" \/ inbox[h] # "none") => h # req
    BY Zenon, <1>2 DEF IInv, FreshInv
  <2> QED
    BY SMTT(60), <1>1, <1>2, <1>5, <1>6, <2>1 DEF IInv, FreshInv, OthersStay
<1>10. RequestInv'
  BY SMTT(60), <1>1, <1>2, <1>4, <1>5 DEF IInv, RequestInv, Sends
<1>11. TableInv'
  BY SMTT(60), <1>1, <1>2, <1>5, <1>6 DEF IInv, TableInv, TypeOK
<1>12. UpdateInv'
  BY SMTT(60), <1>1, <1>5 DEF IInv, UpdateInv, PlaceInv, OthersStay
<1>13. ClosedExactlyOnce'
  BY SMTT(60), <1>1, <1>6 DEF IInv, ClosedExactlyOnce
<1> QED
  BY Zenon, <1>5, <1>7, <1>8, <1>9, <1>10, <1>11, <1>12, <1>13 DEF IInv

\* What the release of a handle leaves of the daemon's table.
LEMMA ReleasedTable ==
    ASSUME IInv, NEW h \in Handles, Releases(h),
           UNCHANGED <<rtype, cleanup>>, \A g \in Handles : Accepted(g)' = Accepted(g),
           \A g \in registered : g = current => g = current' \/ conn'[g] = "released",
           \A g \in registered : (req = g /\ Where \in {"handler", "accept"}) =>
                                 req' = g /\ Where' \in {"handler", "accept"}
    PROVE  TableInv'
BY SMTT(60) DEF IInv, TableInv, TypeOK, Releases, Valid

\* client_data_ready closes the handle of a request that could not be read.
LEMMA DropStep ==
    ASSUME IInv, Drop
    PROVE  IInv'
<1> USE ServerAssumption DEF At, clientVars, poolVars, appVars
<1>1. /\ th[Server].pc = "drop" /\ th' = [th EXCEPT ![Server] = Idle] /\ req' = NoHandle
      /\ UNCHANGED <<peer, inbox, rtype, cleanup, current, curMtx, encode, wire, updates>>
  BY Zenon DEF Drop
<1>2. PICK h \in Handles : h = req
  BY Zenon, <1>1, ServerAt DEF ServerPlaces
<1>3. /\ Where = "drop" /\ current = NoHandle /\ conn[h] # "none"
      /\ \A g \in Handles : (conn[g] = "none" \/ inbox[g] # "none") => g # h
  BY Zenon, <1>1, <1>2, ServerAt DEF ServerPlaces, IInv, CurrentInv, FreshInv
<1>4. Releases(h) /\ ClosedExactlyOnce'
  BY Zenon, <1>1, <1>2, <1>3, CloseReturns DEF IInv, Drop
<1>5. Moves(Idle) /\ Idle.pc = "idle"
  BY Zenon, <1>1, ServerRecords DEF Moves, Waits, Sends
<1>6. \A g \in Handles : conn'[g] = conn[g] \/ conn'[g] = "released"
  BY Zenon, <1>4 DEF Releases
<1>7. /\ th' \in [Threads -> ThreadState] /\ OthersStay /\ Where' = "idle" /\ PlaceInv'
      /\ AcceptedFirst' /\ MessagesWhole' /\ TailInv' /\ EncodeInv' /\ WriteInv'
      /\ \A g \in Handles : Accepted(g)' = Accepted(g)
  BY Zenon, <1>1, <1>5, <1>6, ServerMoves DEF ServerPlaces
<1>8. TypeOK'
  BY Zenon, <1>1, <1>4, <1>7 DEF IInv, TypeOK, Releases
<1>9. CurrentInv' /\ RequestInv'
  BY Zenon, <1>1, <1>3, <1>7 DEF CurrentInv, RequestInv, Sends
<1>10. FreshInv'
  BY SMTT(60), <1>1, <1>3, <1>4, <1>7 DEF IInv, FreshInv, OthersStay, Releases
<1>11. TableInv'
  BY Zenon, <1>1, <1>3, <1>4, <1>7, ReleasedTable
<1>12. UpdateInv'
  BY SMTT(60), <1>1, <1>4, <1>7 DEF IInv, UpdateInv, PlaceInv, OthersStay, Releases
<1> QED
  BY Zenon, <1>4, <1>7, <1>8, <1>9, <1>10, <1>11, <1>12 DEF IInv

\* Reading the request: no other thread knows the handle.
LEMMA ReadStep ==
    ASSUME IInv, ReadRequest
    PROVE  IInv'
<1> USE ServerAssumption DEF At, Valid, clientVars, poolVars, appVars
<1>1. /\ th[Server].pc = "read" /\ req' = req
      /\ inbox' = [inbox EXCEPT ![req] = "none"]
      /\ UNCHANGED <<conn, peer, cleanup, current, curMtx, encode, registered, closes, wire,
                     updates>>
  BY Zenon DEF ReadRequest
<1>2. Where = "read" /\ req \in Handles /\ th[Server].hd = req /\ current = NoHandle
  BY Zenon, <1>1, ServerAt DEF ServerPlaces, IInv, CurrentInv
<1>3. /\ rtype' \in [Handles -> {"call", "notify", "subscribe"}]
      /\ \A h \in Handles : h # req => rtype'[h] = rtype[h]
      /\ rtype'[req] = rtype[req] \/ inbox[req] # "none"
  <2>1. rtype \in [Handles -> {"call", "notify", "subscribe"}]
    BY Zenon DEF IInv, TypeOK
  <2>2. CASE rtype' = rtype
    BY Zenon, <2>1, <2>2
  <2>3. CASE /\ inbox[req] \in {"call", "notify", "subscribe"}
             /\ rtype' = [rtype EXCEPT ![req] = inbox[req]]
    BY Zenon, <1>2, <2>1, <2>3
  <2> QED
    BY Zenon, <2>2, <2>3 DEF ReadRequest
<1>4. PICK s : /\ Moves(s)
               /\ \/ s.pc = "drop"
                  \/ s.pc = "lock" /\ s.msg = "error" /\ inbox[req] # "none"
                  \/ s.pc = "dispatch" /\ inbox[req] # "none"
  <2>1. \/ th' = [th EXCEPT ![Server] = To("drop")]
        \/ th' = [th EXCEPT ![Server] = Say("lock", "error")] /\ inbox[req] # "none"
        \/ th' = [th EXCEPT ![Server] = To("dispatch")] /\ inbox[req] # "none"
    BY Zenon DEF ReadRequest, Fail, To, Say
  <2>2. /\ To("drop") \in ThreadState /\ To("drop").pc = "drop" /\ To("drop").hd = req
        /\ To("dispatch") \in ThreadState /\ To("dispatch").pc = "dispatch"
        /\ To("dispatch").hd = req
        /\ Say("lock", "error") \in ThreadState /\ Say("lock", "error").pc = "lock"
        /\ Say("lock", "error").hd = req /\ Say("lock", "error").msg = "error"
    BY SMTT(60), <1>2, ServerRecords DEF Places, Messages
  <2> QED
    BY Zenon, <1>1, <2>1, <2>2 DEF Moves, Waits, Sends
<1>5. /\ th' \in [Threads -> ThreadState] /\ th'[Server] = s
      /\ OthersStay /\ Where' = s.pc /\ PlaceInv'
      /\ AcceptedFirst' /\ MessagesWhole' /\ TailInv' /\ EncodeInv' /\ WriteInv'
      /\ \A h \in Handles : Accepted(h)' = Accepted(h)
  BY Zenon, <1>1, <1>4, ServerMoves DEF ServerPlaces
<1>6. inbox[req] # "none" =>
        /\ req \notin registered /\ ~cleanup[req] /\ closes[req] = 0 /\ wire[req] = <<>>
        /\ \A t \in Threads : Updating(t) => th[t].hd # req
  BY Zenon, <1>2 DEF IInv, FreshInv
<1>7. TypeOK'
  BY Zenon, <1>1, <1>2, <1>3, <1>5 DEF IInv, TypeOK
<1>8. CurrentInv'
  BY Zenon, <1>1, <1>2, <1>4, <1>5 DEF CurrentInv, Sends
<1>9. FreshInv'
  <2>1. conn[req] # "none" /\ inbox \in [Handles -> Requests \cup {"none"}]
    BY Zenon, <1>1, ServerAt DEF ServerPlaces, IInv, TypeOK
  <2>2. \A h \in Handles : (conn'[h] = "none" \/ inbox'[h] # "none") =>
          h # req /\ (conn[h] = "none" \/ inbox[h] # "none")
    BY Zenon, <1>1, <1>2, <2>1
  <2> QED
    BY SMTT(60), <1>1, <1>5, <2>1, <2>2 DEF IInv, FreshInv, OthersStay
<1>10. RequestInv'
  BY SMTT(60), <1>1, <1>2, <1>4, <1>5, <1>6 DEF RequestInv, OthersStay, Sends
<1>11. TableInv' /\ ClosedExactlyOnce'
  BY SMTT(60), <1>1, <1>2, <1>3, <1>5, <1>6 DEF IInv, TableInv, ClosedExactlyOnce, TypeOK
<1>12. UpdateInv'
  BY SMTT(60), <1>1, <1>3, <1>5, <1>6 DEF IInv, UpdateInv, PlaceInv, OthersStay
<1> QED
  BY Zenon, <1>5, <1>7, <1>8, <1>9, <1>10, <1>11, <1>12 DEF IInv

\* The server thread takes up a connection that is ready.
LEMMA ReadyStep ==
    ASSUME IInv, NEW h \in Handles, ClientReady(h)
    PROVE  IInv'
<1> USE ServerAssumption DEF At, Valid, clientVars, poolVars, appVars
<1> DEFINE s == [Idle EXCEPT !.pc = "read", !.hd = h]
<1>1. /\ th[Server].pc = "idle" /\ conn[h] = "live" /\ th' = [th EXCEPT ![Server] = s]
      /\ req' = h
      /\ UNCHANGED <<conn, peer, inbox, rtype, cleanup, current, curMtx, encode, registered,
                     closes, wire, updates>>
  BY Zenon DEF ClientReady
<1>2. ~Updating(Server) /\ Where = "idle" /\ current = NoHandle
  <2>1. ~Updating(Server) /\ Where = "idle"
    BY Zenon, <1>1 DEF Updating, Where, Waits, Sends
  <2> QED
    BY Zenon, <2>1 DEF IInv, CurrentInv
<1>3. s \in ThreadState /\ s.pc = "read" /\ s.hd = h
  BY Zenon, StateType DEF Places, Idle
<1> HIDE DEF s
<1>4. /\ th' \in [Threads -> ThreadState] /\ th'[Server] = s
      /\ OthersStay /\ ~Updating(Server)' /\ Where' = "read"
  BY Zenon, <1>1, <1>2, <1>3, OwnStep DEF Waits, Sends
<1>5. /\ AcceptedFirst' /\ MessagesWhole' /\ TailInv' /\ EncodeInv' /\ WriteInv'
      /\ \A g \in Handles : Accepted(g)' = Accepted(g)
  <2>1. \A u \in Threads : (Writing(u) \/ Encodes(u)') => th'[u] = th[u]
    BY Zenon, <1>1, <1>3, <1>4 DEF Writing, Encodes, OthersStay
  <2> QED
    BY Zenon, <1>1, <2>1, SameMessages DEF IInv
<1>6. TypeOK'
  BY Zenon, <1>1, <1>4 DEF IInv, TypeOK
<1>7. PlaceInv' /\ CurrentInv' /\ RequestInv'
  BY Zenon, <1>1, <1>2, <1>3, <1>4
     DEF IInv, PlaceInv, CurrentInv, RequestInv, OthersStay, Threads, Sends
<1>8. FreshInv'
  BY SMTT(60), <1>1, <1>4 DEF IInv, FreshInv, OthersStay
<1>9. TableInv' /\ ClosedExactlyOnce'
  BY Zenon, <1>1, <1>2, <1>5 DEF IInv, TableInv, ClosedExactlyOnce, TypeOK
<1>10. UpdateInv'
  BY ZenonT(30), <1>1, <1>4, <1>5 DEF IInv, UpdateInv, PlaceInv, OthersStay
<1> QED
  BY Zenon, <1>5, <1>6, <1>7, <1>8, <1>9, <1>10 DEF IInv

\* Steps of clients and of the daemon in which no thread moves.
LEMMA StillMessages ==
    ASSUME IInv, UNCHANGED <<th, wire, encode>>,
           \A h \in Handles : conn'[h] = conn[h] \/ wire[h] = <<>> \/ conn'[h] = "released"
    PROVE  /\ AcceptedFirst' /\ MessagesWhole' /\ TailInv' /\ EncodeInv' /\ WriteInv'
           /\ \A h \in Handles : Accepted(h)' = Accepted(h)
           /\ Where' = Where /\ \A t \in Threads : Updating(t)' = Updating(t)
<1>1. Where' = Where /\ \A t \in Threads : Updating(t)' = Updating(t)
  BY Zenon DEF Where, Updating
<1> QED
  BY Zenon, <1>1, SameMessages DEF IInv

\* A client connects, is refused, or closes its end.
LEMMA ClientSteps ==
    ASSUME IInv, NEW h \in Handles, NewClient(h) \/ ClientRefused(h) \/ Disconnect(h)
    PROVE  IInv'
<1> USE ServerAssumption DEF At, Valid, clientVars, poolVars, appVars
<1>1. /\ UNCHANGED <<current, curMtx, encode, th, req, registered, closes, wire, updates>>
      /\ conn \in [Handles -> {"none", "live", "released"}]
      /\ inbox \in [Handles -> Requests \cup {"none"}]
      /\ rtype \in [Handles -> {"call", "notify", "subscribe"}]
      /\ peer \in [Handles -> BOOLEAN] /\ cleanup \in [Handles -> BOOLEAN]
  BY Zenon DEF NewClient, ClientRefused, Disconnect, IInv, TypeOK
<1>2. /\ peer' \in [Handles -> BOOLEAN] /\ conn' \in [Handles -> {"none", "live", "released"}]
      /\ inbox' \in [Handles -> Requests \cup {"none"}]
      /\ rtype' \in [Handles -> {"call", "notify", "subscribe"}]
      /\ \A g \in Handles : \/ conn'[g] = conn[g] /\ inbox'[g] = inbox[g] /\ rtype'[g] = rtype[g]
                            \/ conn[g] = "none" /\ conn'[g] \in {"live", "released"}
  <2>1. CASE NewClient(h)
    BY SMTT(60), <1>1, <2>1 DEF NewClient
  <2>2. CASE ClientRefused(h)
    BY Zenon, <1>1, <2>2 DEF ClientRefused
  <2>3. CASE Disconnect(h)
    BY Zenon, <1>1, <2>3 DEF Disconnect
  <2> QED
    BY Zenon, <2>1, <2>2, <2>3
<1>3. /\ cleanup' \in [Handles -> BOOLEAN]
      /\ \A g \in Handles : cleanup'[g] = cleanup[g] \/ (conn[g] = "none" /\ ~cleanup'[g])
  <2>1. CASE NewClient(h)
    BY Zenon, <1>1, <2>1 DEF NewClient
  <2>2. CASE cleanup' = cleanup
    BY Zenon, <1>1, <2>2
  <2> QED
    BY Zenon, <2>1, <2>2 DEF ClientRefused, Disconnect
<1>4. \A g \in Handles : conn[g] = "none" =>
        /\ g \notin registered /\ ~cleanup[g] /\ closes[g] = 0 /\ wire[g] = <<>>
        /\ \A t \in Threads : Updating(t) => th[t].hd # g
        /\ g = req => Where = "idle"
  BY Zenon DEF IInv, FreshInv
<1>5. /\ AcceptedFirst' /\ MessagesWhole' /\ TailInv' /\ EncodeInv' /\ WriteInv'
      /\ \A g \in Handles : Accepted(g)' = Accepted(g)
      /\ Where' = Where /\ \A t \in Threads : Updating(t)' = Updating(t)
  BY Zenon, <1>1, <1>2, <1>4, StillMessages
<1>6. TypeOK'
  BY Zenon, <1>1, <1>2, <1>3 DEF IInv, TypeOK
<1>7. PlaceInv' /\ CurrentInv'
  BY Zenon, <1>1, <1>5 DEF IInv, PlaceInv, CurrentInv, Threads
<1>8. FreshInv'
  BY SMTT(60), <1>1, <1>2, <1>3, <1>4, <1>5 DEF IInv, FreshInv, PlaceInv
<1>9. RequestInv'
  BY ZenonT(30), <1>1, <1>2, <1>3, <1>4, <1>5 DEF IInv, RequestInv, PlaceInv, Sends
<1>10. TableInv' /\ ClosedExactlyOnce'
  BY SMTT(60), <1>1, <1>2, <1>3, <1>4, <1>5 DEF IInv, TableInv, ClosedExactlyOnce, TypeOK
<1>11. UpdateInv'
  BY SMTT(60), <1>1, <1>2, <1>4, <1>5 DEF IInv, UpdateInv, PlaceInv
<1> QED
  BY Zenon, <1>5, <1>6, <1>7, <1>8, <1>9, <1>10, <1>11 DEF IInv

\* A handler saves the handle of the subscription it is about to accept.
LEMMA RegisterStep ==
    ASSUME IInv, HandlerRegisters
    PROVE  IInv'
<1> USE ServerAssumption DEF At, clientVars, poolVars, appVars
<1>1. /\ th[Server].pc = "handler" /\ rtype[req] = "subscribe"
      /\ registered' = registered \cup {req}
      /\ UNCHANGED <<conn, peer, inbox, rtype, cleanup, current, curMtx, encode, th, req, wire,
                     closes, updates>>
  BY Zenon DEF HandlerRegisters, IsSubscription
<1>2. Where = "handler" /\ req \in Handles /\ current = req
  BY Zenon, <1>1, ServerAt DEF ServerPlaces, IInv, CurrentInv
<1>3. /\ AcceptedFirst' /\ MessagesWhole' /\ TailInv' /\ EncodeInv' /\ WriteInv'
      /\ \A g \in Handles : Accepted(g)' = Accepted(g)
      /\ Where' = Where /\ \A t \in Threads : Updating(t)' = Updating(t)
  BY Zenon, <1>1, StillMessages
<1>4. TypeOK'
  BY Zenon, <1>1, <1>2 DEF IInv, TypeOK
<1>5. PlaceInv' /\ CurrentInv' /\ UpdateInv' /\ ClosedExactlyOnce'
  BY ZenonT(30), <1>1, <1>3 DEF IInv, PlaceInv, CurrentInv, UpdateInv, ClosedExactlyOnce, Threads
<1>6. FreshInv'
  BY Zenon, <1>1, <1>2, <1>3 DEF IInv, FreshInv
<1>7. RequestInv'
  BY Zenon, <1>1, <1>2, <1>3 DEF IInv, RequestInv, Sends
<1>8. TableInv'
  BY Zenon, <1>1, <1>2, <1>3 DEF IInv, TableInv, TypeOK
<1> QED
  BY Zenon, <1>3, <1>4, <1>5, <1>6, <1>7, <1>8 DEF IInv

\* A daemon closes one of its subscriptions with ggl_server_sub_close.
LEMMA SubCloseStep ==
    ASSUME IInv, NEW t \in Threads, NEW h \in Handles, ServerSubClose(t, h)
    PROVE  IInv'
<1> USE ServerAssumption DEF At, clientVars, poolVars, appVars
<1>1. /\ h \in registered
      /\ UNCHANGED <<peer, inbox, rtype, cleanup, current, curMtx, encode, th, req, wire,
                     updates>>
  BY Zenon DEF ServerSubClose
<1>2. conn[h] # "none" /\ inbox[h] = "none"
  BY Zenon, <1>1 DEF IInv, FreshInv
<1>3. Releases(h) /\ ClosedExactlyOnce'
  BY Zenon, <1>1, <1>2, CloseReturns DEF IInv, ServerSubClose
<1>4. \A g \in Handles : conn'[g] = conn[g] \/ conn'[g] = "released"
  BY Zenon, <1>3 DEF Releases
<1>5. /\ AcceptedFirst' /\ MessagesWhole' /\ TailInv' /\ EncodeInv' /\ WriteInv'
      /\ \A g \in Handles : Accepted(g)' = Accepted(g)
      /\ Where' = Where /\ \A u \in Threads : Updating(u)' = Updating(u)
  BY Zenon, <1>1, <1>4, StillMessages
<1>6. TypeOK'
  <2>1. registered' \subseteq Handles
    BY Zenon, <1>3 DEF IInv, TypeOK, Releases
  <2> QED
    BY Zenon, <1>1, <1>3, <2>1 DEF IInv, TypeOK, Releases
<1>7. PlaceInv' /\ CurrentInv'
  BY Zenon, <1>1, <1>5 DEF IInv, PlaceInv, CurrentInv, Threads
<1>8. FreshInv'
  BY SMTT(60), <1>1, <1>2, <1>3, <1>5 DEF IInv, FreshInv, PlaceInv, Releases
<1>9. RequestInv'
  <2>1. Where \in {"dispatch", "handler", "respond", "accept"} => closes'[req] = 0
    BY ZenonT(30), <1>3 DEF IInv, RequestInv, PlaceInv, Releases
  <2>2. req \notin registered => req \notin registered'
    BY Zenon, <1>3 DEF Releases
  <2> QED
    BY ZenonT(30), <1>1, <1>4, <1>5, <2>1, <2>2 DEF IInv, RequestInv, PlaceInv, Sends
<1>10. TableInv'
  BY Zenon, <1>1, <1>3, <1>5, ReleasedTable
<1>11. UpdateInv'
  BY ZenonT(30), <1>1, <1>4, <1>5 DEF IInv, UpdateInv, PlaceInv
<1> QED
  BY Zenon, <1>3, <1>5, <1>6, <1>7, <1>8, <1>9, <1>10, <1>11 DEF IInv

\* Within ggl_sub_respond the thread t goes on with the record s ...
Stays(t, s) ==
    /\ s.hd = th[t].hd /\ s.back = th[t].back
    /\ \/ s.pc \in Waits /\ th[t].pc \in Waits
       \/ /\ s.pc \in Sends /\ s.msg = "update"
          /\ th[t].pc \in Sends \/ th[t].hd # current

\* ... or returns.
Returns(t, s) == s = Returned(t)

\* A step of ggl_sub_respond leaves the request of the server thread where it
\* is.
LEMMA UpdaterMoves ==
    ASSUME IInv, NEW t \in Threads, Updating(t), NEW s, th' = [th EXCEPT ![t] = s],
           s \in ThreadState, Stays(t, s) \/ Returns(t, s),
           UNCHANGED <<current, req>>
    PROVE  /\ th' \in [Threads -> ThreadState]
           /\ th'[t] = s /\ \A u \in Threads : u # t => th'[u] = th[u]
           /\ Where' = Where
           /\ \A u \in Threads : Updating(u)' =>
                /\ Updating(u) /\ th'[u].hd = th[u].hd
                /\ th'[u].pc \notin Waits => th[u].pc \notin Waits \/ th[u].hd # current
           /\ Where \in Sends \cup {"clear"} => th'[Server] = th[Server]
           /\ PlaceInv' /\ CurrentInv'
<1> USE ServerAssumption DEF IInv, Threads
<1>1. /\ th' \in [Threads -> ThreadState]
      /\ th'[t] = s /\ \A u \in Threads : u # t => th'[u] = th[u]
  BY Zenon, OneThread
<1>2. Returns(t, s) => IF t = Server THEN /\ s.pc = th[Server].back /\ s.hd = req
                                     ELSE s.pc = "idle"
  BY SMTT(60) DEF Returns, Returned, Idle
<1>3. \A u \in Threads : Updating(u)' =>
        /\ Updating(u) /\ th'[u].hd = th[u].hd
        /\ th'[u].pc \notin Waits => th[u].pc \notin Waits \/ th[u].hd # current
  BY SMTT(60), <1>1, <1>2 DEF Stays, Updating, Waits, Sends, PlaceInv
<1>4. Where' = Where /\ (Where \in Sends \cup {"clear"} => th'[Server] = th[Server])
  BY SMTT(60), <1>1, <1>2 DEF Stays, Updating, Where, Waits, Sends, PlaceInv
<1>5. PlaceInv'
  <2>1. \A u \in Responders : th'[u].pc = "idle" \/ Updating(u)'
    BY SMTT(60), <1>1, <1>2 DEF Stays, Updating, Waits, Sends, PlaceInv
  <2>2. Updating(Server)' => /\ th'[Server].back \in {"handler", "handled"}
                             /\ th'[Server].hd # current
    BY SMTT(60), <1>1, <1>2, <1>3 DEF Stays, Updating, Waits, Sends, PlaceInv
  <2>3. (Where' # "idle" /\ ~Updating(Server)') => th'[Server].hd = req
    BY Zenon, <1>1, <1>2, <1>4 DEF Stays, Updating, Waits, Sends, PlaceInv
  <2> QED
    BY Zenon, <1>3, <1>4, <2>1, <2>2, <2>3 DEF PlaceInv
<1>6. CurrentInv'
  BY Zenon, <1>4 DEF CurrentInv
<1> QED
  BY Zenon, <1>1, <1>3, <1>4, <1>5, <1>6

\* A step of ggl_sub_respond that writes nothing and closes nothing.
LEMMA UpdaterKeeps ==
    ASSUME IInv, NEW t \in Threads, Updating(t), NEW s, th' = [th EXCEPT ![t] = s],
           s \in ThreadState, Stays(t, s) \/ Returns(t, s),
           UNCHANGED <<conn, peer, inbox, rtype, cleanup, current, req, registered, wire,
                       closes, updates>>,
           curMtx' \in Threads \cup {NoThread}, encode' \in Threads \cup {NoThread}
    PROVE  /\ TypeOK' /\ PlaceInv' /\ CurrentInv' /\ FreshInv' /\ RequestInv'
           /\ TableInv' /\ UpdateInv' /\ ClosedExactlyOnce' /\ AcceptedFirst'
<1> USE ServerAssumption DEF IInv
<1>1. /\ th' \in [Threads -> ThreadState]
      /\ Where' = Where
      /\ \A u \in Threads : Updating(u)' =>
           /\ Updating(u) /\ th'[u].hd = th[u].hd
           /\ th'[u].pc \notin Waits => th[u].pc \notin Waits \/ th[u].hd # current
      /\ Where \in Sends \cup {"clear"} => th'[Server] = th[Server]
      /\ PlaceInv' /\ CurrentInv'
  BY Zenon, UpdaterMoves
<1>2. TypeOK'
  BY Zenon, <1>1 DEF TypeOK
<1>3. AcceptedFirst' /\ \A g \in Handles : Accepted(g)' = Accepted(g)
  BY Zenon DEF AcceptedFirst, Accepted
<1>4. FreshInv'
  BY SMTT(60), <1>1 DEF FreshInv
<1>5. RequestInv'
  BY ZenonT(30), <1>1, <1>3 DEF RequestInv, PlaceInv, Sends
<1>6. TableInv'
  BY Zenon, <1>1, <1>3 DEF TableInv, TypeOK
<1>7. UpdateInv'
  BY SMTT(60), <1>1, <1>3 DEF UpdateInv, PlaceInv
<1>8. ClosedExactlyOnce'
  BY Zenon DEF ClosedExactlyOnce
<1> QED
  BY Zenon, <1>1, <1>2, <1>3, <1>4, <1>5, <1>6, <1>7, <1>8

\* What ggl_sub_respond returns to.
LEMMA ReturnedType ==
    ASSUME IInv, NEW t \in Threads, Updating(t)
    PROVE  Returned(t) \in ThreadState /\ ~(Returned(t).pc \in Sends)
<1>1. CASE t = Server
  <2>1. th[Server].back \in {"handler", "handled"} /\ req \in Handles \cup {NoHandle}
    BY Zenon, <1>1 DEF IInv, TypeOK, PlaceInv
  <2>2. [Idle EXCEPT !.pc = th[Server].back, !.hd = req] \in ThreadState
    BY Zenon, <2>1, StateType DEF Places
  <2> QED
    BY Zenon, <1>1, <2>1, <2>2 DEF Returned, Idle, Sends
<1>2. CASE t # Server
  BY Zenon, <1>2, StateType DEF Returned, Idle, Sends
<1> QED
  BY Zenon, <1>1, <1>2

\* ggl_sub_respond, up to its message.
LEMMA UpdateSteps ==
    ASSUME IInv, NEW t \in Threads,
           CheckType(t) \/ WaitWhileCurrentHandle(t) \/ WaitLock(t) \/ Recheck(t)
             \/ CondWait(t)
    PROVE  IInv'
<1> USE ServerAssumption DEF At, Go, clientVars, poolVars, appVars
<1>1. /\ th[t].pc \in Waits /\ Updating(t)
      /\ UNCHANGED <<conn, peer, inbox, rtype, cleanup, current, encode, req, registered,
                     wire, closes, updates>>
      /\ curMtx' \in Threads \cup {NoThread}
  BY Zenon DEF CheckType, WaitWhileCurrentHandle, WaitLock, Recheck, CondWait, Updating, Waits,
         IInv, TypeOK
<1>2. /\ th[t] \in ThreadState
      /\ th \in [Threads -> ThreadState]
      /\ Returned(t) \in ThreadState /\ Returned(t).pc \notin Sends
  BY Zenon, <1>1, ReturnedType DEF IInv, TypeOK
<1> DEFINE Going(p) == [th[t] EXCEPT !.pc = p]
           Update == [th[t] EXCEPT !.pc = "lock", !.msg = "update"]
           Keeps(s) == /\ s \in ThreadState
                       /\ Stays(t, s) \/ Returns(t, s)
                       /\ s.pc \notin {"write", "close"}
<1>3. \A p \in Waits : Keeps(Going(p))
  <2> SUFFICES ASSUME NEW p \in Waits PROVE Keeps(Going(p))
    BY Zenon
  <2>1. Going(p) \in ThreadState
    BY Zenon, <1>2, StateType DEF Waits, Places
  <2>2. Going(p).pc = p /\ Going(p).hd = th[t].hd /\ Going(p).back = th[t].back
    BY Zenon, <1>2 DEF ThreadState
  <2> QED
    BY Zenon, <1>1, <2>1, <2>2 DEF Stays, Waits
<1>4. th[t].hd # current => Keeps(Update)
  <2>1. Update \in ThreadState
    BY Zenon, <1>2, StateType DEF Places, Messages
  <2>2. /\ Update.pc = "lock" /\ Update.msg = "update"
        /\ Update.hd = th[t].hd /\ Update.back = th[t].back
    BY Zenon, <1>2 DEF ThreadState
  <2> QED
    BY Zenon, <2>1, <2>2 DEF Stays, Sends
<1>5. Keeps(Returned(t))
  BY Zenon, <1>2 DEF Returns, Sends
<1>6. PICK s : Keeps(s) /\ th' = [th EXCEPT ![t] = s]
  <2>1. \/ \E p \in Waits : th' = [th EXCEPT ![t] = Going(p)]
        \/ th[t].hd # current /\ th' = [th EXCEPT ![t] = Update]
        \/ th' = [th EXCEPT ![t] = Returned(t)]
    BY Zenon, <1>2 DEF CheckType, WaitWhileCurrentHandle, WaitLock, Recheck, CondWait, IsCurrent,
           SendUpdate, Waits
  <2> HIDE DEF Keeps, To, Update
  <2> QED
    BY Zenon, <1>3, <1>4, <1>5, <2>1
<1>7. \A u \in Threads : (Writing(u) \/ Encodes(u)') => th'[u] = th[u]
  BY Zenon, <1>1, <1>2, <1>6 DEF Writing, Encodes, Waits
<1>8. encode' \in Threads \cup {NoThread}
  BY Zenon, <1>1 DEF IInv, TypeOK
<1>9. /\ TypeOK' /\ PlaceInv' /\ CurrentInv' /\ FreshInv' /\ RequestInv'
      /\ TableInv' /\ UpdateInv' /\ ClosedExactlyOnce' /\ AcceptedFirst'
  BY Zenon, <1>1, <1>6, <1>8, UpdaterKeeps
<1>10. MessagesWhole' /\ TailInv' /\ EncodeInv' /\ WriteInv'
  BY Zenon, <1>1, <1>7, SameMessages DEF IInv
<1> QED
  BY Zenon, <1>9, <1>10 DEF IInv

\* A call of ggl_sub_respond for a handle of the daemon's table.
LEMMA CallStep ==
    ASSUME IInv, NEW t \in Threads, NEW h \in Handles, SubRespond(t, h)
    PROVE  IInv'
<1> USE ServerAssumption DEF IInv, At, Go, clientVars, poolVars, appVars
<1> DEFINE s == [Idle EXCEPT !.pc = "check", !.hd = h, !.back = th[t].pc]
<1>1. /\ th[t].pc \in IF t = Server THEN {"handler", "handled"} ELSE {"idle"}
      /\ h \in registered /\ (t = Server => h # current)
      /\ th' = [th EXCEPT ![t] = s] /\ updates' \in 0..MaxUpdates
      /\ UNCHANGED <<conn, peer, inbox, rtype, cleanup, current, curMtx, encode, req,
                     registered, wire, closes>>
  BY SMTT(60) DEF SubRespond, TypeOK
<1>2. s \in ThreadState
  <2>1. 0 \in 0..Chunks /\ th[t].pc \in {"idle", "handler", "handled"}
    BY SMTT(60), <1>1
  <2> QED
    BY Zenon, <2>1 DEF ThreadState, Idle, Places, Messages
<1>3. s.pc = "check" /\ s.hd = h /\ s.back = th[t].pc
  BY Zenon DEF Idle
<1>4. /\ th' \in [Threads -> ThreadState]
      /\ th'[t] = s /\ \A u \in Threads : u # t => th'[u] = th[u]
  BY Zenon, <1>1, <1>2, OneThread
<1> HIDE DEF s
<1>5. /\ ~Updating(t) /\ Updating(t)' /\ Where' = Where
      /\ \A u \in Threads : u # t => Updating(u)' = Updating(u)
      /\ t = Server => Where \in {"handler", "handled"}
  BY Zenon, <1>1, <1>3, <1>4 DEF Updating, Where, Waits, Sends, Threads
<1>6. TypeOK'
  BY Zenon, <1>1, <1>4 DEF TypeOK
<1>7. /\ AcceptedFirst' /\ MessagesWhole' /\ TailInv' /\ EncodeInv' /\ WriteInv'
      /\ \A g \in Handles : Accepted(g)' = Accepted(g)
  <2>1. \A u \in Threads : (Writing(u) \/ Encodes(u)') => th'[u] = th[u]
    BY Zenon, <1>1, <1>3, <1>4 DEF Writing, Encodes
  <2> QED
    BY Zenon, <1>1, <2>1, SameMessages
<1>8. PlaceInv' /\ CurrentInv'
  BY Zenon, <1>1, <1>3, <1>4, <1>5 DEF PlaceInv, CurrentInv, Threads, Sends
<1>9. FreshInv'
  BY SMTT(60), <1>1, <1>3, <1>4, <1>5 DEF FreshInv
<1>10. RequestInv'
  BY SMTT(60), <1>1, <1>3, <1>4, <1>5, <1>7 DEF RequestInv, PlaceInv, Sends
<1>11. TableInv' /\ ClosedExactlyOnce'
  BY Zenon, <1>1, <1>5, <1>7 DEF TableInv, ClosedExactlyOnce, TypeOK
<1>12. UpdateInv'
  BY SMTT(60), <1>1, <1>3, <1>4, <1>5, <1>7 DEF UpdateInv, TableInv, PlaceInv, Waits
<1> QED
  BY Zenon, <1>6, <1>7, <1>8, <1>9, <1>10, <1>11, <1>12

\* Taking encode_array_mtx: no other thread is writing, and nothing is written
\* yet.
LEMMA LockMessages ==
    ASSUME IInv, NEW t \in Threads, LockEncode(t)
    PROVE  /\ AcceptedFirst' /\ MessagesWhole' /\ TailInv' /\ EncodeInv' /\ WriteInv'
           /\ \A g \in Handles : Accepted(g)' = Accepted(g)
<1> USE ServerAssumption DEF IInv, At, clientVars, poolVars, appVars
<1>1. /\ th[t].pc = "lock" /\ encode = NoThread /\ encode' = t
      /\ th'[t].pc = "write" /\ th'[t].part = 0
      /\ \A u \in Threads : u # t => th'[u] = th[u]
      /\ UNCHANGED <<wire, conn>>
  BY SMTT(60) DEF LockEncode, EncodeFree, TypeOK, ThreadState
<1>2. \A u \in Threads : ~Encodes(u)
  BY Zenon, <1>1 DEF EncodeInv, Threads
<1>3. AcceptedFirst' /\ \A g \in Handles : Accepted(g)' = Accepted(g)
  BY SMTT(60), <1>1 DEF AcceptedFirst, Accepted
<1>4. EncodeInv'
  BY ZenonT(30), <1>1, <1>2 DEF EncodeInv, Encodes
<1>5. WriteInv'
  BY SMTT(60), <1>1, <1>2 DEF WriteInv, Encodes
<1>6. \A g \in Handles : Closing(g) => Closing(g)'
  BY Zenon, <1>1 DEF Closing
<1>7. TailInv' /\ MessagesWhole'
  BY SMTT(60), <1>1, <1>2, <1>6 DEF TailInv, MessagesWhole, LastPiece, Encodes
<1> QED
  BY Zenon, <1>3, <1>4, <1>5, <1>7

\* A write that fails: the thread is about to close the handle.
LEMMA FailMessages ==
    ASSUME IInv, NEW t \in Threads, WriteFails(t)
    PROVE  /\ AcceptedFirst' /\ MessagesWhole' /\ TailInv' /\ EncodeInv' /\ WriteInv'
           /\ \A g \in Handles : Accepted(g)' = Accepted(g)
<1> USE ServerAssumption DEF IInv, At, clientVars, poolVars, appVars
<1>1. /\ th[t].pc = "write" /\ encode' = IF th[t].msg = "error" THEN encode ELSE NoThread
      /\ th'[t].pc = "close" /\ th'[t].hd = th[t].hd /\ th'[t].msg = th[t].msg
      /\ \A u \in Threads : u # t => th'[u] = th[u]
      /\ UNCHANGED <<wire, conn>>
  <2>1. th' = [th EXCEPT ![t] = [th[t] EXCEPT !.pc = "close"]]
    BY Zenon DEF WriteFails, Sent, KeptOpen
  <2>2. th[t] \in ThreadState
    BY Zenon DEF TypeOK
  <2>3. LET s == [th[t] EXCEPT !.pc = "close"]
        IN  s.pc = "close" /\ s.hd = th[t].hd /\ s.msg = th[t].msg
    BY Zenon, <2>2 DEF ThreadState
  <2> QED
    BY ZenonT(60), <2>1, <2>3 DEF WriteFails, Sent, TypeOK
<1>2. encode = t /\ \A u \in Threads : u # t => ~Encodes(u)
  BY SMTT(60), <1>1 DEF EncodeInv, Encodes
<1>3. AcceptedFirst' /\ \A g \in Handles : Accepted(g)' = Accepted(g)
  BY SMTT(60), <1>1 DEF AcceptedFirst, Accepted
<1>4. EncodeInv'
  BY ZenonT(30), <1>1, <1>2 DEF EncodeInv, Encodes, Threads
<1>5. WriteInv'
  BY ZenonT(30), <1>1, <1>2 DEF WriteInv, Encodes
<1>6. /\ \A g \in Handles : Closing(g) => Closing(g)'
      /\ th[t].hd \in Handles => Closing(th[t].hd)'
  BY ZenonT(30), <1>1 DEF Closing
<1>7. TailInv' /\ MessagesWhole'
  BY SMTT(60), <1>1, <1>2, <1>6 DEF TailInv, MessagesWhole, LastPiece, Encodes
<1> QED
  BY Zenon, <1>3, <1>4, <1>5, <1>7

\* Closing a handle: nothing more is written to it.
LEMMA CloseMessages ==
    ASSUME IInv, NEW t \in Threads, Close(t), th[t].hd \in Handles,
           Releases(th[t].hd)
    PROVE  /\ AcceptedFirst' /\ MessagesWhole' /\ TailInv' /\ EncodeInv' /\ WriteInv'
           /\ \A g \in Handles : Accepted(g)' = Accepted(g)
<1> USE ServerAssumption DEF IInv, At, clientVars, poolVars, appVars
<1>1. /\ th[t].pc = "close" /\ encode' = IF encode = t THEN NoThread ELSE encode
      /\ \A u \in Threads : u # t => th'[u] = th[u]
      /\ wire' = wire
  BY Zenon DEF Close, TypeOK
<1>2. th'[t].pc \notin {"write", "close"}
  <2>1. th'[t] = Returned(t) \/ th'[t] = Idle \/ th'[t] = [th[t] EXCEPT !.pc = "clear"]
    BY Zenon DEF Close, TypeOK
  <2>2. th[t] \in ThreadState
    BY Zenon DEF TypeOK
  <2>3. Returned(t).pc \in {"idle", "handler", "handled"}
    BY Zenon, <2>2 DEF Returned, Idle, ThreadState
  <2>4. [th[t] EXCEPT !.pc = "clear"].pc = "clear"
    BY Zenon, <2>2 DEF ThreadState
  <2>5. Idle.pc = "idle"
    BY Zenon DEF Idle
  <2> QED
    BY Zenon, <2>1, <2>3, <2>4, <2>5
<1>3. AcceptedFirst' /\ \A g \in Handles : Accepted(g)' = Accepted(g)
  BY ZenonT(30), <1>1 DEF AcceptedFirst, Accepted
<1>4. EncodeInv'
  BY ZenonT(30), <1>1, <1>2 DEF EncodeInv, Encodes, Threads
<1>5. WriteInv'
  BY SMTT(60), <1>1, <1>2 DEF WriteInv, LastPiece
<1>6. \A g \in Handles : Closing(g) => Closing(g)' \/ conn'[g] = "released"
  BY Zenon, <1>1 DEF Closing, Releases
<1>7. MessagesWhole'
  <2>1. \A g \in Handles : conn[g] = "released" => conn'[g] = "released"
    BY Zenon DEF Releases
  <2> QED
    BY SMTT(60), <1>1, <1>6, <2>1 DEF MessagesWhole
<1>8. TailInv'
  <2>1. \A g \in Handles : conn'[g] = "live" => conn[g] = "live" /\ g # th[t].hd
    BY Zenon DEF Releases
  <2> QED
    BY SMTT(60), <1>1, <1>6, <2>1 DEF TailInv, LastPiece
<1> QED
  BY Zenon, <1>3, <1>4, <1>5, <1>7, <1>8

\* A piece that is written goes to an accepted subscription, if it is part of
\* a subscription response, and otherwise is the next piece of the one answer.
LEMMA WritePlace ==
    ASSUME IInv, NEW t \in Threads, Write(t)
    PROVE  /\ th[t].hd \in Handles /\ Valid(th[t].hd)
           /\ Updating(t) => th[t].msg = "update" /\ Accepted(th[t].hd)
           /\ ~Updating(t) => /\ t = Server /\ th[t].hd = req /\ Where = "write"
                              /\ th[t].msg \in {"accepted", "response", "error"}
                              /\ Len(wire[req]) = th[t].part
                              /\ \A i \in 1..Len(wire[req]) : wire[req][i].msg = th[t].msg
<1> USE ServerAssumption DEF IInv, At, Valid
<1>1. th[t].pc = "write" /\ conn[th[t].hd] = "live"
  BY Zenon DEF Write
<1>2. CASE Updating(t)
  <2>1. th[t].hd \in Handles /\ th[t].msg = "update"
    BY Zenon, <1>1, <1>2 DEF PlaceInv, Updating, Waits
  <2> QED
    BY Zenon, <1>1, <1>2, <2>1 DEF UpdateInv, Waits
<1>3. CASE ~Updating(t)
  <2>1. t = Server
    BY Zenon, <1>1, <1>3 DEF PlaceInv, Threads
  <2>2. Where = "write"
    BY Zenon, <1>1, <1>3, <2>1 DEF Where
  <2> QED
    BY Zenon, <1>1, <1>3, <2>1, <2>2 DEF PlaceInv, RequestInv, Sends
<1> QED
  BY Zenon, <1>2, <1>3

\* The wire after the piece p was written to h, as its piece n + 1.
Wrote(t, h, p, n) ==
    /\ h = th[t].hd /\ n = Len(wire[h])
    /\ p.msg = th[t].msg /\ p.part = th[t].part + 1 /\ p.by = t
    /\ wire' \in [Handles -> Seq([msg : Messages, part : 1..Chunks, by : Threads])]
    /\ Len(wire'[h]) = n + 1 /\ wire'[h][n + 1] = p
    /\ \A i \in 1..n : wire'[h][i] = wire[h][i]
    /\ \A g \in Handles : g # h => wire'[g] = wire[g]

LEMMA WriteWire ==
    ASSUME IInv, NEW t \in Threads, Write(t)
    PROVE  \E h \in Handles, n \in Nat,
              p \in [msg : Messages, part : 1..Chunks, by : Threads] : Wrote(t, h, p, n)
<1> USE ServerAssumption
<1> DEFINE P == [msg : Messages, part : 1..Chunks, by : Threads]
<1>1. PICK h \in Handles : h = th[t].hd
  BY Zenon, WritePlace
<1>2. PICK p \in P : p = [msg |-> th[t].msg, part |-> th[t].part + 1, by |-> t]
  <2>1. th[t] \in ThreadState /\ th[t].part < Chunks
    BY Zenon DEF IInv, TypeOK, WriteInv, Write
  <2>2. th[t].part + 1 \in 1..Chunks /\ th[t].msg \in Messages
    BY SMTT(60), <2>1 DEF ThreadState
  <2> QED
    BY Zenon, <2>2
<1>3. wire \in [Handles -> Seq(P)] /\ wire' = [wire EXCEPT ![h] = Append(@, p)]
  BY Zenon, <1>1, <1>2 DEF IInv, TypeOK, Write
<1>4. p.msg = th[t].msg /\ p.part = th[t].part + 1 /\ p.by = t
  BY Zenon, <1>2
<1> HIDE DEF P
<1>5. /\ wire' \in [Handles -> Seq(P)]
      /\ Len(wire[h]) \in Nat
      /\ Len(wire'[h]) = Len(wire[h]) + 1 /\ wire'[h][Len(wire[h]) + 1] = p
      /\ \A i \in 1..Len(wire[h]) : wire'[h][i] = wire[h][i]
      /\ \A g \in Handles : g # h => wire'[g] = wire[g]
  BY SMTT(60), <1>2, <1>3
<1>6. Wrote(t, h, p, Len(wire[h]))
  BY Zenon, <1>1, <1>4, <1>5 DEF Wrote, P
<1> QED
  BY Zenon, <1>5, <1>6 DEF P

\* The thread's next place: the next part, or what follows the message.
LEMMA WriteThread ==
    ASSUME IInv, NEW t \in Threads, Write(t)
    PROVE  /\ th[t].pc = "write" /\ encode = t
           /\ \A u \in Threads : u # t => th'[u] = th[u] /\ ~Encodes(u)
           /\ \/ /\ th[t].part + 1 < Chunks /\ encode' = encode
                 /\ th' = [th EXCEPT ![t] = [th[t] EXCEPT !.part = th[t].part + 1]]
              \/ /\ th[t].part + 1 = Chunks
                 /\ encode' = IF th[t].msg = "error" THEN encode ELSE NoThread
                 /\ \/ /\ th[t].msg = "update" /\ th' = [th EXCEPT ![t] = Returned(t)]
                    \/ /\ th[t].msg = "accepted"
                       /\ th' = [th EXCEPT ![t] = [th[t] EXCEPT !.pc = "clear"]]
                    \/ /\ th[t].msg \notin {"accepted", "update"}
                       /\ th' = [th EXCEPT ![t] = [th[t] EXCEPT !.pc = "close"]]
<1> USE ServerAssumption DEF IInv, At
<1>1. th[t].pc = "write" /\ th[t].part < Chunks /\ th[t].part \in Nat
  <2>1. th[t].pc = "write" /\ th[t] \in ThreadState
    BY Zenon DEF Write, TypeOK
  <2>2. th[t].part \in 0..Chunks
    BY Zenon, <2>1 DEF ThreadState
  <2>3. th[t].part < Chunks
    BY Zenon, <2>1 DEF WriteInv
  <2> QED
    BY SMTT(60), <2>1, <2>2, <2>3
<1>2. encode = t /\ \A u \in Threads : u # t => ~Encodes(u)
  BY Zenon, <1>1 DEF EncodeInv, Encodes
<1>3. \A u \in Threads : u # t => th'[u] = th[u]
  BY ZenonT(60) DEF Write, Sent, TypeOK
<1>4. CASE th[t].part + 1 = Chunks
  <2>1. Sent(t, TRUE)
    BY Zenon, <1>4 DEF Write, IsLast
  <2> QED
    BY Zenon, <1>1, <1>2, <1>3, <1>4, <2>1 DEF Sent, KeptOpen
<1>5. CASE th[t].part + 1 # Chunks
  <2>1. th' = [th EXCEPT ![t].part = th[t].part + 1] /\ encode' = encode
    BY Zenon, <1>5 DEF Write, IsLast
  <2>2. th[t].part + 1 < Chunks
    BY SMTT(60), <1>1, <1>5
  <2> QED
    BY Zenon, <1>1, <1>2, <1>3, <2>1, <2>2
<1> QED
  BY Zenon, <1>4, <1>5

=============================================================================
