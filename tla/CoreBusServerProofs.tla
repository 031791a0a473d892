------------------------ MODULE CoreBusServerProofs ------------------------
(***************************************************************************)
(* What clients and daemons rely on in the core bus server, proved for any *)
(* number of connections, responders, responses and parts of a message.    *)
(* The steps that write are here; the others are in CoreBusServerSteps.    *)
(***************************************************************************)
EXTENDS CoreBusServerSteps

\* Writing one piece keeps messages whole and in order.
LEMMA WriteMessages ==
    ASSUME IInv, NEW t \in Threads, Write(t)
    PROVE  /\ AcceptedFirst' /\ MessagesWhole' /\ TailInv' /\ EncodeInv' /\ WriteInv'
           /\ \A g \in Handles : Accepted(g) => Accepted(g)'
<1> USE ServerAssumption DEF At
<1>1. PICK h \in Handles, n \in Nat, p \in [msg : Messages, part : 1..Chunks, by : Threads] :
         Wrote(t, h, p, n)
  BY Zenon, WriteWire
<1>2. /\ h = th[t].hd /\ n = Len(wire[h])
      /\ p.msg = th[t].msg /\ p.part = th[t].part + 1 /\ p.by = t
      /\ Len(wire'[h]) = n + 1 /\ wire'[h][n + 1] = p
      /\ \A i \in 1..n : wire'[h][i] = wire[h][i]
      /\ \A g \in Handles : g # h => wire'[g] = wire[g]
  BY Zenon, <1>1 DEF Wrote
<1>3. /\ conn[h] = "live" /\ conn' = conn
      /\ Updating(t) => p.msg = "update" /\ Accepted(h)
      /\ ~Updating(t) => p.msg # "update" /\ n = th[t].part
  <2>1. conn' = conn
    BY Zenon DEF Write, poolVars
  <2> QED
    BY SMTT(60), <1>2, <2>1, WritePlace DEF Valid
<1>4. /\ th[t].pc = "write" /\ encode = t
      /\ \A u \in Threads : u # t => th'[u] = th[u] /\ ~Encodes(u)
      /\ th[t].part \in Nat /\ th[t].part < Chunks
  <2>1. th[t].part \in 0..Chunks
    BY Zenon DEF IInv, TypeOK, ThreadState
  <2> QED
    BY SMTT(60), <2>1, WriteThread DEF IInv, WriteInv
<1>5. \/ /\ p.part < Chunks /\ encode' = t
         /\ th'[t].pc = "write" /\ th'[t].hd = h /\ th'[t].msg = p.msg
         /\ th'[t].part = p.part
      \/ /\ p.part = Chunks /\ th'[t].pc # "write"
         /\ encode' = IF p.msg = "error" THEN t ELSE NoThread
         /\ (th'[t].pc = "close" /\ th'[t].msg = "error") <=> p.msg = "error"
  <2>1. th[t] \in ThreadState /\ th \in [Threads -> ThreadState]
    BY Zenon DEF IInv, TypeOK
  <2>2. th[t].msg = "update" => Returned(t).pc \notin {"write", "close"}
    <3>1. th[t].msg = "update" => Updating(t)
      BY Zenon, <1>4 DEF Updating, Sends
    <3> QED
      BY Zenon, <3>1, ReturnedType DEF Sends
  <2>3. CASE p.part < Chunks
    <3>1. th' = [th EXCEPT ![t] = [th[t] EXCEPT !.part = p.part]] /\ encode' = encode
      BY SMTT(60), <1>2, <2>3, WriteThread
    <3>2. LET s == [th[t] EXCEPT !.part = p.part]
          IN  s.pc = th[t].pc /\ s.hd = th[t].hd /\ s.msg = th[t].msg /\ s.part = p.part
      BY Zenon, <2>1 DEF ThreadState
    <3> QED
      BY ZenonT(30), <1>2, <1>4, <2>1, <2>3, <3>1, <3>2
  <2>4. CASE p.part = Chunks
    <3>1. /\ encode' = IF p.msg = "error" THEN encode ELSE NoThread
          /\ \/ p.msg = "update" /\ th' = [th EXCEPT ![t] = Returned(t)]
             \/ p.msg = "accepted" /\ th' = [th EXCEPT ![t] = [th[t] EXCEPT !.pc = "clear"]]
             \/ /\ p.msg \notin {"accepted", "update"}
                /\ th' = [th EXCEPT ![t] = [th[t] EXCEPT !.pc = "close"]]
      BY SMTT(60), <1>2, <2>4, WriteThread
    <3>2. /\ [th[t] EXCEPT !.pc = "clear"].pc = "clear"
          /\ [th[t] EXCEPT !.pc = "close"].pc = "close"
          /\ [th[t] EXCEPT !.pc = "close"].msg = th[t].msg
      BY Zenon, <2>1 DEF ThreadState
    <3>3. \/ p.msg = "update" /\ th'[t] = Returned(t)
          \/ p.msg = "accepted" /\ th'[t].pc = "clear"
          \/ /\ p.msg \notin {"accepted", "update"}
             /\ th'[t].pc = "close" /\ th'[t].msg = p.msg
      BY ZenonT(60), <1>2, <2>1, <3>1, <3>2
    <3> QED
      BY Zenon, <1>2, <1>4, <2>2, <2>4, <3>1, <3>3
  <2> QED
    BY SMTT(60), <1>1, <2>3, <2>4
<1>6. \A g \in Handles : Accepted(g) => Accepted(g)'
  <2>1. Accepted(h) => \A j \in 1..Chunks : j \in 1..n /\ wire'[h][j].msg = "accepted"
    BY SMTT(60), <1>1, <1>2 DEF Accepted
  <2>2. Accepted(h) => Accepted(h)'
    BY SMTT(60), <1>1, <1>2, <2>1 DEF Accepted
  <2>3. \A g \in Handles : g # h => (Accepted(g) => Accepted(g)')
    BY SMTT(60), <1>2 DEF Accepted
  <2> QED
    BY Zenon, <2>2, <2>3
<1>7. AcceptedFirst'
  <2> SUFFICES ASSUME NEW i \in 1..(n + 1)
               PROVE  IF wire'[h][i].msg = "update"
                        THEN i > Chunks /\ \A j \in 1..Chunks : wire'[h][j].msg = "accepted"
                        ELSE i <= Chunks
    <3>1. \A g \in Handles : g # h => \A i \in 1..Len(wire'[g]) :
            IF wire'[g][i].msg = "update"
              THEN i > Chunks /\ \A j \in 1..Chunks : wire'[g][j].msg = "accepted"
              ELSE i <= Chunks
      BY SMTT(60), <1>2 DEF IInv, AcceptedFirst
    <3>2. \A i \in 1..Len(wire'[h]) :
            IF wire'[h][i].msg = "update"
              THEN i > Chunks /\ \A j \in 1..Chunks : wire'[h][j].msg = "accepted"
              ELSE i <= Chunks
      BY Zenon, <1>2
    <3> QED
      BY Zenon, <3>1, <3>2 DEF AcceptedFirst
  <2>1. CASE i \in 1..n
    <3>1. wire[h][i].msg = "update" => i > Chunks /\ Accepted(h)
      BY SMTT(60), <1>1, <1>2, <2>1 DEF IInv, AcceptedFirst, Accepted
    <3>2. wire[h][i].msg # "update" => i <= Chunks
      BY Zenon, <1>1, <1>2, <2>1 DEF IInv, AcceptedFirst
    <3>3. wire'[h][i] = wire[h][i]
      BY Zenon, <1>2, <2>1
    <3>4. Accepted(h) => \A j \in 1..Chunks : wire'[h][j].msg = "accepted"
      BY Zenon, <1>6 DEF Accepted
    <3> QED
      BY Zenon, <3>1, <3>2, <3>3, <3>4
  <2>2. CASE i = n + 1 /\ Updating(t)
    <3>1. wire'[h][i].msg = "update" /\ i > Chunks
      BY SMTT(60), <1>1, <1>2, <1>3, <2>2 DEF Accepted
    <3>2. \A j \in 1..Chunks : wire'[h][j].msg = "accepted"
      BY Zenon, <1>3, <1>6, <2>2 DEF Accepted
    <3> QED
      BY Zenon, <3>1, <3>2
  <2>3. CASE i = n + 1 /\ ~Updating(t)
    BY SMTT(60), <1>1, <1>2, <1>3, <1>4, <2>3
  <2> QED
    BY SMTT(60), <1>1, <2>1, <2>2, <2>3
<1>8. \A g \in Handles : Closing(g) => Closing(g)'
  BY Zenon, <1>4 DEF Closing
<1>9. MessagesWhole'
  <2> DEFINE Follows(w, i) ==
               IF w[i].part = 1
                 THEN i = 1 \/ w[i - 1].part = Chunks \/ Closing(h)
                 ELSE i > 1 /\ w[i - 1] = [w[i] EXCEPT !.part = @ - 1]
  <2>1. \A i \in 1..n : Follows(wire[h], i)
    <3>1. \A i \in 1..Len(wire[h]) : Follows(wire[h], i)
      BY Zenon, <1>3 DEF IInv, MessagesWhole
    <3> QED
      BY Zenon, <1>2, <3>1
  <2>2. \A i \in 1..n : Follows(wire'[h], i)
    <3> SUFFICES ASSUME NEW i \in 1..n PROVE Follows(wire'[h], i)
      BY Zenon
    <3>1. wire'[h][i] = wire[h][i] /\ (i > 1 => wire'[h][i - 1] = wire[h][i - 1])
      BY SMTT(60), <1>1, <1>2
    <3> QED
      BY SMTT(60), <2>1, <3>1
  <2>3. Follows(wire'[h], n + 1)
    <3>1. CASE th[t].part = 0 /\ n > 0
      <4>1. LastPiece(h).part = Chunks \/ Closing(h)
        <5>1. wire[h] # <<>>
          BY SMTT(60), <1>2, <3>1
        <5> QED
          BY SMTT(60), <1>2, <1>3, <1>4, <3>1, <5>1 DEF IInv, TailInv, Encodes
      <4>2. wire'[h][n] = LastPiece(h)
        BY SMTT(60), <1>2, <3>1 DEF LastPiece
      <4> QED
        BY SMTT(60), <1>1, <1>2, <3>1, <4>1, <4>2
    <3>2. CASE th[t].part = 0 /\ n = 0
      BY SMTT(60), <1>2, <3>2
    <3>3. CASE th[t].part > 0
      <4>1. /\ wire[h] # <<>>
            /\ LastPiece(h) = [msg |-> th[t].msg, part |-> th[t].part, by |-> t]
        BY Zenon, <1>2, <1>4, <3>3 DEF IInv, WriteInv
      <4>2. n > 0
        <5>1. wire[h] \in Seq([msg : Messages, part : 1..Chunks, by : Threads])
          BY Zenon, <1>1 DEF IInv, TypeOK
        <5> QED
          BY SMTT(60), <1>2, <4>1, <5>1
      <4>3. wire'[h][n] = [msg |-> p.msg, part |-> p.part - 1, by |-> p.by]
        <5>1. wire'[h][n] = LastPiece(h)
          <6>1. n \in 1..n
            BY SMTT(60), <1>1, <4>2
          <6> QED
            BY Zenon, <1>2, <6>1 DEF LastPiece
        <5>2. p.part - 1 = th[t].part
          BY SMTT(60), <1>2, <1>4
        <5> QED
          BY Zenon, <1>2, <4>1, <5>1, <5>2
      <4>4. [p EXCEPT !.part = @ - 1] = [msg |-> p.msg, part |-> p.part - 1, by |-> p.by]
        BY SMTT(60), <1>1
      <4>5. p.part # 1
        BY SMTT(60), <1>2, <1>4, <3>3
      <4>6. wire'[h][n + 1] = p /\ n + 1 > 1 /\ (n + 1) - 1 = n
        BY SMTT(60), <1>1, <1>2, <4>2
      <4> QED
        BY Zenon, <4>3, <4>4, <4>5, <4>6
    <3> QED
      BY SMTT(60), <1>1, <1>4, <3>1, <3>2, <3>3
  <2>4. \A i \in 1..(n + 1) : Follows(wire'[h], i)
    BY SMTT(60), <1>1, <2>2, <2>3
  <2> HIDE DEF Follows
  <2>5. \A i \in 1..Len(wire'[h]) : Follows(wire'[h], i)
    BY Zenon, <1>2, <2>4
  <2>6. \A g \in Handles : g # h => \A i \in 1..Len(wire'[g]) :
          IF wire'[g][i].part = 1
            THEN \/ i = 1 \/ wire'[g][i - 1].part = Chunks
                 \/ Closing(g)' \/ conn'[g] = "released"
            ELSE i > 1 /\ wire'[g][i - 1] = [wire'[g][i] EXCEPT !.part = @ - 1]
    BY SMTT(60), <1>2, <1>3, <1>8 DEF IInv, MessagesWhole
  <2> QED
    BY Zenon, <1>8, <2>5, <2>6 DEF MessagesWhole, Follows
<1>10. TailInv'
  <2>1. LastPiece(h)' = p
    BY Zenon, <1>2 DEF LastPiece
  <2> SUFFICES ASSUME NEW g \in Handles, conn'[g] = "live", wire'[g] # <<>>,
                      LastPiece(g)'.part # Chunks
               PROVE  \/ Closing(g)'
                      \/ \E u \in Threads : /\ th'[u].pc = "write" /\ th'[u].hd = g
                                            /\ th'[u].part > 0
    BY Zenon DEF TailInv
  <2>2. CASE g = h
    BY SMTT(60), <1>1, <1>5, <2>1, <2>2
  <2>3. CASE g # h
    <3>1. wire'[g] = wire[g] /\ LastPiece(g)' = LastPiece(g)
      BY Zenon, <1>2, <2>3 DEF LastPiece
    <3>2. Closing(g) \/ \E u \in Threads : At(u, "write") /\ th[u].hd = g /\ th[u].part > 0
      BY SMTT(60), <1>3, <3>1 DEF IInv, TailInv
    <3> QED
      BY Zenon, <1>2, <1>4, <1>8, <2>3, <3>2 DEF Encodes
  <2> QED
    BY Zenon, <2>2, <2>3
<1>11. EncodeInv'
  BY SMTT(60), <1>4, <1>5 DEF Encodes, EncodeInv, Threads
<1>12. WriteInv'
  <2> SUFFICES ASSUME NEW u \in Threads, th'[u].pc = "write"
               PROVE  /\ th'[u].part < Chunks
                      /\ th'[u].part > 0 =>
                           /\ wire'[th'[u].hd] # <<>>
                           /\ LastPiece(th[u].hd)' =
                                [msg |-> th'[u].msg, part |-> th'[u].part, by |-> u]
    BY Zenon DEF WriteInv
  <2>1. u = t
    BY Zenon, <1>4 DEF Encodes
  <2>2. /\ p.part < Chunks /\ th'[t].hd = h /\ th'[t].msg = p.msg
        /\ th'[t].part = p.part
    BY Zenon, <1>5, <2>1
  <2>3. p = [msg |-> p.msg, part |-> p.part, by |-> t]
    BY Zenon, <1>1, <1>2
  <2>4. wire'[h] # <<>> /\ wire'[h][Len(wire'[h])] = p
    BY SMTT(60), <1>1, <1>2
  <2> QED
    BY Zenon, <2>1, <2>2, <2>3, <2>4 DEF LastPiece
<1> QED
  BY Zenon, <1>6, <1>7, <1>9, <1>10, <1>11, <1>12

\* A thread that sends a message is in ggl_sub_respond, or is the server thread
\* answering its request.
LEMMA SendPlace ==
    ASSUME IInv, NEW t \in Threads, th[t].pc \in Sends
    PROVE  /\ th[t] \in ThreadState /\ th \in [Threads -> ThreadState]
           /\ Updating(t) => th[t].msg = "update" /\ th[t].hd \in Handles
           /\ ~Updating(t) => /\ t = Server /\ th[t].hd = req /\ req \in Handles
                              /\ Where = th[t].pc
                              /\ th[t].msg \in {"accepted", "response", "error"}
<1> USE DEF IInv
<1>1. th[t] \in ThreadState /\ th \in [Threads -> ThreadState]
  BY Zenon DEF TypeOK
<1>2. Updating(t) => th[t].msg = "update" /\ th[t].hd \in Handles
  BY Zenon DEF PlaceInv, Updating, Waits, Sends
<1>3. ~Updating(t) => t = Server /\ Where = th[t].pc
  BY Zenon DEF PlaceInv, Threads, Where, Sends
<1> QED
  BY Zenon, <1>1, <1>2, <1>3 DEF PlaceInv, Sends

\* ggl_sub_respond takes encode_array_mtx, or its write fails.
LEMMA UpdateSends ==
    ASSUME IInv, NEW t \in Threads, Updating(t), LockEncode(t) \/ WriteFails(t)
    PROVE  IInv'
<1> USE ServerAssumption DEF At, clientVars, poolVars, appVars
<1>1. th[t].pc \in {"lock", "write"}
  BY Zenon DEF LockEncode, WriteFails
<1>2. th[t] \in ThreadState /\ th[t].msg = "update" /\ th[t].hd \in Handles
  BY Zenon, <1>1, SendPlace DEF Sends
<1>3. PICK s \in ThreadState : /\ s.pc \in {"write", "close"} /\ s.hd = th[t].hd
                               /\ s.msg = "update" /\ s.back = th[t].back
                               /\ th' = [th EXCEPT ![t] = s]
  <2>1. CASE LockEncode(t)
    <3> DEFINE s == [th[t] EXCEPT !.pc = "write", !.part = 0]
    <3>1. s \in ThreadState
      BY Zenon, <1>2, StateType DEF Places
    <3>2. s.pc = "write" /\ s.hd = th[t].hd /\ s.msg = th[t].msg /\ s.back = th[t].back
      BY Zenon, <1>2 DEF ThreadState
    <3>3. th' = [th EXCEPT ![t] = s]
      BY Zenon, <2>1 DEF LockEncode
    <3> HIDE DEF s
    <3> QED
      BY Zenon, <1>2, <3>1, <3>2, <3>3
  <2>2. CASE WriteFails(t)
    <3> DEFINE s == [th[t] EXCEPT !.pc = "close"]
    <3>1. s \in ThreadState
      BY Zenon, <1>2, StateType DEF Places
    <3>2. s.pc = "close" /\ s.hd = th[t].hd /\ s.msg = th[t].msg /\ s.back = th[t].back
      BY Zenon, <1>2 DEF ThreadState
    <3>3. th' = [th EXCEPT ![t] = s]
      BY Zenon, <2>2 DEF WriteFails, Sent, KeptOpen
    <3> HIDE DEF s
    <3> QED
      BY Zenon, <1>2, <3>1, <3>2, <3>3
  <2> QED
    BY Zenon, <2>1, <2>2
<1>4. Stays(t, s)
  BY Zenon, <1>1, <1>3 DEF Stays, Sends
<1>5. /\ UNCHANGED <<conn, peer, inbox, rtype, cleanup, current, curMtx, req, registered,
                     wire, closes, updates>>
      /\ curMtx' \in Threads \cup {NoThread} /\ encode' \in Threads \cup {NoThread}
  BY Zenon DEF LockEncode, WriteFails, Sent, IInv, TypeOK
<1>6. /\ TypeOK' /\ PlaceInv' /\ CurrentInv' /\ FreshInv' /\ RequestInv'
      /\ TableInv' /\ UpdateInv' /\ ClosedExactlyOnce' /\ AcceptedFirst'
  BY Zenon, <1>3, <1>4, <1>5, UpdaterKeeps
<1>7. MessagesWhole' /\ TailInv' /\ EncodeInv' /\ WriteInv'
  BY Zenon, LockMessages, FailMessages
<1> QED
  BY Zenon, <1>6, <1>7 DEF IInv

\* ggl_sub_respond writes a piece of its message: the connection is that of an
\* accepted subscription, not of a request that is being answered.
LEMMA UpdateWrites ==
    ASSUME IInv, NEW t \in Threads, Updating(t), Write(t)
    PROVE  IInv'
<1> USE ServerAssumption DEF At, clientVars, poolVars, appVars
<1>1. /\ th[t].pc = "write"
      /\ UNCHANGED <<conn, peer, inbox, rtype, cleanup, current, curMtx, req, registered,
                     closes, updates>>
  BY Zenon DEF Write
<1>2. th[t] \in ThreadState /\ th[t].msg = "update"
  BY Zenon, <1>1, SendPlace DEF Sends
<1>3. PICK h \in Handles : h = th[t].hd /\ conn[h] = "live" /\ Accepted(h)
  BY Zenon, WritePlace DEF Valid
<1>4. /\ wire' \in [Handles -> Seq([msg : Messages, part : 1..Chunks, by : Threads])]
      /\ \A g \in Handles : g # h => wire'[g] = wire[g]
  BY ZenonT(60), <1>3, WriteWire DEF Wrote
<1>5. PICK s \in ThreadState : th' = [th EXCEPT ![t] = s] /\ (Stays(t, s) \/ Returns(t, s))
  <2> DEFINE s == [th[t] EXCEPT !.part = th[t].part + 1]
  <2>1. th[t].part + 1 < Chunks => s \in ThreadState
    <3>1. th[t].part \in 0..Chunks
      BY Zenon, <1>2 DEF ThreadState
    <3>2. th[t].part + 1 < Chunks => th[t].part + 1 \in 0..Chunks
      BY SMTT(60), <3>1
    <3> QED
      BY Zenon, <1>2, <3>2, StateType
  <2>2. s.pc = "write" /\ s.hd = th[t].hd /\ s.msg = "update" /\ s.back = th[t].back
    BY Zenon, <1>1, <1>2 DEF ThreadState
  <2>3. Stays(t, s)
    BY Zenon, <1>1, <2>2 DEF Stays, Sends
  <2>4. \/ th[t].part + 1 < Chunks /\ th' = [th EXCEPT ![t] = s]
        \/ th' = [th EXCEPT ![t] = Returned(t)]
    BY Zenon, <1>2, WriteThread
  <2> HIDE DEF s
  <2> QED
    BY Zenon, <2>1, <2>3, <2>4, ReturnedType DEF Returns
<1>6. /\ th' \in [Threads -> ThreadState]
      /\ Where' = Where
      /\ \A u \in Threads : Updating(u)' =>
           /\ Updating(u) /\ th'[u].hd = th[u].hd
           /\ th'[u].pc \notin Waits => th[u].pc \notin Waits \/ th[u].hd # current
      /\ Where \in Sends \cup {"clear"} => th'[Server] = th[Server]
      /\ PlaceInv' /\ CurrentInv'
  BY Zenon, <1>1, <1>5, UpdaterMoves
<1>7. /\ AcceptedFirst' /\ MessagesWhole' /\ TailInv' /\ EncodeInv' /\ WriteInv'
      /\ \A g \in Handles : Accepted(g) => Accepted(g)'
  BY Zenon, WriteMessages
<1>8. TypeOK'
  <2>1. encode' \in Threads \cup {NoThread}
    BY Zenon, WriteThread DEF IInv, TypeOK
  <2> QED
    BY Zenon, <1>1, <1>4, <1>6, <2>1 DEF IInv, TypeOK
<1>9. FreshInv'
  <2>1. \A g \in Handles : (conn[g] = "none" \/ inbox[g] # "none") => g # h
    BY Zenon, <1>3 DEF IInv, FreshInv
  <2>2. \A g \in Handles, u \in Threads :
          (Updating(u) => th[u].hd # g) => (Updating(u)' => th'[u].hd # g)
    BY Zenon, <1>6
  <2>3. \A g \in Handles : (conn[g] = "none" \/ inbox[g] # "none") =>
          \A u \in Threads : Updating(u)' => th'[u].hd # g
    BY Zenon, <2>2 DEF IInv, FreshInv
  <2> QED
    BY ZenonT(60), <1>1, <1>4, <1>6, <2>1, <2>3 DEF IInv, FreshInv
<1>10. RequestInv'
  <2>1. CASE h # req
    BY ZenonT(60), <1>1, <1>4, <1>6, <1>7, <2>1 DEF IInv, RequestInv, PlaceInv, Sends
  <2>2. CASE h = req
    <3>1. Len(wire[req]) >= Chunks /\ wire[req][1].msg = "accepted" /\ 1 \in 1..Chunks
      BY SMTT(60), <1>3, <2>2 DEF Accepted
    <3>2. wire[req] # <<>> /\ 1 \in 1..Len(wire[req])
      <4>1. Len(wire[req]) \in Nat
        BY SMTT(60), <1>3, <2>2 DEF IInv, TypeOK
      <4> QED
        BY SMTT(60), <3>1, <4>1
    <3>3. Where \notin {"dispatch", "handler", "respond", "accept", "lock"}
      BY Zenon, <3>2 DEF IInv, RequestInv
    <3>4. Where # "write"
      <4>1. Where = "write" => th[Server].pc = "write" /\ th[Server].part < Chunks
        BY Zenon DEF IInv, PlaceInv, Where, WriteInv, Threads
      <4>2. th[Server].part \in 0..Chunks
        BY Zenon DEF IInv, TypeOK, ThreadState, Threads
      <4> QED
        BY SMTT(60), <3>1, <4>1, <4>2 DEF IInv, RequestInv
    <3>5. Where # "close"
      <4>1. Where = "close" => Len(wire[req]) < Chunks
        BY Zenon, <3>1, <3>2 DEF IInv, RequestInv, Sends
      <4>2. Len(wire[req]) \in Nat
        BY SMTT(60), <1>3, <2>2 DEF IInv, TypeOK
      <4> QED
        BY SMTT(60), <3>1, <4>1, <4>2
    <3> QED
      BY ZenonT(30), <1>1, <1>3, <1>6, <1>7, <2>2, <3>3, <3>4, <3>5 DEF IInv, RequestInv, Sends
  <2> QED
    BY Zenon, <2>1, <2>2
<1>11. TableInv' /\ ClosedExactlyOnce'
  BY Zenon, <1>1, <1>6, <1>7 DEF IInv, TableInv, ClosedExactlyOnce, TypeOK
<1>12. UpdateInv'
  BY SMTT(60), <1>1, <1>6, <1>7 DEF IInv, UpdateInv, PlaceInv
<1> QED
  BY ZenonT(30), <1>6, <1>7, <1>8, <1>9, <1>10, <1>11, <1>12 DEF IInv

\* ggl_sub_respond closes the handle its message could not be written to.
LEMMA UpdateCloses ==
    ASSUME IInv, NEW t \in Threads, Updating(t), Close(t)
    PROVE  IInv'
<1> USE ServerAssumption DEF At, clientVars, poolVars, appVars
<1>1. /\ th[t].pc = "close" /\ th[t].msg = "update"
      /\ th' = [th EXCEPT ![t] = Returned(t)]
      /\ UNCHANGED <<peer, inbox, rtype, cleanup, current, curMtx, req, wire, updates>>
      /\ encode' \in Threads \cup {NoThread}
  <2>1. th[t].pc = "close"
    BY Zenon DEF Close
  <2>2. th[t].msg = "update"
    BY Zenon, <2>1, SendPlace DEF Sends
  <2> QED
    BY Zenon, <2>1, <2>2 DEF Close, IInv, TypeOK
<1>2. PICK h \in Handles : h = th[t].hd
  BY Zenon, <1>1, SendPlace DEF Sends
<1>3. conn[h] # "none" /\ inbox[h] = "none"
  BY Zenon, <1>2 DEF IInv, FreshInv
<1>4. Releases(h) /\ ClosedExactlyOnce'
  BY Zenon, <1>1, <1>2, <1>3, CloseReturns DEF IInv, Close
<1>5. /\ th' \in [Threads -> ThreadState]
      /\ Where' = Where
      /\ \A u \in Threads : Updating(u)' =>
           /\ Updating(u) /\ th'[u].hd = th[u].hd
           /\ th'[u].pc \notin Waits => th[u].pc \notin Waits \/ th[u].hd # current
      /\ Where \in Sends \cup {"clear"} => th'[Server] = th[Server]
      /\ PlaceInv' /\ CurrentInv'
  <2>1. Returned(t) \in ThreadState /\ Returns(t, Returned(t))
    BY Zenon, ReturnedType DEF Returns
  <2> QED
    BY Zenon, <1>1, <2>1, UpdaterMoves
<1>6. /\ AcceptedFirst' /\ MessagesWhole' /\ TailInv' /\ EncodeInv' /\ WriteInv'
      /\ \A g \in Handles : Accepted(g)' = Accepted(g)
  BY Zenon, <1>2, <1>4, CloseMessages
<1>7. TypeOK'
  BY Zenon, <1>1, <1>4, <1>5 DEF IInv, TypeOK, Releases
<1>8. FreshInv'
  BY SMTT(60), <1>1, <1>3, <1>4, <1>5 DEF IInv, FreshInv, PlaceInv, Releases
<1>9. \A g \in Handles : conn[g] = "released" => conn'[g] = "released"
  BY Zenon, <1>4 DEF Releases
<1>10. RequestInv'
  <2>1. Where \in {"dispatch", "handler", "respond", "accept"} => closes'[req] = 0
    BY ZenonT(30), <1>4 DEF IInv, RequestInv, PlaceInv, Releases
  <2>2. req \notin registered => req \notin registered'
    BY Zenon, <1>4 DEF Releases
  <2>3. \A u \in Threads :
          (Updating(u) => th[u].hd # req) => (Updating(u)' => th'[u].hd # req)
    BY Zenon, <1>5
  <2> QED
    BY SMTT(60), <1>1, <1>5, <1>6, <1>9, <2>1, <2>2, <2>3 DEF IInv, RequestInv, PlaceInv, Sends
<1>11. TableInv'
  BY SMTT(60), <1>1, <1>4, <1>5, <1>6, <1>9 DEF IInv, TableInv, TypeOK, Releases, Valid
<1>12. UpdateInv'
  BY SMTT(60), <1>1, <1>5, <1>6, <1>9 DEF IInv, UpdateInv, PlaceInv
<1> QED
  BY Zenon, <1>4, <1>5, <1>6, <1>7, <1>8, <1>10, <1>11, <1>12 DEF IInv

\* The server thread takes encode_array_mtx for its answer.
LEMMA OwnLock ==
    ASSUME IInv, ~Updating(Server), LockEncode(Server)
    PROVE  IInv'
<1> USE ServerAssumption DEF At, clientVars, poolVars, appVars
<1> DEFINE s == [th[Server] EXCEPT !.pc = "write", !.part = 0]
<1>1. /\ th[Server].pc = "lock" /\ th' = [th EXCEPT ![Server] = s] /\ encode' = Server
      /\ UNCHANGED <<conn, peer, inbox, rtype, cleanup, current, curMtx, req, registered,
                     wire, closes, updates>>
  BY Zenon DEF LockEncode
<1>2. /\ th[Server] \in ThreadState /\ th[Server].hd = req /\ req \in Handles
      /\ Where = "lock" /\ th[Server].msg \in {"accepted", "response", "error"}
  BY Zenon, <1>1, SendPlace DEF Sends, Threads
<1>3. s \in ThreadState
  BY Zenon, <1>2, StateType
<1>4. s.pc = "write" /\ s.hd = req /\ s.msg = th[Server].msg /\ s.part = 0
  BY Zenon, <1>2 DEF ThreadState
<1> HIDE DEF s
<1>5. /\ th' \in [Threads -> ThreadState] /\ th'[Server] = s
      /\ OthersStay /\ ~Updating(Server)' /\ Where' = "write"
  BY Zenon, <1>1, <1>2, <1>3, <1>4, OwnStep DEF Waits
<1>6. /\ AcceptedFirst' /\ MessagesWhole' /\ TailInv' /\ EncodeInv' /\ WriteInv'
      /\ \A g \in Handles : Accepted(g)' = Accepted(g)
  BY Zenon, LockMessages DEF Threads
<1>7. TypeOK'
  BY Zenon, <1>1, <1>5 DEF IInv, TypeOK, Threads
<1>8. PlaceInv' /\ CurrentInv'
  BY Zenon, <1>1, <1>2, <1>4, <1>5 DEF IInv, PlaceInv, CurrentInv, OthersStay, Threads, Sends
<1>9. FreshInv'
  BY SMTT(60), <1>1, <1>2, <1>5 DEF IInv, FreshInv, OthersStay
<1>10. RequestInv'
  BY ZenonT(30), <1>1, <1>2, <1>4, <1>5 DEF IInv, RequestInv, OthersStay, Sends
<1>11. TableInv' /\ ClosedExactlyOnce'
  BY ZenonT(30), <1>1, <1>2, <1>5, <1>6 DEF IInv, TableInv, ClosedExactlyOnce, TypeOK
<1>12. UpdateInv'
  BY ZenonT(30), <1>1, <1>5, <1>6 DEF IInv, UpdateInv, PlaceInv, OthersStay
<1> QED
  BY ZenonT(30), <1>6, <1>7, <1>8, <1>9, <1>10, <1>11, <1>12 DEF IInv

\* The server thread could not write its answer.
LEMMA OwnFails ==
    ASSUME IInv, ~Updating(Server), WriteFails(Server)
    PROVE  IInv'
<1> USE ServerAssumption DEF At, clientVars, poolVars, appVars
<1> DEFINE s == [th[Server] EXCEPT !.pc = "close"]
<1>1. /\ th[Server].pc = "write" /\ th' = [th EXCEPT ![Server] = s]
      /\ encode' \in Threads \cup {NoThread}
      /\ UNCHANGED <<conn, peer, inbox, rtype, cleanup, current, curMtx, req, registered,
                     wire, closes, updates>>
  BY Zenon DEF WriteFails, Sent, KeptOpen, IInv, TypeOK
<1>2. /\ th[Server] \in ThreadState /\ th[Server].hd = req /\ req \in Handles
      /\ Where = "write" /\ th[Server].msg \in {"accepted", "response", "error"}
  BY Zenon, <1>1, SendPlace DEF Sends, Threads
<1>3. s \in ThreadState
  BY Zenon, <1>2, StateType DEF Places
<1>4. s.pc = "close" /\ s.hd = req /\ s.msg = th[Server].msg
  BY Zenon, <1>2 DEF ThreadState
<1> HIDE DEF s
<1>5. /\ th' \in [Threads -> ThreadState] /\ th'[Server] = s
      /\ OthersStay /\ ~Updating(Server)' /\ Where' = "close"
  BY Zenon, <1>1, <1>2, <1>3, <1>4, OwnStep DEF Waits
<1>6. /\ AcceptedFirst' /\ MessagesWhole' /\ TailInv' /\ EncodeInv' /\ WriteInv'
      /\ \A g \in Handles : Accepted(g)' = Accepted(g)
  BY Zenon, FailMessages DEF Threads
<1>7. TypeOK'
  BY Zenon, <1>1, <1>5 DEF IInv, TypeOK
<1>8. PlaceInv' /\ CurrentInv'
  BY Zenon, <1>1, <1>2, <1>4, <1>5 DEF IInv, PlaceInv, CurrentInv, OthersStay, Threads, Sends
<1>9. FreshInv'
  BY SMTT(60), <1>1, <1>2, <1>5 DEF IInv, FreshInv, OthersStay
<1>10. RequestInv'
  <2>1. Len(wire[req]) < Chunks
    BY ZenonT(60), <1>1, <1>2 DEF IInv, RequestInv, WriteInv, Threads
  <2> QED
    BY ZenonT(30), <1>1, <1>2, <1>4, <1>5, <2>1 DEF IInv, RequestInv, OthersStay, Sends
<1>11. TableInv' /\ ClosedExactlyOnce'
  BY ZenonT(30), <1>1, <1>2, <1>5, <1>6 DEF IInv, TableInv, ClosedExactlyOnce, TypeOK
<1>12. UpdateInv'
  BY ZenonT(30), <1>1, <1>5, <1>6 DEF IInv, UpdateInv, PlaceInv, OthersStay
<1> QED
  BY Zenon, <1>6, <1>7, <1>8, <1>9, <1>10, <1>11, <1>12 DEF IInv

\* The server thread writes a piece of its answer: the last piece of an accept
\* leads to clear_current_handle, that of any other answer to the close.
LEMMA OwnWrites ==
    ASSUME IInv, ~Updating(Server), Write(Server)
    PROVE  IInv'
<1> USE ServerAssumption DEF At, clientVars, poolVars, appVars
<1>1. /\ th[Server].pc = "write" /\ Server \in Threads
      /\ UNCHANGED <<conn, peer, inbox, rtype, cleanup, current, curMtx, req, registered,
                     closes, updates>>
  BY Zenon DEF Write, Threads
<1>2. /\ th[Server] \in ThreadState /\ th[Server].hd = req /\ req \in Handles
      /\ Where = "write" /\ th[Server].msg \in {"accepted", "response", "error"}
  BY Zenon, <1>1, SendPlace DEF Sends
<1>3. PICK n \in Nat, p \in [msg : Messages, part : 1..Chunks, by : Threads] :
        Wrote(Server, req, p, n)
  <2>1. PICK h \in Handles, n \in Nat, p \in [msg : Messages, part : 1..Chunks, by : Threads] :
          Wrote(Server, h, p, n)
    BY Zenon, <1>1, WriteWire
  <2>2. h = req
    BY Zenon, <1>2, <2>1 DEF Wrote
  <2> QED
    BY Zenon, <2>1, <2>2
<1>4. /\ n = Len(wire[req]) /\ p.msg = th[Server].msg /\ p.part = n + 1
      /\ wire' \in [Handles -> Seq([msg : Messages, part : 1..Chunks, by : Threads])]
      /\ Len(wire'[req]) = n + 1
      /\ \A i \in 1..(n + 1) : wire'[req][i].msg = p.msg
      /\ \A g \in Handles : g # req => wire'[g] = wire[g]
  <2>1. n = th[Server].part /\ \A i \in 1..n : wire[req][i].msg = th[Server].msg
    BY ZenonT(30), <1>1, <1>3, WritePlace DEF Wrote
  <2>2. \A i \in 1..n : wire'[req][i] = wire[req][i]
    BY Zenon, <1>3 DEF Wrote
  <2>3. \A i \in 1..(n + 1) : i \in 1..n \/ i = n + 1
    BY SMTT(60), <1>3
  <2> QED
    BY ZenonT(60), <1>3, <2>1, <2>2, <2>3 DEF Wrote
<1>5. PICK s \in ThreadState :
        /\ th' = [th EXCEPT ![Server] = s] /\ s.hd = req /\ s.msg = th[Server].msg
        /\ \/ s.pc = "write" /\ s.part = n + 1 /\ n + 1 < Chunks
           \/ s.pc = "clear" /\ s.msg = "accepted" /\ n + 1 = Chunks
           \/ s.pc = "close" /\ s.msg # "accepted" /\ n + 1 = Chunks
  <2>1. th[Server].part + 1 = n + 1
    BY Zenon, <1>3, <1>4 DEF Wrote
  <2>2. CASE n + 1 < Chunks
    <3> DEFINE s == [th[Server] EXCEPT !.part = n + 1]
    <3>1. s \in ThreadState
      <4>1. n + 1 \in 0..Chunks
        BY SMTT(60), <1>3, <2>2
      <4> QED
        BY Zenon, <1>2, <4>1, StateType
    <3>2. s.pc = "write" /\ s.hd = req /\ s.msg = th[Server].msg /\ s.part = n + 1
      BY Zenon, <1>1, <1>2 DEF ThreadState
    <3>3. th' = [th EXCEPT ![Server] = s]
      BY SMTT(60), <1>1, <1>3, <2>1, <2>2, WriteThread
    <3> HIDE DEF s
    <3> QED
      BY Zenon, <2>2, <3>1, <3>2, <3>3
  <2>3. CASE n + 1 = Chunks
    <3> DEFINE s(q) == [th[Server] EXCEPT !.pc = q]
    <3>1. s("clear") \in ThreadState /\ s("close") \in ThreadState
      BY Zenon, <1>2, StateType DEF Places
    <3>2. /\ s("clear").pc = "clear" /\ s("clear").hd = req
          /\ s("clear").msg = th[Server].msg
          /\ s("close").pc = "close" /\ s("close").hd = req
          /\ s("close").msg = th[Server].msg
      BY Zenon, <1>2 DEF ThreadState
    <3>3. \/ th[Server].msg = "accepted" /\ th' = [th EXCEPT ![Server] = s("clear")]
          \/ th[Server].msg # "accepted" /\ th' = [th EXCEPT ![Server] = s("close")]
      BY SMTT(60), <1>1, <1>2, <1>3, <2>1, <2>3, WriteThread
    <3> HIDE DEF s
    <3> QED
      BY Zenon, <2>3, <3>1, <3>2, <3>3
  <2>4. n + 1 < Chunks \/ n + 1 = Chunks
    BY SMTT(60), <1>3, <1>4
  <2> QED
    BY Zenon, <2>2, <2>3, <2>4
<1>6. /\ th' \in [Threads -> ThreadState] /\ th'[Server] = s
      /\ OthersStay /\ ~Updating(Server)' /\ Where' = s.pc
  BY Zenon, <1>2, <1>5, OwnStep DEF Waits
<1>7. /\ AcceptedFirst' /\ MessagesWhole' /\ TailInv' /\ EncodeInv' /\ WriteInv'
      /\ \A g \in Handles : Accepted(g) => Accepted(g)'
  BY Zenon, <1>1, WriteMessages
<1>8. TypeOK'
  <2>1. encode' \in Threads \cup {NoThread}
    BY Zenon, <1>1, WriteThread DEF IInv, TypeOK
  <2> QED
    BY Zenon, <1>1, <1>4, <1>6, <2>1 DEF IInv, TypeOK
<1>9. PlaceInv' /\ CurrentInv'
  BY Zenon, <1>1, <1>2, <1>5, <1>6 DEF IInv, PlaceInv, CurrentInv, OthersStay, Threads, Sends
<1>10. FreshInv'
  <2>1. \A g \in Handles : (conn[g] = "none" \/ inbox[g] # "none") => g # req
    BY Zenon, <1>2 DEF IInv, FreshInv
  <2>2. \A g \in Handles : (conn[g] = "none" \/ inbox[g] # "none") =>
          \A u \in Threads : Updating(u)' => th'[u].hd # g
    BY SMTT(60), <1>6 DEF IInv, FreshInv, OthersStay
  <2> QED
    BY ZenonT(60), <1>1, <1>2, <1>4, <1>6, <2>1, <2>2 DEF IInv, FreshInv
<1>11. RequestInv'
  <2>1. current = NoHandle => /\ req \notin registered
                              /\ \A u \in Threads : Updating(u)' => th'[u].hd # req
    BY Zenon, <1>2, <1>6 DEF IInv, RequestInv, OthersStay, Sends
  <2>2. s.pc = "clear" => Accepted(req)'
    BY SMTT(60), <1>1, <1>4, <1>5 DEF Accepted
  <2>3. /\ Len(wire'[req]) <= Chunks
        /\ \A i \in 1..Len(wire'[req]) : wire'[req][i].msg = s.msg
    BY SMTT(60), <1>3, <1>4, <1>5
  <2> QED
    BY ZenonT(30), <1>1, <1>4, <1>5, <1>6, <2>1, <2>2, <2>3 DEF RequestInv, Sends
<1>12. TableInv' /\ ClosedExactlyOnce'
  BY ZenonT(30), <1>1, <1>2, <1>5, <1>6, <1>7 DEF IInv, TableInv, ClosedExactlyOnce, TypeOK
<1>13. UpdateInv'
  BY SMTT(60), <1>1, <1>6, <1>7 DEF IInv, UpdateInv, PlaceInv, OthersStay
<1> QED
  BY ZenonT(30), <1>6, <1>7, <1>8, <1>9, <1>10, <1>11, <1>12, <1>13 DEF IInv

\* The server thread closes the handle: after an answer, after a write that
\* failed, or after an error response.
LEMMA OwnCloses ==
    ASSUME IInv, ~Updating(Server), Close(Server)
    PROVE  IInv'
<1> USE ServerAssumption DEF At, clientVars, poolVars, appVars
<1>1. /\ th[Server].pc = "close" /\ Server \in Threads
      /\ encode' \in Threads \cup {NoThread}
      /\ UNCHANGED <<peer, inbox, rtype, cleanup, current, curMtx, wire, updates>>
  BY Zenon DEF Close, Threads, IInv, TypeOK
<1>2. /\ th[Server] \in ThreadState /\ th[Server].hd = req /\ req \in Handles
      /\ Where = "close" /\ th[Server].msg \in {"accepted", "response", "error"}
  BY Zenon, <1>1, SendPlace DEF Sends
<1>3. PICK h \in Handles : h = req
  BY Zenon, <1>2
<1>4. /\ conn[h] # "none" /\ inbox[h] = "none"
      /\ \A g \in Handles : (conn[g] = "none" \/ inbox[g] # "none") => g # h
  BY Zenon, <1>2, <1>3 DEF IInv, FreshInv
<1>5. Releases(h) /\ ClosedExactlyOnce'
  BY Zenon, <1>1, <1>2, <1>3, <1>4, CloseReturns DEF IInv, Close
<1>6. PICK s \in ThreadState :
        /\ th' = [th EXCEPT ![Server] = s]
        /\ \/ /\ s.pc = "idle" /\ req' = NoHandle /\ current = NoHandle
           \/ /\ s.pc = "clear" /\ s.hd = req /\ s.msg = th[Server].msg /\ req' = req
              /\ current = req
  <2> DEFINE s == [th[Server] EXCEPT !.pc = "clear"]
  <2>1. s \in ThreadState /\ Idle \in ThreadState
    BY Zenon, <1>2, StateType DEF Places
  <2>2. s.pc = "clear" /\ s.hd = req /\ s.msg = th[Server].msg
    BY Zenon, <1>2 DEF ThreadState
  <2>3. Idle.pc = "idle"
    BY Zenon DEF Idle
  <2>4. current = req \/ (current = NoHandle /\ th[Server].msg = "error")
    BY Zenon, <1>2 DEF IInv, CurrentInv, Sends
  <2>5. \/ current = NoHandle /\ th' = [th EXCEPT ![Server] = Idle] /\ req' = NoHandle
        \/ current = req /\ th' = [th EXCEPT ![Server] = s] /\ req' = req
    BY Zenon, <1>2, <2>4 DEF Close
  <2> HIDE DEF s
  <2> QED
    BY Zenon, <2>1, <2>2, <2>3, <2>5
<1>7. /\ th' \in [Threads -> ThreadState] /\ th'[Server] = s
      /\ OthersStay /\ ~Updating(Server)' /\ Where' = s.pc
  BY Zenon, <1>6, OwnStep DEF Waits, Sends
<1>8. /\ AcceptedFirst' /\ MessagesWhole' /\ TailInv' /\ EncodeInv' /\ WriteInv'
      /\ \A g \in Handles : Accepted(g)' = Accepted(g)
  BY ZenonT(30), <1>1, <1>2, <1>3, <1>5, CloseMessages
<1>9. TypeOK'
  BY ZenonT(60), <1>1, <1>2, <1>5, <1>6, <1>7 DEF IInv, TypeOK, Releases
<1>10. PlaceInv' /\ CurrentInv'
  BY ZenonT(30), <1>1, <1>2, <1>6, <1>7 DEF IInv, PlaceInv, CurrentInv, OthersStay, Threads, Sends
<1>11. FreshInv'
  <2>1. \A g \in Handles : (conn[g] = "none" \/ inbox[g] # "none") =>
          \A u \in Threads : Updating(u)' => th'[u].hd # g
    BY SMTT(60), <1>7 DEF IInv, FreshInv, OthersStay
  <2>2. \A g \in Handles : (conn'[g] = "none" \/ inbox'[g] # "none") =>
          /\ conn[g] = "none" \/ inbox[g] # "none"
          /\ g \notin registered => g \notin registered'
          /\ closes'[g] = closes[g]
    BY Zenon, <1>1, <1>4, <1>5 DEF Releases
  <2>3. Where' # "idle" => conn'[req'] # "none"
    BY ZenonT(30), <1>3, <1>5, <1>6, <1>7 DEF Releases
  <2>4. \A g \in Handles : (conn[g] = "none" \/ inbox[g] # "none") => g # req'
    BY Zenon, <1>3, <1>4, <1>6
  <2> QED
    BY Zenon, <1>1, <2>1, <2>2, <2>3, <2>4 DEF IInv, FreshInv
<1>12. RequestInv'
  BY Zenon, <1>3, <1>5, <1>6, <1>7 DEF RequestInv, Releases, Sends
<1>13. \A g \in Handles : conn[g] = "released" => conn'[g] = "released"
  BY Zenon, <1>5 DEF Releases
<1>14. TableInv'
  BY Zenon, <1>1, <1>2, <1>5, <1>8, ReleasedTable
<1>15. UpdateInv'
  BY SMTT(60), <1>1, <1>7, <1>8, <1>13 DEF IInv, UpdateInv, PlaceInv, OthersStay
<1> QED
  BY ZenonT(30), <1>5, <1>7, <1>8, <1>9, <1>10, <1>11, <1>12, <1>14, <1>15 DEF IInv

\* clear_current_handle: the request is answered, its waiters go on.
LEMMA ClearStep ==
    ASSUME IInv, ClearCurrentHandle
    PROVE  IInv'
<1> USE ServerAssumption DEF At, clientVars, poolVars, appVars
<1>1. /\ th[Server].pc = "clear" /\ Server \in Threads /\ current' = NoHandle
      /\ UNCHANGED <<conn, peer, inbox, rtype, cleanup, curMtx, encode, registered, wire,
                     closes, updates>>
  BY Zenon DEF ClearCurrentHandle, ClearedHandle, Threads
<1>2. /\ ~Updating(Server) /\ Where = "clear" /\ th[Server].hd = req /\ req \in Handles
      /\ th[Server].msg \in {"accepted", "response", "error"}
      /\ current = req
  <2>1. ~Updating(Server) /\ Where = "clear"
    BY Zenon, <1>1 DEF Updating, Where, Waits, Sends
  <2> QED
    BY Zenon, <2>1 DEF IInv, PlaceInv, CurrentInv
<1>3. \A u \in Threads : u # Server =>
        /\ th'[u] \in ThreadState /\ th'[u].hd = th[u].hd /\ th'[u].msg = th[u].msg
        /\ th'[u] = th[u] \/ (th[u].pc = "asleep" /\ th'[u].pc = "waitlock")
  <2> SUFFICES ASSUME NEW u \in Threads, u # Server
               PROVE  /\ th'[u] \in ThreadState /\ th'[u].hd = th[u].hd
                      /\ th'[u].msg = th[u].msg
                      /\ th'[u] = th[u] \/ (th[u].pc = "asleep" /\ th'[u].pc = "waitlock")
    BY Zenon
  <2> DEFINE s == [th[u] EXCEPT !.pc = "waitlock"]
  <2>1. th[u] \in ThreadState
    BY Zenon DEF IInv, TypeOK
  <2>2. s \in ThreadState
    BY Zenon, <2>1, StateType DEF Places
  <2>3. s.pc = "waitlock" /\ s.hd = th[u].hd /\ s.msg = th[u].msg
    BY Zenon, <2>1 DEF ThreadState
  <2>4. th'[u] = IF th[u].pc = "asleep" THEN s ELSE th[u]
    BY Zenon DEF ClearCurrentHandle
  <2> HIDE DEF s
  <2> QED
    BY Zenon, <2>1, <2>2, <2>3, <2>4
<1>4. /\ th'[Server] \in ThreadState
      /\ \/ th'[Server].pc = "idle" /\ req' = NoHandle
         \/ th'[Server].pc = "handled" /\ th'[Server].hd = req /\ req' = req
  <2> DEFINE s == [th[Server] EXCEPT !.pc = "handled"]
  <2>1. th[Server] \in ThreadState
    BY Zenon, <1>1 DEF IInv, TypeOK
  <2>2. s \in ThreadState /\ Idle \in ThreadState
    BY Zenon, <2>1, StateType DEF Places
  <2>3. s.pc = "handled" /\ s.hd = req
    BY Zenon, <1>2, <2>1 DEF ThreadState
  <2>4. Idle.pc = "idle"
    BY Zenon DEF Idle
  <2>5. \/ th'[Server] = Idle /\ req' = NoHandle
        \/ th'[Server] = s /\ req' = req
    BY Zenon, <1>1 DEF ClearCurrentHandle
  <2> HIDE DEF s
  <2> QED
    BY Zenon, <2>2, <2>3, <2>4, <2>5
<1>5. /\ ~Updating(Server)' /\ Where' = th'[Server].pc
      /\ \A u \in Threads : Updating(u)' = Updating(u)
      /\ \A u \in Threads : Updating(u) => th'[u].hd = th[u].hd
      /\ \A u \in Threads : Updating(u) => (th'[u].pc \in Waits <=> th[u].pc \in Waits)
  BY ZenonT(30), <1>1, <1>2, <1>3, <1>4 DEF Updating, Where, Waits, Sends
<1>6. /\ AcceptedFirst' /\ MessagesWhole' /\ TailInv' /\ EncodeInv' /\ WriteInv'
      /\ \A g \in Handles : Accepted(g)' = Accepted(g)
  <2>1. \A u \in Threads : (Writing(u) \/ Encodes(u)') => th'[u] = th[u]
    BY ZenonT(30), <1>1, <1>3, <1>4 DEF Writing, Encodes
  <2> QED
    BY Zenon, <1>1, <2>1, SameMessages DEF IInv
<1>7. th' \in [Threads -> ThreadState]
  <2>1. \A u \in Threads : th'[u] \in ThreadState
    BY Zenon, <1>3, <1>4
  <2>2. th' = [u \in Threads |-> th'[u]]
    BY Zenon DEF ClearCurrentHandle
  <2> QED
    BY Zenon, <2>1, <2>2
<1>8. TypeOK'
  BY Zenon, <1>1, <1>2, <1>4, <1>7 DEF IInv, TypeOK
<1>9. PlaceInv' /\ CurrentInv'
  BY ZenonT(30), <1>1, <1>2, <1>3, <1>4, <1>5 DEF IInv, PlaceInv, CurrentInv, Threads, Sends
<1>10. FreshInv'
  BY SMTT(60), <1>1, <1>2, <1>4, <1>5 DEF IInv, FreshInv
<1>11. RequestInv'
  BY Zenon, <1>4, <1>5 DEF RequestInv, Sends
<1>12. conn[req] = "released" \/ Accepted(req)
  BY Zenon, <1>2 DEF IInv, RequestInv
<1>13. TableInv' /\ ClosedExactlyOnce'
  BY SMTT(60), <1>1, <1>2, <1>6, <1>12 DEF IInv, TableInv, ClosedExactlyOnce, TypeOK
<1>14. UpdateInv'
  BY ZenonT(30), <1>1, <1>2, <1>5, <1>6, <1>12 DEF IInv, UpdateInv, PlaceInv
<1> QED
  BY Zenon, <1>6, <1>8, <1>9, <1>10, <1>11, <1>13, <1>14 DEF IInv

-----------------------------------------------------------------------------
LEMMA InitIInv == Init => IInv
<1> SUFFICES ASSUME Init PROVE IInv
  BY Zenon
<1> USE ServerAssumption DEF Init, Threads
<1>1. TypeOK
  <2>1. th \in [Threads -> ThreadState]
    BY Zenon, StateType
  <2>2. wire \in [Handles -> Seq([msg : Messages, part : 1..Chunks, by : Threads])]
    BY SMTT(60) DEF Init
  <2> QED
    BY SMTT(60), <2>1, <2>2 DEF TypeOK
<1>2. /\ \A t \in Threads : th[t].pc = "idle" /\ ~Updating(t)
      /\ Where = "idle"
  BY Zenon DEF Idle, Updating, Where, Waits, Sends
<1>3. PlaceInv /\ CurrentInv /\ FreshInv
  BY Zenon, <1>2 DEF PlaceInv, CurrentInv, FreshInv, Sends
<1>4. RequestInv /\ TableInv /\ UpdateInv /\ ClosedExactlyOnce
  BY SMTT(60), <1>2 DEF RequestInv, TableInv, UpdateInv, ClosedExactlyOnce, Sends
<1>5. EncodeInv /\ WriteInv /\ TailInv
  BY Zenon, <1>2 DEF EncodeInv, Encodes, WriteInv, TailInv, At
<1>6. AcceptedFirst /\ MessagesWhole
  BY SMTT(60) DEF AcceptedFirst, MessagesWhole
<1> QED
  BY Zenon, <1>1, <1>3, <1>4, <1>5, <1>6 DEF IInv

LEMMA NextIInv == IInv /\ [Next]_vars => IInv'
<1> SUFFICES ASSUME IInv, [Next]_vars PROVE IInv'
  BY Zenon
<1>1. CASE UNCHANGED vars
  <2>1. TypeOK'
    BY Zenon, <1>1 DEF IInv, vars, TypeOK
  <2>2. PlaceInv' /\ CurrentInv' /\ FreshInv'
    BY ZenonT(30), <1>1 DEF IInv, vars, PlaceInv, CurrentInv, FreshInv, Where, Updating
  <2>3. RequestInv' /\ TableInv' /\ UpdateInv' /\ ClosedExactlyOnce'
    BY SMTT(60), <1>1 DEF IInv, vars, RequestInv, TableInv, UpdateInv, ClosedExactlyOnce, Accepted,
       Where, Updating
  <2>4. AcceptedFirst' /\ MessagesWhole' /\ TailInv' /\ EncodeInv' /\ WriteInv'
    BY Zenon, <1>1, SameMessages DEF IInv, vars
  <2> QED
    BY Zenon, <2>1, <2>2, <2>3, <2>4 DEF IInv
<1>2. ASSUME NEW h \in Handles,
             NewClient(h) \/ ClientRefused(h) \/ Disconnect(h) \/ ClientReady(h)
      PROVE  IInv'
  BY Zenon, <1>2, ClientSteps, ReadyStep
<1>3. CASE ServerStep
  BY Zenon, <1>3, ReadStep, DispatchSteps, RegisterStep, HandlerSteps, ReturnStep, RespondStep,
     AcceptStep, ClearStep, DropStep DEF ServerStep
<1>4. ASSUME NEW t \in Threads, Step(t)
      PROVE  IInv'
  <2>1. CASE CheckType(t) \/ WaitWhileCurrentHandle(t) \/ WaitLock(t) \/ Recheck(t)
             \/ CondWait(t)
    BY Zenon, <2>1, UpdateSteps
  <2>2. CASE (LockEncode(t) \/ Write(t) \/ WriteFails(t) \/ Close(t)) /\ Updating(t)
    BY Zenon, <2>2, UpdateSends, UpdateWrites, UpdateCloses
  <2>3. CASE (LockEncode(t) \/ Write(t) \/ WriteFails(t) \/ Close(t)) /\ ~Updating(t)
    <3>1. th[t].pc \in Sends
      BY Zenon, <2>3 DEF LockEncode, Write, WriteFails, Close, At, Sends
    <3>2. t = Server
      BY Zenon, <2>3, <3>1, SendPlace
    <3> QED
      BY Zenon, <2>3, <3>2, OwnLock, OwnWrites, OwnFails, OwnCloses
  <2> QED
    BY Zenon, <1>4, <2>1, <2>2, <2>3 DEF Step
<1>5. ASSUME NEW t \in Threads, NEW h \in Handles, SubRespond(t, h) \/ ServerSubClose(t, h)
      PROVE  IInv'
  BY Zenon, <1>5, CallStep, SubCloseStep
<1> QED
  BY Zenon, <1>1, <1>2, <1>3, <1>4, <1>5 DEF Next

\* The inductive invariant holds in every state of the core bus server.
THEOREM Invariance == Spec => []IInv
BY InitIInv, NextIInv, PTL DEF Spec

\* What clients of a daemon read makes sense to them (server.c): a subscriber
\* reads the whole accept message before any response, a caller reads one
\* answer, and no two threads' pieces are mixed, for any number of
\* connections, responder threads and pieces.
THEOREM AnswersMakeSense == Spec => []ClientSeesAnswers
<1>1. IInv => ClientSeesAnswers
  BY Zenon DEF IInv, ClientSeesAnswers
<1> QED
  BY <1>1, Invariance, PTL

\* The assertions of ggl_respond, ggl_sub_accept, ggl_sub_respond and of
\* client_ready after the handler never fail.
THEOREM AssertsNeverFail == Spec => []AssertsHold
<1>1. IInv => AssertsHold
  <2> SUFFICES ASSUME IInv PROVE AssertsHold
    BY Zenon
  <2>1. \A p \in {"respond", "accept", "handled"} : At(Server, p) => Where = p
    BY Zenon DEF At, Where, Updating, Waits, Sends
  <2>2. \A t \in Threads : At(t, "check") => Updating(t)
    BY Zenon DEF At, Updating, Waits
  <2> QED
    BY Zenon, <2>1, <2>2 DEF IInv, AssertsHold, CurrentInv, RequestInv, UpdateInv, IsSubscription
<1> QED
  BY <1>1, Invariance, PTL

\* The close callback of an accepted subscription is called exactly once,
\* whoever closes the handle and whenever, and the daemon's table then no
\* longer holds it (ggl_sub_accept, close_subscription).
THEOREM SubscriptionsEndOnce == Spec => []EntriesEndOnce
<1>1. IInv => EntriesEndOnce
  <2> SUFFICES ASSUME IInv PROVE EntriesEndOnce
    BY Zenon
  <2>1. \A h \in registered : conn[h] # "none" /\ h \in Handles
    BY Zenon DEF IInv, FreshInv, TypeOK
  <2>2. TableIsLive
    BY Zenon, <2>1 DEF IInv, TableIsLive, TableInv, TypeOK
  <2> QED
    BY Zenon, <2>2 DEF IInv, EntriesEndOnce
<1> QED
  BY <1>1, Invariance, PTL
=============================================================================
