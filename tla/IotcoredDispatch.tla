-------------------------- MODULE IotcoredDispatch --------------------------
(***************************************************************************)
(* iotcored's subscriptions: the table of topic filters                    *)
(* (subscription_dispatch.c), the core bus method that fills it            *)
(* (rpc_subscribe in bus_server.c) and the MQTT thread that delivers       *)
(* messages by it and subscribes again after a reconnect (mqtt.c).         *)
(*                                                                         *)
(* Two threads run here, the core bus server and the MQTT receiver.  They  *)
(* meet in mtx, which guards the table; in the mutex of the core bus       *)
(* server's socket pool, held by a thread that closes a connection while   *)
(* it runs the close callback; in current_handle, which makes a response   *)
(* to a connection wait until its request has been handled; and in the     *)
(* static array sub_infos, which nothing guards.                           *)
(***************************************************************************)
EXTENDS Integers, Sequences, FiniteSets

CONSTANTS
    Handles,      \* connections of the core bus server, used once each
    Topics,       \* MQTT topics
    Matches,      \* topic filter -> the topics it matches
    Requests,     \* what clients ask for: sequences of filters
    NSlots,       \* IOTCORED_MAX_SUBSCRIPTIONS
    MaxFilters,   \* GGL_MQTT_MAX_SUBSCRIBE_FILTERS
    MaxLosses,    \* bound: times the MQTT connection is lost
    MaxMessages,  \* bound: messages the broker sends
    Faults,       \* what may happen, see Allowed
    None          \* no handle, no filter, no topic, no thread

Filters == DOMAIN Matches

ASSUME DispatchAssumption ==
    /\ \A f \in Filters : Matches[f] \subseteq Topics
    /\ Requests \subseteq Seq(Filters) \ {<<>>}
    /\ NSlots \in Nat \ {0} /\ MaxFilters \in Nat \ {0}
    /\ MaxLosses \in Nat /\ MaxMessages \in Nat
    /\ None \notin Handles \cup Filters \cup Topics
    /\ None \notin {"server", "receiver"}

VARIABLES
    slots,      \* slot -> [filter, handle]: topic_filter_len, handles
    mtx,        \* holder of the table's mutex
    pool_mtx,   \* holder of the socket pool's mutex across a close callback
    current,    \* current_handle
    sub_infos,  \* the static array of iotcored_mqtt_subscribe
    client,     \* handle -> "new", "asking", "open" or "closed"
    gone,       \* handles whose client has closed its end or does not read
    asked,      \* history: handle -> the filters it asked for
    conn,       \* is the MQTT connection up?
    broker,     \* filters subscribed in the MQTT session
    msg,        \* a message on its way from the broker
    th,         \* thread -> [pc, handle, slot]
    aborted,    \* an assertion failed
    seen,       \* history: the faults that happened
    losses, messages

marks == <<aborted, seen>>
table == <<slots, mtx>>
bus == <<pool_mtx, current, client, gone, asked>>
mqtt == <<conn, broker, msg, losses, messages>>
vars == <<slots, mtx, pool_mtx, current, sub_infos, client, gone, asked, conn,
          broker, msg, th, aborted, seen, losses, messages>>

S == "server"
R == "receiver"
Slots == 1 .. NSlots

Init ==
    /\ slots = [i \in Slots |-> [filter |-> None, handle |-> None]]
    /\ mtx = None /\ pool_mtx = None /\ current = None
    /\ sub_infos = [k \in 1 .. MaxFilters |-> None]
    /\ client = [h \in Handles |-> "new"] /\ gone = {}
    /\ asked = [h \in Handles |-> <<>>]
    /\ conn = FALSE /\ broker = {} /\ msg = None
    /\ th = [t \in {S, R} |-> [pc |-> IF t = S THEN "idle" ELSE "down",
                               handle |-> None, slot |-> 0]]
    /\ aborted = FALSE /\ seen = {}
    /\ losses = 0 /\ messages = 0

At(t, place) == th[t].pc = place
Go(t, place) == th' = [th EXCEPT ![t].pc = place]
Free(m) == m = None

FilterAt(i) == slots[i].filter
SlotsOf(h) == {i \in Slots : slots[i].handle = h}
FreeSlots == {i \in Slots : FilterAt(i) = None}

\* How many of the slots up to this one are free.
Rank(i) == Cardinality({j \in FreeSlots : j <= i})

\* Clearing a slot resets its length only: the handle stays.
Cleared(I) == [i \in Slots |-> IF i \in I THEN [slots[i] EXCEPT !.filter = None]
                                          ELSE slots[i]]

\* The filters of a handle that no other slot has.
OnlyOf(h) == {FilterAt(i) : i \in SlotsOf(h)}
               \ {FilterAt(i) : i \in Slots \ SlotsOf(h)}

\* What goes wrong in a step is allowed by Faults and recorded.
Allowed(faults) == faults \subseteq Faults /\ seen' = seen \cup faults
When(fault, cond) == IF cond THEN {fault} ELSE {}
Reregistering == th[R].pc \in {"reregister", "refill", "resend"}

-----------------------------------------------------------------------------
(* rpc_subscribe on the server thread *)

Ask(h, fs) ==
    /\ At(S, "idle") /\ client[h] = "new" /\ ~aborted
    /\ Allowed(When("overlap", Reregistering))
    /\ current' = h
    /\ client' = [client EXCEPT ![h] = "asking"]
    /\ asked' = [asked EXCEPT ![h] = fs]
    /\ th' = [th EXCEPT ![S] = [pc |-> IF Len(fs) > MaxFilters THEN "error"
                                                               ELSE "register",
                                handle |-> h, slot |-> 0]]
    /\ UNCHANGED <<table, pool_mtx, gone, sub_infos, mqtt, aborted>>

\* iotcored_register_subscriptions: the filters go to the first free slots.
\* When they run out, those written are freed again.
RegisterSubscriptions ==
    LET h == th[S].handle
        fs == asked[h]
        fit == Len(fs) <= Cardinality(FreeSlots)
    IN  /\ At(S, "register") /\ Free(mtx)
        /\ slots' = [i \in Slots |->
                       IF i \notin FreeSlots \/ Rank(i) > Len(fs) THEN slots[i]
                       ELSE [filter |-> IF fit THEN fs[Rank(i)] ELSE None,
                             handle |-> h]]
        /\ Go(S, IF fit THEN "fill" ELSE "error")
        /\ UNCHANGED <<mtx, bus, sub_infos, mqtt, marks>>

AssertCount(n) == n < MaxFilters

\* iotcored_mqtt_subscribe fills a static array, without a lock, ...
Fill ==
    LET fs == asked[th[S].handle]
    IN  /\ At(S, "fill")
        /\ IF AssertCount(Len(fs))
             THEN /\ sub_infos' = [k \in 1 .. MaxFilters |->
                                     IF k <= Len(fs) THEN fs[k] ELSE sub_infos[k]]
                  /\ Go(S, "send") /\ UNCHANGED aborted
             ELSE aborted' = TRUE /\ UNCHANGED <<sub_infos, th>>
        /\ UNCHANGED <<table, bus, mqtt, seen>>

\* ... and MQTT_Subscribe sends what is in it.
Send ==
    LET n == Len(asked[th[S].handle])
    IN  /\ At(S, "send")
        /\ IF conn THEN /\ broker' = broker \cup {sub_infos[k] : k \in 1 .. n}
                        /\ Go(S, "accept")
                   ELSE Go(S, "undo") /\ UNCHANGED broker
        /\ UNCHANGED <<table, bus, sub_infos, conn, msg, losses, messages, marks>>

\* iotcored_unregister_subscriptions without unsubscribing
Undo ==
    /\ At(S, "undo") /\ Free(mtx)
    /\ slots' = Cleared(SlotsOf(th[S].handle))
    /\ Go(S, "error")
    /\ UNCHANGED <<mtx, bus, sub_infos, mqtt, marks>>

\* The handler's error is sent and the connection closed; it has no close
\* callback yet.
Error ==
    /\ At(S, "error") /\ Free(pool_mtx)
    /\ client' = [client EXCEPT ![th[S].handle] = "closed"]
    /\ current' = None
    /\ Go(S, "idle")
    /\ UNCHANGED <<table, pool_mtx, gone, asked, sub_infos, mqtt, marks>>

\* Mutant of Answered: current_handle is not cleared
StillCurrent(h) == h

Answered(h) == None

\* ggl_sub_accept: the close callback is set, then the answer is written.
Accept ==
    /\ At(S, "accept") /\ Free(pool_mtx)
    /\ client' = [client EXCEPT ![th[S].handle] = "open"]
    /\ \/ current' = Answered(th[S].handle) /\ Go(S, "idle") /\ UNCHANGED seen
       \/ /\ th[S].handle \in gone /\ Allowed({"hangup", "write"})
          /\ Go(S, "close") /\ UNCHANGED current
    /\ UNCHANGED <<table, pool_mtx, gone, asked, sub_infos, mqtt, aborted>>

\* The server thread finds that a client has closed its end.
Hangup(h) ==
    /\ Allowed({"hangup"})
    /\ At(S, "idle") /\ h \in gone /\ client[h] = "open"
    /\ th' = [th EXCEPT ![S].pc = "close", ![S].handle = h]
    /\ UNCHANGED <<table, bus, sub_infos, mqtt, aborted>>

-----------------------------------------------------------------------------
(* ggl_socket_handle_close, on either thread *)

CloseLock(t) ==
    /\ At(t, "close") /\ Free(pool_mtx)
    /\ pool_mtx' = t
    /\ Go(t, "on_close")
    /\ UNCHANGED <<table, current, client, gone, asked, sub_infos, mqtt, marks>>

\* Mutant of Unsubscribed: other clients' filters are unsubscribed too
AllOf(h) == {FilterAt(i) : i \in SlotsOf(h)}

Unsubscribed(h) == OnlyOf(h)

\* Mutant of Unregistered: the table is left alone
StillRegistered(h) == {}

Unregistered(h) == SlotsOf(h)

\* sub_close_callback: iotcored_unregister_subscriptions, unsubscribing the
\* filters nobody else has; then the connection is released.
OnClose(t) ==
    LET h == th[t].handle
    IN  /\ At(t, "on_close") /\ Free(mtx)
        /\ broker' = broker \ Unsubscribed(h)
        /\ slots' = Cleared(Unregistered(h))
        /\ client' = [client EXCEPT ![h] = "closed"]
        /\ pool_mtx' = None
        /\ current' = IF current = h THEN None ELSE current
        /\ Go(t, IF t = S THEN "idle" ELSE "respond")
        /\ UNCHANGED <<mtx, gone, asked, sub_infos, conn, msg, losses, messages,
                       marks>>

-----------------------------------------------------------------------------
(* mqtt_recv_thread_fn *)

\* establish_connection starts a clean session.
Connect ==
    /\ At(R, "down") /\ ~aborted
    /\ Allowed(When("overlap", ~At(S, "idle")))
    /\ conn' = TRUE /\ broker' = {}
    /\ Go(R, "reregister")
    /\ UNCHANGED <<table, bus, sub_infos, msg, losses, messages, aborted>>

\* iotcored_re_register_all_subs holds mtx and walks the table.
Reregister ==
    /\ At(R, "reregister") /\ Free(mtx)
    /\ mtx' = R
    /\ th' = [th EXCEPT ![R].pc = "refill", ![R].slot = 1]
    /\ UNCHANGED <<slots, bus, sub_infos, mqtt, marks>>

NextSlot(place) == th' = [th EXCEPT ![R].pc = place, ![R].slot = @ + 1]

Skips(i) == FilterAt(i) = None

Refill ==
    LET i == th[R].slot
    IN  /\ At(R, "refill")
        /\ \/ i > NSlots /\ mtx' = None /\ Go(R, "loop") /\ UNCHANGED sub_infos
           \/ i \in Slots /\ Skips(i) /\ NextSlot("refill")
                /\ UNCHANGED <<mtx, sub_infos>>
           \/ i \in Slots /\ ~Skips(i) /\ Go(R, "resend")
                /\ sub_infos' = [sub_infos EXCEPT ![1] = FilterAt(i)]
                /\ UNCHANGED mtx
        /\ UNCHANGED <<slots, bus, mqtt, marks>>

\* A filter that cannot be subscribed again is dropped from the table.
Resend ==
    LET i == th[R].slot
    IN  /\ At(R, "resend")
        /\ \/ conn /\ broker' = broker \cup {sub_infos[1]} /\ UNCHANGED slots
           \/ ~conn /\ slots' = Cleared({i}) /\ UNCHANGED broker
        /\ NextSlot("refill")
        /\ UNCHANGED <<mtx, bus, sub_infos, conn, msg, losses, messages, marks>>

\* MQTT_ReceiveLoop fails and the connection is closed.
Disconnect ==
    /\ At(R, "loop") /\ ~conn
    /\ Go(R, "down")
    /\ UNCHANGED <<table, bus, sub_infos, mqtt, marks>>

\* iotcored_mqtt_receive holds mtx while it responds to every matching slot.
Receive ==
    /\ At(R, "loop") /\ conn /\ msg # None /\ Free(mtx)
    /\ mtx' = R
    /\ th' = [th EXCEPT ![R].pc = "respond", ![R].slot = 1]
    /\ UNCHANGED <<slots, bus, sub_infos, mqtt, marks>>

Wanted(i) == FilterAt(i) # None /\ msg \in Matches[FilterAt(i)]

\* ggl_sub_respond waits while the handle's request is being handled and
\* writes under the pool's mutex; a failed write closes the connection.
Respond ==
    LET i == th[R].slot
        h == slots[i].handle
    IN  /\ At(R, "respond") /\ i \in Slots
        /\ Wanted(i) => Free(pool_mtx) /\ current # h
        /\ \/ NextSlot("respond") /\ UNCHANGED seen
           \/ /\ Wanted(i) /\ h \in gone /\ client[h] = "open"
              /\ Allowed({"write"})
              /\ th' = [th EXCEPT ![R] = [pc |-> "close", handle |-> h, slot |-> @.slot + 1]]
        /\ UNCHANGED <<table, bus, sub_infos, mqtt, aborted>>

Received ==
    /\ At(R, "respond") /\ th[R].slot > NSlots
    /\ mtx' = None /\ msg' = None
    /\ Go(R, "loop")
    /\ UNCHANGED <<slots, bus, sub_infos, conn, broker, losses, messages, marks>>

-----------------------------------------------------------------------------
(* Clients, network and broker *)

\* A client closes its end ("hangup"), or stops reading, so that writes to it
\* time out ("write").
ClientGoes(h) ==
    /\ Faults \cap {"hangup", "write"} # {}
    /\ client[h] \in {"asking", "open"} /\ h \notin gone
    /\ gone' = gone \cup {h}
    /\ UNCHANGED <<table, pool_mtx, current, client, asked, sub_infos, mqtt, th,
                   marks>>

ConnectionLost ==
    /\ conn /\ losses < MaxLosses
    /\ Allowed(When("request", ~At(S, "idle")) \cup When("reregister", Reregistering))
    /\ conn' = FALSE /\ broker' = {} /\ losses' = losses + 1
    /\ msg' = IF At(R, "respond") THEN msg ELSE None
    /\ UNCHANGED <<table, bus, sub_infos, th, messages, aborted>>

Publish(topic) ==
    /\ conn /\ msg = None /\ messages < MaxMessages
    /\ \E f \in broker : topic \in Matches[f]
    /\ msg' = topic /\ messages' = messages + 1
    /\ UNCHANGED <<table, bus, sub_infos, conn, broker, losses, th, marks>>

-----------------------------------------------------------------------------

CloseStep(t) == CloseLock(t) \/ OnClose(t)
ServerStep ==
    \/ RegisterSubscriptions \/ Fill \/ Send \/ Undo \/ Error \/ Accept
    \/ CloseStep(S)
    \/ \E h \in Handles : Hangup(h)
ReceiverStep ==
    \/ Connect \/ Reregister \/ Refill \/ Resend \/ Disconnect \/ Receive
    \/ Respond \/ Received \/ CloseStep(R)

Next ==
    \/ \E h \in Handles, fs \in Requests : Ask(h, fs)
    \/ ServerStep \/ ReceiverStep \/ ConnectionLost
    \/ \E h \in Handles : ClientGoes(h)
    \/ \E topic \in Topics : Publish(topic)

Spec == Init /\ [][Next]_vars

\* Both threads run; neither is kept for ever from a mutex that is released
\* again and again.
FairSpec == Spec /\ SF_vars(ServerStep) /\ SF_vars(ReceiverStep)

-----------------------------------------------------------------------------
(* Properties *)

Places == {"idle", "register", "fill", "send", "undo", "error", "accept", "close",
           "on_close", "down", "reregister", "refill", "resend", "loop", "respond"}

ThreadState == [pc : Places, handle : Handles \cup {None}, slot : 0 .. NSlots + 1]

\* The type invariant.
TypeOK ==
    /\ slots \in [Slots -> [filter : Filters \cup {None}, handle : Handles \cup {None}]]
    /\ {mtx, pool_mtx} \subseteq {None, S, R}
    /\ current \in Handles \cup {None}
    /\ sub_infos \in [1 .. MaxFilters -> Filters \cup {None}]
    /\ client \in [Handles -> {"new", "asking", "open", "closed"}]
    /\ gone \subseteq Handles /\ seen \subseteq Faults
    /\ conn \in BOOLEAN /\ broker \subseteq Filters /\ msg \in Topics \cup {None}
    /\ asked \in [Handles -> Seq(Filters)]
    /\ th \in [{S, R} -> ThreadState]

FiltersOf(h) == {asked[h][k] : k \in DOMAIN asked[h]}

Settled == conn /\ At(S, "idle") /\ th[R].pc \in {"loop", "respond"}

\* Every filter of every accepted subscription is subscribed at the broker
\* once the connection is up and the table has been walked: clients share
\* filters and go, and the connection is lost and regained, also during a
\* request (aws_iot_mqtt subscribe).  The exceptions are a connection lost while
\* the table is walked, a request during the walk and a client that does not
\* read.
AcceptedIsSubscribed ==
    Settled /\ seen \subseteq {"hangup", "request"} => \A h \in Handles :
                 client[h] = "open" => FiltersOf(h) \subseteq broker

\* What nobody asks for any more is unsubscribed
\* (iotcored_unregister_subscriptions), but for the same exceptions.
NothingLeftSubscribed ==
    Settled /\ seen \subseteq {"hangup", "request"}
      => broker \subseteq {FilterAt(i) : i \in Slots}

\* The broker and the clients agree on what is subscribed.
BrokerInStep == AcceptedIsSubscribed /\ NothingLeftSubscribed

\* A slot in use belongs to a live connection: messages never go to a handle
\* that was closed, and slots are not leaked.
SlotsAreLive ==
    TypeOK /\ \A i \in Slots : FilterAt(i) # None => client[slots[i].handle] \in {"asking", "open"}

\* As long as clients stay and the connection is lost between requests only,
\* neither thread waits for the other for ever: requests, messages and
\* reconnects keep being served.
ThreadsReturn ==
    /\ []<>(seen # {} \/ At(S, "idle"))
    /\ []<>(seen # {} \/ (At(R, "loop") /\ conn))

-----------------------------------------------------------------------------
(* Promises that do not hold once a request has MaxFilters filters (the      *)
(* first), a client goes (the second) or a write to a client fails (the      *)
(* third).                                                                   *)

\* The assertions of iotcored_mqtt_subscribe hold.
AssertsHold == ~aborted

\* The core bus server of iotcored comes back to its clients.
ServerReturns == []<>At(S, "idle")

\* After the connection is lost the receiver is back in its loop.
ReceiverReturns == []<>(At(R, "loop") /\ conn)

=============================================================================
