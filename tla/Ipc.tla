-------------------------------- MODULE Ipc ---------------------------------
(***************************************************************************)
(* ggipcd, the daemon that components talk to, with ggpubsubd behind it.   *)
(*                                                                         *)
(* Two threads of ggipcd share the pool of IPC connections, the pool of    *)
(* core bus subscriptions and the table that ties a subscription to the    *)
(* connection and stream that asked for it:                                *)
(*   - the server thread reads one message of a connection, handles it     *)
(*     whole (calls of other daemons included) and answers it; a           *)
(*     connection that ends is closed here, with its subscriptions;        *)
(*   - the core bus client's subscription thread reads one response of a   *)
(*     subscription and sends it to the connection.                        *)
(* Both pools have a recursive mutex: "ipc mutex" and "client mutex" below.*)
(* A step that takes and drops a mutex is one action, enabled while the    *)
(* other thread does not hold it.  The subscription thread holds the       *)
(* client mutex from the call of the response callback to its end          *)
(* (pc = "send"), the server thread the ipc mutex while it closes a        *)
(* connection (pc = "release").                                            *)
(*                                                                         *)
(* ggpubsubd handles one request at a time.  The daemons gg_config and     *)
(* aws_iot_mqtt, which other processes drive, accept a subscription and    *)
(* send responses on it at any time.  A handle is given out again only     *)
(* when nothing refers to it any more: that a stale handle reaches nothing *)
(* is SocketPool's theorem.                                                *)
(* ggipcd/src/ipc_server.c, ipc_subscriptions.c, ipc_components.c,         *)
(* ggpubsubd/src/bus_server.c, core-bus/src/client_subscribe.c             *)
(***************************************************************************)
EXTENDS IpcServices, FiniteSets, TLC
LOCAL INSTANCE SequencesExt

CONSTANTS
    Conns,            \* handles of IPC connections, 1..n
    Slots,            \* 1..GGL_IPC_MAX_SUBSCRIPTIONS
    Subs,             \* handles of core bus subscriptions, 1..n
    MaxOpen,          \* capacity of the core bus client's pool
    Rows,             \* 1..GGL_PUBSUB_MAX_SUBSCRIPTIONS
    Units,            \* the units that processes run in
    Openings,         \* [unit -> what its processes may send first]
    Requests,         \* [unit -> what its processes may send later]
    MaxComponents,    \* GGL_MAX_GENERIC_COMPONENTS
    Matches(_, _),    \* MQTT_MatchTopic
    BadTopics,        \* topics longer than GGL_PUBSUB_MAX_TOPIC_LENGTH
    MaxConnects,      \* bound: connections that clients make
    MaxMessages,      \* bound: messages that clients send, first ones included
    MaxEvents         \* bound: responses of gg_config and aws_iot_mqtt, and
                      \* failures of other parts of the system

ASSUME CountsAssumption ==
    /\ Conns = 1..Cardinality(Conns) /\ Slots = 1..Cardinality(Slots)
    /\ Subs = 1..Cardinality(Subs) /\ Rows = 1..Cardinality(Rows)
    /\ Cardinality(Slots) <= MaxOpen    \* the static_assert
    /\ {MaxOpen, MaxComponents, MaxConnects, MaxMessages,
        MaxEvents} \subseteq Nat

VARIABLES
    conn,       \* the pool of connections, with client_components
    names,      \* component_names
    svcuids,    \* svcuids; 0 is one that was never filled
    told,       \* the tokens that clients were given, with their component
    slot,       \* subs_resp_handle, subs_stream_id, subs_recv_handle
    sub,        \* the core bus subscriptions of ggipcd
    row,        \* ggpubsubd: sub_handle, sub_topic_filter
    server,     \* the server thread
    client,     \* the subscription thread
    acked,      \* subscriptions whose request was answered with success
    lost,       \* subscriptions that ended without their connection
    count       \* what the bounds count

vars == <<conn, names, svcuids, told, slot, sub, row, server, client, acked,
          lost, count>>
table == <<names, svcuids, told>>
history == <<acked, lost, count>>

NoConn == [state |-> "none", hup |-> FALSE, comp |-> 0, unit |-> None,
           inbox |-> <<>>]
NoSub == [state |-> "none", to |-> None, on |-> None, queue |-> <<>>,
          eof |-> FALSE, h |-> 0, stream |-> 0]

(* Handles that nothing refers to.                                         *)
UnusedConns == {h \in Conns : /\ conn[h].state = "none" /\ client.h # h
                              /\ \A i \in Slots : slot[i].resp # h
                              /\ \A r \in Subs : sub[r].h # h}
UnusedSubs == {r \in Subs : /\ sub[r].state = "none" /\ client.sub # r
                            /\ \A i \in Slots : slot[i].recv # r}

(* A subscription whose connection ggipcd closed: what was in it is gone.  *)
Closed(s) == [s EXCEPT !.state = "closed", !.queue = <<>>]

FreeSlot == [resp |-> 0, stream |-> 0, recv |-> 0]
FreeRow == [sub |-> 0, filter |-> None]

Idle(thread) == thread.pc = "wait"
Waiting == [pc |-> "wait", h |-> 0, req |-> None, slot |-> 0, sub |-> 0]
Quiet == [pc |-> "wait", sub |-> 0, bad |-> FALSE, h |-> 0, stream |-> 0]

Init ==
    /\ conn = [h \in Conns |-> NoConn]
    /\ names = <<>> /\ svcuids = <<>> /\ told = {}
    /\ slot = [i \in Slots |-> FreeSlot]
    /\ sub = [r \in Subs |-> NoSub]
    /\ row = [k \in Rows |-> FreeRow]
    /\ server = Waiting
    /\ client = Quiet
    /\ acked = {} /\ lost = {}
    /\ count = [connects |-> 0, messages |-> 0, events |-> 0]

Event == /\ count.events < MaxEvents
         /\ count' = [count EXCEPT !.events = @ + 1]

(* The mutexes of the two pools.                                           *)
HoldsIpcMutex == server.pc = "release"
HoldsClientMutex == client.pc = "send"

-----------------------------------------------------------------------------
(* The clients (external): they connect from a unit, send messages and may *)
(* go at any time.  A message sent while the server thread is busy would   *)
(* only lie there: it is sent when the thread waits.                       *)

(* The component a process belongs to, from the name of its unit; the name *)
(* has to fit the caller's buffer.                                         *)
ggl_ipc_auth_lookup_name(unit) ==
    IF unit.service /\ unit.ggl /\ unit.fits THEN unit.name ELSE None

(* A client that names a token names one its component was given, one that *)
(* was never given out, or the one that is all zeros.                      *)
Message(unit, req) ==
    LET tokens == {t[2] : t \in {t \in told : t[1] = unit.name}} \cup {None, 0}
    IN  {[token |-> t] @@ req :
            t \in IF req.kind = "connect" /\ ~req.auth THEN tokens ELSE {None}}

(* new_client_available, on the server thread, and the first message.      *)
Connect(unit, req) ==
    /\ Idle(server) /\ UnusedConns # {}
    /\ count.connects < MaxConnects /\ count.messages < MaxMessages
    /\ count' = [count EXCEPT !.connects = @ + 1, !.messages = @ + 1]
    /\ \E msg \in Message(unit, req) :
          conn' = [conn EXCEPT ![First(UnusedConns)] =
                     [NoConn EXCEPT !.state = "open", !.unit = unit,
                                    !.inbox = <<msg>>]]
    /\ UNCHANGED <<table, slot, sub, row, server, client, acked, lost>>

Send(h, req) ==
    /\ Idle(server) /\ conn[h].state = "open" /\ ~conn[h].hup
    /\ conn[h].inbox = <<>>
    /\ count.messages < MaxMessages /\ UnusedSubs # {}
    /\ count' = [count EXCEPT !.messages = @ + 1]
    /\ \E msg \in Message(conn[h].unit, req) :
          conn' = [conn EXCEPT ![h].inbox = <<msg>>]
    /\ UNCHANGED <<table, slot, sub, row, server, client, acked, lost>>

HangUp(h) ==
    /\ conn[h].state = "open" /\ ~conn[h].hup
    /\ conn' = [conn EXCEPT ![h].hup = TRUE]
    /\ UNCHANGED <<table, slot, sub, row, server, client, history>>

-----------------------------------------------------------------------------
(* Mutant of client_ready: the end of a connection is not looked for.      *)
ReadyToRead(h) ==
    /\ Idle(server) /\ conn[h].state = "open" /\ conn[h].inbox # <<>>
    /\ server' = [server EXCEPT !.pc = IF conn[h].comp = 0 THEN "init" ELSE "operation",
                                !.h = h, !.req = Head(conn[h].inbox)]
    /\ conn' = [conn EXCEPT ![h].inbox = <<>>]
    /\ UNCHANGED <<table, slot, sub, row, client, history>>

(* The server thread: client_ready reads a message; a connection that      *)
(* ended, and one whose message is refused, is closed.                     *)
client_ready(h) ==
    /\ Idle(server) /\ conn[h].state = "open"
    /\ \/ /\ conn[h].inbox # <<>>
          /\ server' = [server EXCEPT !.pc = IF conn[h].comp = 0 THEN "init"
                                             ELSE "operation",
                                      !.h = h, !.req = Head(conn[h].inbox)]
          /\ conn' = [conn EXCEPT ![h].inbox = <<>>]
       \/ /\ conn[h].inbox = <<>> /\ conn[h].hup
          /\ server' = [server EXCEPT !.pc = "release", !.h = h]
          /\ conn' = conn
    /\ UNCHANGED <<table, slot, sub, row, client, history>>

(* ggl_socket_handle_close begins: the ipc mutex is taken.                 *)
Close == server' = [server EXCEPT !.pc = "release", !.slot = 0]
ThisConn == conn[server.h]
Stream == server.req.stream

(* complete_conn_init: the acknowledgement cannot be written to a client   *)
(* that went away.                                                         *)
complete_conn_init(i, token) ==
    /\ conn' = [conn EXCEPT ![server.h].comp = i]
    /\ IF ThisConn.hup THEN Close /\ told' = told
       ELSE /\ server' = Waiting
            /\ told' = told \cup {<<ThisConn.unit.name, token>>}

(* Mutant of GetHandle: the tokens are not compared.                       *)
GetAny(token) == IF svcuids # <<>> THEN 1 ELSE 0

(* ggl_ipc_components_get_handle: the first component with the token.      *)
GetHandle(token) ==
    IF token \in Range(svcuids)
    THEN First({i \in 1..Len(svcuids) : svcuids[i] = token}) ELSE 0

(* handle_conn_init for a client that names its token.                     *)
ConnectWithToken ==
    /\ server.pc = "init"
    /\ server.req.kind = "connect" /\ server.req.valid /\ ~server.req.auth
    /\ LET i == GetHandle(server.req.token)
       IN  IF i = 0 THEN Close /\ UNCHANGED <<conn, told>>
           ELSE complete_conn_init(i, server.req.token)
    /\ UNCHANGED <<names, svcuids, slot, sub, row, client, history>>

(* handle_authentication_request and ggl_ipc_components_register: a known  *)
(* component has its handle and token already.                             *)
handle_authentication_request ==
    /\ server.pc = "init"
    /\ server.req.kind = "connect" /\ server.req.valid /\ server.req.auth
    /\ LET name  == ggl_ipc_auth_lookup_name(ThisConn.unit)
           known == {i \in 1..Len(names) : names[i] = name}
           new   == Len(names) + 1
       IN  \/ /\ name = None \/ (known = {} /\ Len(names) >= MaxComponents)
              /\ Close /\ UNCHANGED <<conn, table, count>>
           \/ /\ name # None /\ known # {}
              /\ complete_conn_init(First(known), svcuids[First(known)])
              /\ UNCHANGED <<names, svcuids, count>>
           \/ /\ name # None /\ known = {} /\ Len(names) < MaxComponents
              /\ names' = Append(names, name)
              /\ \/ /\ svcuids' = Append(svcuids, new)
                    /\ complete_conn_init(new, new) /\ count' = count
                 \/ \* ggl_rand_fill fails: the name stays registered
                    /\ svcuids' = Append(svcuids, 0)
                    /\ Event /\ Close /\ UNCHANGED <<conn, told>>
    /\ UNCHANGED <<slot, sub, row, client, acked, lost>>

(* Anything else as a first message.                                       *)
RefuseConnect ==
    /\ server.pc = "init" /\ ~(server.req.kind = "connect" /\ server.req.valid)
    /\ Close
    /\ UNCHANGED <<conn, table, slot, sub, row, client, history>>

(* A message without a stream: there is nowhere to send an error.          *)
RefuseMessage ==
    /\ server.pc = "operation" /\ Stream = 0
    /\ Close
    /\ UNCHANGED <<conn, table, slot, sub, row, client, history>>

-----------------------------------------------------------------------------
(* Operations: handle_stream_operation, ggl_ipc_handle_operation and the   *)
(* first part of ggl_ipc_bind_subscription.                                *)

(* init_subs_index: the first slot without a connection.                   *)
FreeSlots == {i \in Slots : slot[i].resp = 0}

(* A message that is no request (a terminated stream, flags, no operation) *)
(* or whose handler rejects it is answered with an error on its stream.    *)
handle_operation ==
    /\ server.pc = "operation" /\ Stream # 0
    /\ \E read \in BOOLEAN :
          LET req  == server.req
              plan == IF ~req.valid THEN Reject
                      ELSE ggl_ipc_handle_operation(names[ThisConn.comp],
                                                    req.operation, req.args, read)
          IN  \/ /\ \/ plan.do = "reject"
                    \/ plan.do = "bind" /\ FreeSlots = {}
                 /\ server' = [server EXCEPT !.pc = "fail"]
                 /\ UNCHANGED <<slot, sub>>
              \/ /\ plan.do = "call"
                 /\ server' = [server EXCEPT !.pc = "call",
                                             !.req = [@ EXCEPT !.args = plan]]
                 /\ UNCHANGED <<slot, sub>>
              \/ /\ plan.do = "bind" /\ FreeSlots # {}
                 /\ LET i == First(FreeSlots)
                        r == First(UnusedSubs)
                    IN  /\ slot' = [slot EXCEPT ![i] =
                                      [resp |-> server.h, stream |-> Stream,
                                       recv |-> 0]]
                        /\ sub' = [sub EXCEPT ![r].state = "asked",
                                              ![r].to = plan.to, ![r].on = plan.on,
                                              ![r].h = server.h,
                                              ![r].stream = Stream]
                        /\ server' = [server EXCEPT !.pc = "subscribe",
                                                    !.slot = i, !.sub = r]
    /\ UNCHANGED <<conn, table, row, client, history>>

Plan == server.req.args

(* A call of a daemon other than ggpubsubd, and its answer.                *)
CallReturns ==
    /\ server.pc = "call" /\ Plan.to # "gg_pubsub"
    /\ \E pc \in {"respond", "fail"} : server' = [server EXCEPT !.pc = pc]
    /\ UNCHANGED <<conn, table, slot, sub, row, client, history>>

(* release_subs_index, when ggl_subscribe returned an error.               *)
release_subs_index ==
    IF slot[server.slot].resp = server.h
    THEN [slot EXCEPT ![server.slot] = FreeSlot] ELSE slot

SubscribeFails ==
    /\ slot' = release_subs_index
    /\ sub' = [sub EXCEPT ![server.sub] = Closed(@)]
    /\ server' = [server EXCEPT !.pc = "fail"]

(* The request or its answer is lost: the daemon is down or does not       *)
(* answer in time.                                                         *)
RemoteFails ==
    /\ Event
    /\ \/ /\ server.pc = "call" /\ Plan.to = "gg_pubsub"
          /\ server' = [server EXCEPT !.pc = "fail"]
          /\ UNCHANGED <<slot, sub>>
       \/ server.pc = "subscribe" /\ SubscribeFails
    /\ UNCHANGED <<conn, table, row, client, acked, lost>>

(* ggl_connect finds no descriptor for the call: the error is              *)
(* GGL_ERR_FATAL, for which handle_operation sends no error on the stream  *)
(* and has the client's connection closed.                                 *)
ConnectIsFatal ==
    /\ Event
    /\ \/ server.pc = "call" /\ UNCHANGED <<slot, sub>>
       \/ /\ server.pc = "subscribe" /\ sub[server.sub].state = "asked"
          /\ slot' = release_subs_index
          /\ sub' = [sub EXCEPT ![server.sub] = Closed(@)]
    /\ Close
    /\ UNCHANGED <<conn, table, row, client, acked, lost>>

(* ggl_subscribe with the answer "accepted": the connection joins the      *)
(* client's pool, with callbacks, and its epoll set; a full pool closes it.*)
Open == {r \in Subs : sub[r].state = "open"}

ggl_subscribe ==
    /\ server.pc = "subscribe" /\ sub[server.sub].state = "accepted"
    /\ ~HoldsClientMutex
    /\ IF Cardinality(Open) < MaxOpen
       THEN /\ sub' = [sub EXCEPT ![server.sub].state = "open"]
            /\ server' = [server EXCEPT !.pc = "bound"]
            /\ slot' = slot
       ELSE SubscribeFails
    /\ UNCHANGED <<conn, table, row, client, history>>

subs_set_recv_handle ==
    /\ server.pc = "bound"
    /\ slot' = IF slot[server.slot].resp = server.h
               THEN [slot EXCEPT ![server.slot].recv = server.sub] ELSE slot
    /\ server' = [server EXCEPT !.pc = "respond"]
    /\ UNCHANGED <<conn, table, sub, row, client, history>>

(* ggl_ipc_response_send and send_stream_error by the server thread.  A    *)
(* response that cannot be written is followed by an error that cannot     *)
(* either, and the connection is closed.                                   *)
Answer ==
    /\ server.pc \in {"respond", "fail"}
    /\ IF ThisConn.hup THEN Close /\ acked' = acked
       ELSE /\ acked' = IF server.pc = "respond" /\ server.sub # 0
                        THEN acked \cup {server.sub} ELSE acked
            /\ server' = Waiting
    /\ UNCHANGED <<conn, table, slot, sub, row, client, lost, count>>

-----------------------------------------------------------------------------
(* Closing a connection: ggl_socket_pool_release holds the ipc mutex and   *)
(* calls ggl_ipc_release_subscriptions_for_conn, which closes each         *)
(* subscription of the connection under the client mutex.                  *)

(* subscription_on_close: the slots after the close of subscription r.     *)
subscription_on_close(r) ==
    [i \in Slots |-> IF slot[i].recv = r THEN FreeSlot ELSE slot[i]]

(* The slots of the connection that the loop still has to close.           *)
Bound == {i \in Slots : /\ i > server.slot
                        /\ slot[i].resp = server.h /\ slot[i].recv # 0}

ReleaseSlot ==
    /\ server.pc = "release" /\ Bound # {} /\ ~HoldsClientMutex
    /\ LET r == slot[First(Bound)].recv
       IN  IF sub[r].state = "open"
           THEN /\ sub' = [sub EXCEPT ![r] = Closed(@)]
                /\ slot' = subscription_on_close(r)
           ELSE UNCHANGED <<sub, slot>>
    /\ server' = [server EXCEPT !.slot = First(Bound)]
    /\ UNCHANGED <<conn, table, row, client, history>>

(* A closed subscription is forgotten once ggpubsubd has no row for it and *)
(* its connection is closed.                                               *)
HasRow(r) == \E k \in Rows : row[k].sub = r

EndRelease ==
    /\ server.pc = "release" /\ Bound = {}
    /\ LET theirs == {r \in Subs : /\ sub[r].h = server.h
                                   /\ \A i \in Slots : slot[i].recv # r}
       IN  /\ sub' = [r \in Subs |-> IF r \in theirs /\ ~HasRow(r) THEN NoSub
                                     ELSE sub[r]]
           /\ acked' = acked \ theirs /\ lost' = lost \ theirs
    /\ conn' = [conn EXCEPT ![server.h] = NoConn]
    /\ server' = Waiting
    /\ UNCHANGED <<table, slot, row, client, count>>

-----------------------------------------------------------------------------
(* The subscription thread.                                                *)

(* The subscription ends on this thread, for a reason other than the end   *)
(* of its connection.                                                      *)
CloseSub(r) ==
    /\ sub' = [sub EXCEPT ![r] = Closed(@)]
    /\ slot' = subscription_on_close(r)
    /\ lost' = lost \cup {r}
    /\ client' = Quiet

(* get_subscription_response reads a message, or the end of the stream.    *)
get_subscription_response(r) ==
    /\ Idle(client) /\ sub[r].state = "open"
    /\ \/ /\ sub[r].queue # <<>>
          /\ client' = [client EXCEPT !.pc = "deliver", !.sub = r,
                                      !.bad = Head(sub[r].queue)]
          /\ sub' = [sub EXCEPT ![r].queue = Tail(@)]
          /\ UNCHANGED <<slot, lost>>
       \/ /\ sub[r].queue = <<>> /\ sub[r].eof
          /\ CloseSub(r)
    /\ UNCHANGED <<conn, table, row, server, acked, count>>

(* Mutant of subscription_on_response: the stream of the first slot of the *)
(* connection, whichever subscription the response came on.                *)
AnyStream ==
    /\ client.pc = "deliver"
    /\ LET r     == client.sub
           found == {i \in Slots : slot[i].recv = r}
           i     == First({k \in Slots : \E j \in found : slot[k].resp = slot[j].resp})
       IN  \/ /\ sub[r].state # "open"
              /\ client' = Quiet /\ UNCHANGED <<sub, slot, lost>>
           \/ /\ sub[r].state = "open" /\ (found = {} \/ client.bad)
              /\ CloseSub(r)
           \/ /\ sub[r].state = "open" /\ found # {} /\ ~client.bad
              /\ client' = [client EXCEPT !.pc = "send", !.h = slot[i].resp,
                                          !.stream = slot[i].stream]
              /\ UNCHANGED <<sub, slot, lost>>
    /\ UNCHANGED <<conn, table, row, server, acked, count>>

(* call_on_response_callback, subscription_on_response and the callback of *)
(* the service up to its send: nothing for a subscription that was closed  *)
(* meanwhile; one that no slot knows, or a response the callback cannot    *)
(* parse, closes it.                                                       *)
subscription_on_response ==
    /\ client.pc = "deliver"
    /\ LET r     == client.sub
           found == {i \in Slots : slot[i].recv = r}
           i     == First(found)
       IN  \/ /\ sub[r].state # "open"
              /\ client' = Quiet /\ UNCHANGED <<sub, slot, lost>>
           \/ /\ sub[r].state = "open" /\ (found = {} \/ client.bad)
              /\ CloseSub(r)
           \/ /\ sub[r].state = "open" /\ found # {} /\ ~client.bad
              /\ client' = [client EXCEPT !.pc = "send", !.h = slot[i].resp,
                                          !.stream = slot[i].stream]
              /\ UNCHANGED <<sub, slot, lost>>
    /\ UNCHANGED <<conn, table, row, server, acked, count>>

(* The callback's ggl_ipc_response_send, with the client mutex held; a     *)
(* response that cannot be sent is skipped.                                *)
SendEvent ==
    /\ client.pc = "send" /\ ~HoldsIpcMutex
    /\ client' = Quiet
    /\ UNCHANGED <<conn, table, slot, sub, row, server, history>>

-----------------------------------------------------------------------------
(* ggpubsubd.  ggipcd's server thread is its only client.                  *)

(* A closed subscription is forgotten when its row is freed, unless its    *)
(* connection still has to be closed.                                      *)
Forget(r) == IF conn[sub[r].h].state = "none" THEN NoSub ELSE sub[r]

(* ggl_sub_respond to every subscription of "hit".  It cannot be written   *)
(* to one that ggipcd closed, nor to those of "cut", which ggipcd does not *)
(* read for the time of a send: ggpubsubd closes these, and                *)
(* release_subscription frees their rows.                                  *)
Deliver(hit, cut) ==
    LET dead == {r \in hit : sub[r].state = "closed"}
    IN  /\ sub' = [r \in Subs |->
                      CASE r \in dead -> Forget(r)
                        [] r \in cut -> [sub[r] EXCEPT !.eof = TRUE]
                        [] r \in hit \ (dead \cup cut) ->
                              [sub[r] EXCEPT !.queue = Append(@, FALSE)]
                        [] OTHER -> sub[r]]
        /\ row' = [k \in Rows |-> IF row[k].sub \in dead \cup cut THEN FreeRow
                                  ELSE row[k]]

Matching(topic) == {k \in Rows : row[k].sub # 0 /\ Matches(topic, row[k].filter)}

(* Mutant of Hit: the loop ends at a row whose client is gone.             *)
HitUpToDead(topic) ==
    {row[k].sub : k \in {k \in Matching(topic) :
        \A j \in Matching(topic) : j < k => sub[row[j].sub].state # "closed"}}

(* The subscriptions whose filter matches a topic.                         *)
Hit(topic) == {row[k].sub : k \in Matching(topic)}

(* The publish is answered with success whatever became of the responses.  *)
rpc_publish ==
    /\ server.pc = "call" /\ Plan.to = "gg_pubsub"
    /\ \/ /\ Plan.on \in BadTopics
          /\ server' = [server EXCEPT !.pc = "fail"]
          /\ UNCHANGED <<sub, row, count>>
       \/ /\ Plan.on \notin BadTopics
          /\ server' = [server EXCEPT !.pc = "respond"]
          /\ \/ Deliver(Hit(Plan.on), {}) /\ count' = count
             \/ /\ Event
                /\ \E r \in {r \in Hit(Plan.on) : sub[r].state # "closed"} :
                      Deliver(Hit(Plan.on), {r})
    /\ UNCHANGED <<conn, table, slot, client, acked, lost>>

(* Mutant of FreeRows: a row that is in use is taken as well.              *)
AnyRow == Rows

FreeRows == {k \in Rows : row[k].sub = 0}

Accepted(s) == [s EXCEPT !.state = "accepted"]

(* rpc_subscribe with register_subscription and ggl_sub_accept.            *)
rpc_subscribe ==
    /\ server.pc = "subscribe"
    /\ sub[server.sub].state = "asked" /\ sub[server.sub].to = "gg_pubsub"
    /\ LET r == server.sub
       IN  \/ /\ sub[r].on # <<>> /\ sub[r].on \notin BadTopics /\ FreeRows # {}
              /\ row' = [row EXCEPT ![First(FreeRows)] =
                            [sub |-> r, filter |-> sub[r].on]]
              /\ sub' = [sub EXCEPT ![r] = Accepted(@)]
              /\ UNCHANGED <<slot, server>>
           \/ /\ sub[r].on = <<>> \/ sub[r].on \in BadTopics \/ FreeRows = {}
              /\ SubscribeFails /\ row' = row
    /\ UNCHANGED <<conn, table, client, history>>

(* release_subscription, when ggpubsubd sees that the connection ended.    *)
release_subscription(k) ==
    /\ row[k].sub # 0 /\ sub[row[k].sub].state = "closed"
    /\ row' = [row EXCEPT ![k] = FreeRow]
    /\ sub' = [sub EXCEPT ![row[k].sub] = Forget(row[k].sub)]
    /\ UNCHANGED <<conn, table, slot, server, client, history>>

(* ggpubsubd stops and is started again: its connections end, its rows are *)
(* gone, and the call that it was handling fails.                          *)
PubsubRestarts ==
    /\ Event
    /\ row' = [k \in Rows |-> FreeRow]
    /\ LET cut == [r \in Subs |-> IF /\ sub[r].to = "gg_pubsub"
                                     /\ sub[r].state \in {"accepted", "open"}
                                  THEN [sub[r] EXCEPT !.eof = TRUE] ELSE sub[r]]
       IN  \/ /\ server.pc = "subscribe" /\ sub[server.sub].to = "gg_pubsub"
              /\ sub[server.sub].state = "asked"
              /\ slot' = release_subs_index
              /\ sub' = [cut EXCEPT ![server.sub] = Closed(@)]
              /\ server' = [server EXCEPT !.pc = "fail"]
           \/ /\ server.pc = "call" /\ Plan.to = "gg_pubsub"
              /\ server' = [server EXCEPT !.pc = "fail"]
              /\ sub' = cut /\ slot' = slot
           \/ /\ ~(server.pc = "subscribe" /\ sub[server.sub].to = "gg_pubsub"
                                           /\ sub[server.sub].state = "asked")
              /\ ~(server.pc = "call" /\ Plan.to = "gg_pubsub")
              /\ sub' = cut /\ UNCHANGED <<slot, server>>
    /\ UNCHANGED <<conn, table, client, acked, lost>>

-----------------------------------------------------------------------------
(* gg_config and aws_iot_mqtt, as far as ggipcd sees them.  They accept a  *)
(* subscription or return an error; ConfigStore and IotcoredDispatch say   *)
(* when.                                                                   *)
ProviderAccepts ==
    /\ server.pc = "subscribe"
    /\ sub[server.sub].state = "asked" /\ sub[server.sub].to # "gg_pubsub"
    /\ \/ /\ sub' = [sub EXCEPT ![server.sub] = Accepted(@)]
          /\ UNCHANGED <<slot, server>>
       \/ SubscribeFails
    /\ UNCHANGED <<conn, table, row, client, history>>

(* A response; "bad" is one that the service's callback cannot parse, as a *)
(* configuration path that ggl_parse_config_path refuses.                  *)
ProviderResponds(r) ==
    /\ sub[r].state \in {"accepted", "open"} /\ sub[r].to # "gg_pubsub"
    /\ ~sub[r].eof
    /\ Event
    /\ \E bad \in BOOLEAN : sub' = [sub EXCEPT ![r].queue = Append(@, bad)]
    /\ UNCHANGED <<conn, table, slot, row, server, client, acked, lost>>

ProviderStops(r) ==
    /\ Event
    /\ sub[r].state \in {"accepted", "open"} /\ sub[r].to # "gg_pubsub"
    /\ sub' = [sub EXCEPT ![r].eof = TRUE]
    /\ UNCHANGED <<conn, table, slot, row, server, client, acked, lost>>

-----------------------------------------------------------------------------
ClientSteps ==
    \/ \E unit \in Units : \E req \in Openings[unit] : Connect(unit, req)
    \/ \E h \in {h \in Conns : conn[h].unit # None} :
          \E req \in Requests[conn[h].unit] : Send(h, req)
    \/ \E h \in Conns : HangUp(h)

ServerSteps ==
    \/ \E h \in Conns : client_ready(h)
    \/ ConnectWithToken
    \/ handle_authentication_request
    \/ RefuseConnect
    \/ RefuseMessage
    \/ handle_operation
    \/ CallReturns
    \/ ggl_subscribe
    \/ subs_set_recv_handle
    \/ Answer
    \/ ReleaseSlot
    \/ EndRelease

SubscriptionSteps ==
    \/ \E r \in Subs : get_subscription_response(r)
    \/ subscription_on_response
    \/ SendEvent

DaemonSteps == rpc_publish \/ rpc_subscribe \/ ProviderAccepts

Faults ==
    \/ RemoteFails
    \/ ConnectIsFatal
    \/ PubsubRestarts
    \/ \E r \in Subs : ProviderStops(r)

Next ==
    \/ ClientSteps
    \/ ServerSteps
    \/ SubscriptionSteps
    \/ DaemonSteps
    \/ \E k \in Rows : release_subscription(k)
    \/ \E r \in Subs : ProviderResponds(r)
    \/ Faults

Spec == Init /\ [][Next]_vars

(* The threads and daemons run; clients, events and failures need not come.*)
FairSpec ==
    /\ Spec
    /\ WF_vars(ServerSteps) /\ WF_vars(SubscriptionSteps) /\ WF_vars(DaemonSteps)
    /\ \A k \in Rows : WF_vars(release_subscription(k))

-----------------------------------------------------------------------------
Handles == Conns \cup {0}

(* The state has the shape of the pools, the tables and the two threads.   *)
TypeOK ==
    /\ \A h \in Conns : /\ conn[h].state \in {"none", "open"}
                        /\ conn[h].hup \in BOOLEAN
                        /\ conn[h].comp \in 0..Len(names)
                        /\ Len(conn[h].inbox) <= 1
    /\ Len(names) = Len(svcuids) /\ Len(names) <= MaxComponents
    /\ \A i \in Slots : slot[i].resp \in Handles /\ slot[i].recv \in Subs \cup {0}
    /\ \A r \in Subs : sub[r].state \in {"none", "asked", "accepted", "open", "closed"}
    /\ \A k \in Rows : row[k].sub \in Subs \cup {0}
    /\ server.pc \in {"wait", "init", "operation", "call", "subscribe", "bound",
                      "respond", "fail", "release"}
    /\ client.pc \in {"wait", "deliver", "send"}
    /\ acked \subseteq Subs /\ lost \subseteq Subs

(* A connection acts as the component whose process opened it, whether it  *)
(* authenticated or named a token, and whichever of several components     *)
(* registered first.  The exception: the token of a component for which    *)
(* the random source failed is all zeros for ever, and whoever names it is *)
(* taken for that component (ggl_ipc_components_register,                  *)
(* ggl_ipc_components_get_handle).                                         *)
TokenIsTheirs ==
    /\ TypeOK
    /\ \A h \in Conns :
        conn[h].comp # 0 =>
            \/ names[conn[h].comp] = ggl_ipc_auth_lookup_name(conn[h].unit)
            \/ svcuids[conn[h].comp] = 0

(* A subscription response is sent to the connection and on the stream     *)
(* that asked for that subscription, although slots are freed and taken    *)
(* again by the other thread while it is under way                         *)
(* (subscription_on_response, ipc_subscriptions.c).                        *)
DeliveredToOwner ==
    client.pc = "send" /\ sub[client.sub].state # "none" =>
        sub[client.sub].h = client.h /\ sub[client.sub].stream = client.stream

(* A message of a local topic never comes before the response to the       *)
(* request that subscribed to the topic: the thread that publishes is the  *)
(* one that still has to send the response                                 *)
(* (ggl_handle_subscribe_to_topic; it is not so for gg_config and          *)
(* aws_iot_mqtt, which respond when they like).                            *)
ResponseFirst ==
    /\ client.pc = "send" /\ conn[client.h].state = "open"
    /\ sub[client.sub].to = "gg_pubsub"
    => client.sub \in acked

(* What a stream gets is what it asked for, after it was told that it will *)
(* get it.                                                                 *)
StreamsAreKeptApart == DeliveredToOwner /\ ResponseFirst

(* The part of ggipcd that a subscription needs to go on working.          *)
Served(r) ==
    /\ sub[r].state = "open"
    /\ \E i \in Slots : slot[i] = [resp |-> sub[r].h, stream |-> sub[r].stream,
                                   recv |-> r]
    /\ sub[r].to = "gg_pubsub" =>
            \E k \in Rows : row[k] = [sub |-> r, filter |-> sub[r].on]

Closing(h) == server.pc = "release" /\ server.h = h

(* A subscription that was answered with success is served for as long as  *)
(* its connection is open: only its provider can end it, by ending the     *)
(* core bus connection or by a response that came too early or cannot be   *)
(* parsed.  ggpubsubd ends one when it stops, or when a response to it     *)
(* cannot be written (ggl_ipc_bind_subscription, rpc_subscribe,            *)
(* ggl_sub_respond).                                                       *)
SubscribedIsServed ==
    \A r \in acked :
        conn[sub[r].h].state = "open" /\ ~Closing(sub[r].h) =>
            \/ Served(r)
            \/ sub[r].eof
            \/ r \in lost /\ sub[r].to # "gg_pubsub"

(* A slot of the table is in use for a subscription that is being bound or *)
(* is open for an open connection.  The exception: the subscription ended  *)
(* between ggl_subscribe and subs_set_recv_handle, after which nothing     *)
(* frees its slot (subscription_on_close).                                 *)
SlotsAreLive ==
    \A i \in Slots :
        LET r == slot[i].recv
        IN  slot[i].resp # 0 =>
              \/ r = 0 /\ server.pc \in {"subscribe", "bound"} /\ server.slot = i
              \/ /\ r # 0 /\ sub[r].state = "open"
                 /\ conn[slot[i].resp].state = "open" /\ sub[r].h = slot[i].resp
              \/ r \in lost /\ (sub[r].to # "gg_pubsub" \/ sub[r].eof)

(* The two tables of subscriptions and what the clients were told agree.   *)
SubscriptionsAgree == SubscribedIsServed /\ SlotsAreLive

(* When a publish succeeds, the message is on its way, once, to every      *)
(* stream that was told it is subscribed to the topic and to no other, on  *)
(* whichever rows they are and whatever became of the rows before; a       *)
(* stream that could not be written to has its subscription ended instead. *)
(* It is so while ggpubsubd has not stopped and for open connections       *)
(* (rpc_publish, ggl_sub_respond).                                         *)
PublishReachesAll ==
    [][/\ server.pc = "call" /\ Plan.to = "gg_pubsub"
       /\ server'.pc = "respond"
       => \A r \in acked :
            /\ sub[r].to = "gg_pubsub" /\ conn[sub[r].h].state = "open"
            /\ ~sub[r].eof
            => IF Matches(Plan.on, sub[r].on)
               THEN \/ sub'[r].queue = Append(sub[r].queue, FALSE)
                    \/ sub'[r].eof /\ \A k \in Rows : row'[k].sub # r
               ELSE sub'[r].queue = sub[r].queue]_vars

(* Each thread has what the other waits for: the server thread closes a    *)
(* connection with the ipc mutex and wants the client mutex, the           *)
(* subscription thread is in a response callback with the client mutex and *)
(* wants the ipc mutex.                                                    *)
Stuck ==
    /\ client.pc = "send"
    /\ server.pc = "release" /\ Bound # {}

(* Every message that a client sends is handled to its end and the server  *)
(* thread waits again, unless the threads wait for each other              *)
(* (client_ready, ipc_server.c).                                           *)
EveryRequestEnds ==
    \A h \in Conns :
        conn[h].inbox # <<>> ~> (conn[h].inbox = <<>> /\ Idle(server)) \/ Stuck

(* When a client goes away, its connection is closed, its subscriptions    *)
(* end and ggpubsubd forgets them, unless the threads wait for each other  *)
(* (ggl_ipc_release_subscriptions_for_conn, release_subscription).         *)
HangUpFrees ==
    \A h \in Conns :
        conn[h].hup ~> \/ Stuck
                       \/ /\ conn[h].state = "none"
                          /\ \A k \in Rows : row[k].sub # 0 => sub[row[k].sub].h # h

(* A client can rely on the server thread while it is there, and leaves    *)
(* nothing behind when it goes.                                            *)
ClientsAreServed == EveryRequestEnds /\ HangUpFrees
=============================================================================
