------------------------------ MODULE GgHealth ------------------------------
(***************************************************************************)
(* gghealthd's lifecycle subscriptions (subscriptions.c), the core bus     *)
(* method that makes them (subscribe_to_lifecycle_completion in            *)
(* bus_server.c) and the reading of a unit's state over D-Bus (sd_bus.c).  *)
(*                                                                         *)
(* The core bus server thread asks the event loop thread, through          *)
(* operation_index, event_fd and last_result, to add or remove the match   *)
(* of a slot, and waits.  The event loop thread does that and answers the  *)
(* signals of systemd; only it touches the matches.  A unit's properties   *)
(* are read one by one while systemd changes them.                         *)
(***************************************************************************)
EXTENDS Integers, FiniteSets

CONSTANTS
    Handles,      \* connections of the core bus server, 1..n in the order made
    Components,
    Asks,         \* handle -> the components that its client may ask about
    NSlots,       \* GGHEALTHD_MAX_SUBSCRIPTIONS
    MaxChanges,   \* bound: state changes of all units
    Faults,       \* what may go wrong: "hangup", "write", "dbus", "torn"
    None

ASSUME HealthAssumption ==
    /\ NSlots \in Nat \ {0} /\ MaxChanges \in Nat
    /\ Faults \subseteq {"hangup", "write", "dbus", "torn"}
    /\ Handles \subseteq Nat
    /\ None \notin Handles \cup Components
    /\ None \notin {"server", "event_loop", "STARTING", "RUNNING", "STOPPING"}

ASSUME AsksAssumption == Asks \in [Handles -> SUBSET Components]

VARIABLES
    slots,        \* slot -> the component whose signals it matches: slots
    handles,      \* slot -> the subscription it serves
    names,        \* slot -> component_names
    operation_index,
    event,        \* event_fd is readable
    last_result,  \* "expected", "ok" or "failed"
    pending,      \* slots whose match has a signal not yet dispatched
    pool_mtx,     \* holder of the socket pool's mutex across a close callback
    current,      \* current_handle
    client,       \* handle -> "new", "asking", "open" or "closed"
    gone,         \* handles whose client has closed its end
    watched,      \* history: handle -> the component it asked for
    refused,      \* history: handles whose match could not be made
    told,         \* history: handle -> states sent to it
    unit,         \* component -> [active, ran, restarts, result]
    changes,
    th,           \* thread -> [pc, handle, comp, slot, state, was, back]
    seen          \* history: the faults that happened

request == <<operation_index, event, last_result>>
table == <<slots, handles, names, pending>>
bus == <<pool_mtx, current, client, gone, watched, refused, told>>
systemd == <<unit, changes>>
vars == <<slots, handles, names, operation_index, event, last_result, pending,
          pool_mtx, current, client, gone, watched, refused, told, unit,
          changes, th, seen>>

S == "server"
E == "event_loop"
Threads == {S, E}
Slots == 1 .. NSlots
RetryLimit == 3
Terminal == {"BROKEN", "FINISHED", "RUNNING"}

Installed == [active |-> "inactive", ran |-> FALSE, restarts |-> 0, result |-> "success"]

\* state: what the thread has read; was: the state of the unit at the time.
Resting(place) == [pc |-> place, handle |-> None, comp |-> None, slot |-> 0,
                   state |-> "", was |-> "", back |-> place]

Init ==
    /\ slots = [i \in Slots |-> None] /\ handles = [i \in Slots |-> None]
    /\ names = [i \in Slots |-> None] /\ pending = {}
    /\ operation_index = 0 /\ event = FALSE /\ last_result = "expected"
    /\ pool_mtx = None /\ current = None
    /\ client = [h \in Handles |-> "new"] /\ gone = {} /\ refused = {}
    /\ watched = [h \in Handles |-> None] /\ told = [h \in Handles |-> {}]
    /\ unit = [c \in Components |-> Installed]
    /\ changes = 0
    /\ th = [t \in Threads |-> Resting(IF t = S THEN "idle" ELSE "loop")]
    /\ seen = {}

At(t, place) == th[t].pc = place
Go(t, place) == th' = [th EXCEPT ![t].pc = place]
Back(t) == th' = [th EXCEPT ![t] = Resting(IF t = S THEN "idle" ELSE "loop")]
Allowed(faults) == faults \subseteq Faults /\ seen' = seen \cup faults

-----------------------------------------------------------------------------
(* systemd *)

\* The lifecycle state of a unit whose properties are read all at once.
Lifecycle(u) ==
    CASE u.active = "activating" -> "STARTING"
      [] u.active \in {"active", "reloading"} -> "RUNNING"
      [] u.active = "deactivating" -> "STOPPING"
      [] OTHER -> IF ~u.ran THEN "INSTALLED"
                  ELSE IF u.restarts >= RetryLimit THEN "BROKEN"
                  ELSE IF u.result = "success" THEN "FINISHED" ELSE "ERRORED"

Reading(c) == \E t \in Threads : /\ th[t].pc \in {"ran", "restarts", "result"}
                                 /\ th[t].comp = c

\* What a unit may become: it is started, runs, stops, ends, or fails after
\* none or all of its restarts.
Becomes(u) ==
    CASE u.active \in {"inactive", "failed"} ->
           {[u EXCEPT !.active = "activating", !.restarts = 0, !.result = "success"]}
      [] u.active = "deactivating" -> {[u EXCEPT !.active = "inactive", !.ran = TRUE]}
      [] OTHER ->
           {[u EXCEPT !.active = a] : a \in {"active", "deactivating"} \ {u.active}}
             \cup {[u EXCEPT !.active = "inactive", !.ran = TRUE]}
             \cup {[active |-> "failed", ran |-> TRUE, restarts |-> n,
                    result |-> "exit-code"] : n \in {0, RetryLimit}}

\* PropertiesChanged reaches the matches there are at the moment.
UnitChanges(c) ==
    /\ changes < MaxChanges
    /\ Allowed(IF Reading(c) THEN {"torn"} ELSE {})
    /\ \E u \in Becomes(unit[c]) : unit' = [unit EXCEPT ![c] = u]
    /\ changes' = changes + 1
    /\ pending' = pending \cup {i \in Slots : slots[i] = c}
    /\ UNCHANGED <<slots, handles, names, request, bus, th>>

-----------------------------------------------------------------------------
(* get_lifecycle_state, on either thread: one D-Bus call for each property *)

\* The event loop reports terminal states only, and so does the handler.
Judge(t, state, was) ==
    IF state \in Terminal
      THEN th' = [th EXCEPT ![t].pc = "respond", ![t].state = state, ![t].was = was]
      ELSE Back(t)

StatusOf(active) ==
    CASE active = "activating" -> "STARTING"
      [] active \in {"active", "reloading"} -> "RUNNING"
      [] active = "deactivating" -> "STOPPING"
      [] OTHER -> None

ReadActiveState(t) ==
    LET u == unit[th[t].comp]
        status == StatusOf(u.active)
    IN  /\ At(t, "active")
        /\ IF status # None THEN Judge(t, status, Lifecycle(u))
           ELSE th' = [th EXCEPT ![t].pc = "ran", ![t].was = Lifecycle(u)]
        /\ UNCHANGED <<table, request, bus, systemd, seen>>

ReadTimestamp(t) ==
    /\ At(t, "ran")
    /\ IF unit[th[t].comp].ran THEN Go(t, "restarts") ELSE Judge(t, "INSTALLED", th[t].was)
    /\ UNCHANGED <<table, request, bus, systemd, seen>>

ReadNRestarts(t) ==
    /\ At(t, "restarts")
    /\ IF unit[th[t].comp].restarts >= RetryLimit THEN Judge(t, "BROKEN", th[t].was)
                                                 ELSE Go(t, "result")
    /\ UNCHANGED <<table, request, bus, systemd, seen>>

\* Mutant of ResultState: the result is not looked at
AlwaysFinished(result) == "FINISHED"

ResultState(result) == IF result = "success" THEN "FINISHED" ELSE "ERRORED"

ReadResult(t) ==
    /\ At(t, "result")
    /\ Judge(t, ResultState(unit[th[t].comp].result), th[t].was)
    /\ UNCHANGED <<table, request, bus, systemd, seen>>

\* gghealthd_get_status gives up before it reads: there is no bus, or the
\* configuration has no version for the component.  (gghealthd itself, whose
\* status is that of the bus, is not among the components.)
StatusFails ==
    /\ At(S, "active")
    /\ Allowed({"dbus"})
    /\ Back(S)
    /\ UNCHANGED <<table, request, bus, systemd>>

\* A D-Bus call fails: the signal is dropped, the early response not sent.
ReadFails(t) ==
    /\ th[t].pc \in {"active", "ran", "restarts", "result"}
    /\ Allowed({"dbus"})
    /\ Back(t)
    /\ UNCHANGED <<table, request, bus, systemd>>

-----------------------------------------------------------------------------
(* The event loop thread *)

\* register_dbus_signal; a failure leaves the slot's handle and name.
RegisterSignal(i) ==
    \/ /\ slots' = [slots EXCEPT ![i] = names[i]]
       /\ last_result' = "ok"
       /\ UNCHANGED <<handles, names, pending, refused, seen>>
    \/ /\ Allowed({"dbus"})
       /\ last_result' = "failed"
       /\ refused' = refused \cup {handles[i]}
       /\ UNCHANGED table

\* Mutant of Unmatched: the match stays
StillMatched(i) == slots[i]

Unmatched(i) == None

Undelivered(i) == pending \ {i}

UnregisterSignal(i) ==
    /\ handles' = [handles EXCEPT ![i] = None]
    /\ slots' = [slots EXCEPT ![i] = Unmatched(i)]
    /\ names' = [names EXCEPT ![i] = None]
    /\ pending' = Undelivered(i)
    /\ last_result' = "ok"
    /\ UNCHANGED <<refused, seen>>

\* event_fd_handler: whether the slot has a match tells what was asked for.
EventFd ==
    LET i == operation_index
    IN  /\ At(E, "loop") /\ event
        /\ event' = FALSE
        /\ IF slots[i] = None THEN RegisterSignal(i) ELSE UnregisterSignal(i)
        /\ UNCHANGED <<operation_index, pool_mtx, current, client, gone, watched,
                       told, systemd, th>>

\* properties_changed_handler
PropertiesChanged(i) ==
    /\ At(E, "loop") /\ i \in pending
    /\ pending' = pending \ {i}
    /\ th' = [th EXCEPT ![E] = [pc |-> "active", handle |-> handles[i],
                                comp |-> slots[i], slot |-> i, state |-> "",
                                was |-> "", back |-> "loop"]]
    /\ UNCHANGED <<slots, handles, names, request, bus, systemd, seen>>

-----------------------------------------------------------------------------
(* The core bus: ggl_sub_respond and ggl_socket_handle_close *)

Open(h) == h \in Handles /\ client[h] = "open"

\* The name is that of the slot, or of the request being handled.
NameFor(t) == IF t = E THEN names[th[t].slot] ELSE th[t].comp

\* A response waits while its handle's request is handled and for the pool's
\* mutex; on a closed handle it fails; a failed write closes the connection.
Respond(t) ==
    LET h == th[t].handle
    IN  /\ At(t, "respond") /\ pool_mtx = None /\ current # h
        /\ \/ /\ told' = IF Open(h)
                           THEN [told EXCEPT ![h] = @ \cup {th[t].state}] ELSE told
              /\ Back(t)
              /\ UNCHANGED seen
           \/ /\ Open(h) /\ h \in gone /\ Allowed({"write"})
              /\ th' = [th EXCEPT ![t].pc = "close"]
              /\ UNCHANGED told
        /\ UNCHANGED <<table, request, pool_mtx, current, client, gone, watched,
                       refused, systemd>>

CloseLock(t) ==
    /\ At(t, "close") /\ pool_mtx = None
    /\ pool_mtx' = t
    /\ Go(t, "on_close")
    /\ UNCHANGED <<table, request, current, client, gone, watched, refused, told,
                   systemd, seen>>

\* signal_event_loop_and_wait: the index is stored, the event written, ...
Signal(t, i, place) ==
    /\ operation_index' = i /\ event' = TRUE
    /\ Go(t, place)
    /\ UNCHANGED last_result

\* gghealthd_unregister_lifecycle_subscription is the close callback.
OnClose(t) ==
    /\ At(t, "on_close")
    /\ \E i \in Slots : handles[i] = th[t].handle /\ Signal(t, i, "closing")
    /\ UNCHANGED <<table, bus, systemd, seen>>

\* ... and the result awaited, here with the pool's mutex held.
Closed(t) ==
    LET h == th[t].handle
    IN  /\ At(t, "closing") /\ last_result # "expected"
        /\ last_result' = "expected"
        /\ client' = [client EXCEPT ![h] = "closed"]
        /\ pool_mtx' = None
        /\ current' = IF current = h THEN None ELSE current
        /\ IF th[t].back = "idle" THEN Back(t) ELSE Go(t, th[t].back)
        /\ UNCHANGED <<table, operation_index, event, gone, watched, refused, told,
                       systemd, seen>>

-----------------------------------------------------------------------------
(* The server thread: subscribe_to_lifecycle_completion *)

FreeSlots == {i \in Slots : handles[i] = None}

\* gghealthd_register_lifecycle_subscription takes the first free slot.
Subscribe(h, c) ==
    LET first == {i \in FreeSlots : \A j \in FreeSlots : i <= j}
    IN  /\ At(S, "idle") /\ client[h] = "new"
        /\ \A g \in Handles : g < h => client[g] # "new"
        /\ client' = [client EXCEPT ![h] = "asking"]
        /\ watched' = [watched EXCEPT ![h] = c]
        /\ current' = h
        /\ th' = [th EXCEPT ![S] = [pc |-> IF first = {} THEN "error" ELSE "wait",
                                    handle |-> h, comp |-> c, slot |-> 0,
                                    state |-> "", was |-> "", back |-> "idle"]]
        /\ handles' = [i \in Slots |-> IF i \in first THEN h ELSE handles[i]]
        /\ names' = [i \in Slots |-> IF i \in first THEN c ELSE names[i]]
        /\ IF first = {} THEN UNCHANGED <<operation_index, event>>
                         ELSE operation_index' \in first /\ event' = TRUE
        /\ UNCHANGED <<slots, pending, last_result, pool_mtx, gone, refused, told,
                       systemd, seen>>

Registered ==
    /\ At(S, "wait") /\ last_result # "expected"
    /\ last_result' = "expected"
    /\ Go(S, IF last_result = "ok" THEN "accept" ELSE "error")
    /\ UNCHANGED <<table, operation_index, event, bus, systemd, seen>>

\* The handler's error closes the connection, which has no close callback.
Error ==
    /\ At(S, "error") /\ pool_mtx = None
    /\ client' = [client EXCEPT ![th[S].handle] = "closed"]
    /\ current' = None
    /\ Back(S)
    /\ UNCHANGED <<table, request, pool_mtx, gone, watched, refused, told, systemd,
                   seen>>

\* Mutant of AfterAccept: no early response
NothingMore == "idle"

AfterAccept == "active"

\* ggl_sub_accept; if its answer cannot be written, the connection is closed
\* before the handler goes on.
Accept ==
    /\ At(S, "accept") /\ pool_mtx = None
    /\ client' = [client EXCEPT ![th[S].handle] = "open"]
    /\ \/ /\ current' = None /\ UNCHANGED seen
          /\ Go(S, AfterAccept)
       \/ /\ th[S].handle \in gone /\ Allowed({"hangup"})
          /\ th' = [th EXCEPT ![S].pc = "close", ![S].back = AfterAccept]
          /\ UNCHANGED current
    /\ UNCHANGED <<table, request, pool_mtx, gone, watched, refused, told, systemd>>

\* The server finds that a client has closed its end.
Hangup(h) ==
    /\ At(S, "idle") /\ h \in gone /\ client[h] = "open"
    /\ Allowed({"hangup"})
    /\ th' = [th EXCEPT ![S] = [Resting("close") EXCEPT !.handle = h, !.back = "idle"]]
    /\ UNCHANGED <<table, request, bus, systemd>>

ClientGoes(h) ==
    /\ Faults \cap {"hangup", "write"} # {}
    /\ client[h] \in {"asking", "open"} /\ h \notin gone
    /\ gone' = gone \cup {h}
    /\ UNCHANGED <<table, request, pool_mtx, current, client, watched, refused, told,
                   systemd, th, seen>>

-----------------------------------------------------------------------------

Step(t) ==
    \/ ReadActiveState(t) \/ ReadTimestamp(t) \/ ReadNRestarts(t) \/ ReadResult(t)
    \/ ReadFails(t) \/ Respond(t) \/ CloseLock(t) \/ OnClose(t) \/ Closed(t)
ServerStep ==
    Step(S) \/ StatusFails \/ Registered \/ Error \/ Accept \/ \E h \in Handles : Hangup(h)
EventLoopStep == Step(E) \/ EventFd \/ \E i \in Slots : PropertiesChanged(i)

Next ==
    \/ ServerStep \/ EventLoopStep
    \/ \E h \in Handles : \E c \in Asks[h] : Subscribe(h, c)
    \/ \E h \in Handles : ClientGoes(h)
    \/ \E c \in Components : UnitChanges(c)

Spec == Init /\ [][Next]_vars

\* Both threads run and none is denied a mutex for ever.
FairSpec == Spec /\ SF_vars(ServerStep) /\ SF_vars(EventLoopStep)

-----------------------------------------------------------------------------
(* Properties *)

Places == {"idle", "loop", "active", "ran", "restarts", "result", "respond",
           "close", "on_close", "closing", "wait", "error", "accept"}

\* The type invariant.
TypeOK ==
    /\ slots \in [Slots -> Components \cup {None}]
    /\ handles \in [Slots -> Handles \cup {None}]
    /\ names \in [Slots -> Components \cup {None}]
    /\ operation_index \in 0 .. NSlots /\ event \in BOOLEAN
    /\ last_result \in {"expected", "ok", "failed"}
    /\ pending \subseteq {i \in Slots : slots[i] # None}
    /\ pool_mtx \in Threads \cup {None} /\ current \in Handles \cup {None}
    /\ client \in [Handles -> {"new", "asking", "open", "closed"}]
    /\ gone \subseteq Handles /\ refused \subseteq Handles /\ seen \subseteq Faults
    /\ \A t \in Threads : /\ th[t].pc \in Places
                          /\ th[t].handle \in Handles \cup {None}
                          /\ th[t].comp \in Components \cup {None}

\* The event loop has not been asked to add or remove a match, or has done so.
Settled == th[S].pc \notin {"wait", "closing"} /\ th[E].pc # "closing"

\* Although the same request adds and removes a match and the threads share the
\* table without a lock, every accepted subscription has one slot with one
\* match, on its component, and every other slot in use is that of a
\* subscription whose match could not be made, or about to be answered.  The
\* exception is a match that cannot be made while a response cannot be written:
\* the event loop then closes that connection, waits for itself, and may take
\* the failure that was the server's result, which takes its own success.
WatchedOnce ==
    /\ TypeOK
    /\ Settled /\ ~({"dbus", "write"} \subseteq seen) =>
      /\ \A h \in Handles : client[h] = "open" =>
           \E i \in Slots : {j \in Slots : handles[j] = h} = {i}
                            /\ slots[i] = watched[h] /\ names[i] = watched[h]
      /\ \A i \in Slots : handles[i] # None =>
           handles[i] \in refused \/ client[handles[i]] \in {"asking", "open"}

\* A response names the component its subscriber asked about, although the
\* slot's name is read long after its handle; and the state is the one the unit
\* was in when the first property was read, unless the unit changed before the
\* last one was.
ToldTheTruth ==
    \A t \in Threads :
      At(t, "respond") /\ Open(th[t].handle) =>
        /\ NameFor(t) = watched[th[t].handle]
        /\ "torn" \notin seen => th[t].state = th[t].was

\* A component that reaches a terminal state and stays there is reported to
\* everyone who watches it, whether it got there before or after the match was
\* made: the match comes before the early response reads the state.
TerminalReported ==
    \A h \in Handles, s \in Terminal :
      LET there == client[h] = "open" /\ Lifecycle(unit[watched[h]]) = s
      IN  there /\ seen = {} ~> ~there \/ seen # {} \/ s \in told[h]

=============================================================================
