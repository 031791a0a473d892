------------------------------- MODULE MCIpc --------------------------------
(***************************************************************************)
(* Two components and a process outside any; three connections, one of     *)
(* them made when another is gone; four messages, the first ones included; *)
(* a topic that both components may subscribe to, a configuration          *)
(* subscription, and the requests that fail at each check.  The broker has *)
(* two rows: one may hold a subscription whose acceptance was lost.        *)
(***************************************************************************)
EXTENDS Ipc

Unit(name, ggl) ==
    [name |-> name, ggl |-> ggl, fits |-> TRUE, install |-> FALSE, service |-> TRUE]
MCUnits == {Unit("a", TRUE), Unit("b", TRUE), Unit("sh", FALSE)}

Topic == <<"t">>
Long == <<"l">>
MCBadTopics == {Long}
Policy(ops, resources) ==
    [map |-> TRUE, valid |-> TRUE, operations |-> ops, resources |-> resources]
MCPolicies ==
    [a |-> [pubsub |-> <<Policy({"PublishToTopic", "SubscribeToTopic"}, {<<"*">>})>>],
     b |-> [pubsub |-> <<Policy({"SubscribeToTopic"}, {Topic})>>]]

ConnectReq(auth) == [kind |-> "connect", valid |-> TRUE, auth |-> auth, stream |-> 0]
Op(operation, stream, args) ==
    [kind |-> "op", valid |-> TRUE, auth |-> FALSE, stream |-> stream,
     operation |-> operation, args |-> args]

On(topic) == [valid |-> TRUE, topic |-> topic, json |-> TRUE, binary |-> FALSE]

State == Op("UpdateState", 3, [valid |-> TRUE])

MCOpenings ==
    [u \in MCUnits |->
        CASE u.name = "a" -> {ConnectReq(TRUE)}
          [] u.name = "b" -> {ConnectReq(TRUE), ConnectReq(FALSE)}
          [] OTHER -> {ConnectReq(TRUE), State}]

MCRequests ==
    [u \in MCUnits |->
        CASE u.name = "a" -> {Op("SubscribeToTopic", 1, On(<<"#">>)),
                              Op("PublishToTopic", 3, On(Topic)),
                              Op("PublishToTopic", 3, On(Long)), State}
          [] u.name = "b" -> {ConnectReq(TRUE), Op("SubscribeToTopic", 1, On(Topic)),
                              Op("SubscribeToConfigurationUpdate", 2,
                                 [valid |-> TRUE, path |-> <<>>, component |-> None])}
          [] OTHER -> {}]

MCMatches(topic, filter) == filter = <<"#">> \/ topic = filter

-----------------------------------------------------------------------------
(* The matchers against reference definitions, over short resources.       *)

Strings(chars, n) == UNION {[1..k -> chars] : k \in 0..n}

RECURSIVE Glob(_, _)
Glob(s, p) ==
    IF p = <<>> THEN s = <<>>
    ELSE IF Head(p) = "*" THEN \E i \in 1..(Len(s) + 1) : Glob(From(s, i), Tail(p))
    ELSE s # <<>> /\ Head(s) = Head(p) /\ Glob(Tail(s), Tail(p))

(* Taking the first occurrence of each segment loses no match: the loop    *)
(* accepts exactly what some choice of text for each "*" accepts           *)
(* (ggl_ipc_default_policy_matcher).                                       *)
ASSUME MatcherAgrees ==
    \A p \in Strings({"a", "b", "*"}, 4), s \in Strings({"a", "b"}, 4) :
        ggl_ipc_default_policy_matcher(s, p) = Glob(s, p)

(* The levels of a topic or of a filter.                                   *)
RECURSIVE Levels(_)
Levels(s) ==
    LET cuts == {i \in 1..Len(s) : s[i] = "/"}
    IN  IF cuts = {} THEN <<s>>
        ELSE <<SubSeq(s, 1, First(cuts) - 1)>> \o Levels(From(s, First(cuts) + 1))

(* Wildcards fill a level, and "#" is the last one.                        *)
IsFilter(f) ==
    LET l == Levels(f)
    IN  \A k \in 1..Len(l), i \in 1..Len(f) :
            /\ l[k] \in {<<"#">>, <<"+">>} \cup Strings({"a"}, 4)
            /\ f[i] = "#" => i = Len(f)

Accepts(f, s) ==
    LET l == Levels(f)
        t == Levels(s)
        n == IF l[Len(l)] = <<"#">> THEN Len(l) - 1 ELSE Len(l)
    IN  /\ IF n < Len(l) THEN Len(t) > n ELSE Len(t) = n
        /\ \A k \in 1..n : l[k] = <<"+">> \/ l[k] = t[k]

(* A filter accepts a topic level by level.  Unlike a broker's, one that   *)
(* ends in "/#" does not accept the level above it (match_topic_filter).   *)
ASSUME FilterAgrees ==
    \A f \in {x \in Strings({"a", "/", "+", "#"}, 4) : IsFilter(x)},
       s \in Strings({"a", "/"}, 4) :
        match_topic_filter(s, f) = Accepts(f, s)
=============================================================================
