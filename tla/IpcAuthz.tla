------------------------------ MODULE IpcAuthz ------------------------------
(***************************************************************************)
(* The authorization of IPC operations: the policies a component's         *)
(* configuration holds for a service, and the matchers that compare the    *)
(* resource of a request with the resources of a policy.                   *)
(*                                                                         *)
(* A resource is a sequence of characters; the characters that mean        *)
(* something to a matcher are "*", "$", "{", "}", "+", "#" and "/".        *)
(* ggipcd/src/ipc_authz.c, ggipcd/src/services/mqttproxy/mqttproxy.c       *)
(***************************************************************************)
EXTENDS Naturals, Sequences
LOCAL INSTANCE SequencesExt

(* The byte '\0' that stands for a wildcard in the rewritten pattern.      *)
Wild == "wild"

(* The rewriting loop: state of the scan of a policy's resource.           *)
Unescape(scan, c) ==
    IF scan.skip THEN [scan EXCEPT !.skip = FALSE]
    ELSE CASE scan.in_escape /\ c = "}" ->
                [scan EXCEPT !.in_escape = FALSE, !.at = @ + 1]
           [] ~scan.in_escape /\ c = "*" ->
                [scan EXCEPT !.pattern = Append(@, Wild), !.at = @ + 1]
           [] /\ ~scan.in_escape /\ c = "$"
              /\ scan.at < Len(scan.text) /\ scan.text[scan.at + 1] = "{" ->
                [scan EXCEPT !.in_escape = TRUE, !.skip = TRUE, !.at = @ + 2]
           [] OTHER -> [scan EXCEPT !.pattern = Append(@, c), !.at = @ + 1]

Pattern(resource) ==
    FoldLeft(Unescape,
             [text |-> resource, at |-> 1, in_escape |-> FALSE, skip |-> FALSE,
              pattern |-> <<>>],
             resource).pattern

From(s, i) == SubSeq(s, i, Len(s))

(* ggl_buffer_contains: where the first occurrence begins.                 *)
Occurrences(s, segment) ==
    {i \in 1..(Len(s) + 1) : IsPrefix(segment, From(s, i))}
First(S) == CHOOSE i \in S : \A j \in S : i <= j

(* One turn of the matching loop, for the segment before a wildcard.       *)
MatchSegment(m, segment) ==
    LET at == IF m.first THEN Occurrences(m.remaining, segment) \cap {1}
              ELSE Occurrences(m.remaining, segment)
    IN  IF ~m.match \/ at = {} THEN [m EXCEPT !.match = FALSE]
        ELSE [m EXCEPT !.first = FALSE,
                       !.remaining = From(@, First(at) + Len(segment))]

(* The segments between the wildcards of a pattern, in order.              *)
Segments(pattern) ==
    FoldLeft(LAMBDA segs, c : IF c = Wild THEN Append(segs, <<>>)
                              ELSE [segs EXCEPT ![Len(segs)] = Append(@, c)],
             << <<>> >>, pattern)

ggl_ipc_default_policy_matcher(request, resource) ==
    LET segs == Segments(Pattern(resource))
        end  == segs[Len(segs)]
        m    == FoldLeft(MatchSegment,
                         [match |-> TRUE, first |-> TRUE, remaining |-> request],
                         Front(segs))
    IN  IF Len(segs) = 1 THEN request = end
        ELSE m.match /\ IsSuffix(end, m.remaining)

(* One turn of match_topic_filter's loop over the filter; j is the number  *)
(* of characters of the resource that are matched.                         *)
FilterStep(m, c) ==
    LET rest  == From(m.resource, m.j + 1)
        level == {k \in 1..Len(rest) : rest[k] = "/"}
    IN  IF m.done THEN m
        ELSE CASE c = "#" -> [m EXCEPT !.done = TRUE, !.match = TRUE]
               [] c = "+" -> [m EXCEPT !.j = @ + IF level = {} THEN Len(rest)
                                                 ELSE First(level) - 1]
               [] c \notin {"#", "+"} /\ (rest = <<>> \/ Head(rest) # c) ->
                    [m EXCEPT !.done = TRUE, !.match = FALSE]
               [] OTHER -> [m EXCEPT !.j = @ + 1]

match_topic_filter(resource, filter) ==
    LET m == FoldLeft(FilterStep,
                      [resource |-> resource, j |-> 0, done |-> FALSE,
                       match |-> FALSE],
                      filter)
    IN  IF m.done THEN m.match ELSE m.j = Len(resource)

(* The default matcher rewrites the policy's resource in place, and the    *)
(* filter is matched against what it left there.                           *)
Rewritten(resource) ==
    LET pattern == Pattern(resource)
    IN  pattern \o From(resource, Len(pattern) + 1)

ggl_ipc_mqtt_policy_matcher(request, resource) ==
    \/ ggl_ipc_default_policy_matcher(request, resource)
    \/ match_topic_filter(request, Rewritten(resource))

-----------------------------------------------------------------------------
(* The services of the local bus compare with the default matcher, the     *)
(* ones of the MQTT proxy with the MQTT matcher.                           *)
PolicyMatcher(matcher, request, resource) ==
    IF matcher = "mqtt" THEN ggl_ipc_mqtt_policy_matcher(request, resource)
    ELSE ggl_ipc_default_policy_matcher(request, resource)

(* A policy is malformed, or a record of operations and resources.         *)
policy_match(policy, operation, request, matcher) ==
    /\ policy.valid
    /\ operation \in policy.operations
    /\ \E r \in policy.resources :
           r = <<"*">> \/ PolicyMatcher(matcher, request, r)

(* The policies of one service in the order of the configuration map: a    *)
(* policy that is not a map ends the search.                               *)
ggl_ipc_auth(policies, operation, request, matcher) ==
    \E i \in 1..Len(policies) :
        /\ policy_match(policies[i], operation, request, matcher)
        /\ \A k \in 1..(i - 1) : policies[k].map
=============================================================================
