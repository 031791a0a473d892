---------------------------- MODULE MCConfigStore ---------------------------
(* ConfigStore on small instances.  A map is a sequence of <<key, value>>    *)
(* pairs; Walk lists the calls process_map makes for it.                     *)
EXTENDS ConfigStoreTree

Push(k) == [op |-> "push", arg |-> k]
Leaf(v) == [op |-> "leaf", arg |-> v]
Pop == [op |-> "pop", arg |-> ""]

Entry(k, ops) == <<Push(k)>> \o ops \o <<Pop>>
Write(p, ops, t) == [path |-> p, ops |-> ops, ts |-> t]

\* Leaves and maps that share, extend and cut across each other's paths.
Writes == {
    Write(<<"a">>, <<Leaf("v")>>, 3),
    Write(<<"a", "b">>, <<Leaf("w")>>, 1),
    Write(<<>>, Entry("a", Entry("b", <<Leaf("v")>>) \o Entry("a", <<Leaf("w")>>)), 3),
    Write(<<"b">>, Entry("a", <<Leaf("w")>>) \o Entry("b", <<Leaf("big")>>), 2),
    Write(<<"b", "b">>, <<Leaf("v")>>, 2),
    Write(<<"a", "a", "a">>, <<Leaf("v")>>, 3) }

Reads == {<<"a">>, <<"a", "b">>}

Files == << Entry("b", Entry("a", <<Leaf("v")>>)), Entry("a", Entry("b", <<Leaf("v")>>)) >>

=============================================================================
