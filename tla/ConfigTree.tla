----------------------------- MODULE ConfigTree -----------------------------
(***************************************************************************)
(* What the gg_config interface promises (docs/spec/core-bus-interface/    *)
(* gg_config.md): a hierarchy of keys in which a key has a value or        *)
(* subkeys, never both; a value is replaced only by one at least as recent *)
(* and survives a restart; every watcher at or above a key is told of each *)
(* update of it before the next update.                                    *)
(***************************************************************************)
EXTENDS Naturals, Sequences

CONSTANTS
    Names, Values, Times, MaxDepth, Handles,
    Reads    \* the paths that are read and watched

VARIABLES
    tree,    \* path -> [val, ts]
    watch,   \* {<<path, handle>>}
    owed,    \* {<<handle, path>>} not yet told of the last update
    told,    \* {<<handle, path>>} told of the last update
    answer   \* what the last read returned, if nothing changed since

Paths == UNION {[1..n -> Names] : n \in 1..MaxDepth}

Prefix(p, q) == Len(p) <= Len(q) /\ p = SubSeq(q, 1, Len(p))

Below(p, q) == Prefix(p, q) /\ p # q

\* The values under p, each with the rest of its path.
Subtree(p) ==
    {<<SubSeq(q, Len(p) + 1, Len(q)), tree[q].val>> :
        q \in {r \in DOMAIN tree : Prefix(p, r)}}

TreeInit == 
    tree = <<>> /\ watch = {} /\ owed = {} /\ told = {} /\ answer = {}

Put(p, v, ts) ==
    /\ owed = {}
    /\ \A q \in DOMAIN tree : ~Below(p, q) /\ ~Below(q, p)
    /\ p \in DOMAIN tree => tree[p].ts <= ts
    /\ tree' = [q \in DOMAIN tree \cup {p} |->
                   IF q = p THEN [val |-> v, ts |-> ts] ELSE tree[q]]
    /\ owed' = {<<w[2], p>> : w \in {x \in watch : Prefix(x[1], p)}}
    /\ told' = {} /\ answer' = {}
    /\ UNCHANGED watch

Tell == told' = owed /\ owed' = {} /\ UNCHANGED <<tree, watch, answer>>

Get(p) ==
    /\ owed = {}
    /\ answer' = Subtree(p)
    /\ UNCHANGED <<tree, watch, owed, told>>

Watch(p, h) ==
    /\ \E q \in DOMAIN tree : Prefix(p, q)
    /\ watch' = watch \cup {<<p, h>>}
    /\ UNCHANGED <<tree, owed, told, answer>>

Unwatch(h) ==
    /\ watch' = {w \in watch : w[2] # h}
    /\ owed' = {o \in owed : o[1] # h}
    /\ UNCHANGED <<tree, told, answer>>

Restart ==
    /\ watch' = {} /\ owed' = {} /\ told' = {} /\ answer' = {}
    /\ UNCHANGED tree

TreeNext ==
    \/ \E p \in Paths, v \in Values, ts \in Times : Put(p, v, ts)
    \/ \E p \in Reads : Get(p) \/ \E h \in Handles : Watch(p, h)
    \/ Tell
    \/ \E h \in Handles : Unwatch(h)
    \/ Restart

TreeSpec == TreeInit /\ [][TreeNext]_<<tree, watch, owed, told, answer>>
=============================================================================
