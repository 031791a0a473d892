--------------------------- MODULE ConfigStoreTree --------------------------
(* The SQLite store implements the hierarchy of ConfigTree. *)
EXTENDS ConfigStore

\* The tables are the paths they spell.
TreeOf(K, V) ==
    [p \in {PathOf(K)[i] : i \in DOMAIN V} |->
        V[CHOOSE i \in DOMAIN V : PathOf(K)[i] = p]]

\* A subscriber row whose connection has closed watches nothing.
Watching == {<<PathOf(keys)[s[1]], s[2]>> : s \in {r \in subs : r[2] \in open}}

\* A committed value and the notifications still to be sent for it.
Owed ==
    IF pc # "notify" THEN {}
    ELSE {<<w[2], key_path>> :
             w \in {x \in Watching : /\ Len(x[1]) <= Len(key_path)
                                     /\ x[1] = SubSeq(key_path, 1, Len(x[1]))}}

Tree == INSTANCE ConfigTree WITH
    tree <- TreeOf(keys, vals), watch <- Watching, owed <- Owed,
    answer <- answer.vals, Handles <- 1..MaxHandles, Reads <- ReadPaths

\* The store implements the abstract hierarchy: each leaf written is one atomic
\* update of one path whatever fails or crashes around it, is told once to every
\* open subscription at or above it, and reads return the hierarchy.
ImplementsTree == Tree!TreeSpec
=============================================================================
