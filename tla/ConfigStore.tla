----------------------------- MODULE ConfigStore ----------------------------
(***************************************************************************)
(* ggconfigd: the key, relation and value tables in SQLite                 *)
(* (db_interface.c), the gg_config requests that read and change them      *)
(* (db_corebus.c) and the configuration files loaded at start              *)
(* (config_load.c).                                                        *)
(*                                                                         *)
(* One thread does all the work, so what interleaves is that work with     *)
(* crashes, clients that close a subscription, and failing SQL statements. *)
(* Each leaf of a written map is a transaction of its own: keys and vals   *)
(* are the tables on disk, tkeys and tvals what the open transaction sees. *)
(* A row of keys joins keyTable and relationTable; no row is ever deleted, *)
(* so AUTOINCREMENT numbers them 1, 2, ...                                 *)
(*                                                                         *)
(* A map is given by the calls process_map makes while walking it: a push  *)
(* of a key, a leaf value, a pop.                                          *)
(***************************************************************************)
EXTENDS Integers, Sequences

CONSTANTS
    Names, Values, Times,
    Oversized,     \* values whose JSON text exceeds value_string
    Requests,      \* writes clients may send: [path, ops, ts]
    ReadPaths,     \* paths clients read and subscribe to
    ConfigFiles,   \* the walks of the files loaded at start
    MaxDepth,      \* GGL_MAX_OBJECT_DEPTH
    MaxWrites,     \* bound: writes in one behaviour
    MaxHandles,    \* bound: subscriptions in one behaviour
    MaxCrashes,    \* bound: crashes in one behaviour
    Faults         \* which faults the environment may cause

FileTime == 2      \* the timestamp config_load.c writes with
Tables == 3        \* CREATE TABLE statements the store depends on

Op == [op : {"push"}, arg : Names] \cup [op : {"leaf"}, arg : Values]
         \cup [op : {"pop"}, arg : {""}]

ASSUME StoreAssumption ==
    /\ Oversized \subseteq Values
    /\ Times \subseteq Nat /\ FileTime \in Times
    /\ Requests \subseteq [path : Seq(Names), ops : Seq(Op), ts : Times]
    /\ ReadPaths \subseteq Seq(Names) \ {<<>>}
    /\ ConfigFiles \in Seq(Seq(Op))
    /\ MaxDepth \in Nat \ {0} /\ MaxWrites \in Nat
    /\ MaxHandles \in Nat /\ MaxCrashes \in Nat
    /\ Faults \subseteq {"insert", "insert_value", "create"}

\* What is written at the empty key_path is a map, so that every value has a
\* key; for a value without one the code reads the element before the first
\* of ids, which is undefined.
ASSUME KeysAssumption ==
    \A r \in Requests : r.path = <<>> =>
      \A i \in DOMAIN r.ops : r.ops[i].op = "leaf" => i > 1 /\ r.ops[i - 1].op = "push"

VARIABLES
    schema,      \* how many of the tables exist on disk
    keys, vals,  \* on disk: Seq([name, parent]), id -> [val, ts]
    tkeys, tvals,\* as the open transaction sees them
    subs,        \* subscriberTable: {<<id, handle>>}
    open,        \* the subscriptions whose connection is open
    handles,     \* subscriptions so far
    pc,          \* what the server thread does next
    file,        \* the next configuration file to load
    req,         \* the write in progress or last answered
    todo,        \* what is left of its walk
    key_path,    \* the GglObjVec of process_map
    ids,         \* key ids found or made for key_path
    reply,       \* outcome of the last write
    told,        \* history: {<<handle, path>>} notified of the last update
    answer,      \* history: the last read since the last update
    writes, crashes

disk == <<schema, keys, vals>>
txn == <<tkeys, tvals>>
subscribers == <<subs, open, handles>>
request == <<req, todo, key_path>>
vars == <<schema, keys, vals, tkeys, tvals, subs, open, handles, pc, file,
          req, todo, key_path, ids, reply, told, answer, writes, crashes>>

NoAnswer == [err |-> "none", vals |-> {}, complete |-> TRUE]
NoRequest == [path |-> <<>>, ops |-> <<>>, ts |-> FileTime]

Init ==
    /\ schema = 0
    /\ keys = <<>> /\ vals = <<>> /\ tkeys = <<>> /\ tvals = <<>>
    /\ subs = {} /\ open = {} /\ handles = 0
    /\ pc = "open" /\ file = 1
    /\ req = NoRequest /\ todo = <<>> /\ key_path = <<>> /\ ids = <<>>
    /\ reply = "none" /\ told = {} /\ answer = NoAnswer
    /\ writes = 0 /\ crashes = 0

-----------------------------------------------------------------------------
(* Queries.  A parent of 0 is a key with no row in relationTable. *)

Row(name, parent) == [name |-> name, parent |-> parent]

\* get_root_key.sql, get_key_with_parent.sql
Child(K, name, parent) == {i \in 1..Len(K) : K[i] = Row(name, parent)}

HasChild(K, id) == \E i \in 1..Len(K) : K[i].parent = id

\* c holds the ids of the keys of path p.
IsChain(K, p, c) ==
    /\ Len(c) = Len(p)
    /\ \A n \in 1..Len(p) :
          /\ c[n] \in 1..Len(K)
          /\ K[c[n]] = Row(p[n], IF n = 1 THEN 0 ELSE c[n - 1])

\* get_key_ids: find_element.sql walks the path down from the root.
Chains(K, p) == {c \in [1..Len(p) -> 1..Len(K)] : IsChain(K, p, c)}

\* The path of each key.
PathOf(K) ==
    LET path[i \in 1..Len(K)] ==
            IF K[i].parent = 0 THEN <<K[i].name>>
            ELSE Append(path[K[i].parent], K[i].name)
    IN  path

\* value_insert, value_update
SetValue(V, id, val, ts) ==
    [i \in DOMAIN V \cup {id} |->
        IF i = id THEN [val |-> val, ts |-> ts] ELSE V[i]]

-----------------------------------------------------------------------------
(* ggconfig_open: the tables are created one by one, outside a transaction, *)
(* and only keyTable is looked for.                                         *)

OpenFound ==
    /\ pc = "open" /\ schema > 0
    /\ pc' = "idle"
    /\ UNCHANGED <<disk, txn, subscribers, file, request, ids, reply, told,
                   answer, writes, crashes>>

CreateTable ==
    /\ pc = "create_db" \/ (pc = "open" /\ schema = 0)
    /\ schema' = schema + 1
    /\ pc' = IF schema' = Tables THEN "idle" ELSE "create_db"
    /\ UNCHANGED <<keys, vals, txn, subscribers, file, request, ids, reply,
                   told, answer, writes, crashes>>

-----------------------------------------------------------------------------
(* rpc_write, process_map and process_nonmap; the files come first. *)

Booting == file <= Len(ConfigFiles)

\* The walk ends, at its end or at its first error.
Finish(result) ==
    /\ pc' = "idle"
    /\ reply' = result
    /\ todo' = <<>>
    /\ file' = IF Booting THEN file + 1 ELSE file

Rollback == tkeys' = keys /\ tvals' = vals

StartWalk(r) ==
    /\ req' = r
    /\ reply' = "none"
    /\ UNCHANGED <<disk, txn, subscribers, ids, told, answer, crashes>>

\* ggconfig_load_file, ggconfig_load_dir; a file that cannot be read or
\* parsed is passed over.
LoadFile ==
    /\ pc = "idle" /\ Booting
    /\ StartWalk([path |-> <<>>, ops |-> ConfigFiles[file], ts |-> FileTime])
    /\ key_path' = <<>>
    /\ \/ pc' = "map" /\ todo' = ConfigFiles[file] /\ UNCHANGED file
       \/ pc' = "idle" /\ todo' = <<>> /\ file' = file + 1
    /\ UNCHANGED writes

ReceiveWrite ==
    /\ pc = "idle" /\ ~Booting /\ writes < MaxWrites
    /\ \E r \in Requests :
          /\ Len(r.path) <= MaxDepth
          /\ StartWalk(r)
          /\ key_path' = r.path
          /\ todo' = r.ops
    /\ pc' = "map"
    /\ writes' = writes + 1
    /\ UNCHANGED file

\* A key_path argument longer than the vector: GGL_ERR_RANGE.
RefuseWrite ==
    /\ pc = "idle" /\ ~Booting /\ writes < MaxWrites
    /\ \E r \in Requests : Len(r.path) > MaxDepth /\ req' = r
    /\ reply' = "error"
    /\ writes' = writes + 1
    /\ UNCHANGED <<disk, txn, subscribers, pc, file, todo, key_path, ids, told,
                   answer, crashes>>

\* Mutant of VecHasRoom: the last place of the vector is never used.
VecHasRoomShort(v) == Len(v) < MaxDepth - 1

VecHasRoom(v) == Len(v) < MaxDepth

\* ggl_obj_vec_push fails on a full vector; process_map does not look.
PushKey ==
    /\ pc = "map" /\ todo # <<>> /\ Head(todo).op = "push"
    /\ key_path' = IF VecHasRoom(key_path)
                   THEN Append(key_path, Head(todo).arg) ELSE key_path
    /\ todo' = Tail(todo)
    /\ UNCHANGED <<disk, txn, subscribers, pc, file, req, ids, reply, told,
                   answer, writes, crashes>>

PopKey ==
    /\ pc = "map" /\ todo # <<>> /\ Head(todo).op = "pop"
    /\ key_path' = SubSeq(key_path, 1, Len(key_path) - 1)
    /\ todo' = Tail(todo)
    /\ UNCHANGED <<disk, txn, subscribers, pc, file, req, ids, reply, told,
                   answer, writes, crashes>>

\* ggl_json_encode into value_string fails: the rest of the map is dropped.
EncodeFails ==
    /\ pc = "map" /\ todo # <<>> /\ Head(todo).op = "leaf"
    /\ Head(todo).arg \in Oversized
    /\ Finish("error")
    /\ UNCHANGED <<disk, txn, subscribers, req, key_path, ids, told, answer,
                   writes, crashes>>

\* BEGIN TRANSACTION; get_key_ids
BeginWrite ==
    /\ pc = "map" /\ todo # <<>> /\ Head(todo).op = "leaf"
    /\ Head(todo).arg \notin Oversized
    /\ IF schema < Tables
       THEN Finish("error") /\ ids' = ids
       ELSE LET C == Chains(tkeys, key_path) IN
            /\ ids' = IF C = {} THEN <<>> ELSE CHOOSE c \in C : TRUE
            /\ pc' = IF C = {} THEN "create" ELSE "update"
            /\ UNCHANGED <<file, todo, reply>>
    /\ UNCHANGED <<disk, txn, subscribers, req, key_path, told, answer, writes,
                   crashes>>

FinishWrite ==
    /\ pc = "map" /\ todo = <<>>
    /\ Finish("ok")
    /\ UNCHANGED <<disk, txn, subscribers, req, key_path, ids, told, answer,
                   writes, crashes>>

-----------------------------------------------------------------------------
(* ggconfig_write_value_at_key *)

\* create_key_path looks for the next key of the path.
Parent == IF ids = <<>> THEN 0 ELSE ids[Len(ids)]

\* Mutant of Existing: a key is made without looking for it.
NeverExisting(name, parent) == {}

Existing(name, parent) == Child(tkeys, name, parent)

Abort ==
    /\ Rollback
    /\ Finish("error")
    /\ ids' = <<>>
    /\ UNCHANGED <<disk, subscribers, req, key_path, told, answer, writes,
                   crashes>>

\* value_is_present_for_key
HoldsValue(id) == id \in DOMAIN tvals

FindKey ==
    /\ pc = "create" /\ Len(ids) < Len(key_path)
    /\ \E id \in Existing(key_path[Len(ids) + 1], Parent) :
          /\ ~HoldsValue(id)
          /\ ids' = Append(ids, id)
    /\ UNCHANGED <<disk, txn, subscribers, pc, file, request, reply, told,
                   answer, writes, crashes>>

FoundValue ==
    /\ pc = "create" /\ Len(ids) < Len(key_path)
    /\ \E id \in Existing(key_path[Len(ids) + 1], Parent) : HoldsValue(id)
    /\ Abort

\* key_insert, then relation_insert unless the key is a root
InsertKey ==
    /\ pc = "create" /\ Len(ids) < Len(key_path)
    /\ Existing(key_path[Len(ids) + 1], Parent) = {}
    /\ tkeys' = Append(tkeys, Row(key_path[Len(ids) + 1], Parent))
    /\ ids' = Append(ids, Len(tkeys) + 1)
    /\ UNCHANGED <<disk, tvals, subscribers, pc, file, request, reply, told,
                   answer, writes, crashes>>

InsertKeyFails ==
    /\ "insert" \in Faults
    /\ pc = "create" /\ Len(ids) < Len(key_path)
    /\ Existing(key_path[Len(ids) + 1], Parent) = {}
    /\ Abort

\* value_insert; its error is not looked at.
Inserted(id, val) == SetValue(tvals, id, val, req.ts)

\* The whole path has been made: value_insert, END TRANSACTION.
InsertValue ==
    /\ pc = "create" /\ Len(ids) = Len(key_path)
    /\ \/ tvals' = Inserted(Parent, Head(todo).arg)
       \/ "insert_value" \in Faults /\ UNCHANGED tvals
    /\ keys' = tkeys /\ vals' = tvals'
    /\ pc' = "notify" /\ told' = {} /\ answer' = NoAnswer
    /\ UNCHANGED <<schema, tkeys, subscribers, file, request, ids, reply,
                   writes, crashes>>

\* child_is_present_for_key
IsMap(id) == HasChild(tkeys, id)

\* Mutant of IsNewer: the last write always wins.
NeverIsNewer(id) == FALSE

\* The stored value is more recent than the one being written.
IsNewer(id) == tvals[id].ts > req.ts

\* The path exists: refused if it is a map or, which value_get_timestamp
\* reports, has no value either; also when value_update fails.
UpdateFails ==
    /\ pc = "update"
    /\ \/ IsMap(Parent)
       \/ Parent \notin DOMAIN tvals
       \/ /\ "insert" \in Faults
          /\ Parent \in DOMAIN tvals /\ ~IsNewer(Parent)
    /\ Abort

KeepNewer ==
    /\ pc = "update"
    /\ ~IsMap(Parent) /\ Parent \in DOMAIN tvals /\ IsNewer(Parent)
    /\ pc' = "map"
    /\ todo' = Tail(todo)
    /\ UNCHANGED <<disk, txn, subscribers, file, req, key_path, ids, reply, told,
                   answer, writes, crashes>>

UpdateValue ==
    /\ pc = "update"
    /\ ~IsMap(Parent) /\ Parent \in DOMAIN tvals /\ ~IsNewer(Parent)
    /\ tvals' = SetValue(tvals, Parent, Head(todo).arg, req.ts)
    /\ vals' = tvals'
    /\ pc' = "notify" /\ told' = {} /\ answer' = NoAnswer
    /\ UNCHANGED <<schema, keys, tkeys, subscribers, file, request, ids, reply,
                   writes, crashes>>

\* Mutant of NotifiedKeys: only the key that was written.
NotifiedLast == {Parent}

\* notify_nested_key: every key along the path.
NotifiedKeys == {ids[n] : n \in 1..Len(ids)}

\* A row whose connection has closed is still there; ggl_sub_respond refuses
\* its handle.
Notify ==
    /\ pc = "notify"
    /\ told' = {<<s[2], key_path>> :
                   s \in {r \in subs : r[1] \in NotifiedKeys /\ r[2] \in open}}
    /\ pc' = "map"
    /\ todo' = Tail(todo)
    /\ UNCHANGED <<disk, txn, subscribers, file, req, key_path, ids, reply,
                   answer, writes, crashes>>

-----------------------------------------------------------------------------
(* rpc_read, rpc_subscribe *)

\* read_key_recursive: a key with a value is not searched for children.
ReadKeys(K, V, id) ==
    LET read[i \in 1..Len(K)] ==
            \/ i = id
            \/ /\ K[i].parent # 0 /\ K[i].parent \notin DOMAIN V
               /\ read[K[i].parent]
    IN  {i \in 1..Len(K) : read[i]}

\* A key with neither value nor children ends a read of it with an error; met
\* below the key being read it comes out as a null, at which the decoding of
\* the values stops.
ReadResult(p) ==
    LET C == Chains(keys, p)
        id == (CHOOSE c \in C : TRUE)[Len(p)]
        found == ReadKeys(keys, vals, id)
        empty == {i \in found : i \notin DOMAIN vals /\ ~HasChild(keys, i)}
        rest(i) == SubSeq(PathOf(keys)[i], Len(p) + 1, Len(PathOf(keys)[i]))
    IN  IF schema < 2 THEN [NoAnswer EXCEPT !.err = "FAILURE"]
        ELSE IF C = {} THEN [NoAnswer EXCEPT !.err = "NOENTRY"]
        ELSE IF id \in empty THEN [NoAnswer EXCEPT !.err = "FAILURE"]
        ELSE [err |-> "OK",
              vals |-> {<<rest(i), vals[i].val>> : i \in found \cap DOMAIN vals},
              complete |-> empty = {}]

Read ==
    /\ pc = "idle" /\ ~Booting
    /\ \E p \in ReadPaths : answer' = ReadResult(p)
    /\ UNCHANGED <<disk, txn, subscribers, pc, file, request, ids, reply, told,
                   writes, crashes>>

\* The row is committed before the acceptance is sent, which may fail.
Subscribe ==
    /\ pc = "idle" /\ ~Booting /\ handles < MaxHandles /\ schema >= 2
    /\ \E p \in ReadPaths : \E c \in Chains(keys, p) :
          subs' = subs \cup {<<c[Len(p)], handles + 1>>}
    /\ handles' = handles + 1
    /\ open' \in {open, open \cup {handles + 1}}
    /\ UNCHANGED <<disk, txn, pc, file, request, ids, reply, told, answer,
                   writes, crashes>>

\* The client goes away; rpc_subscribe registers no close callback.
CloseSubscription ==
    /\ \E h \in open : open' = open \ {h}
    /\ UNCHANGED <<disk, txn, subs, handles, pc, file, request, ids, reply,
                   told, answer, writes, crashes>>

\* The open transaction and the temporary subscriberTable are lost.
Crash ==
    /\ crashes < MaxCrashes
    /\ pc = "create_db" => "create" \in Faults
    /\ crashes' = crashes + 1
    /\ Rollback
    /\ subs' = {} /\ open' = {}
    /\ pc' = "open" /\ file' = 1
    /\ req' = NoRequest /\ todo' = <<>> /\ key_path' = <<>> /\ ids' = <<>>
    /\ reply' = "none" /\ told' = {} /\ answer' = NoAnswer
    /\ UNCHANGED <<disk, handles, writes>>

Next ==
    \/ OpenFound \/ CreateTable
    \/ LoadFile \/ ReceiveWrite \/ RefuseWrite \/ FinishWrite
    \/ PushKey \/ PopKey \/ EncodeFails \/ BeginWrite
    \/ FindKey \/ FoundValue \/ InsertKey \/ InsertKeyFails \/ InsertValue
    \/ UpdateFails \/ KeepNewer \/ UpdateValue \/ Notify
    \/ Read \/ Subscribe \/ CloseSubscription
    \/ Crash

Spec == Init /\ [][Next]_vars

-----------------------------------------------------------------------------
(* Properties *)

IsKeyTable(K) ==
    /\ K \in Seq([name : Names, parent : Nat])
    /\ \A i \in 1..Len(K) : K[i].parent < i

IsValueTable(V, K) ==
    /\ DOMAIN V \subseteq 1..Len(K)
    /\ \A i \in DOMAIN V : V[i] \in [val : Values, ts : Times]

\* Type invariant: the rows have their columns, a relation row refers to a key
\* made before (relation_insert), a value row to an existing key.
TypeOK ==
    /\ schema \in 0..Tables /\ (pc = "create_db" => schema < Tables)
    /\ IsKeyTable(keys) /\ IsValueTable(vals, keys)
    /\ IsKeyTable(tkeys) /\ IsValueTable(tvals, tkeys)
    /\ \A s \in subs : s[1] \in 1..Len(keys) /\ s[2] \in 1..handles
    /\ open \subseteq 1..handles /\ handles \in 0..MaxHandles
    /\ pc \in {"open", "create_db", "idle", "map", "create", "update", "notify"}
    /\ file \in 1..(Len(ConfigFiles) + 1)
    /\ req \in [path : Seq(Names), ops : Seq(Op), ts : Times]
    /\ todo \in Seq(Op) /\ key_path \in Seq(Names)
    /\ ids \in Seq(1..Len(tkeys))
    /\ reply \in {"none", "ok", "error"}
    /\ writes \in 0..MaxWrites /\ crashes \in 0..MaxCrashes

Unique(K) == \A i, j \in 1..Len(K) : K[i] = K[j] => i = j

\* "Therefore duplicate keys can not be introduced" (docs/design/ggconfigd.md):
\* no two keys on disk have the same name and the same parent, whatever create_key_path
\* was doing when a statement failed or the daemon crashed.
NoDuplicateKeys == Unique(keys)

Exclusive(K, V) == \A i \in DOMAIN V : ~HasChild(K, i)

\* A key on disk never has both a value and subkeys: the two refusals of
\* ggconfig_write_value_at_key and create_key_path cover every order of writes.
ValueOrMap == Exclusive(keys, vals)

\* The tables spell a tree with values at its leaves.
StoreIsATree == NoDuplicateKeys /\ ValueOrMap

\* Nothing takes back a newer value: a key keeps having a value, and its
\* timestamp never decreases, through merges, file loads, rollbacks and
\* restarts (gg_config.md: "the old value is kept instead").
TimeNeverGoesBack ==
    [][\A i \in DOMAIN vals : i \in DOMAIN vals' /\ vals[i].ts <= vals'[i].ts]_vars

\* The path of the walk before each of its calls, on a vector without bound.
WalkPath(r) ==
    LET path[n \in 0..Len(r.ops)] ==
            IF n = 0 THEN r.path
            ELSE CASE r.ops[n].op = "push" -> Append(path[n - 1], r.ops[n].arg)
                   [] r.ops[n].op = "pop" ->
                         SubSeq(path[n - 1], 1, Len(path[n - 1]) - 1)
                   [] OTHER -> path[n - 1]
    IN  path

Stored(p, val, ts) ==
    \E c \in Chains(keys, p) :
        /\ c[Len(p)] \in DOMAIN vals
        /\ \/ vals[c[Len(p)]] = [val |-> val, ts |-> ts]
           \/ vals[c[Len(p)]].ts > ts

Filled(K, V) == \A i \in 1..Len(K) : HasChild(K, i) \/ i \in DOMAIN V

\* A key on disk that has no subkeys has a value ("Therefore, it stores a value
\* currently", db_interface.c): no write leaves a key behind that a later one
\* cannot fill.
NoEmptyKeys == Filled(keys, vals)

\* "If the method returns without an error, the configuration has been
\* successfully updated" (gg_config.md): when a write is answered with success
\* every leaf of the map is on disk at its own path, or a newer value is; and no
\* write leaves an empty key behind.
AcknowledgedIsStored ==
    /\ NoEmptyKeys
    /\ reply = "ok" =>
        \A n \in 1..Len(req.ops) :
            req.ops[n].op = "leaf" =>
                Stored(WalkPath(req)[n], req.ops[n].arg, req.ts)

\* "create the database to the correct schema" (db_interface.c): once the
\* database is open all the tables are there.  It holds while no start stops
\* between two of the statements.
SchemaComplete == pc \notin {"open", "create_db"} => schema = Tables
=============================================================================
