------------------------------ MODULE MapTable ------------------------------
(***************************************************************************)
(* The QoS maps of a switch (nas_qos_map) and their entries                 *)
(* (nas_qos_map_entry): ids of a local range per map type, packed with the  *)
(* type into an id of the switch; a map object in the NPU for each map, and *)
(* a value in it for each key.  An entry is no object of the NPU: creating, *)
(* changing and deleting one writes the value of its key, deleting the      *)
(* default value, or, where the key holds the value, that value again.  All *)
(* handlers hold map_mutex, so an operation is a step; the operations and   *)
(* rollbacks of different clients interleave.                               *)
(*                                                                          *)
(* A global id is the pair of its two bit fields.  The name of a map, which *)
(* nothing reads but the GET handler, is left out.                          *)
(***************************************************************************)
EXTENDS Naturals, Sequences, FiniteSets

CONSTANTS
    Types,      \* map types,
    KeyTypes,   \* among them those whose entries have no value but the one in their
                \* key (NDI_QOS_MAP_PG_TO_PFC)
    IdRange,    \* 2 to the number of bits of a local id (128)
    MaxId,      \* MAX_MAP_ID_PER_TYPE
    AskedIds,   \* ids that requests carry; 0: none
    Keys,       \* keys of the entries
    KeyVal,     \* GET_KEY2: the value in each key
    Vals,       \* values of the entries,
    Default,    \* among them what NDI_DEFAULT_* resets a key to
    Clients,    \* processes that run CPS transactions
    None,
    NdiMayFail, \* whether NDI may refuse a call
    MaxSaved    \* bound on the objects saved by all open transactions

ASSUME IdBounds == IdRange \in Nat \ {0} /\ MaxId \in 1..(IdRange - 1)
ASSUME Values == Default \in Vals /\ None \notin Vals
ASSUME KeyValues == KeyTypes \subseteq Types /\ KeyVal \in [Keys -> Vals]
ASSUME Requests == AskedIds \subseteq Nat
ASSUME Switches == NdiMayFail \in BOOLEAN /\ MaxSaved \in Nat

VARIABLES
    reserved,  \* nas_qos_switch::_map_id_gen: ids in use
    maps,      \* nas_qos_switch: the entries of each map, or None
    npu,       \* the NPU: the values of each map object, or None
    tx,        \* the transaction of each client: its phase and param->prev
    before,    \* auxiliary: for each transaction the maps when it began, or None
               \* when something else changed a map since
    overwrote  \* auxiliary: transactions that created an entry that existed

cache == <<reserved, maps, npu>>
vars == <<cache, tx, before, overwrote>>

\* ENCODE_LOCAL_MAP_ID_AND_TYPE: bits beyond the local id's are cut off.
Encode(x, t) == <<t, x % IdRange>>
Unspecified(g) == g[2] = 0

Gids == Types \X (0..(IdRange - 1))
Entry == [val : Vals, dirty : {TRUE, FALSE}]
Idle == [phase |-> "idle", prev |-> <<>>]

Map == [Keys -> Entry \cup {None}]
NpuMap == [Keys -> Vals]
ASSUME NoneIsNew ==
    /\ None \notin Entry /\ None \notin Map /\ None \notin NpuMap
    /\ None \notin [Keys -> Vals \cup {None}] /\ None \notin Keys

NoEntries == [k \in Keys |-> None]
Defaults == [k \in Keys |-> Default]
MapExists(g) == maps[g] # None
EntryExists(g, k) == MapExists(g) /\ maps[g][k] # None

\* What the entries say, whether pushed or not.
Content(m) ==
    IF m = None THEN None
    ELSE [k \in Keys |-> IF m[k] = None THEN None ELSE m[k].val]
Config == [g \in Gids |-> Content(maps[g])]

Init ==
    /\ reserved = {}
    /\ maps = [g \in Gids |-> None]
    /\ npu = [g \in Gids |-> None]
    /\ tx = [c \in Clients |-> Idle]
    /\ before = [c \in Clients |-> None]
    /\ overwrote = {}

----------------------------------------------------------------------------
(* The operations, without the bookkeeping of the transaction.              *)

Refused == NdiMayFail /\ UNCHANGED cache

\* alloc_map_id_by_type: the lowest free id below MAX_MAP_ID_PER_TYPE.
FreeIds(t) == {l \in 1..(MaxId - 1) : <<t, l>> \notin reserved}
IsLowest(g, S) == \A h \in S : g[2] <= h[2]

AddMap(g) ==
    /\ reserved' = reserved \cup {g}
    /\ maps' = [maps EXCEPT ![g] = NoEntries]
    /\ npu' = [npu EXCEPT ![g] = Defaults]

\* Mutant: the id stays reserved.
RemoveMapOnly(g) ==
    /\ maps' = [maps EXCEPT ![g] = None]
    /\ npu' = [npu EXCEPT ![g] = None]
    /\ UNCHANGED reserved

RemoveMap(g) ==
    /\ reserved' = reserved \ {g}
    /\ maps' = [maps EXCEPT ![g] = None]
    /\ npu' = [npu EXCEPT ![g] = None]

PutEntry(g, k, e) == maps' = [maps EXCEPT ![g] = [@ EXCEPT ![k] = e]]
PushValue(g, k, v) == npu' = [npu EXCEPT ![g] = [@ EXCEPT ![k] = v]]

\* The value that is written for a key when an entry is to have the value v.
Written(g, k, v) == IF g[1] \in KeyTypes THEN KeyVal[k] ELSE v

\* base_obj_t (external) may or may not clear the marks of what it committed.
Committed(v) == [val : {v}, dirty : {TRUE, FALSE}]

\* add_map_entry: an entry that exists is overwritten through its setter, which
\* marks it dirty.  An entry without attributes has no setter and is never marked.
AddEntry(g, k, v) ==
    /\ PushValue(g, k, Written(g, k, v))
    /\ \E e \in Committed(Written(g, k, v)) :
          /\ IF g[1] \in KeyTypes THEN ~e.dirty ELSE EntryExists(g, k) => e.dirty
          /\ PutEntry(g, k, e)
    /\ UNCHANGED reserved

\* Mutant: the key keeps its value in the NPU.
RemoveCachedEntry(g, k) ==
    /\ PutEntry(g, k, None)
    /\ UNCHANGED <<reserved, npu>>

\* push_delete_obj_to_npu: what the key itself holds is no default.
RemoveEntry(g, k) ==
    /\ PushValue(g, k, Written(g, k, Default))
    /\ PutEntry(g, k, None)
    /\ UNCHANGED reserved

\* What the cached entry becomes when a request that carries v (None: no value) is
\* parsed into it.
Parsed(e, v) == IF v = None THEN e ELSE [val |-> v, dirty |-> TRUE]

\* nas_qos_cps_validate_set_attr_list: only an attribute that is dirty is set.
Settable(e) == e.dirty

\* Mutant: the value of the request is pushed, also when there is none.
PushGiven(g, k, v) ==
    /\ PushValue(g, k, v)
    /\ \E e \in Committed(v) : PutEntry(g, k, e)
    /\ UNCHANGED reserved

\* commit_modify pushes what is dirty.
PushEntry(g, k, v) ==
    /\ PushValue(g, k, Parsed(maps[g][k], v).val)
    /\ \E e \in Committed(Parsed(maps[g][k], v).val) : PutEntry(g, k, e)
    /\ UNCHANGED reserved

\* commit_modify throws: the cached entry is already changed.
LeaveParsed(g, k, v) ==
    /\ NdiMayFail
    /\ PutEntry(g, k, Parsed(maps[g][k], v))
    /\ UNCHANGED <<reserved, npu>>

----------------------------------------------------------------------------
(* nas_qos_cps_api_map_write_type: an operation of a transaction.           *)

SavedObjects == UNION {{d} \X DOMAIN tx[d].prev : d \in Clients}

Ready(c) == tx[c].phase \in {"idle", "open"}
Start(c) == IF tx[c].phase = "idle" THEN Config ELSE before[c]

\* The operation succeeds and its saved object is appended to param->prev.
Done(c, s) ==
    /\ Cardinality(SavedObjects) < MaxSaved
    /\ tx' = [tx EXCEPT ![c] = [phase |-> "open", prev |-> Append(tx[c].prev, s)]]
    /\ before' = [d \in Clients |-> IF d = c THEN Start(c) ELSE None]

\* It fails, and the CPS framework rolls back what the transaction did.
Failed(c) ==
    /\ tx' = [tx EXCEPT ![c] = [phase |-> "undo", prev |-> tx[c].prev]]
    /\ before' = [d \in Clients |->
                     IF d = c THEN Start(c) ELSE IF maps' = maps THEN before[d] ELSE None]
    /\ UNCHANGED overwrote

Saved(op, g, k, v) == [op |-> op, id |-> g, key |-> k, val |-> v]

\* A request for an entry has a key, one for the map has none.
CreateMap(c, t, x) ==
    LET g == Encode(x, t)
        new == IF Unspecified(g) THEN {<<t, l>> : l \in FreeIds(t)} ELSE {g} \ reserved
    IN /\ Ready(c)
       /\ \/ /\ \E id \in new :
                  /\ IsLowest(id, new)
                  /\ AddMap(id) /\ Done(c, Saved("create", id, None, None))
             /\ UNCHANGED overwrote
          \/ new # {} /\ Refused /\ Failed(c)
          \/ new = {} /\ UNCHANGED cache /\ Failed(c)

DeleteMap(c, t, x) ==
    LET g == Encode(x, t) IN
    /\ Ready(c)
    /\ \/ /\ MapExists(g) /\ maps[g] = NoEntries
          /\ RemoveMap(g) /\ Done(c, Saved("delete", g, None, None))
          /\ UNCHANGED overwrote
       \/ MapExists(g) /\ maps[g] = NoEntries /\ Refused /\ Failed(c)
       \/ /\ ~MapExists(g) \/ maps[g] # NoEntries
          /\ UNCHANGED cache /\ Failed(c)

CreateEntry(c, t, x, k, v) ==
    LET g == Encode(x, t) IN
    /\ Ready(c)
    /\ \/ /\ MapExists(g)
          /\ AddEntry(g, k, v) /\ Done(c, Saved("create", g, k, None))
          /\ overwrote' = IF EntryExists(g, k) THEN overwrote \cup {c} ELSE overwrote
       \/ MapExists(g) /\ Refused /\ Failed(c)
       \/ ~MapExists(g) /\ UNCHANGED cache /\ Failed(c)

\* An entry that is dirty already passes the check of the request's attributes; one
\* that has no attributes never does.
SetEntry(c, t, x, k, v) ==
    LET g == Encode(x, t) IN
    /\ Ready(c)
    /\ \/ /\ EntryExists(g, k) /\ Settable(Parsed(maps[g][k], v))
          /\ PushEntry(g, k, v) /\ Done(c, Saved("set", g, k, maps[g][k].val))
          /\ UNCHANGED overwrote
       \/ /\ EntryExists(g, k) /\ Settable(Parsed(maps[g][k], v))
          /\ LeaveParsed(g, k, v) /\ Failed(c)
       \/ /\ EntryExists(g, k) => ~Settable(Parsed(maps[g][k], v))
          /\ UNCHANGED cache /\ Failed(c)

DeleteEntry(c, t, x, k) ==
    LET g == Encode(x, t) IN
    /\ Ready(c)
    /\ \/ /\ EntryExists(g, k)
          /\ RemoveEntry(g, k) /\ Done(c, Saved("delete", g, k, maps[g][k].val))
          /\ UNCHANGED overwrote
       \/ EntryExists(g, k) /\ Refused /\ Failed(c)
       \/ ~EntryExists(g, k) /\ UNCHANGED cache /\ Failed(c)

----------------------------------------------------------------------------
(* nas_qos_cps_api_map_rollback_type: the saved objects, the last one first; *)
(* each branch says what the reverse operation does, or that it fails.      *)

UndoMap(s) ==
    \/ /\ s.op = "create" /\ maps[s.id] = NoEntries
       /\ RemoveMap(s.id)
    \/ /\ s.op = "create" /\ maps[s.id] # NoEntries
       /\ UNCHANGED cache
    \/ /\ s.op = "delete" /\ s.id \notin reserved
       /\ AddMap(s.id)
    \/ /\ s.op = "delete" /\ s.id \in reserved
       /\ UNCHANGED cache

\* Mutant: the rollback handler has no case for SET.
UndoEntryButSet(s) ==
    \/ s.op = "create" /\ EntryExists(s.id, s.key) /\ RemoveEntry(s.id, s.key)
    \/ s.op = "set" /\ UNCHANGED cache
    \/ s.op = "delete" /\ MapExists(s.id) /\ AddEntry(s.id, s.key, s.val)
    \/ /\ ~EntryExists(s.id, s.key) /\ (s.op = "delete" => ~MapExists(s.id))
       /\ UNCHANGED cache

UndoEntry(s) ==
    \/ s.op = "create" /\ EntryExists(s.id, s.key) /\ RemoveEntry(s.id, s.key)
    \/ s.op = "set" /\ EntryExists(s.id, s.key) /\ PushEntry(s.id, s.key, s.val)
    \/ s.op = "delete" /\ MapExists(s.id) /\ AddEntry(s.id, s.key, s.val)
    \/ /\ ~EntryExists(s.id, s.key) /\ (s.op = "delete" => ~MapExists(s.id))
       /\ UNCHANGED cache

UndoFails(s) ==
    \/ Refused
    \/ s.op = "set" /\ EntryExists(s.id, s.key) /\ LeaveParsed(s.id, s.key, s.val)

Undo(c) ==
    /\ tx[c].phase = "undo" /\ tx[c].prev # <<>>
    /\ LET p == tx[c].prev
           s == p[Len(p)]
       IN /\ \/ /\ IF s.key = None THEN UndoMap(s) ELSE UndoEntry(s)
                /\ before' = [d \in Clients |-> IF d = c THEN before[c] ELSE None]
             \/ UndoFails(s) /\ before' = [d \in Clients |-> None]
          /\ tx' = [tx EXCEPT ![c] = [phase |-> "undo",
                                      prev |-> SubSeq(p, 1, Len(p) - 1)]]
    /\ UNCHANGED overwrote

\* The transaction ends, committed or undone.
End(c) ==
    /\ \/ tx[c].phase = "open"
       \/ tx[c].phase = "undo" /\ tx[c].prev = <<>>
    /\ tx' = [tx EXCEPT ![c] = Idle]
    /\ before' = [before EXCEPT ![c] = None]
    /\ overwrote' = overwrote \ {c}
    /\ UNCHANGED cache

\* The values that a request for an entry may carry.
Given(t) == IF t \in KeyTypes THEN {None} ELSE Vals

\* The key of a request tells whether it is for a map or for an entry
\* (qos_map_key_check), and for which entry (qos_map_entry_get_key).
Request(c) ==
    \E t \in Types, x \in AskedIds :
       \/ CreateMap(c, t, x)
       \/ DeleteMap(c, t, x)
       \/ \E k \in Keys :
             \/ \E v \in Given(t) : CreateEntry(c, t, x, k, v)
             \/ \E v \in Given(t) \cup {None} : SetEntry(c, t, x, k, v)
             \/ DeleteEntry(c, t, x, k)

Next == \E c \in Clients : Request(c) \/ Undo(c) \/ End(c)

Spec == Init /\ [][Next]_vars
----------------------------------------------------------------------------
Step ==
    [op : {"create", "set", "delete"}, id : Gids, key : Keys \cup {None},
     val : Vals \cup {None}]

TypeOK ==
    /\ reserved \subseteq Gids
    /\ maps \in [Gids -> Map \cup {None}]
    /\ npu \in [Gids -> NpuMap \cup {None}]
    /\ tx \in [Clients -> [phase : {"idle", "open", "undo"}, prev : Seq(Step)]]
    /\ before \in [Clients ->
                     [Gids -> [Keys -> Vals \cup {None}] \cup {None}] \cup {None}]
    /\ overwrote \subseteq Clients

----------------------------------------------------------------------------
(* Properties *)

\* Whatever transactions and rollbacks interleave, an id is in use exactly when it
\* names a map, and the NPU has an object exactly for those maps; the unspecified
\* id is never given to a map.
IdsMatchMaps ==
    \A g \in Gids :
       /\ g \in reserved <=> MapExists(g)
       /\ npu[g] # None <=> MapExists(g)
       /\ Unspecified(g) => ~MapExists(g)

\* An entry whose cached value is not the NPU's is marked as changed, so that the
\* next SET of it, also one without a value, writes it: a failed SET leaves such an
\* entry behind (nas_qos_cps_api_map_set parses into the cached entry).  A key without
\* an entry has its default value in the NPU, but where the key holds the value:
\* deleting an entry of PG_TO_PFC writes what creating it wrote, so that the NPU has
\* either the default or that (push_delete_obj_to_npu).
StaleEntriesAreDirty ==
    \A g \in Gids : MapExists(g) => \A k \in Keys :
       IF maps[g][k] = None
       THEN npu[g][k] = Default \/ (g[1] \in KeyTypes /\ npu[g][k] = KeyVal[k])
       ELSE maps[g][k].dirty \/ npu[g][k] = maps[g][k].val

\* The transaction of c has been undone, nobody else changed a map since it began,
\* and NDI refused no step of the rollback.
Undone(c) == tx[c].phase = "undo" /\ tx[c].prev = <<>> /\ before[c] # None

\* A transaction that fails is undone: the same maps hold the same entries with the
\* same values as before it, but for entries left dirty; unless it created an entry
\* that existed.
RollbackRestores ==
    \A c \in Clients : Undone(c) /\ c \notin overwrote =>
       \A g \in Gids :
          /\ MapExists(g) <=> before[c][g] # None
          /\ MapExists(g) => \A k \in Keys :
                IF maps[g][k] = None THEN before[c][g][k] = None
                ELSE maps[g][k].dirty \/ before[c][g][k] = maps[g][k].val
=============================================================================
