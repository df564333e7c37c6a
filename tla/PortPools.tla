----------------------------- MODULE PortPools -----------------------------
(***************************************************************************)
(* The port pools of one interface: the share of a buffer pool an interface *)
(* has, with its WRED profile.  CPS requests create, set and delete them,   *)
(* holding port_pool_mutex; the events of the interface unbind them and     *)
(* bind them again on the event thread, which holds the mutex of the switch *)
(* and not that of the pools.  So the steps of a request and those of an    *)
(* association interleave: a handler that writes back its copy, or pointers *)
(* that were collected before a deletion, meet what the other thread did.   *)
(***************************************************************************)
EXTENDS Naturals, Sequences

CONSTANTS
    Pools,       \* buffer pools: with the interface the key of a port pool
    Vals,        \* WRED profiles
    Default,     \* no WRED profile
    Handles,     \* NDI ids of port pools
    NpuPorts,    \* NPU ports the interface may be mapped to
    Clients,     \* processes that run CPS transactions
    None, Null,  \* no entry in _ndi_obj_ids; the entry 0
    NdiMayFail,  \* whether NDI may refuse a call on an object it has
    MaxRequests, \* bound on the requests
    MaxChanges   \* bound on the changes of the interface

ASSUME Bounds == NdiMayFail \in BOOLEAN /\ MaxRequests \in Nat /\ MaxChanges \in Nat
ASSUME Nulls ==
    /\ Null # None /\ Default \notin Vals /\ Default # None
    /\ None \notin Vals \cup Handles \cup NpuPorts \cup Pools
    /\ Null \notin Handles

VARIABLES
    intf,      \* nas-interface: the NPU port of the interface, or None when virtual
    changes,   \* number of changes of the interface so far (bounded)
    events,    \* association events not yet handled: an NPU port, or None for removal
    requests,  \* number of requests so far (bounded)
    pool,      \* nas_qos_switch::port_pools
    db,        \* the profile recorded in the database, or None
    npu,       \* the NPU's port pool objects
    hand,      \* the handler that holds port_pool_mutex
    assoc,     \* nas_qos_port_pool_association on the event thread
    tx,        \* the transaction of each client: its phase and param->prev
    alive,     \* FALSE: the process died
    before,    \* auxiliary: the profiles when the transaction began, or None when
               \* something it cannot undo happened since
    disturbed, \* auxiliary: pools a request was about while an event was pending
    lost       \* auxiliary: NPU objects of creations refused as duplicates

interface == <<intf, changes, events>>
aux == <<before, disturbed, lost>>
vars == <<interface, requests, pool, db, npu, hand, assoc, tx, alive, aux>>

PortPool == [val : Vals \cup {Default}, at : NpuPorts \cup {None}, made : BOOLEAN,
             obj : Handles \cup {None, Null}]
NpuPool == [at : NpuPorts, pool : Pools, val : Vals \cup {Default}]
ASSUME NoneIsNoRecord ==
    None \notin PortPool \cup NpuPool \cup [Pools -> Vals \cup {Default, None}]

Config == [k \in Pools |-> IF pool[k] = None THEN None ELSE pool[k].val]

NoHand == [step |-> "none", by |-> None, op |-> "none", key |-> None, data |-> None,
           pushed |-> FALSE]
NoAssoc == [step |-> "none", at |-> None, todo |-> {}, gone |-> {}, replay |-> {},
            key |-> None, data |-> None]

\* The event thread has nothing to do with the interface.
Settled == events = <<>> /\ assoc = NoAssoc
Quiet == hand = NoHand /\ Settled

Init ==
    /\ intf \in NpuPorts \cup {None}
    /\ changes = 0 /\ requests = 0 /\ events = <<>>
    /\ pool = [k \in Pools |-> None]
    /\ db = [k \in Pools |-> None]
    /\ npu = [h \in Handles |-> None]
    /\ hand = NoHand /\ assoc = NoAssoc
    /\ tx = [c \in Clients |-> [phase |-> "idle", prev |-> <<>>]]
    /\ alive = TRUE
    /\ before = [c \in Clients |-> None]
    /\ disturbed = {} /\ lost = {}

----------------------------------------------------------------------------
(* NDI: what it does with an id it does not know, 0 included, is not known; *)
(* a pool without an entry in _ndi_obj_ids makes the access throw.          *)

Exists(o) == o \in Handles /\ npu[o] # None
Unknown(o) == o = Null \/ (o \in Handles /\ npu[o] = None)
Refuses(o) == o = None \/ Unknown(o) \/ NdiMayFail

NdiSet(o, v) ==
    \/ Exists(o) /\ npu' = [npu EXCEPT ![o] = [at |-> npu[o].at, pool |-> npu[o].pool, val |-> v]]
    \/ Unknown(o) /\ UNCHANGED npu

NdiDelete(o) ==
    \/ Exists(o) /\ npu' = [npu EXCEPT ![o] = None]
    \/ Unknown(o) /\ UNCHANGED npu

----------------------------------------------------------------------------
(* The outcome of an operation.  Undoing takes the saved object off prev    *)
(* whatever comes of it.                                                    *)

Popped(p) == SubSeq(p, 1, Len(p) - 1)
Undoing(c) == tx[c].phase = "undo"

\* The operation of c succeeded and appends the sequence s to param->prev.
Succeed(c, s) ==
    tx' = [tx EXCEPT ![c] = IF Undoing(c) THEN [phase |-> "undo", prev |-> Popped(tx[c].prev)]
                            ELSE [phase |-> "open", prev |-> tx[c].prev \o s]]

\* It failed, which starts the rollback.
Fail(c) ==
    tx' = [tx EXCEPT ![c] = [phase |-> "undo", prev |-> IF Undoing(c) THEN Popped(tx[c].prev)
                                                        ELSE tx[c].prev]]

\* Nobody else can hope to restore the profiles, and c only what start says.
Only(c, start) == [d \in Clients |-> IF d = c THEN start ELSE None]
Start(c) == IF tx[c].phase = "idle" THEN Config ELSE before[c]

Hold(c, op, k, step, data, pushed) ==
    hand' = [step |-> step, by |-> c, op |-> op, key |-> k, data |-> data, pushed |-> pushed]

\* A disturbed pool may have the NDI id of an object that is gone, and NDI may have given
\* it to another pool's object: what it does to the object disturbs the other pool.
Victim(k) ==
    {j \in Pools : /\ k \in disturbed /\ pool[k] # None /\ Exists(pool[k].obj)
                   /\ npu[pool[k].obj].pool = j}

\* Pointers to the pool of k that the event thread holds are invalid.
Invalidate(k) ==
    assoc' = [assoc EXCEPT !.gone = IF k \in assoc.todo \/ k = assoc.key
                                    THEN assoc.gone \cup {k} ELSE assoc.gone]

----------------------------------------------------------------------------
(* nas_qos_cps_api_port_pool_create *)

CreateLook(c, k, v) ==
    /\ Hold(c, "create", k, "commit", [val |-> v, at |-> intf, made |-> FALSE, obj |-> None],
            FALSE)
    /\ UNCHANGED <<npu, tx>>

\* commit_create for a port that is not virtual by now, on the NPU port looked up before.
CreateCommit ==
    LET c == hand.by  k == hand.key  d == hand.data IN
    /\ alive /\ hand.step = "commit"
    /\ \/ /\ intf = None
          /\ Hold(c, "create", k, "store", d, FALSE)
          /\ UNCHANGED <<npu, tx, before>>
       \/ /\ intf # None /\ d.at # None
          /\ \E h \in Handles :
               /\ npu[h] = None
               /\ npu' = [npu EXCEPT ![h] = [at |-> d.at, pool |-> k, val |-> d.val]]
               /\ Hold(c, "create", k, "store",
                       [val |-> d.val, at |-> d.at, made |-> TRUE, obj |-> h], TRUE)
          /\ UNCHANGED <<tx, before>>
       \/ /\ intf # None /\ (d.at = None \/ NdiMayFail)
          /\ Fail(c)
          /\ before' = IF Undoing(c) THEN Only(c, None) ELSE before
          /\ hand' = NoHand
          /\ UNCHANGED npu
    /\ UNCHANGED <<interface, requests, pool, db, assoc, alive, disturbed, lost>>

\* Mutant: a pool that exists is replaced.
CreateStoreAnyway ==
    LET c == hand.by  k == hand.key  d == hand.data IN
    /\ alive /\ hand.step = "store" /\ hand.op = "create"
    /\ pool' = [pool EXCEPT ![k] = d]
    /\ db' = [db EXCEPT ![k] = d.val]
    /\ Succeed(c, <<[op |-> "create", key |-> k, val |-> Default]>>)
    /\ UNCHANGED lost
    /\ hand' = NoHand
    /\ UNCHANGED <<interface, requests, npu, assoc, alive, before, disturbed>>

\* add_port_pool throws for a pool that exists, and its new NPU object is forgotten.
CreateStore ==
    LET c == hand.by  k == hand.key  d == hand.data IN
    /\ alive /\ hand.step = "store" /\ hand.op = "create"
    /\ \/ /\ pool[k] = None
          /\ pool' = [pool EXCEPT ![k] = d]
          /\ db' = [db EXCEPT ![k] = d.val]
          /\ Succeed(c, <<[op |-> "create", key |-> k, val |-> Default]>>)
          /\ UNCHANGED lost
       \/ /\ pool[k] # None
          /\ lost' = lost \cup ({d.obj} \cap Handles)
          /\ Fail(c)
          /\ UNCHANGED <<pool, db>>
    /\ hand' = NoHand
    /\ UNCHANGED <<interface, requests, npu, assoc, alive, before, disturbed>>

----------------------------------------------------------------------------
(* nas_qos_cps_api_port_pool_set: a copy is changed, pushed and written back. *)

Copy(k, v) == [val |-> v, at |-> pool[k].at, made |-> pool[k].made, obj |-> pool[k].obj]
OnNpu(k) == intf # None /\ pool[k].made

SetPush(c, k, v) ==
    \/ /\ pool[k] # None /\ OnNpu(k)
       /\ NdiSet(pool[k].obj, v)
       /\ Hold(c, "set", k, "store", Copy(k, v), TRUE)
       /\ UNCHANGED tx
    \/ /\ pool[k] # None /\ ~OnNpu(k)
       /\ Hold(c, "set", k, "store", Copy(k, v), FALSE)
       /\ UNCHANGED <<npu, tx>>

\* Mutant: what is not pushed is not recorded.
SetStoreUnrecorded ==
    LET c == hand.by  k == hand.key IN
    /\ alive /\ hand.step = "store" /\ hand.op = "set"
    /\ pool' = [pool EXCEPT ![k] = hand.data]
    /\ db' = IF hand.pushed THEN [db EXCEPT ![k] = hand.data.val] ELSE db
    /\ Succeed(c, IF hand.pushed THEN <<[op |-> "set", key |-> k, val |-> pool[k].val]>> ELSE <<>>)
    /\ before' = IF hand.pushed THEN before ELSE Only(c, None)
    /\ hand' = NoHand
    /\ UNCHANGED <<interface, requests, npu, assoc, alive, disturbed, lost>>

\* The old profile is saved only when the new one was pushed.
SetStore ==
    LET c == hand.by  k == hand.key IN
    /\ alive /\ hand.step = "store" /\ hand.op = "set"
    /\ pool' = [pool EXCEPT ![k] = hand.data]
    /\ db' = [db EXCEPT ![k] = hand.data.val]
    /\ Succeed(c, IF hand.pushed THEN <<[op |-> "set", key |-> k, val |-> pool[k].val]>> ELSE <<>>)
    /\ before' = IF hand.pushed THEN before ELSE Only(c, None)
    /\ hand' = NoHand
    /\ UNCHANGED <<interface, requests, npu, assoc, alive, disturbed, lost>>

----------------------------------------------------------------------------
(* nas_qos_cps_api_port_pool_delete *)

DeletePush(c, k) ==
    /\ pool[k] # None
    /\ \/ intf # None /\ NdiDelete(pool[k].obj)
       \/ intf = None /\ UNCHANGED npu
    /\ Hold(c, "delete", k, "store", pool[k], intf # None)
    /\ UNCHANGED tx

DeleteStore ==
    LET c == hand.by  k == hand.key IN
    /\ alive /\ hand.step = "store" /\ hand.op = "delete"
    /\ pool' = [pool EXCEPT ![k] = None]
    /\ db' = [db EXCEPT ![k] = None]
    /\ Invalidate(k)
    /\ Succeed(c, <<[op |-> "delete", key |-> k, val |-> pool[k].val]>>)
    /\ hand' = NoHand
    /\ UNCHANGED <<interface, requests, npu, alive, aux>>

----------------------------------------------------------------------------
(* nas_qos_cps_api_port_pool_write and nas_qos_cps_api_port_pool_rollback,  *)
(* up to the first thing another thread can see.                            *)

\* There is no such pool, or NDI refuses the call.
SetOrDeleteFails(c, op, k) ==
    /\ \/ pool[k] = None /\ op \in {"set", "delete"}
       \/ pool[k] # None /\ op = "set" /\ OnNpu(k) /\ Refuses(pool[k].obj)
       \/ pool[k] # None /\ op = "delete" /\ intf # None /\ Refuses(pool[k].obj)
    /\ Fail(c)
    /\ UNCHANGED <<npu, hand>>

Begin(c, op, k, v) ==
    /\ alive /\ hand = NoHand
    /\ disturbed' = disturbed \cup Victim(k) \cup (IF Settled THEN {} ELSE {k})
    /\ \/ /\ \/ op = "create" /\ CreateLook(c, k, v)
             \/ op = "set" /\ SetPush(c, k, v)
             \/ op = "delete" /\ DeletePush(c, k)
          /\ before' = Only(c, IF Settled THEN Start(c) ELSE None)
       \/ /\ SetOrDeleteFails(c, op, k)
          /\ before' = Only(c, IF Settled /\ ~Undoing(c) THEN Start(c) ELSE None)
    /\ UNCHANGED <<interface, pool, db, assoc, alive, lost>>

Request(c) ==
    /\ tx[c].phase \in {"idle", "open"}
    /\ requests < MaxRequests
    /\ requests' = requests + 1
    /\ \E op \in {"create", "set", "delete"}, k \in Pools, v \in Vals \cup {Default} : Begin(c, op, k, v)

\* Mutant: the rollback handler has no case for SET.
OppositeButSet(op) == IF op = "create" THEN "delete" ELSE "create"

Opposite(op) == IF op = "create" THEN "delete" ELSE IF op = "delete" THEN "create" ELSE "set"

Undo(c) ==
    /\ Undoing(c) /\ tx[c].prev # <<>>
    /\ LET s == tx[c].prev[Len(tx[c].prev)] IN Begin(c, Opposite(s.op), s.key, s.val)
    /\ UNCHANGED requests

\* A request that does not parse, or of another handler, fails.
OtherFails(c) ==
    /\ alive /\ tx[c].phase = "open" /\ hand.by # c
    /\ Fail(c)
    /\ UNCHANGED <<interface, requests, pool, db, npu, hand, assoc, alive, aux>>

End(c) ==
    /\ alive /\ hand.by # c
    /\ tx[c].phase = "open" \/ (Undoing(c) /\ tx[c].prev = <<>>)
    /\ tx' = [tx EXCEPT ![c] = [phase |-> "idle", prev |-> <<>>]]
    /\ before' = [before EXCEPT ![c] = None]
    /\ UNCHANGED <<interface, requests, pool, db, npu, hand, assoc, alive, disturbed, lost>>

----------------------------------------------------------------------------
(* Statistics.  The counters themselves are the NPU's; a request names them. *)

PortPoolCounters == [discards |-> {"read", "clear"}, occupancy |-> {"read"},
                     watermark |-> {"read", "clear"}]
Can(op, names) == {n \in names : op \in PortPoolCounters[n]} # {}

\* The pool has no NDI id, which throws, and nobody catches it.
NoNdiId(k) == pool[k] # None /\ pool[k].obj = None

\* A GET changes nothing, if it can be answered.
StatReadDies(k, names) ==
    /\ alive /\ hand = NoHand
    /\ intf # None /\ NoNdiId(k) /\ Can("read", names)
    /\ alive' = FALSE
    /\ UNCHANGED <<interface, requests, pool, db, npu, hand, assoc, tx, aux>>

\* A SET clears what it can of the counters it names; nothing is saved.
StatClear(c, k, names) ==
    /\ alive /\ hand = NoHand
    /\ tx[c].phase \in {"idle", "open"}
    /\ requests < MaxRequests
    /\ requests' = requests + 1
    /\ \/ /\ intf # None /\ Can("clear", names) /\ pool[k] # None
          /\ \/ /\ Exists(pool[k].obj) \/ Unknown(pool[k].obj)
                /\ Succeed(c, <<>>)
                /\ UNCHANGED alive
             \/ NoNdiId(k) /\ alive' = FALSE /\ UNCHANGED tx
       \/ /\ \/ intf = None \/ ~Can("clear", names) \/ pool[k] = None
             \/ pool[k] # None => pool[k].obj # None /\ Refuses(pool[k].obj)
          /\ Fail(c)
          /\ UNCHANGED alive
    /\ before' = [before EXCEPT ![c] = IF Settled THEN Start(c) ELSE None]
    /\ UNCHANGED <<interface, pool, db, npu, hand, assoc, disturbed, lost>>

----------------------------------------------------------------------------
(* nas-interface maps and unmaps the interface and publishes the event.     *)

Change(n) ==
    /\ alive /\ (n = None) # (intf = None)
    /\ changes < MaxChanges
    /\ changes' = changes + 1
    /\ intf' = n
    /\ events' = Append(events, n)
    /\ before' = [c \in Clients |-> None]
    /\ disturbed' = disturbed \cup ({hand.key} \ {None})
    /\ UNCHANGED <<requests, pool, db, npu, hand, assoc, tx, alive, lost>>

----------------------------------------------------------------------------
(* nas_qos_port_pool_association, on the event thread.                      *)

Unaffected == UNCHANGED <<interface, requests, hand, tx, before, lost>>

\* Pointers to the pools of the interface are collected.
Collect ==
    /\ alive /\ events # <<>> /\ assoc = NoAssoc
    /\ events' = Tail(events)
    /\ assoc' = [NoAssoc EXCEPT !.step = "bind", !.at = Head(events),
                                !.todo = {k \in Pools : pool[k] # None}]
    /\ UNCHANGED <<intf, changes, requests, pool, db, npu, hand, tx, alive, aux>>

\* The map is iterated while a handler changes it.
CollectRaces ==
    /\ alive /\ events # <<>> /\ assoc = NoAssoc
    /\ hand.step = "store" /\ hand.op \in {"create", "delete"}
    /\ alive' = FALSE
    /\ UNCHANGED <<pool, db, npu, assoc, disturbed>> /\ Unaffected

Visited(k) == assoc' = [assoc EXCEPT !.todo = assoc.todo \ {k}]

\* A pointer to a freed pool is used: the process dies, or nothing comes of it.
UseFreed(k) ==
    /\ alive /\ assoc.step = "bind" /\ k \in assoc.todo \cap assoc.gone
    /\ Visited(k)
    /\ alive' \in BOOLEAN
    /\ UNCHANGED <<pool, db, npu, disturbed>> /\ Unaffected

\* Nobody catches what push_delete_obj_to_npu throws.
Unbind(k) ==
    /\ alive /\ assoc.step = "bind" /\ assoc.at = None /\ k \in assoc.todo \ assoc.gone
    /\ Visited(k)
    /\ \/ /\ NdiDelete(pool[k].obj)
          /\ pool' = [pool EXCEPT ![k] = [val |-> pool[k].val, at |-> pool[k].at,
                                          made |-> FALSE, obj |-> Null]]
          /\ UNCHANGED alive
       \/ /\ Refuses(pool[k].obj)
          /\ alive' = FALSE
          /\ UNCHANGED <<pool, npu>>
    /\ disturbed' = disturbed \cup Victim(k)
    /\ UNCHANGED db /\ Unaffected

\* The pool is marked as created, which it is not.
Bind(k) ==
    /\ alive /\ assoc.step = "bind" /\ assoc.at # None /\ k \in assoc.todo \ assoc.gone
    /\ Visited(k)
    /\ pool' = [pool EXCEPT ![k] = [val |-> pool[k].val, at |-> assoc.at,
                                    made |-> TRUE, obj |-> pool[k].obj]]
    /\ UNCHANGED <<db, npu, alive, disturbed>> /\ Unaffected

\* Mutant: a record is expected of every pool.
ReadDbOfAll ==
    /\ alive /\ assoc.step = "bind" /\ assoc.todo = {}
    /\ assoc' = IF assoc.at = None THEN NoAssoc
                ELSE [NoAssoc EXCEPT !.step = "replay", !.replay = {<<k, db[k]>> : k \in Pools}]
    /\ UNCHANGED <<pool, db, npu, alive, disturbed>> /\ Unaffected

\* After a mapping the records of the interface are read from the database.
ReadDb ==
    /\ alive /\ assoc.step = "bind" /\ assoc.todo = {}
    /\ assoc' = IF assoc.at = None THEN NoAssoc
                ELSE [NoAssoc EXCEPT !.step = "replay",
                        !.replay = {<<k, db[k]>> : k \in {l \in Pools : db[l] # None}}]
    /\ UNCHANGED <<pool, db, npu, alive, disturbed>> /\ Unaffected

\* Each goes through nas_qos_cps_api_port_pool_set, without port_pool_mutex; what
\* fails is passed over.
ReplayPush(k, v) ==
    /\ alive /\ assoc.step = "replay" /\ assoc.key = None /\ <<k, v>> \in assoc.replay
    /\ \/ /\ pool[k] # None
          /\ \/ OnNpu(k) /\ NdiSet(pool[k].obj, v)
             \/ ~OnNpu(k) /\ UNCHANGED npu
          /\ assoc' = [assoc EXCEPT !.replay = assoc.replay \ {<<k, v>>}, !.gone = {},
                                    !.key = k, !.data = Copy(k, v)]
       \/ /\ pool[k] # None => OnNpu(k) /\ Refuses(pool[k].obj)
          /\ assoc' = [assoc EXCEPT !.replay = assoc.replay \ {<<k, v>>}]
          /\ UNCHANGED npu
    /\ disturbed' = disturbed \cup Victim(k)
    /\ UNCHANGED <<pool, db, alive>> /\ Unaffected

ReplayStore ==
    /\ alive /\ assoc.step = "replay" /\ assoc.key # None
    /\ \/ /\ assoc.key \notin assoc.gone
          /\ pool' = [pool EXCEPT ![assoc.key] = assoc.data]
          /\ UNCHANGED alive
       \/ /\ assoc.key \in assoc.gone
          /\ alive' \in BOOLEAN
          /\ UNCHANGED pool
    /\ db' = [db EXCEPT ![assoc.key] = assoc.data.val]
    /\ assoc' = [assoc EXCEPT !.key = None, !.data = None]
    /\ UNCHANGED <<npu, disturbed>> /\ Unaffected

EndAssociation ==
    /\ alive /\ assoc.step = "replay" /\ assoc.replay = {} /\ assoc.key = None
    /\ assoc' = NoAssoc
    /\ UNCHANGED <<pool, db, npu, alive, disturbed>> /\ Unaffected

Associate ==
    \/ Collect \/ CollectRaces \/ ReadDb \/ ReplayStore \/ EndAssociation
    \/ \E k \in Pools :
          \/ UseFreed(k) \/ Unbind(k) \/ Bind(k)
          \/ \E v \in Vals \cup {Default} : ReplayPush(k, v)

Next ==
    \/ \E c \in Clients : Request(c) \/ Undo(c) \/ OtherFails(c) \/ End(c)
    \/ CreateCommit \/ CreateStore \/ SetStore \/ DeleteStore
    \/ \E k \in Pools, names \in SUBSET DOMAIN PortPoolCounters :
          StatReadDies(k, names) \/ \E c \in Clients : StatClear(c, k, names)
    \/ \E n \in NpuPorts \cup {None} : Change(n)
    \/ Associate

Spec == Init /\ [][Next]_vars
----------------------------------------------------------------------------
Saved == [op : {"create", "set", "delete"}, key : Pools, val : Vals \cup {Default}]

TypeOK ==
    /\ intf \in NpuPorts \cup {None} /\ changes \in Nat /\ requests \in Nat
    /\ events \in Seq(NpuPorts \cup {None})
    /\ pool \in [Pools -> PortPool \cup {None}]
    /\ db \in [Pools -> Vals \cup {Default, None}]
    /\ npu \in [Handles -> NpuPool \cup {None}]
    /\ hand = NoHand
         \/ hand \in [step : {"commit", "store"}, by : Clients, key : Pools,
                      op : {"create", "set", "delete"}, data : PortPool, pushed : BOOLEAN]
    /\ assoc \in [step : {"none", "bind", "replay"}, at : NpuPorts \cup {None},
                  todo : SUBSET Pools, gone : SUBSET Pools,
                  replay : SUBSET (Pools \X (Vals \cup {Default})),
                  key : Pools \cup {None}, data : PortPool \cup {None}]
    /\ tx \in [Clients -> [phase : {"idle", "open", "undo"}, prev : Seq(Saved)]]
    /\ alive \in BOOLEAN
    /\ before \in [Clients -> [Pools -> Vals \cup {Default, None}] \cup {None}]
    /\ disturbed \subseteq Pools /\ lost \subseteq Handles

----------------------------------------------------------------------------
(* Properties *)

\* Between two steps of a pool's handler or of the association, cache and database
\* have the same pools with the same profiles, whatever was refused, rolled back, bound
\* or replayed; only a request that meets an association may part them
\* (nas_qos_cps_api_port_pool_*, nas_qos_port_pool_association).
CacheFollowsDb == \A k \in Pools \ disturbed : db[k] = Config[k]

\* Every NPU object is the object of a pool, on the pool's NPU port and with its cached
\* profile, or was lost by a refused duplicate; no pool has another's object.  A pool a
\* request was about while an event was pending is excepted.
NpuFollowsCache ==
    /\ \A k \in Pools \ disturbed :
          pool[k] # None /\ pool[k].obj \in Handles /\ hand.key # k /\ assoc.key # k =>
             npu[pool[k].obj] = [at |-> pool[k].at, pool |-> k, val |-> pool[k].val]
    /\ \A h \in Handles \ lost :
          npu[h] # None /\ npu[h].pool \notin disturbed /\ hand.key # npu[h].pool =>
             pool[npu[h].pool] # None /\ pool[npu[h].pool].obj = h

\* When a failed transaction has been undone, with no other client, event or refusal and
\* every SET on a mapped interface, the pools and their profiles are what they were
\* (nas_qos_cps_api_port_pool_rollback).
PoolsRestored ==
    \A c \in Clients :
       Undoing(c) /\ tx[c].prev = <<>> /\ hand = NoHand /\ before[c] # None =>
          Config = before[c]

\* What nas_qos_port_pool_association is for, "pushing the saved DB configuration to npu":
\* when it is over, the NPU has the pools of the database, those aside that a request
\* was about meanwhile.
DbReachesNpu ==
    Quiet /\ intf # None =>
       \A k \in Pools \ disturbed : db[k] # None =>
          \E h \in Handles : npu[h] = [at |-> intf, pool |-> k, val |-> db[k]]
=============================================================================
