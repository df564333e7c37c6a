---------------------------- MODULE PortProfiles ----------------------------
(***************************************************************************)
(* The port profiles (ingress, egress) and the priority groups of one       *)
(* interface.  CPS transactions set their attributes, which are pushed to   *)
(* the NPU while the interface is mapped and are recorded in the database   *)
(* always; the events of the interface bind the nodes to another NPU port   *)
(* or make them virtual, and replay what the database has.                  *)
(*                                                                          *)
(* A node has one attribute.  Of the queues only their binding matters,     *)
(* which the egress profile reads.  HqosTree models the tree, PortLifecycle *)
(* the initialisation.                                                      *)
(***************************************************************************)
EXTENDS Naturals, Sequences

CONSTANTS
    N,           \* number of priority groups, and of queues, of a port
    Ids,         \* NAS ids of priority groups
    Vals,        \* what an attribute refers to: maps, policers, buffer profiles
    Default,     \* an attribute that refers to nothing
    NpuPorts,    \* NPU ports the interface may be mapped to
    Clients,     \* processes that run CPS transactions
    None,
    NdiMayFail,  \* whether NDI may refuse a call
    MaxRequests, \* bound on the requests that succeed
    MaxChanges   \* bound on the changes of the interface

NullId == 0

ASSUME Sizes == N \in Nat \ {0} /\ MaxRequests \in Nat /\ MaxChanges \in Nat
ASSUME Flag == NdiMayFail \in BOOLEAN
ASSUME Nulls == None \notin NpuPorts /\ Default \notin Vals /\ NullId \notin Ids

VARIABLES
    intf,      \* nas-interface: the NPU port of the interface, or None when virtual
    requests,  \* number of requests that succeeded so far (bounded)
    changes,   \* number of changes of the interface so far (bounded)
    events,    \* association events not yet handled: an NPU port, or None for removal
    val,       \* the cached attribute of each node
    bound,     \* the NPU port each node is bound to, or None
    pgId,      \* priority_group_id of each priority group
    pgList,    \* _pg_id_vec of the ingress profile, without its order
    queueList, \* _q_id_vec of the egress profile, without its order
    queuesAt,  \* the NPU port the queues are bound to, or None
    db,        \* the attributes recorded in the database: <<>> or <<value>>
    npu,       \* the attributes of each NPU port
    assoc,     \* the association in progress, which holds the switch mutex
    tx,        \* the transaction of each client: change_list so far and prev
    before,    \* auxiliary: the attributes when the transaction began, or None when
               \* something it cannot undo happened since
    stale      \* auxiliary: nodes for which NDI failed in the last association

config == <<val, db, npu, stale>>
binding == <<bound, pgId, pgList, queueList, queuesAt>>
port == <<intf, changes, events>>
vars == <<config, binding, port, assoc, requests, tx, before>>

Ingress == <<"ingress", 0>>
Egress == <<"egress", 0>>
PGs == {"pg"} \X (1..N)
Nodes == {Ingress, Egress} \cup PGs
QueueIds == 1..N

\* Mutant: the ingress profile is made anew before the priority groups.
StepsIngressFirst(n) == IF n # None THEN <<"ingress", "egress", "queue", "pg">>
                        ELSE <<"ingress", "egress", "queue", "pg">>

\* The steps of nas_qos_if_set_notify that concern these nodes, in their order.
Steps(n) == IF n # None THEN <<"ingress", "egress", "queue", "pg">>
            ELSE <<"pg", "queue", "ingress", "egress">>

NoTx == [phase |-> "idle", changed |-> <<>>, prev |-> <<>>]

\* Nobody holds the switch mutex for an association.
Free == assoc.todo = <<>> /\ assoc.replay = {}

\* is_created_in_ndi, on a port that is not virtual.
Live(x) == intf # None /\ bound[x] # None

PgIds == {pgId[p] : p \in PGs}

Init ==
    /\ intf \in NpuPorts \cup {None}
    /\ bound = [x \in Nodes |-> intf]
    /\ queuesAt = intf
    /\ val = [x \in Nodes |-> Default]
    /\ npu = [n \in NpuPorts |-> [x \in Nodes |-> Default]]
    /\ db = [x \in Nodes |-> <<>>]
    /\ pgId \in [PGs -> Ids] /\ \A p, q \in PGs : pgId[p] = pgId[q] => p = q
    /\ pgList = PgIds
    /\ queueList = QueueIds
    /\ requests = 0 /\ changes = 0 /\ events = <<>>
    /\ assoc = [at |-> None, todo |-> <<>>, replay |-> {}]
    /\ tx = [c \in Clients |-> NoTx]
    /\ before = [c \in Clients |-> None]
    /\ stale = {}

----------------------------------------------------------------------------
(* The SET handlers: nas_qos_cps_api_port_ing_set, nas_qos_cps_api_port_eg_set, *)
(* nas_qos_cps_api_priority_group_set.                                      *)

\* Mutant: the cache and the database change, the NPU does not.
PushNothing(x, v) ==
    /\ Live(x)
    /\ val' = [val EXCEPT ![x] = v]
    /\ db' = [db EXCEPT ![x] = <<v>>]
    /\ stale' = stale \ {x}
    /\ UNCHANGED npu

\* commit_modify pushes to the port the node is bound to, whatever the interface is
\* mapped to by now.
Push(x, v) ==
    /\ Live(x)
    /\ npu' = [npu EXCEPT ![bound[x]] = [@ EXCEPT ![x] = v]]
    /\ val' = [val EXCEPT ![x] = v]
    /\ db' = [db EXCEPT ![x] = <<v>>]
    /\ stale' = stale \ {x}

\* Mutant: what is not pushed is not recorded.
CacheUnrecorded(x, v) ==
    /\ ~Live(x)
    /\ val' = [val EXCEPT ![x] = v]
    /\ stale' = stale \ {x}
    /\ UNCHANGED <<npu, db>>

\* Mutant: a record is added to those there are.
CacheAppended(x, v) ==
    /\ ~Live(x)
    /\ val' = [val EXCEPT ![x] = v]
    /\ db' = [db EXCEPT ![x] = Append(db[x], v)]
    /\ stale' = stale \ {x}
    /\ UNCHANGED npu

\* Without an NPU object the cache and the database change.
CacheOnly(x, v) ==
    /\ ~Live(x)
    /\ val' = [val EXCEPT ![x] = v]
    /\ db' = [db EXCEPT ![x] = <<v>>]
    /\ stale' = stale \ {x}
    /\ UNCHANGED npu

\* commit_modify throws: neither cache nor database change.
Refuses(x) == NdiMayFail /\ Live(x)

----------------------------------------------------------------------------
(* Transactions: nas_qos_cps_api_{port_ingress,port_egress,priority_group}_{write,rollback}. *)

Start(c) == IF tx[c].phase = "idle" THEN val ELSE before[c]

\* Nobody else can hope to restore the attributes, and c only from start.
Only(c, start) == [d \in Clients |-> IF d = c THEN start ELSE None]

Ready(c) == Free /\ tx[c].phase \in {"idle", "open"}

\* nas_qos_store_prev_attr: the attribute before it is set.
Previous(x) == [node |-> x, val |-> val[x]]

Set(c, x, v) ==
    /\ Ready(c)
    /\ requests < MaxRequests
    /\ \/ /\ Push(x, v)
          /\ tx' = [tx EXCEPT ![c] =
                      [phase |-> "open", changed |-> Append(tx[c].changed, [node |-> x, val |-> v]),
                       prev |-> Append(tx[c].prev, Previous(x))]]
          /\ before' = Only(c, Start(c))
       \/ /\ CacheOnly(x, v)
          /\ tx' = [tx EXCEPT ![c] =
                      [phase |-> "open", changed |-> Append(tx[c].changed, [node |-> x, val |-> v]),
                       prev |-> tx[c].prev]]
          /\ before' = Only(c, None)
    /\ requests' = requests + 1
    /\ UNCHANGED <<binding, port, assoc>>

\* NDI refuses the attribute, or the request has one that cannot be set.
SetFails(c) ==
    /\ Ready(c)
    /\ tx' = [tx EXCEPT ![c] = [phase |-> "undo", changed |-> tx[c].changed,
                                prev |-> tx[c].prev]]
    /\ before' = [before EXCEPT ![c] = Start(c)]
    /\ UNCHANGED <<config, binding, port, assoc, requests>>

\* Mutant: the rollback of a priority group reads change_list as well.
UndoneFromChanges(t) ==
    LET i == Len(t.prev) IN
    IF t.changed[i].node = t.prev[i].node THEN {t.changed[i]} ELSE {}

\* What the rollback handlers set: that of priority groups reads prev, those of the
\* profiles read change_list at the same index, where they find no port id in an
\* object of another type.
Undone(t) ==
    LET i == Len(t.prev) IN
    IF t.prev[i].node \in PGs THEN {t.prev[i]}
    ELSE IF t.changed[i].node = t.prev[i].node THEN {t.changed[i]} ELSE {}

Undo(c) ==
    /\ Free
    /\ tx[c].phase = "undo" /\ tx[c].prev # <<>>
    /\ \/ \E s \in Undone(tx[c]) :
             /\ Push(s.node, s.val) \/ CacheOnly(s.node, s.val)
             /\ before' = Only(c, before[c])
       \/ /\ \A s \in Undone(tx[c]) : Refuses(s.node)
          /\ before' = Only(c, None)
          /\ UNCHANGED config
    /\ tx' = [tx EXCEPT ![c] = [phase |-> "undo", changed |-> tx[c].changed,
                                prev |-> SubSeq(tx[c].prev, 1, Len(tx[c].prev) - 1)]]
    /\ UNCHANGED <<binding, port, assoc, requests>>

\* The transaction ends, committed or undone.
End(c) ==
    /\ \/ tx[c].phase = "open"
       \/ tx[c].phase = "undo" /\ tx[c].prev = <<>>
    /\ tx' = [tx EXCEPT ![c] = NoTx]
    /\ before' = [before EXCEPT ![c] = None]
    /\ UNCHANGED <<config, binding, port, assoc, requests>>

----------------------------------------------------------------------------
(* nas-interface maps and unmaps the interface and publishes the event.     *)

Change(n) ==
    /\ (n = None) # (intf = None)
    /\ changes < MaxChanges
    /\ changes' = changes + 1
    /\ intf' = n
    /\ events' = Append(events, n)
    /\ before' = [c \in Clients |-> None]
    /\ UNCHANGED <<config, binding, assoc, requests, tx>>

----------------------------------------------------------------------------
(* nas_qos_if_set_notify on the event thread, under the switch mutex: each step      *)
(* binds or unbinds the nodes of a type, then replays their records.        *)

HandleEvent ==
    /\ Free /\ events # <<>>
    /\ events' = Tail(events)
    /\ assoc' = [at |-> Head(events), todo |-> Steps(Head(events)), replay |-> {}]
    /\ before' = [c \in Clients |-> None]
    /\ UNCHANGED <<config, binding, intf, changes, requests, tx>>

\* The step at hand is over but for the records of the nodes S.
AtStep(step) == assoc.replay = {} /\ assoc.todo # <<>> /\ Head(assoc.todo) = step
StepThenReplay(S) ==
    /\ assoc' = [at |-> assoc.at, todo |-> Tail(assoc.todo),
                 replay |-> {x \in S : db[x] # <<>>}]
    /\ UNCHANGED <<port, requests, tx, before>>

\* An attribute of the NPU port; one that cannot be read is left zero.
Readings(x) == {npu[assoc.at][x]} \cup (IF NdiMayFail THEN {Default} ELSE {})

\* nas_qos_port_*_fetch_from_hw: the nodes S take the attributes of the NPU port.
Fetch(S) ==
    \E r \in [S -> Vals \cup {Default}] :
       /\ \A x \in S : r[x] \in Readings(x)
       /\ val' = [x \in Nodes |-> IF x \in S THEN r[x] ELSE val[x]]
       /\ bound' = [x \in Nodes |-> IF x \in S THEN assoc.at ELSE bound[x]]
       /\ stale' = (stale \ S) \cup {x \in S : r[x] # npu[assoc.at][x]}
       /\ UNCHANGED <<db, npu>>

\* The nodes S are made anew, as on a virtual port.
InitVp(S) ==
    /\ val' = [x \in Nodes |-> IF x \in S THEN Default ELSE val[x]]
    /\ bound' = [x \in Nodes |-> IF x \in S THEN None ELSE bound[x]]
    /\ stale' = stale \ S
    /\ UNCHANGED <<db, npu>>

\* ndi2nas_priority_group_id: an object that no node is bound to has id 0.
PgIdsRead == {IF bound[p] = assoc.at THEN pgId[p] ELSE NullId : p \in PGs}
QueueIdsRead == IF queuesAt = assoc.at THEN QueueIds ELSE {NullId}

\* A list that cannot be read is empty.
IngressStep ==
    /\ AtStep("ingress")
    /\ \/ /\ assoc.at # None
          /\ Fetch({Ingress})
          /\ pgList' \in {PgIdsRead} \cup (IF NdiMayFail THEN {{}} ELSE {})
       \/ assoc.at = None /\ InitVp({Ingress}) /\ pgList' = PgIds
    /\ StepThenReplay({Ingress})
    /\ UNCHANGED <<pgId, queueList, queuesAt>>

\* The list of queues is not cleared before.
EgressStep ==
    /\ AtStep("egress")
    /\ \/ /\ assoc.at # None
          /\ Fetch({Egress})
          /\ \/ queueList' = queueList \cup QueueIdsRead
             \/ NdiMayFail /\ UNCHANGED queueList
       \/ assoc.at = None /\ InitVp({Egress}) /\ queueList' = QueueIds
    /\ StepThenReplay({Egress})
    /\ UNCHANGED <<pgId, pgList, queuesAt>>

\* nas_qos_port_queue_association; what it replays is in HqosTree.
QueueStep ==
    /\ AtStep("queue")
    /\ queuesAt' \in {assoc.at} \cup (IF NdiMayFail /\ assoc.at # None THEN {queuesAt} ELSE {})
    /\ StepThenReplay({})
    /\ UNCHANGED <<config, bound, pgId, pgList, queueList>>

\* NDI must report as many groups as there are, or the step is given up.  A removal
\* releases all ids before it allocates new ones.
PgStep ==
    /\ AtStep("pg")
    /\ \/ assoc.at # None /\ Fetch(PGs) /\ StepThenReplay(PGs) /\ UNCHANGED pgId
       \/ /\ assoc.at # None /\ NdiMayFail
          /\ StepThenReplay({})
          /\ UNCHANGED <<config, bound, pgId>>
       \/ /\ assoc.at = None
          /\ InitVp(PGs)
          /\ pgId' \in [PGs -> Ids] /\ \A p, q \in PGs : pgId'[p] = pgId'[q] => p = q
          /\ StepThenReplay(PGs)
    /\ UNCHANGED <<pgList, queueList, queuesAt>>

\* The SET handler with the recorded attribute; a failure is passed over.
Replay(x) ==
    /\ x \in assoc.replay
    /\ \/ Push(x, db[x][1])
       \/ CacheOnly(x, db[x][1])
       \/ Refuses(x) /\ stale' = stale \cup {x} /\ UNCHANGED <<val, db, npu>>
    /\ assoc' = [at |-> assoc.at, todo |-> assoc.todo, replay |-> assoc.replay \ {x}]
    /\ UNCHANGED <<binding, port, requests, tx, before>>

Next ==
    \/ \E c \in Clients :
          \/ \E x \in Nodes, v \in Vals \cup {Default} : Set(c, x, v)
          \/ SetFails(c) \/ Undo(c) \/ End(c)
    \/ \E n \in NpuPorts \cup {None} : Change(n)
    \/ HandleEvent
    \/ IngressStep \/ EgressStep \/ QueueStep \/ PgStep
    \/ \E x \in Nodes : Replay(x)

Spec == Init /\ [][Next]_vars

----------------------------------------------------------------------------
Saved == [node : Nodes, val : Vals \cup {Default}]

TypeOK ==
    /\ intf \in NpuPorts \cup {None}
    /\ requests \in Nat /\ changes \in Nat
    /\ events \in Seq(NpuPorts \cup {None})
    /\ val \in [Nodes -> Vals \cup {Default}]
    /\ bound \in [Nodes -> NpuPorts \cup {None}]
    /\ pgId \in [PGs -> Ids]
    /\ pgList \subseteq Ids \cup {NullId}
    /\ queueList \subseteq QueueIds \cup {NullId}
    /\ queuesAt \in NpuPorts \cup {None}
    /\ \A x \in Nodes : db[x] = <<>> \/ db[x] \in {<<v>> : v \in Vals \cup {Default}}
    /\ npu \in [NpuPorts -> [Nodes -> Vals \cup {Default}]]
    /\ assoc \in [at : NpuPorts \cup {None},
                  todo : Seq({"ingress", "egress", "queue", "pg"}), replay : SUBSET Nodes]
    /\ tx \in [Clients -> [phase : {"idle", "open", "undo"}, changed : Seq(Saved),
                           prev : Seq(Saved)]]
    /\ stale \subseteq Nodes

----------------------------------------------------------------------------
(* Properties *)

\* Between associations the cache has what the database records, through mappings,
\* virtual ports, failed requests and rollbacks; only a node whose replay NDI refused
\* may differ (nas_qos_port_*_association, "will load DB for VP config").
CacheFollowsDb ==
    Free => \A x \in Nodes \ stale : db[x] # <<>> => db[x] = <<val[x]>>

\* When all events are handled, a bound node is bound to the NPU port of its interface,
\* and that port has the attribute the cache shows, unless NDI failed meanwhile
\* (nas_is_virtual_port is asked at each SET, is_created_in_ndi is as old as the last event).
NpuFollowsCache ==
    Free /\ events = <<>> =>
       \A x \in Nodes : bound[x] # None =>
          bound[x] = intf /\ (x \in stale \/ npu[intf][x] = val[x])

\* Between associations the ingress profile lists no priority group that is gone, and on
\* a virtual port it lists all of them (the order of nas_qos_if_set_notify).
ListsLiveGroups ==
    Free => /\ pgList \subseteq PgIds \cup {NullId}
            /\ bound[Ingress] = None => pgList = PgIds

Restored(S) ==
    \A c \in Clients :
       Free /\ tx[c].phase = "undo" /\ tx[c].prev = <<>> /\ before[c] # None =>
          \A x \in S : val[x] = before[c][x]

\* When a failed transaction has been undone on a port that stayed mapped, with no other
\* client writing and NDI accepting the rollback, the priority groups are what they were
\* (nas_qos_cps_api_priority_group_rollback).
GroupsRestored == Restored(PGs)

\* The same of the port profiles (nas_qos_cps_api_port_ingress_rollback,
\* nas_qos_cps_api_port_egress_rollback): "save rollback info if caller requests it".
ProfilesRestored == Restored({Ingress, Egress})
=============================================================================
