------------------------------ MODULE HqosTree ------------------------------
(***************************************************************************)
(* The HQoS tree of one interface: its queues, the scheduler groups above   *)
(* them and the group at the root.  Each node caches its parent, the list   *)
(* of its children and the NPU object it stands for; CPS transactions move, *)
(* create and delete nodes, and the events of the interface unbind the      *)
(* nodes from one NPU port and bind them to another, replaying the parents  *)
(* recorded in the database.                                                *)
(*                                                                          *)
(* The handlers hold the switch mutex, so a request is one step; an         *)
(* association holds it for many.  Other attributes of a node, queue CREATE *)
(* and DELETE and the levels between root and groups are left out.          *)
(***************************************************************************)
EXTENDS Naturals, Sequences, FiniteSets

CONSTANTS
    N,           \* ucast_queues_per_port: queues, each below a group of its own
    S,           \* groups that CPS requests may create
    NpuPorts,    \* NPU ports the interface may be mapped to
    Clients,     \* processes that run CPS transactions
    None, Missing,
    NdiMayFail,  \* whether NDI may refuse a call for no reason
    MaxRequests, \* bound on the requests that succeed
    MaxChanges   \* bound on the changes of the interface

ASSUME Sizes == N \in Nat \ {0} /\ S \in Nat /\ MaxRequests \in Nat /\ MaxChanges \in Nat
ASSUME Switches == NdiMayFail \in BOOLEAN
ASSUME Nulls == None \notin NpuPorts /\ None # Missing

VARIABLES
    intf,     \* nas-interface: the NPU port of the interface, or None when virtual
    requests, \* number of requests that succeeded so far (bounded)
    changes,  \* number of changes of the interface so far (bounded)
    events,   \* association events the event thread has not handled
    tree,     \* the cached nodes
    db,       \* the parents recorded in the database: <<>> or <<parent>>
    npu,      \* the NPU: the parent of each of its objects, or Missing
    assoc,    \* the association in progress, which holds the switch mutex
    tx,       \* the transaction of each client: its phase and param->prev
    before,   \* auxiliary: for each transaction the tree when it began, or None
              \* when something it cannot undo happened since
    offline,  \* auxiliary: nodes that were set while they had no NPU object
    preset,   \* auxiliary: queues that still have the parent a virtual port gave them
              \* and that no SET has pushed since: that parent does not list them
    moved     \* auxiliary: the nodes were bound anew

cached == <<tree, db, npu, offline, preset>>
port == <<intf, changes, events, assoc, moved>>
vars == <<cached, port, requests, tx, before>>

Queues == {"queue"} \X (0..(N - 1))
AutoGroups == {"group"} \X (0..(N - 1))
Spares == {"group"} \X (N..(N + S - 1))
Root == <<"root", 0>>
Groups == AutoGroups \cup Spares
Nodes == Queues \cup Groups \cup {Root}

\* The nodes of the level above; NDI knows no other parents.
Above(x) == IF x \in Queues THEN Groups ELSE IF x \in Groups THEN {Root} ELSE {}
Below(y) == {x \in Nodes : y \in Above(x)}

\* The NPU object made for a node of a port; None is NDI_QOS_NULL_OBJECT_ID.
Objects == NpuPorts \X Nodes

\* A cached node, by its level.
Node(x) == [parent : Above(x) \cup {None}, children : SUBSET Below(x),
            ndi : Objects \cup {None}]
ASSUME NoneIsNew == None \notin Nodes \cup Objects /\ \A x \in Nodes : None \notin Node(x)
ASSUME MissingIsNew == Missing \notin Objects

NoAssoc == [npu |-> None, queues |-> {}, groups |-> {}]
Idle == [phase |-> "idle", prev |-> <<>>]

Exists(x) == tree[x] # None
Bound(x) == Exists(x) /\ tree[x].ndi # None

\* nas2ndi_scheduler_group_id: what NDI is told for a parent.
NdiOf(y) == IF y = None THEN None ELSE tree[y].ndi

----------------------------------------------------------------------------
(* The trees that nas_qos_port_hqos_init builds.                            *)

DefaultParent(x) ==
    IF x \in Queues THEN <<"group", x[2]>> ELSE IF x \in AutoGroups THEN Root ELSE None

\* A physical port: what NDI reports, linked both ways.
PhysicalTree(n) ==
    [x \in Nodes |->
       IF x \in Spares THEN None
       ELSE [parent |-> DefaultParent(x),
             children |-> {c \in Nodes \ Spares : DefaultParent(c) = x},
             ndi |-> <<n, x>>]]

\* A virtual port: queues and the groups above them, linked one way.  The parent of
\* each queue is preset to the group of its number; the groups list no children, and
\* there is no root.
VirtualTree ==
    [x \in Nodes |->
       IF x \in Spares \cup {Root} THEN None
       ELSE [parent |-> IF x \in Queues THEN DefaultParent(x) ELSE None,
             children |-> {}, ndi |-> None]]

\* Each NPU port starts with the same tree of objects.
DefaultNpu ==
    [o \in Objects |->
       IF o[2] \in Spares THEN Missing
       ELSE IF o[2] = Root THEN None ELSE <<o[1], DefaultParent(o[2])>>]

Init ==
    /\ intf \in NpuPorts \cup {None}
    /\ tree = IF intf = None THEN VirtualTree ELSE PhysicalTree(intf)
    /\ npu = DefaultNpu
    /\ db = [x \in Nodes |-> <<>>]
    /\ requests = 0
    /\ changes = 0
    /\ events = <<>>
    /\ assoc = NoAssoc
    /\ tx = [c \in Clients |-> Idle]
    /\ before = [c \in Clients |-> None]
    /\ offline = {}
    /\ preset = IF intf = None THEN Queues ELSE {}
    /\ moved = FALSE

----------------------------------------------------------------------------
(* The operations, without the bookkeeping of the transaction.              *)

\* nas_qos_notify_parent_child_change: a parent that is not cached is passed over.
Leave(t, x, y) ==
    IF y = None \/ t[y] = None THEN t
    ELSE [t EXCEPT ![y] = [parent |-> t[y].parent, children |-> t[y].children \ {x},
                           ndi |-> t[y].ndi]]

\* Mutant: the two ids are swapped.
JoinSwapped(t, x, y) ==
    IF y = None \/ t[y] = None THEN t
    ELSE [t EXCEPT ![x] = [parent |-> t[x].parent, children |-> t[x].children \cup {y},
                           ndi |-> t[x].ndi]]

Join(t, x, y) ==
    IF y = None \/ t[y] = None THEN t
    ELSE [t EXCEPT ![y] = [parent |-> t[y].parent, children |-> t[y].children \cup {x},
                           ndi |-> t[y].ndi]]

\* The full copy of the node with its new parent.
Reparent(t, x, y) ==
    [t EXCEPT ![x] = [parent |-> y, children |-> t[x].children, ndi |-> t[x].ndi]]

\* NDI takes a parent on the port of the object (external).
NdiTakes(o, p) == p # None => p[1] = o[1] /\ npu[p] # Missing

\* The parent y is cached, and NDI takes its object for o.
Accepts(o, y) == (y # None => Exists(y)) /\ NdiTakes(o, NdiOf(y))

Refused == NdiMayFail /\ UNCHANGED cached

\* A node of a physical port that has its NPU object.
Live(x) == intf # None /\ Bound(x)

\* A group that a request created keeps MAX_CHILD marked, and no SET may carry it.
Settable(x) == Exists(x) /\ ~(x \in Spares /\ Bound(x))

\* Mutant: the old parent is not notified.
MoveKeepingOld(x, y) ==
    /\ Accepts(tree[x].ndi, y)
    /\ npu' = [npu EXCEPT ![tree[x].ndi] = NdiOf(y)]
    /\ tree' = Reparent(Join(tree, x, y), x, y)
    /\ db' = [db EXCEPT ![x] = <<y>>]
    /\ preset' = preset \ {x}
    /\ UNCHANGED offline

\* Mutant: the parent is cached and not pushed.
MoveCached(x, y) ==
    /\ y # None => Exists(y)
    /\ tree' = Reparent(Join(Leave(tree, x, tree[x].parent), x, y), x, y)
    /\ db' = [db EXCEPT ![x] = <<y>>]
    /\ preset' = preset \ {x}
    /\ UNCHANGED <<npu, offline>>

\* commit_modify pushes the parent, then both parents are notified; one that does not
\* list the node has nothing to take out.
Move(x, y) ==
    /\ Accepts(tree[x].ndi, y)
    /\ npu' = [npu EXCEPT ![tree[x].ndi] = NdiOf(y)]
    /\ tree' = Reparent(Join(Leave(tree, x, tree[x].parent), x, y), x, y)
    /\ db' = [db EXCEPT ![x] = <<y>>]
    /\ preset' = preset \ {x}
    /\ UNCHANGED offline

\* Without an NPU object only the node and the database change: no list of children
\* does, and nothing is saved for a rollback.
MoveOffline(x, y) ==
    /\ tree' = Reparent(tree, x, y)
    /\ db' = [db EXCEPT ![x] = <<y>>]
    /\ offline' = offline \cup {x}
    /\ UNCHANGED <<npu, preset>>

\* commit_modify throws: the parent is not cached or NDI refuses it.
MoveFails(x, y) ==
    /\ NdiMayFail \/ ~Accepts(tree[x].ndi, y)
    /\ UNCHANGED cached

\* The object is new, so is its id.
Creatable(s, y) ==
    /\ ~Exists(s) /\ intf # None
    /\ npu[<<intf, s>>] = Missing
    /\ Accepts(<<intf, s>>, y)

Add(s, y) ==
    /\ npu' = [npu EXCEPT ![<<intf, s>>] = NdiOf(y)]
    /\ tree' = Join([tree EXCEPT ![s] = [parent |-> y, children |-> {},
                                         ndi |-> <<intf, s>>]], s, y)
    /\ UNCHANGED <<db, offline, preset>>

\* A group may go when its list of children is empty and NDI does not use it; the
\* database keeps its record.
Removable(x) ==
    /\ Exists(x) /\ tree[x].children = {}
    /\ Bound(x) => \A o \in Objects : npu[o] # tree[x].ndi

Remove(x) ==
    /\ npu' = IF Bound(x) THEN [npu EXCEPT ![tree[x].ndi] = Missing] ELSE npu
    /\ tree' = Leave([tree EXCEPT ![x] = None], x, tree[x].parent)
    /\ UNCHANGED <<db, offline, preset>>

----------------------------------------------------------------------------
(* nas_qos_cps_api_queue_write, nas_qos_cps_api_scheduler_group_write       *)

Shape ==
    [x \in Nodes |-> IF tree[x] = None THEN None
                     ELSE [parent |-> tree[x].parent, children |-> tree[x].children]]

Start(c) == IF tx[c].phase = "idle" THEN Shape ELSE before[c]

\* The mutex is free and the transaction goes on.
Ready(c) == assoc = NoAssoc /\ tx[c].phase \in {"idle", "open"}

\* No node stands for the object that s will get, and s was never set without one.  An
\* association may have bound another group to the object of a group that has gone.
Unused(s) ==
    s \notin offline /\ \A x \in Nodes : Exists(x) => tree[x].ndi # <<intf, s>>

\* Nobody else can hope to restore the tree, and c only what it saves.
Only(c, start) == [d \in Clients |-> IF d = c THEN start ELSE None]

Done(c, saved) ==
    /\ requests < MaxRequests
    /\ requests' = requests + 1
    /\ tx' = [tx EXCEPT ![c] = [phase |-> "open", prev |-> tx[c].prev \o saved]]
    /\ UNCHANGED port

Failed(c) ==
    /\ tx' = [tx EXCEPT ![c] = [phase |-> "undo", prev |-> tx[c].prev]]
    /\ before' = [before EXCEPT ![c] = Start(c)]
    /\ UNCHANGED <<port, requests>>

\* nas_qos_store_prev_attr: of a node that is set or deleted, its parent before.
Previous(op, x, y) == [op |-> op, node |-> x, parent |-> y]

SetParent(c, x, y) ==
    /\ Ready(c)
    /\ \/ /\ Settable(x) /\ Live(x)
          /\ Move(x, y)
          /\ Done(c, <<Previous("set", x, tree[x].parent)>>)
          /\ before' = Only(c, IF x \in offline \cup preset THEN None ELSE Start(c))
       \/ /\ Settable(x) /\ ~Live(x)
          /\ MoveOffline(x, y)
          /\ Done(c, <<>>) /\ before' = Only(c, None)
       \/ Settable(x) /\ Live(x) /\ MoveFails(x, y) /\ Failed(c)
       \/ ~Settable(x) /\ UNCHANGED cached /\ Failed(c)

Create(c, s, y) ==
    /\ Ready(c)
    /\ \/ /\ Creatable(s, y)
          /\ Add(s, y)
          /\ Done(c, <<Previous("create", s, y)>>)
          /\ before' = Only(c, IF Unused(s) THEN Start(c) ELSE None)
       \/ Creatable(s, y) /\ Refused /\ Failed(c)
       \/ ~Exists(s) /\ ~Creatable(s, y) /\ UNCHANGED cached /\ Failed(c)

\* What is saved of a deleted group lacks its level: it cannot be created again.
Delete(c, x) ==
    /\ Ready(c)
    /\ \/ /\ Removable(x)
          /\ Remove(x)
          /\ Done(c, <<Previous("delete", x, tree[x].parent)>>)
          /\ before' = Only(c, None)
       \/ Removable(x) /\ Refused /\ Failed(c)
       \/ ~Removable(x) /\ UNCHANGED cached /\ Failed(c)

----------------------------------------------------------------------------
(* nas_qos_cps_api_*_rollback: the last saved object first.                 *)

\* Mutant: the rollback handler has no case for SET.
UndoSetNothing(s) == s.op = "set" /\ UNCHANGED cached

UndoSet(s) ==
    /\ s.op = "set"
    /\ \/ Settable(s.node) /\ Live(s.node) /\ Move(s.node, s.parent)
       \/ Settable(s.node) /\ ~Live(s.node) /\ MoveOffline(s.node, s.parent)
       \/ ~Settable(s.node) /\ UNCHANGED cached

UndoCreate(s) ==
    /\ s.op = "create"
    /\ \/ Removable(s.node) /\ Remove(s.node)
       \/ ~Removable(s.node) /\ UNCHANGED cached

UndoFails(s) ==
    \/ s.op = "delete" /\ UNCHANGED cached
    \/ s.op = "create" /\ Refused
    \/ s.op = "set" /\ Live(s.node) /\ MoveFails(s.node, s.parent)

Undo(c) ==
    /\ assoc = NoAssoc
    /\ tx[c].phase = "undo" /\ tx[c].prev # <<>>
    /\ LET p == tx[c].prev
           s == p[Len(p)]
       IN /\ \/ (UndoSet(s) \/ UndoCreate(s)) /\ before' = Only(c, before[c])
             \/ UndoFails(s) /\ before' = Only(c, None)
          /\ tx' = [tx EXCEPT ![c] = [phase |-> "undo",
                                      prev |-> SubSeq(p, 1, Len(p) - 1)]]
    /\ UNCHANGED <<port, requests>>

\* The transaction ends, committed or undone.
End(c) ==
    /\ \/ tx[c].phase = "open"
       \/ tx[c].phase = "undo" /\ tx[c].prev = <<>>
    /\ tx' = [tx EXCEPT ![c] = Idle]
    /\ before' = [before EXCEPT ![c] = None]
    /\ UNCHANGED <<cached, port, requests>>

----------------------------------------------------------------------------
(* nas-interface maps and unmaps the interface and publishes the event.     *)

Change(v, e) ==
    /\ changes < MaxChanges
    /\ changes' = changes + 1
    /\ intf' = v
    /\ events' = Append(events, e)
    /\ before' = [c \in Clients |-> None]
    /\ UNCHANGED <<cached, assoc, moved, requests, tx>>

IfMap(n) == intf = None /\ Change(n, [op |-> "add", npu |-> n])
IfUnmap == intf # None /\ Change(None, [op |-> "remove", npu |-> intf])

----------------------------------------------------------------------------
(* nas_qos_port_queue_association, nas_qos_port_scheduler_group_association *)

Bind(x, o) ==
    [parent |-> tree[x].parent, children |-> tree[x].children, ndi |-> o]

\* Queues and the groups above them lose their NPU objects; the root keeps its own.
Disassociate ==
    /\ assoc = NoAssoc
    /\ events # <<>> /\ Head(events).op = "remove"
    /\ events' = Tail(events)
    /\ tree' = [x \in Nodes |-> IF x \in Queues \cup Groups /\ Exists(x)
                                THEN Bind(x, None) ELSE tree[x]]
    /\ before' = [c \in Clients |-> None]
    /\ UNCHANGED <<db, npu, offline, preset, intf, changes, assoc, moved, requests, tx>>

\* First all queues are bound; what the database has for them is replayed next.
Associate ==
    /\ assoc = NoAssoc
    /\ events # <<>> /\ Head(events).op = "add"
    /\ events' = Tail(events)
    /\ LET n == Head(events).npu IN
         /\ tree' = [x \in Nodes |-> IF x \in Queues THEN Bind(x, <<n, x>>) ELSE tree[x]]
         /\ assoc' = [npu |-> n,
                      queues |-> {x \in Queues : db[x] # <<>>},
                      groups |-> {g \in Groups : npu[<<n, g>>] # Missing}]
    /\ before' = [c \in Clients |-> None]
    /\ moved' = TRUE
    /\ UNCHANGED <<db, npu, offline, preset, intf, changes, requests, tx>>

\* The SET handler with the recorded parent; a failure is passed over.
Replay(x, y) ==
    \/ Live(x) /\ Move(x, y)
    \/ ~Live(x) /\ MoveOffline(x, y)
    \/ Live(x) /\ MoveFails(x, y)

ReplayQueue(x) ==
    /\ x \in assoc.queues
    /\ Replay(x, db[x][1])
    /\ assoc' = [npu |-> assoc.npu, queues |-> assoc.queues \ {x}, groups |-> assoc.groups]
    /\ UNCHANGED <<intf, changes, events, moved, requests, tx, before>>

\* get_lowest_child_index: the queues of a group of the NPU, by what they are bound to.
QueuesBelow(o) == {x \in Queues : Bound(x) /\ npu[tree[x].ndi] = o}

\* The group that is recognised by the lowest queue below the NPU's group.
Recognised(o) ==
    {g \in AutoGroups : /\ Exists(g)
                        /\ <<"queue", g[2]>> \in QueuesBelow(o)
                        /\ \A x \in QueuesBelow(o) : g[2] <= x[2]}

\* The groups follow the queues; each is bound before its record is replayed, in the
\* same step when it has none.
BindGroup(o) ==
    /\ assoc.queues = {} /\ o \in assoc.groups
    /\ LET object == <<assoc.npu, o>> IN
       \/ /\ \E g \in Recognised(object) :
               /\ tree' = [tree EXCEPT ![g] = Bind(g, object)]
               /\ assoc' = [npu |-> assoc.npu,
                            queues |-> IF db[g] = <<>> THEN {} ELSE {g},
                            groups |-> assoc.groups \ {o}]
       \/ /\ Recognised(object) = {}
          /\ assoc' = [npu |-> assoc.npu, queues |-> {}, groups |-> assoc.groups \ {o}]
          /\ UNCHANGED tree
    /\ UNCHANGED <<db, npu, offline, preset>>
    /\ UNCHANGED <<intf, changes, events, moved, requests, tx, before>>

\* Port ingress, egress and priority groups are no part of the tree.
Finish ==
    /\ assoc # NoAssoc /\ assoc.queues = {} /\ assoc.groups = {}
    /\ assoc' = NoAssoc
    /\ UNCHANGED <<cached, intf, changes, events, moved, requests, tx, before>>

Request(c) ==
    \/ \E x \in Nodes \ {Root} : \E y \in Above(x) \cup {None} : SetParent(c, x, y)
    \/ \E s \in Spares, y \in {Root, None} : Create(c, s, y)
    \/ \E x \in Groups \cup {Root} : Delete(c, x)

Event ==
    \/ Disassociate \/ Associate \/ Finish
    \/ \E x \in Nodes : ReplayQueue(x)
    \/ \E g \in Groups : BindGroup(g)

Next ==
    \/ \E c \in Clients : Request(c) \/ Undo(c) \/ End(c)
    \/ \E n \in NpuPorts : IfMap(n)
    \/ IfUnmap \/ Event

Spec == Init /\ [][Next]_vars
----------------------------------------------------------------------------
\* A saved object: what an undo needs of the node.
Step == [op : {"set", "create", "delete"}, node : Nodes, parent : Nodes \cup {None}]

TypeOK ==
    /\ intf \in NpuPorts \cup {None}
    /\ requests \in Nat /\ changes \in Nat
    /\ events \in Seq([op : {"add", "remove"}, npu : NpuPorts])
    /\ \A x \in Nodes : tree[x] \in Node(x) \cup {None}
    /\ \A x \in Nodes : db[x] = <<>> \/ db[x][1] \in Above(x) \cup {None}
    /\ npu \in [Objects -> Objects \cup {None, Missing}]
    /\ assoc \in [npu : NpuPorts \cup {None}, queues : SUBSET Nodes, groups : SUBSET Groups]
    /\ tx \in [Clients -> [phase : {"idle", "open", "undo"}, prev : Seq(Step)]]
    /\ offline \subseteq Nodes /\ preset \subseteq Queues
    /\ moved \in BOOLEAN

----------------------------------------------------------------------------
(* Properties *)

\* Parents and lists of children say the same, whatever transactions, rollbacks and
\* associations interleave, of every node that was never set while it had no NPU
\* object: its parent is cached and lists it, and no other node does.  A queue whose
\* parent a virtual port preset is in no list until a SET reaches the NPU
\* (nas_qos_port_queue_init_vp, nas_qos_notify_parent_child_change,
\* nas_qos_cps_api_scheduler_group_delete).
ListsAgree ==
    \A x \in Nodes \ offline :
       /\ Exists(x) /\ x \notin preset /\ tree[x].parent # None =>
             Exists(tree[x].parent) /\ x \in tree[tree[x].parent].children
       /\ \A y \in Nodes : Exists(y) /\ x \in tree[y].children =>
             Exists(x) /\ x \notin preset /\ tree[x].parent = y

\* Until the interface moves, the NPU has every node below the object of its cached
\* parent, also after requests that fail and rollbacks.
NpuFollowsCache ==
    ~moved => \A x \in Nodes \ offline :
                 Bound(x) => npu[tree[x].ndi] = NdiOf(tree[x].parent)

\* The transaction of c has been undone; it deleted nothing, set no node without an NPU
\* object nor one that its parent did not list, and created no group whose object
\* another node stands for; no other client and no event came between, and NDI refused
\* no step.
Undone(c) == tx[c].phase = "undo" /\ tx[c].prev = <<>> /\ before[c] # None

\* A transaction that fails half way leaves the tree as it was: the same nodes with
\* the same parents and the same lists of children, however often it moved them
\* (nas_qos_cps_api_queue_rollback, nas_qos_cps_api_scheduler_group_rollback).
RollbackRestores == \A c \in Clients : Undone(c) => before[c] = Shape

\* "This function handles the ifindex to NPU-Port association, pushing the saved DB
\* configuration to npu." (nas_qos_port_queue_association): when an association is
\* over, each queue is below the NPU object of the parent that the database has.
Settled == assoc = NoAssoc /\ events = <<>> /\ intf # None

ReplayRestores ==
    Settled => \A x \in Queues : db[x] # <<>> /\ (db[x][1] # None => Exists(db[x][1])) =>
                  Bound(x) /\ npu[tree[x].ndi] = NdiOf(db[x][1])
                           /\ (db[x][1] # None => npu[tree[x].ndi] # None)

=============================================================================
