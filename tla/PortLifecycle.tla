--------------------------- MODULE PortLifecycle ---------------------------
(***************************************************************************)
(* How the QoS cache of one switch follows the interfaces of nas-interface: *)
(* the per-port nodes (queues, scheduler groups, priority groups, ingress   *)
(* and egress profiles) are created, bound to an NPU port, unbound and      *)
(* removed by three kinds of threads:                                       *)
(*   - the event thread, which handles the interface events in order        *)
(*     (nas_qos_if_set_handler);                                            *)
(*   - the thread of nas_qos_init, which scans the interfaces that existed  *)
(*     before the event subscription;                                       *)
(*   - the CPS operation threads, which initialise a port on demand when a  *)
(*     request names a port that is not initialised yet.                    *)
(* The switch mutex serialises the bodies of the handlers, but each         *)
(* initialisation looks the interface up BEFORE it takes the mutex, and     *)
(* nas-interface, another process, may change the interface at any time.    *)
(*                                                                          *)
(* A node is abstracted to what it is bound to: an NPU port, nothing        *)
(* (Virtual: the node of a port that has no NPU port), or Broken (the node  *)
(* exists and is incomplete or bound to no real port).  Absent: no node.    *)
(***************************************************************************)
EXTENDS Naturals, Sequences, FiniteSets

CONSTANTS
    Ports,        \* interface indices
    NpuPorts,     \* NPU ports an interface may be mapped to
    CpuPorts,     \* the interfaces of type CPU
    FcPorts,      \* the interfaces of type fibre channel; the rest is Ethernet
    CpsThreads,   \* threads that serve CPS requests
    EventThread,  \* the thread of cps_api_event_thread_reg
    ScanThread,   \* the thread that runs nas_qos_init
    Absent, Virtual, Broken, None,
    NdiMayFail,   \* whether calls into NDI may fail or return short lists
    MaxChanges    \* bound on the number of interface changes

Threads == CpsThreads \cup {EventThread, ScanThread}

ASSUME PortTypes == CpuPorts \subseteq Ports /\ FcPorts \subseteq Ports
ASSUME ThreadNames ==
    /\ EventThread # ScanThread
    /\ EventThread \notin CpsThreads /\ ScanThread \notin CpsThreads
ASSUME NullValues ==
    /\ Absent \notin NpuPorts /\ Virtual \notin NpuPorts /\ Broken \notin NpuPorts
    /\ Absent # Virtual /\ Absent # Broken /\ Virtual # Broken
    /\ None \notin Threads
ASSUME Bounds == NdiMayFail \in BOOLEAN /\ MaxChanges \in Nat

VARIABLES
    intf,         \* nas-interface: what each interface is mapped to, or Absent
    changes,      \* number of interface changes so far (bounded)
    events,       \* published interface events the event thread has not handled
    queue,        \* the QoS cache: the queues of each port,
    group,        \* its scheduler groups of the level above the queues,
    upper,        \* its scheduler groups of the upper levels,
    pg,           \* its priority groups,
    ingress,      \* its port-ingress node
    egress,       \* and its port-egress node
    initialized,  \* nas_qos_switch::initialized_port_list
    mtx,          \* the thread that holds nas_qos_switch::mtx, or None
    job,          \* what each thread is doing
    scanPass,     \* 0: not subscribed, 1: subscribed, 2: CPU scan, 3: Ethernet scan
    scanTodo,     \* interfaces of the current scan that are still to be handled
    alive,        \* FALSE: the process crashed
    raced         \* auxiliary: ports with a change that escaped, see Disturbs

external == <<intf, changes>>
groups == <<group, upper>>
nodes == <<queue, groups, pg, ingress, egress>>
boot == <<scanPass, scanTodo>>
vars == <<external, events, nodes, initialized, mtx, job, boot, alive, raced>>

Mapping == {Virtual} \cup NpuPorts
Binding == Mapping \cup {Absent, Broken}
NoNode == [p \in Ports |-> Absent]

Event == [op : {"create", "delete", "add", "remove"}, port : Ports,
          npu : Mapping]

\* Steps of nas_qos_if_create_notify after its look-up of the interface.
InitSteps == {"queue", "group", "pg", "ingress", "egress", "mark"}
\* Steps of nas_qos_if_set_notify.
SetSteps == {"addIngress", "addEgress", "addQueue", "addGroup", "addPg",
             "rmPg", "rmQueue", "rmEgress"}
Locked == InitSteps \cup SetSteps \cup {"unlock"}

Idle == [pc |-> "idle", port |-> None, saw |-> Absent, npu |-> Absent,
         ret |-> "idle"]
Job == [pc : {"idle", "looked"} \cup Locked, port : Ports \cup {None},
        saw : {Absent} \cup Mapping, npu : {Absent} \cup Mapping,
        ret : {"idle", "unlock"} \cup SetSteps]

\* The same job at another step.
At(j, step) == [pc |-> step, port |-> j.port, saw |-> j.saw, npu |-> j.npu,
                ret |-> j.ret]

----------------------------------------------------------------------------
(* State formulae *)

Type(p) == IF p \in CpuPorts THEN "cpu" ELSE IF p \in FcPorts THEN "fc" ELSE "eth"

\* nas_is_virtual_port, read when it is called; external, and free to answer
\* anything for an interface that does not exist.
MayBeVirtual(p) == intf[p] \in {Absent, Virtual}
MayBePhysical(p) == intf[p] # Virtual

Initialising(t, p) == job[t].port = p /\ job[t].pc \in InitSteps \cup {"looked"}

\* A change of p now escapes the threads that keep the cache: one of them is past
\* its look-up of p, or p is initialised already and nobody subscribed to events.
Disturbs(p) ==
    \/ \E t \in Threads : Initialising(t, p)
    \/ scanPass = 0 /\ p \in initialized

ScanDone == scanPass = 3 /\ scanTodo = {} /\ job[ScanThread] = Idle
Quiescent == alive /\ ScanDone /\ events = <<>> /\ \A t \in Threads : job[t] = Idle

\* What a fully built collection of NDI objects on npu looks like in the cache
\* when each NDI call may fail.
Built(npu) == IF NdiMayFail THEN {npu, Broken, Absent} ELSE {npu}

\* NDI finds nothing on a port that is no NPU port.
Fetched(npu) == IF npu \in NpuPorts THEN Built(npu) ELSE {Absent}

\* A node updated from NDI by an association: a collection that is missing or
\* whose size differs from NDI's is left as it is.
Rebound(old, npu) ==
    IF old \in {Absent, Broken} THEN {old}
    ELSE IF NdiMayFail THEN {npu, old} ELSE {npu}

\* Mutant: the node keeps its NDI ids.
StillBound(old) == old

Unbound(old) == IF old \in {Absent, Broken} THEN old ELSE Virtual

----------------------------------------------------------------------------
Init ==
    /\ intf \in [Ports -> {Absent} \cup Mapping]
    /\ \A p, q \in Ports : p # q /\ intf[p] = intf[q] => intf[p] \notin NpuPorts
    /\ changes = 0
    /\ events = <<>>
    /\ queue = NoNode /\ group = NoNode /\ upper = NoNode
    /\ pg = NoNode /\ ingress = NoNode /\ egress = NoNode
    /\ initialized = {}
    /\ mtx = None
    /\ job = [t \in Threads |-> Idle]
    /\ scanPass = 0
    /\ scanTodo = {}
    /\ alive = TRUE
    /\ raced = {}

----------------------------------------------------------------------------
(* nas-interface (another process): it changes an interface and publishes   *)
(* the event, which is lost when nobody subscribed.                         *)

Change(p, v, e) ==
    /\ changes < MaxChanges
    /\ changes' = changes + 1
    /\ intf' = [intf EXCEPT ![p] = v]
    /\ events' = IF scanPass > 0 THEN Append(events, e) ELSE events
    /\ raced' = IF Disturbs(p) THEN raced \cup {p} ELSE raced
    /\ UNCHANGED <<nodes, initialized, mtx, job, boot, alive>>

Free(v) == v \in NpuPorts => \A q \in Ports : intf[q] # v

IfCreate(p, v) ==
    /\ intf[p] = Absent /\ v \in Mapping /\ Free(v)
    /\ Change(p, v, [op |-> "create", port |-> p, npu |-> v])

IfDelete(p) ==
    /\ intf[p] # Absent
    /\ Change(p, Absent, [op |-> "delete", port |-> p, npu |-> intf[p]])

IfMap(p, v) ==
    /\ intf[p] = Virtual /\ v \in NpuPorts /\ Free(v)
    /\ Change(p, v, [op |-> "add", port |-> p, npu |-> v])

IfUnmap(p) ==
    /\ intf[p] \in NpuPorts
    /\ Change(p, Virtual, [op |-> "remove", port |-> p, npu |-> intf[p]])

----------------------------------------------------------------------------
(* nas_qos_if_create_notify: the look-up, outside the mutex.                *)

\* The caller found the interface and now waits for the mutex.
LookedUp(t, p) ==
    job' = [job EXCEPT ![t] = [pc |-> "looked", port |-> p, saw |-> intf[p],
                               npu |-> Absent, ret |-> "idle"]]

EventCreate ==
    /\ alive /\ job[EventThread] = Idle
    /\ events # <<>> /\ Head(events).op = "create"
    /\ events' = Tail(events)
    /\ LET p == Head(events).port IN
         IF intf[p] = Absent THEN UNCHANGED job ELSE LookedUp(EventThread, p)
    /\ UNCHANGED <<external, nodes, initialized, mtx, boot, alive, raced>>

\* A CPS request names a port that is not initialised; the check and the
\* look-up take no lock.
OnDemand(t, p) ==
    /\ alive /\ job[t] = Idle
    /\ p \notin initialized
    /\ intf[p] # Absent
    /\ LookedUp(t, p)
    /\ UNCHANGED <<external, events, nodes, initialized, mtx, boot, alive, raced>>

Subscribe ==
    /\ alive /\ scanPass = 0
    /\ scanPass' = 1
    /\ UNCHANGED <<external, events, nodes, initialized, mtx, job, scanTodo, alive, raced>>

\* Mutant: another pass after the last one.
ScanSnapshotAgain ==
    /\ alive /\ scanPass # 0 /\ scanTodo = {} /\ job[ScanThread] = Idle
    /\ scanPass' = scanPass + 1
    /\ UNCHANGED <<external, events, nodes, initialized, mtx, job, scanTodo, alive, raced>>

\* First CPU ports, then front panel ports: one CPS get for each type.
ScanSnapshot ==
    /\ alive /\ scanPass \in {1, 2} /\ scanTodo = {} /\ job[ScanThread] = Idle
    /\ scanPass' = scanPass + 1
    /\ scanTodo' = {p \in Ports : /\ intf[p] # Absent
                                  /\ Type(p) = IF scanPass = 1 THEN "cpu" ELSE "eth"}
    /\ UNCHANGED <<external, events, nodes, initialized, mtx, job, alive, raced>>

ScanPort(p) ==
    /\ alive /\ job[ScanThread] = Idle /\ p \in scanTodo
    /\ scanTodo' = scanTodo \ {p}
    /\ IF intf[p] = Absent THEN UNCHANGED job ELSE LookedUp(ScanThread, p)
    /\ UNCHANGED <<external, events, nodes, initialized, mtx, scanPass, alive, raced>>

----------------------------------------------------------------------------
(* nas_qos_if_create_notify under the mutex.  Each node type reads whether  *)
(* the port is virtual again, and uses the NPU port the look-up returned.   *)

Running(t, step) == alive /\ job[t].pc = step
Goto(t, step) == job' = [job EXCEPT ![t] = At(job[t], step)]

\* Mutant: the mutex is kept.
LeaveLocked(t) == job' = [job EXCEPT ![t] = Idle] /\ UNCHANGED mtx

\* The end of a handler releases the mutex.
Leave(t) == job' = [job EXCEPT ![t] = Idle] /\ mtx' = None

\* Mutant: the mutex is not taken into account.
LockAnyway(t) ==
    /\ alive /\ job[t].pc = "looked"
    /\ mtx' = t
    /\ Goto(t, "queue")
    /\ UNCHANGED <<external, events, nodes, initialized, boot, alive, raced>>

Lock(t) ==
    /\ alive /\ job[t].pc = "looked" /\ mtx = None
    /\ mtx' = t
    /\ Goto(t, "queue")
    /\ UNCHANGED <<external, events, nodes, initialized, boot, alive, raced>>

\* The rest of a step that changes nodes.
Elsewhere == UNCHANGED <<external, events, initialized, mtx, boot, alive, raced>>

\* What the initialisation of a collection may yield: the nodes of a virtual port,
\* or those that NDI lists.
Collection(t) ==
    {v \in {Virtual} : MayBeVirtual(job[t].port)}
      \cup {v \in Fetched(job[t].saw) : MayBePhysical(job[t].port)}

GroupsExist(p) == group[p] # Absent \/ upper[p] # Absent

\* First half of nas_qos_port_hqos_init: nothing when queues or scheduler
\* groups exist, else the queues; a failure skips the scheduler groups.
InitQueues(t) ==
    /\ Running(t, "queue")
    /\ LET p == job[t].port IN
         \/ /\ queue[p] # Absent \/ GroupsExist(p)
            /\ Goto(t, "pg")
            /\ UNCHANGED queue
         \/ /\ queue[p] = Absent /\ ~GroupsExist(p)
            /\ \E q \in Collection(t) :
                 /\ queue' = [queue EXCEPT ![p] = q]
                 /\ \/ Goto(t, "group")
                    \/ q \in {Absent, Broken} /\ NdiMayFail /\ Goto(t, "pg")
    /\ UNCHANGED <<groups, pg, ingress, egress>> /\ Elsewhere

\* Second half: the scheduler groups of the level above the queues and, for a
\* physical port, those of the upper levels.
InitGroups(t) ==
    /\ Running(t, "group")
    /\ LET p == job[t].port IN
       \/ /\ MayBeVirtual(p)
          /\ group' = [group EXCEPT ![p] = Virtual]
          /\ UNCHANGED upper
       \/ /\ MayBePhysical(p)
          /\ \E g, u \in Fetched(job[t].saw) :
               /\ group' = [group EXCEPT ![p] = g]
               /\ upper' = [upper EXCEPT ![p] = u]
    /\ Goto(t, "pg")
    /\ UNCHANGED <<queue, pg, ingress, egress>> /\ Elsewhere

InitPriorityGroups(t) ==
    /\ Running(t, "pg")
    /\ LET p == job[t].port IN
       \/ pg[p] # Absent /\ UNCHANGED pg
       \/ /\ pg[p] = Absent
          /\ \E g \in Collection(t) : pg' = [pg EXCEPT ![p] = g]
    /\ Goto(t, "ingress")
    /\ UNCHANGED <<queue, groups, ingress, egress>> /\ Elsewhere

\* The profile nodes ignore NDI errors: they are always created.
Profile(t) ==
    {v \in {Virtual} : MayBeVirtual(job[t].port)}
      \cup {v \in NpuPorts \cup {Broken} :
              /\ MayBePhysical(job[t].port)
              /\ v = IF job[t].saw \in NpuPorts THEN job[t].saw ELSE Broken}

\* Mutant: an ingress node that exists is built anew.
InitIngressAnew(t) ==
    /\ Running(t, "ingress")
    /\ \E v \in Profile(t) : ingress' = [ingress EXCEPT ![job[t].port] = v]
    /\ Goto(t, "egress")
    /\ UNCHANGED <<queue, groups, pg, egress>> /\ Elsewhere

InitIngress(t) ==
    /\ Running(t, "ingress")
    /\ LET p == job[t].port IN
       \/ ingress[p] # Absent /\ UNCHANGED ingress
       \/ /\ ingress[p] = Absent
          /\ \E v \in Profile(t) : ingress' = [ingress EXCEPT ![p] = v]
    /\ Goto(t, "egress")
    /\ UNCHANGED <<queue, groups, pg, egress>> /\ Elsewhere

InitEgress(t) ==
    /\ Running(t, "egress")
    /\ LET p == job[t].port IN
       \/ egress[p] # Absent /\ UNCHANGED egress
       \/ /\ egress[p] = Absent
          /\ \E v \in Profile(t) : egress' = [egress EXCEPT ![p] = v]
    /\ Goto(t, "mark")
    /\ UNCHANGED <<queue, groups, pg, ingress>> /\ Elsewhere

\* add_initialized_port, then back to the caller: either the mutex is released
\* or, when the call came from a DB push of the event thread, the association
\* goes on.
MarkInitialized(t) ==
    /\ Running(t, "mark")
    /\ initialized' = initialized \cup {job[t].port}
    /\ \/ job[t].ret = "idle" /\ Leave(t)
       \/ /\ job[t].ret # "idle"
          /\ Goto(t, job[t].ret)
          /\ UNCHANGED mtx
    /\ UNCHANGED <<external, events, nodes, boot, alive, raced>>

----------------------------------------------------------------------------
(* nas_qos_if_delete_notify *)

DeleteQueues(p) == queue' = [queue EXCEPT ![p] = Absent]

\* Mutant: the scheduler groups are left behind.
KeepGroups(p) == UNCHANGED groups

DeleteGroups(p) ==
    /\ group' = [group EXCEPT ![p] = Absent]
    /\ upper' = [upper EXCEPT ![p] = Absent]

DeleteProfiles(p) ==
    /\ ingress' = [ingress EXCEPT ![p] = Absent]
    /\ egress' = [egress EXCEPT ![p] = Absent]

DeletePriorityGroups(p) == pg' = [pg EXCEPT ![p] = Absent]

\* Mutant: del_initialized_port is forgotten.
KeepMarked(p) == UNCHANGED initialized

Unmark(p) == initialized' = initialized \ {p}

EventDelete ==
    /\ alive /\ job[EventThread] = Idle /\ mtx = None
    /\ events # <<>> /\ Head(events).op = "delete"
    /\ events' = Tail(events)
    /\ DeleteQueues(Head(events).port) /\ DeleteGroups(Head(events).port)
    /\ DeleteProfiles(Head(events).port) /\ DeletePriorityGroups(Head(events).port)
    /\ Unmark(Head(events).port)
    /\ UNCHANGED <<external, mtx, job, boot, alive, raced>>

----------------------------------------------------------------------------
(* nas_qos_if_set_notify: the mutex is held to the end.  Each DB push calls *)
(* the CPS set handler of its object type, which initialises the port when  *)
(* it is not initialised: the look-up then happens inside the mutex.        *)

EventSet ==
    /\ alive /\ job[EventThread] = Idle /\ mtx = None
    /\ events # <<>> /\ Head(events).op \in {"add", "remove"}
    /\ events' = Tail(events)
    /\ mtx' = EventThread
    /\ job' = [job EXCEPT ![EventThread] =
                 [pc |-> IF Head(events).op = "add" THEN "addIngress" ELSE "rmPg",
                  port |-> Head(events).port, saw |-> Absent,
                  npu |-> Head(events).npu, ret |-> "idle"]]
    /\ UNCHANGED <<external, nodes, initialized, boot, alive, raced>>

\* The interface and the NPU port of the event being handled.
Target == job[EventThread].port
Npu == job[EventThread].npu

\* The DB holds a record of this type or not; the record of a port that is not
\* initialised starts a nested initialisation.
PushThen(step) ==
    \/ Goto(EventThread, step)
    \/ /\ Target \notin initialized /\ intf[Target] # Absent
       /\ job' = [job EXCEPT ![EventThread] =
                    [pc |-> "queue", port |-> Target, saw |-> intf[Target],
                     npu |-> Npu, ret |-> step]]

\* The port-ingress node is used without a check: without one the process dies.
AddIngress ==
    /\ Running(EventThread, "addIngress")
    /\ \/ /\ ingress[Target] # Absent
          /\ ingress' = [ingress EXCEPT ![Target] = Npu]
          /\ PushThen("addEgress")
          /\ UNCHANGED alive
       \/ /\ ingress[Target] = Absent
          /\ alive' = FALSE
          /\ UNCHANGED <<ingress, job>>
    /\ UNCHANGED <<external, events, queue, groups, pg, egress, initialized, mtx,
                   boot, raced>>

\* So is the port-egress node.
AddEgress ==
    /\ Running(EventThread, "addEgress")
    /\ \/ /\ egress[Target] # Absent
          /\ egress' = [egress EXCEPT ![Target] = Npu]
          /\ PushThen("addQueue")
          /\ UNCHANGED alive
       \/ /\ egress[Target] = Absent
          /\ alive' = FALSE
          /\ UNCHANGED <<egress, job>>
    /\ UNCHANGED <<external, events, queue, groups, pg, ingress, initialized, mtx,
                   boot, raced>>

\* The DB is pushed only when the queues were matched with those of NDI.
AddQueues ==
    /\ Running(EventThread, "addQueue")
    /\ \E q \in Rebound(queue[Target], Npu) :
         /\ queue' = [queue EXCEPT ![Target] = q]
         /\ \/ Goto(EventThread, "addGroup")
            \/ q = Npu /\ PushThen("addGroup")
    /\ UNCHANGED <<groups, pg, ingress, egress>> /\ Elsewhere

\* A scheduler group of the level above the queues is recognised by the lowest
\* of its queues, which must be bound to the new NPU port already.
AddGroups ==
    /\ Running(EventThread, "addGroup")
    /\ \/ queue[Target] # Npu /\ UNCHANGED group
       \/ /\ queue[Target] = Npu
          /\ \E g \in Rebound(group[Target], Npu) :
               group' = [group EXCEPT ![Target] = g]
    /\ Goto(EventThread, "addPg")
    /\ UNCHANGED <<queue, upper, pg, ingress, egress>> /\ Elsewhere

AddPriorityGroups ==
    /\ Running(EventThread, "addPg")
    /\ \E g \in Rebound(pg[Target], Npu) :
         /\ pg' = [pg EXCEPT ![Target] = g]
         /\ \/ Goto(EventThread, "unlock")
            \/ g = Npu /\ PushThen("unlock")
    /\ UNCHANGED <<queue, groups, ingress, egress>> /\ Elsewhere

\* Mutant: the priority groups of the old port are left as they are.
KeepPriorityGroups ==
    /\ Running(EventThread, "rmPg")
    /\ PushThen("rmQueue")
    /\ UNCHANGED <<queue, groups, pg, ingress, egress>> /\ Elsewhere

\* Removes the priority groups and creates those of a virtual port, whatever
\* was there before.
RemovePriorityGroups ==
    /\ Running(EventThread, "rmPg")
    /\ pg' = [pg EXCEPT ![Target] = Virtual]
    /\ PushThen("rmQueue")
    /\ UNCHANGED <<queue, groups, ingress, egress>> /\ Elsewhere

\* Queues and scheduler groups are kept and unbound (of the scheduler groups
\* only the level above the queues); then the ingress node is replaced.
RemoveQueuesGroupsIngress ==
    /\ Running(EventThread, "rmQueue")
    /\ queue' = [queue EXCEPT ![Target] = Unbound(queue[Target])]
    /\ group' = [group EXCEPT ![Target] = Unbound(group[Target])]
    /\ ingress' = [ingress EXCEPT ![Target] = Virtual]
    /\ PushThen("rmEgress")
    /\ UNCHANGED <<upper, pg, egress>> /\ Elsewhere

RemoveEgress ==
    /\ Running(EventThread, "rmEgress")
    /\ egress' = [egress EXCEPT ![Target] = Virtual]
    /\ PushThen("unlock")
    /\ UNCHANGED <<queue, groups, pg, ingress>> /\ Elsewhere

Unlock ==
    /\ Running(EventThread, "unlock")
    /\ Leave(EventThread)
    /\ UNCHANGED <<external, events, nodes, initialized, boot, alive, raced>>

----------------------------------------------------------------------------
\* A crashed daemon is started again with an empty cache and no subscription.
Restart ==
    /\ ~alive
    /\ alive' = TRUE
    /\ events' = <<>>
    /\ queue' = NoNode /\ group' = NoNode /\ upper' = NoNode
    /\ pg' = NoNode /\ ingress' = NoNode /\ egress' = NoNode
    /\ initialized' = {}
    /\ mtx' = None
    /\ job' = [t \in Threads |-> Idle]
    /\ scanPass' = 0
    /\ scanTodo' = {}
    /\ raced' = {}
    /\ UNCHANGED external

Initialise(t) ==
    \/ Lock(t) \/ InitQueues(t) \/ InitGroups(t) \/ InitPriorityGroups(t)
    \/ InitIngress(t) \/ InitEgress(t) \/ MarkInitialized(t)

Associate ==
    \/ AddIngress \/ AddEgress \/ AddQueues \/ AddGroups \/ AddPriorityGroups
    \/ RemovePriorityGroups \/ RemoveQueuesGroupsIngress \/ RemoveEgress \/ Unlock

HandleEvent == EventCreate \/ EventDelete \/ EventSet

Scan == Subscribe \/ ScanSnapshot \/ \E p \in Ports : ScanPort(p)

Interface ==
    \E p \in Ports :
       \/ \E v \in Mapping : IfCreate(p, v) \/ IfMap(p, v)
       \/ IfDelete(p) \/ IfUnmap(p)

Next ==
    \/ Interface
    \/ \E t \in CpsThreads, p \in Ports : OnDemand(t, p)
    \/ \E t \in Threads : Initialise(t)
    \/ HandleEvent \/ Associate \/ Scan \/ Restart

\* Each thread of the process goes on as long as it can, and the service manager
\* restarts a crashed process; neither requests nor interface changes need ever
\* come.
Fairness ==
    /\ \A t \in Threads : WF_vars(Initialise(t))
    /\ WF_vars(HandleEvent) /\ WF_vars(Associate) /\ WF_vars(Scan)
    /\ WF_vars(Restart)

Spec == Init /\ [][Next]_vars
FairSpec == Spec /\ Fairness
----------------------------------------------------------------------------
TypeOK ==
    /\ intf \in [Ports -> {Absent} \cup Mapping]
    /\ changes \in Nat
    /\ events \in Seq(Event)
    /\ queue \in [Ports -> Binding] /\ group \in [Ports -> Binding]
    /\ upper \in [Ports -> Binding] /\ pg \in [Ports -> Binding]
    /\ ingress \in [Ports -> Binding] /\ egress \in [Ports -> Binding]
    /\ initialized \subseteq Ports
    /\ mtx \in Threads \cup {None}
    /\ job \in [Threads -> Job]
    /\ scanPass \in 0..3
    /\ scanTodo \subseteq Ports
    /\ alive \in BOOLEAN
    /\ raced \subseteq Ports

----------------------------------------------------------------------------
(* Properties *)

\* nas_qos_init promises nothing of a port whose interface changed while one of
\* the threads was between its look-up and the end of its initialisation.  For
\* every other port, once all events are handled, the cache mirrors nas-interface:
\* no node outlives its interface, and every node below the upper scheduler groups
\* is bound to what the interface is mapped to
\* (nas_qos_if_create_notify, nas_qos_if_set_notify, nas_qos_if_delete_notify).
Mirrors(p) ==
    /\ \A node \in {queue, group, pg, ingress, egress} : node[p] = intf[p]
    /\ p \in initialized <=> intf[p] # Absent

SettledUnlessRaced ==
    Quiescent => \A p \in Ports \ raced : Mirrors(p)

\* A port on the initialised list has its ingress and egress nodes, which the
\* association handlers use without a check: an association of an initialised
\* port never meets a missing node (nas_qos_port_ingress_association,
\* nas_qos_port_egress_association).
InitializedHasProfiles ==
    \A p \in initialized : ingress[p] # Absent /\ egress[p] # Absent

\* Queues and scheduler groups of a port are set up together
\* (nas_qos_port_hqos_init): outside the handlers, a port that no race disturbed
\* has both or none.
HqosTogether ==
    mtx = None => \A p \in Ports \ raced :
                     queue[p] = Absent <=> group[p] = Absent

\* Initialisation never touches a node that exists: between its creation and its
\* removal a node is bound anew by the event thread's associations only, whichever
\* threads initialise the port at the same time.
Kept(old, new) == old # Absent => new = old

OnlyEventsRebind ==
    \A p \in Ports :
       \/ /\ Kept(queue[p], queue'[p]) /\ Kept(group[p], group'[p])
          /\ Kept(upper[p], upper'[p]) /\ Kept(pg[p], pg'[p])
          /\ Kept(ingress[p], ingress'[p]) /\ Kept(egress[p], egress'[p])
       \/ events' # events \/ ~alive
       \/ mtx = EventThread /\ job[EventThread].pc \in SetSteps

InitNeverRebinds == [][OnlyEventsRebind]_vars

\* When the interfaces stop changing, every event is handled, the scan ends and
\* all threads come to rest with a cache that mirrors the interfaces that did not
\* change during an initialisation.
EventuallySettles == <>[](Quiescent /\ SettledUnlessRaced)

=============================================================================
