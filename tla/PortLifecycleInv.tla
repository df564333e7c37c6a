-------------------------- MODULE PortLifecycleInv --------------------------
(***************************************************************************)
(* The inductive invariant behind the theorems on PortLifecycle.            *)
(***************************************************************************)
EXTENDS PortLifecycle

\* A thread inside a handler names a port.
JobNamesPort == \A t \in Threads : job[t].pc # "idle" => job[t].port \in Ports

\* The locked part of a handler runs with the mutex held.
LockedHoldsMutex == \A t \in Threads : job[t].pc \in Locked => mtx = t

\* Associations run on the event thread only.
SetStepsOnEventThread ==
    \A t \in Threads : job[t].pc \in SetSteps \cup {"unlock"} => t = EventThread

\* Past the ingress (egress) step, the node of that step exists.
ProfilesBuilt ==
    \A t \in Threads :
       /\ job[t].pc \in {"egress", "mark"} => ingress[job[t].port] # Absent
       /\ job[t].pc = "mark" => egress[job[t].port] # Absent

\* An association, also one that is waiting for a nested initialisation, knows
\* the port of its event.
AssociationsNamePort ==
    \A t \in Threads :
       job[t].pc \in SetSteps \/ job[t].ret # "idle" => job[t].npu \in Mapping

\* Only the event thread has somewhere to return to.
NestedOnEventThread ==
    \A t \in Threads : job[t].ret # "idle" => t = EventThread

IInv ==
    /\ TypeOK
    /\ JobNamesPort
    /\ LockedHoldsMutex
    /\ SetStepsOnEventThread
    /\ NestedOnEventThread
    /\ AssociationsNamePort
    /\ ProfilesBuilt
    /\ InitializedHasProfiles

\* A thread builds the scheduler groups of a port that has none.
FreshGroups ==
    \A t \in Threads : job[t].pc = "group" => ~GroupsExist(job[t].port)

Inductive == IInv /\ FreshGroups

----------------------------------------------------------------------------
(* Behind SettledUnlessRaced: what the pending events say of the interfaces *)

Pending == 1 .. Len(events)
Names(i, p) == i \in Pending /\ events[i].port = p
Deletes(i, p) == Names(i, p) /\ events[i].op = "delete"
Creates(i, p) == Names(i, p) /\ events[i].op = "create"

\* What an event makes of its interface.
Outcome(e) ==
    IF e.op = "delete" THEN Absent ELSE IF e.op = "remove" THEN Virtual ELSE e.npu

\* The last event of an interface tells what it is.
LastTells ==
    \A p \in Ports, i \in Pending :
       Names(i, p) /\ (\A j \in Pending : Names(j, p) => j <= i) => Outcome(events[i]) = intf[p]

\* An interface that is gone was deleted after all that happened to it.
GoneDeleted ==
    \A p \in Ports, i \in Pending :
       Names(i, p) /\ intf[p] = Absent => \E k \in Pending : k >= i /\ Deletes(k, p)

\* One that was deleted and is there again was created again.
BackCreated ==
    \A p \in Ports, i \in Pending :
       Deletes(i, p) /\ intf[p] # Absent => \E k \in Pending : k > i /\ Creates(k, p)

\* Between any event of an interface and a later creation there is a deletion.
DeletedBetween ==
    \A p \in Ports, i, j \in Pending :
       Names(i, p) /\ Creates(j, p) /\ i < j =>
          \E k \in Pending : k >= i /\ k < j /\ Deletes(k, p)

\* The step of the association that the event thread is at, or returns to.
StageOf(j) == IF j.pc \in InitSteps THEN j.ret ELSE j.pc
Stage == StageOf(job[EventThread])
Working(p) == job[EventThread].port = p /\ Stage \in SetSteps
AddSteps == {"addIngress", "addEgress", "addQueue", "addGroup", "addPg"}
Aim == IF Stage \in AddSteps THEN job[EventThread].npu ELSE Virtual

\* The association at work aims at what the interface is unless more events come; one
\* that creates the interface comes after one that deletes it.
WorkFits ==
    \A p \in Ports : Working(p) =>
       /\ (\A i \in Pending : ~Names(i, p)) => intf[p] = Aim
       /\ \A j \in Pending : Creates(j, p) => \E k \in Pending : k < j /\ Deletes(k, p)

\* Without a subscription there are no events, and no associations.
NobodyListens == scanPass = 0 => events = <<>> /\ Stage \notin SetSteps

\* Nothing waits for an initialisation that waits for the mutex.
WaitingReturns == \A t \in Threads : job[t].pc = "looked" => job[t].ret = "idle"

EventsFit ==
    /\ LastTells /\ GoneDeleted /\ BackCreated /\ DeletedBetween /\ WorkFits
    /\ NobodyListens /\ WaitingReturns

----------------------------------------------------------------------------
(* ... and what the nodes show meanwhile. *)

\* An event to come will change the nodes of p, whatever they are.
Rewritten(p) == \E i \in Pending : Names(i, p) /\ events[i].op # "create"

\* The steps of an association at which a node is still to be bound.
QueueDue == {"addIngress", "addEgress", "addQueue", "rmPg", "rmQueue"}
GroupDue == {"addIngress", "addEgress", "addQueue", "addGroup", "rmPg", "rmQueue"}
PgDue == {"addIngress", "addEgress", "addQueue", "addGroup", "addPg", "rmPg"}
IngressDue == {"addIngress", "rmPg", "rmQueue"}
EgressDue == {"addIngress", "addEgress", "rmPg", "rmQueue", "rmEgress"}

\* A node of p that is bound to v is what the interface is, or will be.
Shows(v, p, due) ==
    /\ v # Broken
    /\ \/ v \in {Absent, intf[p]}
       \/ Rewritten(p)
       \/ Working(p) /\ Stage \in due

NodesShow(p) ==
    /\ Shows(queue[p], p, QueueDue) /\ Shows(group[p], p, GroupDue)
    /\ Shows(pg[p], p, PgDue)
    /\ Shows(ingress[p], p, IngressDue) /\ Shows(egress[p], p, EgressDue)
AllShow == \A p \in Ports \ raced : NodesShow(p)

\* An initialisation has built what comes before the step it is at.
BuiltSoFar ==
    \A t \in Threads : job[t].port \notin raced =>
       /\ job[t].pc \in {"pg", "ingress", "egress", "mark"} =>
             queue[job[t].port] # Absent /\ group[job[t].port] # Absent
       /\ job[t].pc \in {"ingress", "egress", "mark"} => pg[job[t].port] # Absent

InitializedBuilt ==
    \A p \in initialized \ raced : queue[p] # Absent /\ group[p] # Absent /\ pg[p] # Absent

UpperHasGroups == \A p \in Ports : upper[p] # Absent => group[p] # Absent

\* An interface that is there has been initialised, or will be: by a thread that looked
\* it up, by the scan (which leaves out fibre channel), or at an event to come.
Awaited(p) ==
    p \in scanTodo \/ scanPass < (IF Type(p) = "cpu" THEN 2 ELSE 3)
Underway(p) == \E t \in Threads : Initialising(t, p)
Announced(p) == \E i \in Pending : Creates(i, p)
Covered ==
    \A p \in Ports \ (raced \cup FcPorts) : intf[p] # Absent =>
       p \in initialized \/ Underway(p) \/ Awaited(p) \/ Announced(p)

\* Before the subscription only initialisations make nodes.
NothingElse ==
    scanPass = 0 =>
       \A p \in Ports \ initialized :
          Underway(p) \/ \A node \in {queue, group, pg, ingress, egress} : node[p] = Absent

CacheFits ==
    /\ AllShow /\ BuiltSoFar /\ InitializedBuilt /\ UpperHasGroups /\ Covered /\ NothingElse

\* While events are pending the cache is on its way to what the interfaces are: every node
\* that does not show its interface is due in the association at work or will be
\* rewritten by an event to come, and every interface that is there is initialised or
\* about to be (nas_qos_if_set_handler and all that it calls, nas_qos_init).
Settling == EventsFit /\ CacheFits
=============================================================================
