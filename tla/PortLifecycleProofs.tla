------------------------ MODULE PortLifecycleProofs ------------------------
(***************************************************************************)
(* Machine-checked theorems on PortLifecycle, for all sets of ports, NPU    *)
(* ports and threads.                                                       *)
(***************************************************************************)
EXTENDS PortLifecycleInv, SequenceTheorems, TLAPS

USE DEF Threads, external, boot, groups, nodes, Leave, DeleteQueues,
        DeleteGroups, DeleteProfiles, DeletePriorityGroups, Unmark
USE ThreadNames, NullValues, Bounds

\* The conjuncts of the invariant that speak of jobs and the mutex only.
JobsInv ==
    /\ job \in [Threads -> Job]
    /\ JobNamesPort
    /\ LockedHoldsMutex
    /\ SetStepsOnEventThread
    /\ NestedOnEventThread
    /\ AssociationsNamePort

\* The initial states satisfy the inductive invariant.
LEMMA InitIInv == Init => IInv
  BY DEF Init, IInv, TypeOK, JobNamesPort, LockedHoldsMutex, SetStepsOnEventThread,
         NestedOnEventThread, AssociationsNamePort, ProfilesBuilt,
         InitializedHasProfiles, NoNode,
         Binding, Mapping, Job, Idle, Locked, InitSteps, SetSteps, Event

\* What the invariant says of the job of one thread.
LEMMA JobFacts ==
  ASSUME IInv, NEW t \in Threads
  PROVE  /\ job[t] \in Job
         /\ job[t].saw \in {Absent} \cup Mapping
         /\ job[t].npu \in {Absent} \cup Mapping
         /\ job[t].pc # "idle" => job[t].port \in Ports
         /\ job[t].pc \in Locked => mtx = t
         /\ job[t].pc \in SetSteps \/ job[t].ret # "idle" => job[t].npu \in Mapping
         /\ \A s \in Locked : At(job[t], s) \in Job
  BY DEF IInv, TypeOK, JobNamesPort, LockedHoldsMutex, AssociationsNamePort, At,
     Job,
     Locked, InitSteps, SetSteps

\* A thread inside the mutex that moves on to another locked step.
LEMMA GotoKeeps ==
  ASSUME IInv, NEW t \in Threads, NEW s \in Locked,
         job[t].pc \in Locked \cup {"looked"}, Goto(t, s), mtx' = t,
         mtx \in {t, None}, s \in SetSteps \cup {"unlock"} =>
            t = EventThread /\ job[t].npu \in Mapping
  PROVE  JobsInv'
<1> USE JobFacts DEF IInv, TypeOK, Goto
<1>1. job' \in [Threads -> Job]
  OBVIOUS
<1>2. JobNamesPort'
  BY DEF JobNamesPort, At, Locked, InitSteps, SetSteps
<1>3. LockedHoldsMutex'
  BY DEF LockedHoldsMutex, At, Locked, InitSteps, SetSteps
<1>4. SetStepsOnEventThread'
  BY DEF SetStepsOnEventThread, At, SetSteps
<1>5. NestedOnEventThread'
  BY DEF NestedOnEventThread, At
<1>6. AssociationsNamePort'
  BY DEF AssociationsNamePort, At
<1> QED
  BY <1>1, <1>2, <1>3, <1>4, <1>5, <1>6 DEF JobsInv

\* The event thread that goes on after a DB push, possibly through a nested
\* initialisation.
LEMMA PushKeeps ==
  ASSUME IInv, NEW s \in SetSteps \cup {"unlock"},
         job[EventThread].pc \in SetSteps, PushThen(s), mtx' = mtx
  PROVE  JobsInv'
<1> DEFINE j == [pc |-> "queue", port |-> Target, saw |-> intf[Target],
                 npu |-> Npu, ret |-> s]
<1> USE JobFacts DEF Target, Npu
<1>1. s \in Locked /\ job[EventThread].pc \in Locked /\ mtx = EventThread
  BY DEF Locked, IInv, LockedHoldsMutex
<1>2. CASE Goto(EventThread, s)
  BY <1>1, <1>2, GotoKeeps
<1>3. CASE job' = [job EXCEPT ![EventThread] = j]
  <2>1. j \in Job
    BY <1>1 DEF IInv, TypeOK, JobNamesPort, Job, Locked, InitSteps, SetSteps
  <2>2. job' \in [Threads -> Job]
    BY <1>3, <2>1 DEF IInv, TypeOK
  <2>3. JobNamesPort'
    BY <1>1, <1>3 DEF IInv, TypeOK, JobNamesPort, Locked, SetSteps
  <2>4. LockedHoldsMutex'
    BY <1>1, <1>3 DEF IInv, TypeOK, LockedHoldsMutex
  <2>5. SetStepsOnEventThread'
    BY <1>3 DEF IInv, TypeOK, SetStepsOnEventThread
  <2>6. NestedOnEventThread'
    BY <1>3 DEF IInv, TypeOK, NestedOnEventThread
  <2>7. AssociationsNamePort'
    BY <1>3 DEF IInv, TypeOK, AssociationsNamePort
  <2> QED
    BY <2>2, <2>3, <2>4, <2>5, <2>6, <2>7 DEF JobsInv
<1> QED
  BY <1>2, <1>3 DEF PushThen

\* Every NDI read-out and every association yields a binding.
LEMMA BindingFacts ==
  /\ \A v \in {Absent} \cup Mapping : Fetched(v) \subseteq Binding
  /\ \A t \in Threads : Collection(t) \subseteq Binding
  /\ \A t \in Threads : Profile(t) \subseteq Binding \ {Absent}
  /\ \A old \in Binding : Unbound(old) \in Binding
  /\ \A old \in Binding, v \in {Absent} \cup Mapping : Rebound(old, v) \subseteq Binding
  BY DEF Fetched, Built, Collection, Profile, Unbound, Rebound, Binding, Mapping

\* Initialising the queues preserves the invariant.
LEMMA InitQueuesKeeps ==
  ASSUME IInv, NEW t \in Threads, InitQueues(t)
  PROVE  IInv'
<1> USE JobFacts, BindingFacts DEF InitQueues, Running, Elsewhere
<1>1. job[t].pc = "queue" /\ job[t].pc \in Locked /\ job[t].port \in Ports /\ mtx = t
  BY DEF Locked, InitSteps
<1>2. \E s \in {"group", "pg"} : Goto(t, s)
  OBVIOUS
<1>3. JobsInv'
  BY <1>1, <1>2, GotoKeeps DEF Locked, InitSteps, SetSteps
<1>4. queue' \in [Ports -> Binding]
  BY <1>1 DEF IInv, TypeOK
<1>5. TypeOK'
  BY <1>3, <1>4 DEF IInv, TypeOK, JobsInv
<1>8. ProfilesBuilt'
  BY <1>1, <1>2 DEF IInv, TypeOK, ProfilesBuilt, Goto, At
<1>9. InitializedHasProfiles'
  BY DEF IInv, InitializedHasProfiles
<1> QED
  BY <1>3, <1>5, <1>8, <1>9 DEF IInv, JobsInv

\* Initialising the scheduler groups preserves the invariant.
LEMMA InitGroupsKeeps ==
  ASSUME IInv, NEW t \in Threads, InitGroups(t)
  PROVE  IInv'
<1> USE JobFacts, BindingFacts DEF InitGroups, Running, Elsewhere
<1>1. job[t].pc = "group" /\ job[t].pc \in Locked /\ job[t].port \in Ports /\ mtx = t
  BY DEF Locked, InitSteps
<1>2. Goto(t, "pg")
  OBVIOUS
<1>3. JobsInv'
  BY <1>1, <1>2, GotoKeeps DEF Locked, InitSteps, SetSteps
<1>4. group' \in [Ports -> Binding] /\ upper' \in [Ports -> Binding]
  BY <1>1 DEF IInv, TypeOK, Binding, Mapping
<1>5. TypeOK'
  BY <1>3, <1>4 DEF IInv, TypeOK, JobsInv
<1>8. ProfilesBuilt'
  BY <1>1, <1>2 DEF IInv, TypeOK, ProfilesBuilt, Goto, At
<1>9. InitializedHasProfiles'
  BY DEF IInv, InitializedHasProfiles
<1> QED
  BY <1>3, <1>5, <1>8, <1>9 DEF IInv, JobsInv

\* Initialising the priority groups preserves the invariant.
LEMMA InitPriorityGroupsKeeps ==
  ASSUME IInv, NEW t \in Threads, InitPriorityGroups(t)
  PROVE  IInv'
<1> USE JobFacts, BindingFacts DEF InitPriorityGroups, Running, Elsewhere
<1>1. job[t].pc = "pg" /\ job[t].pc \in Locked /\ job[t].port \in Ports /\ mtx = t
  BY DEF Locked, InitSteps
<1>2. Goto(t, "ingress")
  OBVIOUS
<1>3. JobsInv'
  BY <1>1, <1>2, GotoKeeps DEF Locked, InitSteps, SetSteps
<1>4. pg' \in [Ports -> Binding]
  BY <1>1 DEF IInv, TypeOK
<1>5. TypeOK'
  BY <1>3, <1>4 DEF IInv, TypeOK, JobsInv
<1>8. ProfilesBuilt'
  BY <1>1, <1>2 DEF IInv, TypeOK, ProfilesBuilt, Goto, At
<1>9. InitializedHasProfiles'
  BY DEF IInv, InitializedHasProfiles
<1> QED
  BY <1>3, <1>5, <1>8, <1>9 DEF IInv, JobsInv

\* Initialising the ingress node preserves the invariant.
LEMMA InitIngressKeeps ==
  ASSUME IInv, NEW t \in Threads, InitIngress(t)
  PROVE  IInv'
<1> USE JobFacts, BindingFacts DEF InitIngress, Running, Elsewhere
<1>1. job[t].pc = "ingress" /\ job[t].pc \in Locked /\ job[t].port \in Ports /\ mtx = t
  BY DEF Locked, InitSteps
<1>2. Goto(t, "egress")
  OBVIOUS
<1>3. JobsInv'
  BY <1>1, <1>2, GotoKeeps DEF Locked, InitSteps, SetSteps
<1>4. ingress' \in [Ports -> Binding]
  BY <1>1 DEF IInv, TypeOK
<1>5. TypeOK'
  BY <1>3, <1>4 DEF IInv, TypeOK, JobsInv
<1>6. ingress'[job[t].port] # Absent
  BY <1>1 DEF IInv, TypeOK
<1>7. \A p \in Ports : ingress[p] # Absent => ingress'[p] # Absent
  BY <1>1 DEF IInv, TypeOK
<1>8. ProfilesBuilt'
  BY <1>1, <1>2, <1>6, <1>7 DEF IInv, TypeOK, ProfilesBuilt, JobNamesPort,
     LockedHoldsMutex, Goto, At, Locked, InitSteps
<1>9. InitializedHasProfiles'
  BY <1>7 DEF IInv, TypeOK, InitializedHasProfiles
<1> QED
  BY <1>3, <1>5, <1>8, <1>9 DEF IInv, JobsInv

\* Initialising the egress node preserves the invariant.
LEMMA InitEgressKeeps ==
  ASSUME IInv, NEW t \in Threads, InitEgress(t)
  PROVE  IInv'
<1> USE JobFacts, BindingFacts DEF InitEgress, Running, Elsewhere
<1>1. job[t].pc = "egress" /\ job[t].pc \in Locked /\ job[t].port \in Ports /\ mtx = t
  BY DEF Locked, InitSteps
<1>2. Goto(t, "mark")
  OBVIOUS
<1>3. JobsInv'
  BY <1>1, <1>2, GotoKeeps DEF Locked, InitSteps, SetSteps
<1>4. egress' \in [Ports -> Binding]
  BY <1>1 DEF IInv, TypeOK
<1>5. TypeOK'
  BY <1>3, <1>4 DEF IInv, TypeOK, JobsInv
<1>6. egress'[job[t].port] # Absent
  BY <1>1 DEF IInv, TypeOK
<1>7. \A p \in Ports : egress[p] # Absent => egress'[p] # Absent
  BY <1>1 DEF IInv, TypeOK
<1>8. ProfilesBuilt'
  BY <1>1, <1>2, <1>6, <1>7 DEF IInv, TypeOK, ProfilesBuilt, JobNamesPort,
     LockedHoldsMutex, Goto, At, Locked, InitSteps
<1>9. InitializedHasProfiles'
  BY <1>7 DEF IInv, TypeOK, InitializedHasProfiles
<1> QED
  BY <1>3, <1>5, <1>8, <1>9 DEF IInv, JobsInv

\* Taking the mutex preserves the invariant.
LEMMA LockKeeps ==
  ASSUME IInv, NEW t \in Threads, Lock(t)
  PROVE  IInv'
<1> USE DEF Lock, Running
<1>1. JobsInv'
  BY GotoKeeps DEF Locked, InitSteps, SetSteps
<1>2. TypeOK'
  BY <1>1 DEF IInv, TypeOK, JobsInv
<1>3. ProfilesBuilt'
  BY DEF IInv, TypeOK, ProfilesBuilt, Goto, At
<1>4. InitializedHasProfiles'
  BY DEF IInv, InitializedHasProfiles
<1> QED
  BY <1>1, <1>2, <1>3, <1>4 DEF IInv, JobsInv

\* The end of an initialisation preserves the invariant: here the port comes on
\* the list, with both profile nodes built.
LEMMA MarkInitializedKeeps ==
  ASSUME IInv, NEW t \in Threads, MarkInitialized(t)
  PROVE  IInv'
<1> USE JobFacts DEF MarkInitialized, Running
<1>1. job[t].pc \in Locked /\ job[t].port \in Ports /\ mtx = t
  BY DEF Locked, InitSteps
<1>2. ingress[job[t].port] # Absent /\ egress[job[t].port] # Absent
  BY DEF IInv, ProfilesBuilt
<1>3. JobsInv'
  <2>1. CASE job[t].ret = "idle"
    <3>1. job' = [job EXCEPT ![t] = Idle] /\ mtx' = None
      BY <2>1
    <3>2. \A u \in Threads : u # t => job[u].pc \notin Locked
      BY <1>1 DEF IInv, LockedHoldsMutex
    <3> QED
      BY <3>1, <3>2 DEF IInv, TypeOK, JobsInv, JobNamesPort, LockedHoldsMutex,
         SetStepsOnEventThread, NestedOnEventThread, AssociationsNamePort, Idle,
         Job, Locked, InitSteps,
         SetSteps
  <2>2. CASE job[t].ret # "idle"
    <3>1. job[t].ret \in SetSteps \cup {"unlock"} /\ t = EventThread
      BY <2>2 DEF IInv, NestedOnEventThread, AssociationsNamePort, Job
    <3>2. Goto(t, job[t].ret) /\ mtx' = t
      BY <1>1, <2>2
    <3> QED
      BY <1>1, <3>1, <3>2, GotoKeeps DEF Locked
  <2> QED
    BY <2>1, <2>2
<1>4. TypeOK'
  BY <1>1, <1>3 DEF IInv, TypeOK, JobsInv
<1>5. ProfilesBuilt'
  <2>1. job'[t].pc \notin {"egress", "mark"}
    BY DEF IInv, TypeOK, Idle, Goto, At, Job, SetSteps
  <2>2. \A u \in Threads : u # t => job'[u] = job[u]
    BY DEF IInv, TypeOK, Goto
  <2> QED
    BY <2>1, <2>2 DEF IInv, ProfilesBuilt
<1>6. InitializedHasProfiles'
  BY <1>2 DEF IInv, InitializedHasProfiles
<1> QED
  BY <1>3, <1>4, <1>5, <1>6 DEF IInv, JobsInv

\* An interface change preserves the invariant: it touches no node and no job.
LEMMA ChangeKeeps ==
  ASSUME IInv, NEW p \in Ports, NEW v \in {Absent} \cup Mapping, NEW e \in Event,
         Change(p, v, e)
  PROVE  IInv'
<1> USE DEF Change
<1>1. intf' \in [Ports -> {Absent} \cup Mapping] /\ changes' \in Nat
  BY DEF IInv, TypeOK
<1>2. events' \in Seq(Event)
  <2>1. Append(events, e) \in Seq(Event)
    BY AppendProperties DEF IInv, TypeOK
  <2> QED
    BY <2>1 DEF IInv, TypeOK
<1>3. TypeOK'
  BY <1>1, <1>2 DEF IInv, TypeOK
<1> QED
  BY <1>3 DEF IInv, JobNamesPort, LockedHoldsMutex, SetStepsOnEventThread,
     NestedOnEventThread, AssociationsNamePort, ProfilesBuilt,
     InitializedHasProfiles

\* So do the four operations of nas-interface, which are such changes.
LEMMA InterfaceKeeps == ASSUME IInv, Interface PROVE IInv'
<1>1. ASSUME NEW p \in Ports, NEW v \in Mapping, IfCreate(p, v) \/ IfMap(p, v)
      PROVE  IInv'
  <2>1. \A op \in {"create", "add"} :
           [op |-> op, port |-> p, npu |-> v] \in Event
    BY DEF Event
  <2> QED
    BY <1>1, <2>1, ChangeKeeps DEF IfCreate, IfMap
<1>2. ASSUME NEW p \in Ports, IfDelete(p) \/ IfUnmap(p)
      PROVE  IInv'
  <2>1. intf[p] \in Mapping
    BY <1>2 DEF IfDelete, IfUnmap, IInv, TypeOK, Mapping
  <2>2. \A op \in {"delete", "remove"} :
           [op |-> op, port |-> p, npu |-> intf[p]] \in Event
    BY <2>1 DEF Event
  <2> QED
    BY <1>2, <2>2, ChangeKeeps DEF IfDelete, IfUnmap, Mapping
<1> QED
  BY <1>1, <1>2 DEF Interface

\* A look-up changes no node and gives an idle thread a job outside the mutex.
LEMMA LookedUpKeeps ==
  ASSUME IInv, NEW t \in Threads, NEW p \in Ports, job[t] = Idle, LookedUp(t, p),
         UNCHANGED <<nodes, initialized, mtx>>
  PROVE  JobsInv' /\ ProfilesBuilt' /\ InitializedHasProfiles'
<1> USE DEF LookedUp, IInv, TypeOK
<1>1. job' \in [Threads -> Job]
  BY DEF Job
<1>2. JobNamesPort' /\ SetStepsOnEventThread' /\ NestedOnEventThread'
  BY DEF JobNamesPort, SetStepsOnEventThread, NestedOnEventThread, Idle, SetSteps
<1>6. AssociationsNamePort'
  BY DEF AssociationsNamePort, Idle, SetSteps
<1>3. LockedHoldsMutex'
  BY DEF LockedHoldsMutex, Locked, InitSteps, SetSteps
<1>4. ProfilesBuilt'
  BY DEF ProfilesBuilt
<1>5. InitializedHasProfiles'
  BY DEF InitializedHasProfiles
<1> QED
  BY <1>1, <1>2, <1>3, <1>4, <1>5, <1>6 DEF JobsInv

\* A step that changes neither nodes nor jobs preserves all but the types.
LEMMA IdleStepKeeps ==
  ASSUME IInv, TypeOK', UNCHANGED <<nodes, initialized, mtx, job>>
  PROVE  IInv'
  BY DEF IInv, JobNamesPort, LockedHoldsMutex, SetStepsOnEventThread,
     NestedOnEventThread, AssociationsNamePort, ProfilesBuilt,
     InitializedHasProfiles

\* The first event, and what is left behind it.
LEMMA EventFacts ==
  ASSUME IInv, events # <<>>
  PROVE  Head(events) \in Event /\ Tail(events) \in Seq(Event)
         /\ Tail(events) # events
<1>1. events \in Seq(Event)
  BY DEF IInv, TypeOK
<1>2. Len(Tail(events)) # Len(events)
  BY <1>1
<1> QED
  BY <1>1, <1>2, HeadTailProperties

\* The event thread's three ways to start on an event preserve the invariant.
LEMMA HandleEventKeeps == ASSUME IInv, HandleEvent PROVE IInv'
<1> USE EventFacts
<1>1. CASE EventCreate
  <2> USE <1>1 DEF EventCreate
  <2>1. Head(events).port \in Ports
    BY DEF Event
  <2>2. CASE UNCHANGED job
    <3>1. TypeOK'
      BY <2>2 DEF IInv, TypeOK
    <3> QED
      BY <2>2, <3>1, IdleStepKeeps
  <2>3. CASE LookedUp(EventThread, Head(events).port)
    <3>1. JobsInv' /\ ProfilesBuilt' /\ InitializedHasProfiles'
      BY <2>1, <2>3, LookedUpKeeps
    <3>2. TypeOK'
      BY <3>1 DEF IInv, TypeOK, JobsInv
    <3> QED
      BY <3>1, <3>2 DEF IInv, JobsInv
  <2> QED
    BY <2>2, <2>3
<1>2. CASE EventDelete
  <2> USE <1>2 DEF EventDelete
  <2>1. Head(events).port \in Ports
    BY DEF Event
  <2>2. \A t \in Threads : job[t].pc \notin Locked
    BY DEF IInv, LockedHoldsMutex
  <2>3. TypeOK'
    BY <2>1 DEF IInv, TypeOK, Binding
  <2>4. ProfilesBuilt'
    BY <2>2 DEF ProfilesBuilt, Locked, InitSteps
  <2>5. InitializedHasProfiles'
    BY <2>1 DEF IInv, TypeOK, InitializedHasProfiles
  <2> QED
    BY <2>3, <2>4, <2>5 DEF IInv, JobNamesPort, LockedHoldsMutex,
       SetStepsOnEventThread, NestedOnEventThread, AssociationsNamePort
<1>3. CASE EventSet
  <2> USE <1>3 DEF EventSet
  <2> DEFINE j == [pc |-> IF Head(events).op = "add" THEN "addIngress" ELSE "rmPg",
                   port |-> Head(events).port, saw |-> Absent,
                   npu |-> Head(events).npu, ret |-> "idle"]
  <2>1. j \in Job /\ j.port \in Ports /\ j.npu \in Mapping
    BY DEF Event, Job, Locked, SetSteps
  <2>2. \A t \in Threads : job[t].pc \notin Locked
    BY DEF IInv, LockedHoldsMutex
  <2>3. job' = [job EXCEPT ![EventThread] = j] /\ mtx' = EventThread
    OBVIOUS
  <2>4. TypeOK'
    BY <2>1, <2>3 DEF IInv, TypeOK
  <2>5. /\ JobNamesPort' /\ SetStepsOnEventThread' /\ NestedOnEventThread'
        /\ AssociationsNamePort'
    BY <2>1, <2>3 DEF IInv, TypeOK, JobNamesPort, SetStepsOnEventThread,
       NestedOnEventThread, AssociationsNamePort
  <2>6. LockedHoldsMutex'
    BY <2>2, <2>3 DEF IInv, TypeOK, LockedHoldsMutex
  <2>7. ProfilesBuilt'
    BY <2>3 DEF IInv, TypeOK, ProfilesBuilt
  <2>8. InitializedHasProfiles'
    BY DEF IInv, InitializedHasProfiles
  <2> QED
    BY <2>4, <2>5, <2>6, <2>7, <2>8 DEF IInv
<1> QED
  BY <1>1, <1>2, <1>3 DEF HandleEvent

\* Binding the ingress node preserves the invariant.
LEMMA AddIngressKeeps == ASSUME IInv, AddIngress PROVE IInv'
<1> USE JobFacts, BindingFacts DEF AddIngress, Running, Elsewhere, Target, Npu
<1>1. job[EventThread].pc = "addIngress" /\ Target \in Ports /\ mtx = EventThread
      /\ Npu \in Mapping
  BY DEF Locked, SetSteps
<1>2. JobsInv'
  <2>1. CASE PushThen("addEgress")
    BY <1>1, <2>1, PushKeeps DEF SetSteps
  <2>2. CASE UNCHANGED job
    BY <2>2 DEF IInv, TypeOK, JobsInv, JobNamesPort, LockedHoldsMutex,
       SetStepsOnEventThread, NestedOnEventThread, AssociationsNamePort
  <2> QED
    BY <2>1, <2>2
<1>3. ingress' \in [Ports -> Binding]
  BY <1>1 DEF IInv, TypeOK, Binding, Mapping
<1>4. TypeOK'
  BY <1>2, <1>3 DEF IInv, TypeOK, JobsInv
<1>5. \A t \in Threads : /\ t # EventThread => job'[t] = job[t]
                            /\ job'[EventThread].pc \notin {"egress", "mark"}
  <2>1. CASE Goto(EventThread, "addEgress")
    BY <1>1, <2>1 DEF IInv, TypeOK, Goto, At
  <2>2. CASE UNCHANGED job
    BY <1>1, <2>2
  <2>3. CASE PushThen("addEgress") /\ ~Goto(EventThread, "addEgress")
    BY <1>1, <2>3 DEF IInv, TypeOK, PushThen
  <2> QED
    BY <2>1, <2>2, <2>3
<1>6. \A p \in Ports : ingress[p] # Absent => ingress'[p] # Absent
  BY <1>1 DEF IInv, TypeOK, Mapping
<1>7. ProfilesBuilt'
  BY <1>5, <1>6 DEF IInv, ProfilesBuilt, JobNamesPort
<1>8. InitializedHasProfiles'
  BY <1>6 DEF IInv, TypeOK, InitializedHasProfiles
<1> QED
  BY <1>2, <1>4, <1>7, <1>8 DEF IInv, JobsInv

\* Binding the egress node preserves the invariant.
LEMMA AddEgressKeeps == ASSUME IInv, AddEgress PROVE IInv'
<1> USE JobFacts, BindingFacts DEF AddEgress, Running, Elsewhere, Target, Npu
<1>1. job[EventThread].pc = "addEgress" /\ Target \in Ports /\ mtx = EventThread
      /\ Npu \in Mapping
  BY DEF Locked, SetSteps
<1>2. JobsInv'
  <2>1. CASE PushThen("addQueue")
    BY <1>1, <2>1, PushKeeps DEF SetSteps
  <2>2. CASE UNCHANGED job
    BY <2>2 DEF IInv, TypeOK, JobsInv, JobNamesPort, LockedHoldsMutex,
       SetStepsOnEventThread, NestedOnEventThread, AssociationsNamePort
  <2> QED
    BY <2>1, <2>2
<1>3. egress' \in [Ports -> Binding]
  BY <1>1 DEF IInv, TypeOK, Binding, Mapping
<1>4. TypeOK'
  BY <1>2, <1>3 DEF IInv, TypeOK, JobsInv
<1>5. \A t \in Threads : /\ t # EventThread => job'[t] = job[t]
                            /\ job'[EventThread].pc \notin {"egress", "mark"}
  <2>1. CASE Goto(EventThread, "addQueue")
    BY <1>1, <2>1 DEF IInv, TypeOK, Goto, At
  <2>2. CASE UNCHANGED job
    BY <1>1, <2>2
  <2>3. CASE PushThen("addQueue") /\ ~Goto(EventThread, "addQueue")
    BY <1>1, <2>3 DEF IInv, TypeOK, PushThen
  <2> QED
    BY <2>1, <2>2, <2>3
<1>6. \A p \in Ports : egress[p] # Absent => egress'[p] # Absent
  BY <1>1 DEF IInv, TypeOK, Mapping
<1>7. ProfilesBuilt'
  BY <1>5, <1>6 DEF IInv, ProfilesBuilt, JobNamesPort
<1>8. InitializedHasProfiles'
  BY <1>6 DEF IInv, TypeOK, InitializedHasProfiles
<1> QED
  BY <1>2, <1>4, <1>7, <1>8 DEF IInv, JobsInv

\* Binding the queues preserves the invariant.
LEMMA AddQueuesKeeps == ASSUME IInv, AddQueues PROVE IInv'
<1> USE JobFacts, BindingFacts DEF AddQueues, Running, Elsewhere, Target, Npu
<1>1. job[EventThread].pc = "addQueue" /\ Target \in Ports /\ mtx = EventThread
      /\ Npu \in Mapping
  BY DEF Locked, SetSteps
<1>2. JobsInv'
  BY <1>1, GotoKeeps, PushKeeps DEF Locked, SetSteps
<1>3. queue' \in [Ports -> Binding]
  BY <1>1 DEF IInv, TypeOK, Binding, Mapping
<1>4. TypeOK'
  BY <1>2, <1>3 DEF IInv, TypeOK, JobsInv
<1>5. \A t \in Threads : /\ t # EventThread => job'[t] = job[t]
                            /\ job'[EventThread].pc \notin {"egress", "mark"}
  BY <1>1 DEF IInv, TypeOK, PushThen, Goto, At
<1>7. ProfilesBuilt'
  BY <1>5 DEF IInv, ProfilesBuilt
<1>8. InitializedHasProfiles'
  BY DEF IInv, InitializedHasProfiles
<1> QED
  BY <1>2, <1>4, <1>7, <1>8 DEF IInv, JobsInv

\* Binding the scheduler groups preserves the invariant.
LEMMA AddGroupsKeeps == ASSUME IInv, AddGroups PROVE IInv'
<1> USE JobFacts, BindingFacts DEF AddGroups, Running, Elsewhere, Target, Npu
<1>1. job[EventThread].pc = "addGroup" /\ Target \in Ports /\ mtx = EventThread
      /\ Npu \in Mapping
  BY DEF Locked, SetSteps
<1>2. JobsInv'
  BY <1>1, GotoKeeps DEF Locked, SetSteps
<1>3. group' \in [Ports -> Binding]
  BY <1>1 DEF IInv, TypeOK, Binding, Mapping
<1>4. TypeOK'
  BY <1>2, <1>3 DEF IInv, TypeOK, JobsInv
<1>5. \A t \in Threads : /\ t # EventThread => job'[t] = job[t]
                            /\ job'[EventThread].pc \notin {"egress", "mark"}
  BY <1>1 DEF IInv, TypeOK, PushThen, Goto, At
<1>7. ProfilesBuilt'
  BY <1>5 DEF IInv, ProfilesBuilt
<1>8. InitializedHasProfiles'
  BY DEF IInv, InitializedHasProfiles
<1> QED
  BY <1>2, <1>4, <1>7, <1>8 DEF IInv, JobsInv

\* Binding the priority groups preserves the invariant.
LEMMA AddPriorityGroupsKeeps == ASSUME IInv, AddPriorityGroups PROVE IInv'
<1> USE JobFacts, BindingFacts DEF AddPriorityGroups, Running, Elsewhere, Target, Npu
<1>1. job[EventThread].pc = "addPg" /\ Target \in Ports /\ mtx = EventThread
      /\ Npu \in Mapping
  BY DEF Locked, SetSteps
<1>2. JobsInv'
  BY <1>1, GotoKeeps, PushKeeps DEF Locked, SetSteps
<1>3. pg' \in [Ports -> Binding]
  BY <1>1 DEF IInv, TypeOK, Binding, Mapping
<1>4. TypeOK'
  BY <1>2, <1>3 DEF IInv, TypeOK, JobsInv
<1>5. \A t \in Threads : /\ t # EventThread => job'[t] = job[t]
                            /\ job'[EventThread].pc \notin {"egress", "mark"}
  BY <1>1 DEF IInv, TypeOK, PushThen, Goto, At
<1>7. ProfilesBuilt'
  BY <1>5 DEF IInv, ProfilesBuilt
<1>8. InitializedHasProfiles'
  BY DEF IInv, InitializedHasProfiles
<1> QED
  BY <1>2, <1>4, <1>7, <1>8 DEF IInv, JobsInv

\* Replacing the priority groups preserves the invariant.
LEMMA RemovePriorityGroupsKeeps == ASSUME IInv, RemovePriorityGroups PROVE IInv'
<1> USE JobFacts, BindingFacts DEF RemovePriorityGroups, Running, Elsewhere, Target, Npu
<1>1. job[EventThread].pc = "rmPg" /\ Target \in Ports /\ mtx = EventThread
      /\ Npu \in Mapping
  BY DEF Locked, SetSteps
<1>2. JobsInv'
  BY <1>1, PushKeeps DEF SetSteps
<1>3. pg' \in [Ports -> Binding]
  BY <1>1 DEF IInv, TypeOK, Binding, Mapping
<1>4. TypeOK'
  BY <1>2, <1>3 DEF IInv, TypeOK, JobsInv
<1>5. \A t \in Threads : /\ t # EventThread => job'[t] = job[t]
                            /\ job'[EventThread].pc \notin {"egress", "mark"}
  BY <1>1 DEF IInv, TypeOK, PushThen, Goto, At
<1>7. ProfilesBuilt'
  BY <1>5 DEF IInv, ProfilesBuilt
<1>8. InitializedHasProfiles'
  BY DEF IInv, InitializedHasProfiles
<1> QED
  BY <1>2, <1>4, <1>7, <1>8 DEF IInv, JobsInv

\* Unbinding the queues and their parents and replacing the ingress node
\* preserves the invariant.
LEMMA RemoveQueuesGroupsIngressKeeps == ASSUME IInv, RemoveQueuesGroupsIngress PROVE IInv'
<1> USE JobFacts, BindingFacts DEF RemoveQueuesGroupsIngress, Running, Elsewhere, Target, Npu
<1>1. job[EventThread].pc = "rmQueue" /\ Target \in Ports /\ mtx = EventThread
      /\ Npu \in Mapping
  BY DEF Locked, SetSteps
<1>2. JobsInv'
  BY <1>1, PushKeeps DEF SetSteps
<1>3. queue' \in [Ports -> Binding] /\ group' \in [Ports -> Binding] /\ ingress' \in [Ports -> Binding]
  BY <1>1 DEF IInv, TypeOK, Binding, Mapping
<1>4. TypeOK'
  BY <1>2, <1>3 DEF IInv, TypeOK, JobsInv
<1>5. \A t \in Threads : /\ t # EventThread => job'[t] = job[t]
                            /\ job'[EventThread].pc \notin {"egress", "mark"}
  BY <1>1 DEF IInv, TypeOK, PushThen, Goto, At
<1>6. \A p \in Ports : ingress[p] # Absent => ingress'[p] # Absent
  BY <1>1 DEF IInv, TypeOK, Mapping
<1>7. ProfilesBuilt'
  BY <1>5, <1>6 DEF IInv, ProfilesBuilt, JobNamesPort
<1>8. InitializedHasProfiles'
  BY <1>6 DEF IInv, TypeOK, InitializedHasProfiles
<1> QED
  BY <1>2, <1>4, <1>7, <1>8 DEF IInv, JobsInv

\* Replacing the egress node preserves the invariant.
LEMMA RemoveEgressKeeps == ASSUME IInv, RemoveEgress PROVE IInv'
<1> USE JobFacts, BindingFacts DEF RemoveEgress, Running, Elsewhere, Target, Npu
<1>1. job[EventThread].pc = "rmEgress" /\ Target \in Ports /\ mtx = EventThread
      /\ Npu \in Mapping
  BY DEF Locked, SetSteps
<1>2. JobsInv'
  BY <1>1, PushKeeps DEF SetSteps
<1>3. egress' \in [Ports -> Binding]
  BY <1>1 DEF IInv, TypeOK, Binding, Mapping
<1>4. TypeOK'
  BY <1>2, <1>3 DEF IInv, TypeOK, JobsInv
<1>5. \A t \in Threads : /\ t # EventThread => job'[t] = job[t]
                            /\ job'[EventThread].pc \notin {"egress", "mark"}
  BY <1>1 DEF IInv, TypeOK, PushThen, Goto, At
<1>6. \A p \in Ports : egress[p] # Absent => egress'[p] # Absent
  BY <1>1 DEF IInv, TypeOK, Mapping
<1>7. ProfilesBuilt'
  BY <1>5, <1>6 DEF IInv, ProfilesBuilt, JobNamesPort
<1>8. InitializedHasProfiles'
  BY <1>6 DEF IInv, TypeOK, InitializedHasProfiles
<1> QED
  BY <1>2, <1>4, <1>7, <1>8 DEF IInv, JobsInv

\* Releasing the mutex preserves the invariant.
LEMMA UnlockKeeps == ASSUME IInv, Unlock PROVE IInv'
<1> USE DEF Unlock, Running
<1>1. mtx = EventThread
  BY DEF IInv, LockedHoldsMutex, Locked
<1>2. \A t \in Threads : t # EventThread => job[t].pc \notin Locked
  BY <1>1 DEF IInv, LockedHoldsMutex
<1>3. TypeOK'
  BY DEF IInv, TypeOK, Idle, Job
<1>4. /\ JobNamesPort' /\ SetStepsOnEventThread' /\ NestedOnEventThread'
      /\ AssociationsNamePort'
  BY DEF IInv, TypeOK, JobNamesPort, SetStepsOnEventThread, NestedOnEventThread,
     AssociationsNamePort,
     Idle, SetSteps
<1>5. LockedHoldsMutex'
  BY <1>2 DEF IInv, TypeOK, LockedHoldsMutex, Idle, Locked, InitSteps, SetSteps
<1>6. ProfilesBuilt'
  BY DEF IInv, TypeOK, ProfilesBuilt, Idle
<1>7. InitializedHasProfiles'
  BY DEF IInv, InitializedHasProfiles
<1> QED
  BY <1>3, <1>4, <1>5, <1>6, <1>7 DEF IInv

\* A request for a port that is not initialised preserves the invariant.
LEMMA OnDemandKeeps ==
  ASSUME IInv, NEW t \in CpsThreads, NEW p \in Ports, OnDemand(t, p)
  PROVE  IInv'
<1>1. JobsInv' /\ ProfilesBuilt' /\ InitializedHasProfiles'
  BY LookedUpKeeps DEF OnDemand
<1>2. TypeOK'
  BY <1>1 DEF OnDemand, IInv, TypeOK, JobsInv
<1> QED
  BY <1>1, <1>2 DEF IInv, JobsInv

\* Every step of the start-up scan preserves the invariant.
LEMMA ScanKeeps == ASSUME IInv, Scan PROVE IInv'
<1>1. CASE Subscribe \/ ScanSnapshot
  <2>1. TypeOK'
    BY <1>1 DEF Subscribe, ScanSnapshot, IInv, TypeOK
  <2> QED
    BY <1>1, <2>1, IdleStepKeeps DEF Subscribe, ScanSnapshot
<1>2. ASSUME NEW p \in Ports, ScanPort(p) PROVE IInv'
  <2> USE <1>2 DEF ScanPort
  <2>1. CASE UNCHANGED job
    <3>1. TypeOK'
      BY <2>1 DEF IInv, TypeOK
    <3> QED
      BY <2>1, <3>1, IdleStepKeeps
  <2>2. CASE LookedUp(ScanThread, p)
    <3>1. JobsInv' /\ ProfilesBuilt' /\ InitializedHasProfiles'
      BY <2>2, LookedUpKeeps
    <3>2. TypeOK'
      BY <3>1 DEF IInv, TypeOK, JobsInv
    <3> QED
      BY <3>1, <3>2 DEF IInv, JobsInv
  <2> QED
    BY <2>1, <2>2
<1> QED
  BY <1>1, <1>2 DEF Scan

\* A restart establishes the invariant anew.
LEMMA RestartKeeps == ASSUME IInv, Restart PROVE IInv'
  BY DEF Restart, IInv, TypeOK, JobNamesPort, LockedHoldsMutex,
     SetStepsOnEventThread, NestedOnEventThread, AssociationsNamePort,
     ProfilesBuilt,
     InitializedHasProfiles, NoNode, Binding, Idle, Job, Locked, InitSteps, SetSteps

\* Every step preserves the inductive invariant.
LEMMA NextIInv == IInv /\ [Next]_vars => IInv'
<1> SUFFICES ASSUME IInv, [Next]_vars PROVE IInv'
  OBVIOUS
<1>1. CASE Interface
  BY <1>1, InterfaceKeeps
<1>2. ASSUME NEW t \in CpsThreads, NEW p \in Ports, OnDemand(t, p) PROVE IInv'
  BY <1>2, OnDemandKeeps
<1>3. ASSUME NEW t \in Threads, Initialise(t) PROVE IInv'
  BY <1>3, LockKeeps, InitQueuesKeeps, InitGroupsKeeps, InitPriorityGroupsKeeps,
     InitIngressKeeps, InitEgressKeeps, MarkInitializedKeeps DEF Initialise
<1>4. CASE HandleEvent
  BY <1>4, HandleEventKeeps
<1>5. CASE Associate
  BY <1>5, AddIngressKeeps, AddEgressKeeps, AddQueuesKeeps, AddGroupsKeeps,
     AddPriorityGroupsKeeps, RemovePriorityGroupsKeeps,
     RemoveQueuesGroupsIngressKeeps, RemoveEgressKeeps, UnlockKeeps DEF Associate
<1>6. CASE Scan
  BY <1>6, ScanKeeps
<1>7. CASE Restart
  BY <1>7, RestartKeeps
<1>8. CASE UNCHANGED vars
  <2>1. TypeOK'
    BY <1>8 DEF vars, IInv, TypeOK
  <2> QED
    BY <1>8, <2>1, IdleStepKeeps DEF vars
<1> QED
  BY <1>1, <1>2, <1>3, <1>4, <1>5, <1>6, <1>7, <1>8 DEF Next

\* The invariant holds throughout: in every reachable state a locked handler
\* holds the mutex, and the profile nodes it has passed exist.
THEOREM Invariance == Spec => []IInv
<1>1. Init => IInv
  BY InitIInv
<1>2. IInv /\ [Next]_vars => IInv'
  BY NextIInv
<1> QED
  BY <1>1, <1>2, PTL DEF Spec

\* All variables keep their types, for any number of interface changes, ports and
\* threads.
THEOREM TypeCorrect == Spec => []TypeOK
<1>1. IInv => TypeOK
  BY DEF IInv
<1> QED
  BY <1>1, Invariance, PTL

\* Whatever the threads, the look-ups and the interface events do at the same
\* time, a port on initialized_port_list has its ingress and egress nodes: the
\* unchecked pointers of nas_qos_port_ingress_association and
\* nas_qos_port_egress_association are valid for every initialised port.
THEOREM ProfilesPresent == Spec => []InitializedHasProfiles
<1>1. IInv => InitializedHasProfiles
  BY DEF IInv
<1> QED
  BY <1>1, Invariance, PTL


----------------------------------------------------------------------------
(* Initialisation never rebinds *)

\* A step that leaves the scheduler groups alone and brings no thread to their
\* initialisation preserves FreshGroups.
LEMMA GroupsUntouched ==
  ASSUME IInv, FreshGroups, UNCHANGED groups, NEW t \in Threads, NEW j,
         j.pc # "group", job' = [job EXCEPT ![t] = j]
  PROVE  FreshGroups'
  BY DEF FreshGroups, GroupsExist, IInv, TypeOK

\* A DB push brings the event thread to the queues or to the next step.
LEMMA PushUntouched ==
  ASSUME IInv, FreshGroups, UNCHANGED groups, NEW s \in SetSteps \cup {"unlock"},
         PushThen(s)
  PROVE  FreshGroups'
<1>1. s # "group"
  BY DEF SetSteps
<1> QED
  BY <1>1, GroupsUntouched DEF PushThen, Goto, At

\* A step of the thread in the mutex from a step that is not the one to build the
\* scheduler groups, which it may change.
LEMMA NobodyBuilds ==
  ASSUME IInv, NEW t \in Threads, mtx = t, job[t].pc # "group"
  PROVE  \A u \in Threads : job[u].pc # "group"
  BY DEF IInv, LockedHoldsMutex, Locked, InitSteps

\* Every step of an initialisation preserves FreshGroups.
LEMMA InitialiseFresh ==
  ASSUME IInv, FreshGroups, NEW t \in Threads, Initialise(t)
  PROVE  FreshGroups'
<1> USE GroupsUntouched DEF Running, Elsewhere, Goto, At
<1>1. CASE Lock(t) \/ InitPriorityGroups(t) \/ InitIngress(t) \/ InitEgress(t)
  BY <1>1 DEF Lock, InitPriorityGroups, InitIngress, InitEgress
<1>2. CASE InitQueues(t)
  <2> USE <1>2 DEF InitQueues
  <2>1. CASE Goto(t, "pg")
    BY <2>1
  <2>2. CASE Goto(t, "group") /\ ~GroupsExist(job[t].port)
    <3>1. \A u \in Threads : u # t => job[u].pc # "group"
      BY DEF IInv, LockedHoldsMutex, Locked, InitSteps
    <3> QED
      BY <2>2, <3>1 DEF FreshGroups, GroupsExist, IInv, TypeOK
  <2> QED
    BY <2>1, <2>2
<1>3. CASE InitGroups(t)
  <2>1. mtx = t
    BY <1>3 DEF InitGroups, IInv, LockedHoldsMutex, Locked, InitSteps
  <2>2. \A u \in Threads : u # t => job[u].pc # "group"
    BY <2>1 DEF IInv, LockedHoldsMutex, Locked, InitSteps
  <2> QED
    BY <1>3, <2>2 DEF InitGroups, FreshGroups, IInv, TypeOK
<1>4. CASE MarkInitialized(t)
  <2>1. job[t].ret # "group"
    BY DEF IInv, TypeOK, Job, SetSteps
  <2> QED
    BY <1>4, <2>1 DEF MarkInitialized, Idle
<1> QED
  BY <1>1, <1>2, <1>3, <1>4 DEF Initialise

\* Every step of an association preserves FreshGroups.
LEMMA AssociateFresh ==
  ASSUME IInv, FreshGroups, Associate
  PROVE  FreshGroups'
<1> USE GroupsUntouched, PushUntouched DEF Running, Elsewhere, Goto, At, SetSteps
<1>1. CASE AddIngress \/ AddEgress
  <2>1. CASE UNCHANGED <<job, groups>>
    BY <2>1 DEF FreshGroups, GroupsExist
  <2> QED
    BY <1>1, <2>1 DEF AddIngress, AddEgress
<1>2. CASE AddQueues \/ AddPriorityGroups
  BY <1>2 DEF AddQueues, AddPriorityGroups
<1>3. CASE RemovePriorityGroups \/ RemoveEgress
  BY <1>3 DEF RemovePriorityGroups, RemoveEgress
<1>4. CASE Unlock
  BY <1>4 DEF Unlock, Idle
<1>5. CASE AddGroups
  <2>1. \A u \in Threads : job[u].pc # "group"
    BY <1>5, NobodyBuilds DEF AddGroups, IInv, LockedHoldsMutex, Locked
  <2>2. \A u \in Threads : job'[u].pc # "group"
    BY <1>5, <2>1 DEF AddGroups, IInv, TypeOK
  <2> QED
    BY <2>2 DEF FreshGroups
<1>6. CASE RemoveQueuesGroupsIngress
  <2>1. \A u \in Threads : job[u].pc # "group"
    BY <1>6, NobodyBuilds DEF RemoveQueuesGroupsIngress, IInv, LockedHoldsMutex,
       Locked
  <2>2. \A u \in Threads : job'[u].pc # "group"
    BY <1>6, <2>1 DEF RemoveQueuesGroupsIngress, PushThen, IInv, TypeOK
  <2> QED
    BY <2>2 DEF FreshGroups
<1> QED
  BY <1>1, <1>2, <1>3, <1>4, <1>5, <1>6 DEF Associate

\* Every step preserves FreshGroups.
LEMMA NextFresh == IInv /\ FreshGroups /\ [Next]_vars => FreshGroups'
<1> SUFFICES ASSUME IInv, FreshGroups, [Next]_vars PROVE FreshGroups'
  OBVIOUS
<1>1. ASSUME NEW t \in Threads, NEW p \in Ports, LookedUp(t, p), UNCHANGED groups
      PROVE  FreshGroups'
  BY <1>1, GroupsUntouched DEF LookedUp
<1>2. CASE UNCHANGED <<job, groups>>
  BY <1>2 DEF FreshGroups, GroupsExist
<1>3. CASE Interface
  BY <1>2, <1>3 DEF Interface, IfCreate, IfDelete, IfMap, IfUnmap, Change
<1>4. ASSUME NEW t \in CpsThreads, NEW p \in Ports, OnDemand(t, p)
      PROVE  FreshGroups'
  BY <1>1, <1>4 DEF OnDemand
<1>5. CASE \E t \in Threads : Initialise(t)
  BY <1>5, InitialiseFresh
<1>6. CASE EventCreate
  <2>1. events # <<>> => Head(events).port \in Ports
    BY EventFacts DEF Event
  <2> QED
    BY <1>1, <1>2, <1>6, <2>1 DEF EventCreate
<1>7. CASE EventDelete
  <2>1. \A u \in Threads : job'[u].pc # "group"
    BY <1>7 DEF EventDelete, IInv, LockedHoldsMutex, Locked, InitSteps
  <2> QED
    BY <2>1 DEF FreshGroups
<1>8. CASE EventSet
  <2>1. job'[EventThread].pc # "group"
    BY <1>8 DEF EventSet, IInv, TypeOK
  <2>2. \A u \in Threads : u # EventThread => job'[u] = job[u]
    BY <1>8 DEF EventSet, IInv, TypeOK
  <2> QED
    BY <1>8, <2>1, <2>2 DEF EventSet, FreshGroups, GroupsExist
<1>9. CASE Associate
  BY <1>9, AssociateFresh
<1>10. CASE Scan
  BY <1>1, <1>2, <1>10 DEF Scan, Subscribe, ScanSnapshot, ScanPort
<1>11. CASE Restart
  BY <1>11 DEF Restart, FreshGroups, Idle
<1>12. CASE UNCHANGED vars
  BY <1>2, <1>12 DEF vars
<1> QED
  BY <1>3, <1>4, <1>5, <1>6, <1>7, <1>8, <1>9, <1>10, <1>11, <1>12
  DEF Next, HandleEvent

\* A step of an initialisation keeps every node that exists.
LEMMA InitialiseKeepsNodes ==
  ASSUME IInv, FreshGroups, NEW t \in Threads, Initialise(t)
  PROVE  OnlyEventsRebind
<1> USE DEF Running, Elsewhere, OnlyEventsRebind, Kept
<1>1. CASE Lock(t) \/ MarkInitialized(t)
  BY <1>1 DEF Lock, MarkInitialized
<1>2. CASE InitQueues(t)
  BY <1>2 DEF InitQueues, IInv, TypeOK
<1>3. CASE InitGroups(t)
  <2>1. group[job[t].port] = Absent /\ upper[job[t].port] = Absent
    BY <1>3 DEF InitGroups, FreshGroups, GroupsExist
  <2> QED
    BY <1>3, <2>1 DEF InitGroups, IInv, TypeOK
<1>4. CASE InitPriorityGroups(t)
  BY <1>4 DEF InitPriorityGroups, IInv, TypeOK
<1>5. CASE InitIngress(t)
  BY <1>5 DEF InitIngress, IInv, TypeOK
<1>6. CASE InitEgress(t)
  BY <1>6 DEF InitEgress, IInv, TypeOK
<1> QED
  BY <1>1, <1>2, <1>3, <1>4, <1>5, <1>6 DEF Initialise

\* A step of an association has the mutex; its last one changes no node.
LEMMA AssociateRebindsLocked ==
  ASSUME IInv, Associate
  PROVE  OnlyEventsRebind
<1>1. CASE Unlock
  BY <1>1 DEF Unlock, OnlyEventsRebind, Kept
<1>2. CASE ~Unlock
  <2>1. job[EventThread].pc \in SetSteps
    BY <1>2 DEF Associate, Running, AddIngress, AddEgress, AddQueues, AddGroups,
       AddPriorityGroups, RemovePriorityGroups, RemoveQueuesGroupsIngress,
       RemoveEgress, SetSteps
  <2> QED
    BY <2>1 DEF IInv, LockedHoldsMutex, Locked, OnlyEventsRebind
<1> QED
  BY <1>1, <1>2

\* Between its creation and its removal a node is bound anew only by an
\* association on the event thread: no initialisation, on whichever of the
\* threads, touches a node that exists (nas_qos_port_hqos_init,
\* nas_qos_port_priority_group_init, nas_qos_port_ingress_init and
\* nas_qos_port_egress_init, called by nas_qos_if_create_notify).
THEOREM NeverRebound == Spec => InitNeverRebinds
<1>1. Init => FreshGroups
  BY DEF Init, FreshGroups, Idle
<1>2. IInv /\ FreshGroups /\ [Next]_vars => [OnlyEventsRebind]_vars
  <2> SUFFICES ASSUME IInv, FreshGroups, Next PROVE OnlyEventsRebind
    OBVIOUS
  <2>1. CASE UNCHANGED nodes
    BY <2>1 DEF OnlyEventsRebind, Kept
  <2>2. CASE Interface
    BY <2>1, <2>2 DEF Interface, IfCreate, IfDelete, IfMap, IfUnmap, Change
  <2>3. CASE \E t \in CpsThreads, p \in Ports : OnDemand(t, p)
    BY <2>1, <2>3 DEF OnDemand
  <2>4. CASE \E t \in Threads : Initialise(t)
    BY <2>4, InitialiseKeepsNodes
  <2>5. CASE HandleEvent
    BY <2>5, EventFacts
    DEF HandleEvent, EventCreate, EventDelete, EventSet, OnlyEventsRebind
  <2>6. CASE Associate
    BY <2>6, AssociateRebindsLocked
  <2>7. CASE Scan
    BY <2>1, <2>7 DEF Scan, Subscribe, ScanSnapshot, ScanPort
  <2>8. CASE Restart
    BY <2>8 DEF Restart, OnlyEventsRebind
  <2> QED
    BY <2>2, <2>3, <2>4, <2>5, <2>6, <2>7, <2>8 DEF Next
<1> QED
  BY <1>1, <1>2, InitIInv, NextIInv, NextFresh, PTL DEF Spec, InitNeverRebinds

\* The invariant that the runs check as a whole holds in every reachable state, the part
\* about the scheduler groups included: a port is never given them twice
\* (nas_qos_port_hqos_init).
THEOREM InductiveHolds == Spec => []Inductive
<1>1. Init => FreshGroups
  BY DEF Init, FreshGroups, Idle
<1>2. IInv /\ FreshGroups <=> Inductive
  BY DEF Inductive
<1> QED
  BY <1>1, <1>2, Invariance, NextFresh, PTL DEF Spec

----------------------------------------------------------------------------
(* Queues and scheduler groups together                                     *)

InInit == InitSteps \cup {"looked"}

\* What a thread saw of an interface that did not change since is what there is.
LookUpsHold ==
    \A t \in Threads :
       job[t].pc \in InInit /\ job[t].port \notin raced =>
          job[t].saw = intf[job[t].port] /\ job[t].saw # Absent

\* Between the two halves of nas_qos_port_hqos_init there are queues.
Builds(t, p) == job[t].pc = "group" /\ job[t].port = p
Paired(p) ==
    IF \E t \in Threads : Builds(t, p) THEN queue[p] # Absent
    ELSE queue[p] = Absent <=> group[p] = Absent
AllPaired == \A p \in Ports \ raced : Paired(p)

\* A thread that goes on in its initialisation still knows what it saw.
LEMMA LookUpsKept ==
  ASSUME IInv, LookUpsHold, UNCHANGED <<intf, raced>>, NEW t \in Threads, NEW j,
         job' = [job EXCEPT ![t] = j],
         j.pc \in InInit =>
            \/ job[t].pc \in InInit /\ j.port = job[t].port /\ j.saw = job[t].saw
            \/ j.saw = intf[j.port] /\ j.saw # Absent
  PROVE  LookUpsHold'
<1>1. \A u \in Threads : job'[u] = IF u = t THEN j ELSE job[u]
  BY DEF IInv, TypeOK
<1> QED
  BY <1>1 DEF LookUpsHold

\* A DB push of the event thread looks the interface up again, or moves on.
LEMMA PushLookUps ==
  ASSUME IInv, LookUpsHold, UNCHANGED <<intf, raced>>, NEW s \in SetSteps \cup {"unlock"},
         PushThen(s)
  PROVE  LookUpsHold'
<1>1. s \notin InInit
  BY DEF SetSteps, InInit, InitSteps
<1> QED
  BY <1>1, LookUpsKept DEF PushThen, Goto, At

\* Every step of an initialisation keeps what was seen.
LEMMA InitialiseLookUps ==
  ASSUME IInv, LookUpsHold, NEW t \in Threads, Initialise(t)
  PROVE  LookUpsHold'
<1>1. ASSUME NEW s, Goto(t, s), job[t].pc \in InInit, UNCHANGED <<intf, raced>>
      PROVE  LookUpsHold'
  BY <1>1, LookUpsKept DEF Goto, At
<1>2. CASE Lock(t) \/ InitQueues(t) \/ InitGroups(t) \/ InitPriorityGroups(t)
             \/ InitIngress(t) \/ InitEgress(t)
  BY <1>1, <1>2 DEF Lock, InitQueues, InitGroups, InitPriorityGroups, InitIngress, InitEgress,
     Running, Elsewhere, InInit, InitSteps
<1>3. CASE MarkInitialized(t)
  <2>1. CASE job' = [job EXCEPT ![t] = Idle]
    BY <1>3, <2>1, LookUpsKept DEF MarkInitialized, Idle, InInit, InitSteps
  <2>2. CASE Goto(t, job[t].ret)
    BY <1>1, <1>3, <2>2 DEF MarkInitialized, Running, InInit, InitSteps
  <2> QED
    BY <1>3, <2>1, <2>2 DEF MarkInitialized
<1> QED
  BY <1>2, <1>3 DEF Initialise

\* So does every step of an association.
LEMMA AssociateLookUps ==
  ASSUME IInv, LookUpsHold, Associate
  PROVE  LookUpsHold'
<1> USE PushLookUps DEF Running, Elsewhere, SetSteps
<1>1. ASSUME NEW s \in SetSteps \cup {"unlock"}, Goto(EventThread, s), UNCHANGED <<intf, raced>>
      PROVE  LookUpsHold'
  BY <1>1, PushLookUps DEF PushThen
<1>2. CASE AddIngress \/ AddEgress
  <2>1. CASE UNCHANGED <<job, intf, raced>>
    BY <2>1 DEF LookUpsHold
  <2> QED
    BY <1>2, <2>1 DEF AddIngress, AddEgress
<1>3. CASE AddQueues \/ AddGroups \/ AddPriorityGroups
  BY <1>1, <1>3 DEF AddQueues, AddGroups, AddPriorityGroups
<1>4. CASE RemovePriorityGroups \/ RemoveQueuesGroupsIngress \/ RemoveEgress
  BY <1>4 DEF RemovePriorityGroups, RemoveQueuesGroupsIngress, RemoveEgress
<1>5. CASE Unlock
  BY <1>5, LookUpsKept DEF Unlock, Idle, InInit, InitSteps
<1> QED
  BY <1>2, <1>3, <1>4, <1>5 DEF Associate

\* A change of an interface that a thread has looked up makes its port a raced one.
LEMMA ChangeLookUps ==
  ASSUME IInv, LookUpsHold, NEW p \in Ports, NEW v, NEW e, Change(p, v, e)
  PROVE  LookUpsHold'
<1>1. intf' = [intf EXCEPT ![p] = v] /\ job' = job
  BY DEF Change
<1>2. \A t \in Threads : job[t].pc \in InInit /\ job[t].port \notin raced' =>
         job[t].port \notin raced /\ job[t].port # p
  BY DEF Change, Disturbs, Initialising, InInit
<1>3. \A t \in Threads : job[t].pc \in InInit => job[t].port \in Ports
  BY DEF IInv, JobNamesPort, InInit, InitSteps
<1>4. \A q \in Ports : q # p => intf'[q] = intf[q]
  BY <1>1 DEF IInv, TypeOK
<1> QED
  BY <1>1, <1>2, <1>3, <1>4 DEF LookUpsHold

\* Every step keeps what was seen of undisturbed interfaces.
LEMMA NextLookUps == IInv /\ LookUpsHold /\ [Next]_vars => LookUpsHold'
<1> SUFFICES ASSUME IInv, LookUpsHold, [Next]_vars PROVE LookUpsHold'
  OBVIOUS
<1>1. ASSUME NEW t \in Threads, NEW p \in Ports, LookedUp(t, p), intf[p] # Absent,
             UNCHANGED <<intf, raced>>
      PROVE  LookUpsHold'
  BY <1>1, LookUpsKept DEF LookedUp
<1>2. CASE UNCHANGED <<job, intf, raced>>
  BY <1>2 DEF LookUpsHold
<1>3. CASE Interface
  BY <1>3, ChangeLookUps DEF Interface, IfCreate, IfDelete, IfMap, IfUnmap
<1>4. ASSUME NEW t \in CpsThreads, NEW p \in Ports, OnDemand(t, p)
      PROVE  LookUpsHold'
  BY <1>1, <1>4 DEF OnDemand
<1>5. CASE \E t \in Threads : Initialise(t)
  BY <1>5, InitialiseLookUps
<1>6. CASE EventCreate
  <2>1. events # <<>> => Head(events).port \in Ports
    BY EventFacts DEF Event
  <2> QED
    BY <1>1, <1>2, <1>6, <2>1 DEF EventCreate
<1>7. CASE EventDelete
  BY <1>2, <1>7 DEF EventDelete
<1>8. CASE EventSet
  <2>1. UNCHANGED <<intf, raced>>
    BY <1>8 DEF EventSet
  <2> QED
    BY <1>8, <2>1, LookUpsKept DEF EventSet, InInit, InitSteps
<1>9. CASE Associate
  BY <1>9, AssociateLookUps
<1>10. CASE Scan
  BY <1>1, <1>2, <1>10 DEF Scan, Subscribe, ScanSnapshot, ScanPort
<1>11. CASE Restart
  BY <1>11 DEF Restart, LookUpsHold, Idle, InInit, InitSteps
<1>12. CASE UNCHANGED vars
  BY <1>2, <1>12 DEF vars
<1> QED
  BY <1>3, <1>4, <1>5, <1>6, <1>7, <1>8, <1>9, <1>10, <1>11, <1>12
  DEF Next, HandleEvent

\* A step that changes neither queues nor groups, and which thread is between the halves.
LEMMA PairsKept ==
  ASSUME IInv, AllPaired, UNCHANGED <<queue, group>>, raced \subseteq raced',
         \A t \in Threads : /\ job'[t].pc = "group" <=> job[t].pc = "group"
                            /\ job[t].pc = "group" => job'[t].port = job[t].port
  PROVE  AllPaired'
BY DEF AllPaired, Paired, Builds

\* A step before and after which no thread is between the halves.
LEMMA PairsAgree ==
  ASSUME AllPaired, raced' = raced,
         \A t \in Threads : job[t].pc # "group" /\ job'[t].pc # "group",
         \A p \in Ports : (queue[p] = Absent <=> group[p] = Absent) =>
                          (queue'[p] = Absent <=> group'[p] = Absent)
  PROVE  AllPaired'
BY DEF AllPaired, Paired, Builds

\* Every step of an initialisation whose NDI calls succeed keeps the pairs.
LEMMA InitialisePairs ==
  ASSUME IInv, LookUpsHold, AllPaired, ~NdiMayFail, NEW t \in Threads, Initialise(t)
  PROVE  AllPaired'
<1>1. ASSUME NEW s, s # "group", Goto(t, s), job[t].pc # "group", UNCHANGED <<queue, group, raced>>
      PROVE  AllPaired'
  <2>1. \A u \in Threads : job'[u] = IF u = t THEN At(job[t], s) ELSE job[u]
    BY <1>1 DEF Goto, IInv, TypeOK
  <2> QED
    BY <1>1, <2>1, PairsKept DEF At
<1>2. CASE Lock(t) \/ InitPriorityGroups(t) \/ InitIngress(t) \/ InitEgress(t)
  BY <1>1, <1>2 DEF Lock, InitPriorityGroups, InitIngress, InitEgress, Running, Elsewhere
<1>3. CASE InitQueues(t)
  <2>1. job[t].pc = "queue" /\ job[t].port \in Ports /\ mtx = t /\ raced' = raced /\ group' = group
    BY <1>3, JobFacts DEF InitQueues, Running, Elsewhere, Locked, InitSteps
  <2>2. CASE Goto(t, "pg") /\ UNCHANGED queue
    BY <1>1, <2>1, <2>2
  <2>3. ASSUME NEW q \in Collection(t), queue' = [queue EXCEPT ![job[t].port] = q], Goto(t, "group")
        PROVE  AllPaired'
    <3>1. \A u \in Threads : job[u].pc # "group"
      BY <2>1, NobodyBuilds
    <3>2. job[t].port \notin raced => q # Absent
      BY <2>1 DEF LookUpsHold, InInit, InitSteps, Collection, Fetched, Built, MayBeVirtual,
         MayBePhysical, IInv, TypeOK, Mapping
    <3>3. \A u \in Threads, p \in Ports : Builds(u, p)' <=> u = t /\ p = job[t].port
      BY <2>3, <3>1 DEF Builds, Goto, At, IInv, TypeOK
    <3>4. \A p \in Ports \ raced : queue'[p] = IF p = job[t].port THEN q ELSE queue[p]
      BY <2>3 DEF IInv, TypeOK
    <3> QED
      BY <2>1, <3>1, <3>2, <3>3, <3>4 DEF AllPaired, Paired, Builds
  <2> QED
    BY <1>3, <2>2, <2>3 DEF InitQueues
<1>4. CASE InitGroups(t)
  <2>1. job[t].pc = "group" /\ job[t].port \in Ports /\ mtx = t /\ raced' = raced /\ queue' = queue
    BY <1>4, JobFacts DEF InitGroups, Running, Elsewhere, Locked, InitSteps
  <2>2. \A u \in Threads : u # t => job[u].pc # "group"
    BY <2>1 DEF IInv, LockedHoldsMutex, Locked, InitSteps
  <2>3. PICK g : /\ group' = [group EXCEPT ![job[t].port] = g]
                 /\ \/ MayBeVirtual(job[t].port) /\ g = Virtual
                    \/ MayBePhysical(job[t].port) /\ g \in Fetched(job[t].saw)
    BY <1>4 DEF InitGroups
  <2>4. job[t].port \notin raced => g # Absent
    BY <2>1, <2>3 DEF LookUpsHold, InInit, InitSteps, Fetched, Built, MayBePhysical,
       IInv, TypeOK, Mapping
  <2>5. \A u \in Threads : job'[u].pc # "group"
    BY <1>4, <2>2 DEF InitGroups, Goto, At, IInv, TypeOK
  <2>6. \A p \in Ports : group'[p] = IF p = job[t].port THEN g ELSE group[p]
    BY <2>3 DEF IInv, TypeOK
  <2>7. \A p \in Ports : (\E u \in Threads : Builds(u, p)) <=> p = job[t].port
    BY <2>1, <2>2 DEF Builds
  <2> QED
    BY <2>1, <2>4, <2>5, <2>6, <2>7 DEF AllPaired, Paired, Builds
<1>5. CASE MarkInitialized(t)
  <2>1. job[t].ret # "group" /\ job[t].pc # "group"
    BY <1>5 DEF IInv, TypeOK, Job, SetSteps, MarkInitialized, Running
  <2>2. CASE Goto(t, job[t].ret)
    BY <1>1, <1>5, <2>1, <2>2 DEF MarkInitialized
  <2>3. CASE job' = [job EXCEPT ![t] = Idle]
    <3>1. \A u \in Threads : job'[u] = IF u = t THEN Idle ELSE job[u]
      BY <2>3 DEF IInv, TypeOK
    <3> QED
      BY <1>5, <2>1, <3>1, PairsKept DEF MarkInitialized, Idle
  <2> QED
    BY <1>5, <2>2, <2>3 DEF MarkInitialized
<1> QED
  BY <1>2, <1>3, <1>4, <1>5 DEF Initialise

\* So does every step of an association: it binds and unbinds what there is.
LEMMA AssociatePairs ==
  ASSUME IInv, AllPaired, Associate
  PROVE  AllPaired'
<1>1. job[EventThread].pc \in SetSteps \cup {"unlock"} /\ Target \in Ports /\ mtx = EventThread
  BY JobFacts DEF Associate, Running, AddIngress, AddEgress, AddQueues, AddGroups,
     AddPriorityGroups, RemovePriorityGroups, RemoveQueuesGroupsIngress, RemoveEgress, Unlock,
     SetSteps, Locked, Target
<1>2. \A u \in Threads : job[u].pc # "group"
  BY <1>1, NobodyBuilds DEF SetSteps
<1>3. ASSUME NEW j, j.pc # "group", job' = [job EXCEPT ![EventThread] = j]
      PROVE  \A u \in Threads : job'[u].pc # "group"
  BY <1>2, <1>3 DEF IInv, TypeOK
<1>4. ASSUME NEW s \in SetSteps \cup {"unlock"}, Goto(EventThread, s) \/ PushThen(s)
      PROVE  \A u \in Threads : job'[u].pc # "group"
  <2>1. s # "group"
    BY DEF SetSteps
  <2> QED
    BY <1>3, <1>4, <2>1 DEF PushThen, Goto, At
<1>5. \A u \in Threads : job'[u].pc # "group"
  <2>1. CASE UNCHANGED job
    BY <1>2, <2>1
  <2>2. CASE AddIngress \/ AddEgress
    BY <1>4, <2>1, <2>2 DEF AddIngress, AddEgress, SetSteps
  <2>3. CASE AddQueues \/ AddGroups \/ AddPriorityGroups
    BY <1>4, <2>3 DEF AddQueues, AddGroups, AddPriorityGroups, SetSteps
  <2>4. CASE RemovePriorityGroups \/ RemoveQueuesGroupsIngress \/ RemoveEgress
    BY <1>4, <2>4 DEF RemovePriorityGroups, RemoveQueuesGroupsIngress, RemoveEgress, SetSteps
  <2>5. CASE Unlock
    BY <1>3, <2>5 DEF Unlock, Idle
  <2> QED
    BY <2>2, <2>3, <2>4, <2>5 DEF Associate
<1>6. raced' = raced
  BY DEF Associate, AddIngress, AddEgress, AddQueues, AddGroups, AddPriorityGroups,
     RemovePriorityGroups, RemoveQueuesGroupsIngress, RemoveEgress, Unlock, Elsewhere
<1>7. \A old \in Binding, v \in Mapping :
         /\ Unbound(old) = Absent <=> old = Absent
         /\ \A w \in Rebound(old, v) : w = Absent <=> old = Absent
  BY DEF Unbound, Rebound, Mapping, Binding
<1>8. job[EventThread].pc \in SetSteps => Npu \in Mapping
  BY JobFacts DEF Npu
<1>9. \A p \in Ports : /\ queue'[p] = Absent <=> queue[p] = Absent
                       /\ group'[p] = Absent <=> group[p] = Absent
  <2>1. CASE UNCHANGED <<queue, group>>
    BY <2>1
  <2>2. CASE AddQueues
    BY <1>1, <1>7, <1>8, <2>2 DEF AddQueues, Running, SetSteps, IInv, TypeOK
  <2>3. CASE AddGroups
    BY <1>1, <1>7, <1>8, <2>3 DEF AddGroups, Running, SetSteps, IInv, TypeOK
  <2>4. CASE RemoveQueuesGroupsIngress
    <3>1. queue[Target] \in Binding /\ group[Target] \in Binding
      BY <1>1 DEF IInv, TypeOK
    <3>2. /\ Unbound(queue[Target]) = Absent <=> queue[Target] = Absent
          /\ Unbound(group[Target]) = Absent <=> group[Target] = Absent
      BY <3>1 DEF Unbound
    <3> QED
      BY <1>1, <2>4, <3>2 DEF RemoveQueuesGroupsIngress, IInv, TypeOK
  <2> QED
    BY <2>1, <2>2, <2>3, <2>4 DEF Associate, AddIngress, AddEgress,
       AddPriorityGroups, RemovePriorityGroups, RemoveEgress, Unlock
<1> QED
  BY <1>2, <1>5, <1>6, <1>9, PairsAgree

\* Every step keeps the pairs of undisturbed ports.
LEMMA NextPairs ==
  ASSUME IInv, LookUpsHold, AllPaired, ~NdiMayFail, [Next]_vars
  PROVE  AllPaired'
<1>1. CASE UNCHANGED <<job, queue, group>> /\ raced \subseteq raced'
  BY <1>1, PairsKept
<1>2. ASSUME NEW t \in Threads, NEW p \in Ports, LookedUp(t, p), job[t] = Idle,
             UNCHANGED <<queue, group, raced>>
      PROVE  AllPaired'
  <2>1. \A u \in Threads : job'[u] = IF u = t THEN job'[t] ELSE job[u]
    BY <1>2 DEF LookedUp, IInv, TypeOK
  <2>2. job'[t].pc = "looked" /\ job[t].pc = "idle"
    BY <1>2 DEF LookedUp, Idle, IInv, TypeOK
  <2> QED
    BY <1>2, <2>1, <2>2, PairsKept
<1>3. CASE Interface
  BY <1>1, <1>3 DEF Interface, IfCreate, IfDelete, IfMap, IfUnmap, Change
<1>4. CASE \E t \in CpsThreads, p \in Ports : OnDemand(t, p)
  BY <1>2, <1>4 DEF OnDemand
<1>5. CASE \E t \in Threads : Initialise(t)
  BY <1>5, InitialisePairs
<1>6. CASE EventCreate
  <2>1. events # <<>> => Head(events).port \in Ports
    BY EventFacts DEF Event
  <2> QED
    BY <1>1, <1>2, <1>6, <2>1 DEF EventCreate
<1>7. CASE EventDelete
  <2>1. \A u \in Threads : job[u].pc # "group" /\ job'[u].pc # "group"
    BY <1>7 DEF EventDelete, IInv, LockedHoldsMutex, Locked, InitSteps
  <2>2. \A p \in Ports : (queue[p] = Absent <=> group[p] = Absent) =>
                         (queue'[p] = Absent <=> group'[p] = Absent)
    BY <1>7 DEF EventDelete, IInv, TypeOK
  <2> QED
    BY <1>7, <2>1, <2>2, PairsAgree DEF EventDelete
<1>8. CASE EventSet
  <2>1. job'[EventThread].pc # "group" /\ job[EventThread].pc # "group"
    BY <1>8 DEF EventSet, Idle, IInv, TypeOK
  <2>2. \A u \in Threads : u # EventThread => job'[u] = job[u]
    BY <1>8 DEF EventSet, IInv, TypeOK
  <2> QED
    BY <1>8, <2>1, <2>2, PairsKept DEF EventSet
<1>9. CASE Associate
  BY <1>9, AssociatePairs
<1>10. CASE Scan
  BY <1>1, <1>2, <1>10 DEF Scan, Subscribe, ScanSnapshot, ScanPort
<1>11. CASE Restart
  BY <1>11 DEF Restart, AllPaired, Paired, Builds, Idle, NoNode
<1>12. CASE UNCHANGED vars
  BY <1>1, <1>12 DEF vars
<1> QED
  BY <1>3, <1>4, <1>5, <1>6, <1>7, <1>8, <1>9, <1>10, <1>11, <1>12
  DEF Next, HandleEvent

\* While NDI answers, a port that no race disturbed has queues and scheduler groups or
\* neither whenever the mutex is free: a handler that was interrupted, a second
\* initialisation or a deletion in between never leaves one half
\* (nas_qos_port_hqos_init, nas_qos_if_delete_notify).
THEOREM BuiltTogether == ASSUME ~NdiMayFail PROVE Spec => []HqosTogether
<1>1. Init => LookUpsHold /\ AllPaired
  BY DEF Init, LookUpsHold, AllPaired, Paired, Builds, Idle, InInit, InitSteps, NoNode
<1>2. IInv /\ LookUpsHold /\ AllPaired /\ [Next]_vars => (LookUpsHold /\ AllPaired)'
  BY NextLookUps, NextPairs
<1>3. IInv /\ AllPaired => HqosTogether
  BY DEF AllPaired, Paired, Builds, HqosTogether, IInv, LockedHoldsMutex, Locked, InitSteps
<1> QED
  BY <1>1, <1>2, <1>3, Invariance, PTL DEF Spec

----------------------------------------------------------------------------
(* The pending events tell what the interfaces are                          *)

\* The association at work is still the same one, or there is none any more.
SameWork ==
    /\ \A p \in Ports : Working(p)' => Working(p) /\ Aim' = Aim
    /\ Stage' \in SetSteps => Stage \in SetSteps

\* A step that changes neither the interfaces nor what is pending.
LEMMA EventsKept ==
  ASSUME EventsFit, UNCHANGED <<intf, events>>, SameWork, scanPass' = 0 => scanPass = 0,
         WaitingReturns'
  PROVE  EventsFit'
<1>1. LastTells' /\ GoneDeleted' /\ BackCreated' /\ DeletedBetween'
  BY DEF EventsFit, LastTells, GoneDeleted, BackCreated, DeletedBetween, Creates, Deletes,
     Names, Pending
<1>2. WorkFits'
  BY DEF EventsFit, WorkFits, SameWork, Creates, Deletes, Names, Pending
<1>3. NobodyListens'
  BY DEF EventsFit, NobodyListens, SameWork
<1> QED
  BY <1>1, <1>2, <1>3 DEF EventsFit

\* Events are handled in their order: what was pending behind the first moves up.
LEMMA TailEvents ==
  ASSUME IInv, events # <<>>, events' = Tail(events)
  PROVE  /\ Len(events) \in Nat \ {0} /\ Head(events) = events[1]
         /\ Len(events') = Len(events) - 1
         /\ \A i \in 1 .. Len(events) - 1 : events'[i] = events[i + 1]
         /\ \A i \in 2 .. Len(events) : events'[i - 1] = events[i]
         /\ \A i \in 1 .. Len(events) : events[i] \in Event
<1>1. events \in Seq(Event)
  BY DEF IInv, TypeOK
<1>2. Len(events) \in Nat \ {0} /\ Head(events) = events[1] /\ Len(Tail(events)) = Len(events) - 1
      /\ \A i \in 1 .. Len(events) : events[i] \in Event
  BY <1>1
<1>3. \A i \in 1 .. Len(events) - 1 : Tail(events)[i] = events[i + 1]
  BY <1>1, <1>2
<1>4. \A i \in 2 .. Len(events) : i - 1 \in 1 .. Len(events) - 1 /\ (i - 1) + 1 = i
  BY <1>2
<1> QED
  BY <1>2, <1>3, <1>4

\* What names an interface behind the first event still does, one place before.
LEMMA TailNames ==
  ASSUME IInv, events # <<>>, events' = Tail(events), NEW p \in Ports
  PROVE  /\ \A i \in 2 .. Len(events) : /\ i - 1 \in Pending' /\ events'[i - 1] = events[i]
                                        /\ (Names(i - 1, p)' <=> Names(i, p))
                                        /\ (Creates(i - 1, p)' <=> Creates(i, p))
                                        /\ (Deletes(i - 1, p)' <=> Deletes(i, p))
         /\ \A i \in Pending' : /\ i + 1 \in Pending /\ events'[i] = events[i + 1]
                                /\ (Names(i, p)' <=> Names(i + 1, p))
                                /\ (Creates(i, p)' <=> Creates(i + 1, p))
                                /\ (Deletes(i, p)' <=> Deletes(i + 1, p))
<1>1. /\ Len(events) \in Nat \ {0} /\ Len(events') = Len(events) - 1
      /\ \A i \in 1 .. Len(events) - 1 : events'[i] = events[i + 1]
      /\ \A i \in 2 .. Len(events) : events'[i - 1] = events[i]
  BY TailEvents
<1>2. \A i \in 2 .. Len(events) : i \in Pending /\ i - 1 \in Pending' /\ events'[i - 1] = events[i]
  BY <1>1 DEF Pending
<1>3. \A i \in Pending' : i + 1 \in Pending /\ events'[i] = events[i + 1]
  BY <1>1 DEF Pending
<1>4. \A i \in 2 .. Len(events) : /\ (Names(i - 1, p)' <=> Names(i, p))
                                 /\ (Creates(i - 1, p)' <=> Creates(i, p))
                                 /\ (Deletes(i - 1, p)' <=> Deletes(i, p))
  BY <1>2 DEF Names, Creates, Deletes
<1>5. \A i \in Pending' : /\ (Names(i, p)' <=> Names(i + 1, p))
                         /\ (Creates(i, p)' <=> Creates(i + 1, p))
                         /\ (Deletes(i, p)' <=> Deletes(i + 1, p))
  BY <1>3 DEF Names, Creates, Deletes
<1> QED
  BY <1>2, <1>3, <1>4, <1>5

\* Handling an event keeps what the others tell; an association that begins fits.
LEMMA HandledFits ==
  ASSUME IInv, EventsFit, events # <<>>, events' = Tail(events), intf' = intf,
         scanPass' = scanPass, WaitingReturns', NEW h \in Event, h = Head(events),
         \A q \in Ports : Working(q)' =>
            q = h.port /\ h.op \in {"add", "remove"} /\ Aim' = Outcome(h)
  PROVE  EventsFit'
<1> USE DEF EventsFit
<1>1. /\ Len(events) \in Nat \ {0} /\ h = events[1]
      /\ 1 \in Pending
  BY TailEvents DEF Pending
<1>2. \A i \in Pending : i \in Nat /\ (i = 1 \/ i \in 2 .. Len(events))
  BY <1>1 DEF Pending
<1>3. \A i \in Pending' : i \in Nat /\ i > 0
  BY DEF Pending
<1> SUFFICES ASSUME NEW p \in Ports
             PROVE  /\ \A i \in Pending' :
                          Names(i, p)' /\ (\A j \in Pending' : Names(j, p)' => j <= i) =>
                             Outcome(events'[i]) = intf'[p]
                    /\ \A i \in Pending' : Names(i, p)' /\ intf'[p] = Absent =>
                          (\E k \in Pending' : k >= i /\ Deletes(k, p)')
                    /\ \A i \in Pending' : Deletes(i, p)' /\ intf'[p] # Absent =>
                          (\E k \in Pending' : k > i /\ Creates(k, p)')
                    /\ \A i, j \in Pending' : Names(i, p)' /\ Creates(j, p)' /\ i < j =>
                          (\E k \in Pending' : k >= i /\ k < j /\ Deletes(k, p)')
                    /\ Working(p)' =>
                          /\ ((\A i \in Pending' : ~Names(i, p)') => intf'[p] = Aim')
                          /\ \A j \in Pending' : Creates(j, p)' =>
                                \E k \in Pending' : k < j /\ Deletes(k, p)'
  BY DEF LastTells, GoneDeleted, BackCreated, DeletedBetween, WorkFits, NobodyListens, Outcome
<1>4. \A i \in 2 .. Len(events) : /\ i - 1 \in Pending' /\ i \in Pending
                                 /\ (Names(i - 1, p)' <=> Names(i, p))
                                 /\ (Creates(i - 1, p)' <=> Creates(i, p))
                                 /\ (Deletes(i - 1, p)' <=> Deletes(i, p))
  BY TailNames DEF Pending
<1>5. \A i \in Pending' : /\ i + 1 \in Pending /\ events'[i] = events[i + 1]
                         /\ (Names(i, p)' <=> Names(i + 1, p))
                         /\ (Creates(i, p)' <=> Creates(i + 1, p))
                         /\ (Deletes(i, p)' <=> Deletes(i + 1, p))
  BY TailNames
<1>6. ASSUME NEW i \in Pending', Names(i, p)', \A j \in Pending' : Names(j, p)' => j <= i
      PROVE  Outcome(events'[i]) = intf'[p]
  <2>1. \A j \in Pending : Names(j, p) => j <= i + 1
    <3> SUFFICES ASSUME NEW j \in Pending, Names(j, p) PROVE j <= i + 1
      OBVIOUS
    <3>1. CASE j = 1
      BY <3>1, <1>3
    <3>2. CASE j \in 2 .. Len(events)
      <4>1. j - 1 \in Pending' /\ Names(j - 1, p)'
        BY <1>4, <3>2
      <4> QED BY <4>1, <1>2, <1>3, <1>6
    <3> QED BY <3>1, <3>2, <1>2
  <2> QED BY <2>1, <1>5, <1>6 DEF LastTells
<1>7. ASSUME NEW i \in Pending', Names(i, p)', intf'[p] = Absent
      PROVE  \E k \in Pending' : k >= i /\ Deletes(k, p)'
  <2>1. PICK k \in Pending : k >= i + 1 /\ Deletes(k, p)
    BY <1>5, <1>7 DEF GoneDeleted
  <2>2. k \in 2 .. Len(events) /\ k - 1 >= i
    BY <2>1, <1>2, <1>3
  <2> QED BY <2>1, <2>2, <1>4
<1>8. ASSUME NEW i \in Pending', Deletes(i, p)', intf'[p] # Absent
      PROVE  \E k \in Pending' : k > i /\ Creates(k, p)'
  <2>1. PICK k \in Pending : k > i + 1 /\ Creates(k, p)
    BY <1>5, <1>8 DEF BackCreated
  <2>2. k \in 2 .. Len(events) /\ k - 1 > i
    BY <2>1, <1>2, <1>3
  <2> QED BY <2>1, <2>2, <1>4
<1>9. ASSUME NEW i \in Pending', NEW j \in Pending', Names(i, p)', Creates(j, p)', i < j
      PROVE  \E k \in Pending' : k >= i /\ k < j /\ Deletes(k, p)'
  <2>1. Names(i + 1, p) /\ Creates(j + 1, p) /\ i + 1 < j + 1 /\ i + 1 \in Pending /\ j + 1 \in Pending
    BY <1>3, <1>5, <1>9
  <2>2. PICK k \in Pending : k >= i + 1 /\ k < j + 1 /\ Deletes(k, p)
    BY <2>1 DEF DeletedBetween
  <2>3. k \in 2 .. Len(events) /\ k - 1 >= i /\ k - 1 < j
    BY <2>2, <1>2, <1>3
  <2> QED BY <2>2, <2>3, <1>4
<1>10. ASSUME Working(p)' PROVE Names(1, p) /\ h.op # "delete" /\ Aim' = Outcome(events[1])
  BY <1>1, <1>10 DEF Names
<1>11. ASSUME Working(p)', \A i \in Pending' : ~Names(i, p)'
       PROVE  intf'[p] = Aim'
  <2>1. \A j \in Pending : Names(j, p) => j <= 1
    BY <1>11, <1>2, <1>4
  <2> QED BY <2>1, <1>1, <1>10, <1>11 DEF LastTells
<1>12. ASSUME Working(p)', NEW j \in Pending', Creates(j, p)'
       PROVE  \E k \in Pending' : k < j /\ Deletes(k, p)'
  <2>1. Creates(j + 1, p) /\ 1 < j + 1 /\ j + 1 \in Pending
    BY <1>3, <1>5, <1>12
  <2>2. PICK k \in Pending : k >= 1 /\ k < j + 1 /\ Deletes(k, p)
    BY <1>1, <1>10, <1>12, <2>1 DEF DeletedBetween
  <2>3. k # 1
    BY <1>1, <1>10, <1>12, <2>2 DEF Deletes
  <2>4. k \in 2 .. Len(events) /\ k - 1 < j
    BY <2>2, <2>3, <1>2, <1>3
  <2> QED BY <2>2, <2>4, <1>4
<1> QED
  BY <1>6, <1>7, <1>8, <1>9, <1>11, <1>12

\* An event n is behind those that were pending.
Appended(n, e) ==
    /\ n \in Nat /\ n \in Pending' /\ events'[n] = e
    /\ \A i \in Pending' : i = n \/ i \in Pending
    /\ \A i \in Pending : i \in Pending' /\ i \in Nat /\ i < n /\ events'[i] = events[i]
    /\ \A i \in Pending : \A p \in Ports : /\ (Names(i, p)' <=> Names(i, p))
                                           /\ (Creates(i, p)' <=> Creates(i, p))
                                           /\ (Deletes(i, p)' <=> Deletes(i, p))
    /\ \A p \in Ports : /\ (Names(n, p)' <=> p = e.port)
                        /\ (Creates(n, p)' <=> p = e.port /\ e.op = "create")
                        /\ (Deletes(n, p)' <=> p = e.port /\ e.op = "delete")

\* An interface change appends what it makes of the interface.
LEMMA AppendEvents ==
  ASSUME IInv, NEW e \in Event, events' = Append(events, e)
  PROVE  \E n : Appended(n, e)
<1>1. events \in Seq(Event)
  BY DEF IInv, TypeOK
<1>0. PICK n : n = Len(events) + 1
  OBVIOUS
<1>2. /\ Len(events) \in Nat /\ Len(events') = n /\ events'[n] = e
      /\ \A i \in 1 .. Len(events) : events'[i] = events[i]
  BY <1>0, <1>1, AppendProperties
<1>3. /\ n \in Nat /\ n \in Pending'
      /\ \A i \in Pending : i \in Pending' /\ i \in Nat /\ i < n /\ events'[i] = events[i]
      /\ \A i \in Pending' : i = n \/ i \in Pending
  BY <1>0, <1>2 DEF Pending
<1>4. \A i \in Pending : \A p \in Ports : /\ (Names(i, p)' <=> Names(i, p))
                                          /\ (Creates(i, p)' <=> Creates(i, p))
                                          /\ (Deletes(i, p)' <=> Deletes(i, p))
  BY <1>3 DEF Names, Creates, Deletes
<1>5. \A p \in Ports : /\ (Names(n, p)' <=> p = e.port)
                      /\ (Creates(n, p)' <=> p = e.port /\ e.op = "create")
                      /\ (Deletes(n, p)' <=> p = e.port /\ e.op = "delete")
  BY <1>2, <1>3 DEF Names, Creates, Deletes
<1> QED
  BY <1>2, <1>3, <1>4, <1>5 DEF Appended

\* An interface is created when it is not there, and changed or deleted when it is.
Sensible(p, v, e) ==
    /\ e.port = p /\ Outcome(e) = v
    /\ (e.op = "create" <=> intf[p] = Absent)
    /\ (e.op = "delete" <=> v = Absent)

\* A change is told by its event, if anybody listens.
LEMMA ChangeFits ==
  ASSUME IInv, EventsFit, NEW r \in Ports, NEW v \in {Absent} \cup Mapping, NEW e \in Event,
         Change(r, v, e), Sensible(r, v, e)
  PROVE  EventsFit'
<1> USE DEF EventsFit
<1>1. /\ intf' = [intf EXCEPT ![r] = v] /\ job' = job /\ scanPass' = scanPass
      /\ events' = IF scanPass > 0 THEN Append(events, e) ELSE events
      /\ scanPass \in 0 .. 3
  BY DEF Change, IInv, TypeOK
<1>2. /\ \A p \in Ports : Working(p)' <=> Working(p)
      /\ Aim' = Aim /\ Stage' = Stage /\ WaitingReturns'
  BY <1>1 DEF Working, Stage, StageOf, Aim, WaitingReturns
<1>3. \A p \in Ports : intf'[p] = IF p = r THEN v ELSE intf[p]
  BY <1>1 DEF IInv, TypeOK
<1>4. \A p \in Ports : Working(p) => Aim # Absent
  <2>1. /\ job[EventThread].pc \in SetSteps => job[EventThread].npu \in Mapping
        /\ job[EventThread].ret # "idle" => job[EventThread].npu \in Mapping
    BY JobFacts
  <2>2. Stage \in SetSteps => job[EventThread].npu \in Mapping
    BY <2>1 DEF Stage, StageOf, SetSteps
  <2> QED BY <2>2 DEF Working, Aim, Mapping
<1>5. CASE scanPass = 0
  <2>1. events = <<>> /\ events' = <<>> /\ Stage \notin SetSteps
    BY <1>1, <1>5 DEF NobodyListens
  <2>2. Pending' = {} /\ \A p \in Ports : ~Working(p)
    BY <2>1 DEF Pending, Working
  <2> QED
    BY <1>2, <2>1, <2>2 DEF LastTells, GoneDeleted, BackCreated, DeletedBetween, WorkFits,
       NobodyListens
<1>6. CASE scanPass # 0
  <2>1. events' = Append(events, e)
    BY <1>1, <1>6
  <2>0. PICK n : Appended(n, e)
    BY <2>1, AppendEvents
  <2>2. /\ n \in Pending' /\ events'[n] = e /\ n \in Nat
        /\ \A i \in Pending : i \in Pending' /\ i \in Nat /\ i < n /\ events'[i] = events[i]
        /\ \A i \in Pending' : i = n \/ i \in Pending
    BY <2>0 DEF Appended
  <2>3. \A p \in Ports :
           /\ \A i \in Pending : /\ (Names(i, p)' <=> Names(i, p))
                                 /\ (Creates(i, p)' <=> Creates(i, p))
                                 /\ (Deletes(i, p)' <=> Deletes(i, p))
           /\ (Names(n, p)' <=> p = r)
           /\ (Creates(n, p)' <=> p = r /\ e.op = "create")
           /\ (Deletes(n, p)' <=> p = r /\ e.op = "delete")
    BY <2>0 DEF Appended, Sensible
  <2>4. LastTells'
    <3> SUFFICES ASSUME NEW p \in Ports, NEW i \in Pending', Names(i, p)',
                        \A j \in Pending' : Names(j, p)' => j <= i
                 PROVE  Outcome(events'[i]) = intf'[p]
      BY DEF LastTells, Outcome
    <3>1. CASE i = n
      BY <1>3, <2>2, <2>3, <3>1 DEF Sensible
    <3>2. CASE i \in Pending
      <4>1. p # r
        <5>1. ASSUME p = r PROVE n <= i
          BY <2>2, <2>3, <5>1
        <5> QED BY <2>2, <3>2, <5>1
      <4> QED BY <1>3, <2>2, <2>3, <3>2, <4>1 DEF LastTells
    <3> QED BY <2>2, <3>1, <3>2
  <2>5. GoneDeleted'
    <3> SUFFICES ASSUME NEW p \in Ports, NEW i \in Pending', Names(i, p)', intf'[p] = Absent
                 PROVE  \E k \in Pending' : k >= i /\ Deletes(k, p)'
      BY DEF GoneDeleted
    <3>1. CASE p = r
      <4>1. v = Absent /\ e.op = "delete"
        BY <1>3, <3>1 DEF Sensible
      <4>2. Deletes(n, p)'
        BY <2>3, <3>1, <4>1
      <4>3. i = n \/ (i \in Nat /\ i < n)
        BY <2>2
      <4>4. n >= i
        BY <2>2, <4>3
      <4> QED BY <2>2, <4>2, <4>4
    <3>2. CASE p # r
      BY <1>3, <2>2, <2>3, <3>2 DEF GoneDeleted
    <3> QED BY <3>1, <3>2
  <2>6. BackCreated'
    <3> SUFFICES ASSUME NEW p \in Ports, NEW i \in Pending', Deletes(i, p)', intf'[p] # Absent
                 PROVE  \E k \in Pending' : k > i /\ Creates(k, p)'
      BY DEF BackCreated
    <3>1. i \in Pending /\ Deletes(i, p)
      <4>1. i # n
        <5>1. p = r /\ e.op = "delete" => intf'[p] = Absent
          BY <1>3 DEF Sensible
        <5> QED BY <2>3, <5>1
      <4>2. i \in Pending
        BY <2>2, <4>1
      <4> QED BY <2>3, <4>2
    <3>2. CASE intf[p] # Absent
      BY <2>2, <2>3, <3>1, <3>2 DEF BackCreated
    <3>3. CASE intf[p] = Absent
      BY <1>3, <2>2, <2>3, <3>1, <3>3 DEF Sensible
    <3> QED BY <3>2, <3>3
  <2>7. DeletedBetween'
    <3> SUFFICES ASSUME NEW p \in Ports, NEW i \in Pending', NEW j \in Pending',
                        Names(i, p)', Creates(j, p)', i < j
                 PROVE  \E k \in Pending' : k >= i /\ k < j /\ Deletes(k, p)'
      BY DEF DeletedBetween
    <3>1. i \in Pending /\ Names(i, p)
      BY <2>2, <2>3
    <3>2. CASE j \in Pending
      BY <2>2, <2>3, <3>1, <3>2 DEF DeletedBetween
    <3>3. CASE j = n
      <4>1. intf[p] = Absent
        BY <2>3, <3>3 DEF Sensible
      <4> QED BY <2>2, <2>3, <3>1, <3>3, <4>1 DEF GoneDeleted
    <3> QED BY <2>2, <3>2, <3>3
  <2>8. WorkFits'
    <3> SUFFICES ASSUME NEW p \in Ports, Working(p)
                 PROVE  /\ (\A i \in Pending' : ~Names(i, p)') => intf'[p] = Aim
                        /\ \A j \in Pending' : Creates(j, p)' =>
                              \E k \in Pending' : k < j /\ Deletes(k, p)'
      BY <1>2 DEF WorkFits
    <3>1. (\A i \in Pending' : ~Names(i, p)') => intf'[p] = Aim
      BY <1>3, <2>2, <2>3 DEF WorkFits
    <3>2. ASSUME NEW j \in Pending', Creates(j, p)'
          PROVE  \E k \in Pending' : k < j /\ Deletes(k, p)'
      <4>1. CASE j \in Pending
        BY <2>2, <2>3, <3>2, <4>1 DEF WorkFits
      <4>2. CASE j = n
        <5>1. intf[p] = Absent
          BY <2>3, <3>2, <4>2 DEF Sensible
        <5>2. PICK i \in Pending : Names(i, p)
          BY <1>4, <5>1 DEF WorkFits
        <5> QED BY <2>2, <2>3, <4>2, <5>1, <5>2 DEF GoneDeleted
      <4> QED BY <2>2, <4>1, <4>2
    <3> QED BY <3>1, <3>2
  <2>9. NobodyListens'
    BY <1>1, <1>6 DEF NobodyListens
  <2> QED BY <1>2, <2>4, <2>5, <2>6, <2>7, <2>8, <2>9
<1> QED BY <1>5, <1>6

\* The event thread is where it was in its association, if it is in one.
SameStage ==
    Stage \in SetSteps \/ Stage' \in SetSteps =>
       /\ Stage' = Stage
       /\ job'[EventThread].port = job[EventThread].port
       /\ job'[EventThread].npu = job[EventThread].npu

\* It has done step s and goes on with n, possibly through a nested initialisation.
MovesOn(s, n) ==
    /\ job[EventThread].pc = s /\ Stage = s /\ Stage' = n
    /\ job'[EventThread].pc \in {n, "queue"}
    /\ job'[EventThread].port = job[EventThread].port
    /\ job'[EventThread].npu = job[EventThread].npu
    /\ \A u \in Threads : u # EventThread => job'[u] = job[u]

\* A DB push goes on with the association, before or after an initialisation.
LEMMA PushMoves ==
  ASSUME IInv, NEW s \in SetSteps, NEW n \in SetSteps \cup {"unlock"},
         job[EventThread].pc = s, PushThen(n)
  PROVE  MovesOn(s, n)
<1>1. s \notin InitSteps /\ n \notin InitSteps /\ "queue" \in InitSteps
  BY DEF SetSteps, InitSteps
<1>2. PICK j : /\ job' = [job EXCEPT ![EventThread] = j]
               /\ (j.pc = n \/ (j.pc = "queue" /\ j.ret = n))
               /\ j.port = job[EventThread].port /\ j.npu = job[EventThread].npu
  <2>1. CASE Goto(EventThread, n)
    <3> DEFINE k == At(job[EventThread], n)
    <3>1. job' = [job EXCEPT ![EventThread] = k] /\ k.pc = n /\ k.port = job[EventThread].port
          /\ k.npu = job[EventThread].npu
      BY <2>1 DEF Goto, At
    <3> HIDE DEF k
    <3> QED BY <3>1
  <2>2. CASE ~Goto(EventThread, n)
    <3> DEFINE k == [pc |-> "queue", port |-> Target, saw |-> intf[Target], npu |-> Npu, ret |-> n]
    <3>1. job' = [job EXCEPT ![EventThread] = k] /\ k.pc = "queue" /\ k.ret = n
          /\ k.port = job[EventThread].port /\ k.npu = job[EventThread].npu
      BY <2>2 DEF PushThen, Target, Npu
    <3> HIDE DEF k
    <3> QED BY <3>1
  <2> QED BY <2>1, <2>2
<1>3. job'[EventThread] = j /\ \A u \in Threads : u # EventThread => job'[u] = job[u]
  BY <1>2 DEF IInv, TypeOK
<1> QED
  BY <1>1, <1>2, <1>3 DEF MovesOn, Stage, StageOf

\* A step of an initialisation leaves the association where it is.
LEMMA InitialiseStage ==
  ASSUME IInv, WaitingReturns, NEW t \in Threads, Initialise(t)
  PROVE  SameStage /\ WaitingReturns'
<1>1. ASSUME NEW j, job' = [job EXCEPT ![t] = j], j.pc # "looked",
             \/ StageOf(j) = StageOf(job[t]) /\ j.port = job[t].port /\ j.npu = job[t].npu
             \/ StageOf(j) \notin SetSteps /\ StageOf(job[t]) \notin SetSteps
      PROVE  SameStage /\ WaitingReturns'
  <2>1. \A u \in Threads : job'[u] = IF u = t THEN j ELSE job[u]
    BY <1>1 DEF IInv, TypeOK
  <2>2. WaitingReturns'
    BY <1>1, <2>1 DEF WaitingReturns
  <2>3. CASE t = EventThread
    <3>1. Stage = StageOf(job[t]) /\ Stage' = StageOf(j) /\ job'[EventThread] = j
      BY <2>1, <2>3 DEF Stage, StageOf
    <3> QED BY <1>1, <2>2, <2>3, <3>1 DEF SameStage
  <2>4. CASE t # EventThread
    <3>1. job'[EventThread] = job[EventThread]
      BY <2>1, <2>4
    <3> QED BY <2>2, <3>1 DEF SameStage, Stage, StageOf
  <2> QED BY <2>3, <2>4
<1>2. ASSUME NEW s \in InitSteps, Goto(t, s), job[t].pc \in InitSteps
      PROVE  SameStage /\ WaitingReturns'
  <2> DEFINE k == At(job[t], s)
  <2>1. StageOf(k) = StageOf(job[t]) /\ k.pc # "looked" /\ k.port = job[t].port
        /\ k.npu = job[t].npu /\ job' = [job EXCEPT ![t] = k]
    BY <1>2 DEF StageOf, At, InitSteps, Goto
  <2> HIDE DEF k
  <2> QED BY <1>1, <2>1
<1>3. CASE Lock(t)
  <2>1. StageOf(job[t]) = "looked" /\ StageOf(At(job[t], "queue")) = "idle"
    BY <1>3 DEF Lock, WaitingReturns, StageOf, At, InitSteps
  <2>2. job' = [job EXCEPT ![t] = At(job[t], "queue")] /\ At(job[t], "queue").pc = "queue"
    BY <1>3 DEF Lock, Goto, At
  <2> QED BY <1>1, <2>1, <2>2 DEF SetSteps
<1>4. CASE InitQueues(t) \/ InitGroups(t) \/ InitPriorityGroups(t) \/ InitIngress(t) \/ InitEgress(t)
  BY <1>2, <1>4 DEF InitQueues, InitGroups, InitPriorityGroups, InitIngress, InitEgress,
     Running, InitSteps
<1>5. CASE MarkInitialized(t)
  <2>1. StageOf(job[t]) = job[t].ret /\ job[t].ret \in {"idle", "unlock"} \cup SetSteps
    BY <1>5 DEF MarkInitialized, Running, StageOf, InitSteps, IInv, TypeOK, Job
  <2>2. CASE job[t].ret = "idle" /\ job' = [job EXCEPT ![t] = Idle]
    <3>1. StageOf(Idle) = "idle" /\ Idle.pc # "looked"
      BY DEF StageOf, Idle, InitSteps
    <3> QED BY <1>1, <2>1, <2>2, <3>1 DEF SetSteps
  <2>3. CASE Goto(t, job[t].ret)
    <3> DEFINE k == At(job[t], job[t].ret)
    <3>1. StageOf(k) = StageOf(job[t]) /\ k.pc # "looked" /\ k.port = job[t].port
          /\ k.npu = job[t].npu /\ job' = [job EXCEPT ![t] = k]
      BY <2>1, <2>3 DEF StageOf, At, InitSteps, SetSteps, Goto
    <3> HIDE DEF k
    <3> QED BY <1>1, <3>1
  <2> QED BY <1>5, <2>2, <2>3 DEF MarkInitialized
<1> QED
  BY <1>3, <1>4, <1>5 DEF Initialise

\* An idle thread that looks an interface up is in no association, before or after.
LEMMA LookedUpStage ==
  ASSUME IInv, WaitingReturns, NEW t \in Threads, NEW p \in Ports, job[t] = Idle, LookedUp(t, p)
  PROVE  SameStage /\ WaitingReturns'
<1>1. PICK j : /\ job' = [job EXCEPT ![t] = j] /\ j.pc = "looked" /\ j.ret = "idle"
  <2> DEFINE k == [pc |-> "looked", port |-> p, saw |-> intf[p], npu |-> Absent, ret |-> "idle"]
  <2>1. job' = [job EXCEPT ![t] = k] /\ k.pc = "looked" /\ k.ret = "idle"
    BY DEF LookedUp
  <2> HIDE DEF k
  <2> QED BY <2>1
<1>2. \A u \in Threads : job'[u] = IF u = t THEN j ELSE job[u]
  BY <1>1 DEF IInv, TypeOK
<1>3. WaitingReturns'
  BY <1>1, <1>2 DEF WaitingReturns
<1>4. CASE t = EventThread
  <2>1. Stage = "idle" /\ Stage' = "looked"
    BY <1>1, <1>2, <1>4 DEF Stage, StageOf, Idle, InitSteps
  <2> QED BY <1>3, <2>1 DEF SameStage, SetSteps
<1>5. CASE t # EventThread
  BY <1>2, <1>3, <1>5 DEF SameStage, Stage, StageOf
<1> QED
  BY <1>4, <1>5

\* The steps of nas_qos_if_set_notify and their successors.
Order ==
    {<<"addIngress", "addEgress">>, <<"addEgress", "addQueue">>, <<"addQueue", "addGroup">>,
     <<"addGroup", "addPg">>, <<"addPg", "unlock">>,
     <<"rmPg", "rmQueue">>, <<"rmQueue", "rmEgress">>, <<"rmEgress", "unlock">>}

\* An association crashes, ends or goes on in that order.
LEMMA AssociateMoves ==
  ASSUME IInv, Associate
  PROVE  \/ UNCHANGED job
         \/ \E s \in SetSteps, n \in SetSteps \cup {"unlock"} : <<s, n>> \in Order /\ MovesOn(s, n)
         \/ job[EventThread].pc = "unlock" /\ job' = [job EXCEPT ![EventThread] = Idle]
<1>1. ASSUME NEW s \in SetSteps, NEW n \in SetSteps \cup {"unlock"},
             job[EventThread].pc = s, Goto(EventThread, n) \/ PushThen(n)
      PROVE  MovesOn(s, n)
  BY <1>1, PushMoves DEF PushThen
<1> USE DEF Order, SetSteps, Running
<1>2. CASE AddIngress
  BY <1>1, <1>2 DEF AddIngress
<1>3. CASE AddEgress
  BY <1>1, <1>3 DEF AddEgress
<1>4. CASE AddQueues
  BY <1>1, <1>4 DEF AddQueues
<1>5. CASE AddGroups
  BY <1>1, <1>5 DEF AddGroups
<1>6. CASE AddPriorityGroups
  BY <1>1, <1>6 DEF AddPriorityGroups
<1>7. CASE RemovePriorityGroups
  BY <1>1, <1>7 DEF RemovePriorityGroups
<1>8. CASE RemoveQueuesGroupsIngress
  BY <1>1, <1>8 DEF RemoveQueuesGroupsIngress
<1>9. CASE RemoveEgress
  BY <1>1, <1>9 DEF RemoveEgress
<1>10. CASE Unlock
  BY <1>10 DEF Unlock
<1> QED
  BY <1>2, <1>3, <1>4, <1>5, <1>6, <1>7, <1>8, <1>9, <1>10 DEF Associate

\* So it aims at what it aimed at.
LEMMA AssociateWork ==
  ASSUME IInv, WaitingReturns, Associate
  PROVE  SameWork /\ WaitingReturns'
<1>1. CASE UNCHANGED job
  BY <1>1 DEF SameWork, WaitingReturns, Working, Aim, Stage, StageOf
<1>2. ASSUME NEW s \in SetSteps, NEW n \in SetSteps \cup {"unlock"}, <<s, n>> \in Order,
             MovesOn(s, n)
      PROVE  SameWork /\ WaitingReturns'
  <2>1. n \in SetSteps => (s \in AddSteps <=> n \in AddSteps)
    BY <1>2 DEF Order, AddSteps, SetSteps
  <2>2. SameWork
    BY <1>2, <2>1 DEF SameWork, Working, Aim, MovesOn
  <2>3. job'[EventThread].pc # "looked"
    BY <1>2 DEF MovesOn, SetSteps
  <2> QED BY <1>2, <2>2, <2>3 DEF WaitingReturns, MovesOn
<1>3. CASE job' = [job EXCEPT ![EventThread] = Idle]
  <2>1. \A u \in Threads : job'[u] = IF u = EventThread THEN Idle ELSE job[u]
    BY <1>3 DEF IInv, TypeOK
  <2>2. Stage' = "idle"
    BY <2>1 DEF Stage, StageOf, Idle, InitSteps
  <2> QED BY <2>1, <2>2 DEF SameWork, WaitingReturns, Working, Idle, SetSteps
<1> QED
  BY <1>1, <1>2, <1>3, AssociateMoves

\* A step that keeps the stage keeps the association at work.
LEMMA SameStageWork == ASSUME SameStage PROVE SameWork
  BY DEF SameStage, SameWork, Working, Aim

\* Every step keeps what the pending events tell.
\* nas-interface makes such changes only.
LEMMA InterfaceChanges ==
  ASSUME IInv, Interface
  PROVE  \E p \in Ports, v \in {Absent} \cup Mapping, e \in Event :
            Change(p, v, e) /\ Sensible(p, v, e)
<1>1. PICK p \in Ports : (\E v \in Mapping : IfCreate(p, v) \/ IfMap(p, v)) \/ IfDelete(p) \/ IfUnmap(p)
  BY DEF Interface
<1> SUFFICES \E v \in {Absent} \cup Mapping, e \in Event : Change(p, v, e) /\ Sensible(p, v, e)
  OBVIOUS
<1>2. ASSUME NEW v \in Mapping, IfCreate(p, v)
      PROVE  \E e \in Event : Change(p, v, e) /\ Sensible(p, v, e)
  <2> DEFINE e == [op |-> "create", port |-> p, npu |-> v]
  <2>1. e \in Event /\ Change(p, v, e) /\ Sensible(p, v, e)
    BY <1>2 DEF IfCreate, Event, Sensible, Outcome, Mapping
  <2> HIDE DEF e
  <2> QED BY <2>1
<1>3. ASSUME NEW v \in Mapping, IfMap(p, v)
      PROVE  \E e \in Event : Change(p, v, e) /\ Sensible(p, v, e)
  <2> DEFINE e == [op |-> "add", port |-> p, npu |-> v]
  <2>1. e \in Event /\ Change(p, v, e) /\ Sensible(p, v, e)
    BY <1>3 DEF IfMap, Event, Sensible, Outcome, Mapping
  <2> HIDE DEF e
  <2> QED BY <2>1
<1>4. ASSUME IfDelete(p)
      PROVE  \E e \in Event : Change(p, Absent, e) /\ Sensible(p, Absent, e)
  <2> DEFINE e == [op |-> "delete", port |-> p, npu |-> intf[p]]
  <2>1. e \in Event /\ Change(p, Absent, e) /\ Sensible(p, Absent, e)
    BY <1>4 DEF IfDelete, Event, Sensible, Outcome, Mapping, IInv, TypeOK
  <2> HIDE DEF e
  <2> QED BY <2>1
<1>5. ASSUME IfUnmap(p)
      PROVE  \E e \in Event : Change(p, Virtual, e) /\ Sensible(p, Virtual, e)
  <2> DEFINE e == [op |-> "remove", port |-> p, npu |-> intf[p]]
  <2>1. e \in Event /\ Change(p, Virtual, e) /\ Sensible(p, Virtual, e)
    BY <1>5 DEF IfUnmap, Event, Sensible, Outcome, Mapping, IInv, TypeOK
  <2> HIDE DEF e
  <2> QED BY <2>1
<1>6. Virtual \in Mapping
  BY DEF Mapping
<1> QED
  BY <1>1, <1>2, <1>3, <1>4, <1>5, <1>6

\* Every step keeps what the pending events tell.
LEMMA NextEvents == IInv /\ EventsFit /\ [Next]_vars => EventsFit'
<1> SUFFICES ASSUME IInv, EventsFit, [Next]_vars PROVE EventsFit'
  OBVIOUS
<1>0. WaitingReturns
  BY DEF EventsFit
<1>1. CASE UNCHANGED <<job, intf, events>> /\ (scanPass' = 0 => scanPass = 0)
  <2>1. SameWork /\ WaitingReturns'
    BY <1>0, <1>1 DEF SameWork, WaitingReturns, Working, Aim, Stage, StageOf
  <2> QED BY <1>1, <2>1, EventsKept
<1>2. ASSUME NEW t \in Threads, NEW p \in Ports, LookedUp(t, p), job[t] = Idle,
             UNCHANGED <<intf, events, scanPass>>
      PROVE  EventsFit'
  BY <1>0, <1>2, LookedUpStage, SameStageWork, EventsKept
<1>3. CASE Interface
  BY <1>3, InterfaceChanges, ChangeFits
<1>4. ASSUME NEW t \in CpsThreads, NEW p \in Ports, OnDemand(t, p)
      PROVE  EventsFit'
  BY <1>2, <1>4 DEF OnDemand
<1>5. ASSUME NEW t \in Threads, Initialise(t)
      PROVE  EventsFit'
  <2>1. UNCHANGED <<intf, events, scanPass>>
    BY <1>5 DEF Initialise, Lock, InitQueues, InitGroups, InitPriorityGroups, InitIngress,
       InitEgress, MarkInitialized, Elsewhere
  <2> QED BY <1>0, <1>5, <2>1, InitialiseStage, SameStageWork, EventsKept
<1>6. ASSUME HandleEvent
      PROVE  EventsFit'
  <2>1. events # <<>> /\ events' = Tail(events) /\ UNCHANGED <<intf, scanPass>>
        /\ job[EventThread] = Idle
    BY <1>6 DEF HandleEvent, EventCreate, EventDelete, EventSet
  <2>2. PICK h \in Event : h = Head(events)
    BY <2>1, EventFacts
  <2>3. Stage = "idle" /\ h.port \in Ports
    BY <2>1 DEF Stage, StageOf, Idle, InitSteps, Event
  <2>4. CASE UNCHANGED job
    <3>1. WaitingReturns' /\ Stage' = "idle"
      BY <1>0, <2>3, <2>4 DEF WaitingReturns, Stage, StageOf
    <3>2. \A q \in Ports : ~Working(q)'
      BY <3>1 DEF Working, SetSteps
    <3> QED BY <2>1, <2>2, <3>1, <3>2, HandledFits
  <2>5. CASE LookedUp(EventThread, h.port)
    <3>1. SameStage /\ WaitingReturns'
      BY <1>0, <2>1, <2>3, <2>5, LookedUpStage
    <3>2. \A q \in Ports : ~Working(q)'
      BY <2>3, <3>1 DEF SameStage, Working, SetSteps
    <3> QED BY <2>1, <2>2, <3>1, <3>2, HandledFits
  <2>6. CASE EventSet
    <3> DEFINE j == [pc |-> IF h.op = "add" THEN "addIngress" ELSE "rmPg",
                     port |-> h.port, saw |-> Absent, npu |-> h.npu, ret |-> "idle"]
    <3>1. job' = [job EXCEPT ![EventThread] = j] /\ h.op \in {"add", "remove"}
      BY <2>2, <2>6 DEF EventSet
    <3>2. \A u \in Threads : job'[u] = IF u = EventThread THEN j ELSE job[u]
      BY <3>1 DEF IInv, TypeOK
    <3>3. job'[EventThread] = j /\ j.pc \in SetSteps /\ j.pc \notin InitSteps
      BY <3>2 DEF SetSteps, InitSteps
    <3>4. WaitingReturns'
      BY <1>0, <3>2 DEF WaitingReturns
    <3>5. Stage' = (IF h.op = "add" THEN "addIngress" ELSE "rmPg")
          /\ job'[EventThread].port = h.port /\ job'[EventThread].npu = h.npu
      BY <3>3 DEF Stage, StageOf
    <3>6. \A q \in Ports : Working(q)' => q = h.port
      BY <3>5 DEF Working
    <3>7. Aim' = Outcome(h)
      BY <3>1, <3>5 DEF Aim, Outcome, AddSteps
    <3> QED BY <2>1, <2>2, <3>1, <3>4, <3>6, <3>7, HandledFits
  <2>7. UNCHANGED job \/ LookedUp(EventThread, h.port) \/ EventSet
    BY <1>6, <2>2 DEF HandleEvent, EventCreate, EventDelete
  <2> QED BY <2>4, <2>5, <2>6, <2>7
<1>7. CASE Associate
  <2>1. UNCHANGED <<intf, events, scanPass>>
    BY <1>7 DEF Associate, AddIngress, AddEgress, AddQueues, AddGroups, AddPriorityGroups,
       RemovePriorityGroups, RemoveQueuesGroupsIngress, RemoveEgress, Unlock, Elsewhere
  <2> QED BY <1>0, <1>7, <2>1, AssociateWork, EventsKept
<1>8. CASE Scan
  <2>1. CASE Subscribe \/ ScanSnapshot
    BY <1>1, <2>1 DEF Subscribe, ScanSnapshot, IInv, TypeOK
  <2>2. ASSUME NEW p \in Ports, ScanPort(p) PROVE EventsFit'
    BY <1>1, <1>2, <2>2 DEF ScanPort
  <2> QED BY <1>8, <2>1, <2>2 DEF Scan
<1>9. CASE Restart
  <2>1. events' = <<>> /\ job' = [t \in Threads |-> Idle]
    BY <1>9 DEF Restart
  <2>2. Pending' = {} /\ Stage' = "idle" /\ WaitingReturns'
    BY <2>1 DEF Pending, Stage, StageOf, Idle, InitSteps, WaitingReturns
  <2> QED
    BY <2>1, <2>2 DEF EventsFit, LastTells, GoneDeleted, BackCreated, DeletedBetween, WorkFits,
       NobodyListens, Working, SetSteps
<1>10. CASE UNCHANGED vars
  BY <1>1, <1>10 DEF vars
<1> QED
  BY <1>3, <1>4, <1>5, <1>6, <1>7, <1>8, <1>9, <1>10 DEF Next

\* At the start nothing is pending.
LEMMA InitEvents == Init => EventsFit
<1> SUFFICES ASSUME Init PROVE EventsFit
  OBVIOUS
<1>1. events = <<>> /\ job = [t \in Threads |-> Idle]
  BY DEF Init
<1>2. Pending = {} /\ Stage = "idle" /\ WaitingReturns
  BY <1>1 DEF Pending, Stage, StageOf, Idle, InitSteps, WaitingReturns
<1> QED
  BY <1>1, <1>2 DEF EventsFit, LastTells, GoneDeleted, BackCreated, DeletedBetween, WorkFits,
     NobodyListens, Working, SetSteps

----------------------------------------------------------------------------
(* The nodes show what the interfaces are                                   *)

SameNodes(p) ==
    /\ queue'[p] = queue[p] /\ group'[p] = group[p] /\ pg'[p] = pg[p]
    /\ ingress'[p] = ingress[p] /\ egress'[p] = egress[p]

\* A step that builds nodes as the interface is, or removes them.
LEMMA ShowKept ==
  ASSUME IInv, NEW p \in Ports, NodesShow(p), intf'[p] = intf[p],
         Rewritten(p) => Rewritten(p)', Working(p) => Working(p)' /\ Stage' = Stage,
         queue'[p] \in {queue[p], intf[p], Absent}, group'[p] \in {group[p], intf[p], Absent},
         pg'[p] \in {pg[p], intf[p], Absent}, ingress'[p] \in {ingress[p], intf[p], Absent},
         egress'[p] \in {egress[p], intf[p], Absent}
  PROVE  NodesShow(p)'
<1>1. intf[p] # Broken
  BY DEF IInv, TypeOK, Mapping
<1> QED
  BY <1>1 DEF NodesShow, Shows

Later == {"pg", "ingress", "egress", "mark"}

\* A step that removes nothing that initialisations rely on.
LEMMA BuiltKept ==
  ASSUME IInv, BuiltSoFar, InitializedBuilt, raced \subseteq raced',
         \A p \in Ports \ raced' : /\ queue[p] # Absent => queue'[p] # Absent
                                   /\ group[p] # Absent => group'[p] # Absent
                                   /\ pg[p] # Absent => pg'[p] # Absent,
         initialized' \subseteq initialized,
         \A t \in Threads : job'[t].pc \in Later => job'[t] = job[t]
  PROVE  BuiltSoFar' /\ InitializedBuilt'
<1>1. \A t \in Threads : job[t].pc \in Later => job[t].port \in Ports
  BY DEF IInv, JobNamesPort, Later
<1>2. initialized \subseteq Ports
  BY DEF IInv, TypeOK
<1>3. BuiltSoFar'
  BY <1>1 DEF BuiltSoFar, Later
<1>4. InitializedBuilt'
  BY <1>2 DEF InitializedBuilt
<1> QED
  BY <1>3, <1>4

\* A step that changes no node.
LEMMA CalmFits ==
  ASSUME IInv, CacheFits, UNCHANGED <<intf, raced, nodes, initialized>>,
         \A t \in Threads : job'[t].pc \in Later => job'[t] = job[t],
         \A p \in Ports : Rewritten(p) =>
            Rewritten(p)' \/ (Working(p)' /\ Stage' \in {"addIngress", "rmPg"}),
         \A p \in Ports : Working(p) => Working(p)' /\ Stage' = Stage,
         \A p \in Ports : Underway(p) => Underway(p)',
         scanPass' = 0 => scanPass = 0, Covered'
  PROVE  CacheFits'
<1> USE DEF CacheFits
<1>1. BuiltSoFar' /\ InitializedBuilt'
  BY BuiltKept
<1>2. UpperHasGroups'
  BY DEF UpperHasGroups
<1>3. NothingElse'
  BY DEF NothingElse
<1>4. AllShow'
  <2> SUFFICES ASSUME NEW p \in Ports \ raced PROVE NodesShow(p)'
    BY DEF AllShow
  <2>1. NodesShow(p)
    BY DEF AllShow
  <2>2. CASE Rewritten(p) => Rewritten(p)'
    BY <2>1, <2>2, ShowKept
  <2>3. CASE Working(p)' /\ Stage' \in {"addIngress", "rmPg"}
    BY <2>1, <2>3 DEF NodesShow, Shows, QueueDue, GroupDue, PgDue, IngressDue, EgressDue
  <2> QED BY <2>2, <2>3
<1> QED
  BY <1>1, <1>2, <1>3, <1>4

\* What is covered stays so.
LEMMA CoveredKept ==
  ASSUME Covered, raced \subseteq raced', UNCHANGED <<intf, boot>>,
         \A p \in Ports : p \in initialized => p \in initialized',
         \A p \in Ports : Underway(p) => Underway(p)' \/ p \in initialized',
         \A p \in Ports : Announced(p) => Announced(p)' \/ Underway(p)' \/ intf[p] = Absent
  PROVE  Covered'
<1>1. \A p \in Ports : Awaited(p) => Awaited(p)'
  BY DEF Awaited
<1> QED
  BY <1>1 DEF Covered

\* What the events behind the first say of the others.
LEMMA TailSays ==
  ASSUME IInv, events # <<>>, events' = Tail(events), NEW h \in Event, h = Head(events),
         NEW p \in Ports
  PROVE  /\ (Rewritten(p) => Rewritten(p)' \/ (h.port = p /\ h.op # "create"))
         /\ (Announced(p) => Announced(p)' \/ (h.port = p /\ h.op = "create"))
<1>1. /\ \A i \in 2 .. Len(events) : /\ i - 1 \in Pending' /\ events'[i - 1] = events[i]
                                     /\ (Names(i - 1, p)' <=> Names(i, p))
                                     /\ (Creates(i - 1, p)' <=> Creates(i, p))
  BY TailNames
<1>2. Len(events) \in Nat \ {0} /\ h = events[1]
  BY TailEvents
<1>3. \A i \in Pending : i = 1 \/ i \in 2 .. Len(events)
  BY <1>2 DEF Pending
<1>4. Names(1, p) => h.port = p
  BY <1>2 DEF Names
<1>5. Creates(1, p) => h.port = p /\ h.op = "create"
  BY <1>2, <1>4 DEF Creates
<1>6. Rewritten(p) => Rewritten(p)' \/ (h.port = p /\ h.op # "create")
  BY <1>1, <1>2, <1>3, <1>4 DEF Rewritten
<1>7. Announced(p) => Announced(p)' \/ (h.port = p /\ h.op = "create")
  BY <1>1, <1>3, <1>5 DEF Announced
<1> QED
  BY <1>6, <1>7

\* A thread that was in no initialisation ends none.
LEMMA UnderwayKept ==
  ASSUME NEW t \in Threads, job[t].pc \notin InInit,
         \A u \in Threads : u # t => job'[u] = job[u], NEW p \in Ports
  PROVE  Underway(p) => Underway(p)'
BY DEF Underway, Initialising, InInit

\* A look-up starts an initialisation and ends none.
LEMMA LookedUpUnderway ==
  ASSUME IInv, NEW t \in Threads, NEW p \in Ports, job[t] = Idle, LookedUp(t, p)
  PROVE  /\ job'[t].pc = "looked" /\ \A u \in Threads : u # t => job'[u] = job[u]
         /\ Underway(p)'
         /\ (\A q \in Ports : Underway(q) => Underway(q)')
         /\ \A u \in Threads : job'[u].pc \in Later => job'[u] = job[u]
<1>1. /\ job'[t].pc = "looked" /\ job'[t].port = p
      /\ \A u \in Threads : u # t => job'[u] = job[u]
  BY DEF LookedUp, IInv, TypeOK
<1>2. Underway(p)'
  BY <1>1 DEF Underway, Initialising
<1>3. job[t].pc \notin InInit
  BY DEF Idle, InInit, InitSteps
<1>4. \A q \in Ports : Underway(q) => Underway(q)'
  BY <1>1, <1>3, UnderwayKept
<1> QED
  BY <1>1, <1>2, <1>4 DEF Later

\* ... and its port.
LEMMA SameStageKeeps ==
  ASSUME SameStage, NEW p \in Ports
  PROVE  Working(p) => Working(p)' /\ Stage' = Stage
BY DEF SameStage, Working

\* A look-up keeps the nodes, and covers its port.
LEMMA LookedUpCache ==
  ASSUME IInv, EventsFit, CacheFits, NEW t \in Threads, NEW p \in Ports, job[t] = Idle,
         LookedUp(t, p), UNCHANGED <<intf, events, raced, nodes, initialized, scanPass>>,
         scanTodo' = scanTodo \/ scanTodo' = scanTodo \ {p}
  PROVE  CacheFits'
<1>1. /\ (\A q \in Ports : Underway(q) => Underway(q)')
      /\ \A u \in Threads : job'[u].pc \in Later => job'[u] = job[u]
      /\ Underway(p)'
  BY LookedUpUnderway
<1>2. SameStage
  BY LookedUpStage DEF EventsFit
<1>3. \A q \in Ports : Working(q) => Working(q)' /\ Stage' = Stage
  BY <1>2, SameStageKeeps
<1>4. \A q \in Ports : (Rewritten(q) => Rewritten(q)') /\ (Announced(q) => Announced(q)')
  BY DEF Rewritten, Announced, Creates, Names, Pending
<1>5. Covered'
  <2>1. \A q \in Ports : Awaited(q) => Awaited(q)' \/ q = p
    BY DEF Awaited
  <2> QED BY <1>1, <1>4, <2>1 DEF CacheFits, Covered
<1> QED
  BY <1>1, <1>3, <1>4, <1>5, CalmFits

\* Handling an event keeps what the nodes show.
LEMMA HandleEventCache ==
  ASSUME IInv, EventsFit, CacheFits, HandleEvent
  PROVE  CacheFits'
<1>1. events # <<>> /\ events' = Tail(events) /\ UNCHANGED <<intf, boot, raced>>
      /\ job[EventThread] = Idle
  BY DEF HandleEvent, EventCreate, EventDelete, EventSet
<1>2. PICK h \in Event : h = Head(events)
  BY <1>1, EventFacts
<1>3. h.port \in Ports /\ \A p \in Ports : ~Working(p)
  BY <1>1 DEF Working, Stage, StageOf, Idle, InitSteps, SetSteps, Event
<1>4. scanPass' # 0
  BY <1>1 DEF EventsFit, NobodyListens
<1>5. \A p \in Ports : /\ (Rewritten(p) => Rewritten(p)' \/ (h.port = p /\ h.op # "create"))
                      /\ (Announced(p) => Announced(p)' \/ (h.port = p /\ h.op = "create"))
  BY <1>1, <1>2, TailSays
<1>6. job[EventThread].pc \notin InInit
  BY <1>1 DEF Idle, InInit, InitSteps
<1>7. CASE EventCreate
  <2>1. h.op = "create" /\ UNCHANGED <<nodes, initialized>>
    BY <1>2, <1>7 DEF EventCreate
  <2>2. /\ (\A q \in Ports : Underway(q) => Underway(q)')
        /\ \A u \in Threads : job'[u].pc \in Later => job'[u] = job[u]
        /\ intf[h.port] = Absent \/ Underway(h.port)'
    <3>1. CASE intf[h.port] = Absent /\ UNCHANGED job
      BY <3>1 DEF Underway, Initialising
    <3>2. CASE LookedUp(EventThread, h.port)
      BY <1>1, <1>3, <3>2, LookedUpUnderway
    <3> QED BY <1>2, <1>7, <3>1, <3>2 DEF EventCreate
  <2>3. Covered'
    BY <1>1, <1>5, <2>1, <2>2, CoveredKept DEF CacheFits
  <2> QED BY <1>1, <1>3, <1>4, <1>5, <2>1, <2>2, <2>3, CalmFits
<1>8. CASE EventSet
  <2>1. h.op \in {"add", "remove"} /\ UNCHANGED <<nodes, initialized>>
    BY <1>2, <1>8 DEF EventSet
  <2>2. /\ job'[EventThread].pc = (IF h.op = "add" THEN "addIngress" ELSE "rmPg")
        /\ job'[EventThread].port = h.port
        /\ \A u \in Threads : u # EventThread => job'[u] = job[u]
    BY <1>2, <1>8 DEF EventSet, IInv, TypeOK
  <2>3. Stage' \in {"addIngress", "rmPg"} /\ Working(h.port)'
    BY <2>2 DEF Stage, StageOf, Working, InitSteps, SetSteps
  <2>4. \A q \in Ports : Underway(q) => Underway(q)'
    BY <1>6, <2>2, UnderwayKept
  <2>5. \A u \in Threads : job'[u].pc \in Later => job'[u] = job[u]
    BY <2>2 DEF Later
  <2>6. Covered'
    BY <1>1, <1>5, <2>1, <2>4, CoveredKept DEF CacheFits
  <2>7. \A p \in Ports : Rewritten(p) =>
            Rewritten(p)' \/ (Working(p)' /\ Stage' \in {"addIngress", "rmPg"})
    BY <1>5, <2>3
  <2> QED BY <1>1, <1>3, <1>4, <2>1, <2>4, <2>5, <2>6, <2>7, CalmFits
<1>9. CASE EventDelete
  <2>1. /\ h.op = "delete" /\ job' = job /\ mtx = None
        /\ initialized' = initialized \ {h.port}
    BY <1>2, <1>9 DEF EventDelete
  <2>2. \A p \in Ports :
           /\ queue'[p] = IF p = h.port THEN Absent ELSE queue[p]
           /\ group'[p] = IF p = h.port THEN Absent ELSE group[p]
           /\ upper'[p] = IF p = h.port THEN Absent ELSE upper[p]
           /\ pg'[p] = IF p = h.port THEN Absent ELSE pg[p]
           /\ ingress'[p] = IF p = h.port THEN Absent ELSE ingress[p]
           /\ egress'[p] = IF p = h.port THEN Absent ELSE egress[p]
    BY <1>2, <1>9 DEF EventDelete, IInv, TypeOK
  <2>3. AllShow'
    <3> SUFFICES ASSUME NEW p \in Ports \ raced PROVE NodesShow(p)'
      BY <1>1 DEF AllShow
    <3>1. CASE p = h.port
      BY <2>2, <3>1 DEF NodesShow, Shows
    <3>2. CASE p # h.port
      BY <1>1, <1>3, <1>5, <2>2, <3>2, ShowKept DEF CacheFits, AllShow
    <3> QED BY <3>1, <3>2
  <2>4. BuiltSoFar'
    <3>1. \A t \in Threads : job'[t].pc \notin Locked
      BY <2>1 DEF IInv, LockedHoldsMutex
    <3> QED BY <3>1 DEF BuiltSoFar, Locked, InitSteps
  <2>5. InitializedBuilt' /\ UpperHasGroups'
    BY <1>1, <2>1, <2>2 DEF CacheFits, InitializedBuilt, UpperHasGroups, IInv, TypeOK
  <2>6. NothingElse'
    BY <1>4 DEF NothingElse
  <2>7. Covered'
    <3>1. \A q \in Ports : Underway(q) => Underway(q)'
      BY <2>1 DEF Underway, Initialising
    <3>2. intf[h.port] # Absent => Announced(h.port)'
      <4> SUFFICES ASSUME intf[h.port] # Absent PROVE Announced(h.port)'
        OBVIOUS
      <4>1. 1 \in Pending /\ Deletes(1, h.port)
        BY <1>1, <1>2, <2>1, TailEvents DEF Pending, Deletes, Names
      <4>2. PICK k \in Pending : k > 1 /\ Creates(k, h.port)
        BY <1>3, <4>1 DEF EventsFit, BackCreated
      <4>3. Announced(h.port)
        BY <4>2 DEF Announced
      <4> QED BY <1>3, <1>5, <2>1, <4>3
    <3>3. \A q \in Ports : Awaited(q) => Awaited(q)'
      BY <1>1 DEF Awaited
    <3> QED BY <1>1, <1>5, <2>1, <3>1, <3>2, <3>3 DEF CacheFits, Covered
  <2> QED BY <2>3, <2>4, <2>5, <2>6, <2>7 DEF CacheFits
<1> QED
  BY <1>7, <1>8, <1>9 DEF HandleEvent

\* An initialisation of an undisturbed port builds what its interface is.
LEMMA SeenBuilt ==
  ASSUME IInv, LookUpsHold, ~NdiMayFail, NEW t \in Threads, NEW p \in Ports \ raced,
         job[t].port = p, job[t].pc \in InitSteps
  PROVE  /\ intf[p] # Absent
         /\ \A v \in Collection(t) : v = intf[p]
         /\ \A v \in Profile(t) : v = intf[p]
         /\ MayBeVirtual(p) => intf[p] = Virtual
         /\ MayBePhysical(p) => \A v \in Fetched(job[t].saw) : v = intf[p]
<1>1. job[t].saw = intf[p] /\ intf[p] # Absent /\ intf[p] \in Mapping
  BY DEF LookUpsHold, InInit, IInv, TypeOK
<1>2. MayBeVirtual(p) <=> intf[p] = Virtual
  BY <1>1 DEF MayBeVirtual
<1>3. MayBePhysical(p) <=> intf[p] \in NpuPorts
  BY <1>1 DEF MayBePhysical, Mapping
<1>4. intf[p] \in NpuPorts => \A v \in Fetched(job[t].saw) : v = intf[p]
  BY <1>1 DEF Fetched, Built
<1> QED
  BY <1>1, <1>2, <1>3, <1>4 DEF Collection, Profile

\* A step of an initialisation that builds nodes of its port.
LEMMA BuildFits ==
  ASSUME IInv, CacheFits, NEW t \in Threads, NEW p \in Ports, job[t].port = p,
         job[t].pc \in InitSteps, NEW s \in InitSteps, Goto(t, s), SameStage,
         UNCHANGED <<intf, events, boot, raced, initialized>>,
         \A q \in Ports : q # p => SameNodes(q),
         p \notin raced =>
            /\ intf[p] # Absent
            /\ queue'[p] \in {queue[p], intf[p]} /\ group'[p] \in {group[p], intf[p]}
            /\ pg'[p] \in {pg[p], intf[p]} /\ ingress'[p] \in {ingress[p], intf[p]}
            /\ egress'[p] \in {egress[p], intf[p]}
            /\ s \in Later => queue'[p] # Absent /\ group'[p] # Absent
            /\ s \in Later \ {"pg"} => pg'[p] # Absent,
         UpperHasGroups'
  PROVE  CacheFits'
<1> USE DEF CacheFits
<1>1. /\ job'[t].pc = s /\ job'[t].port = p
      /\ \A u \in Threads : u # t => job'[u] = job[u] /\ job[u].pc \notin Locked
  BY DEF Goto, At, IInv, TypeOK, LockedHoldsMutex, Locked
<1>2. \A q \in Ports : Working(q) => Working(q)' /\ Stage' = Stage
  BY SameStageKeeps
<1>3. \A q \in Ports : (Rewritten(q) => Rewritten(q)') /\ (Announced(q) => Announced(q)')
  BY DEF Rewritten, Announced, Creates, Names, Pending
<1>4. Underway(p)' /\ \A q \in Ports : Underway(q) => Underway(q)'
  BY <1>1 DEF Underway, Initialising
<1>5. AllShow'
  <2> SUFFICES ASSUME NEW q \in Ports \ raced PROVE NodesShow(q)'
    BY DEF AllShow
  <2>1. /\ queue'[q] \in {queue[q], intf[q], Absent} /\ group'[q] \in {group[q], intf[q], Absent}
        /\ pg'[q] \in {pg[q], intf[q], Absent} /\ ingress'[q] \in {ingress[q], intf[q], Absent}
        /\ egress'[q] \in {egress[q], intf[q], Absent}
    BY DEF SameNodes
  <2>2. NodesShow(q)
    BY DEF AllShow
  <2> QED BY <1>2, <1>3, <2>1, <2>2, ShowKept
<1>6. \A q \in Ports \ raced : /\ queue[q] # Absent => queue'[q] # Absent
                               /\ group[q] # Absent => group'[q] # Absent
                               /\ pg[q] # Absent => pg'[q] # Absent
  BY DEF SameNodes
<1>7. BuiltSoFar'
  BY <1>1 DEF BuiltSoFar, Later, Locked, InitSteps
<1>8. InitializedBuilt'
  BY <1>6 DEF InitializedBuilt, IInv, TypeOK
<1>9. Covered'
  BY <1>3, <1>4, CoveredKept
<1>10. NothingElse'
  BY <1>4 DEF NothingElse, SameNodes
<1> QED
  BY <1>5, <1>7, <1>8, <1>9, <1>10

\* What a step of an initialisation leaves alone.
LEMMA InitialiseFrame ==
  ASSUME NEW t \in Threads, Initialise(t)
  PROVE  UNCHANGED <<intf, events, boot, raced>>
BY DEF Initialise, Lock, InitQueues, InitGroups, InitPriorityGroups, InitIngress,
       InitEgress, MarkInitialized, Elsewhere

\* Every step of an initialisation keeps what the nodes show.
LEMMA InitialiseCache ==
  ASSUME IInv, LookUpsHold, AllPaired, EventsFit, CacheFits, ~NdiMayFail,
         NEW t \in Threads, Initialise(t)
  PROVE  CacheFits'
<1>1. UNCHANGED <<intf, events, boot, raced>> /\ SameStage
  BY InitialiseFrame, InitialiseStage DEF EventsFit
<1>2. PICK p : p = job[t].port
  OBVIOUS
<1>3. job[t].pc # "idle" => p \in Ports
  BY <1>2 DEF IInv, JobNamesPort
<1>4. job[t].pc \in InitSteps /\ p \in Ports \ raced =>
         /\ intf[p] # Absent
         /\ \A v \in Collection(t) : v = intf[p]
         /\ \A v \in Profile(t) : v = intf[p]
         /\ MayBeVirtual(p) => intf[p] = Virtual
         /\ MayBePhysical(p) => \A v \in Fetched(job[t].saw) : v = intf[p]
  BY <1>2, SeenBuilt
<1>5. CASE Lock(t)
  <2>1. job[t].pc = "looked" /\ UNCHANGED <<nodes, initialized>> /\ Goto(t, "queue")
    BY <1>5 DEF Lock
  <2>2. /\ job'[t].pc = "queue" /\ job'[t].port = job[t].port
        /\ \A u \in Threads : u # t => job'[u] = job[u]
    BY <2>1 DEF Goto, At, IInv, TypeOK
  <2>3. \A q \in Ports : Underway(q) => Underway(q)'
    BY <2>1, <2>2 DEF Underway, Initialising, InitSteps
  <2>4. \A q \in Ports : (Rewritten(q) => Rewritten(q)') /\ (Announced(q) => Announced(q)')
    BY <1>1 DEF Rewritten, Announced, Creates, Names, Pending
  <2>5. Covered'
    BY <1>1, <2>1, <2>3, <2>4, CoveredKept DEF CacheFits
  <2>6. \A u \in Threads : job'[u].pc \in Later => job'[u] = job[u]
    BY <2>2 DEF Later
  <2>7. \A q \in Ports : Working(q) => Working(q)' /\ Stage' = Stage
    BY <1>1, SameStageKeeps
  <2> QED BY <1>1, <2>1, <2>3, <2>4, <2>5, <2>6, <2>7, CalmFits
<1>6. CASE InitQueues(t)
  <2>1. /\ job[t].pc = "queue" /\ job[t].pc \in InitSteps /\ p \in Ports
        /\ UNCHANGED <<groups, pg, ingress, egress, initialized>>
    BY <1>3, <1>6 DEF InitQueues, Running, Elsewhere, InitSteps
  <2>2. UpperHasGroups'
    BY <2>1 DEF CacheFits, UpperHasGroups
  <2>3. CASE (queue[p] # Absent \/ GroupsExist(p)) /\ Goto(t, "pg") /\ UNCHANGED queue
    <3>1. \A u \in Threads : job[u].pc # "group"
      BY <2>1 DEF IInv, LockedHoldsMutex, Locked, InitSteps
    <3>2. p \notin raced => queue[p] # Absent /\ group[p] # Absent
      BY <2>1, <2>3, <3>1 DEF AllPaired, Paired, Builds, GroupsExist, CacheFits, UpperHasGroups
    <3>3. \A q \in Ports : q # p => SameNodes(q)
      BY <2>1, <2>3 DEF SameNodes
    <3>4. Goto(t, "pg") /\ "pg" \in InitSteps
      BY <2>3 DEF InitSteps
    <3> QED BY <1>1, <1>2, <1>4, <2>1, <2>2, <2>3, <3>2, <3>3, <3>4, BuildFits
  <2>4. ASSUME NEW v \in Collection(t), queue' = [queue EXCEPT ![p] = v], Goto(t, "group")
        PROVE  CacheFits'
    <3>1. \A q \in Ports : queue'[q] = IF q = p THEN v ELSE queue[q]
      BY <2>4 DEF IInv, TypeOK
    <3>2. \A q \in Ports : q # p => SameNodes(q)
      BY <2>1, <3>1 DEF SameNodes
    <3>3. Goto(t, "group") /\ "group" \in InitSteps /\ "group" \notin Later
      BY <2>4 DEF InitSteps, Later
    <3>4. p \notin raced => queue'[p] = intf[p]
      BY <1>4, <2>1, <2>4, <3>1
    <3> QED BY <1>1, <1>2, <1>4, <2>1, <2>2, <3>2, <3>3, <3>4, BuildFits
  <2> QED BY <1>2, <1>6, <2>3, <2>4 DEF InitQueues
<1>7. CASE InitGroups(t)
  <2>1. /\ job[t].pc = "group" /\ job[t].pc \in InitSteps /\ p \in Ports
        /\ UNCHANGED <<queue, pg, ingress, egress, initialized>> /\ Goto(t, "pg")
    BY <1>3, <1>7 DEF InitGroups, Running, Elsewhere, InitSteps
  <2>2. PICK g : /\ group' = [group EXCEPT ![p] = g]
                 /\ \/ MayBeVirtual(p) /\ g = Virtual /\ UNCHANGED upper
                    \/ MayBePhysical(p) /\ g \in Fetched(job[t].saw) /\
                       \E u \in Fetched(job[t].saw) : upper' = [upper EXCEPT ![p] = u]
    BY <1>2, <1>7 DEF InitGroups
  <2>3. \A q \in Ports : /\ group'[q] = IF q = p THEN g ELSE group[q]
                         /\ q # p => upper'[q] = upper[q]
    BY <2>2 DEF IInv, TypeOK
  <2>4. g = Absent => upper'[p] = Absent
    BY <2>1, <2>2 DEF Fetched, Built, IInv, TypeOK, Mapping
  <2>5. UpperHasGroups'
    BY <2>3, <2>4 DEF CacheFits, UpperHasGroups
  <2>6. \A q \in Ports : q # p => SameNodes(q)
    BY <2>1, <2>3 DEF SameNodes
  <2>7. p \notin raced => group'[p] = intf[p] /\ queue'[p] # Absent
    BY <1>2, <1>4, <2>1, <2>2, <2>3 DEF AllPaired, Paired, Builds
  <2>8. "pg" \in InitSteps
    BY DEF InitSteps
  <2> QED BY <1>1, <1>2, <1>4, <2>1, <2>5, <2>6, <2>7, <2>8, BuildFits
<1>8. CASE InitPriorityGroups(t)
  <2>1. /\ job[t].pc = "pg" /\ job[t].pc \in InitSteps /\ p \in Ports
        /\ UNCHANGED <<queue, groups, ingress, egress, initialized>> /\ Goto(t, "ingress")
    BY <1>3, <1>8 DEF InitPriorityGroups, Running, Elsewhere, InitSteps
  <2>2. UpperHasGroups'
    BY <2>1 DEF CacheFits, UpperHasGroups
  <2>3. PICK v : /\ \A q \in Ports : pg'[q] = IF q = p THEN v ELSE pg[q]
                 /\ (pg[p] # Absent /\ v = pg[p]) \/ v \in Collection(t)
    <3>1. CASE pg[p] # Absent /\ UNCHANGED pg
      BY <3>1
    <3>2. ASSUME NEW g \in Collection(t), pg' = [pg EXCEPT ![p] = g]
          PROVE  \A q \in Ports : pg'[q] = IF q = p THEN g ELSE pg[q]
      BY <3>2 DEF IInv, TypeOK
    <3> QED BY <1>2, <1>8, <3>1, <3>2 DEF InitPriorityGroups
  <2>4. \A q \in Ports : q # p => SameNodes(q)
    BY <2>1, <2>3 DEF SameNodes
  <2>5. p \notin raced => pg'[p] \in {pg[p], intf[p]} /\ pg'[p] # Absent
    BY <1>4, <2>1, <2>3
  <2>6. p \notin raced => queue[p] # Absent /\ group[p] # Absent
    BY <1>2, <2>1 DEF CacheFits, BuiltSoFar
  <2>7. "ingress" \in InitSteps
    BY DEF InitSteps
  <2> QED BY <1>1, <1>2, <1>4, <2>1, <2>2, <2>4, <2>5, <2>6, <2>7, BuildFits
<1>9. CASE InitIngress(t)
  <2>1. /\ job[t].pc = "ingress" /\ job[t].pc \in InitSteps /\ p \in Ports
        /\ UNCHANGED <<queue, groups, pg, egress, initialized>> /\ Goto(t, "egress")
    BY <1>3, <1>9 DEF InitIngress, Running, Elsewhere, InitSteps
  <2>2. UpperHasGroups'
    BY <2>1 DEF CacheFits, UpperHasGroups
  <2>3. PICK v : /\ \A q \in Ports : ingress'[q] = IF q = p THEN v ELSE ingress[q]
                 /\ v = ingress[p] \/ v \in Profile(t)
    <3>1. CASE UNCHANGED ingress
      BY <3>1
    <3>2. ASSUME NEW g \in Profile(t), ingress' = [ingress EXCEPT ![p] = g]
          PROVE  \A q \in Ports : ingress'[q] = IF q = p THEN g ELSE ingress[q]
      BY <3>2 DEF IInv, TypeOK
    <3> QED BY <1>2, <1>9, <3>1, <3>2 DEF InitIngress
  <2>4. \A q \in Ports : q # p => SameNodes(q)
    BY <2>1, <2>3 DEF SameNodes
  <2>5. p \notin raced => ingress'[p] \in {ingress[p], intf[p]}
    BY <1>4, <2>1, <2>3
  <2>6. p \notin raced => queue[p] # Absent /\ group[p] # Absent /\ pg[p] # Absent
    BY <1>2, <2>1 DEF CacheFits, BuiltSoFar
  <2>7. "egress" \in InitSteps
    BY DEF InitSteps
  <2> QED BY <1>1, <1>2, <1>4, <2>1, <2>2, <2>4, <2>5, <2>6, <2>7, BuildFits
<1>10. CASE InitEgress(t)
  <2>1. /\ job[t].pc = "egress" /\ job[t].pc \in InitSteps /\ p \in Ports
        /\ UNCHANGED <<queue, groups, pg, ingress, initialized>> /\ Goto(t, "mark")
    BY <1>3, <1>10 DEF InitEgress, Running, Elsewhere, InitSteps
  <2>2. UpperHasGroups'
    BY <2>1 DEF CacheFits, UpperHasGroups
  <2>3. PICK v : /\ \A q \in Ports : egress'[q] = IF q = p THEN v ELSE egress[q]
                 /\ v = egress[p] \/ v \in Profile(t)
    <3>1. CASE UNCHANGED egress
      BY <3>1
    <3>2. ASSUME NEW g \in Profile(t), egress' = [egress EXCEPT ![p] = g]
          PROVE  \A q \in Ports : egress'[q] = IF q = p THEN g ELSE egress[q]
      BY <3>2 DEF IInv, TypeOK
    <3> QED BY <1>2, <1>10, <3>1, <3>2 DEF InitEgress
  <2>4. \A q \in Ports : q # p => SameNodes(q)
    BY <2>1, <2>3 DEF SameNodes
  <2>5. p \notin raced => egress'[p] \in {egress[p], intf[p]}
    BY <1>4, <2>1, <2>3
  <2>6. p \notin raced => queue[p] # Absent /\ group[p] # Absent /\ pg[p] # Absent
    BY <1>2, <2>1 DEF CacheFits, BuiltSoFar
  <2>7. "mark" \in InitSteps
    BY DEF InitSteps
  <2> QED BY <1>1, <1>2, <1>4, <2>1, <2>2, <2>4, <2>5, <2>6, <2>7, BuildFits
<1>11. CASE MarkInitialized(t)
  <2>1. /\ job[t].pc = "mark" /\ p \in Ports /\ UNCHANGED nodes
        /\ initialized' = initialized \cup {p}
    BY <1>2, <1>3, <1>11 DEF MarkInitialized, Running
  <2>2. /\ job'[t].pc \in {"idle", "unlock"} \cup SetSteps
        /\ \A u \in Threads : u # t => job'[u] = job[u]
    BY <1>11 DEF MarkInitialized, Goto, At, Idle, IInv, TypeOK, Job
  <2>3. p \notin raced => queue[p] # Absent /\ group[p] # Absent /\ pg[p] # Absent
    BY <1>2, <2>1 DEF CacheFits, BuiltSoFar
  <2>4. \A q \in Ports : Underway(q) => Underway(q)' \/ q = p
    BY <1>2, <2>2 DEF Underway, Initialising
  <2>5. \A q \in Ports : (Rewritten(q) => Rewritten(q)') /\ (Announced(q) => Announced(q)')
    BY <1>1 DEF Rewritten, Announced, Creates, Names, Pending
  <2>6. \A q \in Ports : Working(q) => Working(q)' /\ Stage' = Stage
    BY <1>1, SameStageKeeps
  <2>7. AllShow'
    BY <1>1, <2>1, <2>5, <2>6, ShowKept DEF AllShow, CacheFits
  <2>8. BuiltSoFar'
    BY <1>1, <2>1, <2>2 DEF BuiltSoFar, CacheFits, SetSteps
  <2>9. InitializedBuilt' /\ UpperHasGroups'
    BY <1>1, <2>1, <2>3 DEF InitializedBuilt, UpperHasGroups, CacheFits
  <2>10. Covered'
    BY <1>1, <2>1, <2>4, <2>5, CoveredKept DEF CacheFits
  <2>11. NothingElse'
    BY <1>1, <2>1, <2>4 DEF NothingElse, CacheFits
  <2> QED BY <2>7, <2>8, <2>9, <2>10, <2>11 DEF CacheFits
<1> QED
  BY <1>5, <1>6, <1>7, <1>8, <1>9, <1>10, <1>11 DEF Initialise

\* An association aims at what the interface is, unless another event changes that.
LEMMA WorkTells ==
  ASSUME IInv, EventsFit, NEW p \in Ports, Working(p)
  PROVE  /\ Rewritten(p) \/ intf[p] = Aim
         /\ Aim \in Mapping
<1>1. (\A i \in Pending : ~Names(i, p)) => intf[p] = Aim
  BY DEF EventsFit, WorkFits
<1>2. ASSUME NEW i \in Pending, Names(i, p) PROVE Rewritten(p)
  <2>1. CASE events[i].op # "create"
    BY <1>2, <2>1 DEF Rewritten
  <2>2. CASE events[i].op = "create"
    <3>1. PICK k \in Pending : Deletes(k, p)
      BY <1>2, <2>2 DEF EventsFit, WorkFits, Creates
    <3> QED BY <3>1 DEF Rewritten, Deletes
  <2> QED BY <2>1, <2>2
<1>3. Aim \in Mapping
  <2>1. /\ job[EventThread].pc \in SetSteps => job[EventThread].npu \in Mapping
        /\ job[EventThread].ret # "idle" => job[EventThread].npu \in Mapping
    BY JobFacts
  <2>2. Stage \in SetSteps => job[EventThread].npu \in Mapping
    BY <2>1 DEF Stage, StageOf, SetSteps
  <2> QED BY <2>2 DEF Working, Aim, Mapping
<1> QED
  BY <1>1, <1>2, <1>3

\* A node is bound as the association aims, or left as it is and not due any more.
Passes(old, new, p, due, s, n) ==
    \/ new \in {Absent, Aim}
    \/ new = old /\ (s \in due => n \in due)
    \/ new = old /\ Rewritten(p)

\* A step of an association whose nodes do so.
LEMMA BindFits ==
  ASSUME IInv, EventsFit, CacheFits, NEW s \in SetSteps, NEW n \in SetSteps \cup {"unlock"},
         MovesOn(s, n), mtx = EventThread, NEW p \in Ports, p = job[EventThread].port,
         UNCHANGED <<intf, events, boot, raced, initialized, upper>>,
         \A q \in Ports : q # p => SameNodes(q),
         queue[p] # Absent => queue'[p] # Absent, group[p] # Absent => group'[p] # Absent,
         pg[p] # Absent => pg'[p] # Absent,
         p \notin raced =>
            /\ Passes(queue[p], queue'[p], p, QueueDue, s, n)
            /\ Passes(group[p], group'[p], p, GroupDue, s, n)
            /\ Passes(pg[p], pg'[p], p, PgDue, s, n)
            /\ Passes(ingress[p], ingress'[p], p, IngressDue, s, n)
            /\ Passes(egress[p], egress'[p], p, EgressDue, s, n)
  PROVE  CacheFits'
<1> USE DEF CacheFits
<1>1. /\ Stage = s /\ Stage' = n /\ job[EventThread].pc = s
      /\ job'[EventThread].pc \in {n, "queue"} /\ job'[EventThread].port = p
      /\ \A u \in Threads : u # EventThread => job'[u] = job[u] /\ job[u].pc \notin Locked
  BY DEF MovesOn, IInv, LockedHoldsMutex
<1>2. Working(p) /\ \A q \in Ports : Working(q) => q = p
  BY <1>1 DEF Working
<1>3. \A q \in Ports : (Rewritten(q) => Rewritten(q)') /\ (Announced(q) => Announced(q)')
  BY DEF Rewritten, Announced, Creates, Names, Pending
<1>4. \A q \in Ports : Underway(q) => Underway(q)'
  <2>1. job[EventThread].pc \notin InInit
    BY <1>1 DEF InInit, InitSteps, SetSteps
  <2> QED BY <1>1, <2>1, UnderwayKept
<1>5. AllShow'
  <2> SUFFICES ASSUME NEW q \in Ports \ raced PROVE NodesShow(q)'
    BY DEF AllShow
  <2>1. NodesShow(q)
    BY DEF AllShow
  <2>2. CASE q # p
    BY <1>2, <1>3, <2>1, <2>2, ShowKept DEF SameNodes
  <2>3. CASE q = p
    <3>1. (Rewritten(q) \/ intf[q] = Aim) /\ Aim # Broken
      BY <1>2, <2>3, WorkTells DEF Mapping
    <3>2. \A due \in {QueueDue, GroupDue, PgDue, IngressDue, EgressDue} : due \subseteq SetSteps
      BY DEF QueueDue, GroupDue, PgDue, IngressDue, EgressDue, SetSteps
    <3>3. n \in SetSteps => Working(q)'
      BY <1>1, <2>3 DEF Working
    <3>4. ASSUME NEW old, NEW new, NEW due \in {QueueDue, GroupDue, PgDue, IngressDue, EgressDue},
                 Shows(old, q, due), Passes(old, new, q, due, s, n)
          PROVE  /\ new # Broken
                 /\ \/ new \in {Absent, intf'[q]}
                    \/ Rewritten(q)'
                    \/ Working(q)' /\ Stage' \in due
      BY <1>1, <1>3, <3>1, <3>2, <3>3, <3>4 DEF Shows, Passes
    <3> QED BY <2>1, <2>3, <3>4 DEF NodesShow, Shows
  <2> QED BY <2>2, <2>3
<1>6. \A u \in Threads : job'[u].pc \in Later => job'[u] = job[u]
  BY <1>1 DEF Later, SetSteps
<1>7. BuiltSoFar' /\ InitializedBuilt'
  BY <1>6, BuiltKept DEF SameNodes
<1>8. UpperHasGroups'
  BY DEF UpperHasGroups, SameNodes
<1>9. Covered'
  BY <1>3, <1>4, CoveredKept
<1>10. NothingElse'
  BY <1>1 DEF NothingElse, EventsFit, NobodyListens
<1> QED
  BY <1>5, <1>7, <1>8, <1>9, <1>10

\* Every step of an association keeps what the nodes show.
LEMMA AssociateCache ==
  ASSUME IInv, AllPaired, EventsFit, CacheFits, ~NdiMayFail, Associate
  PROVE  CacheFits'
<1>1. UNCHANGED <<intf, events, boot, raced, initialized, upper>>
  BY DEF Associate, AddIngress, AddEgress, AddQueues, AddGroups, AddPriorityGroups,
     RemovePriorityGroups, RemoveQueuesGroupsIngress, RemoveEgress, Unlock, Elsewhere
<1>2. PICK p : p = job[EventThread].port
  OBVIOUS
<1>3. job[EventThread].pc \in SetSteps \cup {"unlock"} => p \in Ports /\ mtx = EventThread
  BY <1>2 DEF IInv, JobNamesPort, LockedHoldsMutex, Locked, SetSteps
<1>4. \A q \in Ports : (Rewritten(q) => Rewritten(q)') /\ (Announced(q) => Announced(q)')
  BY <1>1 DEF Rewritten, Announced, Creates, Names, Pending
<1>5. CASE UNCHANGED <<nodes, job>>
  <2>1. \A q \in Ports : /\ Working(q) => Working(q)' /\ Stage' = Stage
                         /\ Underway(q) => Underway(q)'
    BY <1>5 DEF Working, Stage, StageOf, Underway, Initialising
  <2>2. Covered'
    BY <1>1, <1>4, <2>1, CoveredKept DEF CacheFits
  <2>3. \A u \in Threads : job'[u].pc \in Later => job'[u] = job[u]
    BY <1>5
  <2> QED BY <1>1, <1>4, <1>5, <2>1, <2>2, <2>3, CalmFits
<1>6. ASSUME NEW s \in SetSteps, NEW n \in SetSteps \cup {"unlock"}, job[EventThread].pc = s,
             Goto(EventThread, n) \/ PushThen(n)
      PROVE  MovesOn(s, n) /\ Aim = (IF s \in AddSteps THEN Npu ELSE Virtual) /\ Npu \in Mapping
  <2>1. MovesOn(s, n)
    BY <1>6, PushMoves DEF PushThen
  <2>2. Npu \in Mapping
    BY <1>6, JobFacts DEF Npu
  <2> QED BY <2>1, <2>2 DEF MovesOn, Aim, Npu
<1> USE DEF Running, Elsewhere
<1>7. CASE AddIngress /\ ~UNCHANGED <<nodes, job>>
  <2>1. /\ job[EventThread].pc = "addIngress" /\ PushThen("addEgress")
        /\ UNCHANGED <<queue, group, pg, egress>> /\ ingress' = [ingress EXCEPT ![p] = Npu]
        /\ "addIngress" \in SetSteps /\ "addEgress" \in SetSteps
    BY <1>2, <1>7 DEF AddIngress, SetSteps, Target
  <2>2. MovesOn("addIngress", "addEgress") /\ Aim = Npu
    BY <1>6, <2>1 DEF AddSteps
  <2>3. \A q \in Ports : ingress'[q] = IF q = p THEN Npu ELSE ingress[q]
    BY <2>1 DEF IInv, TypeOK
  <2>4. \A q \in Ports : q # p => SameNodes(q)
    BY <2>1, <2>3 DEF SameNodes
  <2>5. /\ Passes(queue[p], queue'[p], p, QueueDue, "addIngress", "addEgress")
        /\ Passes(group[p], group'[p], p, GroupDue, "addIngress", "addEgress")
        /\ Passes(pg[p], pg'[p], p, PgDue, "addIngress", "addEgress")
        /\ Passes(ingress[p], ingress'[p], p, IngressDue, "addIngress", "addEgress")
        /\ Passes(egress[p], egress'[p], p, EgressDue, "addIngress", "addEgress")
    BY <1>3, <2>1, <2>2, <2>3 DEF Passes, QueueDue, GroupDue, PgDue, EgressDue
  <2> QED BY <1>1, <1>2, <1>3, <2>1, <2>2, <2>4, <2>5, BindFits
<1>8. CASE AddEgress /\ ~UNCHANGED <<nodes, job>>
  <2>1. /\ job[EventThread].pc = "addEgress" /\ PushThen("addQueue")
        /\ UNCHANGED <<queue, group, pg, ingress>> /\ egress' = [egress EXCEPT ![p] = Npu]
        /\ "addEgress" \in SetSteps /\ "addQueue" \in SetSteps
    BY <1>2, <1>8 DEF AddEgress, SetSteps, Target
  <2>2. MovesOn("addEgress", "addQueue") /\ Aim = Npu
    BY <1>6, <2>1 DEF AddSteps
  <2>3. \A q \in Ports : egress'[q] = IF q = p THEN Npu ELSE egress[q]
    BY <2>1 DEF IInv, TypeOK
  <2>4. \A q \in Ports : q # p => SameNodes(q)
    BY <2>1, <2>3 DEF SameNodes
  <2>5. /\ Passes(queue[p], queue'[p], p, QueueDue, "addEgress", "addQueue")
        /\ Passes(group[p], group'[p], p, GroupDue, "addEgress", "addQueue")
        /\ Passes(pg[p], pg'[p], p, PgDue, "addEgress", "addQueue")
        /\ Passes(ingress[p], ingress'[p], p, IngressDue, "addEgress", "addQueue")
        /\ Passes(egress[p], egress'[p], p, EgressDue, "addEgress", "addQueue")
    BY <1>3, <2>1, <2>2, <2>3 DEF Passes, QueueDue, GroupDue, PgDue, IngressDue
  <2> QED BY <1>1, <1>2, <1>3, <2>1, <2>2, <2>4, <2>5, BindFits
<1>9. CASE AddQueues
  <2>1. PICK v \in Rebound(queue[p], Npu) :
           /\ queue' = [queue EXCEPT ![p] = v]
           /\ Goto(EventThread, "addGroup") \/ PushThen("addGroup")
    BY <1>2, <1>9 DEF AddQueues, Target
  <2>2. /\ job[EventThread].pc = "addQueue" /\ UNCHANGED <<group, pg, ingress, egress>>
        /\ "addQueue" \in SetSteps /\ "addGroup" \in SetSteps
    BY <1>9 DEF AddQueues, SetSteps
  <2>3. MovesOn("addQueue", "addGroup") /\ Aim = Npu /\ Npu \in Mapping
    BY <1>6, <2>1, <2>2 DEF AddSteps
  <2>4. \A q \in Ports : queue'[q] = IF q = p THEN v ELSE queue[q]
    BY <2>1 DEF IInv, TypeOK
  <2>5. \A q \in Ports : q # p => SameNodes(q)
    BY <2>2, <2>4 DEF SameNodes
  <2>6. queue[p] # Absent => queue'[p] # Absent
    BY <1>3, <2>1, <2>2, <2>3, <2>4 DEF Rebound, Mapping
  <2>7. p \notin raced => queue[p] # Broken
    BY <1>3, <2>2 DEF CacheFits, AllShow, NodesShow, Shows
  <2>8. p \notin raced =>
        /\ Passes(queue[p], queue'[p], p, QueueDue, "addQueue", "addGroup")
        /\ Passes(group[p], group'[p], p, GroupDue, "addQueue", "addGroup")
        /\ Passes(pg[p], pg'[p], p, PgDue, "addQueue", "addGroup")
        /\ Passes(ingress[p], ingress'[p], p, IngressDue, "addQueue", "addGroup")
        /\ Passes(egress[p], egress'[p], p, EgressDue, "addQueue", "addGroup")
    BY <1>3, <2>1, <2>2, <2>3, <2>4, <2>7
    DEF Passes, Rebound, GroupDue, PgDue, IngressDue, EgressDue
  <2> QED BY <1>1, <1>2, <1>3, <2>2, <2>3, <2>5, <2>6, <2>8, BindFits
<1>10. CASE AddGroups
  <2>1. /\ job[EventThread].pc = "addGroup" /\ UNCHANGED <<queue, pg, ingress, egress>>
        /\ "addGroup" \in SetSteps /\ "addPg" \in SetSteps /\ Goto(EventThread, "addPg")
    BY <1>10 DEF AddGroups, SetSteps
  <2>2. PICK v : /\ \A q \in Ports : group'[q] = IF q = p THEN v ELSE group[q]
                 /\ (queue[p] # Npu /\ v = group[p]) \/ v \in Rebound(group[p], Npu)
    <3>1. CASE queue[p] # Npu /\ UNCHANGED group
      BY <3>1
    <3>2. ASSUME NEW g \in Rebound(group[p], Npu), group' = [group EXCEPT ![p] = g]
          PROVE  \A q \in Ports : group'[q] = IF q = p THEN g ELSE group[q]
      BY <3>2 DEF IInv, TypeOK
    <3> QED BY <1>2, <1>10, <3>1, <3>2 DEF AddGroups, Target
  <2>3. MovesOn("addGroup", "addPg") /\ Aim = Npu /\ Npu \in Mapping
    BY <1>6, <2>1 DEF AddSteps
  <2>4. \A q \in Ports : q # p => SameNodes(q)
    BY <2>1, <2>2 DEF SameNodes
  <2>5. group[p] # Absent => group'[p] # Absent
    BY <1>3, <2>1, <2>2, <2>3 DEF Rebound, Mapping
  <2>6. p \notin raced => queue[p] # Broken /\ group[p] # Broken
    BY <1>3, <2>1 DEF CacheFits, AllShow, NodesShow, Shows
  <2>7. p \notin raced /\ queue[p] # Npu /\ v = group[p] => Rewritten(p) \/ group[p] = Absent
    <3> SUFFICES ASSUME p \notin raced, queue[p] # Npu, ~Rewritten(p) PROVE group[p] = Absent
      OBVIOUS
    <3>1. p \in Ports /\ Working(p) /\ Stage = "addGroup"
      BY <1>2, <1>3, <2>1, <2>3 DEF Working, MovesOn
    <3>2. intf[p] = Npu
      BY <2>3, <3>1, WorkTells
    <3>3. Shows(queue[p], p, QueueDue)
      BY <3>1 DEF CacheFits, AllShow, NodesShow
    <3>4. queue[p] = Absent
      BY <3>1, <3>2, <3>3 DEF Shows, QueueDue
    <3>5. \A u \in Threads : job[u].pc # "group"
      BY <1>3, <2>1 DEF IInv, LockedHoldsMutex, Locked, InitSteps
    <3> QED BY <3>1, <3>4, <3>5 DEF AllPaired, Paired, Builds
  <2>8. p \notin raced =>
        /\ Passes(queue[p], queue'[p], p, QueueDue, "addGroup", "addPg")
        /\ Passes(group[p], group'[p], p, GroupDue, "addGroup", "addPg")
        /\ Passes(pg[p], pg'[p], p, PgDue, "addGroup", "addPg")
        /\ Passes(ingress[p], ingress'[p], p, IngressDue, "addGroup", "addPg")
        /\ Passes(egress[p], egress'[p], p, EgressDue, "addGroup", "addPg")
    BY <1>3, <2>1, <2>2, <2>3, <2>6, <2>7
    DEF Passes, Rebound, QueueDue, PgDue, IngressDue, EgressDue
  <2> QED BY <1>1, <1>2, <1>3, <2>1, <2>3, <2>4, <2>5, <2>8, BindFits
<1>11. CASE AddPriorityGroups
  <2>1. PICK v \in Rebound(pg[p], Npu) :
           /\ pg' = [pg EXCEPT ![p] = v]
           /\ Goto(EventThread, "unlock") \/ PushThen("unlock")
    BY <1>2, <1>11 DEF AddPriorityGroups, Target
  <2>2. /\ job[EventThread].pc = "addPg" /\ UNCHANGED <<queue, group, ingress, egress>>
        /\ "addPg" \in SetSteps
    BY <1>11 DEF AddPriorityGroups, SetSteps
  <2>3. MovesOn("addPg", "unlock") /\ Aim = Npu /\ Npu \in Mapping
    BY <1>6, <2>1, <2>2 DEF AddSteps
  <2>4. \A q \in Ports : pg'[q] = IF q = p THEN v ELSE pg[q]
    BY <2>1 DEF IInv, TypeOK
  <2>5. \A q \in Ports : q # p => SameNodes(q)
    BY <2>2, <2>4 DEF SameNodes
  <2>6. pg[p] # Absent => pg'[p] # Absent
    BY <1>3, <2>1, <2>2, <2>3, <2>4 DEF Rebound, Mapping
  <2>7. p \notin raced => pg[p] # Broken
    BY <1>3, <2>2 DEF CacheFits, AllShow, NodesShow, Shows
  <2>8. p \notin raced =>
        /\ Passes(queue[p], queue'[p], p, QueueDue, "addPg", "unlock")
        /\ Passes(group[p], group'[p], p, GroupDue, "addPg", "unlock")
        /\ Passes(pg[p], pg'[p], p, PgDue, "addPg", "unlock")
        /\ Passes(ingress[p], ingress'[p], p, IngressDue, "addPg", "unlock")
        /\ Passes(egress[p], egress'[p], p, EgressDue, "addPg", "unlock")
    BY <1>3, <2>1, <2>2, <2>3, <2>4, <2>7
    DEF Passes, Rebound, QueueDue, GroupDue, IngressDue, EgressDue
  <2> QED BY <1>1, <1>2, <1>3, <2>2, <2>3, <2>5, <2>6, <2>8, BindFits
<1>12. CASE RemovePriorityGroups
  <2>1. /\ job[EventThread].pc = "rmPg" /\ PushThen("rmQueue")
        /\ UNCHANGED <<queue, group, ingress, egress>> /\ pg' = [pg EXCEPT ![p] = Virtual]
        /\ "rmPg" \in SetSteps /\ "rmQueue" \in SetSteps
    BY <1>2, <1>12 DEF RemovePriorityGroups, SetSteps, Target
  <2>2. MovesOn("rmPg", "rmQueue") /\ Aim = Virtual
    BY <1>6, <2>1 DEF AddSteps
  <2>3. \A q \in Ports : pg'[q] = IF q = p THEN Virtual ELSE pg[q]
    BY <2>1 DEF IInv, TypeOK
  <2>4. \A q \in Ports : q # p => SameNodes(q)
    BY <2>1, <2>3 DEF SameNodes
  <2>5. /\ Passes(queue[p], queue'[p], p, QueueDue, "rmPg", "rmQueue")
        /\ Passes(group[p], group'[p], p, GroupDue, "rmPg", "rmQueue")
        /\ Passes(pg[p], pg'[p], p, PgDue, "rmPg", "rmQueue")
        /\ Passes(ingress[p], ingress'[p], p, IngressDue, "rmPg", "rmQueue")
        /\ Passes(egress[p], egress'[p], p, EgressDue, "rmPg", "rmQueue")
    BY <1>3, <2>1, <2>2, <2>3 DEF Passes, QueueDue, GroupDue, IngressDue, EgressDue
  <2>6. pg'[p] # Absent
    BY <1>3, <2>1, <2>3
  <2> QED BY <1>1, <1>2, <1>3, <2>1, <2>2, <2>4, <2>5, <2>6, BindFits
<1>13. CASE RemoveQueuesGroupsIngress
  <2>1. /\ job[EventThread].pc = "rmQueue" /\ PushThen("rmEgress") /\ UNCHANGED <<pg, egress>>
        /\ queue' = [queue EXCEPT ![p] = Unbound(queue[p])]
        /\ group' = [group EXCEPT ![p] = Unbound(group[p])]
        /\ ingress' = [ingress EXCEPT ![p] = Virtual]
        /\ "rmQueue" \in SetSteps /\ "rmEgress" \in SetSteps
    BY <1>2, <1>13 DEF RemoveQueuesGroupsIngress, SetSteps, Target
  <2>2. MovesOn("rmQueue", "rmEgress") /\ Aim = Virtual
    BY <1>6, <2>1 DEF AddSteps
  <2>3. \A q \in Ports : /\ queue'[q] = IF q = p THEN Unbound(queue[p]) ELSE queue[q]
                         /\ group'[q] = IF q = p THEN Unbound(group[p]) ELSE group[q]
                         /\ ingress'[q] = IF q = p THEN Virtual ELSE ingress[q]
    BY <2>1 DEF IInv, TypeOK
  <2>4. \A q \in Ports : q # p => SameNodes(q)
    BY <2>1, <2>3 DEF SameNodes
  <2>5. p \notin raced => queue[p] # Broken /\ group[p] # Broken
    BY <1>3, <2>1 DEF CacheFits, AllShow, NodesShow, Shows
  <2>6. p \notin raced =>
        /\ Passes(queue[p], queue'[p], p, QueueDue, "rmQueue", "rmEgress")
        /\ Passes(group[p], group'[p], p, GroupDue, "rmQueue", "rmEgress")
        /\ Passes(pg[p], pg'[p], p, PgDue, "rmQueue", "rmEgress")
        /\ Passes(ingress[p], ingress'[p], p, IngressDue, "rmQueue", "rmEgress")
        /\ Passes(egress[p], egress'[p], p, EgressDue, "rmQueue", "rmEgress")
    BY <1>3, <2>1, <2>2, <2>3, <2>5 DEF Passes, Unbound, PgDue, EgressDue
  <2>7. /\ queue[p] # Absent => queue'[p] # Absent
        /\ group[p] # Absent => group'[p] # Absent
    BY <1>3, <2>1, <2>3 DEF Unbound
  <2> QED BY <1>1, <1>2, <1>3, <2>1, <2>2, <2>4, <2>6, <2>7, BindFits
<1>14. CASE RemoveEgress
  <2>1. /\ job[EventThread].pc = "rmEgress" /\ PushThen("unlock")
        /\ UNCHANGED <<queue, group, pg, ingress>> /\ egress' = [egress EXCEPT ![p] = Virtual]
        /\ "rmEgress" \in SetSteps
    BY <1>2, <1>14 DEF RemoveEgress, SetSteps, Target
  <2>2. MovesOn("rmEgress", "unlock") /\ Aim = Virtual
    BY <1>6, <2>1 DEF AddSteps
  <2>3. \A q \in Ports : egress'[q] = IF q = p THEN Virtual ELSE egress[q]
    BY <2>1 DEF IInv, TypeOK
  <2>4. \A q \in Ports : q # p => SameNodes(q)
    BY <2>1, <2>3 DEF SameNodes
  <2>5. /\ Passes(queue[p], queue'[p], p, QueueDue, "rmEgress", "unlock")
        /\ Passes(group[p], group'[p], p, GroupDue, "rmEgress", "unlock")
        /\ Passes(pg[p], pg'[p], p, PgDue, "rmEgress", "unlock")
        /\ Passes(ingress[p], ingress'[p], p, IngressDue, "rmEgress", "unlock")
        /\ Passes(egress[p], egress'[p], p, EgressDue, "rmEgress", "unlock")
    BY <1>3, <2>1, <2>2, <2>3 DEF Passes, QueueDue, GroupDue, PgDue, IngressDue
  <2> QED BY <1>1, <1>2, <1>3, <2>1, <2>2, <2>4, <2>5, BindFits
<1>15. CASE Unlock
  <2>1. /\ job[EventThread].pc = "unlock" /\ UNCHANGED nodes
        /\ \A u \in Threads : job'[u] = IF u = EventThread THEN Idle ELSE job[u]
    BY <1>15 DEF Unlock, IInv, TypeOK
  <2>2. \A q \in Ports : ~Working(q)
    BY <2>1 DEF Working, Stage, StageOf, InitSteps, SetSteps
  <2>3. job[EventThread].pc \notin InInit
    BY <2>1 DEF InInit, InitSteps
  <2>4. \A q \in Ports : Underway(q) => Underway(q)'
    BY <2>1, <2>3, UnderwayKept
  <2>5. Covered'
    BY <1>1, <1>4, <2>4, CoveredKept DEF CacheFits
  <2>6. \A u \in Threads : job'[u].pc \in Later => job'[u] = job[u]
    BY <2>1 DEF Idle, Later
  <2> QED BY <1>1, <1>4, <2>1, <2>2, <2>4, <2>5, <2>6, CalmFits
<1> QED
  BY <1>5, <1>7, <1>8, <1>9, <1>10, <1>11, <1>12, <1>13, <1>14, <1>15 DEF Associate

\* A change of an interface is announced, or made good by the scan.
LEMMA ChangeCache ==
  ASSUME IInv, EventsFit, CacheFits, NEW r \in Ports, NEW v \in {Absent} \cup Mapping,
         NEW e \in Event, Change(r, v, e), Sensible(r, v, e)
  PROVE  CacheFits'
<1> USE DEF CacheFits
<1>1. /\ UNCHANGED <<nodes, job, initialized, boot>> /\ scanPass \in 0 .. 3
      /\ events' = IF scanPass > 0 THEN Append(events, e) ELSE events
  BY DEF Change, IInv, TypeOK
<1>2. \A p \in Ports : intf'[p] = IF p = r THEN v ELSE intf[p]
  BY DEF Change, IInv, TypeOK
<1>3. raced \subseteq raced' /\ (r \notin raced' => ~Disturbs(r))
  BY DEF Change
<1>4. \A p \in Ports : /\ (Working(p) => Working(p)' /\ Stage' = Stage)
                      /\ (Underway(p) => Underway(p)') /\ (Awaited(p) => Awaited(p)')
  BY <1>1 DEF Working, Stage, StageOf, Underway, Initialising, Awaited
<1>5. /\ \A p \in Ports : (Rewritten(p) => Rewritten(p)') /\ (Announced(p) => Announced(p)')
      /\ scanPass # 0 => IF e.op = "create" THEN Announced(r)' ELSE Rewritten(r)'
  <2>1. CASE scanPass = 0
    BY <1>1, <2>1 DEF Rewritten, Announced, Creates, Names, Pending
  <2>2. CASE scanPass # 0
    <3>1. PICK n : Appended(n, e)
      BY <1>1, <2>2, AppendEvents
    <3>2. /\ n \in Pending' /\ events'[n] = e /\ (Names(n, r)' <=> r = e.port)
          /\ (Creates(n, r)' <=> r = e.port /\ e.op = "create")
      BY <3>1 DEF Appended
    <3>3. \A i \in Pending : /\ i \in Pending' /\ events'[i] = events[i]
                            /\ \A p \in Ports : /\ (Names(i, p)' <=> Names(i, p))
                                                /\ (Creates(i, p)' <=> Creates(i, p))
      BY <3>1 DEF Appended
    <3>4. \A p \in Ports : (Rewritten(p) => Rewritten(p)') /\ (Announced(p) => Announced(p)')
      BY <3>3 DEF Rewritten, Announced
    <3>5. IF e.op = "create" THEN Announced(r)' ELSE Rewritten(r)'
      BY <3>2 DEF Rewritten, Announced, Sensible
    <3> QED BY <3>4, <3>5
  <2> QED BY <2>1, <2>2
<1>6. AllShow'
  <2> SUFFICES ASSUME NEW p \in Ports \ raced' PROVE NodesShow(p)'
    BY DEF AllShow
  <2>1. NodesShow(p)
    BY <1>3 DEF AllShow
  <2>2. CASE p # r
    BY <1>1, <1>2, <1>4, <1>5, <2>1, <2>2, ShowKept
  <2>3. CASE p = r /\ scanPass = 0
    <3>1. p \notin initialized /\ ~Underway(p)
      BY <1>3, <2>3 DEF Disturbs, Underway
    <3>2. \A node \in {queue, group, pg, ingress, egress} : node[p] = Absent
      BY <2>3, <3>1 DEF NothingElse
    <3> QED BY <1>1, <3>2 DEF NodesShow, Shows
  <2>4. CASE p = r /\ scanPass # 0
    <3>1. Rewritten(p)' \/ intf[p] = Absent
      BY <1>5, <2>4 DEF Sensible
    <3> QED BY <1>1, <1>4, <1>5, <2>1, <3>1 DEF NodesShow, Shows
  <2> QED BY <2>2, <2>3, <2>4
<1>7. BuiltSoFar' /\ InitializedBuilt'
  BY <1>1, <1>3, BuiltKept
<1>8. UpperHasGroups' /\ NothingElse'
  BY <1>1, <1>4 DEF UpperHasGroups, NothingElse
<1>9. Covered'
  <2> SUFFICES ASSUME NEW p \in Ports \ (raced' \cup FcPorts), intf'[p] # Absent
               PROVE  p \in initialized \/ Underway(p)' \/ Awaited(p)' \/ Announced(p)'
    BY <1>1 DEF Covered
  <2>1. CASE intf[p] # Absent
    BY <1>3, <1>4, <1>5, <2>1 DEF Covered
  <2>2. CASE intf[p] = Absent
    <3>1. p = r /\ e.op = "create"
      BY <1>2, <2>2 DEF Sensible
    <3>2. scanPass = 0 => Awaited(p)
      BY DEF Awaited
    <3> QED BY <1>4, <1>5, <3>1, <3>2
  <2> QED BY <2>1, <2>2
<1> QED
  BY <1>6, <1>7, <1>8, <1>9

\* The scan takes over what nobody has initialised.
LEMMA ScanCache ==
  ASSUME IInv, EventsFit, CacheFits, Scan
  PROVE  CacheFits'
<1>1. UNCHANGED <<intf, events, raced, nodes, initialized>>
  BY DEF Scan, Subscribe, ScanSnapshot, ScanPort
<1>2. \A q \in Ports : (Rewritten(q) => Rewritten(q)') /\ (Announced(q) => Announced(q)')
  BY <1>1 DEF Rewritten, Announced, Creates, Names, Pending
<1>3. ASSUME UNCHANGED job, scanPass' = 0 => scanPass = 0,
             \A q \in Ports \ FcPorts : intf[q] # Absent /\ Awaited(q) => Awaited(q)'
      PROVE  CacheFits'
  <2>1. \A q \in Ports : /\ (Working(q) => Working(q)' /\ Stage' = Stage)
                        /\ (Underway(q) => Underway(q)')
    BY <1>3 DEF Working, Stage, StageOf, Underway, Initialising
  <2>2. Covered'
    BY <1>1, <1>2, <1>3, <2>1 DEF CacheFits, Covered
  <2> QED BY <1>1, <1>2, <1>3, <2>1, <2>2, CalmFits
<1>4. CASE Subscribe
  <2>1. UNCHANGED job /\ scanPass = 0 /\ scanPass' = 1
    BY <1>4 DEF Subscribe
  <2>2. \A q \in Ports : Awaited(q)'
    BY <2>1 DEF Awaited
  <2> QED BY <1>3, <2>1, <2>2
<1>5. CASE ScanSnapshot
  <2>1. /\ UNCHANGED job /\ scanPass \in {1, 2} /\ scanTodo = {} /\ scanPass' = scanPass + 1
        /\ scanTodo' = {p \in Ports : /\ intf[p] # Absent
                                      /\ Type(p) = IF scanPass = 1 THEN "cpu" ELSE "eth"}
    BY <1>5 DEF ScanSnapshot
  <2>2. ASSUME NEW q \in Ports \ FcPorts, intf[q] # Absent, Awaited(q) PROVE Awaited(q)'
    <3>1. CASE Type(q) = "cpu"
      <4>1. scanPass = 1
        BY <2>1, <2>2, <3>1 DEF Awaited
      <4>2. q \in scanTodo'
        BY <2>1, <2>2, <3>1, <4>1
      <4> QED BY <4>2 DEF Awaited
    <3>2. CASE Type(q) # "cpu"
      <4>1. Type(q) = "eth"
        BY <2>2, <3>2 DEF Type
      <4>2. scanPass = 1 => Awaited(q)'
        BY <2>1, <3>2 DEF Awaited, Type
      <4>3. scanPass = 2 => q \in scanTodo'
        BY <2>1, <2>2, <4>1
      <4> QED BY <2>1, <4>2, <4>3 DEF Awaited
    <3> QED BY <3>1, <3>2
  <2> QED BY <1>3, <2>1, <2>2
<1>6. ASSUME NEW p \in Ports, ScanPort(p) PROVE CacheFits'
  <2>1. job[ScanThread] = Idle /\ scanTodo' = scanTodo \ {p} /\ UNCHANGED scanPass
    BY <1>6 DEF ScanPort
  <2>2. CASE intf[p] = Absent /\ UNCHANGED job
    <3>1. \A q \in Ports \ FcPorts : intf[q] # Absent /\ Awaited(q) => Awaited(q)'
      BY <2>1, <2>2 DEF Awaited
    <3> QED BY <1>3, <2>1, <2>2, <3>1
  <2>3. CASE LookedUp(ScanThread, p)
    BY <1>1, <2>1, <2>3, LookedUpCache
  <2> QED BY <1>6, <2>2, <2>3 DEF ScanPort
<1> QED
  BY <1>4, <1>5, <1>6 DEF Scan

\* Every step keeps what the nodes show.
LEMMA NextCache ==
  ~NdiMayFail /\ IInv /\ LookUpsHold /\ AllPaired /\ EventsFit /\ CacheFits /\ [Next]_vars
     => CacheFits'
<1> SUFFICES ASSUME ~NdiMayFail, IInv, LookUpsHold, AllPaired, EventsFit, CacheFits, [Next]_vars
             PROVE  CacheFits'
  OBVIOUS
<1>1. CASE Interface
  BY <1>1, InterfaceChanges, ChangeCache
<1>2. ASSUME NEW t \in CpsThreads, NEW p \in Ports, OnDemand(t, p) PROVE CacheFits'
  BY <1>2, LookedUpCache DEF OnDemand
<1>3. CASE \E t \in Threads : Initialise(t)
  BY <1>3, InitialiseCache
<1>4. CASE HandleEvent
  BY <1>4, HandleEventCache
<1>5. CASE Associate
  BY <1>5, AssociateCache
<1>6. CASE Scan
  BY <1>6, ScanCache
<1>7. CASE Restart
  <2>1. /\ events' = <<>> /\ initialized' = {} /\ job' = [t \in Threads |-> Idle] /\ scanPass' = 0
        /\ queue' = NoNode /\ group' = NoNode /\ upper' = NoNode
        /\ pg' = NoNode /\ ingress' = NoNode /\ egress' = NoNode
    BY <1>7 DEF Restart
  <2>2. AllShow' /\ UpperHasGroups' /\ NothingElse'
    BY <2>1 DEF AllShow, NodesShow, Shows, NoNode, UpperHasGroups, NothingElse
  <2>3. BuiltSoFar' /\ InitializedBuilt'
    BY <2>1 DEF BuiltSoFar, InitializedBuilt, Idle
  <2>4. Covered'
    BY <2>1 DEF Covered, Awaited
  <2> QED BY <2>2, <2>3, <2>4 DEF CacheFits
<1>8. CASE UNCHANGED vars
  <2>1. \A q \in Ports : /\ (Working(q) => Working(q)' /\ Stage' = Stage)
                        /\ (Underway(q) => Underway(q)') /\ (Rewritten(q) => Rewritten(q)')
                        /\ (Announced(q) => Announced(q)')
    BY <1>8 DEF vars, Working, Stage, StageOf, Underway, Initialising, Rewritten, Announced,
       Creates, Names, Pending
  <2>2. Covered'
    BY <1>8, <2>1, CoveredKept DEF vars, CacheFits
  <2> QED BY <1>8, <2>1, <2>2, CalmFits DEF vars
<1> QED
  BY <1>1, <1>2, <1>3, <1>4, <1>5, <1>6, <1>7, <1>8 DEF Next

\* At the start there are no nodes, and the scan is to come.
LEMMA InitCache == Init => CacheFits
<1> SUFFICES ASSUME Init PROVE CacheFits
  OBVIOUS
<1>1. /\ events = <<>> /\ initialized = {} /\ job = [t \in Threads |-> Idle] /\ scanPass = 0
      /\ queue = NoNode /\ group = NoNode /\ upper = NoNode
      /\ pg = NoNode /\ ingress = NoNode /\ egress = NoNode
  BY DEF Init
<1>2. AllShow /\ UpperHasGroups /\ NothingElse
  BY <1>1 DEF AllShow, NodesShow, Shows, NoNode, UpperHasGroups, NothingElse
<1>3. BuiltSoFar /\ InitializedBuilt
  BY <1>1 DEF BuiltSoFar, InitializedBuilt, Idle
<1>4. Covered
  BY <1>1 DEF Covered, Awaited
<1> QED
  BY <1>2, <1>3, <1>4 DEF CacheFits

\* At rest nothing is pending, and what was to be built is.
LEMMA Settled ==
  ASSUME IInv, EventsFit, CacheFits, Quiescent, NEW p \in Ports \ (raced \cup FcPorts)
  PROVE  Mirrors(p)
<1>1. Pending = {} /\ Stage = "idle" /\ scanTodo = {} /\ scanPass = 3
  BY DEF Quiescent, ScanDone, Pending, Stage, StageOf, Idle, InitSteps
<1>2. ~Rewritten(p) /\ ~Working(p) /\ ~Underway(p) /\ ~Awaited(p) /\ ~Announced(p)
  BY <1>1 DEF Quiescent, Rewritten, Working, Underway, Initialising, Awaited, Announced, Idle,
     SetSteps, InitSteps
<1>3. NodesShow(p)
  BY DEF CacheFits, AllShow
<1>4. \A node \in {queue, group, pg, ingress, egress} : node[p] \in {Absent, intf[p]}
  BY <1>2, <1>3 DEF NodesShow, Shows
<1>5. p \in initialized => \A node \in {queue, group, pg, ingress, egress} : node[p] # Absent
  BY DEF CacheFits, InitializedBuilt, IInv, InitializedHasProfiles
<1>6. intf[p] # Absent => p \in initialized
  BY <1>2 DEF CacheFits, Covered
<1> QED
  BY <1>4, <1>5, <1>6 DEF Mirrors

\* While NDI answers, the cache is always on its way: no order of the interface events, the
\* startup scan, the requests and the steps of the associations loses a node that nothing
\* will bind again, or an interface that nothing will initialise.
THEOREM AlwaysSettling == ASSUME ~NdiMayFail PROVE Spec => []Settling
<1>1. Init => LookUpsHold /\ AllPaired
  BY DEF Init, LookUpsHold, AllPaired, Paired, Builds, Idle, InInit, InitSteps, NoNode
<1>2. IInv /\ LookUpsHold /\ AllPaired /\ [Next]_vars => (LookUpsHold /\ AllPaired)'
  BY NextLookUps, NextPairs
<1>3. IInv /\ LookUpsHold /\ AllPaired /\ EventsFit /\ CacheFits /\ [Next]_vars => CacheFits'
  BY NextCache
<1>4. EventsFit /\ CacheFits <=> Settling
  BY DEF Settling
<1> QED
  BY <1>1, <1>2, <1>3, <1>4, NextEvents, InitEvents, InitCache, Invariance, PTL DEF Spec

\* While NDI answers, an interface that did not change during one of its initialisations
\* is mirrored once everything has come to rest, except for a fibre channel interface, which
\* the scan of nas_qos_init leaves out: whatever events the interface saw and however they
\* fell between the scan, the requests and the associations, each node is there and bound as
\* the interface is (nas_qos_if_create_notify, nas_qos_if_set_notify,
\* nas_qos_if_delete_notify, nas_qos_init).
THEOREM MirroredOnceSettled ==
  ASSUME ~NdiMayFail
  PROVE  Spec => [](Quiescent => \A p \in Ports \ (raced \cup FcPorts) : Mirrors(p))
<1>1. IInv /\ Settling => (Quiescent => \A p \in Ports \ (raced \cup FcPorts) : Mirrors(p))
  BY Settled DEF Settling
<1> QED
  BY <1>1, AlwaysSettling, Invariance, PTL

\* Where no interface is fibre channel, that is every interface.
THEOREM SettledWithoutRaces ==
  ASSUME ~NdiMayFail, FcPorts = {}
  PROVE  Spec => []SettledUnlessRaced
<1>1. (Quiescent => \A p \in Ports \ (raced \cup FcPorts) : Mirrors(p)) => SettledUnlessRaced
  BY DEF SettledUnlessRaced
<1> QED
  BY <1>1, MirroredOnceSettled, PTL
=============================================================================
