# TLA+ models of opx-nas-qos

opx-nas-qos is the QoS part of the network abstraction service (NAS) of OPX.
It is one process. CPS clients read and write QoS objects (profiles, maps, queues,
scheduler groups, port profiles, pools) through it; it keeps a cache of every object,
pushes the objects to the switch chip (NPU) through NDI/SAI and records the
configuration of ports in a database. Interfaces come from another process,
nas-interface, which maps and unmaps them to NPU ports at run time; the QoS nodes of an
interface outlive such a change and are bound anew.

Paths below are relative to the root of the source repository.

## 1. Inventory

| Part | Code | State | Operations |
|---|---|---|---|
| Interface events and startup scan | `src/nas_qos_init.cpp`, `src/nas_qos_switch_list.cpp` | the event subscription; `initialized_port_list`; the switch mutex | create, delete, associate, disassociate events; scan of existing interfaces; on-demand initialisation by a request |
| Per-port nodes | `src/nas_qos_cps_{queue,scheduler_group,priority_group,port_ingress,port_egress}.cpp` | one list of nodes per type in `nas_qos_switch`, each node with its NDI ids | initialisation from hardware or as a virtual port, association, disassociation, removal |
| HQoS tree | `src/nas_qos_{cps_,}scheduler_group.cpp`, `src/nas_qos_{cps_,}queue.cpp` | parent, children and NDI object of queues and scheduler groups; database records | SET of a parent, CREATE and DELETE of groups, rollback, replay of the database |
| Profile objects | `src/nas_qos_{cps_,}{policer,wred,scheduler,buffer_pool,buffer_profile}.cpp` | objects by id, an id generator per type | create, set, delete, rollback |
| Maps and map entries | `src/nas_qos_{cps_map,cps_map_entry,map,map_entry,map_util}.cpp` | maps by type and local id, their entries | create, set, delete of maps and of entries, rollback |
| Switch cache | `src/nas_qos_switch.cpp`, `inc/opx/nas_qos_switch.h` | the lists above, id generators, NAS to NDI id look-ups | add, remove, look up |
| CPS dispatch | `src/nas_qos_cps.cpp` | none | routes read, write and rollback by object type |
| Port pools | `src/nas_qos_{cps_,}port_pool.cpp` | pools by port and buffer pool, each with its NDI id; database records; `port_pool_mutex` | create, set, delete, rollback, statistics; association with the replay of the records |
| Port ingress/egress and priority-group requests | `src/nas_qos_{cps_,}{port_ingress,port_egress,priority_group}.cpp` | port profile attributes, database records | SET, rollback, replay |
| Statistics | the `*_stat_*` functions of queue, buffer pool, priority group and port pool | none but the progress of a request: which types are synchronised, which counters are left | read and clear NPU counters, live and of snapshots, of one node or of all that match, per MMU |
| Switch list | `src/nas_qos_switch_list.cpp` | one `nas_qos_switch` per switch | creation on first use |
| Boot scripts | `scripts/` | none | CPS clients that write the default configuration |
| Unit tests | `src/unit_test/` | none | CPS clients of a running daemon |

**Interaction.** Three kinds of threads run in the process: the event thread, the thread
of `nas_qos_init`, and the thread that serves CPS operations. A CPS request holds the
mutex of its handler's file, and most handlers of port nodes then take the recursive
mutex of the switch; the event thread takes only the switch mutex. Handlers of
port nodes call `nas_qos_if_create_notify` when their port is not initialised; an
association replays the database by calling the CPS SET handlers of each node type while
it holds the switch mutex, and these may start a nested initialisation of the same port.
Handlers of port pools are the exception: they hold only the mutex of their file, which
the association does not take, so the two run at the same time on the same list.
The CPS framework runs the operations of a transaction one by one; each appends what is
needed to undo it to `param->prev`, and when one fails the framework hands these objects
back, the last first. Transactions of several clients interleave between operations.

**What is hard.**

- *Stale look-ups.* `nas_qos_if_create_notify` asks nas-interface for the NPU port before
  it takes the mutex and uses the answer after it.
- *Events against scans against requests.* All three initialise ports; an interface may
  change between the subscription, the snapshots of the scan and the handling of an
  event.
- *Order inside an association.* Ingress and egress, queues, scheduler groups and
  priority groups are bound one after the other, and each step reads what earlier or
  later ones bind (`src/nas_qos_switch_list.cpp:346`, "The order is important here!").
- *Half-done work.* NDI may fail at any call: after an id was reserved, after the
  object was created in the NPU, between queues and scheduler groups, in a rollback.
- *Undoing.* A rollback must restore ids, values, parents and lists of children from what
  was saved, while other clients go on.
- *Unprotected sharing.* The association of port pools walks a list, and uses pointers
  into it, that the handlers of requests change under another mutex.
- *Many calls for one answer.* A GET of statistics is a sequence of NDI calls over
  nodes, MMUs and snapshots, where one SYNC serves all nodes of a type and any call may be
  refused.
- *Two records of one fact.* Cache and NPU, parent and list of children, id
  generator and object list, cache and database.

**What makes each part correct.** Ports: the cache settles on what nas-interface says,
no node is left of a deleted interface, initialisation never touches a live node, all
threads come to rest. Profiles and maps: reserved ids are those of objects, the NPU
holds what the cache says, an undone transaction leaves no trace. Tree: parents and
children agree, the NPU has the same tree, an undone transaction restores it, an
association restores what the database has. Pools and port profiles: the NPU of an
associated port holds what the database records. Statistics: a request reads or clears what it
asks for, all of it and nothing else, and the snapshots of one answer are of one moment.

The hazards of the code, each at its line, are listed in `PROJECT.json`.

## 2. Modules

`PortLifecycle` models the threads, the look-ups and the mutex, and abstracts each
node type of a port to one binding. `HqosTree` opens up two of these node types for one
interface and models their contents; it takes the event thread's association as the
sequence of its locked steps and leaves the initialisation races to `PortLifecycle`.
`PortProfiles` does the same for the other three node types, ingress, egress and priority
groups, with the order of the association's steps and the ids they read from each other.
`PortPools` has the last step of an association, port pools, which differs from the others
in that requests run at the same time: its handlers are split where the other thread can see
them. `Statistics` has requests as sequences of NDI calls on the nodes of several interfaces.
`ProfileStore` and `MapTable` are independent of ports; `AtomicStore` says what clients of
`ProfileStore` may rely on, and `ProfileStore` implements it.

### PortLifecycle (with PortLifecycleInv, PortLifecycleProofs, MCPortLifecycle)

| Model | Code |
|---|---|
| `intf`, `IfCreate`, `IfDelete`, `IfMap`, `IfUnmap` | nas-interface, another process |
| `events`, `EventCreate`, `EventDelete`, `EventSet` | `nas_qos_if_set_handler`, `nas_qos_if_{create,delete,set}_notify` |
| `OnDemand` | the test and call at the head of each CPS handler of a port node |
| `Subscribe`, `ScanSnapshot`, `ScanPort` | `cps_init`, `nas_qos_init_existing_intf` |
| `LookedUp`, then `Lock` | the look-up of `nas_qos_if_create_notify` (line 268), then its mutex (295) |
| `InitQueues` ... `InitEgress`, `MarkInitialized` | the steps under the mutex, in the order of the code |
| `AddIngress` ... `AddPriorityGroups` | association, in the order of `nas_qos_if_set_notify` |
| `RemovePriorityGroups` ... `RemoveEgress` | disassociation |
| `PushThen` | the replay of a database record through the SET handler, with its nested initialisation |
| `Restart` | the service manager starts the process again after a crash |

A node's value is what it is bound to: an NPU port, `Virtual` (no NPU port), `Absent`, or
`Broken` (incomplete). Collections (all queues of a port) are one value. `raced` is an
auxiliary record of the ports whose interface changed while some thread was between the
look-up and the end of an initialisation, or before the subscription of a port that was
already initialised: for these the code promises nothing, and `lifecycle_ghost` shows
what may happen. The last step of `nas_qos_if_set_notify`, port pools, is in `PortPools`.

### ProfileStore (with ProfileStoreProofs, AtomicStore, MCProfileStore)

One object type at a time: the five profile types follow the same code pattern
(`nas_qos_cps_api_*_{create,set,delete,rollback}`), and what differs between them is
a constant: `HasShadows` is the read-back of shadow pools, which only buffer pools do. An
object is `val` (the attributes that go to the NPU and are marked dirty), `name` (set
without a mark) and the handle of its NPU object. `tx[c].prev` is `param->prev`; a
request that carries no value for an attribute is `None`. An operation is one step, as
the handlers of a type hold one mutex.

`AtomicStore` is the abstract specification: objects appear, change or disappear one at a
time, and a failed transaction ends only when the objects are what they were when it
began, unless another client changed one meanwhile or the NPU refused to go back. Ids,
handles, saved objects and the order of undoing are not in it. `ProfileStore` implements it
with `objects` the values that go to the NPU, `phase` the phases of the transactions, and
`began` the auxiliary `before`.

### MapTable (with MapTableProofs, MCMapTable)

A map id is the pair of its bit fields (`ENCODE_LOCAL_MAP_ID_AND_TYPE`): an id wider
than its field is cut off, and a multiple of the range means "unspecified". An entry
carries its value and its dirty mark, since a refused SET leaves its value in the cached
entry. `base_obj_t`, which keeps the marks, is not part of the repository: whether a commit
clears them is left open, and every property holds either way. Names of maps are left
out.

In a PG_TO_PFC map the value is the second part of the key (`KeyTypes`, `KeyVal`): an entry has
no attribute (`Given`), so that it is never marked and every SET of it is refused (`Settable`).
The NPU is taken to keep such a value by the whole key, both parts, as NDI is given them. Creating
an entry writes that value, and so does deleting it, where the other types write a default
(`Written`; `src/nas_qos_map_entry.cpp:146`, `:208`). `StaleEntriesAreDirty` says it as it
is: a key without an entry has its default in the NPU, or in such a map possibly the value in
the key. What it still rules out there is any other value, and in the other maps anything
but the default.

### HqosTree (with HqosTreeProofs, MCHqosTree)

The nodes of one interface: `N` queues, the groups above them, a root, and `S` groups
that requests may create. Each cached node has its parent, children and NPU object;
`npu` has the parent of each NPU object; `db` the recorded parents. A parent that is not
bound is pushed as the null object, as `nas2ndi_scheduler_group_id` does. An association
is a sequence of steps during which no request runs (it holds the switch mutex), while
nas-interface may change the interface again. Bounds of the model, beyond the constants:
one level between root and queues, parents only of the level above. A group created by
a request keeps the mark of MAX_CHILD, which the handlers show by testing marks after
commits (`src/nas_qos_cps_scheduler_group.cpp:900`) and clearing them by hand where they
must go; so no SET is accepted for it. CREATE and DELETE of queues, which the
code deprecates, are not modelled.

`PhysicalTree` is what NDI reports, linked both ways. `VirtualTree`, of a port that is virtual
when it is initialised, is linked one way only: each queue has the group of its number as parent
(`src/nas_qos_cps_queue.cpp:994`), and the groups list no children
(`src/nas_qos_cps_scheduler_group.cpp:492`). Two auxiliary variables name the nodes whose parent
may fail to list them. `offline` has the nodes that a SET moved while they had no NPU object,
when no list is changed; `preset` the queues that still have the parent of the virtual
start. A preset queue leaves the set when a SET or a replay pushes its parent, which joins it
to a list. `ListsAgree` leaves out the offline nodes and says of the preset ones that no group
lists them; `RollbackRestores` exempts transactions that set a node of either kind, since the
undo joins it to a list it was not in.

### PortProfiles (with PortProfilesProofs, MCPortProfiles)

| Model | Code |
|---|---|
| `Set`, `SetFails` | `nas_qos_cps_api_port_ing_set`, `nas_qos_cps_api_port_eg_set`, `nas_qos_cps_api_priority_group_set` |
| `Push` / `CacheOnly` | the branch of the handlers with and without `commit_modify`; both commit to the database |
| `Undo`, `Undone` | the three rollback handlers |
| `HandleEvent`, `Steps` | `nas_qos_if_set_notify` and its order |
| `IngressStep`, `EgressStep`, `PgStep`, then `Replay` | the association of a node type, then the replay of its database records |
| `QueueStep` | what the egress profile needs of queues: which NPU port they are bound to |

A node has one attribute, which stands for those of its type: the handlers treat all
attributes that go to the NPU alike. `bound` is a node's NPU port, `pgId`, `pgList` and
`queueList` the ids of priority groups and the two id lists of the port profiles; the lists of
buffer profiles are left out. A port starts initialised (`PortLifecycle` has the
initialisation). While `assoc` has steps left, no request runs: the event thread holds the
switch mutex; nas-interface may change the interface at any time. A handler
pushes when the interface is physical *now* and the node was bound by the *last event*,
and then pushes to the port of that event, as the code does.

The rollback of a priority group reads the saved object; those of the port profiles read
the request at the same position, which `Undone` models as it is. `SetFails` is a refusal
of NDI or of the parser. `before` is an auxiliary record of the attributes when a transaction
began, dropped when another client writes, the interface changes or NDI refuses the rollback;
a SET on a node that is not bound saves nothing, so its transaction is exempt.
`stale` is an auxiliary record of the nodes for which NDI failed during the last
association.

### PortPools (with PortPoolsProofs, MCPortPools)

| Model | Code |
|---|---|
| `CreateLook`, `CreateCommit`, `CreateStore` | `nas_qos_cps_api_port_pool_create`: the NPU port is looked up, the object created, the pool added to the list and the database |
| `SetPush`, `SetStore` | `nas_qos_cps_api_port_pool_set`: a copy is pushed, then written back |
| `DeletePush`, `DeleteStore` | `nas_qos_cps_api_port_pool_delete` |
| `Begin`, from `Request` or `Undo` | the write and the rollback handler up to the first thing another thread can see |
| `StatClear`, `StatReadDies` | the statistics of port pools; a GET is a step only where it ends the process |
| `Collect`, `Unbind`, `Bind`, `ReadDb` | `nas_qos_port_pool_association`: pointers to the pools are collected and used one by one, then the records are read |
| `ReplayPush`, `ReplayStore` | a record handed to `nas_qos_cps_api_port_pool_set`, without `port_pool_mutex` |

`hand` is the handler that holds `port_pool_mutex`, so there is one; `assoc` is the event
thread. Each step is what one of them does between two points where the other may see it.
A pool that was never created in the NPU has no NDI id, and asking for it throws
(`obj = None`); one that a disassociation removed has the id 0 (`Null`). What the code
leaves undefined is a choice: a pointer to a freed pool (`UseFreed`) and a list that is
walked while it changes (`CollectRaces`) end the process or go unnoticed, the first either way.
NDI may give the handle of a deleted object to another pool's, so a pool that still has it
may disturb another (`Victim`).

`before` is the record for `PoolsRestored`, dropped when a SET saves nothing, as a SET that does
not reach the NPU. `disturbed` collects the pools a request was about while an event of the
interface was pending: the code gives no guarantee for these, and every property leaves out
them and no others. `lost` are NPU objects of creations that were refused as duplicates.

### Statistics (with StatisticsProofs, MCStatistics)

| Model | Code |
|---|---|
| `QueueStatRead`, `QueueStatClear`, ... | the handlers `nas_qos_cps_api_*_stat_read` and `_clear`: the key, the counters that can be had, the nodes that match |
| `Visit` | the loop over nodes: the test for a virtual port and the calls for one node (`QueueReads`, `GroupReads`, `PoolReads`, ...) |
| `OneQueueRead`, ... | one NDI call of them and what its refusal cuts off |
| `Reply` | the return of the handler |
| `Change`, `Associate` | the interface, and the event thread, which waits for the switch mutex |

A counter is a name with what may be done with it: read, clear, have in a snapshot. `job` is
the request at hand: nodes left, calls left for the node, types synchronised. The calls for a node
are a set; `Precedes` is the order of the handler's loop, by MMU, a SYNC before what it is for, live
counters before those of the snapshot, and each step makes the `First` of them. A queue keeps
the list of its MMUs, with the NDI ids in it, through a disassociation, hence `last` beside
`bound`. Of NDI it is assumed that a SYNC copies the counters of all nodes of the type over all
MMUs, whatever its snapshot flag, and that a call on a node without NPU object is refused. The
order of nodes is left open. `asked`, `done`, `refused`, `hollow` and `disturbed` are
auxiliary records of what the properties compare; a SYNC is `hollow` when it counts as made
although it fell to an MMU the node does not exist in or to a port that is not bound.

## 3. Runs

| Run | Instance | Shows |
|---|---|---|
| `lifecycle` | 1 port, 2 NPU ports, 1 CPS thread, 3 interface changes | `SettledUnlessRaced`, the invariant `Settling` behind it, `HqosTogether`, `EventuallySettles` |
| `lifecycle_faults` | 2 ports (one CPU), failing NDI, 1 change | the inductive invariant of the proofs, `InitializedHasProfiles`, `InitNeverRebinds` |
| `lifecycle_ghost` | 1 port, 1 change | finding: nodes built after the deletion of their interface |
| `profile` | 2 ids, 2 values, 2 handles, 2 clients, 2 operations each, failing NDI, shadow objects | `IdsMatchObjects`, `NpuMirrorsCache`, `RollbackRestores`, the refinement `Atomic` |
| `map` | 2 types, one of them with the value in the key, local ids 0..2, requests for 0, 4 and 5 (cut to 1 and 2), at most 2 maps at a time, 1 key, 2 values, 2 clients, 2 saved objects, failing NDI | `IdsMatchMaps`, `StaleEntriesAreDirty`, `RollbackRestores` |
| `hqos` | 2 queues and groups, 1 group to create, 2 NPU ports, 2 clients, failing NDI, 2 requests, 2 changes | `ListsAgree`, `NpuFollowsCache`, `RollbackRestores` |
| `hqos_replay` | 2 queues and groups, 1 NPU port, 1 request, 2 changes | finding: the replay pushes a null parent |
| `profiles` | 1 priority group and queue, 2 ids, 2 NPU ports, 2 values, 2 clients, failing NDI, 2 requests, 2 changes | `CacheFollowsDb`, `NpuFollowsCache`, `ListsLiveGroups`, `GroupsRestored` |
| `profiles_undo` | the same, 1 client, NDI never fails | finding: undoing a SET of a port profile sets the new value again |
| `pools` | 2 pools, 1 profile and none, 2 handles, 2 NPU ports, 2 clients, failing NDI, 2 requests, 3 changes | `CacheFollowsDb`, `NpuFollowsCache`, `PoolsRestored` |
| `pools_push` | 1 pool, 1 client, NDI never fails, 1 request, 1 change | finding: a pool created on a virtual port never reaches the NPU |
| `stats` | 2 interfaces, 2 NPU ports, 1 MMU beside the whole, 3 queues, 2 priority groups, 3 buffer pools, 3 refusals per request, 1 change | `SnapshotsOfOneSync`, `NothingElse`, `NothingMissed` |

Each passing run also checks its module's type invariant (`lifecycle_faults` as a part of
`Inductive`).

**Why the bounds are enough.** *Lifecycle:* ports share only the mutex, the event queue
and the scan, so one port with its three threads meets every race of look-up, lock and
event; three changes allow create-map-unmap, create-delete-create and map-unmap-map
inside one initialisation, and two NPU ports a remap to another port. The second
instance has two ports because there the mutex and the two scans (CPU, front panel)
matter. *Profiles and maps:* all interference is on one id; a second id is there for the
generator to choose, and two operations per transaction cover create-then-set,
set-then-delete, delete-then-create on it, with two clients in every order. In `map` a
request for no id takes the generator's, and requests for ids wider than their field name that
same id or the last valid one, which the generator never gives; the two types differ in where an
entry has its value. Maps do not affect each other but for their ids, so states with a third map are
not followed further (`AtMostTwoMaps`; 493,990 states). *Tree:* two queues and three groups give a node an old, a new and an
uninvolved parent; two successful requests give a move and its neighbour in one
transaction or one in each client's (failed requests and rollbacks are not counted);
two changes give unmap-map to the same or to another NPU port, and the map-unmap of a port
that began virtual (321,608 states).
*Port profiles:* priority groups do not affect each other but for the list of their ids, so one
suffices; with two ids a group that is made anew may get another id. Two requests set
the same node twice or two nodes, in one transaction or two; two changes
give a map-unmap, an unmap-map to the same or another NPU port, and an event that is handled
when the interface has changed again.
*Pools:* a pool is disturbed by requests about itself or through a handle that another one
got, so two pools, one of them the bystander, and two handles. Three changes give an
association that is overtaken by two further events; two requests are a create with a
set, delete or duplicate of the same pool by either client, in every position of the
association's steps. *Statistics:* two queues of different types on one port and one of the
first type on another give a SYNC that serves a second node and one that does not; one MMU
beside the whole gives nodes that exist in it and nodes that do not; three refusals, each of a
node on an MMU, let two nodes fail, one of them wholly, and one change disturbs the bindings
before or after any call.
Every bound is a constant: `MaxChanges`, `MaxOps`, `MaxSaved`, `MaxRequests`,
`MaxRefusals`.

**Symmetry** is used in `profile`, `map`, `hqos`, `profiles`, `pools` and `stats`, over values that
are only compared for equality. Liveness is checked without it; `Atomic` in `profile` is of the
form Init and [][Next], a safety property whose formula treats the permuted values alike. In
`hqos` queues and groups are numbered, since a group is recognised by its lowest queue, and
are not permuted.

**Deadlock** is checked except in the lifecycle runs, where the daemon rests when
the interfaces stop changing, and in the runs of pools, where the process may end.

**Fairness** (`PortLifecycle`): weak fairness of the locked part of each thread, of the
event thread's next event and next association step, of the scan, and of the restart.
The threads are operating-system threads that block only on the switch mutex, which
each holder releases after finitely many steps; the service manager restarts the
process. Nothing is assumed of requests, interface changes or NDI. `EventuallySettles` is
checked without NDI failures and relies on the bounded number of changes: with
interfaces that never stop changing the cache need not settle.

## 4. Proofs

TLAPS checks, for every value of the constants that satisfies the modules' assumptions
(distinct null values, thread names, bounds that are numbers):

| Theorem | Module | Statement |
|---|---|---|
| `Invariance` | `PortLifecycleProofs` | `Spec => []IInv` |
| `TypeCorrect` | `PortLifecycleProofs` | `Spec => []TypeOK` |
| `ProfilesPresent` | `PortLifecycleProofs` | `Spec => []InitializedHasProfiles` |
| `NeverRebound` | `PortLifecycleProofs` | `Spec => InitNeverRebinds` |
| `InductiveHolds` | `PortLifecycleProofs` | `Spec => []Inductive` |
| `BuiltTogether` | `PortLifecycleProofs` | `Spec => []HqosTogether`, if NDI calls never fail |
| `AlwaysSettling` | `PortLifecycleProofs` | `Spec => []Settling`, if NDI calls never fail |
| `MirroredOnceSettled` | `PortLifecycleProofs` | at rest every interface is mirrored but the raced and the fibre channel ones, if NDI calls never fail |
| `SettledWithoutRaces` | `PortLifecycleProofs` | `Spec => []SettledUnlessRaced`, if NDI calls never fail and no interface is fibre channel |
| `Agreement` | `ProfileStoreProofs` | `Spec => []Inv` |
| `NoIdLeaks` | `ProfileStoreProofs` | `Spec => []IdsMatchObjects` |
| `NpuAgrees` | `ProfileStoreProofs` | `Spec => []NpuMirrorsCache` |
| `ProfileTypes` | `ProfileStoreProofs` | `Spec => []TypeOK` |
| `TrailInvariance` | `ProfileStoreProofs` | `Spec => []AtomicInv` |
| `RollbacksRestore` | `ProfileStoreProofs` | `Spec => []RollbackRestores` |
| `Implements` | `ProfileStoreProofs` | `Spec => Atomic` |
| `MapAgreement` | `MapTableProofs` | `Spec => []IInv` |
| `MapIdsMatch` | `MapTableProofs` | `Spec => []IdsMatchMaps` |
| `StaleIsDirty` | `MapTableProofs` | `Spec => []StaleEntriesAreDirty` |
| `MapTypes` | `MapTableProofs` | `Spec => []TypeOK` |
| `TrackInvariance` | `MapTableProofs` | `Spec => []TrackInv` |
| `RollbacksRestoreMaps` | `MapTableProofs` | `Spec => []RollbackRestores` |
| `HqosInvariance` | `HqosTreeProofs` | `Spec => []IInv` |
| `TreeTypes` | `HqosTreeProofs` | `Spec => []TypeOK` |
| `ChildrenAgree` | `HqosTreeProofs` | `Spec => []ListsAgree` |
| `NpuFollows` | `HqosTreeProofs` | `Spec => []NpuFollowsCache` |
| `UndoInvariance` | `HqosTreeProofs` | `Spec => []UndoInv` |
| `RollbacksRestoreTree` | `HqosTreeProofs` | `Spec => []RollbackRestores` |
| `DatabaseInvariance` | `PortProfilesProofs` | `Spec => []DbInv` |
| `CacheHasRecords` | `PortProfilesProofs` | `Spec => []CacheFollowsDb` |
| `ListInvariance` | `PortProfilesProofs` | `Spec => []ListInv` |
| `ListNamesGroups` | `PortProfilesProofs` | `Spec => []ListsLiveGroups` |
| `PlaceInvariance` | `PortProfilesProofs` | `Spec => []NpuInv` |
| `NpuIsFollowed` | `PortProfilesProofs` | `Spec => []NpuFollowsCache` |
| `ProfileTypes` | `PortProfilesProofs` | `Spec => []TypeOK` |
| `GroupTrails` | `PortProfilesProofs` | `Spec => []UndoInv` |
| `RollbacksRestoreGroups` | `PortProfilesProofs` | `Spec => []GroupsRestored` |
| `PoolInvariance` | `PortPoolsProofs` | `Spec => []IInv` |
| `PoolTypes` | `PortPoolsProofs` | `Spec => []TypeOK` |
| `PoolsFollowDb` | `PortPoolsProofs` | `Spec => []CacheFollowsDb` |
| `PoolTrails` | `PortPoolsProofs` | `Spec => []UndoInv` |
| `RollbacksRestorePools` | `PortPoolsProofs` | `Spec => []PoolsRestored` |
| `BindingInvariance` | `PortPoolsProofs` | `Spec => []NpuInv` |
| `NpuHasPools` | `PortPoolsProofs` | `Spec => []NpuFollowsCache` |
| `StatisticsInvariance` | `StatisticsProofs` | `Spec => []Inv` |
| `StatTypes` | `StatisticsProofs` | `Spec => []TypeOK` |
| `SnapshotsAgree` | `StatisticsProofs` | `Spec => []SnapshotsOfOneSync` |
| `OnlyWhatIsAsked` | `StatisticsProofs` | `Spec => []NothingElse` |
| `AllThatIsAsked` | `StatisticsProofs` | `Spec => []NothingMissed` |

*PortLifecycle.* `InitializedHasProfiles` is not inductive: the step that marks a port does
not test the nodes. `IInv` adds that a thread past the ingress (egress) step has that
node (`ProfilesBuilt`), and, so that no other thread removes the node meanwhile, that a
thread in a locked step owns the mutex (`LockedHoldsMutex`); that associations run and
return on the event thread only, since their nested initialisations return into them
(`SetStepsOnEventThread`, `NestedOnEventThread`); and that they know their port
(`JobNamesPort`, `AssociationsNamePort`). `NeverRebound` needs one more fact, that a thread
at the scheduler-group step found no groups (`FreshGroups`), because that step
alone tests before and writes after a step of its own. `BuiltTogether` rests on what threads saw
outside the mutex: for a port that is not raced it is still what nas-interface says, and the
interface exists (`LookUpsHold`), so that neither half of the initialisation comes back empty;
between the two halves there are queues (`Paired`), and the mutex keeps all others out. With
failing NDI calls the statement is false, by design of the code. The proof that a step keeps `IInv`
has one lemma per action; initialisation, association and the scan share lemmas on a
thread that moves on within its handler.

*PortLifecycle: settling.* `SettledUnlessRaced` speaks of the states at rest only; `Settling`
(in `PortLifecycleInv`) says what leads there. `EventsFit` is what the queue of events tells: the last
event of an interface is what the interface is now, between any event and a later creation
there is a deletion, and the association at work aims at what the interface is unless
more events come. `CacheFits` says that each node shows its interface, or is due at a step of the
association that is still to come, or will be rewritten by an event; and that an interface
that is there is initialised or awaited, by a thread that has looked it up, by the
scan or by an event. At rest there is no event, no association and no scan, so each
node shows its interface. Two hypotheses remain. NDI must answer: a refused call leaves a
`Broken` node, which nothing mends. And the scan leaves out fibre channel interfaces, so that one which
was there before the subscription is never initialised; `MirroredOnceSettled` exempts them, and
`SettledWithoutRaces` assumes that there are none, as in the run.

*ProfileStore.* `Inv` is the type invariant together with `IdsMatchObjects` and
`NpuMirrorsCache`, which are inductive only together: an id that is not reserved names no
object, so a creation overwrites none, and NPU handles of two objects differ, so changing or
removing one leaves the other's value. `Add`, `Lose`, `Modify` and `Remove` each have a
lemma; requests and rollbacks only combine them.

*Rollbacks.* That a rollback restores what its transaction found speaks of a whole sequence of saved
objects, for which there is no induction in reach. So the sequence carries its own history
(`Trails`): for each undisturbed transaction there are states T[0], ..., T[n] from that of its
beginning to the present one, such that each saved object undoes the step from its state to the
one before (`LeadsBack`). An operation makes the trail longer by what it saved
(`LongerTrail`); an undo takes its last step (`ShorterTrail`), and when nothing is saved any
more, the present is the beginning (`EndOfTrail`). `Trails` has the argument once, for a relation
`Undoes` that the component defines; each of the five components instantiates it.

*Rollback and refinement of ProfileStore.* The states are the valuations of ids. The cases
that need care are the steps that save nothing (a SET without a value leaves the valuation
alone) and buffer pools that are given up. `Implements` follows step by step: what the
operations do to `Config` is a change of one object, and that the end of a failed transaction
finds the objects of its beginning is `RollbacksRestore`.

*MapTable.* `IInv` is the types of the cache, `IdsMatchMaps` and `StaleEntriesAreDirty`,
together with what a rollback relies on of the saved objects (`Undoable`): each
names a specified id, a saved SET names an entry, and a saved deletion of an entry has its
value. Every change of a map that exists goes through one lemma (`ChangeAgrees`): the
new map has to fit its new NPU object, `Fits` being what `StaleEntriesAreDirty` says of one
map. Of maps with the value in the key the invariant adds that a cached entry has the value of
its key and is not marked (`ValuesInKeys`), since without a setter nothing else would push it. `MapTypes` adds the bookkeeping of transactions (`BooksOK`).

*MapTable: rollback.* A refused SET leaves its value in the cached entry, dirty; the trail
therefore does not lead from the maps themselves but from maps near to them (`Near`), which
may differ where an entry is dirty, and `RollbackRestores` compares maps in this way too. The undo of
a creation that overwrote an older entry would delete that entry: such a transaction has no
trail (`overwrote`). The proof needs that the null value is no key, which `NoneIsNew` says.

*HqosTree.* `AllLinked` has what `ListsAgree` says of one node: its parent exists and lists
it, and no other node does; that a list is the only one is what makes a move safe that
removes the node from one list and adds it to another. A queue in `preset` is in no list, so
that it leaves none when it moves, and joins one. A group is deleted only when its
list is empty, and then no node is left below it, but for those that were set on a virtual
interface (`offline`) and preset queues. `Mirrored` holds until the interface is first
associated again (`~moved`): each bound node has the object that was created for it, so
moving one changes no other. `TxOK` types the saved objects by the levels of the tree, without
which an undo could give a queue a group of the wrong level, and `WaitingExist` says that the
nodes whose record is to be replayed are there.

*HqosTree: rollback.* The states of the trail are the trees: parents, lists and objects of all nodes. An
interface that changes ends all trails, and so do another client's success and a move of a node that
its parent does not list. The creation of a
group needs care: an association binds groups by the objects the hardware has, and may bind another
group to the object that a deleted one had. When the deleted group is created again, its deletion,
which is the undo, is refused as soon as the other has children, and the tree is not restored. A
transaction that creates a group whose object another node has is therefore exempt (`Unused`). That
a move is not refused on the way back is because the parent of every NPU object is there
(`NpuClosed`).

*PortProfiles: records.* `CacheFollowsDb` speaks of the states between associations; `DbInv` says what
holds inside one: a recorded value is cached or still to be replayed by the step at hand, with
the nodes exempt for which NDI refused. It carries the types of what transactions save, since
an undo writes a saved or requested value. `ListInv` follows the list of priority groups
through the order of the steps: it may name groups that are gone only in a removal, after the
groups were made anew and before the ingress profile is; the remaining steps of an
association are always a tail of one of the two orders. Both invariants rest on the order of
`nas_qos_if_set_notify`, which the mutant of `ListsLiveGroups` swaps.

*PortProfiles: NPU.* A SET that looks at the interface and pushes to the port of the last
event is right only because of how these relate. `Alternates` says that the event at hand and those
to come map and unmap the interface by turns, and that the last is where the interface is now.
`BoundDuring` and `BoundBetween` say where each node is bound, by the steps of the association that
are to come. Then a node that is bound while the interface is virtual, or elsewhere, has a
removal before it (`Doomed`), and only of such nodes may cache and NPU differ (`Shown`).

*PortProfiles: rollback.* Each priority group has a trail of its own attribute, in which the saved
objects of other nodes undo nothing; what is saved of the port profiles, whose undo sets the new value
again, therefore does not matter. An event ends the trails: while one is handled there are none.

*PortPools.* Cache and database are written by two threads, so `IInv` has what each may rely on
of the other's half-done work: the pool a handler is about to write back or remove is there
(`HandFindsPool`), since only holders of `port_pool_mutex` remove pools; a pointer of the association
that no deletion made invalid names a pool (`PointersValid`); a replay that is about to write has
something to write (`ReplayHasData`). That a handler and an association meet only on
disturbed pools (`MetIsDisturbed`), and pointers become invalid only there (`GoneIsDisturbed`), makes
the copy that is written back agree with the record.

*PortPools: rollback.* A handler saves its object before it is through. Between its two steps the
trail leads back from what the pools will be: undoing the object saved last inverts the
handler at work (`Inverts`). While an event is pending there is no trail, as the handler and the
association may meet.

*PortPools: NPU.* `NpuFollowsCache` holds for a pool that neither a handler nor the association has
at hand; `Bindings` adds what holds of those. `OthersFit` is the property in the form that is
inductive. `HandNpu` says for each step of a handler which object the NPU has and the cache has not
yet, or no more. That `Bind` creates no second object for a pool needs that the
pool has none by then: removals and mappings alternate (`EventsFit`), so before a mapping
there was a removal, and no undisturbed pool is left bound (`EventsUnbind`). The handle of
an object that a deletion has freed may be given to another pool; a pool that still has it
counts among the disturbed, with the pool it disturbs (`Victim`).

*Statistics.* What a request asks for (`Asked`) is computed from the key at once, what it does node by
node, MMU by MMU; `Inv` keeps the two together. `AskedAhead` says that whatever the loop may
still call is asked for, with the same counters, and `AskedFits` that what is asked for is
nothing the loop skips; so each asked object is at a node to come, among the calls left, done or
refused (`AskedKept`), and when nothing is left it is done or refused. All three speak of
nodes whose interface is undisturbed: of these `Calm` and `EventsTell` say that no event is
pending and that they are bound where the interface is, so that the list of MMUs is complete. For the
snapshots, `SyncOnce` ties the flags of the handlers to the number of SYNCs, `SyncBefore` says that
a read of a snapshot that is left has its SYNC made or among the calls left, and `ReadsFollow`
that by the order of the calls this SYNC comes first; a refused one takes with it all reads that
rely on it (`SyncsApart`). That a flag stands for one type only is the assumption `QueueTypes`: a
platform has unicast and multicast queues or queues of no type, never both.

**Only model-checked:** liveness (`EventuallySettles`), which with its fairness is beyond the
prover.
The prover cannot instantiate an induction principle, so nothing is proved by induction over
data, and no module with a theorem has RECURSIVE operators.

## 5. Not modelled

- The look-ups of profile and map ids for the NPU, and the lists of buffer profiles of a port.
- Attributes of profiles and nodes beyond those named above; a request that carries
  several is one value.
- The upper levels of the tree: the code initialises the parents of queues only
  (`src/nas_qos_cps_scheduler_group.cpp:272`). CREATE and DELETE of queues, which are deprecated.
- GET handlers, except for their on-demand initialisation and for statistics; they report the
  cache and change nothing.
- Failures of the database commit.
- Several switches: the list is filled once from the platform description.
- Formats of attributes, logging, boot scripts and unit tests.
- External: `base_obj_t`, `id_generator_t`, NDI, the CPS framework and database,
  nas-interface. They are modelled by what the code relies on; NDI may fail where a run
  says so.

**Known losses that no run repeats.** The modules have these behaviours or exempt them; no
property of a passing run denies them.

- An association of a port whose CREATE event was skipped, because its look-up came too late,
  uses a node that does not exist and ends the process
  (`src/nas_qos_cps_port_ingress.cpp:474`, `src/nas_qos_cps_port_egress.cpp:397`);
  `PortLifecycle` has the crash and the restart.
- Undoing the creation of a map entry that existed deletes the older entry
  (`src/nas_qos_map.cpp:122`, `src/nas_qos_cps_map_entry.cpp:456`); `RollbackRestores` exempts such
  transactions.
- A SET of a map entry that NDI refuses leaves the new value in the cached entry
  (`src/nas_qos_cps_map_entry.cpp:557`); `StaleEntriesAreDirty` says that it stays marked.
- Undoing the deletion of a profile object brings it back without its name, which the parser
  sets without marking it (`src/nas_qos_cps_scheduler.cpp:486`); `RollbackRestores` compares what
  goes to the NPU.
- What is saved of a deleted scheduler group lacks its level
  (`src/nas_qos_cps_scheduler_group.cpp:1115`), so that the deletion cannot be undone;
  `RollbackRestores` of `HqosTree` exempts it.
- The groups of a virtual port list no children, while the queues name them as parents
  (`src/nas_qos_cps_queue.cpp:994`, `src/nas_qos_cps_scheduler_group.cpp:492`). Such a group passes
  the test for children in DELETE, also after the port has become physical, unless a SET or a
  replay has pushed the parent of its queue; the queue then names a group that is gone. Undoing a SET of
  such a queue adds it to the list of its preset parent, where it was not before.
- Deleting an entry of a PG_TO_PFC map does not reset the NPU: it writes what creation wrote
  (`src/nas_qos_map_entry.cpp:208`). A SET of such an entry always fails, for want of an
  attribute (`src/nas_qos_cps_map_entry.cpp:962`).
- Queues that were built while the scheduler groups failed, or the other way round, stay without the
  missing half (`src/nas_qos_cps_scheduler_group.cpp:524`); `HqosTogether` is checked and proved while
  NDI answers.
- After an association the port profiles have read ids of priority groups and queues that
  are bound only later (`src/nas_qos_switch_list.cpp:346`), and list empty ones.
- `get_ndi_qid` has no bound on the queue number of a map entry
  (`src/nas_qos_map_entry.cpp:265`).
- A port pool without NDI id ends the process when it is disassociated, or when a GET of its
  statistics asks the NPU (`src/nas_qos_cps_port_pool.cpp:844`).
- A SET of statistics that names only counters that cannot be cleared clears all counters, and a
  SYNC counts as made also when its node does not exist in the MMU asked for.

## 6. Plan

Done: `PortLifecycle`, `ProfileStore`, `MapTable`, `HqosTree`, `PortProfiles`, `PortPools` and `Statistics`,
with proofs of every safety property that a passing run checks; `AtomicStore` and its refinement.

Left, in this order:

1. `InterfaceMirror`: the abstract specification of `PortLifecycle` (a port's nodes follow its
   interface, or lag behind it by its pending events), `PortLifecycle` shown to implement it for
   ports that no race disturbed.
2. The other attributes of queues and scheduler groups in `HqosTree`, and what an association
   leaves of the upper levels of the tree.
3. The boot scripts as a client of `ProfileStore` and `PortProfiles`, if their order
   turns out to matter after a restart.
