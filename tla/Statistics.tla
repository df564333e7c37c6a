----------------------------- MODULE Statistics -----------------------------
(***************************************************************************)
(* The statistics of queues, priority groups and buffer pools.  A GET reads *)
(* counters of the NPU, a SET clears them, for one node or for all that     *)
(* match a partial key, on every MMU and, where the NPU supports it, from   *)
(* snapshots that a SYNC takes of all nodes of a type.  A request makes one *)
(* NDI call after the other with the mutex of the switch held: associations *)
(* wait for it, the interfaces do not.                                      *)
(***************************************************************************)
EXTENDS Naturals, Sequences, FiniteSets

CONSTANTS
    Intfs,      \* interfaces
    NpuPorts,   \* NPU ports they may be mapped to
    Queues,     \* queues, each known by its key [port, type, num]
    Groups,     \* priority groups, likewise
    Pools,      \* buffer pools, likewise, of no port
    Mmus,       \* number of MMUs beside the whole, which is index 0
    Lacks,      \* the pairs of a node and an MMU it does not exist in
    None,       \* no NPU port, an attribute that is absent
    MaxRefusals, \* bound on what NDI refuses of one request
    MaxChanges  \* bound on the changes of the interfaces

Nodes == Queues \cup Groups \cup Pools
Types == {n.type : n \in Nodes}
Nums == {n.num : n \in Nodes}
Indexes == 0..Mmus

ASSUME Parameters == Mmus \in Nat /\ MaxChanges \in Nat /\ MaxRefusals \in Nat
ASSUME PoolsHaveNoPort ==
    /\ \A n \in Queues \cup Groups : n.port \in Intfs
    /\ \A n \in Pools : n.port = None
ASSUME NoneIsNew ==
    None \notin Intfs /\ None \notin Nodes /\ None \notin Indexes /\ None \notin BOOLEAN
ASSUME WholeExists == Lacks \subseteq Nodes \X (Indexes \ {0})
\* A platform has queues of both types or of none.
ASSUME QueueTypes == ~({"none", "ucast"} \subseteq Types \/ {"none", "mcast"} \subseteq Types)

VARIABLES
    supported, \* nas_qos_switch::is_snapshot_support
    intf,      \* nas-interface: the NPU port of an interface, or None
    changes,   \* number of changes of the interfaces so far (bounded)
    events,    \* the changes that are not yet associated, by interface
    bound,     \* the NPU port the nodes of the interface are bound to, or None
    last,      \* the NPU port its queues were last bound to, or None
    job        \* the request being handled
vars == <<supported, intf, changes, events, bound, last, job>>

NoJob == [op |-> "none", kind |-> "none", todo |-> {}, at |-> None, calls |-> {},
          mmu |-> None, snap |-> None, named |-> {}, exact |-> FALSE, failed |-> FALSE,
          synced |-> {}, taken |-> [t \in Types |-> 0],
          \* auxiliary: what is asked for and done, calls that were refused, types whose
          \* SYNC never reached the NPU, interfaces with a change that is not associated
          asked |-> {}, done |-> {}, refused |-> {}, hollow |-> {}, disturbed |-> {}]

Init ==
    /\ supported \in BOOLEAN
    /\ intf \in [Intfs -> NpuPorts \cup {None}]
    /\ \A i, j \in Intfs : i # j /\ intf[i] = intf[j] => intf[i] = None
    /\ bound = intf /\ last = intf
    /\ changes = 0 /\ events = [i \in Intfs |-> <<>>]
    /\ job = NoJob

----------------------------------------------------------------------------
(* The counters and what may be done with them. *)

QueueCounters == [packets |-> {"read", "clear"}, occupancy |-> {"read", "snapshot"},
                  watermark |-> {"read", "clear", "snapshot"}]
GroupCounters == [packets |-> {"read", "clear"}, occupancy |-> {"read", "snapshot"},
                  watermark |-> {"read", "clear", "snapshot"}]
PoolCounters == [discards |-> {"read", "clear"}, occupancy |-> {"read", "snapshot"},
                 watermark |-> {"read", "clear", "snapshot"}]

\* All counters, or those that snapshots have.
QueueAll(s) == {c \in DOMAIN QueueCounters : s => "snapshot" \in QueueCounters[c]}
GroupAll(s) == {c \in DOMAIN GroupCounters : s => "snapshot" \in GroupCounters[c]}
PoolAll(s) == {c \in DOMAIN PoolCounters : s => "snapshot" \in PoolCounters[c]}

\* A request: GET or SET, a key, the MMU, whether of a snapshot, and counters.
Requests(op, keys, counters) ==
    [op : {op}, key : keys, mmu : Indexes \cup {None}, snap : BOOLEAN \cup {None},
     names : SUBSET DOMAIN counters]

\* Mutant: a SET goes by what may be read.
QueueNamedReadable(r) == {c \in r.names \cap QueueAll(r.snap = TRUE) : "read" \in QueueCounters[c]}

\* The counters of a request that it may read, or clear; the others are ignored.
QueueNamed(r) == {c \in r.names \cap QueueAll(r.snap = TRUE) : r.op \in QueueCounters[c]}
GroupNamed(r) == {c \in r.names \cap GroupAll(r.snap = TRUE) : r.op \in GroupCounters[c]}
PoolNamed(r) == {c \in r.names \cap PoolAll(r.snap = TRUE) : r.op \in PoolCounters[c]}

\* If none is left, the request is about all.
Used(named, all) == IF named # {} THEN named ELSE all

----------------------------------------------------------------------------
(* Keys: an attribute that is absent matches everything. *)

Keys(ports, types, nums) == [port : ports \cup {None}, type : types \cup {None},
                             num : nums \cup {None}]
Matches(n, k) == k.port \in {None, n.port} /\ k.type \in {None, n.type} /\ k.num \in {None, n.num}

QueueExact(k) == None \notin {k.port, k.type, k.num}
GroupExact(k) == None \notin {k.port, k.num}
PoolExact(k) == k.num # None

Virtual(n) == n \notin Pools /\ intf[n.port] = None

\* What a request asks for: counters of the whole and of MMUs a node exists in, live or
\* of a snapshot.  An exact key means the live counters of the whole where it is silent;
\* to name no counter that can be had, or cleared, is to name all.
Asked(nodes, exact, r, counters) ==
    LET mmus == IF r.mmu # None THEN {r.mmu} ELSE IF exact THEN {0} ELSE Indexes
        snaps == IF r.snap # None THEN {r.snap} ELSE IF exact THEN {FALSE} ELSE BOOLEAN
        named == {c \in r.names : ({r.op} \cup IF r.snap = TRUE THEN {"snapshot"} ELSE {}) \subseteq counters[c]}
        hits == {n \in nodes : Matches(n, r.key) /\ ~Virtual(n)}
    IN {[node |-> o[1], mmu |-> o[2], snap |-> o[3],
         counters |-> IF named # {} THEN named
                      ELSE {c \in DOMAIN counters : o[3] => "snapshot" \in counters[c]}] :
          o \in {x \in hits \X mmus \X snaps : <<x[1], x[2]>> \notin Lacks /\ (x[3] => supported)}}

Start(kind, nodes, exact, r, named, counters) ==
    LET hits == {n \in nodes : Matches(n, r.key)}
        ignored == r.op = "read" /\ r.snap = TRUE /\ ~supported
        fails == exact /\ (hits = {} \/ \E n \in hits : Virtual(n))
    IN /\ job' = [NoJob EXCEPT
            !.op = r.op, !.kind = kind, !.named = named, !.exact = exact,
            !.mmu = IF exact /\ r.mmu = None THEN 0 ELSE r.mmu,
            !.snap = IF exact /\ r.snap = None THEN FALSE ELSE r.snap,
            !.todo = IF ignored \/ fails THEN {} ELSE hits,
            !.failed = fails /\ ~ignored,
            !.asked = Asked(nodes, exact, r, counters),
            !.disturbed = {i \in Intfs : events[i] # <<>>}]
       /\ UNCHANGED <<supported, intf, changes, events, bound, last>>

QueueKeys == Keys(Intfs, {n.type : n \in Queues}, {n.num : n \in Queues})
GroupKeys == Keys(Intfs, {}, {n.num : n \in Groups})
PoolKeys == Keys({}, {}, {n.num : n \in Pools})

QueueStatRead ==
    /\ job = NoJob
    /\ \E r \in Requests("read", QueueKeys, QueueCounters) :
          Start("queue", Queues, QueueExact(r.key), r, QueueNamed(r), QueueCounters)
QueueStatClear ==
    /\ job = NoJob
    /\ \E r \in Requests("clear", QueueKeys, QueueCounters) :
          Start("queue", Queues, QueueExact(r.key), r, QueueNamed(r), QueueCounters)
GroupStatRead ==
    /\ job = NoJob
    /\ \E r \in Requests("read", GroupKeys, GroupCounters) :
          Start("group", Groups, GroupExact(r.key), r, GroupNamed(r), GroupCounters)
GroupStatClear ==
    /\ job = NoJob
    /\ \E r \in Requests("clear", GroupKeys, GroupCounters) :
          Start("group", Groups, GroupExact(r.key), r, GroupNamed(r), GroupCounters)
PoolStatRead ==
    /\ job = NoJob
    /\ \E r \in Requests("read", PoolKeys, PoolCounters) :
          Start("pool", Pools, PoolExact(r.key), r, PoolNamed(r), PoolCounters)
PoolStatClear ==
    /\ job = NoJob
    /\ \E r \in Requests("clear", PoolKeys, PoolCounters) :
          Start("pool", Pools, PoolExact(r.key), r, PoolNamed(r), PoolCounters)

----------------------------------------------------------------------------
(* The calls for one node.  Each carries the MMUs for which nothing more is *)
(* called when it is refused.  They are made by MMU, a SYNC before all that  *)
(* it is for, live counters before those of the snapshot.                   *)

\* The MMUs a node has a list of, the whole first.
QueueMmus(n) == IF last[n.port] = None THEN 0 ELSE Mmus
GroupMmus(n) == IF bound[n.port] = None THEN 0 ELSE Mmus
PoolMmus(n) == Mmus

\* Mutant: the MMUs are counted from 0 to one less than there are.
EachMmuButLast(count) == {i \in Indexes : i < count /\ job.mmu \in {None, i}}

EachMmu(count) == {i \in Indexes : i <= count /\ job.mmu \in {None, i}}

\* Live counters and the snapshot, unless the key says which.
Both(op, i) ==
    {[op |-> op, mmu |-> i, snap |-> s, for |-> {i}] : s \in {b \in BOOLEAN : job.snap \in {None, b}}}

\* Mutant: without an MMU in the key there is none to synchronise.
SyncOfKey(mmus) ==
    IF supported /\ job.snap # FALSE
    THEN {[op |-> "sync", mmu |-> job.mmu, snap |-> job.snap = TRUE, for |-> mmus]} ELSE {}

\* Before the snapshots, if there are any, a SYNC.
Sync(mmus) ==
    IF supported /\ job.snap # FALSE
    THEN {[op |-> "sync", mmu |-> IF job.mmu = None THEN 0 ELSE job.mmu,
           snap |-> job.snap = TRUE, for |-> mmus]}
    ELSE {}

\* For each of the MMUs m.
Per(m, op) == UNION {Both(op, i) : i \in m}

QueueReads(n) == Sync(Indexes) \cup Per(EachMmu(QueueMmus(n)), "read")
QueueClears(n) == Per(EachMmu(QueueMmus(n)), "clear")
GroupReads(n) == Sync(Indexes) \cup Per(EachMmu(GroupMmus(n)), "read")
GroupClears(n) == Per(EachMmu(GroupMmus(n)), "clear")
PoolReads(n) ==
    Per(EachMmu(PoolMmus(n)), "read") \cup UNION {Sync({i}) : i \in EachMmu(PoolMmus(n))}
PoolClears(n) == Per(EachMmu(PoolMmus(n)), "clear")

\* The order of the calls.
Rank(c) == IF c.op = "sync" THEN 0 ELSE IF c.snap THEN 2 ELSE 1
Lower(c, d) == \E i \in c.for : \A j \in d.for : i < j
Precedes(c, d) == Lower(c, d) \/ (~Lower(d, c) /\ Rank(c) < Rank(d))
First(c) == \A d \in job.calls \ {c} : Precedes(c, d)

\* The next node, in the order of the keys, which is not modelled.
Visit(n, op, kind, calls) ==
    /\ job.op = op /\ job.kind = kind /\ job.calls = {}
    /\ job' = [job EXCEPT !.todo = job.todo \ {n}, !.at = n,
                          !.calls = IF Virtual(n) THEN {} ELSE calls]
    /\ UNCHANGED <<supported, intf, changes, events, bound, last>>

----------------------------------------------------------------------------
(* One call of NDI. *)

\* The types a SYNC of a node of type t is for.
Flags(t) == IF t = "none" THEN {"ucast", "mcast"} ELSE {t}

\* Mutant: it is forgotten that the SYNC was made.
NotSynced(j, n) == j

Synced(j, n) == [j EXCEPT !.synced = j.synced \cup Flags(n.type)]

\* A call that needs no NDI: the SYNC was made, there is no such snapshot or object.
Unneeded(n, c, count) ==
    \/ c.op = "sync" /\ Flags(n.type) \cap job.synced # {}
    \/ c.snap /\ ~supported
    \/ c.mmu > count \/ <<n, c.mmu>> \in Lacks

\* NDI takes the snapshot of all nodes of the type at once.
Answered(j, n, c, at, counters) ==
    IF c.op = "sync"
    THEN IF at = None THEN [j EXCEPT !.hollow = j.hollow \cup {n.type}]
         ELSE [j EXCEPT !.taken[n.type] = j.taken[n.type] + 1]
    ELSE [j EXCEPT !.done = j.done \cup {[node |-> n, mmu |-> c.mmu, snap |-> c.snap, counters |-> counters,
                                          at |-> at, epoch |-> IF c.snap THEN j.taken[n.type] ELSE 0]}]

Call(op, kind, c, count, at, all) ==
    LET n == job.at
        rest == [job EXCEPT !.calls = job.calls \ {c}]
    IN
    /\ job.op = op /\ job.kind = kind /\ First(c)
    /\ \/ /\ Unneeded(n, c, count)
          /\ job' = IF c.op = "sync" /\ Flags(n.type) \cap job.synced = {}
                    THEN [Synced(rest, n) EXCEPT !.hollow = job.hollow \cup {n.type}]
                    ELSE rest
       \/ /\ ~Unneeded(n, c, count)
          /\ LET j == Answered(rest, n, c, at, Used(job.named, all))
             IN job' = IF c.op = "sync" THEN Synced(j, n) ELSE j
       \/ /\ ~Unneeded(n, c, count) /\ (Cardinality(job.refused) < MaxRefusals \/ at = None)
          /\ job' = [rest EXCEPT !.calls = {d \in rest.calls : d.for \cap c.for = {}},
                                 !.refused = job.refused \cup ({n} \X c.for),
                                 !.failed = job.exact]
    /\ UNCHANGED <<supported, intf, changes, events, bound, last>>

\* The NPU port of the object: that of the node, or that of its list of MMUs.
QueueAt(n, i) == IF i = 0 THEN bound[n.port] ELSE last[n.port]
GroupAt(n, i) == bound[n.port]
PoolAt(n, i) == "npu"

OneQueue(op) ==
    \E c \in job.calls :
       Call(op, "queue", c, QueueMmus(job.at), QueueAt(job.at, c.mmu), QueueAll(c.snap))
OneGroup(op) ==
    \E c \in job.calls :
       Call(op, "group", c, GroupMmus(job.at), GroupAt(job.at, c.mmu), GroupAll(c.snap))
OnePool(op) ==
    \E c \in job.calls :
       Call(op, "pool", c, PoolMmus(job.at), PoolAt(job.at, c.mmu), PoolAll(c.snap))

OneQueueRead == OneQueue("read")
OneQueueClear == OneQueue("clear")
OneGroupRead == OneGroup("read")
OneGroupClear == OneGroup("clear")
OnePoolRead == OnePool("read")
OnePoolClear == OnePool("clear")

Finished == job # NoJob /\ job.todo = {} /\ job.calls = {}

Reply ==
    /\ Finished
    /\ job' = NoJob
    /\ UNCHANGED <<supported, intf, changes, events, bound, last>>

----------------------------------------------------------------------------
(* nas-interface maps and unmaps; the event waits for the switch's mutex. *)

Change(i, p) ==
    /\ changes < MaxChanges
    /\ (p = None) # (intf[i] = None)
    /\ \A j \in Intfs : p # None => intf[j] # p
    /\ changes' = changes + 1
    /\ intf' = [intf EXCEPT ![i] = p]
    /\ events' = [events EXCEPT ![i] = Append(events[i], p)]
    /\ job' = IF job = NoJob THEN NoJob ELSE [job EXCEPT !.disturbed = job.disturbed \cup {i}]
    /\ UNCHANGED <<supported, bound, last>>

\* Queues and priority groups of the interface get or lose their NPU objects; a queue
\* that loses them keeps the list of its MMUs.
Associate(i) ==
    /\ job = NoJob /\ events[i] # <<>>
    /\ events' = [events EXCEPT ![i] = Tail(events[i])]
    /\ bound' = [bound EXCEPT ![i] = Head(events[i])]
    /\ last' = [last EXCEPT ![i] = IF Head(events[i]) = None THEN last[i] ELSE Head(events[i])]
    /\ UNCHANGED <<supported, intf, changes, job>>

Next ==
    \/ QueueStatRead \/ QueueStatClear \/ GroupStatRead \/ GroupStatClear
    \/ PoolStatRead \/ PoolStatClear
    \/ \E n \in job.todo :
          \/ Visit(n, "read", "queue", QueueReads(n)) \/ Visit(n, "clear", "queue", QueueClears(n))
          \/ Visit(n, "read", "group", GroupReads(n)) \/ Visit(n, "clear", "group", GroupClears(n))
          \/ Visit(n, "read", "pool", PoolReads(n)) \/ Visit(n, "clear", "pool", PoolClears(n))
    \/ OneQueueRead \/ OneQueueClear \/ OneGroupRead \/ OneGroupClear \/ OnePoolRead \/ OnePoolClear
    \/ Reply
    \/ \E i \in Intfs : Associate(i) \/ \E p \in NpuPorts \cup {None} : Change(i, p)

Spec == Init /\ [][Next]_vars
----------------------------------------------------------------------------
Counters == DOMAIN QueueCounters \cup DOMAIN GroupCounters \cup DOMAIN PoolCounters
Object == [node : Nodes, mmu : Indexes, snap : BOOLEAN, counters : SUBSET Counters]
NdiCall == [op : {"sync", "read", "clear"}, mmu : Indexes, snap : BOOLEAN, for : SUBSET Indexes]
Result == [node : Nodes, mmu : Indexes, snap : BOOLEAN, counters : SUBSET Counters,
           at : NpuPorts \cup {None, "npu"}, epoch : Nat]
Job == [op : {"none", "read", "clear"}, kind : {"none", "queue", "group", "pool"},
        todo : SUBSET Nodes, at : Nodes \cup {None}, calls : SUBSET NdiCall,
        mmu : Indexes \cup {None}, snap : BOOLEAN \cup {None}, named : SUBSET Counters,
        exact : BOOLEAN, failed : BOOLEAN, synced : SUBSET (Types \cup {"ucast", "mcast"}),
        taken : [Types -> Nat], asked : SUBSET Object, done : SUBSET Result,
        refused : SUBSET (Nodes \X Indexes), hollow : SUBSET Types,
        disturbed : SUBSET Intfs]

TypeOK ==
    /\ supported \in BOOLEAN /\ changes \in Nat
    /\ intf \in [Intfs -> NpuPorts \cup {None}]
    /\ events \in [Intfs -> Seq(NpuPorts \cup {None})]
    /\ bound \in [Intfs -> NpuPorts \cup {None}] /\ last \in [Intfs -> NpuPorts \cup {None}]
    /\ job \in Job

----------------------------------------------------------------------------
(* Properties *)

\* What a GET returns of snapshots is of one SYNC of the type, made for this GET: no
\* object shows an older snapshot or one of another moment than the rest
\* (is_ucast_sync_done, is_sync_done, ...), unless the SYNC fell to a node that does not
\* exist in the MMU asked for.
SnapshotsOfOneSync ==
    \A o \in job.done :
       job.op = "read" /\ o.snap /\ o.node.type \notin job.hollow => o.epoch = 1

\* A request touches no object, counter, or snapshot it does not ask for, and only of the
\* NPU port the interface is mapped to, unless a change of the interface is not yet
\* associated (nas_qos_cps_api_*_stat_read and _clear).
NothingElse ==
    \A o \in job.done :
       o.node.port \notin job.disturbed =>
          /\ [node |-> o.node, mmu |-> o.mmu, snap |-> o.snap, counters |-> o.counters] \in job.asked
          /\ o.node \notin Pools => o.at = intf[o.node.port]

\* In the end everything that was asked for is done, but for what NDI refused on an MMU
\* or with a SYNC, which a request with an exact key reports.
NothingMissed ==
    Finished =>
       \A a \in job.asked :
          \/ \E o \in job.done : o.node = a.node /\ o.mmu = a.mmu /\ o.snap = a.snap
          \/ <<a.node, a.mmu>> \in job.refused /\ (job.exact => job.failed)
          \/ a.node.port \in job.disturbed
=============================================================================
