-------------------------- MODULE StatisticsProofs --------------------------
(***************************************************************************)
(* Proofs about Statistics: for every number of interfaces, nodes and MMUs, *)
(* whatever NDI refuses and however the interfaces change, a request does   *)
(* what it asks for and nothing else, and shows snapshots of one SYNC.      *)
(***************************************************************************)
EXTENDS Statistics, TLAPS

\* What the pending events tell of an interface and the nodes bound to it.
EventsTell ==
    \A i \in Intfs :
       /\ events[i] = <<>> => bound[i] = intf[i]
       /\ events[i] # <<>> => events[i][Len(events[i])] = intf[i]
       /\ last[i] = bound[i] \/ bound[i] = None

Calm == job # NoJob => \A i \in Intfs \ job.disturbed : events[i] = <<>>

Undisturbed(n) == n.port \notin job.disturbed

\* The nodes that are left or at hand.
Ahead == job.todo \cup ({job.at} \ {None})

NodesOf(kind) == IF kind = "queue" THEN Queues ELSE IF kind = "group" THEN Groups ELSE Pools
AllOf(kind, s) ==
    IF kind = "queue" THEN QueueAll(s) ELSE IF kind = "group" THEN GroupAll(s) ELSE PoolAll(s)

KindFits == Ahead \subseteq NodesOf(job.kind)

\* What a key that is silent stands for, and what a node may have of it.
Covers(i, s) == job.mmu \in {None, i} /\ job.snap \in {None, s}
Possible(n, i, s) == (s => supported) /\ <<n, i>> \notin Lacks

\* What will be called is asked for, with the counters it will be called with ...
Wanted(n, i, s) ==
    [node |-> n, mmu |-> i, snap |-> s, counters |-> Used(job.named, AllOf(job.kind, s))]
AskedAhead ==
    \A n \in Ahead : Undisturbed(n) /\ ~Virtual(n) =>
       \A i \in Indexes, s \in BOOLEAN : Covers(i, s) /\ Possible(n, i, s) => Wanted(n, i, s) \in job.asked

\* ... and what is asked for can be called.
AskedFits ==
    \A a \in job.asked : Undisturbed(a.node) =>
       Covers(a.mmu, a.snap) /\ Possible(a.node, a.mmu, a.snap) /\ ~Virtual(a.node)

CallsFit ==
    /\ job.calls # {} => job.at \in Nodes /\ (Undisturbed(job.at) => ~Virtual(job.at))
    /\ \A c \in job.calls :
          /\ c.op \in {"sync", job.op}
          /\ c.op # "sync" => c.for = {c.mmu} /\ Covers(c.mmu, c.snap)

\* What is asked for is still to come, done, or refused.
Did(a) == \E o \in job.done : o.node = a.node /\ o.mmu = a.mmu /\ o.snap = a.snap
Due(a) == a.node = job.at /\ \E c \in job.calls : c.op # "sync" /\ c.mmu = a.mmu /\ c.snap = a.snap
AskedKept ==
    \A a \in job.asked : Undisturbed(a.node) =>
       a.node \in job.todo \/ Due(a) \/ Did(a) \/ <<a.node, a.mmu>> \in job.refused

Reported == job.exact /\ job.refused # {} => job.failed

\* The flags of a type, and what they are worth.
IsSynced(t) == Flags(t) \cap job.synced # {}
SyncOnce ==
    \A t \in Types :
       /\ IsSynced(t) => job.taken[t] = 1 \/ t \in job.hollow
       /\ ~IsSynced(t) => job.taken[t] = 0 /\ t \notin job.hollow

\* A snapshot is read after the SYNC that is for it.
SyncBefore ==
    \A c \in job.calls : c.op = "read" /\ c.snap /\ supported =>
       IsSynced(job.at.type) \/ \E y \in job.calls : y.op = "sync" /\ c.mmu \in y.for
SyncsApart ==
    \A y, z \in job.calls : y.op = "sync" /\ z.op = "sync" /\ y.for \cap z.for # {} => y = z

Inv ==
    /\ TypeOK /\ EventsTell /\ Calm
    /\ KindFits /\ AskedAhead /\ AskedFits /\ CallsFit /\ AskedKept /\ Reported /\ NothingElse
    /\ SyncOnce /\ SyncBefore /\ SyncsApart /\ SnapshotsOfOneSync

USE Parameters, NoneIsNew, PoolsHaveNoPort

----------------------------------------------------------------------------
LEMMA NoJobTyped == NoJob \in Job
<1>1. [t \in Types |-> 0] \in [Types -> Nat]
  OBVIOUS
<1>. QED BY <1>1 DEF NoJob, Job

\* Without a request there is nothing to keep.
IdleFacts ==
    /\ KindFits /\ AskedAhead /\ AskedFits /\ CallsFit /\ AskedKept /\ Reported /\ NothingElse
    /\ SyncOnce /\ SyncBefore /\ SyncsApart /\ SnapshotsOfOneSync

Idle == job = NoJob

LEMMA IdleHolds == Idle => IdleFacts
<1>. SUFFICES ASSUME Idle PROVE IdleFacts
  OBVIOUS
<1>1. /\ job.todo = {} /\ job.at = None /\ job.calls = {} /\ job.asked = {} /\ job.done = {}
      /\ job.synced = {} /\ job.taken = [t \in Types |-> 0] /\ job.hollow = {}
      /\ job.exact = FALSE
  BY DEF Idle, NoJob
<1>2. Ahead = {}
  BY <1>1 DEF Ahead
<1>3. KindFits /\ AskedAhead /\ AskedFits
  BY <1>1, <1>2 DEF KindFits, AskedAhead, AskedFits
<1>4. CallsFit /\ AskedKept /\ Reported /\ NothingElse
  BY <1>1 DEF CallsFit, AskedKept, Reported, NothingElse
<1>5. SyncOnce /\ SyncBefore /\ SyncsApart /\ SnapshotsOfOneSync
  BY <1>1 DEF SyncOnce, IsSynced, SyncBefore, SyncsApart, SnapshotsOfOneSync
<1>. QED BY <1>3, <1>4, <1>5 DEF IdleFacts

LEMMA InitHolds == Init => Inv
<1>. SUFFICES ASSUME Init PROVE Inv
  OBVIOUS
<1>1. job \in Job /\ Calm
  BY NoJobTyped DEF Init, Calm
<1>2. TypeOK
  BY <1>1 DEF Init, TypeOK
<1>3. EventsTell
  BY DEF Init, EventsTell
<1>4. Idle
  BY DEF Init, Idle
<1>. QED BY <1>1, <1>2, <1>3, <1>4, IdleHolds DEF Inv, IdleFacts

LEMMA ReplyHolds == ASSUME Inv, Reply PROVE Inv'
<1>1. UNCHANGED <<supported, intf, changes, events, bound, last>> /\ job' = NoJob
  BY DEF Reply
<1>2. Idle'
  BY <1>1 DEF Idle
<1>3. TypeOK'
  BY <1>1, NoJobTyped DEF Inv, TypeOK
<1>4. EventsTell' /\ Calm'
  BY <1>1 DEF Inv, EventsTell, Calm
<1>5. IdleFacts'
  BY <1>2, IdleHolds, PTL
<1>. QED BY <1>3, <1>4, <1>5 DEF Inv, IdleFacts

LEMMA TailIs ==
    ASSUME NEW S, NEW e \in Seq(S), e # <<>>
    PROVE  /\ Head(e) \in S /\ Tail(e) \in Seq(S)
           /\ Tail(e) = <<>> => Head(e) = e[Len(e)]
           /\ Tail(e) # <<>> => Tail(e)[Len(Tail(e))] = e[Len(e)]
<1>1. Len(e) \in Nat \ {0} /\ Head(e) = e[1] /\ e[1] \in S
  OBVIOUS
<1>2. Tail(e) \in Seq(S) /\ Len(Tail(e)) = Len(e) - 1
  OBVIOUS
<1>3. \A i \in 1 .. Len(e) - 1 : Tail(e)[i] = e[i + 1]
  OBVIOUS
<1>4. Tail(e) = <<>> <=> Len(e) = 1
  BY <1>1, <1>2
<1>5. ASSUME Tail(e) # <<>> PROVE Tail(e)[Len(Tail(e))] = e[Len(e)]
  <2>1. Len(e) - 1 \in 1 .. Len(e) - 1
    BY <1>1, <1>4, <1>5
  <2>. QED BY <1>1, <1>2, <1>3, <2>1
<1>. QED BY <1>1, <1>2, <1>4, <1>5

LEMMA AssociateHolds ==
    ASSUME Inv, NEW i \in Intfs, Associate(i)
    PROVE  Inv'
<1>1. /\ job = NoJob /\ events[i] # <<>> /\ UNCHANGED <<supported, intf, changes, job>>
      /\ events' = [events EXCEPT ![i] = Tail(events[i])]
      /\ bound' = [bound EXCEPT ![i] = Head(events[i])]
      /\ last' = [last EXCEPT ![i] = IF Head(events[i]) = None THEN last[i] ELSE Head(events[i])]
  BY DEF Associate
<1>2. events[i] \in Seq(NpuPorts \cup {None}) /\ TypeOK
  BY DEF Inv, TypeOK
<1>3. /\ Head(events[i]) \in NpuPorts \cup {None}
      /\ Tail(events[i]) \in Seq(NpuPorts \cup {None})
      /\ Tail(events[i]) = <<>> => Head(events[i]) = events[i][Len(events[i])]
      /\ Tail(events[i]) # <<>> =>
            Tail(events[i])[Len(Tail(events[i]))] = events[i][Len(events[i])]
  BY <1>1, <1>2, TailIs
<1>4. TypeOK'
  <2>1. /\ events' \in [Intfs -> Seq(NpuPorts \cup {None})]
        /\ bound' \in [Intfs -> NpuPorts \cup {None}] /\ last' \in [Intfs -> NpuPorts \cup {None}]
    BY <1>1, <1>2, <1>3 DEF TypeOK
  <2>. QED BY <1>1, <1>2, <2>1 DEF TypeOK
<1>5. EventsTell'
  <2>. SUFFICES ASSUME NEW j \in Intfs
                PROVE  /\ events'[j] = <<>> => bound'[j] = intf'[j]
                       /\ events'[j] # <<>> => events'[j][Len(events'[j])] = intf'[j]
                       /\ last'[j] = bound'[j] \/ bound'[j] = None
    BY DEF EventsTell
  <2>1. /\ events[j] = <<>> => bound[j] = intf[j]
        /\ events[j] # <<>> => events[j][Len(events[j])] = intf[j]
        /\ last[j] = bound[j] \/ bound[j] = None
    BY DEF Inv, EventsTell
  <2>2. CASE j # i
    BY <1>1, <1>2, <2>1, <2>2 DEF TypeOK
  <2>3. CASE j = i
    <3>1. /\ events'[i] = Tail(events[i]) /\ bound'[i] = Head(events[i])
          /\ last'[i] = IF Head(events[i]) = None THEN last[i] ELSE Head(events[i])
      BY <1>1, <1>2 DEF TypeOK
    <3>. QED BY <1>1, <1>3, <2>1, <2>3, <3>1
  <2>. QED BY <2>2, <2>3
<1>6. Calm' /\ Idle'
  BY <1>1 DEF Calm, Idle
<1>7. IdleFacts'
  BY <1>6, IdleHolds, PTL
<1>. QED BY <1>4, <1>5, <1>6, <1>7 DEF Inv, IdleFacts

LEMMA ChangeTells ==
    ASSUME Inv, NEW i \in Intfs, NEW p \in NpuPorts \cup {None}, Change(i, p)
    PROVE  EventsTell' /\ events' \in [Intfs -> Seq(NpuPorts \cup {None})]
<1>1. /\ UNCHANGED <<supported, bound, last>> /\ changes' = changes + 1
      /\ intf' = [intf EXCEPT ![i] = p] /\ events' = [events EXCEPT ![i] = Append(events[i], p)]
  BY DEF Change
<1>2. events[i] \in Seq(NpuPorts \cup {None}) /\ TypeOK
  BY DEF Inv, TypeOK
<1>3. events' \in [Intfs -> Seq(NpuPorts \cup {None})]
  BY <1>1, <1>2 DEF TypeOK
<1>4. events'[i] # <<>> /\ events'[i][Len(events'[i])] = p /\ intf'[i] = p
  <2>1. events'[i] = Append(events[i], p) /\ intf'[i] = p
    BY <1>1, <1>2 DEF TypeOK
  <2>. QED BY <1>2, <2>1
<1>5. \A j \in Intfs : j # i => events'[j] = events[j] /\ intf'[j] = intf[j]
  BY <1>1, <1>2 DEF TypeOK
<1>. QED BY <1>1, <1>3, <1>4, <1>5 DEF Inv, EventsTell

\* Of an undisturbed node nothing changes when an interface does.
LEMMA ChangeHolds ==
    ASSUME Inv, NEW i \in Intfs, NEW p \in NpuPorts \cup {None}, Change(i, p)
    PROVE  Inv'
<1>1. /\ UNCHANGED <<supported, bound, last>> /\ changes' = changes + 1
      /\ intf' = [intf EXCEPT ![i] = p]
      /\ job' = IF job = NoJob THEN NoJob ELSE [job EXCEPT !.disturbed = job.disturbed \cup {i}]
  BY DEF Change
<1>2. TypeOK /\ job \in Job
  BY DEF Inv, TypeOK
<1>3. TypeOK' /\ EventsTell'
  <2>1. job' \in Job
    BY <1>1, <1>2 DEF Job
  <2>2. intf' \in [Intfs -> NpuPorts \cup {None}] /\ changes' \in Nat
    BY <1>1, <1>2 DEF TypeOK
  <2>. QED BY <1>1, <1>2, <2>1, <2>2, ChangeTells DEF TypeOK
<1>4. CASE job = NoJob
  <2>1. Idle' /\ Calm'
    BY <1>1, <1>4 DEF Idle, Calm
  <2>2. IdleFacts'
    BY <2>1, IdleHolds, PTL
  <2>. QED BY <1>3, <2>1, <2>2 DEF Inv, IdleFacts
<1>5. CASE job # NoJob
  <2>1. /\ job'.op = job.op /\ job'.kind = job.kind /\ job'.todo = job.todo /\ job'.at = job.at
        /\ job'.calls = job.calls /\ job'.mmu = job.mmu /\ job'.snap = job.snap
        /\ job'.named = job.named /\ job'.exact = job.exact /\ job'.failed = job.failed
        /\ job'.synced = job.synced /\ job'.taken = job.taken /\ job'.asked = job.asked
        /\ job'.done = job.done /\ job'.refused = job.refused /\ job'.hollow = job.hollow
        /\ job'.disturbed = job.disturbed \cup {i}
    BY <1>1, <1>2, <1>5 DEF Job
  <2>2. /\ \A n \in Nodes : n.port \notin job'.disturbed => n.port \notin job.disturbed
        /\ \A n \in Nodes \ Pools : n.port \notin job'.disturbed => intf'[n.port] = intf[n.port]
    BY <1>1, <1>2, <2>1 DEF TypeOK, Nodes
  <2>3. \A n \in Nodes : n.port \notin job'.disturbed => (Virtual(n)' <=> Virtual(n))
    BY <2>2 DEF Virtual
  <2>4. Ahead' = Ahead /\ Ahead \subseteq Nodes
    BY <1>2, <2>1 DEF Ahead, Job
  <2>5. Calm'
    BY <1>1, <1>2, <1>5, <2>1 DEF Inv, Calm, Change, TypeOK
  <2>6. KindFits' /\ Reported' /\ AskedFits'
    <3>1. \A a \in job.asked : a.node \in Nodes
      BY <1>2 DEF Job, Object
    <3>. QED BY <1>1, <2>1, <2>2, <2>3, <2>4, <3>1
             DEF Inv, KindFits, Reported, AskedFits, Undisturbed, Covers, Possible
  <2>7. AskedAhead'
    BY <1>1, <2>1, <2>2, <2>3, <2>4 DEF Inv, AskedAhead, Undisturbed, Covers, Possible, Wanted
  <2>8. CallsFit'
    BY <2>1, <2>2, <2>3 DEF Inv, CallsFit, Undisturbed, Covers
  <2>9. AskedKept'
    <3>1. \A a \in job.asked : a.node \in Nodes
      BY <1>2 DEF Job, Object
    <3>. QED BY <2>1, <2>2, <3>1 DEF Inv, AskedKept, Undisturbed, Due, Did
  <2>10. NothingElse'
    <3>1. \A o \in job.done : o.node \in Nodes
      BY <1>2 DEF Job, Result
    <3>. QED BY <2>1, <2>2, <3>1 DEF Inv, NothingElse
  <2>11. SyncOnce' /\ SyncBefore' /\ SyncsApart' /\ SnapshotsOfOneSync'
    BY <1>1, <2>1 DEF Inv, SyncOnce, IsSynced, SyncBefore, SyncsApart, SnapshotsOfOneSync
  <2>. QED BY <1>3, <2>5, <2>6, <2>7, <2>8, <2>9, <2>10, <2>11 DEF Inv
<1>. QED BY <1>4, <1>5

----------------------------------------------------------------------------
(* The beginning of a request. *)

MmusOf(r, exact) == IF r.mmu # None THEN {r.mmu} ELSE IF exact THEN {0} ELSE Indexes
SnapsOf(r, exact) == IF r.snap # None THEN {r.snap} ELSE IF exact THEN {FALSE} ELSE BOOLEAN
NamedOf(r, counters) ==
    {c \in r.names :
       ({r.op} \cup IF r.snap = TRUE THEN {"snapshot"} ELSE {}) \subseteq counters[c]}

CountersAre(kind, counters) ==
    \A s \in BOOLEAN : AllOf(kind, s) = {c \in DOMAIN counters : s => "snapshot" \in counters[c]}

\* An object of node n, of MMU i, of a snapshot or not.
ObjectOf(n, i, s, r, kind, counters) ==
    [node |-> n, mmu |-> i, snap |-> s,
     counters |-> Used(NamedOf(r, counters), AllOf(kind, s))]

Triples(nodes, exact, r) ==
    {x \in {n \in nodes : Matches(n, r.key) /\ ~Virtual(n)} \X MmusOf(r, exact) \X SnapsOf(r, exact) :
        <<x[1], x[2]>> \notin Lacks /\ (x[3] => supported)}

LEMMA AskedIs ==
    ASSUME NEW nodes, NEW exact \in BOOLEAN, NEW r, NEW counters, NEW kind,
           r.snap \in BOOLEAN \cup {None},
           CountersAre(kind, counters)
    PROVE  Asked(nodes, exact, r, counters) =
              {ObjectOf(o[1], o[2], o[3], r, kind, counters) : o \in Triples(nodes, exact, r)}
<1>. DEFINE cs(s) == IF NamedOf(r, counters) # {} THEN NamedOf(r, counters)
                     ELSE {c \in DOMAIN counters : s => "snapshot" \in counters[c]}
<1>1. Asked(nodes, exact, r, counters) =
         {[node |-> o[1], mmu |-> o[2], snap |-> o[3], counters |-> cs(o[3])] :
             o \in Triples(nodes, exact, r)}
  BY DEF Asked, MmusOf, SnapsOf, NamedOf, Triples
<1>2. \A s \in BOOLEAN : cs(s) = Used(NamedOf(r, counters), AllOf(kind, s))
  BY DEF Used, CountersAre
<1>3. \A o \in Triples(nodes, exact, r) : o[3] \in BOOLEAN
  BY DEF SnapsOf, Triples
<1>. HIDE DEF cs
<1>4. \A o \in Triples(nodes, exact, r) :
         [node |-> o[1], mmu |-> o[2], snap |-> o[3], counters |-> cs(o[3])]
            = ObjectOf(o[1], o[2], o[3], r, kind, counters)
  BY <1>2, <1>3 DEF ObjectOf
<1>. QED BY <1>1, <1>4

\* What will be asked for ...
LEMMA AskedMember ==
    ASSUME NEW nodes, NEW exact \in BOOLEAN, NEW r, NEW counters, NEW kind,
           r.snap \in BOOLEAN \cup {None},
           CountersAre(kind, counters),
           NEW n \in nodes, NEW i \in MmusOf(r, exact), NEW s \in SnapsOf(r, exact),
           Matches(n, r.key), ~Virtual(n), Possible(n, i, s)
    PROVE  ObjectOf(n, i, s, r, kind, counters) \in Asked(nodes, exact, r, counters)
<1>. DEFINE o == <<n, i, s>>
<1>1. o \in Triples(nodes, exact, r) /\ o[1] = n /\ o[2] = i /\ o[3] = s
  BY DEF Possible, Triples
<1>2. Asked(nodes, exact, r, counters) =
         {ObjectOf(x[1], x[2], x[3], r, kind, counters) : x \in Triples(nodes, exact, r)}
  BY AskedIs
<1>. QED BY <1>1, <1>2

\* ... and nothing else.
LEMMA AskedOnly ==
    ASSUME NEW nodes, NEW exact \in BOOLEAN, NEW r, NEW counters, NEW kind,
           r.snap \in BOOLEAN \cup {None},
           CountersAre(kind, counters),
           NEW a \in Asked(nodes, exact, r, counters)
    PROVE  \E n \in nodes, i \in MmusOf(r, exact), s \in SnapsOf(r, exact) :
              /\ Matches(n, r.key) /\ ~Virtual(n) /\ Possible(n, i, s)
              /\ a = ObjectOf(n, i, s, r, kind, counters)
<1>1. Asked(nodes, exact, r, counters) =
         {ObjectOf(x[1], x[2], x[3], r, kind, counters) : x \in Triples(nodes, exact, r)}
  BY AskedIs
<1>2. PICK o \in Triples(nodes, exact, r) : a = ObjectOf(o[1], o[2], o[3], r, kind, counters)
  BY <1>1
<1>3. PICK n \in nodes, i \in MmusOf(r, exact), s \in SnapsOf(r, exact) :
         o = <<n, i, s>> /\ Matches(n, r.key) /\ ~Virtual(n) /\ Possible(n, i, s)
  BY DEF Triples, Possible
<1>. QED BY <1>2, <1>3

LEMMA StartHolds ==
    ASSUME Inv, job = NoJob, NEW kind \in {"queue", "group", "pool"}, NEW exact \in BOOLEAN,
           NEW r, NEW counters,
           r.op \in {"read", "clear"}, r.mmu \in Indexes \cup {None},
           r.snap \in BOOLEAN \cup {None}, NamedOf(r, counters) \subseteq Counters,
           CountersAre(kind, counters), \A s \in BOOLEAN : AllOf(kind, s) \subseteq Counters,
           exact => \A n, m \in NodesOf(kind) :
                       Matches(n, r.key) /\ Matches(m, r.key) => (Virtual(n) <=> Virtual(m)),
           Start(kind, NodesOf(kind), exact, r, NamedOf(r, counters), counters)
    PROVE  Inv'
<1>. DEFINE nodes == NodesOf(kind)
            named == NamedOf(r, counters)
            asked == Asked(nodes, exact, r, counters)
            hits == {n \in nodes : Matches(n, r.key)}
            ignored == r.op = "read" /\ r.snap = TRUE /\ ~supported
            fails == exact /\ (hits = {} \/ \E n \in hits : Virtual(n))
<1>1. nodes \subseteq Nodes /\ TypeOK
  BY DEF NodesOf, Nodes, Inv, TypeOK
<1>2. /\ \A n \in nodes, i \in MmusOf(r, exact), s \in SnapsOf(r, exact) :
            Matches(n, r.key) /\ ~Virtual(n) /\ Possible(n, i, s) =>
               ObjectOf(n, i, s, r, kind, counters) \in asked
      /\ \A a \in asked :
            \E n \in nodes, i \in MmusOf(r, exact), s \in SnapsOf(r, exact) :
               /\ Matches(n, r.key) /\ ~Virtual(n) /\ Possible(n, i, s)
               /\ a = ObjectOf(n, i, s, r, kind, counters)
  <2>1. CountersAre(kind, counters)
    OBVIOUS
  <2>2. ASSUME NEW n \in nodes, NEW i \in MmusOf(r, exact), NEW s \in SnapsOf(r, exact),
               Matches(n, r.key), ~Virtual(n), Possible(n, i, s)
        PROVE  ObjectOf(n, i, s, r, kind, counters) \in asked
    BY <2>1, <2>2, AskedMember
  <2>3. ASSUME NEW a \in asked
        PROVE  \E n \in nodes, i \in MmusOf(r, exact), s \in SnapsOf(r, exact) :
                  /\ Matches(n, r.key) /\ ~Virtual(n) /\ Possible(n, i, s)
                  /\ a = ObjectOf(n, i, s, r, kind, counters)
    BY <2>1, <2>3, AskedOnly
  <2>. QED BY <2>2, <2>3
<1>3. /\ UNCHANGED <<supported, intf, changes, events, bound, last>>
      /\ job' = [NoJob EXCEPT
            !.op = r.op, !.kind = kind, !.named = named, !.exact = exact,
            !.mmu = IF exact /\ r.mmu = None THEN 0 ELSE r.mmu,
            !.snap = IF exact /\ r.snap = None THEN FALSE ELSE r.snap,
            !.todo = IF ignored \/ fails THEN {} ELSE hits,
            !.failed = fails /\ ~ignored,
            !.asked = asked,
            !.disturbed = {i \in Intfs : events[i] # <<>>}]
  BY DEF Start, Asked
<1>. HIDE DEF nodes, named, asked, hits, ignored, fails
<1>4. /\ job'.op = r.op /\ job'.kind = kind /\ job'.named = named /\ job'.exact = exact
      /\ job'.mmu = IF exact /\ r.mmu = None THEN 0 ELSE r.mmu
      /\ job'.snap = IF exact /\ r.snap = None THEN FALSE ELSE r.snap
      /\ job'.todo = IF ignored \/ fails THEN {} ELSE hits
      /\ job'.failed = (fails /\ ~ignored)
      /\ job'.asked = asked /\ job'.disturbed = {i \in Intfs : events[i] # <<>>}
  BY <1>3 DEF NoJob
<1>5. /\ job'.at = None /\ job'.calls = {} /\ job'.synced = {}
      /\ job'.taken = [t \in Types |-> 0] /\ job'.done = {}
      /\ job'.refused = {} /\ job'.hollow = {}
  BY <1>3 DEF NoJob
<1>6. /\ hits \subseteq nodes /\ \A n \in nodes : n \in hits <=> Matches(n, r.key)
      /\ fails \in BOOLEAN /\ ignored \in BOOLEAN
  BY DEF hits, fails, ignored
<1>7. ignored \/ fails => asked = {}
  <2>. SUFFICES ASSUME NEW a \in asked PROVE ~ignored /\ ~fails
    OBVIOUS
  <2>1. PICK n \in nodes, i \in MmusOf(r, exact), s \in SnapsOf(r, exact) :
           Matches(n, r.key) /\ ~Virtual(n) /\ Possible(n, i, s)
    BY <1>2
  <2>2. ~ignored
    BY <2>1 DEF ignored, SnapsOf, Possible
  <2>3. ASSUME fails PROVE FALSE
    <3>1. n \in hits /\ exact
      BY <1>6, <2>1, <2>3 DEF fails
    <3>2. PICK m \in hits : Virtual(m)
      BY <2>3, <3>1 DEF fails
    <3>. QED BY <1>6, <2>1, <3>1, <3>2 DEF nodes
  <2>. QED BY <2>2, <2>3
<1>8. ASSUME NEW a \in asked
      PROVE  /\ a \in Object /\ a.node \in hits /\ ~Virtual(a.node)
             /\ Possible(a.node, a.mmu, a.snap)
             /\ a.mmu \in Indexes \cap MmusOf(r, exact) /\ a.snap \in BOOLEAN \cap SnapsOf(r, exact)
  <2>1. PICK n \in nodes, i \in MmusOf(r, exact), s \in SnapsOf(r, exact) :
           /\ Matches(n, r.key) /\ ~Virtual(n) /\ Possible(n, i, s)
           /\ a = ObjectOf(n, i, s, r, kind, counters)
    BY <1>2
  <2>2. MmusOf(r, exact) \subseteq Indexes /\ SnapsOf(r, exact) \subseteq BOOLEAN
    <3>1. 0 \in Indexes
      BY DEF Indexes
    <3>. QED BY <3>1 DEF MmusOf, SnapsOf
  <2>3. Used(named, AllOf(kind, s)) \subseteq Counters
    BY <2>2 DEF Used, named
  <2>4. a.node = n /\ a.mmu = i /\ a.snap = s
    BY <2>1 DEF ObjectOf
  <2>5. a \in Object
    BY <1>1, <2>1, <2>2, <2>3 DEF ObjectOf, Object, named
  <2>. QED BY <1>6, <2>1, <2>2, <2>4, <2>5
<1>9. job' \in Job
  <2>1. /\ job'.mmu \in Indexes \cup {None} /\ job'.snap \in BOOLEAN \cup {None}
        /\ job'.todo \subseteq Nodes /\ job'.named \subseteq Counters
        /\ job'.failed \in BOOLEAN
    BY <1>1, <1>4, <1>6 DEF Indexes, named
  <2>2. NoJob \in Job /\ asked \subseteq Object
    BY <1>8, NoJobTyped
  <2>3. /\ job'.op \in {"none", "read", "clear"} /\ job'.exact \in BOOLEAN
        /\ job'.kind \in {"none", "queue", "group", "pool"}
        /\ job'.asked \in SUBSET Object /\ job'.disturbed \in SUBSET Intfs
    BY <1>4, <2>2
  <2>4. /\ job'.at \in Nodes \cup {None} /\ job'.calls \in SUBSET NdiCall
        /\ job'.synced \in SUBSET (Types \cup {"ucast", "mcast"})
        /\ job'.taken \in [Types -> Nat] /\ job'.done \in SUBSET Result
        /\ job'.refused \in SUBSET (Nodes \X Indexes) /\ job'.hollow \in SUBSET Types
    BY <1>5
  <2>5. job' = [op |-> job'.op, kind |-> job'.kind, todo |-> job'.todo, at |-> job'.at,
                calls |-> job'.calls, mmu |-> job'.mmu, snap |-> job'.snap,
                named |-> job'.named, exact |-> job'.exact, failed |-> job'.failed,
                synced |-> job'.synced, taken |-> job'.taken, asked |-> job'.asked,
                done |-> job'.done, refused |-> job'.refused, hollow |-> job'.hollow,
                disturbed |-> job'.disturbed]
    BY <1>3 DEF NoJob
  <2>. QED BY <2>1, <2>3, <2>4, <2>5 DEF Job
<1>10. TypeOK' /\ EventsTell' /\ Calm'
  BY <1>1, <1>3, <1>4, <1>9 DEF Inv, TypeOK, EventsTell, Calm
<1>11. /\ \A i \in Indexes : (job'.mmu \in {None, i}) <=> i \in MmusOf(r, exact)
       /\ \A s \in BOOLEAN : (job'.snap \in {None, s}) <=> s \in SnapsOf(r, exact)
       /\ MmusOf(r, exact) \subseteq Indexes
  <2>1. 0 \in Indexes
    BY DEF Indexes
  <2>2. \A i \in Indexes : (job'.mmu \in {None, i}) <=> i \in MmusOf(r, exact)
    BY <1>4, <2>1 DEF MmusOf
  <2>3. \A s \in BOOLEAN : (job'.snap \in {None, s}) <=> s \in SnapsOf(r, exact)
    BY <1>4 DEF SnapsOf
  <2>. QED BY <2>1, <2>2, <2>3 DEF MmusOf
<1>12. Ahead' \subseteq hits /\ (\A n : Virtual(n)' <=> Virtual(n))
  BY <1>3, <1>4, <1>5 DEF Ahead, Virtual
<1>13. KindFits' /\ CallsFit' /\ Reported' /\ NothingElse'
  BY <1>4, <1>5, <1>6, <1>12 DEF KindFits, CallsFit, Reported, NothingElse, nodes
<1>14. AskedAhead'
  <2>. SUFFICES ASSUME NEW n \in Ahead', ~Virtual(n)', NEW i \in Indexes, NEW s \in BOOLEAN,
                       job'.mmu \in {None, i}, job'.snap \in {None, s}, Possible(n, i, s)
                PROVE  ObjectOf(n, i, s, r, kind, counters) \in asked
    BY <1>3, <1>4 DEF AskedAhead, Covers, Wanted, ObjectOf, Possible, named
  <2>1. n \in nodes /\ Matches(n, r.key) /\ ~Virtual(n)
    BY <1>6, <1>12
  <2>2. i \in MmusOf(r, exact) /\ s \in SnapsOf(r, exact)
    BY <1>11
  <2>. QED BY <1>2, <2>1, <2>2
<1>15. AskedFits' /\ AskedKept'
  <2>. SUFFICES ASSUME NEW a \in asked
                PROVE  /\ Covers(a.mmu, a.snap)' /\ Possible(a.node, a.mmu, a.snap)'
                       /\ ~Virtual(a.node)' /\ a.node \in job'.todo
    BY <1>4 DEF AskedFits, AskedKept
  <2>1. a.node \in job'.todo
    BY <1>4, <1>7, <1>8
  <2>2. job'.mmu \in {None, a.mmu} /\ job'.snap \in {None, a.snap}
    BY <1>8, <1>11
  <2>3. Possible(a.node, a.mmu, a.snap)' /\ ~Virtual(a.node)'
    BY <1>3, <1>8, <1>12 DEF Possible
  <2>. QED BY <2>1, <2>2, <2>3 DEF Covers
<1>16. SyncOnce' /\ SyncBefore' /\ SyncsApart' /\ SnapshotsOfOneSync'
  BY <1>5 DEF SyncOnce, IsSynced, SyncBefore, SyncsApart, SnapshotsOfOneSync
<1>. QED BY <1>10, <1>13, <1>14, <1>15, <1>16 DEF Inv

LEMMA CountersMatch ==
    /\ CountersAre("queue", QueueCounters) /\ CountersAre("group", GroupCounters)
    /\ CountersAre("pool", PoolCounters)
    /\ \A kind \in {"queue", "group", "pool"}, s \in BOOLEAN : AllOf(kind, s) \subseteq Counters
<1>1. /\ \A s \in BOOLEAN : QueueAll(s) \subseteq DOMAIN QueueCounters
      /\ \A s \in BOOLEAN : GroupAll(s) \subseteq DOMAIN GroupCounters
      /\ \A s \in BOOLEAN : PoolAll(s) \subseteq DOMAIN PoolCounters
  BY DEF QueueAll, GroupAll, PoolAll
<1>2. \A kind \in {"queue", "group", "pool"}, s \in BOOLEAN : AllOf(kind, s) \subseteq Counters
  BY <1>1 DEF AllOf, Counters
<1>3. CountersAre("queue", QueueCounters)
  BY DEF CountersAre, AllOf, QueueAll
<1>4. CountersAre("group", GroupCounters)
  BY DEF CountersAre, AllOf, GroupAll
<1>5. CountersAre("pool", PoolCounters)
  BY DEF CountersAre, AllOf, PoolAll
<1>. QED BY <1>2, <1>3, <1>4, <1>5

\* The counters that the handlers take are those the request means.
LEMMA NamedMatch ==
    ASSUME NEW r, r.snap \in BOOLEAN \cup {None}
    PROVE  /\ r.names \subseteq DOMAIN QueueCounters => QueueNamed(r) = NamedOf(r, QueueCounters)
           /\ r.names \subseteq DOMAIN GroupCounters => GroupNamed(r) = NamedOf(r, GroupCounters)
           /\ r.names \subseteq DOMAIN PoolCounters => PoolNamed(r) = NamedOf(r, PoolCounters)
<1>1. ASSUME r.names \subseteq DOMAIN QueueCounters
      PROVE  QueueNamed(r) = NamedOf(r, QueueCounters)
  <2>1. \A c : c \in QueueNamed(r) <=> c \in NamedOf(r, QueueCounters)
    BY <1>1 DEF QueueNamed, QueueAll, NamedOf
  <2>. QED BY <2>1
<1>2. ASSUME r.names \subseteq DOMAIN GroupCounters
      PROVE  GroupNamed(r) = NamedOf(r, GroupCounters)
  <2>1. \A c : c \in GroupNamed(r) <=> c \in NamedOf(r, GroupCounters)
    BY <1>2 DEF GroupNamed, GroupAll, NamedOf
  <2>. QED BY <2>1
<1>3. ASSUME r.names \subseteq DOMAIN PoolCounters
      PROVE  PoolNamed(r) = NamedOf(r, PoolCounters)
  <2>1. \A c : c \in PoolNamed(r) <=> c \in NamedOf(r, PoolCounters)
    BY <1>3 DEF PoolNamed, PoolAll, NamedOf
  <2>. QED BY <2>1
<1>. QED BY <1>1, <1>2, <1>3

\* An exact key names one port.
LEMMA ExactPort ==
    /\ \A k, n, m : QueueExact(k) /\ n \in Queues /\ m \in Queues /\ Matches(n, k) /\ Matches(m, k) =>
          (Virtual(n) <=> Virtual(m))
    /\ \A k, n, m : GroupExact(k) /\ n \in Groups /\ m \in Groups /\ Matches(n, k) /\ Matches(m, k) =>
          (Virtual(n) <=> Virtual(m))
    /\ \A n \in Pools : ~Virtual(n)
<1>1. \A n \in Queues \cup Groups : n \notin Pools
  OBVIOUS
<1>. QED BY <1>1 DEF QueueExact, GroupExact, Matches, Virtual

LEMMA RequestHolds ==
    ASSUME Inv,
           QueueStatRead \/ QueueStatClear \/ GroupStatRead \/ GroupStatClear
              \/ PoolStatRead \/ PoolStatClear
    PROVE  Inv'
<1>1. CASE QueueStatRead \/ QueueStatClear
  <2>1. PICK op \in {"read", "clear"} : \E r \in Requests(op, QueueKeys, QueueCounters) :
           Start("queue", Queues, QueueExact(r.key), r, QueueNamed(r), QueueCounters)
    BY <1>1 DEF QueueStatRead, QueueStatClear
  <2>2. PICK r \in Requests(op, QueueKeys, QueueCounters) :
           Start("queue", Queues, QueueExact(r.key), r, QueueNamed(r), QueueCounters)
    BY <2>1
  <2>3. /\ job = NoJob /\ r.op \in {"read", "clear"} /\ r.mmu \in Indexes \cup {None}
        /\ r.snap \in BOOLEAN \cup {None} /\ r.names \subseteq DOMAIN QueueCounters
    BY <1>1, <2>2 DEF QueueStatRead, QueueStatClear, Requests
  <2>4. QueueNamed(r) = NamedOf(r, QueueCounters) /\ NamedOf(r, QueueCounters) \subseteq Counters
    BY <2>3, NamedMatch DEF NamedOf, Counters
  <2>5. NodesOf("queue") = Queues /\ QueueExact(r.key) \in BOOLEAN
    BY DEF NodesOf, QueueExact
  <2>6. QueueExact(r.key) => \A n, m \in NodesOf("queue") :
           Matches(n, r.key) /\ Matches(m, r.key) => (Virtual(n) <=> Virtual(m))
    BY <2>5, ExactPort
  <2>. QED BY <2>2, <2>3, <2>4, <2>5, <2>6, CountersMatch, StartHolds
<1>2. CASE GroupStatRead \/ GroupStatClear
  <2>1. PICK op \in {"read", "clear"} : \E r \in Requests(op, GroupKeys, GroupCounters) :
           Start("group", Groups, GroupExact(r.key), r, GroupNamed(r), GroupCounters)
    BY <1>2 DEF GroupStatRead, GroupStatClear
  <2>2. PICK r \in Requests(op, GroupKeys, GroupCounters) :
           Start("group", Groups, GroupExact(r.key), r, GroupNamed(r), GroupCounters)
    BY <2>1
  <2>3. /\ job = NoJob /\ r.op \in {"read", "clear"} /\ r.mmu \in Indexes \cup {None}
        /\ r.snap \in BOOLEAN \cup {None} /\ r.names \subseteq DOMAIN GroupCounters
    BY <1>2, <2>2 DEF GroupStatRead, GroupStatClear, Requests
  <2>4. GroupNamed(r) = NamedOf(r, GroupCounters) /\ NamedOf(r, GroupCounters) \subseteq Counters
    BY <2>3, NamedMatch DEF NamedOf, Counters
  <2>5. NodesOf("group") = Groups /\ GroupExact(r.key) \in BOOLEAN
    BY DEF NodesOf, GroupExact
  <2>6. GroupExact(r.key) => \A n, m \in NodesOf("group") :
           Matches(n, r.key) /\ Matches(m, r.key) => (Virtual(n) <=> Virtual(m))
    BY <2>5, ExactPort
  <2>. QED BY <2>2, <2>3, <2>4, <2>5, <2>6, CountersMatch, StartHolds
<1>3. CASE PoolStatRead \/ PoolStatClear
  <2>1. PICK op \in {"read", "clear"} : \E r \in Requests(op, PoolKeys, PoolCounters) :
           Start("pool", Pools, PoolExact(r.key), r, PoolNamed(r), PoolCounters)
    BY <1>3 DEF PoolStatRead, PoolStatClear
  <2>2. PICK r \in Requests(op, PoolKeys, PoolCounters) :
           Start("pool", Pools, PoolExact(r.key), r, PoolNamed(r), PoolCounters)
    BY <2>1
  <2>3. /\ job = NoJob /\ r.op \in {"read", "clear"} /\ r.mmu \in Indexes \cup {None}
        /\ r.snap \in BOOLEAN \cup {None} /\ r.names \subseteq DOMAIN PoolCounters
    BY <1>3, <2>2 DEF PoolStatRead, PoolStatClear, Requests
  <2>4. PoolNamed(r) = NamedOf(r, PoolCounters) /\ NamedOf(r, PoolCounters) \subseteq Counters
    BY <2>3, NamedMatch DEF NamedOf, Counters
  <2>5. NodesOf("pool") = Pools /\ PoolExact(r.key) \in BOOLEAN
    BY DEF NodesOf, PoolExact
  <2>6. PoolExact(r.key) => \A n, m \in NodesOf("pool") :
           Matches(n, r.key) /\ Matches(m, r.key) => (Virtual(n) <=> Virtual(m))
    BY <2>5, ExactPort
  <2>. QED BY <2>2, <2>3, <2>4, <2>5, <2>6, CountersMatch, StartHolds
<1>. QED BY <1>1, <1>2, <1>3

----------------------------------------------------------------------------
(* The calls for a node. *)

\* What holds of the calls that a handler makes for n.
CallsOf(calls, n, op) ==
    /\ \A c \in calls :
          /\ c \in NdiCall /\ c.op \in {"sync", op}
          /\ c.op # "sync" => c.for = {c.mmu} /\ Covers(c.mmu, c.snap)
    /\ \A c \in calls : c.op = "read" /\ c.snap /\ supported =>
          \E y \in calls : y.op = "sync" /\ c.mmu \in y.for
    /\ \A y, z \in calls : y.op = "sync" /\ z.op = "sync" /\ y.for \cap z.for # {} => y = z

\* Nothing that the key covers is left out.
CallsAll(calls, op) ==
    \A i \in Indexes, s \in BOOLEAN : Covers(i, s) =>
       \E c \in calls : c.op = op /\ c.mmu = i /\ c.snap = s

LEMMA VisitHolds ==
    ASSUME Inv, NEW n \in job.todo, NEW op \in {"read", "clear"}, NEW kind, NEW calls,
           Visit(n, op, kind, calls),
           ~Virtual(n) => CallsOf(calls, n, op) /\ (Undisturbed(n) => CallsAll(calls, op))
    PROVE  Inv'
<1>. DEFINE mine == IF Virtual(n) THEN {} ELSE calls
<1>1. /\ job.op = op /\ job.kind = kind /\ job.calls = {}
      /\ job' = [job EXCEPT !.todo = job.todo \ {n}, !.at = n, !.calls = mine]
      /\ UNCHANGED <<supported, intf, changes, events, bound, last>>
  BY DEF Visit
<1>2. TypeOK /\ job \in Job /\ n \in Nodes
  BY DEF Inv, TypeOK, Job
<1>3. /\ job'.op = job.op /\ job'.kind = job.kind /\ job'.todo = job.todo \ {n} /\ job'.at = n
      /\ job'.calls = mine /\ job'.mmu = job.mmu /\ job'.snap = job.snap
      /\ job'.named = job.named /\ job'.exact = job.exact /\ job'.failed = job.failed
      /\ job'.synced = job.synced /\ job'.taken = job.taken /\ job'.asked = job.asked
      /\ job'.done = job.done /\ job'.refused = job.refused /\ job'.hollow = job.hollow
      /\ job'.disturbed = job.disturbed
  BY <1>1, <1>2 DEF Job
<1>4. CallsOf(mine, n, op)
  BY DEF CallsOf
<1>. HIDE DEF mine
<1>5. TypeOK' /\ EventsTell'
  <2>1. mine \subseteq NdiCall
    BY <1>4 DEF CallsOf
  <2>2. job' \in Job
    BY <1>1, <1>2, <2>1 DEF Job
  <2>. QED BY <1>1, <1>2, <2>2 DEF Inv, TypeOK, EventsTell
<1>6. Ahead' \subseteq Ahead /\ n \in Ahead
  BY <1>2, <1>3 DEF Ahead
<1>7. Calm'
  <2>1. job # NoJob
    BY DEF NoJob
  <2>. QED BY <1>1, <1>3, <2>1 DEF Inv, Calm
<1>8. \A m : Virtual(m)' <=> Virtual(m)
  BY <1>1 DEF Virtual
<1>9. KindFits' /\ Reported' /\ NothingElse'
  BY <1>1, <1>3, <1>6 DEF Inv, KindFits, Reported, NothingElse
<1>10. AskedAhead' /\ AskedFits'
  BY <1>1, <1>3, <1>6, <1>8
     DEF Inv, AskedAhead, AskedFits, Undisturbed, Covers, Possible, Wanted
<1>11. CallsFit'
  <2>1. mine # {} => ~Virtual(n)
    BY DEF mine
  <2>. QED BY <1>1, <1>2, <1>3, <1>4, <1>8, <2>1 DEF CallsFit, CallsOf, Undisturbed, Covers
<1>12. AskedKept'
  <2>. SUFFICES ASSUME NEW a \in job.asked, Undisturbed(a.node)
                PROVE  \/ a.node \in job'.todo \/ Did(a) \/ <<a.node, a.mmu>> \in job.refused
                       \/ a.node = n /\ \E c \in mine : c.op # "sync" /\ c.mmu = a.mmu /\ c.snap = a.snap
    BY <1>3 DEF AskedKept, Undisturbed, Did, Due
  <2>1. a.node \in job.todo \/ Did(a) \/ <<a.node, a.mmu>> \in job.refused
    BY <1>1 DEF Inv, AskedKept, Due
  <2>2. CASE a.node = n
    <3>1. Covers(a.mmu, a.snap) /\ ~Virtual(n)
      BY <2>2 DEF Inv, AskedFits
    <3>2. a.mmu \in Indexes /\ a.snap \in BOOLEAN
      BY <1>2 DEF Job, Object
    <3>3. CallsAll(mine, op)
      BY <2>2, <3>1 DEF mine
    <3>. QED BY <2>2, <3>1, <3>2, <3>3 DEF CallsAll
  <2>3. CASE a.node # n
    BY <1>3, <2>1, <2>3
  <2>. QED BY <2>2, <2>3
<1>13. SyncOnce' /\ SnapshotsOfOneSync'
  BY <1>3 DEF Inv, SyncOnce, IsSynced, SnapshotsOfOneSync
<1>14. SyncBefore' /\ SyncsApart'
  BY <1>1, <1>3, <1>4 DEF SyncBefore, SyncsApart, CallsOf
<1>. QED BY <1>5, <1>7, <1>9, <1>10, <1>11, <1>12, <1>13, <1>14 DEF Inv

LEMMA PerCalls ==
    ASSUME job \in Job, NEW op \in {"read", "clear"}, NEW count
    PROVE  /\ \A c \in Per(EachMmu(count), op) :
                 /\ c \in NdiCall /\ c.op = op /\ c.for = {c.mmu} /\ Covers(c.mmu, c.snap)
                 /\ c.mmu \in EachMmu(count)
           /\ count = Mmus => CallsAll(Per(EachMmu(count), op), op)
<1>1. \A c : c \in Per(EachMmu(count), op) <=> \E i \in EachMmu(count) : c \in Both(op, i)
  BY DEF Per
<1>2. \A i, c : c \in Both(op, i) <=>
         \E s \in BOOLEAN : job.snap \in {None, s} /\ c = [op |-> op, mmu |-> i, snap |-> s, for |-> {i}]
  BY DEF Both
<1>3. ASSUME NEW c \in Per(EachMmu(count), op)
      PROVE  /\ c \in NdiCall /\ c.op = op /\ c.for = {c.mmu} /\ Covers(c.mmu, c.snap)
             /\ c.mmu \in EachMmu(count)
  <2>1. PICK i \in EachMmu(count) : c \in Both(op, i)
    BY <1>1
  <2>2. PICK s \in BOOLEAN : job.snap \in {None, s} /\ c = [op |-> op, mmu |-> i, snap |-> s, for |-> {i}]
    BY <1>2, <2>1
  <2>3. i \in Indexes /\ job.mmu \in {None, i}
    BY DEF EachMmu
  <2>4. c.op = op /\ c.mmu = i /\ c.snap = s /\ c.for = {i} /\ c \in NdiCall
    BY <2>2, <2>3 DEF NdiCall
  <2>. QED BY <2>2, <2>3, <2>4 DEF Covers
<1>4. ASSUME count = Mmus, NEW i \in Indexes, NEW s \in BOOLEAN, Covers(i, s)
      PROVE  \E c \in Per(EachMmu(count), op) : c.op = op /\ c.mmu = i /\ c.snap = s
  <2>. DEFINE c == [op |-> op, mmu |-> i, snap |-> s, for |-> {i}]
  <2>1. i \in EachMmu(count) /\ job.snap \in {None, s}
    BY <1>4 DEF EachMmu, Covers, Indexes
  <2>2. c \in Both(op, i)
    BY <1>2, <2>1
  <2>. QED BY <1>1, <2>1, <2>2
<1>. QED BY <1>3, <1>4 DEF CallsAll

LEMMA SyncCalls ==
    ASSUME job \in Job, NEW m \in SUBSET Indexes
    PROVE  /\ \A y \in Sync(m) : y \in NdiCall /\ y.op = "sync" /\ y.for = m
           /\ \A y, z \in Sync(m) : y = z
           /\ supported /\ job.snap \in {None, TRUE} => \E y \in Sync(m) : y.op = "sync" /\ y.for = m
<1>1. 0 \in Indexes /\ job.mmu \in Indexes \cup {None}
  BY DEF Indexes, Job
<1>. DEFINE y == [op |-> "sync", mmu |-> IF job.mmu = None THEN 0 ELSE job.mmu,
                  snap |-> job.snap = TRUE, for |-> m]
<1>2. y \in NdiCall /\ y.op = "sync" /\ y.for = m
  BY <1>1 DEF NdiCall
<1>. HIDE DEF y
<1>3. Sync(m) = IF supported /\ job.snap # FALSE THEN {y} ELSE {}
  BY DEF Sync, y
<1>4. None # FALSE
  OBVIOUS
<1>. QED BY <1>2, <1>3, <1>4

\* An undisturbed node that is called has its NPU objects.
LEMMA BoundHere ==
    ASSUME Inv, job # NoJob, NEW n \in Nodes, n \in NodesOf(job.kind), Undisturbed(n), ~Virtual(n)
    PROVE  /\ job.kind \in {"queue", "group"} =>
                 intf[n.port] # None /\ bound[n.port] = intf[n.port] /\ last[n.port] = intf[n.port]
           /\ job.kind = "queue" => QueueMmus(n) = Mmus
           /\ job.kind = "group" => GroupMmus(n) = Mmus
<1>1. job.kind \in {"queue", "group"} => n.port \in Intfs /\ n \notin Pools
  BY DEF NodesOf
<1>2. ASSUME job.kind \in {"queue", "group"}
      PROVE  intf[n.port] # None /\ bound[n.port] = intf[n.port] /\ last[n.port] = intf[n.port]
  <2>1. intf[n.port] # None /\ n.port \in Intfs \ job.disturbed
    BY <1>1, <1>2 DEF Virtual, Undisturbed
  <2>2. events[n.port] = <<>>
    BY <2>1 DEF Inv, Calm
  <2>. QED BY <2>1, <2>2 DEF Inv, EventsTell
<1>. QED BY <1>2 DEF QueueMmus, GroupMmus

LEMMA SyncedReads ==
    ASSUME job \in Job, NEW n, NEW count
    PROVE  CallsOf(Sync(Indexes) \cup Per(EachMmu(count), "read"), n, "read")
<1>. DEFINE reads == Per(EachMmu(count), "read")
            syncs == Sync(Indexes)
            calls == syncs \cup reads
<1>1. \A c \in reads : /\ c \in NdiCall /\ c.op = "read" /\ c.for = {c.mmu}
                       /\ Covers(c.mmu, c.snap) /\ c.mmu \in Indexes
  BY PerCalls DEF EachMmu
<1>2. /\ \A y \in syncs : y \in NdiCall /\ y.op = "sync" /\ y.for = Indexes
      /\ \A y, z \in syncs : y = z
      /\ supported /\ job.snap \in {None, TRUE} => \E y \in syncs : y.op = "sync" /\ y.for = Indexes
  BY SyncCalls
<1>. HIDE DEF reads, syncs
<1>3. \A c \in calls : /\ c \in NdiCall /\ c.op \in {"sync", "read"}
                       /\ c.op # "sync" => c.for = {c.mmu} /\ Covers(c.mmu, c.snap)
  BY <1>1, <1>2
<1>4. ASSUME NEW c \in calls, c.op = "read", c.snap, supported
      PROVE  \E y \in calls : y.op = "sync" /\ c.mmu \in y.for
  <2>1. c \in reads /\ c.snap \in BOOLEAN
    BY <1>1, <1>2, <1>4 DEF NdiCall
  <2>2. job.snap \in {None, TRUE} /\ c.mmu \in Indexes
    BY <1>1, <1>4, <2>1 DEF Covers
  <2>. QED BY <1>2, <1>4, <2>2
<1>5. \A y, z \in calls : y.op = "sync" /\ z.op = "sync" => y = z
  BY <1>1, <1>2
<1>. QED BY <1>3, <1>4, <1>5 DEF CallsOf, reads, syncs

LEMMA SyncedPoolReads ==
    ASSUME job \in Job, NEW n
    PROVE  CallsOf(PoolReads(n), n, "read")
<1>. DEFINE mmus == EachMmu(PoolMmus(n))
            reads == Per(mmus, "read")
            syncs == UNION {Sync({i}) : i \in mmus}
            calls == reads \cup syncs
<1>1. \A c \in reads : /\ c \in NdiCall /\ c.op = "read" /\ c.for = {c.mmu}
                       /\ Covers(c.mmu, c.snap) /\ c.mmu \in mmus
  BY PerCalls
<1>2. mmus \subseteq Indexes
  BY DEF EachMmu
<1>3. \A y : y \in syncs <=> \E i \in mmus : y \in Sync({i})
  OBVIOUS
<1>. HIDE DEF mmus, reads, syncs
<1>4. \A i \in mmus :
         /\ \A y \in Sync({i}) : y \in NdiCall /\ y.op = "sync" /\ y.for = {i}
         /\ \A y, z \in Sync({i}) : y = z
         /\ supported /\ job.snap \in {None, TRUE} => \E y \in Sync({i}) : y.op = "sync" /\ y.for = {i}
  <2>. SUFFICES ASSUME NEW i \in mmus
                PROVE  /\ \A y \in Sync({i}) : y \in NdiCall /\ y.op = "sync" /\ y.for = {i}
                       /\ \A y, z \in Sync({i}) : y = z
                       /\ supported /\ job.snap \in {None, TRUE} =>
                             \E y \in Sync({i}) : y.op = "sync" /\ y.for = {i}
    OBVIOUS
  <2>1. {i} \in SUBSET Indexes
    BY <1>2
  <2>. QED BY <2>1, SyncCalls
<1>5. ASSUME NEW c \in calls
      PROVE  /\ c \in NdiCall /\ c.op \in {"sync", "read"}
             /\ c.op # "sync" => c.for = {c.mmu} /\ Covers(c.mmu, c.snap)
  <2>1. CASE c \in reads
    BY <1>1, <2>1
  <2>2. CASE c \in syncs
    <3>1. PICK i \in mmus : c \in Sync({i})
      BY <1>3, <2>2
    <3>. QED BY <1>4, <3>1
  <2>. QED BY <2>1, <2>2
<1>6. ASSUME NEW c \in calls, c.op = "read", c.snap, supported
      PROVE  \E y \in calls : y.op = "sync" /\ c.mmu \in y.for
  <2>1. c \in reads /\ c.snap \in BOOLEAN
    BY <1>1, <1>3, <1>4, <1>6 DEF NdiCall
  <2>2. job.snap \in {None, TRUE} /\ c.mmu \in mmus
    BY <1>1, <1>6, <2>1 DEF Covers
  <2>3. PICK y \in Sync({c.mmu}) : y.op = "sync" /\ y.for = {c.mmu}
    BY <1>4, <1>6, <2>2
  <2>. QED BY <1>3, <2>2, <2>3
<1>7. ASSUME NEW y \in calls, NEW z \in calls, y.op = "sync", z.op = "sync", y.for \cap z.for # {}
      PROVE  y = z
  <2>1. PICK i \in mmus, j \in mmus : y \in Sync({i}) /\ z \in Sync({j})
    BY <1>1, <1>3, <1>7
  <2>2. y.for = {i} /\ z.for = {j}
    BY <1>4, <2>1
  <2>3. i = j
    BY <1>7, <2>2
  <2>. QED BY <1>4, <2>1, <2>3
<1>8. PoolReads(n) = calls
  BY DEF PoolReads, mmus, reads, syncs
<1>. QED BY <1>5, <1>6, <1>7, <1>8 DEF CallsOf

LEMMA Clears ==
    ASSUME job \in Job, NEW n, NEW count
    PROVE  CallsOf(Per(EachMmu(count), "clear"), n, "clear")
BY PerCalls DEF CallsOf

Visits(n) ==
    \/ Visit(n, "read", "queue", QueueReads(n)) \/ Visit(n, "clear", "queue", QueueClears(n))
    \/ Visit(n, "read", "group", GroupReads(n)) \/ Visit(n, "clear", "group", GroupClears(n))
    \/ Visit(n, "read", "pool", PoolReads(n)) \/ Visit(n, "clear", "pool", PoolClears(n))

LEMMA VisitsHold ==
    ASSUME Inv, NEW n \in job.todo, Visits(n)
    PROVE  Inv'
<1>1. job \in Job /\ job # NoJob /\ n \in Nodes /\ n \in NodesOf(job.kind)
  BY DEF Inv, TypeOK, Job, KindFits, Ahead, NoJob
<1>2. \A more, calls, op : CallsAll(calls, op) => CallsAll(more \cup calls, op) /\ CallsAll(calls \cup more, op)
  BY DEF CallsAll
<1>3. ASSUME NEW op \in {"read", "clear"}, ~Virtual(n), Undisturbed(n)
      PROVE  /\ job.kind = "queue" => CallsAll(Per(EachMmu(QueueMmus(n)), op), op)
             /\ job.kind = "group" => CallsAll(Per(EachMmu(GroupMmus(n)), op), op)
             /\ CallsAll(Per(EachMmu(PoolMmus(n)), op), op)
  <2>1. /\ job.kind = "queue" => QueueMmus(n) = Mmus
        /\ job.kind = "group" => GroupMmus(n) = Mmus /\ PoolMmus(n) = Mmus
        /\ PoolMmus(n) = Mmus
    BY <1>1, <1>3, BoundHere DEF PoolMmus
  <2>. QED BY <1>1, <2>1, PerCalls
<1>4. CASE Visit(n, "read", "queue", QueueReads(n))
  BY <1>1, <1>2, <1>3, <1>4, SyncedReads, VisitHolds DEF QueueReads, Visit
<1>5. CASE Visit(n, "clear", "queue", QueueClears(n))
  BY <1>1, <1>3, <1>5, Clears, VisitHolds DEF QueueClears, Visit
<1>6. CASE Visit(n, "read", "group", GroupReads(n))
  BY <1>1, <1>2, <1>3, <1>6, SyncedReads, VisitHolds DEF GroupReads, Visit
<1>7. CASE Visit(n, "clear", "group", GroupClears(n))
  BY <1>1, <1>3, <1>7, Clears, VisitHolds DEF GroupClears, Visit
<1>8. CASE Visit(n, "read", "pool", PoolReads(n))
  BY <1>1, <1>2, <1>3, <1>8, SyncedPoolReads, VisitHolds DEF PoolReads, Visit
<1>9. CASE Visit(n, "clear", "pool", PoolClears(n))
  BY <1>1, <1>3, <1>9, Clears, VisitHolds DEF PoolClears, Visit
<1>. QED BY <1>4, <1>5, <1>6, <1>7, <1>8, <1>9 DEF Visits

----------------------------------------------------------------------------
(* One call of NDI. *)

\* What a handler passes to Call.
Passed(c, count, at, all) ==
    /\ all = AllOf(job.kind, c.snap) /\ all \subseteq Counters
    /\ at \in NpuPorts \cup {None, "npu"}
    /\ Undisturbed(job.at) =>
          count = Mmus /\ (job.kind \in {"queue", "group"} => at = intf[job.at.port])

LEMMA CallFacts ==
    ASSUME Inv, NEW c \in job.calls
    PROVE  /\ job \in Job /\ job # NoJob /\ c \in NdiCall
           /\ job.at \in Nodes /\ job.at # None /\ job.at \in Ahead /\ job.at \in NodesOf(job.kind)
           /\ c.op \in {"sync", job.op} /\ c.op \in {"sync", "read", "clear"}
           /\ c.op # "sync" => c.for = {c.mmu} /\ Covers(c.mmu, c.snap)
           /\ Undisturbed(job.at) => ~Virtual(job.at)
<1>1. job \in Job /\ job # NoJob /\ c \in NdiCall
  BY DEF Inv, TypeOK, Job, NoJob
<1>2. job.at \in Nodes /\ job.at # None /\ (Undisturbed(job.at) => ~Virtual(job.at))
  BY DEF Inv, CallsFit
<1>3. job.at \in Ahead /\ job.at \in NodesOf(job.kind)
  BY <1>2 DEF Inv, KindFits, Ahead
<1>4. /\ c.op \in {"sync", job.op}
      /\ c.op # "sync" => c.for = {c.mmu} /\ Covers(c.mmu, c.snap)
  BY DEF Inv, CallsFit
<1>5. c.op \in {"sync", "read", "clear"}
  BY <1>1 DEF NdiCall
<1>. QED BY <1>1, <1>2, <1>3, <1>4, <1>5

\* No SYNC that is for the MMU of a read is left when the read is next.
LEMMA ReadsFollow ==
    ASSUME Inv, NEW c \in job.calls, First(c), c.op # "sync",
           NEW y \in job.calls, y.op = "sync"
    PROVE  c.mmu \notin y.for
<1>1. /\ c \in NdiCall /\ y \in NdiCall /\ c.op # "sync" /\ c.for = {c.mmu}
  BY CallFacts
<1>2. Precedes(c, y)
  BY DEF First
<1>3. Rank(y) = 0 /\ Rank(c) \in {1, 2}
  BY DEF Rank
<1>4. Lower(c, y)
  BY <1>2, <1>3 DEF Precedes
<1>5. \A j \in y.for : c.mmu < j
  BY <1>1, <1>4 DEF Lower
<1>6. c.mmu \in Nat
  BY <1>1 DEF NdiCall, Indexes
<1>. QED BY <1>5, <1>6

LEMMA FlagsDiffer ==
    ASSUME NEW t \in Types, NEW u \in Types, t # u
    PROVE  Flags(t) \cap Flags(u) = {}
BY QueueTypes DEF Flags

LEMMA FlagsOfType == ASSUME NEW t PROVE Flags(t) # {} /\ Flags(t) \subseteq {t, "ucast", "mcast"}
BY DEF Flags

\* What no call changes.
CallFrame ==
    /\ UNCHANGED <<supported, intf, changes, events, bound, last>>
    /\ job'.op = job.op /\ job'.kind = job.kind /\ job'.todo = job.todo /\ job'.at = job.at
    /\ job'.mmu = job.mmu /\ job'.snap = job.snap /\ job'.named = job.named
    /\ job'.exact = job.exact /\ job'.asked = job.asked /\ job'.disturbed = job.disturbed

FrameFacts ==
    /\ TypeOK /\ EventsTell /\ Calm /\ KindFits /\ AskedAhead /\ AskedFits /\ CallsFit /\ SyncsApart

LEMMA FrameHolds ==
    ASSUME Inv, job.calls # {}, CallFrame, job' \in Job, job'.calls \subseteq job.calls
    PROVE  FrameFacts'
<1>1. UNCHANGED <<supported, intf, changes, events, bound, last>>
  BY DEF CallFrame
<1>2. TypeOK' /\ EventsTell'
  BY <1>1 DEF Inv, TypeOK, EventsTell
<1>3. Calm'
  <2>1. job # NoJob
    BY DEF NoJob
  <2>. QED BY <2>1 DEF Inv, Calm, CallFrame
<1>4. /\ \A m : (Virtual(m)' <=> Virtual(m)) /\ (Undisturbed(m)' <=> Undisturbed(m))
      /\ Ahead' = Ahead
  BY DEF CallFrame, Virtual, Undisturbed, Ahead
<1>5. KindFits'
  BY <1>4 DEF Inv, KindFits, CallFrame
<1>6. AskedAhead'
  BY <1>4 DEF Inv, AskedAhead, CallFrame, Covers, Possible, Wanted, Undisturbed
<1>7. AskedFits'
  BY <1>4 DEF Inv, AskedFits, CallFrame, Covers, Possible, Undisturbed
<1>8. CallsFit' /\ SyncsApart'
  BY <1>4 DEF Inv, CallsFit, SyncsApart, CallFrame, Covers, Undisturbed
<1>. QED BY <1>2, <1>3, <1>5, <1>6, <1>7, <1>8 DEF FrameFacts

LEMMA JobDone ==
    ASSUME NEW j \in Job, NEW calls \in SUBSET NdiCall, NEW done \in SUBSET Result
    PROVE  [j EXCEPT !.calls = calls, !.done = done] \in Job
BY DEF Job

LEMMA JobSynced ==
    ASSUME NEW j \in Job, NEW calls \in SUBSET NdiCall,
           NEW synced \in SUBSET (Types \cup {"ucast", "mcast"}),
           NEW taken \in [Types -> Nat], NEW hollow \in SUBSET Types
    PROVE  /\ [j EXCEPT !.calls = calls, !.synced = synced, !.hollow = hollow] \in Job
           /\ [j EXCEPT !.calls = calls, !.synced = synced, !.taken = taken] \in Job
BY DEF Job

\* An asked call of an undisturbed node is not skipped.
LEMMA AskedNeeded ==
    ASSUME Inv, NEW c \in job.calls, c.op # "sync", NEW count, NEW at, NEW all,
           Passed(c, count, at, all), NEW a \in job.asked,
           Undisturbed(a.node), a.node = job.at, c.mmu = a.mmu, c.snap = a.snap
    PROVE  ~Unneeded(job.at, c, count)
<1>1. Possible(a.node, a.mmu, a.snap) /\ count = Mmus
  BY DEF Inv, AskedFits, Passed
<1>2. c.mmu \in 0..Mmus
  BY CallFacts DEF NdiCall, Indexes
<1>. QED BY <1>1, <1>2 DEF Possible, Unneeded

\* A SYNC that is made, or that falls to an MMU the node does not have.
LEMMA SyncHolds ==
    ASSUME Inv, NEW c \in job.calls, First(c), c.op = "sync", ~IsSynced(job.at.type),
           CallFrame, job' \in Job,
           job'.calls = job.calls \ {c},
           job'.synced = job.synced \cup Flags(job.at.type),
           \/ job'.hollow = job.hollow \cup {job.at.type} /\ job'.taken = job.taken
           \/ /\ job'.hollow = job.hollow
              /\ job'.taken = [job.taken EXCEPT ![job.at.type] = job.taken[job.at.type] + 1],
           job'.done = job.done, job'.refused = job.refused, job'.failed = job.failed
    PROVE  Inv'
<1>. DEFINE u == job.at.type
<1>1. job.at \in Nodes /\ u \in Types /\ job \in Job
  BY CallFacts DEF Types
<1>2. FrameFacts'
  BY FrameHolds
<1>3. Reported' /\ NothingElse'
  BY DEF Inv, Reported, NothingElse, CallFrame
<1>4. AskedKept'
  BY DEF Inv, AskedKept, CallFrame, Undisturbed, Due, Did
<1>5. SyncOnce'
  <2>. SUFFICES ASSUME NEW t \in Types
                PROVE  /\ IsSynced(t)' => job'.taken[t] = 1 \/ t \in job'.hollow
                       /\ ~IsSynced(t)' => job'.taken[t] = 0 /\ t \notin job'.hollow
    BY DEF SyncOnce
  <2>1. /\ IsSynced(t) => job.taken[t] = 1 \/ t \in job.hollow
        /\ ~IsSynced(t) => job.taken[t] = 0 /\ t \notin job.hollow
    BY DEF Inv, SyncOnce
  <2>2. job.taken \in [Types -> Nat]
    BY <1>1 DEF Job
  <2>3. CASE t = u
    <3>1. IsSynced(t)'
      BY <2>3, FlagsOfType DEF IsSynced
    <3>2. job'.taken[t] = 1 \/ t \in job'.hollow
      BY <2>1, <2>2, <2>3
    <3>. QED BY <3>1, <3>2
  <2>4. CASE t # u
    <3>1. IsSynced(t)' <=> IsSynced(t)
      BY <1>1, <2>4, FlagsDiffer DEF IsSynced
    <3>2. job'.taken[t] = job.taken[t] /\ (t \in job'.hollow <=> t \in job.hollow)
      BY <2>2, <2>4
    <3>. QED BY <2>1, <3>1, <3>2
  <2>. QED BY <2>3, <2>4
<1>6. SyncBefore'
  <2>1. Flags(job'.at.type) \cap job'.synced # {}
    BY FlagsOfType DEF CallFrame
  <2>. QED BY <2>1 DEF SyncBefore, IsSynced
<1>7. SnapshotsOfOneSync'
  BY DEF Inv, SnapshotsOfOneSync, CallFrame
<1>. QED BY <1>2, <1>3, <1>4, <1>5, <1>6, <1>7 DEF Inv, FrameFacts

LEMMA SkipHolds ==
    ASSUME Inv, NEW c \in job.calls, NEW count, NEW at, NEW all, Passed(c, count, at, all),
           Unneeded(job.at, c, count), c.op = "sync" => IsSynced(job.at.type),
           job' = [job EXCEPT !.calls = job.calls \ {c}],
           UNCHANGED <<supported, intf, changes, events, bound, last>>
    PROVE  Inv'
<1>1. job \in Job /\ c.op \in {"sync", job.op}
  BY CallFacts
<1>2. /\ CallFrame /\ job'.calls = job.calls \ {c} /\ job' \in Job
      /\ job'.failed = job.failed /\ job'.synced = job.synced /\ job'.taken = job.taken
      /\ job'.done = job.done /\ job'.refused = job.refused /\ job'.hollow = job.hollow
  BY <1>1 DEF Job, CallFrame
<1>3. FrameFacts'
  BY <1>2, FrameHolds
<1>4. Reported' /\ NothingElse' /\ SyncOnce' /\ SnapshotsOfOneSync'
  BY <1>2 DEF Inv, Reported, NothingElse, SyncOnce, IsSynced, SnapshotsOfOneSync, CallFrame
<1>5. AskedKept'
  <2>. SUFFICES ASSUME NEW a \in job.asked, Undisturbed(a.node)
                PROVE  \/ a.node \in job.todo \/ Due(a)' \/ Did(a) \/ <<a.node, a.mmu>> \in job.refused
    BY <1>2 DEF AskedKept, CallFrame, Undisturbed, Did
  <2>1. a.node \in job.todo \/ Due(a) \/ Did(a) \/ <<a.node, a.mmu>> \in job.refused
    BY DEF Inv, AskedKept
  <2>2. ASSUME Due(a)
        PROVE  Due(a)'
    <3>1. PICK d \in job.calls : d.op # "sync" /\ d.mmu = a.mmu /\ d.snap = a.snap
      BY <2>2 DEF Due
    <3>2. a.node = job.at
      BY <2>2 DEF Due
    <3>3. d # c
      BY <3>1, <3>2, AskedNeeded
    <3>. QED BY <1>2, <3>1, <3>2, <3>3 DEF Due, CallFrame
  <2>. QED BY <2>1, <2>2
<1>6. SyncBefore'
  <2>. SUFFICES ASSUME NEW d \in job.calls, d.op = "read", d.snap, supported, d # c,
                       ~IsSynced(job.at.type)
                PROVE  \E y \in job.calls \ {c} : y.op = "sync" /\ d.mmu \in y.for
    BY <1>2 DEF SyncBefore, CallFrame, IsSynced
  <2>1. PICK y \in job.calls : y.op = "sync" /\ d.mmu \in y.for
    BY DEF Inv, SyncBefore
  <2>. QED BY <2>1
<1>. QED BY <1>3, <1>4, <1>5, <1>6 DEF Inv, FrameFacts

\* What is called of an undisturbed node is asked for.
LEMMA CalledAsked ==
    ASSUME Inv, NEW c \in job.calls, c.op # "sync", NEW count, NEW at, NEW all,
           Passed(c, count, at, all), ~Unneeded(job.at, c, count), Undisturbed(job.at)
    PROVE  /\ [node |-> job.at, mmu |-> c.mmu, snap |-> c.snap, counters |-> Used(job.named, all)]
                  \in job.asked
           /\ job.at \notin Pools => at = intf[job.at.port]
<1>1. /\ job \in Job /\ c \in NdiCall /\ Covers(c.mmu, c.snap) /\ ~Virtual(job.at)
      /\ job.at \in Ahead /\ job.at \in NodesOf(job.kind)
  BY CallFacts
<1>2. c.mmu \in Indexes /\ c.snap \in BOOLEAN /\ Possible(job.at, c.mmu, c.snap)
  BY <1>1 DEF NdiCall, Unneeded, Possible
<1>3. Wanted(job.at, c.mmu, c.snap) \in job.asked
  BY <1>1, <1>2 DEF Inv, AskedAhead
<1>4. all = AllOf(job.kind, c.snap)
  BY DEF Passed
<1>5. job.at \notin Pools => job.kind \in {"queue", "group"}
  BY <1>1 DEF NodesOf, Job
<1>6. job.at \notin Pools => at = intf[job.at.port]
  BY <1>5 DEF Passed
<1>. QED BY <1>3, <1>4, <1>6 DEF Wanted

LEMMA AnswerHolds ==
    ASSUME Inv, NEW c \in job.calls, First(c), c.op # "sync",
           NEW count, NEW at, NEW all, Passed(c, count, at, all), ~Unneeded(job.at, c, count),
           job' = [job EXCEPT
              !.calls = job.calls \ {c},
              !.done = job.done \cup {[node |-> job.at, mmu |-> c.mmu, snap |-> c.snap,
                          counters |-> Used(job.named, all), at |-> at,
                          epoch |-> IF c.snap THEN job.taken[job.at.type] ELSE 0]}],
           UNCHANGED <<supported, intf, changes, events, bound, last>>
    PROVE  Inv'
<1>. DEFINE o == [node |-> job.at, mmu |-> c.mmu, snap |-> c.snap,
                  counters |-> Used(job.named, all), at |-> at,
                  epoch |-> IF c.snap THEN job.taken[job.at.type] ELSE 0]
<1>1. job \in Job /\ c.op = job.op /\ c \in NdiCall /\ job.at \in Nodes /\ job.at.type \in Types
  BY CallFacts DEF Types
<1>2. /\ o.node = job.at /\ o.mmu = c.mmu /\ o.snap = c.snap /\ o.at = at
      /\ o.counters = Used(job.named, all)
      /\ o.epoch = IF c.snap THEN job.taken[job.at.type] ELSE 0
  OBVIOUS
<1>3. o \in Result
  <2>1. Used(job.named, all) \subseteq Counters /\ at \in NpuPorts \cup {None, "npu"}
    BY <1>1 DEF Used, Passed, Job
  <2>2. (IF c.snap THEN job.taken[job.at.type] ELSE 0) \in Nat
    BY <1>1 DEF Job
  <2>. QED BY <1>1, <2>1, <2>2 DEF Result, NdiCall
<1>. HIDE DEF o
<1>4. /\ CallFrame /\ job'.calls = job.calls \ {c} /\ job'.done = job.done \cup {o} /\ job' \in Job
      /\ job'.failed = job.failed /\ job'.synced = job.synced /\ job'.taken = job.taken
      /\ job'.refused = job.refused /\ job'.hollow = job.hollow
  <2>1. job' = [job EXCEPT !.calls = job.calls \ {c}, !.done = job.done \cup {o}]
    BY DEF o
  <2>2. /\ CallFrame /\ job'.calls = job.calls \ {c} /\ job'.done = job.done \cup {o}
        /\ job'.failed = job.failed /\ job'.synced = job.synced /\ job'.taken = job.taken
        /\ job'.refused = job.refused /\ job'.hollow = job.hollow
    BY <1>1, <2>1 DEF Job, CallFrame
  <2>3. job' \in Job
    <3>1. job \in Job /\ job.done \cup {o} \in SUBSET Result /\ job.calls \ {c} \in SUBSET NdiCall
      BY <1>1, <1>3 DEF Job
    <3>2. [job EXCEPT !.calls = job.calls \ {c}, !.done = job.done \cup {o}] \in Job
      BY <3>1, JobDone
    <3>. QED BY <2>1, <3>2, Zenon
  <2>. QED BY <2>2, <2>3
<1>5. FrameFacts'
  BY <1>4, FrameHolds
<1>6. Reported' /\ SyncOnce'
  BY <1>4 DEF Inv, Reported, SyncOnce, IsSynced, CallFrame
<1>7. AskedKept'
  <2>. SUFFICES ASSUME NEW a \in job.asked, Undisturbed(a.node)
                PROVE  \/ a.node \in job.todo \/ Due(a)' \/ Did(a)' \/ <<a.node, a.mmu>> \in job.refused
    BY <1>4 DEF AskedKept, CallFrame, Undisturbed
  <2>1. a.node \in job.todo \/ Due(a) \/ Did(a) \/ <<a.node, a.mmu>> \in job.refused
    BY DEF Inv, AskedKept
  <2>2. Did(a) => Did(a)'
    BY <1>4 DEF Did
  <2>3. ASSUME Due(a)
        PROVE  Due(a)' \/ Did(a)'
    <3>1. PICK d \in job.calls : d.op # "sync" /\ d.mmu = a.mmu /\ d.snap = a.snap
      BY <2>3 DEF Due
    <3>2. a.node = job.at
      BY <2>3 DEF Due
    <3>3. CASE d = c
      BY <1>2, <1>4, <3>1, <3>2, <3>3 DEF Did
    <3>4. CASE d # c
      BY <1>4, <3>1, <3>2, <3>4 DEF Due, CallFrame
    <3>. QED BY <3>3, <3>4
  <2>. QED BY <2>1, <2>2, <2>3
<1>8. NothingElse'
  <2>. SUFFICES ASSUME Undisturbed(job.at)
                PROVE  /\ [node |-> o.node, mmu |-> o.mmu, snap |-> o.snap, counters |-> o.counters]
                              \in job.asked
                       /\ o.node \notin Pools => o.at = intf[o.node.port]
    <3>1. ASSUME NEW x \in job.done, x.node.port \notin job.disturbed
          PROVE  /\ [node |-> x.node, mmu |-> x.mmu, snap |-> x.snap, counters |-> x.counters]
                              \in job.asked
                 /\ x.node \notin Pools => x.at = intf[x.node.port]
      BY <3>1 DEF Inv, NothingElse
    <3>. QED BY <1>2, <1>4, <3>1 DEF NothingElse, CallFrame, Undisturbed
  <2>. QED BY <1>2, CalledAsked
<1>9. SnapshotsOfOneSync'
  <2>. SUFFICES ASSUME job.op = "read", c.snap, job.at.type \notin job.hollow
                PROVE  job.taken[job.at.type] = 1
    BY <1>2, <1>4 DEF Inv, SnapshotsOfOneSync, CallFrame
  <2>1. supported
    BY DEF Unneeded
  <2>2. IsSynced(job.at.type)
    BY <1>1, <2>1, ReadsFollow DEF Inv, SyncBefore
  <2>. QED BY <1>1, <2>2 DEF Inv, SyncOnce
<1>10. SyncBefore'
  <2>. SUFFICES ASSUME NEW d \in job.calls, d.op = "read", d.snap, supported, d # c,
                       ~IsSynced(job.at.type)
                PROVE  \E y \in job.calls \ {c} : y.op = "sync" /\ d.mmu \in y.for
    BY <1>4 DEF SyncBefore, CallFrame, IsSynced
  <2>1. PICK y \in job.calls : y.op = "sync" /\ d.mmu \in y.for
    BY DEF Inv, SyncBefore
  <2>. QED BY <2>1
<1>. QED BY <1>5, <1>6, <1>7, <1>8, <1>9, <1>10 DEF Inv, FrameFacts

\* What is refused takes with it the calls for the same MMUs.
LEMMA RefuseHolds ==
    ASSUME Inv, NEW c \in job.calls, First(c),
           job' = [job EXCEPT
              !.calls = {d \in job.calls \ {c} : d.for \cap c.for = {}},
              !.refused = job.refused \cup ({job.at} \X c.for), !.failed = job.exact],
           UNCHANGED <<supported, intf, changes, events, bound, last>>
    PROVE  Inv'
<1>1. job \in Job /\ c \in NdiCall /\ job.at \in Nodes
  BY CallFacts
<1>2. {job.at} \X c.for \subseteq Nodes \X Indexes
  BY <1>1 DEF NdiCall
<1>3. /\ CallFrame /\ job' \in Job
      /\ job'.calls = {d \in job.calls \ {c} : d.for \cap c.for = {}}
      /\ job'.refused = job.refused \cup ({job.at} \X c.for) /\ job'.failed = job.exact
      /\ job'.synced = job.synced /\ job'.taken = job.taken
      /\ job'.done = job.done /\ job'.hollow = job.hollow
  BY <1>1, <1>2 DEF Job, CallFrame
<1>4. FrameFacts'
  BY <1>3, FrameHolds
<1>5. Reported' /\ NothingElse' /\ SyncOnce' /\ SnapshotsOfOneSync'
  BY <1>3 DEF Inv, Reported, NothingElse, SyncOnce, IsSynced, SnapshotsOfOneSync, CallFrame
<1>6. AskedKept'
  <2>. SUFFICES ASSUME NEW a \in job.asked, Undisturbed(a.node)
                PROVE  \/ a.node \in job.todo \/ Due(a)' \/ Did(a)
                       \/ <<a.node, a.mmu>> \in job'.refused
    BY <1>3 DEF AskedKept, CallFrame, Undisturbed, Did
  <2>1. a.node \in job.todo \/ Due(a) \/ Did(a) \/ <<a.node, a.mmu>> \in job.refused
    BY DEF Inv, AskedKept
  <2>2. ASSUME Due(a)
        PROVE  Due(a)' \/ <<a.node, a.mmu>> \in job'.refused
    <3>1. PICK d \in job.calls : d.op # "sync" /\ d.mmu = a.mmu /\ d.snap = a.snap
      BY <2>2 DEF Due
    <3>2. a.node = job.at /\ d.for = {a.mmu}
      BY <2>2, <3>1, CallFacts DEF Due
    <3>3. CASE a.mmu \in c.for
      BY <1>3, <3>2, <3>3
    <3>4. CASE a.mmu \notin c.for
      <4>1. d \in job'.calls
        BY <1>3, <3>2, <3>4, <3>1, CallFacts
      <4>. QED BY <1>3, <3>1, <3>2, <4>1 DEF Due, CallFrame
    <3>. QED BY <3>3, <3>4
  <2>. QED BY <1>3, <2>1, <2>2
<1>7. SyncBefore'
  <2>. SUFFICES ASSUME NEW d \in job.calls, d.op = "read", d.snap, supported, d # c,
                       d.for \cap c.for = {}, ~IsSynced(job.at.type)
                PROVE  \E y \in job'.calls : y.op = "sync" /\ d.mmu \in y.for
    BY <1>3 DEF SyncBefore, CallFrame, IsSynced
  <2>1. PICK y \in job.calls : y.op = "sync" /\ d.mmu \in y.for
    BY DEF Inv, SyncBefore
  <2>2. d.for = {d.mmu}
    BY CallFacts
  <2>3. y # c
    BY <2>1, <2>2
  <2>4. y.for \cap c.for = {}
    <3>1. CASE c.op = "sync"
      BY <2>1, <2>3, <3>1 DEF Inv, SyncsApart
    <3>2. CASE c.op # "sync"
      <4>1. c.for = {c.mmu}
        BY <3>2, CallFacts
      <4>2. c.mmu \notin y.for
        BY <2>1, <3>2, ReadsFollow
      <4>. QED BY <4>1, <4>2
    <3>. QED BY <3>1, <3>2
  <2>. QED BY <1>3, <2>1, <2>3, <2>4
<1>. QED BY <1>4, <1>5, <1>6, <1>7 DEF Inv, FrameFacts

LEMMA CallHolds ==
    ASSUME Inv, NEW op, NEW kind, NEW c \in job.calls, NEW count, NEW at, NEW all,
           Call(op, kind, c, count, at, all), Passed(c, count, at, all)
    PROVE  Inv'
<1>. DEFINE n == job.at
            rest == [job EXCEPT !.calls = job.calls \ {c}]
            met == [job EXCEPT !.calls = job.calls \ {c}, !.synced = job.synced \cup Flags(n.type)]
<1>1. /\ First(c) /\ UNCHANGED <<supported, intf, changes, events, bound, last>>
      /\ job \in Job /\ job.at \in Nodes /\ job.at.type \in Types /\ c.op \in {"sync", "read", "clear"}
  BY CallFacts DEF Call, Types
<1>2. /\ job \in Job /\ job.calls \ {c} \in SUBSET NdiCall
      /\ job.synced \cup Flags(n.type) \in SUBSET (Types \cup {"ucast", "mcast"})
      /\ job.taken \in [Types -> Nat] /\ job.hollow \cup {n.type} \in SUBSET Types
      /\ job.hollow \in SUBSET Types
  BY <1>1, FlagsOfType DEF Job
<1>3. CASE /\ Unneeded(n, c, count)
           /\ job' = IF c.op = "sync" /\ Flags(n.type) \cap job.synced = {}
                     THEN [Synced(rest, n) EXCEPT !.hollow = job.hollow \cup {n.type}]
                     ELSE rest
  <2>1. CASE c.op = "sync" /\ Flags(n.type) \cap job.synced = {}
    <3>1. job' = [met EXCEPT !.hollow = job.hollow \cup {n.type}]
      BY <1>1, <1>3, <2>1 DEF Synced, Job
    <3>2. /\ CallFrame /\ job'.calls = job.calls \ {c}
          /\ job'.synced = job.synced \cup Flags(n.type) /\ job'.taken = job.taken
          /\ job'.hollow = job.hollow \cup {n.type}
          /\ job'.done = job.done /\ job'.refused = job.refused /\ job'.failed = job.failed
      BY <1>1, <3>1 DEF Job, CallFrame
    <3>3. job' \in Job
      <4>1. job' = [job EXCEPT !.calls = job.calls \ {c}, !.synced = job.synced \cup Flags(n.type),
                               !.hollow = job.hollow \cup {n.type}]
        BY <1>1, <3>1 DEF Job
      <4>. QED BY <1>2, <4>1, JobSynced
    <3>. QED BY <1>1, <2>1, <3>2, <3>3, SyncHolds DEF IsSynced
  <2>2. CASE ~(c.op = "sync" /\ Flags(n.type) \cap job.synced = {})
    <3>1. job' = [job EXCEPT !.calls = job.calls \ {c}]
      BY <1>3, <2>2
    <3>. QED BY <1>1, <1>3, <2>2, <3>1, SkipHolds DEF IsSynced
  <2>. QED BY <2>1, <2>2
<1>4. CASE /\ ~Unneeded(n, c, count)
           /\ LET j == Answered(rest, n, c, at, Used(job.named, all))
              IN job' = IF c.op = "sync" THEN Synced(j, n) ELSE j
  <2>1. CASE c.op = "sync" /\ at = None
    <3>1. job' = [met EXCEPT !.hollow = job.hollow \cup {n.type}]
      BY <1>1, <1>4, <2>1 DEF Synced, Answered, Job
    <3>2. /\ CallFrame /\ job'.calls = job.calls \ {c}
          /\ job'.synced = job.synced \cup Flags(n.type) /\ job'.taken = job.taken
          /\ job'.hollow = job.hollow \cup {n.type}
          /\ job'.done = job.done /\ job'.refused = job.refused /\ job'.failed = job.failed
      BY <1>1, <3>1 DEF Job, CallFrame
    <3>3. job' \in Job
      <4>1. job' = [job EXCEPT !.calls = job.calls \ {c}, !.synced = job.synced \cup Flags(n.type),
                               !.hollow = job.hollow \cup {n.type}]
        BY <1>1, <3>1 DEF Job
      <4>. QED BY <1>2, <4>1, JobSynced
    <3>4. ~IsSynced(n.type)
      BY <1>4, <2>1 DEF Unneeded, IsSynced
    <3>. QED BY <1>1, <2>1, <3>2, <3>3, <3>4, SyncHolds
  <2>2. CASE c.op = "sync" /\ at # None
    <3>1. job' = [met EXCEPT !.taken = [job.taken EXCEPT ![n.type] = job.taken[n.type] + 1]]
      BY <1>1, <1>4, <2>2 DEF Synced, Answered, Job
    <3>2. /\ CallFrame /\ job'.calls = job.calls \ {c}
          /\ job'.synced = job.synced \cup Flags(n.type) /\ job'.hollow = job.hollow
          /\ job'.taken = [job.taken EXCEPT ![n.type] = job.taken[n.type] + 1]
          /\ job'.done = job.done /\ job'.refused = job.refused /\ job'.failed = job.failed
      BY <1>1, <3>1 DEF Job, CallFrame
    <3>3. job' \in Job
      <4>1. [job.taken EXCEPT ![n.type] = job.taken[n.type] + 1] \in [Types -> Nat]
        BY <1>1 DEF Job
      <4>2. job' = [job EXCEPT !.calls = job.calls \ {c}, !.synced = job.synced \cup Flags(n.type),
                        !.taken = [job.taken EXCEPT ![n.type] = job.taken[n.type] + 1]]
        BY <1>1, <3>1 DEF Job
      <4>. QED BY <1>2, <4>1, <4>2, JobSynced
    <3>4. ~IsSynced(n.type)
      BY <1>4, <2>2 DEF Unneeded, IsSynced
    <3>. QED BY <1>1, <2>2, <3>2, <3>3, <3>4, SyncHolds
  <2>3. CASE c.op # "sync"
    <3>1. job' = [job EXCEPT
             !.calls = job.calls \ {c},
             !.done = job.done \cup {[node |-> job.at, mmu |-> c.mmu, snap |-> c.snap,
                         counters |-> Used(job.named, all), at |-> at,
                         epoch |-> IF c.snap THEN job.taken[job.at.type] ELSE 0]}]
      BY <1>1, <1>4, <2>3 DEF Answered, Job
    <3>. QED BY <1>1, <1>4, <2>3, <3>1, AnswerHolds
  <2>. QED BY <2>1, <2>2, <2>3
<1>5. CASE job' = [rest EXCEPT !.calls = {d \in rest.calls : d.for \cap c.for = {}},
                               !.refused = job.refused \cup ({n} \X c.for),
                               !.failed = job.exact]
  <2>1. job' = [job EXCEPT
           !.calls = {d \in job.calls \ {c} : d.for \cap c.for = {}},
           !.refused = job.refused \cup ({job.at} \X c.for), !.failed = job.exact]
    BY <1>1, <1>5 DEF Job
  <2>. QED BY <1>1, <2>1, RefuseHolds
<1>. QED BY <1>3, <1>4, <1>5 DEF Call

LEMMA OneHolds ==
    ASSUME Inv, NEW op, OneQueue(op) \/ OneGroup(op) \/ OnePool(op)
    PROVE  Inv'
<1>1. /\ \A s : QueueAll(s) \subseteq Counters /\ GroupAll(s) \subseteq Counters
      /\ \A s : PoolAll(s) \subseteq Counters
      /\ \A s : AllOf("queue", s) = QueueAll(s) /\ AllOf("group", s) = GroupAll(s)
      /\ \A s : AllOf("pool", s) = PoolAll(s)
      /\ bound \in [Intfs -> NpuPorts \cup {None}] /\ last \in [Intfs -> NpuPorts \cup {None}]
  BY DEF QueueAll, GroupAll, PoolAll, Counters, AllOf, Inv, TypeOK
<1>2. CASE OneQueue(op)
  <2>1. PICK c \in job.calls :
           Call(op, "queue", c, QueueMmus(job.at), QueueAt(job.at, c.mmu), QueueAll(c.snap))
    BY <1>2 DEF OneQueue
  <2>2. job.kind = "queue" /\ job.at \in Queues /\ job.at.port \in Intfs
    BY <2>1, CallFacts DEF Call, NodesOf
  <2>3. QueueAt(job.at, c.mmu) \in NpuPorts \cup {None, "npu"}
    BY <1>1, <2>2 DEF QueueAt
  <2>4. Undisturbed(job.at) =>
           QueueMmus(job.at) = Mmus /\ QueueAt(job.at, c.mmu) = intf[job.at.port]
    BY <2>2, CallFacts, BoundHere DEF QueueAt
  <2>5. Passed(c, QueueMmus(job.at), QueueAt(job.at, c.mmu), QueueAll(c.snap))
    BY <1>1, <2>2, <2>3, <2>4 DEF Passed
  <2>. QED BY <2>1, <2>5, CallHolds
<1>3. CASE OneGroup(op)
  <2>1. PICK c \in job.calls :
           Call(op, "group", c, GroupMmus(job.at), GroupAt(job.at, c.mmu), GroupAll(c.snap))
    BY <1>3 DEF OneGroup
  <2>2. job.kind = "group" /\ job.at \in Groups /\ job.at.port \in Intfs
    BY <2>1, CallFacts DEF Call, NodesOf
  <2>3. GroupAt(job.at, c.mmu) \in NpuPorts \cup {None, "npu"}
    BY <1>1, <2>2 DEF GroupAt
  <2>4. Undisturbed(job.at) =>
           GroupMmus(job.at) = Mmus /\ GroupAt(job.at, c.mmu) = intf[job.at.port]
    BY <2>2, CallFacts, BoundHere DEF GroupAt
  <2>5. Passed(c, GroupMmus(job.at), GroupAt(job.at, c.mmu), GroupAll(c.snap))
    BY <1>1, <2>2, <2>3, <2>4 DEF Passed
  <2>. QED BY <2>1, <2>5, CallHolds
<1>4. CASE OnePool(op)
  <2>1. PICK c \in job.calls :
           Call(op, "pool", c, PoolMmus(job.at), PoolAt(job.at, c.mmu), PoolAll(c.snap))
    BY <1>4 DEF OnePool
  <2>2. job.kind = "pool"
    BY <2>1 DEF Call
  <2>3. Passed(c, PoolMmus(job.at), PoolAt(job.at, c.mmu), PoolAll(c.snap))
    BY <1>1, <2>2 DEF Passed, PoolMmus, PoolAt
  <2>. QED BY <2>1, <2>3, CallHolds
<1>. QED BY <1>2, <1>3, <1>4

----------------------------------------------------------------------------

LEMMA StutterHolds == ASSUME Inv, UNCHANGED vars PROVE Inv'
<1>1. UNCHANGED <<supported, intf, changes, events, bound, last, job>>
  BY DEF vars
<1>2. /\ \A m : (Virtual(m)' <=> Virtual(m)) /\ (Undisturbed(m)' <=> Undisturbed(m))
      /\ Ahead' = Ahead
  BY <1>1 DEF Virtual, Undisturbed, Ahead
<1>3. TypeOK' /\ EventsTell' /\ Calm' /\ KindFits'
  BY <1>1, <1>2 DEF Inv, TypeOK, EventsTell, Calm, KindFits
<1>4. AskedAhead' /\ AskedFits'
  BY <1>1, <1>2 DEF Inv, AskedAhead, AskedFits, Covers, Possible, Wanted, Undisturbed
<1>5. CallsFit' /\ AskedKept' /\ Reported' /\ NothingElse'
  BY <1>1, <1>2 DEF Inv, CallsFit, AskedKept, Reported, NothingElse, Covers, Due, Did, Undisturbed
<1>6. SyncOnce' /\ SyncBefore' /\ SyncsApart' /\ SnapshotsOfOneSync'
  BY <1>1 DEF Inv, SyncOnce, IsSynced, SyncBefore, SyncsApart, SnapshotsOfOneSync
<1>. QED BY <1>3, <1>4, <1>5, <1>6 DEF Inv

LEMMA NextHolds == ASSUME Inv, [Next]_vars PROVE Inv'
<1>1. CASE QueueStatRead \/ QueueStatClear \/ GroupStatRead \/ GroupStatClear
              \/ PoolStatRead \/ PoolStatClear
  BY <1>1, RequestHolds
<1>2. CASE \E n \in job.todo :
          \/ Visit(n, "read", "queue", QueueReads(n)) \/ Visit(n, "clear", "queue", QueueClears(n))
          \/ Visit(n, "read", "group", GroupReads(n)) \/ Visit(n, "clear", "group", GroupClears(n))
          \/ Visit(n, "read", "pool", PoolReads(n)) \/ Visit(n, "clear", "pool", PoolClears(n))
  <2>1. \E n \in job.todo : Visits(n)
    BY <1>2 DEF Visits
  <2>. QED BY <2>1, VisitsHold
<1>3. CASE OneQueueRead \/ OneQueueClear \/ OneGroupRead \/ OneGroupClear
              \/ OnePoolRead \/ OnePoolClear
  BY <1>3, OneHolds
     DEF OneQueueRead, OneQueueClear, OneGroupRead, OneGroupClear, OnePoolRead, OnePoolClear
<1>4. CASE Reply
  BY <1>4, ReplyHolds
<1>5. CASE \E i \in Intfs : Associate(i) \/ \E p \in NpuPorts \cup {None} : Change(i, p)
  BY <1>5, AssociateHolds, ChangeHolds
<1>6. CASE UNCHANGED vars
  BY <1>6, StutterHolds
<1>. QED BY <1>1, <1>2, <1>3, <1>4, <1>5, <1>6 DEF Next

\* The inductive invariant of the statistics: what is left to call is what is asked for and
\* not done or refused, a SYNC stands before the snapshots it is for and is made once for
\* each type (the loops of nas_qos_cps_api_*_stat_read and _clear and the is_*_sync_done).
THEOREM StatisticsInvariance == Spec => []Inv
BY InitHolds, NextHolds, PTL DEF Spec

\* The request and what is bound stay of their types (the counts of MMUs, the ids of
\* nas_qos_queue, nas_qos_priority_group and nas_qos_buffer_pool).
THEOREM StatTypes == Spec => []TypeOK
<1>1. Inv => TypeOK
  BY DEF Inv
<1>. QED BY <1>1, StatisticsInvariance, PTL

\* The snapshots that a GET returns of a type are of one SYNC, made for this GET before
\* the first of them is read, however many nodes, MMUs and types the key matches.
THEOREM SnapshotsAgree == Spec => []SnapshotsOfOneSync
<1>1. Inv => SnapshotsOfOneSync
  BY DEF Inv
<1>. QED BY <1>1, StatisticsInvariance, PTL

\* A GET reads and a SET clears only what the key covers, with the counters it names, and
\* at the NPU port the interface is mapped to, unless the interface changes meanwhile.
THEOREM OnlyWhatIsAsked == Spec => []NothingElse
<1>1. Inv => NothingElse
  BY DEF Inv
<1>. QED BY <1>1, StatisticsInvariance, PTL

\* A request that is finished has done all it was asked for, or NDI refused it, which a
\* request with an exact key reports, whatever of it is skipped on the way.
THEOREM AllThatIsAsked == Spec => []NothingMissed
<1>1. ASSUME Inv PROVE NothingMissed
  <2>. SUFFICES ASSUME job # NoJob, job.todo = {}, job.calls = {}, NEW a \in job.asked
                PROVE  \/ \E o \in job.done : o.node = a.node /\ o.mmu = a.mmu /\ o.snap = a.snap
                       \/ <<a.node, a.mmu>> \in job.refused /\ (job.exact => job.failed)
                       \/ a.node.port \in job.disturbed
    BY DEF NothingMissed, Finished
  <2>1. Undisturbed(a.node) => Did(a) \/ <<a.node, a.mmu>> \in job.refused
    BY <1>1 DEF Inv, AskedKept, Due
  <2>2. job.refused # {} => (job.exact => job.failed)
    BY <1>1 DEF Inv, Reported
  <2>. QED BY <2>1, <2>2 DEF Undisturbed, Did
<1>. QED BY <1>1, StatisticsInvariance, PTL
=============================================================================
