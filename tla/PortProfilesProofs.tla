------------------------- MODULE PortProfilesProofs -------------------------
(***************************************************************************)
(* Proofs about PortProfiles: for every number of priority groups, NPU      *)
(* ports and clients, and any number of requests and events, the state      *)
(* keeps its type, the cache follows the database, the ingress profile      *)
(* lists no group that is gone, when all events are handled the nodes are   *)
(* bound to the port of the interface and show what it has, and a rollback  *)
(* restores the groups.                                                     *)
(***************************************************************************)
EXTENDS PortProfiles, SequenceTheorems, TLAPS

USE Sizes, Flag, Nulls
USE DEF Previous

Records == {<<>>} \cup {<<v>> : v \in Vals \cup {Default}}

ConfigTypes ==
    /\ val \in [Nodes -> Vals \cup {Default}]
    /\ db \in [Nodes -> Records]

\* What the database has is cached, or will be by the end of the step at hand.
Recorded ==
    /\ \A x \in Nodes \ stale : db[x] # <<>> => db[x] = <<val[x]>> \/ x \in assoc.replay
    /\ \A x \in assoc.replay : x \in Nodes /\ db[x] # <<>>

SavedTypes == tx \in [Clients -> [phase : {"idle", "open", "undo"}, changed : Seq(Saved),
                                  prev : Seq(Saved)]]

\* Every saved object belongs to a request.
PrevWithin == \A c \in Clients : Len(tx[c].prev) <= Len(tx[c].changed)

DbInv == ConfigTypes /\ Recorded /\ SavedTypes /\ PrevWithin

----------------------------------------------------------------------------
(* The SET handlers                                                         *)

\* A node that is set, pushed or not, has what is recorded for it.
LEMMA WriteRecords ==
    ASSUME NEW x \in Nodes, NEW v \in Vals \cup {Default},
           ConfigTypes, Push(x, v) \/ CacheOnly(x, v)
    PROVE  /\ ConfigTypes'
           /\ val' = [val EXCEPT ![x] = v] /\ db' = [db EXCEPT ![x] = <<v>>]
           /\ stale' = stale \ {x}
BY DEF ConfigTypes, Records, Push, CacheOnly

\* It keeps the others as they are.
LEMMA WriteKeepsRecorded ==
    ASSUME NEW x \in Nodes, NEW v \in Vals \cup {Default},
           ConfigTypes, Recorded, Push(x, v) \/ CacheOnly(x, v),
           assoc.replay \ {x} \subseteq (assoc.replay)',
           (assoc.replay)' \subseteq assoc.replay
    PROVE  ConfigTypes' /\ Recorded'
<1>1. /\ ConfigTypes'
      /\ val' = [val EXCEPT ![x] = v] /\ db' = [db EXCEPT ![x] = <<v>>]
      /\ stale' = stale \ {x}
  BY WriteRecords
<1>0. \A y \in (assoc.replay)' : y \in Nodes /\ db'[y] # <<>>
  BY <1>1 DEF ConfigTypes, Recorded
<1>2. SUFFICES ASSUME NEW y \in Nodes \ stale', db'[y] # <<>>
               PROVE  db'[y] = <<val'[y]>> \/ y \in (assoc.replay)'
  BY <1>0, <1>1 DEF Recorded
<1>3. CASE y = x
  BY <1>1, <1>3 DEF ConfigTypes
<1>4. CASE y # x
  BY <1>1, <1>2, <1>4 DEF ConfigTypes, Recorded
<1> QED
  BY <1>3, <1>4

----------------------------------------------------------------------------
(* The association                                                          *)

\* A step that changes the nodes S and then replays their records.
LEMMA StepKeepsRecorded ==
    ASSUME NEW S \in SUBSET Nodes, ConfigTypes, Recorded, assoc.replay = {},
           ConfigTypes', UNCHANGED db, stale \ S \subseteq stale',
           \A x \in Nodes \ S : val'[x] = val[x],
           (assoc.replay)' = {x \in S : db[x] # <<>>}
    PROVE  Recorded'
BY DEF Recorded, ConfigTypes

LEMMA FetchTypes ==
    ASSUME NEW S \in SUBSET Nodes, ConfigTypes, Fetch(S)
    PROVE  /\ ConfigTypes' /\ UNCHANGED db /\ stale \ S \subseteq stale'
           /\ \A x \in Nodes \ S : val'[x] = val[x]
<1>1. PICK r \in [S -> Vals \cup {Default}] :
        /\ val' = [x \in Nodes |-> IF x \in S THEN r[x] ELSE val[x]]
        /\ stale' = (stale \ S) \cup {x \in S : r[x] # npu[assoc.at][x]}
        /\ UNCHANGED db
  BY DEF Fetch
<1>2. val' \in [Nodes -> Vals \cup {Default}]
  BY <1>1 DEF ConfigTypes
<1> QED
  BY <1>1, <1>2 DEF ConfigTypes

LEMMA InitVpTypes ==
    ASSUME NEW S \in SUBSET Nodes, ConfigTypes, InitVp(S)
    PROVE  /\ ConfigTypes' /\ UNCHANGED db /\ stale \ S \subseteq stale'
           /\ \A x \in Nodes \ S : val'[x] = val[x]
BY DEF ConfigTypes, InitVp

\* What the association does to the nodes S.
LEMMA RebindKeepsRecorded ==
    ASSUME NEW S \in SUBSET Nodes, ConfigTypes, Recorded, assoc.replay = {},
           Fetch(S) \/ InitVp(S), StepThenReplay(S)
    PROVE  ConfigTypes' /\ Recorded'
<1>1. /\ ConfigTypes' /\ UNCHANGED db /\ stale \ S \subseteq stale'
      /\ \A x \in Nodes \ S : val'[x] = val[x]
  BY FetchTypes, InitVpTypes
<1>2. (assoc.replay)' = {x \in S : db[x] # <<>>}
  BY DEF StepThenReplay
<1> QED
  BY <1>1, <1>2, StepKeepsRecorded

\* A step that leaves attributes and database alone.
LEMMA QuietKeepsRecorded ==
    ASSUME ConfigTypes, Recorded, UNCHANGED config,
           (assoc.replay)' = assoc.replay
    PROVE  ConfigTypes' /\ Recorded'
BY DEF ConfigTypes, Recorded, config

----------------------------------------------------------------------------
(* The actions                                                              *)

LEMMA SetKeeps ==
    ASSUME NEW c \in Clients, NEW x \in Nodes, NEW v \in Vals \cup {Default},
           DbInv, Set(c, x, v)
    PROVE  DbInv'
<1>1. (Push(x, v) \/ CacheOnly(x, v)) /\ assoc' = assoc
  BY DEF Set
<1>2. ConfigTypes' /\ Recorded'
  BY <1>1, WriteKeepsRecorded DEF DbInv
<1>3. [node |-> x, val |-> v] \in Saved /\ [node |-> x, val |-> val[x]] \in Saved
  BY DEF DbInv, ConfigTypes, Saved
<1>4. tx[c].changed \in Seq(Saved) /\ tx[c].prev \in Seq(Saved)
  BY DEF DbInv, SavedTypes
<1>5. /\ Append(tx[c].changed, [node |-> x, val |-> v]) \in Seq(Saved)
      /\ Append(tx[c].prev, [node |-> x, val |-> val[x]]) \in Seq(Saved)
  BY <1>3, <1>4
<1>6. SavedTypes' /\ PrevWithin'
  <2>1. \E p \in {tx[c].prev, Append(tx[c].prev, [node |-> x, val |-> val[x]])} :
          tx' = [tx EXCEPT ![c] =
                   [phase |-> "open",
                    changed |-> Append(tx[c].changed, [node |-> x, val |-> v]), prev |-> p]]
    BY DEF Set
  <2>2. PICK p \in {tx[c].prev, Append(tx[c].prev, [node |-> x, val |-> val[x]])} :
          tx' = [tx EXCEPT ![c] =
                   [phase |-> "open",
                    changed |-> Append(tx[c].changed, [node |-> x, val |-> v]), prev |-> p]]
    BY <2>1
  <2>3. /\ p \in Seq(Saved)
        /\ Len(p) <= Len(Append(tx[c].changed, [node |-> x, val |-> v]))
    <3>1. Len(tx[c].prev) <= Len(tx[c].changed)
      BY DEF DbInv, PrevWithin
    <3>2. /\ Len(tx[c].changed) \in Nat /\ Len(tx[c].prev) \in Nat
          /\ Len(Append(tx[c].changed, [node |-> x, val |-> v])) = Len(tx[c].changed) + 1
          /\ Len(Append(tx[c].prev, [node |-> x, val |-> val[x]])) = Len(tx[c].prev) + 1
      BY <1>3, <1>4
    <3>3. CASE p = tx[c].prev
      BY <1>4, <3>1, <3>2, <3>3
    <3>4. CASE p = Append(tx[c].prev, [node |-> x, val |-> val[x]])
      BY <1>5, <3>1, <3>2, <3>4
    <3> QED
      BY <2>2, <3>3, <3>4
  <2> QED
    BY <1>5, <2>2, <2>3 DEF DbInv, SavedTypes, PrevWithin
<1> QED
  BY <1>2, <1>6 DEF DbInv

LEMMA SetFailsKeeps ==
    ASSUME NEW c \in Clients, DbInv, SetFails(c)
    PROVE  DbInv'
<1>1. ConfigTypes' /\ Recorded'
  BY QuietKeepsRecorded DEF DbInv, SetFails
<1>2. SavedTypes' /\ PrevWithin'
  BY DEF DbInv, SavedTypes, PrevWithin, SetFails
<1> QED
  BY <1>1, <1>2 DEF DbInv

\* What a rollback sets is a saved object or one of the requests.
LEMMA UndoKeeps ==
    ASSUME NEW c \in Clients, DbInv, Undo(c)
    PROVE  DbInv'
<1>1. tx[c].changed \in Seq(Saved) /\ tx[c].prev \in Seq(Saved) /\ tx[c].prev # <<>>
  BY DEF DbInv, SavedTypes, Undo
<1>2. ConfigTypes' /\ Recorded'
  <2>1. CASE UNCHANGED config
    BY <2>1, QuietKeepsRecorded DEF DbInv, Undo
  <2>2. CASE \E s \in Undone(tx[c]) : Push(s.node, s.val) \/ CacheOnly(s.node, s.val)
    <3>1. PICK s \in Undone(tx[c]) : Push(s.node, s.val) \/ CacheOnly(s.node, s.val)
      BY <2>2
    <3>2. /\ Len(tx[c].prev) \in 1..Len(tx[c].prev)
          /\ Len(tx[c].prev) \in 1..Len(tx[c].changed)
      BY <1>1 DEF DbInv, PrevWithin
    <3>3. s \in Saved
      BY <1>1, <3>1, <3>2 DEF Undone
    <3> QED
      BY <3>1, <3>3, WriteKeepsRecorded DEF Saved, DbInv, Undo
  <2> QED
    BY <2>1, <2>2 DEF Undo
<1>3. SavedTypes' /\ PrevWithin'
  <2>1. /\ SubSeq(tx[c].prev, 1, Len(tx[c].prev) - 1) \in Seq(Saved)
        /\ Len(SubSeq(tx[c].prev, 1, Len(tx[c].prev) - 1)) = Len(tx[c].prev) - 1
    BY <1>1
  <2> QED
    BY <1>1, <2>1 DEF DbInv, SavedTypes, PrevWithin, Undo
<1> QED
  BY <1>2, <1>3 DEF DbInv

LEMMA EndKeeps ==
    ASSUME NEW c \in Clients, DbInv, End(c)
    PROVE  DbInv'
<1>1. ConfigTypes' /\ Recorded'
  BY QuietKeepsRecorded DEF DbInv, End
<1>2. SavedTypes' /\ PrevWithin'
  BY DEF DbInv, SavedTypes, PrevWithin, End, NoTx
<1> QED
  BY <1>1, <1>2 DEF DbInv

\* Actions that leave the transactions alone.
LEMMA SameTx ==
    ASSUME UNCHANGED tx, DbInv, ConfigTypes', Recorded'
    PROVE  DbInv'
BY DEF DbInv, SavedTypes, PrevWithin

LEMMA ChangeKeeps ==
    ASSUME NEW n \in NpuPorts \cup {None}, DbInv, Change(n)
    PROVE  DbInv'
BY QuietKeepsRecorded, SameTx DEF DbInv, Change

LEMMA HandleEventKeeps ==
    ASSUME DbInv, HandleEvent
    PROVE  DbInv'
BY QuietKeepsRecorded, SameTx DEF DbInv, HandleEvent, Free

LEMMA StepsKeep ==
    ASSUME DbInv, IngressStep \/ EgressStep \/ QueueStep \/ PgStep
    PROVE  DbInv'
<1>1. assoc.replay = {} /\ UNCHANGED tx
  BY DEF IngressStep, EgressStep, QueueStep, PgStep, AtStep, StepThenReplay
<1>2. CASE IngressStep
  <2>1. {Ingress} \in SUBSET Nodes
    BY DEF Nodes
  <2> QED
    BY <1>1, <1>2, <2>1, RebindKeepsRecorded, SameTx DEF DbInv, IngressStep
<1>3. CASE EgressStep
  <2>1. {Egress} \in SUBSET Nodes
    BY DEF Nodes
  <2> QED
    BY <1>1, <1>3, <2>1, RebindKeepsRecorded, SameTx DEF DbInv, EgressStep
<1>4. CASE QueueStep
  <2>1. (assoc.replay)' = assoc.replay
    BY <1>1, <1>4 DEF QueueStep, StepThenReplay
  <2> QED
    BY <1>1, <1>4, <2>1, QuietKeepsRecorded, SameTx DEF DbInv, QueueStep
<1>5. CASE PgStep
  <2>1. PGs \in SUBSET Nodes
    BY DEF Nodes
  <2>2. CASE (Fetch(PGs) \/ InitVp(PGs)) /\ StepThenReplay(PGs)
    BY <1>1, <2>1, <2>2, RebindKeepsRecorded, SameTx DEF DbInv
  <2>3. CASE UNCHANGED config /\ StepThenReplay({})
    <3>1. (assoc.replay)' = assoc.replay
      BY <1>1, <2>3 DEF StepThenReplay
    <3> QED
      BY <1>1, <2>3, <3>1, QuietKeepsRecorded, SameTx DEF DbInv
  <2> QED
    BY <1>5, <2>2, <2>3 DEF PgStep
<1> QED
  BY <1>2, <1>3, <1>4, <1>5

LEMMA ReplayKeeps ==
    ASSUME NEW x \in Nodes, DbInv, Replay(x)
    PROVE  DbInv'
<1>1. /\ (assoc.replay)' = assoc.replay \ {x} /\ UNCHANGED tx
  BY DEF Replay
<1>2. CASE Push(x, db[x][1]) \/ CacheOnly(x, db[x][1])
  <2>1. db[x] # <<>>
    BY DEF DbInv, Recorded, Replay
  <2>2. db[x][1] \in Vals \cup {Default}
    BY <2>1 DEF DbInv, ConfigTypes, Records
  <2> QED
    BY <1>1, <1>2, <2>2, WriteKeepsRecorded, SameTx DEF DbInv
<1>3. CASE UNCHANGED <<val, db, npu>> /\ stale' = stale \cup {x}
  BY <1>1, <1>3, SameTx DEF DbInv, ConfigTypes, Recorded
<1> QED
  BY <1>2, <1>3 DEF Replay

----------------------------------------------------------------------------
(* The theorems                                                             *)

\* Types, and that what the database records is cached or about to be, in every reachable
\* state.
THEOREM DatabaseInvariance == Spec => []DbInv
<1>1. Init => DbInv
  <2> SUFFICES ASSUME Init PROVE DbInv
    OBVIOUS
  <2>1. ConfigTypes /\ Recorded
    BY DEF Init, ConfigTypes, Recorded, Records
  <2>2. SavedTypes /\ PrevWithin
    BY DEF Init, SavedTypes, PrevWithin, NoTx
  <2> QED
    BY <2>1, <2>2 DEF DbInv
<1>2. DbInv /\ [Next]_vars => DbInv'
  <2> SUFFICES ASSUME DbInv, [Next]_vars PROVE DbInv'
    OBVIOUS
  <2>1. CASE UNCHANGED vars
    BY <2>1 DEF vars, config, DbInv, ConfigTypes, Recorded, SavedTypes, PrevWithin
  <2>2. CASE Next
    BY <2>2, SetKeeps, SetFailsKeeps, UndoKeeps, EndKeeps, ChangeKeeps, HandleEventKeeps,
       StepsKeep, ReplayKeeps DEF Next
  <2> QED
    BY <2>1, <2>2
<1> QED
  BY <1>1, <1>2, PTL DEF Spec

\* The cache follows the database for every number of groups, clients and NPU ports,
\* through requests, rollbacks and associations in any order
\* (nas_qos_cps_api_port_ing_set, nas_qos_port_ingress_association and their kin).
THEOREM CacheHasRecords == Spec => []CacheFollowsDb
<1>1. DbInv => CacheFollowsDb
  BY DEF DbInv, Recorded, CacheFollowsDb, Free
<1> QED
  BY <1>1, DatabaseInvariance, PTL

----------------------------------------------------------------------------
(* The list of the ingress profile                                          *)

\* What is left of the steps of an association and of a removal.
AddSteps == {Steps(assoc.at), <<"egress", "queue", "pg">>, <<"queue", "pg">>, <<"pg">>, <<>>}
BeforeGroups == {Steps(None), <<"egress">>, <<>>}
AfterGroups == {<<"queue", "ingress", "egress">>, <<"ingress", "egress">>}

StepOrder ==
    IF assoc.at # None THEN assoc.todo \in AddSteps
    ELSE assoc.todo \in BeforeGroups \cup AfterGroups

Listed == /\ pgList \subseteq PgIds \cup {NullId}
          /\ bound[Ingress] = None => pgList = PgIds

\* Only between the new groups of a removal and the new ingress profile may the list be old.
ListInv ==
    /\ StepOrder
    /\ Listed \/ (assoc.at = None /\ assoc.todo \in AfterGroups)

LEMMA IngressIsNoGroup == Ingress \in Nodes /\ Ingress \notin PGs /\ Ingress # Egress
BY DEF Ingress, Egress, PGs, Nodes

\* The steps in their order.
LEMMA NextStep ==
    ASSUME StepOrder, assoc.todo # <<>>
    PROVE  IF assoc.at # None
           THEN /\ Tail(assoc.todo) \in AddSteps
                /\ Head(assoc.todo) \in {"ingress", "egress", "queue", "pg"}
           ELSE \/ Head(assoc.todo) = "pg" /\ Tail(assoc.todo) \in AfterGroups
                                         /\ assoc.todo \notin AfterGroups
                \/ Head(assoc.todo) = "queue" /\ Tail(assoc.todo) \in AfterGroups
                \/ Head(assoc.todo) = "ingress" /\ Tail(assoc.todo) = <<"egress">>
                \/ Head(assoc.todo) = "egress" /\ Tail(assoc.todo) = <<>>
<1>1. /\ Tail(<<"ingress", "egress", "queue", "pg">>) = <<"egress", "queue", "pg">>
      /\ Tail(<<"egress", "queue", "pg">>) = <<"queue", "pg">>
      /\ Tail(<<"queue", "pg">>) = <<"pg">>
      /\ Tail(<<"pg">>) = <<>>
  OBVIOUS
<1>2. /\ Tail(<<"pg", "queue", "ingress", "egress">>) = <<"queue", "ingress", "egress">>
      /\ Tail(<<"queue", "ingress", "egress">>) = <<"ingress", "egress">>
      /\ Tail(<<"ingress", "egress">>) = <<"egress">>
      /\ Tail(<<"egress">>) = <<>>
  OBVIOUS
<1>3. CASE assoc.at # None
  <2>1. assoc.todo \in {<<"ingress", "egress", "queue", "pg">>, <<"egress", "queue", "pg">>,
                       <<"queue", "pg">>, <<"pg">>}
    BY <1>3 DEF StepOrder, AddSteps, Steps
  <2>2. CASE assoc.todo = <<"ingress", "egress", "queue", "pg">>
    BY <1>1, <1>3, <2>2 DEF AddSteps
  <2>3. CASE assoc.todo = <<"egress", "queue", "pg">>
    BY <1>1, <1>3, <2>3 DEF AddSteps
  <2>4. CASE assoc.todo = <<"queue", "pg">>
    BY <1>1, <1>3, <2>4 DEF AddSteps
  <2>5. CASE assoc.todo = <<"pg">>
    BY <1>1, <1>3, <2>5 DEF AddSteps
  <2> QED
    BY <2>1, <2>2, <2>3, <2>4, <2>5
<1>4. CASE assoc.at = None
  <2>1. assoc.todo \in {<<"pg", "queue", "ingress", "egress">>, <<"queue", "ingress", "egress">>,
                       <<"ingress", "egress">>, <<"egress">>}
    BY <1>4 DEF StepOrder, BeforeGroups, AfterGroups, Steps
  <2>2. CASE assoc.todo = <<"pg", "queue", "ingress", "egress">>
    BY <1>2, <1>4, <2>2 DEF AfterGroups
  <2>3. CASE assoc.todo = <<"queue", "ingress", "egress">>
    BY <1>2, <1>4, <2>3 DEF AfterGroups
  <2>4. CASE assoc.todo = <<"ingress", "egress">>
    BY <1>2, <1>4, <2>4 DEF AfterGroups
  <2>5. CASE assoc.todo = <<"egress">>
    BY <1>2, <1>4, <2>5 DEF AfterGroups
  <2> QED
    BY <2>1, <2>2, <2>3, <2>4, <2>5
<1> QED
  BY <1>3, <1>4

\* Nothing that bears on the list changes.
LEMMA QuietKeepsList ==
    ASSUME ListInv, UNCHANGED <<bound, pgId, pgList>>,
           (assoc.at)' = assoc.at, (assoc.todo)' = assoc.todo
    PROVE  ListInv'
BY DEF ListInv, StepOrder, AddSteps, Listed, PgIds

LEMMA HandleEventKeepsList ==
    ASSUME ListInv, HandleEvent
    PROVE  ListInv'
<1>1. UNCHANGED <<bound, pgId, pgList>> /\ assoc.todo = <<>>
  BY DEF HandleEvent, Free, binding
<1>2. (assoc.todo)' = Steps((assoc.at)')
  BY DEF HandleEvent
<1>3. Listed
  BY <1>1 DEF ListInv, AfterGroups
<1> QED
  BY <1>1, <1>2, <1>3 DEF ListInv, StepOrder, AddSteps, BeforeGroups, Listed, PgIds

\* The steps go on in their order.
LEMMA StepsKeepOrder ==
    ASSUME NEW S \in SUBSET Nodes, NEW step, StepOrder, AtStep(step), StepThenReplay(S)
    PROVE  /\ StepOrder' /\ (assoc.at)' = assoc.at
           /\ (assoc.todo)' = Tail(assoc.todo)
<1>1. (assoc.at)' = assoc.at /\ (assoc.todo)' = Tail(assoc.todo)
  BY DEF StepThenReplay
<1>2. CASE assoc.at # None
  BY <1>1, <1>2, NextStep DEF AtStep, StepOrder, AddSteps
<1>3. CASE assoc.at = None
  BY <1>1, <1>3, NextStep DEF AtStep, StepOrder, BeforeGroups
<1> QED
  BY <1>1, <1>2, <1>3

\* A step binds the nodes of its type and no other.
LEMMA Bindings ==
    ASSUME NEW S \in SUBSET Nodes, Fetch(S) \/ (InitVp(S) /\ assoc.at = None)
    PROVE  bound'[Ingress] = IF Ingress \in S THEN assoc.at ELSE bound[Ingress]
BY IngressIsNoGroup DEF Fetch, InitVp

\* Before and after the steps of a removal that leave the list old.
LEMMA OldOnly ==
    ASSUME ListInv, assoc.todo # <<>>, ~Listed
    PROVE  /\ assoc.at = None
           /\ \/ Head(assoc.todo) = "queue" /\ Tail(assoc.todo) \in AfterGroups
              \/ Head(assoc.todo) = "ingress"
<1>1. assoc.at = None /\ assoc.todo \in AfterGroups
  BY DEF ListInv
<1>2. CASE assoc.todo = <<"queue", "ingress", "egress">>
  <2>1. Tail(<<"queue", "ingress", "egress">>) = <<"ingress", "egress">>
    OBVIOUS
  <2> QED
    BY <1>1, <1>2, <2>1 DEF AfterGroups
<1>3. CASE assoc.todo = <<"ingress", "egress">>
  BY <1>1, <1>3
<1> QED
  BY <1>1, <1>2, <1>3 DEF AfterGroups

LEMMA IngressStepKeepsList ==
    ASSUME ListInv, IngressStep
    PROVE  ListInv'
<1>1. StepOrder'
  BY IngressIsNoGroup, StepsKeepOrder DEF ListInv, IngressStep
<1>2. PgIds' = PgIds
  BY DEF IngressStep, PgIds
<1>3. Listed'
  <2>1. CASE assoc.at # None
    <3>1. bound'[Ingress] # None
      BY <2>1, IngressIsNoGroup, Bindings DEF IngressStep
    <3>2. pgList' \subseteq PgIds \cup {NullId}
      BY <2>1 DEF IngressStep, PgIdsRead, PgIds
    <3> QED
      BY <1>2, <3>1, <3>2 DEF Listed
  <2>2. CASE assoc.at = None
    BY <1>2, <2>2 DEF Listed, IngressStep
  <2> QED
    BY <2>1, <2>2
<1> QED
  BY <1>1, <1>3 DEF ListInv

\* The other steps leave the list alone; one that keeps the ids as well keeps the agreement.
LEMMA SameIdsKeepList ==
    ASSUME ListInv, NEW S \in SUBSET Nodes, NEW step, step \notin {"ingress"},
           AtStep(step), StepThenReplay(S),
           UNCHANGED <<pgId, pgList>>, bound'[Ingress] = bound[Ingress],
           assoc.at = None => step # "pg"
    PROVE  ListInv'
<1>1. StepOrder' /\ (assoc.at)' = assoc.at /\ (assoc.todo)' = Tail(assoc.todo)
  BY StepsKeepOrder DEF ListInv
<1>2. Listed => Listed'
  BY DEF Listed, PgIds
<1>3. CASE Listed
  BY <1>1, <1>2, <1>3 DEF ListInv
<1>4. CASE ~Listed
  <2>1. assoc.at = None /\ Tail(assoc.todo) \in AfterGroups
    BY <1>4, OldOnly DEF AtStep
  <2> QED
    BY <1>1, <2>1 DEF ListInv, AfterGroups
<1> QED
  BY <1>3, <1>4

LEMMA EgressStepKeepsList ==
    ASSUME ListInv, EgressStep
    PROVE  ListInv'
<1>1. {Egress} \in SUBSET Nodes
  BY DEF Nodes
<1>2. bound'[Ingress] = bound[Ingress]
  BY <1>1, IngressIsNoGroup, Bindings DEF EgressStep
<1> QED
  BY <1>1, <1>2, SameIdsKeepList DEF EgressStep

LEMMA QueueStepKeepsList ==
    ASSUME ListInv, QueueStep
    PROVE  ListInv'
BY SameIdsKeepList DEF QueueStep

\* New groups: from here to the ingress step the list may be old.
LEMMA PgStepKeepsList ==
    ASSUME ListInv, PgStep
    PROVE  ListInv'
<1>1. PGs \in SUBSET Nodes
  BY DEF Nodes
<1>2. CASE assoc.at # None
  <2>1. PICK S \in SUBSET Nodes : StepThenReplay(S)
    BY <1>1 DEF PgStep
  <2>2. bound'[Ingress] = bound[Ingress] /\ UNCHANGED <<pgId, pgList>>
    BY <1>1, <1>2, IngressIsNoGroup, Bindings DEF PgStep
  <2> QED
    BY <1>2, <2>1, <2>2, SameIdsKeepList DEF PgStep
<1>3. CASE assoc.at = None
  <2>1. AtStep("pg") /\ StepThenReplay(PGs)
    BY <1>3 DEF PgStep
  <2>2. StepOrder' /\ (assoc.at)' = assoc.at /\ (assoc.todo)' = Tail(assoc.todo)
    BY <1>1, <2>1, StepsKeepOrder DEF ListInv
  <2>3. Tail(assoc.todo) \in AfterGroups
    BY <1>3, <2>1, NextStep DEF AtStep, ListInv
  <2> QED
    BY <1>3, <2>2, <2>3 DEF ListInv, AfterGroups
<1> QED
  BY <1>2, <1>3

\* Steps and lists, in every reachable state.
THEOREM ListInvariance == Spec => []ListInv
<1>1. Init => ListInv
  BY DEF Init, ListInv, StepOrder, BeforeGroups, Listed, PgIds
<1>2. ListInv /\ [Next]_vars => ListInv'
  <2> SUFFICES ASSUME ListInv, [Next]_vars PROVE ListInv'
    OBVIOUS
  <2>1. CASE UNCHANGED vars
    BY <2>1, QuietKeepsList DEF vars, binding
  <2>2. ASSUME NEW c \in Clients, NEW x \in Nodes, NEW v \in Vals \cup {Default}, Set(c, x, v)
        PROVE  ListInv'
    BY <2>2, QuietKeepsList DEF Set, binding
  <2>3. ASSUME NEW c \in Clients, SetFails(c) \/ Undo(c) \/ End(c)
        PROVE  ListInv'
    BY <2>3, QuietKeepsList DEF SetFails, Undo, End, binding
  <2>4. ASSUME NEW n \in NpuPorts \cup {None}, Change(n)
        PROVE  ListInv'
    BY <2>4, QuietKeepsList DEF Change, binding
  <2>5. ASSUME NEW x \in Nodes, Replay(x)
        PROVE  ListInv'
    BY <2>5, QuietKeepsList DEF Replay, binding
  <2> QED
    BY <2>1, <2>2, <2>3, <2>4, <2>5, HandleEventKeepsList, IngressStepKeepsList,
       EgressStepKeepsList, QueueStepKeepsList, PgStepKeepsList DEF Next
<1> QED
  BY <1>1, <1>2, PTL DEF Spec

\* The ingress profile lists no priority group that is gone, and all of a virtual port,
\* because a removal makes the groups before the profile
\* (nas_qos_if_set_notify, "The order is important here!").
THEOREM ListNamesGroups == Spec => []ListsLiveGroups
<1>1. ListInv => ListsLiveGroups
  BY DEF ListInv, ListsLiveGroups, Listed, Free, AfterGroups
<1> QED
  BY <1>1, ListInvariance, PTL

----------------------------------------------------------------------------
(* The nodes and the NPU. *)

\* The step of an association that is for a node, and whether it is to come.
Turn(x) == IF x = Ingress THEN "ingress" ELSE IF x = Egress THEN "egress" ELSE "pg"
In(s, e) == \E i \in 1..Len(s) : s[i] = e
ToCome(x) == In(assoc.todo, Turn(x))

\* The port that is handled and the events map and unmap the interface by turns; the
\* last of them is where the interface is.
Alternates ==
    /\ events # <<>> => events[Len(events)] = intf
    /\ events = <<>> /\ ~Free => assoc.at = intf
    /\ \A i \in 1..(Len(events) - 1) : ~(events[i] = None <=> events[i + 1] = None)
    /\ events # <<>> /\ ~Free => ~(assoc.at = None <=> events[1] = None)

\* During a removal the nodes whose step is over are unbound, before an addition all.
BoundDuring ==
    \A x \in Nodes :
       IF assoc.at = None THEN ToCome(x) \/ bound[x] = None
       ELSE IF ToCome(x) THEN bound[x] = None ELSE bound[x] \in {None, assoc.at}
BoundBetween ==
    \A x \in Nodes : /\ events = <<>> => bound[x] \in {None, intf}
                     /\ events # <<>> /\ events[1] # None => bound[x] = None
Places == Alternates /\ (IF Free THEN BoundBetween ELSE BoundDuring)

\* A node that will be unbound may be set without its port.
Doomed(x) == In(events, None) \/ (assoc.at = None /\ ToCome(x))
Shown(x) == bound[x] # None /\ ~Doomed(x) => x \in stale \/ npu[bound[x]][x] = val[x]

PortTypes ==
    /\ intf \in NpuPorts \cup {None}
    /\ events \in Seq(NpuPorts \cup {None})
    /\ bound \in [Nodes -> NpuPorts \cup {None}]
    /\ npu \in [NpuPorts -> [Nodes -> Vals \cup {Default}]]
    /\ assoc \in [at : NpuPorts \cup {None},
                  todo : Seq({"ingress", "egress", "queue", "pg"}), replay : SUBSET Nodes]
    /\ stale \subseteq Nodes

NpuInv == DbInv /\ StepOrder /\ PortTypes /\ Places /\ \A x \in Nodes : Shown(x)

----------------------------------------------------------------------------
(* The steps of an association                                              *)

LEMMA InSteps ==
    /\ \A e : In(<<"ingress", "egress", "queue", "pg">>, e)
                 <=> e \in {"ingress", "egress", "queue", "pg"}
    /\ \A e : In(<<"egress", "queue", "pg">>, e) <=> e \in {"egress", "queue", "pg"}
    /\ \A e : In(<<"queue", "pg">>, e) <=> e \in {"queue", "pg"}
    /\ \A e : In(<<"pg">>, e) <=> e \in {"pg"}
    /\ \A e : ~In(<<>>, e)
    /\ \A e : In(<<"pg", "queue", "ingress", "egress">>, e)
                 <=> e \in {"pg", "queue", "ingress", "egress"}
    /\ \A e : In(<<"queue", "ingress", "egress">>, e) <=> e \in {"queue", "ingress", "egress"}
    /\ \A e : In(<<"ingress", "egress">>, e) <=> e \in {"ingress", "egress"}
    /\ \A e : In(<<"egress">>, e) <=> e \in {"egress"}
<1>1. \A e : In(<<"ingress", "egress", "queue", "pg">>, e)
                 <=> e \in {"ingress", "egress", "queue", "pg"}
  BY DEF In
<1>2. \A e : In(<<"egress", "queue", "pg">>, e) <=> e \in {"egress", "queue", "pg"}
  BY DEF In
<1>3. \A e : In(<<"queue", "pg">>, e) <=> e \in {"queue", "pg"}
  BY DEF In
<1>4. \A e : (In(<<"pg">>, e) <=> e \in {"pg"}) /\ (In(<<"egress">>, e) <=> e \in {"egress"})
  BY DEF In
<1>5. \A e : ~In(<<>>, e)
  BY DEF In
<1>6. \A e : In(<<"pg", "queue", "ingress", "egress">>, e)
                 <=> e \in {"pg", "queue", "ingress", "egress"}
  BY DEF In
<1>7. \A e : In(<<"queue", "ingress", "egress">>, e) <=> e \in {"queue", "ingress", "egress"}
  BY DEF In
<1>8. \A e : In(<<"ingress", "egress">>, e) <=> e \in {"ingress", "egress"}
  BY DEF In
<1>. QED BY <1>1, <1>2, <1>3, <1>4, <1>5, <1>6, <1>7, <1>8

\* Each step comes once.
LEMMA Turns ==
    ASSUME StepOrder, assoc.todo # <<>>, NEW e
    PROVE  /\ In(Tail(assoc.todo), e) <=> In(assoc.todo, e) /\ e # Head(assoc.todo)
           /\ In(assoc.todo, Head(assoc.todo))
<1>1. /\ Tail(<<"ingress", "egress", "queue", "pg">>) = <<"egress", "queue", "pg">>
      /\ Tail(<<"egress", "queue", "pg">>) = <<"queue", "pg">>
      /\ Tail(<<"queue", "pg">>) = <<"pg">>
      /\ Tail(<<"pg">>) = <<>>
  OBVIOUS
<1>2. /\ Tail(<<"pg", "queue", "ingress", "egress">>) = <<"queue", "ingress", "egress">>
      /\ Tail(<<"queue", "ingress", "egress">>) = <<"ingress", "egress">>
      /\ Tail(<<"ingress", "egress">>) = <<"egress">>
      /\ Tail(<<"egress">>) = <<>>
  OBVIOUS
<1>3. CASE assoc.at # None
  <2>1. assoc.todo \in {<<"ingress", "egress", "queue", "pg">>, <<"egress", "queue", "pg">>,
                       <<"queue", "pg">>, <<"pg">>}
    BY <1>3 DEF StepOrder, AddSteps, Steps
  <2>2. CASE assoc.todo = <<"ingress", "egress", "queue", "pg">>
    BY <1>1, <2>2, InSteps
  <2>3. CASE assoc.todo = <<"egress", "queue", "pg">>
    BY <1>1, <2>3, InSteps
  <2>4. CASE assoc.todo = <<"queue", "pg">>
    BY <1>1, <2>4, InSteps
  <2>5. CASE assoc.todo = <<"pg">>
    BY <1>1, <2>5, InSteps
  <2>. QED BY <2>1, <2>2, <2>3, <2>4, <2>5
<1>4. CASE assoc.at = None
  <2>1. assoc.todo \in {<<"pg", "queue", "ingress", "egress">>, <<"queue", "ingress", "egress">>,
                       <<"ingress", "egress">>, <<"egress">>}
    BY <1>4 DEF StepOrder, BeforeGroups, AfterGroups, Steps
  <2>2. CASE assoc.todo = <<"pg", "queue", "ingress", "egress">>
    BY <1>2, <2>2, InSteps
  <2>3. CASE assoc.todo = <<"queue", "ingress", "egress">>
    BY <1>2, <2>3, InSteps
  <2>4. CASE assoc.todo = <<"ingress", "egress">>
    BY <1>2, <2>4, InSteps
  <2>5. CASE assoc.todo = <<"egress">>
    BY <1>2, <2>5, InSteps
  <2>. QED BY <2>1, <2>2, <2>3, <2>4, <2>5
<1>. QED BY <1>3, <1>4

\* An association that is over leaves the nodes where the events expect them.
LEMMA Ends ==
    ASSUME Alternates, ~Free, UNCHANGED port, (assoc.at)' = assoc.at, BoundDuring'
    PROVE  Places'
<1>1. Alternates'
  BY DEF Alternates, port
<1>2. CASE Free'
  <2>1. \A x \in Nodes : ~ToCome(x)'
    BY <1>2, InSteps DEF Free, ToCome
  <2>2. \A x \in Nodes : bound'[x] \in {None, assoc.at}
    BY <2>1 DEF BoundDuring
  <2>3. BoundBetween'
    BY <2>2 DEF Alternates, port, BoundBetween
  <2>. QED BY <1>1, <1>2, <2>3 DEF Places
<1>3. CASE ~Free'
  BY <1>1, <1>3 DEF Places
<1>. QED BY <1>2, <1>3

\* A step binds the nodes whose turn it is.
LEMMA StepKeepsPlaces ==
    ASSUME NpuInv, NEW step, NEW S \in SUBSET Nodes, AtStep(step), StepThenReplay(S),
           bound' \in [Nodes -> NpuPorts \cup {None}],
           \A x \in Nodes : IF Turn(x) = step THEN bound'[x] \in {None, assoc.at}
                            ELSE bound'[x] = bound[x]
    PROVE  /\ StepOrder' /\ Places' /\ UNCHANGED port /\ (assoc.at)' = assoc.at
           /\ assoc' \in [at : NpuPorts \cup {None},
                          todo : Seq({"ingress", "egress", "queue", "pg"}), replay : SUBSET Nodes]
           /\ \A x \in Nodes : ToCome(x)' <=> ToCome(x) /\ Turn(x) # step
<1>1. ~Free /\ assoc.todo # <<>> /\ Head(assoc.todo) = step
  BY DEF AtStep, Free
<1>2. StepOrder' /\ (assoc.at)' = assoc.at /\ (assoc.todo)' = Tail(assoc.todo)
  BY StepsKeepOrder DEF NpuInv
<1>3. UNCHANGED port
  BY DEF StepThenReplay
<1>4. \A x \in Nodes : ToCome(x)' <=> ToCome(x) /\ Turn(x) # step
  BY <1>1, <1>2, Turns DEF ToCome, NpuInv, Turn
<1>5. BoundDuring'
  BY <1>1, <1>2, <1>4 DEF NpuInv, Places, BoundDuring
<1>6. Places'
  BY <1>1, <1>2, <1>3, <1>5, Ends DEF NpuInv, Places
<1>7. Tail(assoc.todo) \in Seq({"ingress", "egress", "queue", "pg"})
  <2>1. assoc.todo \in Seq({"ingress", "egress", "queue", "pg"})
    BY DEF NpuInv, PortTypes
  <2>. QED BY <1>1, <2>1, HeadTailProperties, Zenon
<1>8. assoc' = [at |-> assoc.at, todo |-> Tail(assoc.todo),
                replay |-> {x \in S : db[x] # <<>>}]
  BY DEF StepThenReplay
<1>9. assoc' \in [at : NpuPorts \cup {None},
                  todo : Seq({"ingress", "egress", "queue", "pg"}), replay : SUBSET Nodes]
  BY <1>7, <1>8 DEF NpuInv, PortTypes
<1>. QED BY <1>2, <1>3, <1>4, <1>6, <1>9

\* Which nodes are to be unbound does not change for a node whose turn it is not.
LEMMA StepKeepsShown ==
    ASSUME NEW x \in Nodes, NEW step, Turn(x) # step, Shown(x), UNCHANGED port,
           (assoc.at)' = assoc.at, ToCome(x)' <=> ToCome(x) /\ Turn(x) # step,
           bound'[x] = bound[x], val'[x] = val[x], npu' = npu, x \in stale => x \in stale'
    PROVE  Shown(x)'
BY DEF Shown, Doomed, port

LEMMA NodeTurns ==
    /\ \A x \in Nodes : Turn(x) = "ingress" <=> x = Ingress
    /\ \A x \in Nodes : Turn(x) = "egress" <=> x = Egress
    /\ \A x \in Nodes : Turn(x) = "pg" <=> x \in PGs
    /\ \A x \in Nodes : Turn(x) # "queue"
    /\ Ingress \in Nodes /\ Egress \in Nodes /\ PGs \subseteq Nodes
BY DEF Turn, Nodes, Ingress, Egress, PGs

\* The nodes S, whose turn it is, take what the port has.
LEMMA FetchKeeps ==
    ASSUME NpuInv, DbInv', NEW step, NEW S \in SUBSET Nodes, NEW R \in SUBSET Nodes,
           AtStep(step), StepThenReplay(R),
           \A x \in Nodes : Turn(x) = step <=> x \in S, assoc.at # None, Fetch(S)
    PROVE  NpuInv'
<1>1. assoc.at \in NpuPorts
  BY DEF NpuInv, PortTypes
<1>2. PICK r \in [S -> Vals \cup {Default}] :
         /\ val' = [x \in Nodes |-> IF x \in S THEN r[x] ELSE val[x]]
         /\ bound' = [x \in Nodes |-> IF x \in S THEN assoc.at ELSE bound[x]]
         /\ stale' = (stale \ S) \cup {x \in S : r[x] # npu[assoc.at][x]}
         /\ npu' = npu
  BY DEF Fetch
<1>3. bound' \in [Nodes -> NpuPorts \cup {None}]
  BY <1>1, <1>2 DEF NpuInv, PortTypes
<1>4. \A x \in Nodes : IF Turn(x) = step THEN bound'[x] \in {None, assoc.at}
                       ELSE bound'[x] = bound[x]
  BY <1>2
<1>5. /\ StepOrder' /\ Places' /\ UNCHANGED port /\ (assoc.at)' = assoc.at
      /\ assoc' \in [at : NpuPorts \cup {None},
                     todo : Seq({"ingress", "egress", "queue", "pg"}), replay : SUBSET Nodes]
      /\ \A x \in Nodes : ToCome(x)' <=> ToCome(x) /\ Turn(x) # step
  BY <1>3, <1>4, StepKeepsPlaces
<1>6. PortTypes'
  BY <1>2, <1>3, <1>5 DEF NpuInv, PortTypes, port
<1>7. ASSUME NEW x \in Nodes
      PROVE  Shown(x)'
  <2>1. CASE x \in S
    BY <1>2, <2>1 DEF Shown
  <2>2. CASE x \notin S
    BY <1>2, <1>5, <2>2, StepKeepsShown DEF NpuInv
  <2>. QED BY <2>1, <2>2
<1>. QED BY <1>5, <1>6, <1>7 DEF NpuInv

\* The nodes S, whose turn it is, become those of a virtual port.
LEMMA InitVpKeeps ==
    ASSUME NpuInv, DbInv', NEW step, NEW S \in SUBSET Nodes, NEW R \in SUBSET Nodes,
           AtStep(step), StepThenReplay(R),
           \A x \in Nodes : Turn(x) = step <=> x \in S, InitVp(S)
    PROVE  NpuInv'
<1>1. /\ val' = [x \in Nodes |-> IF x \in S THEN Default ELSE val[x]]
      /\ bound' = [x \in Nodes |-> IF x \in S THEN None ELSE bound[x]]
      /\ stale' = stale \ S /\ npu' = npu
  BY DEF InitVp
<1>2. bound' \in [Nodes -> NpuPorts \cup {None}]
  BY <1>1 DEF NpuInv, PortTypes
<1>3. \A x \in Nodes : IF Turn(x) = step THEN bound'[x] \in {None, assoc.at}
                       ELSE bound'[x] = bound[x]
  BY <1>1
<1>4. /\ StepOrder' /\ Places' /\ UNCHANGED port /\ (assoc.at)' = assoc.at
      /\ assoc' \in [at : NpuPorts \cup {None},
                     todo : Seq({"ingress", "egress", "queue", "pg"}), replay : SUBSET Nodes]
      /\ \A x \in Nodes : ToCome(x)' <=> ToCome(x) /\ Turn(x) # step
  BY <1>2, <1>3, StepKeepsPlaces
<1>5. PortTypes'
  BY <1>1, <1>2, <1>4 DEF NpuInv, PortTypes, port
<1>6. ASSUME NEW x \in Nodes
      PROVE  Shown(x)'
  <2>1. CASE x \in S
    BY <1>1, <2>1 DEF Shown
  <2>2. CASE x \notin S
    BY <1>1, <1>4, <2>2, StepKeepsShown DEF NpuInv
  <2>. QED BY <2>1, <2>2
<1>. QED BY <1>4, <1>5, <1>6 DEF NpuInv

\* A step that binds nothing: the queues, and the groups when NDI fails.
LEMMA IdleStepKeeps ==
    ASSUME NpuInv, DbInv', NEW step, AtStep(step), StepThenReplay({}),
           UNCHANGED <<bound, val, npu, stale>>,
           step = "queue" \/ (step = "pg" /\ assoc.at # None)
    PROVE  NpuInv'
<1>1. \A x \in Nodes : Turn(x) = step => assoc.at # None /\ ToCome(x)
  BY NodeTurns, Turns DEF AtStep, ToCome, NpuInv
<1>2. \A x \in Nodes : Turn(x) = step => bound[x] = None
  BY <1>1 DEF NpuInv, Places, BoundDuring, AtStep, Free
<1>3. bound' \in [Nodes -> NpuPorts \cup {None}] /\ {} \in SUBSET Nodes
  BY DEF NpuInv, PortTypes
<1>4. /\ StepOrder' /\ Places' /\ UNCHANGED port /\ (assoc.at)' = assoc.at
      /\ assoc' \in [at : NpuPorts \cup {None},
                     todo : Seq({"ingress", "egress", "queue", "pg"}), replay : SUBSET Nodes]
      /\ \A x \in Nodes : ToCome(x)' <=> ToCome(x) /\ Turn(x) # step
  BY <1>2, <1>3, StepKeepsPlaces
<1>5. PortTypes'
  BY <1>4 DEF NpuInv, PortTypes, port
<1>6. ASSUME NEW x \in Nodes
      PROVE  Shown(x)'
  <2>1. CASE Turn(x) = step
    BY <1>2, <2>1 DEF Shown
  <2>2. CASE Turn(x) # step
    BY <1>4, <2>2, StepKeepsShown DEF NpuInv
  <2>. QED BY <2>1, <2>2
<1>. QED BY <1>4, <1>5, <1>6 DEF NpuInv

LEMMA AssocStepKeeps ==
    ASSUME NpuInv, DbInv', IngressStep \/ EgressStep \/ QueueStep \/ PgStep
    PROVE  NpuInv'
<1>1. CASE IngressStep
  <2>1. {Ingress} \in SUBSET Nodes /\ \A x \in Nodes : Turn(x) = "ingress" <=> x \in {Ingress}
    BY NodeTurns
  <2>. QED BY <1>1, <2>1, FetchKeeps, InitVpKeeps DEF IngressStep
<1>2. CASE EgressStep
  <2>1. {Egress} \in SUBSET Nodes /\ \A x \in Nodes : Turn(x) = "egress" <=> x \in {Egress}
    BY NodeTurns
  <2>. QED BY <1>2, <2>1, FetchKeeps, InitVpKeeps DEF EgressStep
<1>3. CASE QueueStep
  BY <1>3, IdleStepKeeps DEF QueueStep, config
<1>4. CASE PgStep
  <2>1. PGs \in SUBSET Nodes /\ \A x \in Nodes : Turn(x) = "pg" <=> x \in PGs
    BY NodeTurns
  <2>2. CASE assoc.at # None /\ Fetch(PGs) /\ StepThenReplay(PGs)
    BY <1>4, <2>1, <2>2, FetchKeeps DEF PgStep
  <2>3. CASE assoc.at # None /\ StepThenReplay({}) /\ UNCHANGED <<config, bound>>
    BY <1>4, <2>3, IdleStepKeeps DEF PgStep, config
  <2>4. CASE InitVp(PGs) /\ StepThenReplay(PGs)
    BY <1>4, <2>1, <2>4, InitVpKeeps DEF PgStep
  <2>. QED BY <1>4, <2>2, <2>3, <2>4 DEF PgStep
<1>. QED BY <1>1, <1>2, <1>3, <1>4

----------------------------------------------------------------------------
(* Requests, replays and events                                             *)

\* Only a node that is to be unbound is set while its port is away.
LEMMA WriteKeepsShown ==
    ASSUME NpuInv, NEW x \in Nodes, NEW v \in Vals \cup {Default}, Push(x, v) \/ CacheOnly(x, v),
           UNCHANGED <<bound, port>>, (assoc.at)' = assoc.at, (assoc.todo)' = assoc.todo
    PROVE  /\ (\A z \in Nodes : Shown(z)')
           /\ npu' \in [NpuPorts -> [Nodes -> Vals \cup {Default}]] /\ stale' \subseteq Nodes
<1>1. \A z \in Nodes : Doomed(z)' <=> Doomed(z)
  BY DEF Doomed, ToCome, port
<1>2. /\ val \in [Nodes -> Vals \cup {Default}] /\ PortTypes
      /\ val' = [val EXCEPT ![x] = v] /\ stale' = stale \ {x}
  BY DEF NpuInv, DbInv, ConfigTypes, Push, CacheOnly
<1>3. CASE Push(x, v)
  <2>1. bound[x] \in NpuPorts /\ npu' = [npu EXCEPT ![bound[x]] = [@ EXCEPT ![x] = v]]
    BY <1>2, <1>3 DEF Push, Live, PortTypes
  <2>2. npu' \in [NpuPorts -> [Nodes -> Vals \cup {Default}]]
    BY <1>2, <2>1 DEF PortTypes
  <2>3. npu'[bound[x]][x] = v
    BY <1>2, <2>1 DEF PortTypes
  <2>4. \A n \in NpuPorts : \A z \in Nodes : z # x => npu'[n][z] = npu[n][z]
    BY <1>2, <2>1 DEF PortTypes
  <2>5. \A z \in Nodes : z # x => bound[z] \in NpuPorts \cup {None}
    BY <1>2 DEF PortTypes
  <2>. QED BY <1>1, <1>2, <2>2, <2>3, <2>4, <2>5 DEF Shown, NpuInv, PortTypes
<1>4. CASE CacheOnly(x, v)
  <2>1. npu' = npu /\ ~Live(x)
    BY <1>4 DEF CacheOnly
  <2>2. bound[x] # None => Doomed(x)
    <3>1. SUFFICES ASSUME bound[x] # None
                   PROVE  Doomed(x)
      OBVIOUS
    <3>2. intf = None
      BY <2>1, <3>1 DEF Live
    <3>3. CASE events # <<>>
      <4>1. Len(events) \in 1..Len(events) /\ events[Len(events)] = None
        BY <1>2, <3>2, <3>3 DEF PortTypes, NpuInv, Places, Alternates
      <4>. QED BY <4>1 DEF Doomed, In
    <3>4. CASE events = <<>> /\ Free
      BY <3>1, <3>2, <3>4 DEF NpuInv, Places, BoundBetween
    <3>5. CASE events = <<>> /\ ~Free
      BY <3>1, <3>2, <3>5 DEF NpuInv, Places, Alternates, BoundDuring, Doomed
    <3>. QED BY <3>3, <3>4, <3>5
  <2>. QED BY <1>1, <1>2, <2>1, <2>2 DEF Shown, NpuInv, PortTypes
<1>. QED BY <1>3, <1>4

\* Nothing that bears on the places changes.
LEMMA QuietKeepsPlaces ==
    ASSUME StepOrder, Places, UNCHANGED <<bound, port, assoc>>
    PROVE  StepOrder' /\ Places'
BY DEF StepOrder, AddSteps, Places, Alternates, BoundBetween, BoundDuring, ToCome, Free, port

LEMMA RequestKeeps ==
    ASSUME NpuInv, DbInv', UNCHANGED <<bound, port, assoc>>,
           \/ \E x \in Nodes, v \in Vals \cup {Default} : Push(x, v) \/ CacheOnly(x, v)
           \/ UNCHANGED config
    PROVE  NpuInv'
<1>1. StepOrder' /\ Places'
  BY QuietKeepsPlaces DEF NpuInv
<1>2. /\ (\A z \in Nodes : Shown(z)')
      /\ npu' \in [NpuPorts -> [Nodes -> Vals \cup {Default}]] /\ stale' \subseteq Nodes
  <2>1. CASE UNCHANGED config
    BY <2>1 DEF NpuInv, PortTypes, Shown, Doomed, ToCome, config, port
  <2>2. CASE \E x \in Nodes, v \in Vals \cup {Default} : Push(x, v) \/ CacheOnly(x, v)
    BY <2>2, WriteKeepsShown
  <2>. QED BY <2>1, <2>2
<1>. QED BY <1>1, <1>2 DEF NpuInv, PortTypes, port

LEMMA ReplayKeepsNpu ==
    ASSUME NpuInv, DbInv', NEW x \in Nodes, Replay(x)
    PROVE  NpuInv'
<1>1. /\ x \in assoc.replay /\ UNCHANGED <<bound, port>> /\ ~Free
      /\ assoc' = [at |-> assoc.at, todo |-> assoc.todo, replay |-> assoc.replay \ {x}]
  BY DEF Replay, binding, Free
<1>2. (assoc.at)' = assoc.at /\ (assoc.todo)' = assoc.todo
  BY <1>1
<1>3. StepOrder' /\ BoundDuring'
  BY <1>1, <1>2 DEF NpuInv, Places, StepOrder, AddSteps, BoundDuring, ToCome
<1>4. Places'
  BY <1>1, <1>2, <1>3, Ends DEF NpuInv, Places
<1>5. db[x][1] \in Vals \cup {Default}
  <2>1. db[x] # <<>>
    BY <1>1 DEF NpuInv, DbInv, Recorded
  <2>. QED BY <2>1 DEF NpuInv, DbInv, ConfigTypes, Records
<1>6. /\ (\A z \in Nodes : Shown(z)')
      /\ npu' \in [NpuPorts -> [Nodes -> Vals \cup {Default}]] /\ stale' \subseteq Nodes
  <2>1. CASE Push(x, db[x][1]) \/ CacheOnly(x, db[x][1])
    BY <1>1, <1>2, <1>5, <2>1, WriteKeepsShown
  <2>2. CASE stale' = stale \cup {x} /\ UNCHANGED <<val, db, npu>>
    BY <1>1, <1>2, <2>2 DEF NpuInv, PortTypes, Shown, Doomed, ToCome, port
  <2>. QED BY <2>1, <2>2 DEF Replay
<1>7. PortTypes'
  BY <1>1, <1>6 DEF NpuInv, PortTypes, port
<1>. QED BY <1>3, <1>4, <1>6, <1>7 DEF NpuInv

LEMMA ChangeKeepsNpu ==
    ASSUME NpuInv, DbInv', NEW n \in NpuPorts \cup {None}, Change(n)
    PROVE  NpuInv'
<1>1. /\ ~(n = None <=> intf = None) /\ intf' = n /\ events' = Append(events, n)
      /\ UNCHANGED <<bound, val, npu, stale, assoc>>
  BY DEF Change, config, binding
<1>2. /\ events \in Seq(NpuPorts \cup {None}) /\ events' \in Seq(NpuPorts \cup {None})
      /\ Len(events') = Len(events) + 1 /\ events'[Len(events) + 1] = n
      /\ \A i \in 1..Len(events) : events'[i] = events[i]
  BY <1>1 DEF NpuInv, PortTypes
<1>3. StepOrder' /\ (Free' <=> Free) /\ \A x \in Nodes : ToCome(x)' <=> ToCome(x)
  BY <1>1 DEF NpuInv, StepOrder, AddSteps, Free, ToCome
<1>4. events' # <<>> /\ (events = <<>> <=> Len(events) = 0) /\ Len(events) \in Nat
  BY <1>2
<1>5. Alternates'
  <2>1. events'[Len(events')] = intf'
    BY <1>1, <1>2
  <2>2. ASSUME NEW i \in 1..(Len(events') - 1)
        PROVE  ~(events'[i] = None <=> events'[i + 1] = None)
    <3>1. CASE i = Len(events)
      BY <1>1, <1>2, <1>4, <3>1 DEF NpuInv, Places, Alternates
    <3>2. CASE i # Len(events)
      <4>1. i \in 1..(Len(events) - 1) /\ i + 1 \in 1..Len(events) /\ i \in 1..Len(events)
        BY <1>2, <1>4, <3>2
      <4>. QED BY <1>2, <4>1 DEF NpuInv, Places, Alternates
    <3>. QED BY <3>1, <3>2
  <2>3. ~Free' => ~(assoc.at = None <=> events'[1] = None)
    <3>1. CASE events = <<>>
      BY <1>1, <1>2, <1>3, <1>4, <3>1 DEF NpuInv, Places, Alternates
    <3>2. CASE events # <<>>
      <4>1. events'[1] = events[1]
        BY <1>2, <1>4, <3>2
      <4>. QED BY <1>3, <3>2, <4>1 DEF NpuInv, Places, Alternates
    <3>. QED BY <3>1, <3>2
  <2>. QED BY <1>1, <1>4, <2>1, <2>2, <2>3 DEF Alternates
<1>6. Places'
  <2>1. CASE ~Free
    BY <1>1, <1>3, <1>5, <2>1 DEF NpuInv, Places, BoundDuring
  <2>2. CASE Free
    <3>1. ASSUME NEW x \in Nodes, events'[1] # None
          PROVE  bound'[x] = None
      <4>1. CASE events = <<>>
        BY <1>1, <1>2, <1>4, <2>2, <3>1, <4>1 DEF NpuInv, Places, BoundBetween
      <4>2. CASE events # <<>>
        <5>1. events'[1] = events[1]
          BY <1>2, <1>4, <4>2
        <5>. QED BY <1>1, <2>2, <3>1, <4>2, <5>1 DEF NpuInv, Places, BoundBetween
      <4>. QED BY <4>1, <4>2
    <3>2. BoundBetween'
      BY <1>4, <3>1 DEF BoundBetween
    <3>. QED BY <1>3, <1>5, <2>2, <3>2 DEF Places
  <2>. QED BY <2>1, <2>2
<1>7. ASSUME NEW x \in Nodes
      PROVE  Shown(x)'
  <2>1. Doomed(x) => Doomed(x)'
    BY <1>1, <1>2, <1>3, <1>4 DEF Doomed, In
  <2>. QED BY <1>1, <2>1 DEF Shown, NpuInv
<1>8. PortTypes'
  BY <1>1, <1>2 DEF NpuInv, PortTypes
<1>. QED BY <1>3, <1>6, <1>7, <1>8 DEF NpuInv

LEMMA HandleEventKeepsNpu ==
    ASSUME NpuInv, DbInv', HandleEvent
    PROVE  NpuInv'
<1>1. /\ Free /\ events # <<>> /\ events' = Tail(events) /\ intf' = intf
      /\ assoc' = [at |-> Head(events), todo |-> Steps(Head(events)), replay |-> {}]
      /\ UNCHANGED <<bound, val, npu, stale>>
  BY DEF HandleEvent, config, binding
<1>2. /\ events \in Seq(NpuPorts \cup {None}) /\ events' \in Seq(NpuPorts \cup {None})
      /\ Len(events') = Len(events) - 1
      /\ \A i \in 1..Len(events') : events'[i] = events[i + 1]
      /\ Head(events) \in NpuPorts \cup {None}
  <2>1. events \in Seq(NpuPorts \cup {None}) /\ events # <<>>
    BY <1>1 DEF NpuInv, PortTypes
  <2>. QED BY <1>1, <2>1, HeadTailProperties
<1>3. Head(events) = events[1] /\ Len(events) \in Nat /\ Len(events) >= 1
  BY <1>1, <1>2
<1>4. (assoc.at)' = events[1] /\ (assoc.todo)' = Steps(events[1])
  BY <1>1, <1>3
<1>5. StepOrder'
  BY <1>4 DEF StepOrder, AddSteps, BeforeGroups
<1>6. (assoc.todo)' # <<>> /\ \A x \in Nodes : ToCome(x)'
  <2>1. CASE events[1] = None
    BY <1>4, <2>1, InSteps DEF Steps, ToCome, Turn
  <2>2. CASE events[1] # None
    BY <1>4, <2>2, InSteps DEF Steps, ToCome, Turn
  <2>. QED BY <2>1, <2>2
<1>7. ~Free'
  BY <1>6 DEF Free
<1>8. Alternates'
  <2>1. events' = <<>> => Len(events) = 1
    BY <1>2, <1>3
  <2>2. events' # <<>> => Len(events') >= 1 /\ Len(events') \in 1..Len(events') /\ Len(events') + 1 = Len(events)
    BY <1>2, <1>3
  <2>3. events' # <<>> => events'[Len(events')] = intf'
    BY <1>1, <1>2, <2>2 DEF NpuInv, Places, Alternates
  <2>4. events' = <<>> => (assoc.at)' = intf'
    BY <1>1, <1>4, <2>1 DEF NpuInv, Places, Alternates
  <2>5. ASSUME NEW i \in 1..(Len(events') - 1)
        PROVE  ~(events'[i] = None <=> events'[i + 1] = None)
    <3>1. /\ i \in 1..Len(events') /\ i + 1 \in 1..Len(events')
          /\ i + 1 \in 1..(Len(events) - 1)
      BY <1>2, <1>3
    <3>2. events'[i] = events[i + 1] /\ events'[i + 1] = events[i + 2]
      BY <1>2, <3>1
    <3>3. ~(events[i + 1] = None <=> events[(i + 1) + 1] = None)
      BY <3>1 DEF NpuInv, Places, Alternates
    <3>. QED BY <3>2, <3>3
  <2>6. events' # <<>> => ~((assoc.at)' = None <=> events'[1] = None)
    <3>1. SUFFICES ASSUME events' # <<>>
                   PROVE  ~((assoc.at)' = None <=> events'[1] = None)
      OBVIOUS
    <3>2. 1 \in 1..(Len(events) - 1) /\ 1 \in 1..Len(events')
      BY <1>2, <1>3, <2>2, <3>1
    <3>3. ~(events[1] = None <=> events[1 + 1] = None)
      BY <3>2 DEF NpuInv, Places, Alternates
    <3>. QED BY <1>2, <1>4, <3>2, <3>3
  <2>. QED BY <2>3, <2>4, <2>5, <2>6 DEF Alternates
<1>9. BoundDuring'
  <2>1. events[1] # None => \A x \in Nodes : bound[x] = None
    BY <1>1 DEF NpuInv, Places, BoundBetween
  <2>. QED BY <1>1, <1>4, <1>6, <2>1 DEF BoundDuring
<1>10. Places'
  BY <1>7, <1>8, <1>9 DEF Places
<1>11. ASSUME NEW x \in Nodes
       PROVE  Shown(x)'
  <2>1. In(events, None) => Doomed(x)'
    <3>1. SUFFICES ASSUME NEW i \in 1..Len(events), events[i] = None
                   PROVE  Doomed(x)'
      BY DEF In
    <3>2. CASE i = 1
      BY <1>4, <1>6, <3>1, <3>2 DEF Doomed
    <3>3. CASE i # 1
      <4>1. i - 1 \in 1..Len(events') /\ events'[i - 1] = events[(i - 1) + 1] /\ (i - 1) + 1 = i
        BY <1>2, <1>3, <3>3
      <4>. QED BY <3>1, <4>1 DEF Doomed, In
    <3>. QED BY <3>2, <3>3
  <2>2. ~ToCome(x)
    BY <1>1, InSteps DEF Free, ToCome
  <2>. QED BY <1>1, <2>1, <2>2 DEF Shown, Doomed, NpuInv
<1>12. PortTypes'
  <2>1. Steps(Head(events)) \in Seq({"ingress", "egress", "queue", "pg"})
    <3>1. /\ <<"ingress", "egress", "queue", "pg">> \in Seq({"ingress", "egress", "queue", "pg"})
          /\ <<"pg", "queue", "ingress", "egress">> \in Seq({"ingress", "egress", "queue", "pg"})
      OBVIOUS
    <3>. QED BY <3>1, Zenon DEF Steps
  <2>. QED BY <1>1, <1>2, <2>1 DEF NpuInv, PortTypes
<1>. QED BY <1>5, <1>10, <1>11, <1>12 DEF NpuInv

LEMMA InitNpu == Init /\ DbInv => NpuInv
<1>. SUFFICES ASSUME Init, DbInv
              PROVE  NpuInv
  OBVIOUS
<1>1. assoc = [at |-> None, todo |-> <<>>, replay |-> {}] /\ events = <<>> /\ stale = {}
  BY DEF Init
<1>2. StepOrder /\ Free
  BY <1>1 DEF StepOrder, BeforeGroups, Free
<1>3. PortTypes
  <2>1. <<>> \in Seq({"ingress", "egress", "queue", "pg"}) /\ <<>> \in Seq(NpuPorts \cup {None})
    OBVIOUS
  <2>2. assoc \in [at : NpuPorts \cup {None},
                   todo : Seq({"ingress", "egress", "queue", "pg"}), replay : SUBSET Nodes]
    BY <1>1, <2>1
  <2>. QED BY <1>1, <2>1, <2>2 DEF Init, PortTypes
<1>4. \A x \in Nodes : bound[x] = intf /\ val[x] = Default /\ (intf # None => npu[intf][x] = val[x])
  BY DEF Init
<1>5. Places
  BY <1>1, <1>2, <1>4 DEF Places, Alternates, BoundBetween
<1>. QED BY <1>2, <1>3, <1>4, <1>5 DEF NpuInv, Shown

LEMMA StepNpu == NpuInv /\ DbInv' /\ [Next]_vars => NpuInv'
<1>. SUFFICES ASSUME NpuInv, DbInv', [Next]_vars
              PROVE  NpuInv'
  OBVIOUS
<1>1. CASE UNCHANGED vars
  BY <1>1, RequestKeeps DEF vars, binding
<1>2. ASSUME NEW c \in Clients, NEW x \in Nodes, NEW v \in Vals \cup {Default}, Set(c, x, v)
      PROVE  NpuInv'
  BY <1>2, RequestKeeps DEF Set, binding
<1>3. ASSUME NEW c \in Clients, SetFails(c) \/ End(c)
      PROVE  NpuInv'
  BY <1>3, RequestKeeps DEF SetFails, End, binding
<1>4. ASSUME NEW c \in Clients, Undo(c)
      PROVE  NpuInv'
  <2>1. UNCHANGED <<bound, port, assoc>>
    BY <1>4 DEF Undo, binding
  <2>2. CASE UNCHANGED config
    BY <2>1, <2>2, RequestKeeps
  <2>3. CASE \E s \in Undone(tx[c]) : Push(s.node, s.val) \/ CacheOnly(s.node, s.val)
    <3>1. \A s \in Undone(tx[c]) : s \in Saved
      <4>1. /\ tx[c].prev \in Seq(Saved) /\ tx[c].changed \in Seq(Saved) /\ tx[c].prev # <<>>
            /\ Len(tx[c].prev) <= Len(tx[c].changed)
        BY <1>4 DEF NpuInv, DbInv, SavedTypes, PrevWithin, Undo
      <4>2. Len(tx[c].prev) \in 1..Len(tx[c].prev) /\ Len(tx[c].prev) \in 1..Len(tx[c].changed)
        BY <4>1
      <4>. QED BY <4>1, <4>2 DEF Undone
    <3>2. \E x \in Nodes, v \in Vals \cup {Default} : Push(x, v) \/ CacheOnly(x, v)
      BY <2>3, <3>1 DEF Saved
    <3>. QED BY <2>1, <3>2, RequestKeeps
  <2>. QED BY <1>4, <2>2, <2>3 DEF Undo
<1>. QED BY <1>1, <1>2, <1>3, <1>4, ChangeKeepsNpu, HandleEventKeepsNpu, AssocStepKeeps,
         ReplayKeepsNpu DEF Next

----------------------------------------------------------------------------

\* Where the nodes are bound and what they show, in every reachable state.
THEOREM PlaceInvariance == Spec => []NpuInv
<1>1. Init /\ DbInv => NpuInv
  BY InitNpu
<1>2. NpuInv /\ DbInv' /\ [Next]_vars => NpuInv'
  BY StepNpu
<1>. QED BY <1>1, <1>2, DatabaseInvariance, PTL DEF Spec

\* When all events are handled, a bound node is bound to the port of the interface and
\* shows what that port has, unless NDI refused its replay
\* (nas_is_virtual_port, is_created_in_ndi, nas_qos_port_*_fetch_from_hw).
THEOREM NpuIsFollowed == Spec => []NpuFollowsCache
<1>1. NpuInv => NpuFollowsCache
  <2>. SUFFICES ASSUME NpuInv, Free, events = <<>>, NEW x \in Nodes, bound[x] # None
                PROVE  bound[x] = intf /\ (x \in stale \/ npu[intf][x] = val[x])
    BY DEF NpuFollowsCache
  <2>1. bound[x] = intf
    BY DEF NpuInv, Places, BoundBetween
  <2>2. ~Doomed(x)
    BY InSteps DEF Doomed, ToCome, Free
  <2>. QED BY <2>1, <2>2 DEF NpuInv, Shown
<1>. QED BY <1>1, PlaceInvariance, PTL

\* What the lists and counters can be.
ListTypes ==
    /\ requests \in Nat /\ changes \in Nat /\ pgId \in [PGs -> Ids]
    /\ pgList \subseteq Ids \cup {NullId} /\ queueList \subseteq QueueIds \cup {NullId}
    /\ queuesAt \in NpuPorts \cup {None}

LEMMA StepListTypes == ListTypes /\ PortTypes /\ [Next]_vars => ListTypes'
<1>. SUFFICES ASSUME ListTypes, PortTypes, [Next]_vars
              PROVE  ListTypes'
  OBVIOUS
<1>1. requests' \in Nat /\ changes' \in Nat
  <2>1. requests' \in {requests, requests + 1} /\ changes' \in {changes, changes + 1}
    <3>1. CASE UNCHANGED <<requests, port>>
      BY <3>1 DEF port
    <3>2. ASSUME NEW c \in Clients, NEW x \in Nodes, NEW v \in Vals \cup {Default}, Set(c, x, v)
          PROVE  requests' \in {requests, requests + 1} /\ changes' \in {changes, changes + 1}
      BY <3>2 DEF Set, port
    <3>3. ASSUME NEW n \in NpuPorts \cup {None}, Change(n)
          PROVE  requests' \in {requests, requests + 1} /\ changes' \in {changes, changes + 1}
      BY <3>3 DEF Change
    <3>4. CASE HandleEvent
      BY <3>4 DEF HandleEvent
    <3>5. ASSUME NEW c \in Clients, SetFails(c) \/ Undo(c) \/ End(c)
          PROVE  UNCHANGED <<requests, port>>
      BY <3>5 DEF SetFails, Undo, End
    <3>6. ASSUME NEW x \in Nodes, Replay(x)
          PROVE  UNCHANGED <<requests, port>>
      BY <3>6 DEF Replay
    <3>7. CASE IngressStep \/ EgressStep \/ QueueStep \/ PgStep
      BY <3>1, <3>7 DEF IngressStep, EgressStep, QueueStep, PgStep, StepThenReplay
    <3>8. CASE UNCHANGED vars
      BY <3>1, <3>8 DEF vars
    <3>. QED BY <3>1, <3>2, <3>3, <3>4, <3>5, <3>6, <3>7, <3>8 DEF Next
  <2>. QED BY <2>1 DEF ListTypes
<1>2. assoc.at \in NpuPorts \cup {None} /\ PgIdsRead \subseteq Ids \cup {NullId}
      /\ QueueIdsRead \subseteq QueueIds \cup {NullId} /\ PgIds \subseteq Ids
  BY DEF PortTypes, ListTypes, PgIdsRead, QueueIdsRead, PgIds
<1>3. pgId' \in [PGs -> Ids] /\ pgList' \subseteq Ids \cup {NullId}
      /\ queueList' \subseteq QueueIds \cup {NullId} /\ queuesAt' \in NpuPorts \cup {None}
  <2>1. CASE IngressStep
    BY <1>2, <2>1 DEF ListTypes, IngressStep
  <2>2. CASE EgressStep
    BY <1>2, <2>2 DEF ListTypes, EgressStep
  <2>3. CASE QueueStep
    BY <1>2, <2>3 DEF ListTypes, QueueStep
  <2>4. CASE PgStep
    BY <1>2, <2>4 DEF ListTypes, PgStep
  <2>5. CASE UNCHANGED binding
    BY <2>5 DEF ListTypes, binding
  <2>. QED BY <2>1, <2>2, <2>3, <2>4, <2>5
           DEF Next, vars, Set, SetFails, Undo, End, Change, HandleEvent, Replay
<1>. QED BY <1>1, <1>3 DEF ListTypes

\* The state keeps its type; a record of the database is one attribute
\* (nas_qos_cps_api_port_ing_set, nas_qos_port_ingress_association and their kin).
THEOREM ProfileTypes == Spec => []TypeOK
<1>1. Init => ListTypes
  BY DEF Init, ListTypes, PgIds, QueueIds
<1>2. NpuInv => PortTypes
  BY DEF NpuInv
<1>3. NpuInv /\ ListTypes => TypeOK
  BY DEF NpuInv, PortTypes, DbInv, ConfigTypes, Records, SavedTypes, ListTypes, TypeOK
<1>. QED BY <1>1, <1>2, <1>3, StepListTypes, PlaceInvariance, PTL DEF Spec

----------------------------------------------------------------------------
(* Rollbacks of priority groups.  What a transaction saved leads back, from  *)
(* the attributes the groups have to those they had at its beginning; a      *)
(* profile among what it saved sets no group, whatever its rollback finds.   *)
(* While nodes are bound to another port no transaction can hope to.         *)

GroupVals == [PGs -> Vals \cup {Default}]
GroupsOf(b) == [x \in PGs |-> b[x]]
Groups == GroupsOf(val)

\* Undoing s leads from the attributes now to the attributes then.
Undoes(s, now, then) == \A x \in PGs : then[x] = IF x = s.node THEN s.val ELSE now[x]

INSTANCE Trails WITH Entries <- Saved, States <- GroupVals

\* The transaction of c, if nothing disturbed it, can be undone.
TrackedBy(c) ==
    /\ tx[c].phase = "idle" => tx[c].prev = <<>>
    /\ before[c] # None => /\ GroupsOf(before[c]) \in GroupVals
                           /\ LeadsBack(tx[c].prev, Groups, GroupsOf(before[c]))

Tracked ==
    /\ \A c \in Clients : TrackedBy(c)
    /\ Free \/ \A c \in Clients : before[c] = None

UndoInv == DbInv /\ Tracked /\ before = [c \in Clients |-> before[c]]

LEMMA GroupTypes == ConfigTypes => Groups \in GroupVals
BY DEF ConfigTypes, Groups, GroupsOf, GroupVals, Nodes

\* What the SET handlers change of the groups.
LEMMA WriteGroups ==
    ASSUME NEW x \in Nodes, NEW v \in Vals \cup {Default}, ConfigTypes,
           Push(x, v) \/ CacheOnly(x, v)
    PROVE  \A y \in PGs : Groups'[y] = IF y = x THEN v ELSE Groups[y]
<1>1. val' = [val EXCEPT ![x] = v]
  BY WriteRecords
<1>. QED BY <1>1 DEF ConfigTypes, Groups, GroupsOf, Nodes

\* From its first request on a transaction leads back to what it found.
LEMMA StartTracked ==
    ASSUME NEW c \in Clients, UndoInv, Start(c) # None
    PROVE  /\ GroupsOf(Start(c)) \in GroupVals
           /\ LeadsBack(tx[c].prev, Groups, GroupsOf(Start(c)))
<1>1. CASE tx[c].phase = "idle"
  <2>1. tx[c].prev = <<>> /\ GroupsOf(Start(c)) = Groups
    BY <1>1 DEF UndoInv, Tracked, TrackedBy, Start, Groups
  <2>2. Groups \in GroupVals
    BY GroupTypes DEF UndoInv, DbInv
  <2>. QED BY <2>1, <2>2, EmptyTrail
<1>2. CASE tx[c].phase # "idle"
  BY <1>2 DEF UndoInv, Tracked, TrackedBy, Start
<1>. QED BY <1>1, <1>2

\* Transactions that nobody can undo any more are tracked.
LEMMA LostTracked ==
    ASSUME NEW d \in Clients, UndoInv, tx'[d] = tx[d], before'[d] = None
    PROVE  TrackedBy(d)'
BY DEF UndoInv, Tracked, TrackedBy

\* A request that is pushed makes the trail longer, one that is not ends it; both end
\* the trails of the others.
LEMMA SetTracked ==
    ASSUME NEW c \in Clients, NEW x \in Nodes, NEW v \in Vals \cup {Default},
           UndoInv, ConfigTypes', Set(c, x, v)
    PROVE  Tracked'
<1>. DEFINE s == [node |-> x, val |-> val[x]]
            p == tx[c].prev
<1>1. s \in Saved /\ p \in Seq(Saved)
  BY DEF UndoInv, DbInv, ConfigTypes, SavedTypes, Saved
<1>2. Free' /\ \A d \in Clients : d # c => tx'[d] = tx[d] /\ before'[d] = None
  BY DEF Set, Ready, Free, Only, UndoInv, DbInv, SavedTypes
<1>3. \A d \in Clients : d # c => TrackedBy(d)'
  BY <1>2, LostTracked
<1>4. CASE Push(x, v) /\ before' = Only(c, Start(c))
           /\ tx' = [tx EXCEPT ![c] =
                      [phase |-> "open", changed |-> Append(tx[c].changed, [node |-> x, val |-> v]),
                       prev |-> Append(tx[c].prev, [node |-> x, val |-> val[x]])]]
  <2>1. tx'[c].phase = "open" /\ tx'[c].prev = Append(p, s) /\ before'[c] = Start(c)
    BY <1>4 DEF Only, UndoInv, DbInv, SavedTypes
  <2>2. \A y \in PGs : Groups'[y] = IF y = x THEN v ELSE Groups[y]
    BY <1>4, WriteGroups DEF UndoInv, DbInv
  <2>3. Undoes(s, Groups', Groups)
    BY <2>2 DEF Undoes, Groups, GroupsOf
  <2>4. Groups \in GroupVals /\ Groups' \in GroupVals
    <3>1. (ConfigTypes => Groups \in GroupVals)'
      BY GroupTypes, PTL
    <3>. QED BY <3>1, GroupTypes DEF UndoInv, DbInv
  <2>5. ASSUME Start(c) # None
        PROVE  /\ GroupsOf(Start(c)) \in GroupVals
               /\ LeadsBack(Append(p, s), Groups', GroupsOf(Start(c)))
    <3>1. /\ GroupsOf(Start(c)) \in GroupVals
          /\ LeadsBack(p, Groups, GroupsOf(Start(c)))
      BY <2>5, StartTracked
    <3>. HIDE DEF s, p
    <3>. QED BY <1>1, <2>3, <2>4, <3>1, LongerTrail
  <2>6. TrackedBy(c)'
    BY <2>1, <2>5 DEF TrackedBy
  <2>. QED BY <1>2, <1>3, <2>6 DEF Tracked
<1>5. CASE before' = Only(c, None) /\ tx' = [tx EXCEPT ![c] =
                      [phase |-> "open", changed |-> Append(tx[c].changed, [node |-> x, val |-> v]),
                       prev |-> tx[c].prev]]
  <2>1. tx'[c].phase = "open" /\ before'[c] = None
    BY <1>5 DEF Only, UndoInv, DbInv, SavedTypes
  <2>2. TrackedBy(c)'
    BY <2>1 DEF TrackedBy
  <2>. QED BY <1>2, <1>3, <2>2 DEF Tracked
<1>. QED BY <1>4, <1>5 DEF Set

\* A request that fails changes nothing.
LEMMA SetFailsTracked ==
    ASSUME NEW c \in Clients, UndoInv, SetFails(c)
    PROVE  Tracked'
<1>1. Groups' = Groups /\ Free'
  BY DEF SetFails, config, Ready, Free, Groups, GroupsOf
<1>2. \A d \in Clients : d # c => tx'[d] = tx[d] /\ before'[d] = before[d]
  BY DEF SetFails, UndoInv, DbInv, SavedTypes
<1>3. tx'[c].phase = "undo" /\ tx'[c].prev = tx[c].prev /\ before'[c] = Start(c)
  BY DEF SetFails, UndoInv, DbInv, SavedTypes
<1>4. TrackedBy(c)'
  BY <1>1, <1>3, StartTracked DEF TrackedBy
<1>5. \A d \in Clients : d # c => TrackedBy(d)'
  BY <1>1, <1>2 DEF UndoInv, Tracked, TrackedBy
<1>. QED BY <1>1, <1>4, <1>5 DEF Tracked

\* A group is set to what was saved of it, a profile is no group.
LEMMA UndoneGroups ==
    ASSUME NEW t \in [phase : {"idle", "open", "undo"}, changed : Seq(Saved), prev : Seq(Saved)],
           t.prev # <<>>, NEW s \in Undone(t)
    PROVE  /\ s.node = t.prev[Len(t.prev)].node
           /\ s.node \in PGs => s = t.prev[Len(t.prev)]
BY DEF Undone

\* A step of a rollback follows the trail back; one that NDI refuses ends all trails.
LEMMA UndoTracked ==
    ASSUME NEW c \in Clients, UndoInv, ConfigTypes', Undo(c)
    PROVE  Tracked'
<1>. DEFINE p == tx[c].prev
            rest == SubSeq(p, 1, Len(p) - 1)
<1>1. p \in Seq(Saved) /\ p # <<>>
  BY DEF Undo, UndoInv, DbInv, SavedTypes
<1>2. tx'[c].phase = "undo" /\ tx'[c].prev = rest
      /\ \A d \in Clients : d # c => tx'[d] = tx[d]
  BY DEF Undo, UndoInv, DbInv, SavedTypes
<1>3. \A d \in Clients : d # c => before'[d] = None
  BY DEF Undo, Only
<1>4. \A d \in Clients : d # c => TrackedBy(d)'
  BY <1>2, <1>3, LostTracked
<1>5. Free'
  BY DEF Undo, Free
<1>6. CASE \E s \in Undone(tx[c]) : /\ Push(s.node, s.val) \/ CacheOnly(s.node, s.val)
                                    /\ before' = Only(c, before[c])
  <2>1. PICK s \in Undone(tx[c]) : /\ Push(s.node, s.val) \/ CacheOnly(s.node, s.val)
                                   /\ before' = Only(c, before[c])
    BY <1>6
  <2>2. s \in Saved
    <3>1. /\ Len(p) \in 1..Len(p) /\ Len(p) \in 1..Len(tx[c].changed)
          /\ tx[c].changed \in Seq(Saved)
      BY <1>1 DEF UndoInv, DbInv, PrevWithin, SavedTypes
    <3>. QED BY <1>1, <2>1, <3>1 DEF Undone
  <2>3. \A y \in PGs : Groups'[y] = IF y = s.node THEN s.val ELSE Groups[y]
    BY <2>1, <2>2, WriteGroups DEF Saved, UndoInv, DbInv
  <2>4. s.node = p[Len(p)].node /\ (s.node \in PGs => s = p[Len(p)])
    BY <1>1, UndoneGroups DEF UndoInv, DbInv, SavedTypes
  <2>5. \A y \in PGs : Groups'[y] = IF y = p[Len(p)].node THEN p[Len(p)].val ELSE Groups[y]
    BY <2>3, <2>4
  <2>6. Groups' \in GroupVals
    <3>1. (ConfigTypes => Groups \in GroupVals)'
      BY GroupTypes, PTL
    <3>. QED BY <3>1
  <2>7. before'[c] = before[c]
    BY <2>1 DEF Only
  <2>8. ASSUME before[c] # None
        PROVE  /\ GroupsOf(before[c]) \in GroupVals
               /\ LeadsBack(rest, Groups', GroupsOf(before[c]))
    <3>1. GroupsOf(before[c]) \in GroupVals /\ LeadsBack(p, Groups, GroupsOf(before[c]))
      BY <2>8 DEF UndoInv, Tracked, TrackedBy
    <3>2. PICK mid \in GroupVals :
             Undoes(p[Len(p)], Groups, mid) /\ LeadsBack(rest, mid, GroupsOf(before[c]))
      <4>. HIDE DEF p
      <4>. QED BY <1>1, <3>1, ShorterTrail
    <3>3. \A y \in PGs : Groups'[y] = mid[y]
      BY <3>2, <2>5 DEF Undoes
    <3>4. Groups' = mid
      BY <3>2, <3>3, <2>6 DEF GroupVals
    <3>. QED BY <3>1, <3>2, <3>4
  <2>9. TrackedBy(c)'
    BY <1>2, <2>7, <2>8 DEF TrackedBy
  <2>. QED BY <1>4, <1>5, <2>9 DEF Tracked
<1>7. CASE before' = Only(c, None)
  <2>1. TrackedBy(c)'
    BY <1>2, <1>7 DEF TrackedBy, Only
  <2>. QED BY <1>4, <1>5, <2>1 DEF Tracked
<1>. QED BY <1>6, <1>7 DEF Undo

LEMMA EndTracked ==
    ASSUME NEW c \in Clients, UndoInv, End(c)
    PROVE  Tracked'
<1>1. Groups' = Groups /\ (Free' <=> Free)
  BY DEF End, config, Free, Groups, GroupsOf
<1>2. /\ tx'[c] = NoTx /\ before'[c] = None
      /\ \A d \in Clients : d # c => tx'[d] = tx[d] /\ before'[d] = before[d]
  BY DEF End, UndoInv, DbInv, SavedTypes
<1>3. \A d \in Clients : TrackedBy(d)'
  BY <1>1, <1>2 DEF UndoInv, Tracked, TrackedBy, NoTx
<1>4. ~Free => \A d \in Clients : before'[d] = None
  BY <1>2 DEF UndoInv, Tracked
<1>. QED BY <1>1, <1>3, <1>4 DEF Tracked

\* Where no transaction can be undone any more, all are tracked.
LEMMA NoneTracked ==
    ASSUME UndoInv, tx' = tx, \A c \in Clients : before'[c] = None
    PROVE  Tracked'
BY DEF UndoInv, Tracked, TrackedBy

\* The steps of an association run while no transaction can be undone.
LEMMA AssociationTracked ==
    ASSUME UndoInv, \/ IngressStep \/ EgressStep \/ QueueStep \/ PgStep
                    \/ \E x \in Nodes : Replay(x)
    PROVE  Tracked'
<1>1. ~Free
  BY DEF IngressStep, EgressStep, QueueStep, PgStep, Replay, AtStep, Free
<1>2. tx' = tx /\ before' = before
  BY DEF IngressStep, EgressStep, QueueStep, PgStep, Replay, StepThenReplay
<1>3. \A c \in Clients : before'[c] = None
  BY <1>1, <1>2 DEF UndoInv, Tracked
<1>. QED BY <1>2, <1>3, NoneTracked

\* The auxiliary variable keeps its domain.
LEMMA BeforeIsFunction ==
    ASSUME UndoInv, [Next]_vars
    PROVE  before' = [c \in Clients |-> before'[c]]
<1>1. before = [c \in Clients |-> before[c]]
  BY DEF UndoInv
<1>2. \/ before' = before
      \/ \E c \in Clients : \E b : before' = [before EXCEPT ![c] = b] \/ before' = Only(c, b)
      \/ before' = [c \in Clients |-> None]
  <2>1. CASE \E c \in Clients : \/ \E x \in Nodes, v \in Vals \cup {Default} : Set(c, x, v)
                                \/ SetFails(c) \/ Undo(c) \/ End(c)
    BY <2>1 DEF Set, SetFails, Undo, End
  <2>2. CASE (\E n \in NpuPorts \cup {None} : Change(n)) \/ HandleEvent
    BY <2>2 DEF Change, HandleEvent
  <2>3. CASE \/ IngressStep \/ EgressStep \/ QueueStep \/ PgStep
             \/ \E x \in Nodes : Replay(x)
    BY <2>3 DEF IngressStep, EgressStep, QueueStep, PgStep, Replay, StepThenReplay
  <2>4. CASE UNCHANGED vars
    BY <2>4 DEF vars
  <2>. QED BY <2>1, <2>2, <2>3, <2>4 DEF Next
<1>. QED BY <1>1, <1>2 DEF Only

LEMMA StepTracked == UndoInv /\ ConfigTypes' /\ [Next]_vars => Tracked'
<1>. SUFFICES ASSUME UndoInv, ConfigTypes', [Next]_vars PROVE Tracked'
  OBVIOUS
<1>1. CASE \E c \in Clients : \/ \E x \in Nodes, v \in Vals \cup {Default} : Set(c, x, v)
                              \/ SetFails(c) \/ Undo(c) \/ End(c)
  BY <1>1, SetTracked, SetFailsTracked, UndoTracked, EndTracked
<1>2. CASE (\E n \in NpuPorts \cup {None} : Change(n)) \/ HandleEvent
  <2>1. tx' = tx /\ \A c \in Clients : before'[c] = None
    BY <1>2 DEF Change, HandleEvent
  <2>. QED BY <2>1, NoneTracked
<1>3. CASE \/ IngressStep \/ EgressStep \/ QueueStep \/ PgStep
           \/ \E x \in Nodes : Replay(x)
  BY <1>3, AssociationTracked
<1>4. CASE UNCHANGED vars
  <2>1. tx' = tx /\ before' = before /\ Groups' = Groups /\ (Free' <=> Free)
    BY <1>4 DEF vars, config, Groups, GroupsOf, Free
  <2>. QED BY <2>1 DEF UndoInv, Tracked, TrackedBy
<1>. QED BY <1>1, <1>2, <1>3, <1>4 DEF Next

\* The invariant of the rollback: beside its types, every transaction that nothing
\* disturbed has a trail back to the attributes its priority groups had, and none has
\* one while an event is handled (nas_qos_if_set_notify).
THEOREM GroupTrails == Spec => []UndoInv
<1>1. Init => Tracked /\ before = [c \in Clients |-> before[c]]
  BY DEF Init, Tracked, TrackedBy, NoTx, Free
<1>2. UndoInv /\ DbInv' /\ [Next]_vars => UndoInv'
  <2>. SUFFICES ASSUME UndoInv, DbInv', [Next]_vars PROVE UndoInv'
    OBVIOUS
  <2>1. before' = [c \in Clients |-> before'[c]]
    BY BeforeIsFunction
  <2>2. Tracked'
    BY StepTracked DEF DbInv
  <2>. QED BY <2>1, <2>2 DEF UndoInv
<1>3. DbInv /\ Tracked /\ before = [c \in Clients |-> before[c]] => UndoInv
  BY DEF UndoInv
<1>. QED BY <1>1, <1>2, <1>3, DatabaseInvariance, PTL DEF Spec

\* For every number of groups and clients, and transactions of any length that write
\* groups and profiles alike: when the rollback is through, the groups are what the
\* transaction found (nas_qos_cps_api_priority_group_rollback).
THEOREM RollbacksRestoreGroups == Spec => []GroupsRestored
<1>1. UndoInv => GroupsRestored
  <2>. SUFFICES ASSUME UndoInv, NEW c \in Clients, tx[c].prev = <<>>, before[c] # None,
                       NEW x \in PGs
                PROVE  val[x] = before[c][x]
    BY DEF GroupsRestored, Restored
  <2>1. Groups = GroupsOf(before[c])
    BY EndOfTrail DEF UndoInv, Tracked, TrackedBy
  <2>. QED BY <2>1 DEF Groups, GroupsOf
<1>. QED BY <1>1, GroupTrails, PTL
=============================================================================
