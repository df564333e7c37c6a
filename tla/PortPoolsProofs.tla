-------------------------- MODULE PortPoolsProofs --------------------------
(***************************************************************************)
(* Proofs about PortPools: for every number of pools, profiles, NPU ports,  *)
(* clients, requests and events, the variables keep their types, cache and  *)
(* database have the same pools, but for those a request and an association *)
(* met on, and a rollback restores the pools.                               *)
(***************************************************************************)
EXTENDS PortPools, TLAPS

Profiles == Vals \cup {Default}
Ops == {"create", "set", "delete"}
Hands == [step : {"commit", "store"}, by : Clients, op : Ops, key : Pools, data : PortPool,
          pushed : BOOLEAN]
Assocs == [step : {"none", "bind", "replay"}, at : NpuPorts \cup {None}, todo : SUBSET Pools,
           gone : SUBSET Pools, replay : SUBSET (Pools \X Profiles),
           key : Pools \cup {None}, data : PortPool \cup {None}]
Transactions == [phase : {"idle", "open", "undo"}, prev : Seq(Saved)]

InterfaceOK ==
    /\ intf \in NpuPorts \cup {None} /\ changes \in Nat /\ requests \in Nat
    /\ events \in Seq(NpuPorts \cup {None})
PoolsOK ==
    /\ pool \in [Pools -> PortPool \cup {None}]
    /\ db \in [Pools -> Profiles \cup {None}]
    /\ npu \in [Handles -> NpuPool \cup {None}]
HandOK == hand = NoHand \/ hand \in Hands
AssocOK == assoc \in Assocs
TxOK == tx \in [Clients -> Transactions]
AuxOK ==
    /\ before \in [Clients -> [Pools -> Profiles \cup {None}] \cup {None}]
    /\ disturbed \subseteq Pools /\ lost \subseteq Handles

\* What a handler that is about to write a pool back, or to remove it, has seen is there.
HandFindsPool ==
    hand.step = "store" /\ hand.op \in {"set", "delete"} => pool[hand.key] # None

\* A pointer that is not known to be invalid is valid, and the replay uses none.
PointersValid ==
    /\ \A k \in assoc.todo \ assoc.gone : pool[k] # None
    /\ assoc.step # "bind" => assoc.todo = {}

\* A replay that is about to write has something to write.
ReplayHasData == assoc.key # None => assoc.data \in PortPool

\* Only requests that met an event make pointers invalid.
MetIsDisturbed == hand.key # None /\ ~Settled => hand.key \in disturbed
GoneIsDisturbed == assoc.gone \subseteq disturbed

Types == InterfaceOK /\ PoolsOK /\ HandOK /\ AssocOK /\ TxOK /\ AuxOK /\ alive \in BOOLEAN

IInv ==
    /\ Types
    /\ HandFindsPool /\ PointersValid /\ ReplayHasData
    /\ MetIsDisturbed /\ GoneIsDisturbed
    /\ CacheFollowsDb

----------------------------------------------------------------------------
(* Parts of the actions. *)

\* A pool and its record in the database agree.
Follows(k) == db[k] = IF pool[k] = None THEN None ELSE pool[k].val

LEMMA FollowsAll == CacheFollowsDb <=> \A k \in Pools \ disturbed : Follows(k)
BY DEF CacheFollowsDb, Follows, Config

LEMMA PoolFields ==
    ASSUME PoolsOK, NEW k \in Pools, pool[k] # None
    PROVE  /\ pool[k] \in PortPool
           /\ pool[k].val \in Profiles /\ pool[k].at \in NpuPorts \cup {None}
           /\ pool[k].made \in BOOLEAN /\ pool[k].obj \in Handles \cup {None, Null}
<1>1. pool[k] \in PortPool
  BY DEF PoolsOK
<1>. QED BY <1>1 DEF PortPool, Profiles

LEMMA ConfigType ==
    ASSUME PoolsOK
    PROVE  Config \in [Pools -> Profiles \cup {None}]
BY PoolFields DEF Config

LEMMA StartType ==
    ASSUME PoolsOK, AuxOK, NEW c \in Clients
    PROVE  Start(c) \in [Pools -> Profiles \cup {None}] \cup {None}
BY ConfigType DEF Start, AuxOK

LEMMA SucceedType ==
    ASSUME TxOK, NEW c \in Clients, NEW s \in Seq(Saved), Succeed(c, s)
    PROVE  TxOK'
<1>. DEFINE p == tx[c].prev
<1>1. p \in Seq(Saved)
  BY DEF TxOK, Transactions
<1>2. p \o s \in Seq(Saved)
  BY <1>1
<1>3. Undoing(c) /\ p # <<>> => Popped(p) \in Seq(Saved)
  BY <1>1 DEF Popped
<1>4. p = <<>> => Popped(p) = <<>>
  BY DEF Popped
<1>5. Popped(p) \in Seq(Saved)
  BY <1>1, <1>4 DEF Popped
<1>6. tx' = [tx EXCEPT ![c] = IF Undoing(c) THEN [phase |-> "undo", prev |-> Popped(p)]
                              ELSE [phase |-> "open", prev |-> p \o s]]
  BY DEF Succeed
<1>7. (IF Undoing(c) THEN [phase |-> "undo", prev |-> Popped(p)]
       ELSE [phase |-> "open", prev |-> p \o s]) \in Transactions
  BY <1>2, <1>5 DEF Transactions
<1>. QED BY <1>6, <1>7 DEF TxOK

LEMMA FailType ==
    ASSUME TxOK, NEW c \in Clients, Fail(c)
    PROVE  TxOK'
<1>. DEFINE p == tx[c].prev
<1>1. p \in Seq(Saved)
  BY DEF TxOK, Transactions
<1>2. p = <<>> => Popped(p) = <<>>
  BY DEF Popped
<1>3. Popped(p) \in Seq(Saved)
  BY <1>1, <1>2 DEF Popped
<1>4. tx' = [tx EXCEPT ![c] = [phase |-> "undo", prev |-> IF Undoing(c) THEN Popped(p) ELSE p]]
  BY DEF Fail
<1>5. [phase |-> "undo", prev |-> IF Undoing(c) THEN Popped(p) ELSE p] \in Transactions
  BY <1>1, <1>3 DEF Transactions
<1>. QED BY <1>4, <1>5 DEF TxOK

LEMMA NdiType ==
    ASSUME PoolsOK, NEW o, NEW v \in Profiles, NdiSet(o, v) \/ NdiDelete(o)
    PROVE  npu' \in [Handles -> NpuPool \cup {None}]
<1>1. CASE Exists(o) /\ npu' = [npu EXCEPT ![o] = [at |-> npu[o].at, pool |-> npu[o].pool,
                                                   val |-> v]]
  <2>1. npu[o] \in NpuPool
    BY <1>1 DEF Exists, PoolsOK
  <2>2. [at |-> npu[o].at, pool |-> npu[o].pool, val |-> v] \in NpuPool
    BY <2>1 DEF NpuPool, Profiles
  <2>. QED BY <1>1, <2>2 DEF PoolsOK
<1>2. CASE Exists(o) /\ npu' = [npu EXCEPT ![o] = None]
  BY <1>2 DEF PoolsOK
<1>3. CASE UNCHANGED npu
  BY <1>3 DEF PoolsOK
<1>. QED BY <1>1, <1>2, <1>3 DEF NdiSet, NdiDelete

LEMMA VictimType ==
    ASSUME NEW k
    PROVE  Victim(k) \subseteq Pools
BY DEF Victim

\* What depends only on the pools, the records, the pointers and the disturbed pools.
LEMMA SamePools ==
    ASSUME IInv, UNCHANGED <<pool, db, assoc>>, disturbed \subseteq disturbed'
    PROVE  PointersValid' /\ ReplayHasData' /\ GoneIsDisturbed' /\ CacheFollowsDb'
<1>1. PointersValid' /\ ReplayHasData' /\ GoneIsDisturbed'
  BY DEF IInv, PointersValid, ReplayHasData, GoneIsDisturbed
<1>2. CacheFollowsDb'
  BY DEF IInv, CacheFollowsDb, Config
<1>. QED BY <1>1, <1>2

----------------------------------------------------------------------------
(* Requests and rollbacks. *)

USE Nulls, NoneIsNoRecord

LEMMA NullTypes == NoHand.key = None /\ NoAssoc \in Assocs
BY DEF NoHand, NoAssoc, Assocs

\* What a request does before another thread can see it.
LEMMA BeginStep ==
    ASSUME IInv, NEW c \in Clients, NEW op \in Ops, NEW k \in Pools, NEW v \in Profiles,
           Begin(c, op, k, v), requests' \in Nat
    PROVE  IInv'
<1>1. Types /\ PoolsOK /\ AuxOK /\ TxOK /\ HandOK /\ InterfaceOK /\ AssocOK
  BY DEF IInv, Types
<1>2. hand = NoHand /\ UNCHANGED <<interface, pool, db, assoc, alive, lost>>
  BY DEF Begin
<1>3. disturbed' = disturbed \cup Victim(k) \cup (IF Settled THEN {} ELSE {k})
  BY DEF Begin
<1>4. InterfaceOK' /\ AssocOK' /\ alive' \in BOOLEAN
  BY <1>1, <1>2 DEF InterfaceOK, AssocOK, interface, Types
<1>5. disturbed' \subseteq Pools
  BY <1>1, <1>3, VictimType DEF AuxOK
<1>6. PointersValid' /\ ReplayHasData' /\ GoneIsDisturbed' /\ CacheFollowsDb'
  <2>1. UNCHANGED <<pool, db, assoc>> /\ disturbed \subseteq disturbed'
    BY <1>2, <1>3
  <2>. QED BY <2>1, SamePools
<1>7. Settled' = Settled
  BY <1>2 DEF Settled, interface
<1>8. CASE /\ \/ op = "create" /\ CreateLook(c, k, v)
              \/ op = "set" /\ SetPush(c, k, v)
              \/ op = "delete" /\ DeletePush(c, k)
           /\ before' = Only(c, IF Settled THEN Start(c) ELSE None)
  <2>1. AuxOK'
    BY <1>1, <1>2, <1>5, <1>8, StartType DEF AuxOK, Only
  <2>2. tx' = tx
    BY <1>8 DEF CreateLook, SetPush, DeletePush
  <2>3. npu' \in [Handles -> NpuPool \cup {None}]
    <3>1. CASE UNCHANGED npu
      BY <1>1, <3>1 DEF PoolsOK
    <3>2. CASE NdiSet(pool[k].obj, v) \/ NdiDelete(pool[k].obj)
      BY <1>1, <3>2, NdiType
    <3>. QED BY <1>8, <3>1, <3>2 DEF CreateLook, SetPush, DeletePush
  <2>4. hand' \in Hands /\ hand'.key = k /\ (hand'.op = "create" \/ pool[k] # None)
    <3>1. CASE op = "create" /\ CreateLook(c, k, v)
      <4>1. [val |-> v, at |-> intf, made |-> FALSE, obj |-> None] \in PortPool
        BY <1>1 DEF PortPool, Profiles, InterfaceOK
      <4>. QED BY <3>1, <4>1 DEF CreateLook, Hold, Hands
    <3>2. CASE op = "set" /\ SetPush(c, k, v)
      <4>1. pool[k] # None
        BY <3>2 DEF SetPush
      <4>2. Copy(k, v) \in PortPool
        BY <1>1, <4>1, PoolFields DEF Copy, PortPool, Profiles
      <4>3. \E b \in BOOLEAN : Hold(c, "set", k, "store", Copy(k, v), b)
        BY <3>2 DEF SetPush
      <4>. QED BY <4>1, <4>2, <4>3 DEF Hold, Hands, Ops
    <3>3. CASE op = "delete" /\ DeletePush(c, k)
      <4>1. pool[k] # None /\ pool[k] \in PortPool
        BY <1>1, <3>3, PoolFields DEF DeletePush
      <4>2. Hold(c, "delete", k, "store", pool[k], intf # None)
        BY <3>3 DEF DeletePush
      <4>. QED BY <4>1, <4>2 DEF Hold, Hands, Ops
    <3>. QED BY <1>8, <3>1, <3>2, <3>3
  <2>5. HandOK' /\ HandFindsPool'
    BY <1>2, <2>4 DEF HandOK, HandFindsPool
  <2>6. MetIsDisturbed'
    BY <1>3, <1>7, <2>4 DEF MetIsDisturbed
  <2>7. PoolsOK' /\ TxOK'
    BY <1>1, <1>2, <2>2, <2>3 DEF PoolsOK, TxOK
  <2>. QED BY <1>4, <1>6, <2>1, <2>5, <2>6, <2>7 DEF IInv, Types
<1>9. CASE /\ SetOrDeleteFails(c, op, k)
           /\ before' = Only(c, IF Settled /\ ~Undoing(c) THEN Start(c) ELSE None)
  <2>1. AuxOK'
    BY <1>1, <1>2, <1>5, <1>9, StartType DEF AuxOK, Only
  <2>2. Fail(c) /\ npu' = npu /\ hand' = hand
    BY <1>9 DEF SetOrDeleteFails
  <2>3. TxOK' /\ PoolsOK' /\ HandOK'
    BY <1>1, <1>2, <2>2, FailType DEF PoolsOK, HandOK
  <2>4. HandFindsPool' /\ MetIsDisturbed'
    BY <1>2, <2>2, NullTypes DEF HandFindsPool, MetIsDisturbed, NoHand
  <2>. QED BY <1>4, <1>6, <2>1, <2>3, <2>4 DEF IInv, Types
<1>. QED BY <1>8, <1>9 DEF Begin

LEMMA RequestStep ==
    ASSUME IInv, NEW c \in Clients, Request(c)
    PROVE  IInv'
<1>1. requests' \in Nat
  BY DEF Request, IInv, Types, InterfaceOK
<1>. QED BY <1>1, BeginStep DEF Request, Ops, Profiles

LEMMA UndoStep ==
    ASSUME IInv, NEW c \in Clients, Undo(c)
    PROVE  IInv'
<1>. DEFINE p == tx[c].prev
            s == p[Len(p)]
<1>1. p \in Seq(Saved) /\ p # <<>>
  BY DEF Undo, IInv, Types, TxOK, Transactions
<1>2. s \in Saved
  BY <1>1
<1>3. s.op \in Ops /\ s.key \in Pools /\ s.val \in Profiles
  BY <1>2 DEF Saved, Ops, Profiles
<1>4. Opposite(s.op) \in Ops
  BY <1>3 DEF Opposite, Ops
<1>5. requests' \in Nat
  BY DEF Undo, IInv, Types, InterfaceOK
<1>6. Begin(c, Opposite(s.op), s.key, s.val)
  BY DEF Undo
<1>. QED BY <1>3, <1>4, <1>5, <1>6, BeginStep

----------------------------------------------------------------------------
(* The second halves of the handlers. *)

LEMMA HandFields ==
    ASSUME HandOK, hand.step \in {"commit", "store"}
    PROVE  /\ hand \in Hands /\ hand.by \in Clients /\ hand.key \in Pools
           /\ hand.data \in PortPool /\ hand.data.val \in Profiles
           /\ hand.data.at \in NpuPorts \cup {None} /\ hand.data.obj \in Handles \cup {None, Null}
<1>1. hand \in Hands
  BY DEF HandOK, NoHand
<1>2. hand.data \in PortPool
  BY <1>1 DEF Hands
<1>. QED BY <1>1, <1>2 DEF Hands, PortPool, Profiles

LEMMA CreateCommitStep ==
    ASSUME IInv, CreateCommit
    PROVE  IInv'
<1>. DEFINE c == hand.by
            k == hand.key
            d == hand.data
<1>1. PoolsOK /\ AuxOK /\ TxOK /\ HandOK /\ InterfaceOK /\ AssocOK /\ alive \in BOOLEAN
  BY DEF IInv, Types
<1>2. /\ c \in Clients /\ k \in Pools /\ d \in PortPool /\ d.val \in Profiles
      /\ d.at \in NpuPorts \cup {None}
  BY <1>1, HandFields DEF CreateCommit
<1>3. UNCHANGED <<interface, requests, pool, db, assoc, alive, disturbed, lost>>
  BY DEF CreateCommit
<1>4. InterfaceOK' /\ AssocOK' /\ alive' \in BOOLEAN
  BY <1>1, <1>3 DEF InterfaceOK, AssocOK, interface
<1>5. PointersValid' /\ ReplayHasData' /\ GoneIsDisturbed' /\ CacheFollowsDb'
  BY <1>3, SamePools
<1>6. Settled' = Settled
  BY <1>3 DEF Settled, interface
<1>7. /\ npu' \in [Handles -> NpuPool \cup {None}]
      /\ hand' = NoHand \/ (hand' \in Hands /\ hand'.key = k /\ hand'.op = "create")
      /\ TxOK' /\ AuxOK'
  <2>1. CASE /\ intf = None
             /\ Hold(c, "create", k, "store", d, FALSE)
             /\ UNCHANGED <<npu, tx, before>>
    BY <1>1, <1>2, <1>3, <2>1 DEF Hold, Hands, Ops, PoolsOK, TxOK, AuxOK
  <2>2. CASE /\ intf # None /\ d.at # None
             /\ \E h \in Handles :
                  /\ npu[h] = None
                  /\ npu' = [npu EXCEPT ![h] = [at |-> d.at, pool |-> k, val |-> d.val]]
                  /\ Hold(c, "create", k, "store",
                          [val |-> d.val, at |-> d.at, made |-> TRUE, obj |-> h], TRUE)
             /\ UNCHANGED <<tx, before>>
    <3>1. PICK h \in Handles :
                  /\ npu' = [npu EXCEPT ![h] = [at |-> d.at, pool |-> k, val |-> d.val]]
                  /\ Hold(c, "create", k, "store",
                          [val |-> d.val, at |-> d.at, made |-> TRUE, obj |-> h], TRUE)
      BY <2>2
    <3>2. [at |-> d.at, pool |-> k, val |-> d.val] \in NpuPool
      BY <1>2, <2>2 DEF NpuPool, Profiles
    <3>3. [val |-> d.val, at |-> d.at, made |-> TRUE, obj |-> h] \in PortPool
      BY <1>2 DEF PortPool, Profiles
    <3>4. hand' \in Hands /\ hand'.key = k /\ hand'.op = "create"
      BY <1>2, <3>1, <3>3 DEF Hold, Hands, Ops
    <3>5. npu' \in [Handles -> NpuPool \cup {None}]
      BY <1>1, <3>1, <3>2 DEF PoolsOK
    <3>. QED BY <1>1, <1>3, <2>2, <3>4, <3>5 DEF TxOK, AuxOK
  <2>3. CASE /\ Fail(c)
             /\ before' = IF Undoing(c) THEN Only(c, None) ELSE before
             /\ hand' = NoHand
             /\ UNCHANGED npu
    BY <1>1, <1>2, <1>3, <2>3, FailType DEF PoolsOK, AuxOK, Only
  <2>. QED BY <2>1, <2>2, <2>3 DEF CreateCommit
<1>8. PoolsOK' /\ HandOK'
  BY <1>1, <1>3, <1>7 DEF PoolsOK, HandOK
<1>9. HandFindsPool' /\ MetIsDisturbed'
  BY <1>3, <1>6, <1>7, NullTypes
     DEF HandFindsPool, MetIsDisturbed, NoHand, IInv
<1>. QED BY <1>4, <1>5, <1>7, <1>8, <1>9 DEF IInv, Types

LEMMA CreateStoreStep ==
    ASSUME IInv, CreateStore
    PROVE  IInv'
<1>. DEFINE c == hand.by
            k == hand.key
            d == hand.data
            saved == [op |-> "create", key |-> k, val |-> Default]
<1>1. PoolsOK /\ AuxOK /\ TxOK /\ HandOK /\ InterfaceOK /\ AssocOK /\ alive \in BOOLEAN
  BY DEF IInv, Types
<1>2. c \in Clients /\ k \in Pools /\ d \in PortPool /\ d.val \in Profiles
  BY <1>1, HandFields DEF CreateStore
<1>3. hand' = NoHand /\ UNCHANGED <<interface, requests, npu, assoc, alive, before, disturbed>>
  BY DEF CreateStore
<1>4. InterfaceOK' /\ AssocOK' /\ HandOK' /\ alive' \in BOOLEAN
  BY <1>1, <1>3 DEF InterfaceOK, AssocOK, interface, HandOK
<1>5. HandFindsPool' /\ MetIsDisturbed' /\ ReplayHasData' /\ GoneIsDisturbed'
  BY <1>3, NullTypes
     DEF HandFindsPool, MetIsDisturbed, NoHand, IInv, ReplayHasData, GoneIsDisturbed
<1>6. CASE /\ pool[k] = None
           /\ pool' = [pool EXCEPT ![k] = d]
           /\ db' = [db EXCEPT ![k] = d.val]
           /\ Succeed(c, <<saved>>)
           /\ UNCHANGED lost
  <2>1. PoolsOK'
    BY <1>1, <1>2, <1>3, <1>6 DEF PoolsOK
  <2>2. TxOK'
    <3>1. saved \in Saved
      BY <1>2 DEF Saved
    <3>2. <<saved>> \in Seq(Saved)
      BY <3>1
    <3>. QED BY <1>1, <1>2, <1>6, <3>2, SucceedType
  <2>3. AuxOK'
    BY <1>1, <1>3, <1>6 DEF AuxOK
  <2>4. d # None
    BY <1>2
  <2>5. PointersValid'
    BY <1>1, <1>2, <1>3, <1>6, <2>4 DEF PointersValid, IInv, PoolsOK, AssocOK, Assocs
  <2>6. \A j \in Pools : j # k => pool'[j] = pool[j] /\ db'[j] = db[j]
    BY <1>1, <1>6 DEF PoolsOK
  <2>7. pool'[k] = d /\ db'[k] = d.val
    BY <1>1, <1>2, <1>6 DEF PoolsOK
  <2>8. CacheFollowsDb'
    BY <1>3, <2>4, <2>6, <2>7 DEF CacheFollowsDb, Config, IInv
  <2>. QED BY <1>4, <1>5, <2>1, <2>2, <2>3, <2>5, <2>8 DEF IInv, Types
<1>7. CASE /\ lost' = lost \cup ({d.obj} \cap Handles)
           /\ Fail(c)
           /\ UNCHANGED <<pool, db>>
  <2>1. PoolsOK' /\ TxOK' /\ AuxOK'
    BY <1>1, <1>2, <1>3, <1>7, FailType DEF PoolsOK, AuxOK
  <2>2. PointersValid' /\ CacheFollowsDb'
    BY <1>3, <1>7, SamePools
  <2>. QED BY <1>4, <1>5, <2>1, <2>2 DEF IInv, Types
<1>. QED BY <1>6, <1>7 DEF CreateStore

LEMMA SetStoreStep ==
    ASSUME IInv, SetStore
    PROVE  IInv'
<1>. DEFINE c == hand.by
            k == hand.key
            d == hand.data
            saved == [op |-> "set", key |-> k, val |-> pool[k].val]
<1>1. PoolsOK /\ AuxOK /\ TxOK /\ HandOK /\ InterfaceOK /\ AssocOK /\ alive \in BOOLEAN
  BY DEF IInv, Types
<1>2. c \in Clients /\ k \in Pools /\ d \in PortPool /\ d.val \in Profiles /\ d # None
  BY <1>1, HandFields DEF SetStore
<1>3. hand' = NoHand /\ UNCHANGED <<interface, requests, npu, assoc, alive, disturbed, lost>>
  BY DEF SetStore
<1>4. InterfaceOK' /\ AssocOK' /\ HandOK' /\ alive' \in BOOLEAN
  BY <1>1, <1>3 DEF InterfaceOK, AssocOK, interface, HandOK
<1>5. HandFindsPool' /\ MetIsDisturbed' /\ ReplayHasData' /\ GoneIsDisturbed'
  BY <1>3, NullTypes
     DEF HandFindsPool, MetIsDisturbed, NoHand, IInv, ReplayHasData, GoneIsDisturbed
<1>6. pool' = [pool EXCEPT ![k] = d] /\ db' = [db EXCEPT ![k] = d.val]
  BY DEF SetStore
<1>7. PoolsOK'
  BY <1>1, <1>2, <1>3, <1>6 DEF PoolsOK
<1>8. TxOK'
  <2>1. pool[k] # None
    BY DEF IInv, HandFindsPool, SetStore
  <2>2. pool[k].val \in Profiles
    BY <1>1, <1>2, <2>1, PoolFields
  <2>3. saved \in Saved
    BY <1>2, <2>2 DEF Saved, Profiles
  <2>4. <<saved>> \in Seq(Saved) /\ <<>> \in Seq(Saved)
    BY <2>3
  <2>5. Succeed(c, <<saved>>) \/ Succeed(c, <<>>)
    BY DEF SetStore
  <2>. HIDE DEF saved
  <2>. QED BY <1>1, <1>2, <2>4, <2>5, SucceedType
<1>9. AuxOK'
  BY <1>1, <1>2, <1>3 DEF AuxOK, SetStore, Only
<1>10. PointersValid'
  BY <1>1, <1>2, <1>3, <1>6 DEF PointersValid, IInv, PoolsOK, AssocOK, Assocs
<1>11. /\ \A j \in Pools : j # k => pool'[j] = pool[j] /\ db'[j] = db[j]
       /\ pool'[k] = d /\ db'[k] = d.val
  BY <1>1, <1>2, <1>6 DEF PoolsOK
<1>12. CacheFollowsDb'
  BY <1>2, <1>3, <1>11 DEF CacheFollowsDb, Config, IInv
<1>. QED BY <1>4, <1>5, <1>7, <1>8, <1>9, <1>10, <1>12 DEF IInv, Types

\* A deletion makes pointers invalid only if it met an event.
LEMMA DeleteStoreStep ==
    ASSUME IInv, DeleteStore
    PROVE  IInv'
<1>. DEFINE c == hand.by
            k == hand.key
            saved == [op |-> "delete", key |-> k, val |-> pool[k].val]
<1>1. PoolsOK /\ AuxOK /\ TxOK /\ HandOK /\ InterfaceOK /\ AssocOK /\ alive \in BOOLEAN
  BY DEF IInv, Types
<1>2. c \in Clients /\ k \in Pools
  BY <1>1, HandFields DEF DeleteStore
<1>3. hand' = NoHand /\ UNCHANGED <<interface, requests, npu, alive, before, disturbed, lost>>
  BY DEF DeleteStore, aux
<1>4. InterfaceOK' /\ HandOK' /\ alive' \in BOOLEAN /\ AuxOK'
  BY <1>1, <1>3 DEF InterfaceOK, interface, HandOK, AuxOK
<1>5. HandFindsPool' /\ MetIsDisturbed'
  BY <1>3, NullTypes DEF HandFindsPool, MetIsDisturbed, NoHand
<1>6. pool' = [pool EXCEPT ![k] = None] /\ db' = [db EXCEPT ![k] = None] /\ Invalidate(k)
  BY DEF DeleteStore
<1>7. PoolsOK'
  BY <1>1, <1>2, <1>3, <1>6 DEF PoolsOK
<1>8. TxOK'
  <2>1. pool[k] # None
    BY DEF IInv, HandFindsPool, DeleteStore
  <2>2. pool[k].val \in Profiles
    BY <1>1, <1>2, <2>1, PoolFields
  <2>3. saved \in Saved
    BY <1>2, <2>2 DEF Saved, Profiles
  <2>4. <<saved>> \in Seq(Saved)
    BY <2>3
  <2>. QED BY <1>1, <1>2, <2>4, SucceedType DEF DeleteStore
<1>9. assoc' = [assoc EXCEPT !.gone = IF k \in assoc.todo \/ k = assoc.key
                                      THEN assoc.gone \cup {k} ELSE assoc.gone]
  BY <1>6 DEF Invalidate
<1>10. AssocOK'
  BY <1>1, <1>2, <1>9 DEF AssocOK, Assocs
<1>11. ReplayHasData'
  BY <1>1, <1>9 DEF IInv, ReplayHasData, AssocOK, Assocs
<1>12. /\ \A j \in Pools : j # k => pool'[j] = pool[j] /\ db'[j] = db[j]
       /\ pool'[k] = None /\ db'[k] = None
  BY <1>1, <1>2, <1>6 DEF PoolsOK
<1>13. PointersValid'
  <2>1. assoc'.todo = assoc.todo /\ assoc'.step = assoc.step /\ assoc.todo \subseteq Pools
    BY <1>1, <1>9 DEF AssocOK, Assocs
  <2>2. assoc.gone \subseteq assoc'.gone /\ (k \in assoc.todo => k \in assoc'.gone)
    BY <1>1, <1>9 DEF AssocOK, Assocs
  <2>. QED BY <1>12, <2>1, <2>2 DEF PointersValid, IInv
<1>14. GoneIsDisturbed'
  <2>1. CASE k \in assoc.todo \/ k = assoc.key
    <3>1. assoc # NoAssoc
      BY <1>2, <2>1 DEF NoAssoc
    <3>2. k \in disturbed
      BY <1>2, <3>1 DEF IInv, MetIsDisturbed, Settled
    <3>. QED BY <1>1, <1>3, <1>9, <3>2 DEF IInv, GoneIsDisturbed, AssocOK, Assocs
  <2>2. CASE ~(k \in assoc.todo \/ k = assoc.key)
    BY <1>1, <1>3, <1>9, <2>2 DEF IInv, GoneIsDisturbed, AssocOK, Assocs
  <2>. QED BY <2>1, <2>2
<1>15. CacheFollowsDb'
  BY <1>3, <1>12 DEF CacheFollowsDb, Config, IInv
<1>. QED BY <1>4, <1>5, <1>7, <1>8, <1>10, <1>11, <1>13, <1>14, <1>15 DEF IInv, Types

----------------------------------------------------------------------------
(* What ends a transaction, statistics, and changes of the interface. *)

\* Steps that touch no pool, no handler and no association.
LEMMA OtherSteps ==
    ASSUME IInv, UNCHANGED <<interface, pool, db, npu, hand, assoc, disturbed, lost>>,
           requests' \in Nat, alive' \in BOOLEAN, TxOK',
           before' \in [Clients -> [Pools -> Profiles \cup {None}] \cup {None}]
    PROVE  IInv'
<1>1. PointersValid' /\ ReplayHasData' /\ GoneIsDisturbed' /\ CacheFollowsDb'
  BY SamePools
<1>2. HandFindsPool' /\ MetIsDisturbed'
  BY DEF IInv, HandFindsPool, MetIsDisturbed, Settled, interface
<1>3. PoolsOK' /\ HandOK' /\ AssocOK' /\ AuxOK'
  BY DEF IInv, Types, PoolsOK, HandOK, AssocOK, AuxOK
<1>4. InterfaceOK'
  BY DEF IInv, Types, InterfaceOK, interface
<1>. QED BY <1>1, <1>2, <1>3, <1>4 DEF IInv, Types

LEMMA OtherFailsStep ==
    ASSUME IInv, NEW c \in Clients, OtherFails(c)
    PROVE  IInv'
<1>1. TxOK'
  BY FailType DEF OtherFails, IInv, Types
<1>. QED BY <1>1, OtherSteps DEF OtherFails, aux, IInv, Types, InterfaceOK, AuxOK

LEMMA EndStep ==
    ASSUME IInv, NEW c \in Clients, End(c)
    PROVE  IInv'
<1>1. [phase |-> "idle", prev |-> <<>>] \in Transactions
  BY DEF Transactions
<1>2. TxOK'
  BY <1>1 DEF End, IInv, Types, TxOK
<1>3. before' \in [Clients -> [Pools -> Profiles \cup {None}] \cup {None}]
  BY DEF End, IInv, Types, AuxOK
<1>. QED BY <1>2, <1>3, OtherSteps DEF End, IInv, Types, InterfaceOK

LEMMA StatReadDiesStep ==
    ASSUME IInv, NEW k, NEW names, StatReadDies(k, names)
    PROVE  IInv'
<1>1. TxOK'
  BY DEF StatReadDies, IInv, Types, TxOK
<1>. QED BY <1>1, OtherSteps DEF StatReadDies, aux, IInv, Types, InterfaceOK, AuxOK

LEMMA StatClearStep ==
    ASSUME IInv, NEW c \in Clients, NEW k, NEW names, StatClear(c, k, names)
    PROVE  IInv'
<1>1. PoolsOK /\ AuxOK /\ TxOK /\ InterfaceOK /\ alive \in BOOLEAN
  BY DEF IInv, Types
<1>2. TxOK' /\ alive' \in BOOLEAN
  <2>1. CASE Succeed(c, <<>>) /\ UNCHANGED alive
    <3>1. <<>> \in Seq(Saved)
      OBVIOUS
    <3>. QED BY <1>1, <2>1, <3>1, SucceedType
  <2>2. CASE alive' = FALSE /\ UNCHANGED tx
    BY <1>1, <2>2 DEF TxOK
  <2>3. CASE Fail(c) /\ UNCHANGED alive
    BY <1>1, <2>3, FailType
  <2>. QED BY <2>1, <2>2, <2>3 DEF StatClear
<1>3. before' \in [Clients -> [Pools -> Profiles \cup {None}] \cup {None}]
  <2>1. before' = [before EXCEPT ![c] = IF Settled THEN Start(c) ELSE None]
    BY DEF StatClear
  <2>. QED BY <1>1, <2>1, StartType DEF AuxOK
<1>4. requests' \in Nat
  BY <1>1 DEF StatClear, InterfaceOK
<1>. QED BY <1>2, <1>3, <1>4, OtherSteps DEF StatClear

\* A change disturbs the pool of the handler at work.
LEMMA ChangeStep ==
    ASSUME IInv, NEW n \in NpuPorts \cup {None}, Change(n)
    PROVE  IInv'
<1>1. PoolsOK /\ AuxOK /\ TxOK /\ HandOK /\ InterfaceOK /\ AssocOK /\ alive \in BOOLEAN
  BY DEF IInv, Types
<1>2. UNCHANGED <<requests, pool, db, npu, hand, assoc, tx, alive, lost>>
  BY DEF Change
<1>3. disturbed' = disturbed \cup ({hand.key} \ {None})
  BY DEF Change
<1>4. hand.key \in Pools \cup {None}
  BY <1>1, NullTypes DEF HandOK, Hands
<1>5. InterfaceOK'
  <2>1. Append(events, n) \in Seq(NpuPorts \cup {None})
    BY <1>1 DEF InterfaceOK
  <2>. QED BY <1>1, <1>2, <2>1 DEF Change, InterfaceOK
<1>6. PoolsOK' /\ TxOK' /\ HandOK' /\ AssocOK'
  BY <1>1, <1>2 DEF PoolsOK, TxOK, HandOK, AssocOK
<1>7. AuxOK'
  BY <1>1, <1>2, <1>3, <1>4 DEF AuxOK, Change
<1>8. PointersValid' /\ ReplayHasData' /\ GoneIsDisturbed' /\ CacheFollowsDb'
  BY <1>2, <1>3, SamePools
<1>9. HandFindsPool' /\ MetIsDisturbed'
  BY <1>2, <1>3 DEF IInv, HandFindsPool, MetIsDisturbed
<1>. QED BY <1>1, <1>2, <1>5, <1>6, <1>7, <1>8, <1>9 DEF IInv, Types

----------------------------------------------------------------------------
(* The association.  Its steps are those of a time that is not settled, and *)
(* none removes a pool.                                                     *)

LEMMA AssociationStep ==
    ASSUME IInv, ~Settled, UNCHANGED <<intf, changes, requests, hand, tx, before, lost>>,
           events' \in Seq(NpuPorts \cup {None}), alive' \in BOOLEAN,
           disturbed \subseteq disturbed', disturbed' \subseteq Pools,
           PoolsOK', AssocOK', \A k \in Pools : pool[k] # None => pool'[k] # None,
           PointersValid', ReplayHasData', GoneIsDisturbed', CacheFollowsDb'
    PROVE  IInv'
<1>1. InterfaceOK' /\ HandOK' /\ TxOK' /\ AuxOK'
  BY DEF IInv, Types, InterfaceOK, HandOK, TxOK, AuxOK
<1>2. HandFindsPool'
  <2>1. hand.step = "store" => hand.key \in Pools
    BY HandFields DEF IInv, Types
  <2>. QED BY <2>1 DEF IInv, HandFindsPool
<1>3. MetIsDisturbed'
  BY DEF IInv, MetIsDisturbed
<1>. QED BY <1>1, <1>2, <1>3 DEF IInv, Types

LEMMA AssocFields ==
    ASSUME AssocOK
    PROVE  /\ assoc.at \in NpuPorts \cup {None} /\ assoc.todo \subseteq Pools
           /\ assoc.gone \subseteq Pools /\ assoc.replay \subseteq Pools \X Profiles
           /\ assoc.key \in Pools \cup {None} /\ assoc.data \in PortPool \cup {None}
           /\ assoc.step \in {"none", "bind", "replay"}
BY DEF AssocOK, Assocs

\* One of the pools is the same but for its NPU object.
LEMMA ReboundFollows ==
    ASSUME PoolsOK, CacheFollowsDb, NEW k \in Pools, NEW o \in PortPool,
           pool[k] # None, o.val = pool[k].val, pool' = [pool EXCEPT ![k] = o],
           db' = db, disturbed \subseteq disturbed'
    PROVE  CacheFollowsDb'
<1>1. pool'[k] = o /\ o # None /\ \A j \in Pools : j # k => pool'[j] = pool[j]
  BY DEF PoolsOK
<1>. QED BY <1>1 DEF CacheFollowsDb, Config

LEMMA CollectStep ==
    ASSUME IInv, Collect
    PROVE  IInv'
<1>1. InterfaceOK /\ PoolsOK /\ AuxOK
  BY DEF IInv, Types
<1>. DEFINE all == {k \in Pools : pool[k] # None}
<1>2. Head(events) \in NpuPorts \cup {None} /\ Tail(events) \in Seq(NpuPorts \cup {None})
  BY <1>1 DEF InterfaceOK, Collect
<1>3. assoc' = [NoAssoc EXCEPT !.step = "bind", !.at = Head(events), !.todo = all]
  BY DEF Collect
<1>4. AssocOK'
  BY <1>2, <1>3 DEF NoAssoc, AssocOK, Assocs
<1>5. assoc'.todo = all /\ assoc'.gone = {} /\ assoc'.key = None /\ assoc'.step = "bind"
  BY <1>3 DEF NoAssoc
<1>6. PoolsOK'
  BY <1>1 DEF Collect, PoolsOK
<1>7. PointersValid' /\ ReplayHasData' /\ GoneIsDisturbed'
  BY <1>5 DEF Collect, PointersValid, ReplayHasData, GoneIsDisturbed
<1>8. CacheFollowsDb'
  BY DEF Collect, IInv, CacheFollowsDb, Config, aux
<1>9. ~Settled
  BY DEF Settled, Collect
<1>. QED BY <1>1, <1>2, <1>4, <1>6, <1>7, <1>8, <1>9, AssociationStep
         DEF Collect, aux, AuxOK, IInv, Types

LEMMA CollectRacesStep ==
    ASSUME IInv, CollectRaces
    PROVE  IInv'
<1>1. PoolsOK /\ AuxOK /\ AssocOK /\ InterfaceOK
  BY DEF IInv, Types
<1>2. PoolsOK' /\ AssocOK'
  BY <1>1 DEF CollectRaces, Unaffected, PoolsOK, AssocOK
<1>3. PointersValid' /\ ReplayHasData' /\ GoneIsDisturbed' /\ CacheFollowsDb'
  BY SamePools DEF CollectRaces
<1>4. ~Settled
  BY DEF Settled, CollectRaces
<1>. QED BY <1>1, <1>2, <1>3, <1>4, AssociationStep
         DEF CollectRaces, Unaffected, interface, InterfaceOK, AuxOK

\* A visit of a pool that changes no pool.
LEMMA UseFreedStep ==
    ASSUME IInv, NEW k \in Pools, UseFreed(k)
    PROVE  IInv'
<1>1. PoolsOK /\ AuxOK /\ AssocOK /\ InterfaceOK
  BY DEF IInv, Types
<1>2. assoc' = [assoc EXCEPT !.todo = assoc.todo \ {k}]
  BY DEF UseFreed, Visited
<1>3. AssocOK'
  BY <1>1, <1>2 DEF AssocOK, Assocs
<1>4. /\ assoc'.todo = assoc.todo \ {k} /\ assoc'.gone = assoc.gone
      /\ assoc'.key = assoc.key /\ assoc'.data = assoc.data /\ assoc'.step = assoc.step
  BY <1>1, <1>2 DEF AssocOK, Assocs
<1>5. PoolsOK'
  BY <1>1 DEF UseFreed, Unaffected, PoolsOK
<1>6. PointersValid' /\ ReplayHasData' /\ GoneIsDisturbed'
  BY <1>4 DEF UseFreed, IInv, PointersValid, ReplayHasData, GoneIsDisturbed
<1>7. CacheFollowsDb'
  BY DEF UseFreed, IInv, CacheFollowsDb, Config
<1>8. ~Settled
  BY DEF Settled, UseFreed, NoAssoc
<1>. QED BY <1>1, <1>3, <1>5, <1>6, <1>7, <1>8, AssociationStep
         DEF UseFreed, Unaffected, interface, InterfaceOK, AuxOK

LEMMA UnbindStep ==
    ASSUME IInv, NEW k \in Pools, Unbind(k)
    PROVE  IInv'
<1>1. PoolsOK /\ AuxOK /\ AssocOK /\ InterfaceOK /\ alive \in BOOLEAN
  BY DEF IInv, Types
<1>. DEFINE o == [val |-> pool[k].val, at |-> pool[k].at, made |-> FALSE, obj |-> Null]
<1>2. assoc' = [assoc EXCEPT !.todo = assoc.todo \ {k}]
  BY DEF Unbind, Visited
<1>3. AssocOK'
  BY <1>1, <1>2 DEF AssocOK, Assocs
<1>4. /\ assoc'.todo = assoc.todo \ {k} /\ assoc'.gone = assoc.gone
      /\ assoc'.key = assoc.key /\ assoc'.data = assoc.data /\ assoc'.step = assoc.step
  BY <1>1, <1>2 DEF AssocOK, Assocs
<1>5. pool[k] # None
  BY DEF Unbind, IInv, PointersValid
<1>6. o \in PortPool /\ o # None /\ o.val = pool[k].val
  <2>1. o \in PortPool
    BY <1>1, <1>5, PoolFields DEF PortPool, Profiles
  <2>. QED BY <2>1
<1>7. disturbed' = disturbed \cup Victim(k) /\ db' = db
  BY DEF Unbind
<1>8. disturbed' \subseteq Pools
  BY <1>1, <1>7, VictimType DEF AuxOK
<1>9. CASE NdiDelete(pool[k].obj) /\ pool' = [pool EXCEPT ![k] = o] /\ UNCHANGED alive
  <2>1. npu' \in [Handles -> NpuPool \cup {None}]
    BY <1>1, <1>9, NdiType DEF Profiles
  <2>2. PoolsOK'
    BY <1>1, <1>6, <1>7, <1>9, <2>1 DEF PoolsOK
  <2>3. \A j \in Pools : pool[j] # None => pool'[j] # None
    BY <1>1, <1>6, <1>9 DEF PoolsOK
  <2>4. PointersValid' /\ ReplayHasData' /\ GoneIsDisturbed'
    BY <1>1, <1>4, <1>7, <2>3, AssocFields DEF IInv, PointersValid, ReplayHasData, GoneIsDisturbed
  <2>5. CacheFollowsDb'
    BY <1>1, <1>5, <1>6, <1>7, <1>9, ReboundFollows DEF IInv
  <2>6. ~Settled
    BY DEF Settled, Unbind, NoAssoc
  <2>. QED BY <1>1, <1>3, <1>7, <1>8, <1>9, <2>2, <2>3, <2>4, <2>5, <2>6, AssociationStep
           DEF Unbind, Unaffected, interface, InterfaceOK
<1>10. CASE alive' = FALSE /\ UNCHANGED <<pool, npu>>
  <2>1. PoolsOK'
    BY <1>1, <1>7, <1>10 DEF PoolsOK
  <2>2. PointersValid' /\ ReplayHasData' /\ GoneIsDisturbed'
    BY <1>4, <1>7, <1>10 DEF IInv, PointersValid, ReplayHasData, GoneIsDisturbed
  <2>3. CacheFollowsDb'
    BY <1>7, <1>10 DEF IInv, CacheFollowsDb, Config
  <2>4. ~Settled
    BY DEF Settled, Unbind, NoAssoc
  <2>. QED BY <1>1, <1>3, <1>7, <1>8, <1>10, <2>1, <2>2, <2>3, <2>4, AssociationStep
           DEF Unbind, Unaffected, interface, InterfaceOK
<1>. QED BY <1>9, <1>10 DEF Unbind

LEMMA BindStep ==
    ASSUME IInv, NEW k \in Pools, Bind(k)
    PROVE  IInv'
<1>1. PoolsOK /\ AuxOK /\ AssocOK /\ InterfaceOK /\ alive \in BOOLEAN
  BY DEF IInv, Types
<1>. DEFINE o == [val |-> pool[k].val, at |-> assoc.at, made |-> TRUE, obj |-> pool[k].obj]
<1>2. assoc' = [assoc EXCEPT !.todo = assoc.todo \ {k}]
  BY DEF Bind, Visited
<1>3. AssocOK'
  BY <1>1, <1>2 DEF AssocOK, Assocs
<1>4. /\ assoc'.todo = assoc.todo \ {k} /\ assoc'.gone = assoc.gone
      /\ assoc'.key = assoc.key /\ assoc'.data = assoc.data /\ assoc'.step = assoc.step
  BY <1>1, <1>2 DEF AssocOK, Assocs
<1>5. pool[k] # None
  BY DEF Bind, IInv, PointersValid
<1>6. o \in PortPool /\ o # None /\ o.val = pool[k].val
  <2>1. o \in PortPool
    BY <1>1, <1>5, PoolFields, AssocFields DEF PortPool, Profiles
  <2>. QED BY <2>1
<1>7. pool' = [pool EXCEPT ![k] = o] /\ UNCHANGED <<db, npu, alive, disturbed>>
  BY DEF Bind
<1>8. PoolsOK'
  BY <1>1, <1>6, <1>7 DEF PoolsOK
<1>9. \A j \in Pools : pool[j] # None => pool'[j] # None
  BY <1>1, <1>6, <1>7 DEF PoolsOK
<1>10. PointersValid' /\ ReplayHasData' /\ GoneIsDisturbed'
  BY <1>1, <1>4, <1>7, <1>9, AssocFields DEF IInv, PointersValid, ReplayHasData, GoneIsDisturbed
<1>11. CacheFollowsDb'
  BY <1>1, <1>5, <1>6, <1>7, ReboundFollows DEF IInv
<1>12. ~Settled
  BY DEF Settled, Bind, NoAssoc
<1>. QED BY <1>1, <1>3, <1>7, <1>8, <1>9, <1>10, <1>11, <1>12, AssociationStep
         DEF Bind, Unaffected, interface, InterfaceOK, AuxOK

LEMMA ReadDbStep ==
    ASSUME IInv, ReadDb
    PROVE  IInv'
<1>1. PoolsOK /\ AuxOK /\ AssocOK /\ InterfaceOK /\ alive \in BOOLEAN
  BY DEF IInv, Types
<1>. DEFINE records == {<<k, db[k]>> : k \in {l \in Pools : db[l] # None}}
<1>2. records \subseteq Pools \X Profiles
  BY <1>1 DEF PoolsOK
<1>3. assoc' = NoAssoc \/ assoc' = [NoAssoc EXCEPT !.step = "replay", !.replay = records]
  BY DEF ReadDb
<1>4. AssocOK' /\ assoc'.todo = {} /\ assoc'.gone = {} /\ assoc'.key = None
  <2>1. CASE assoc' = NoAssoc
    BY <2>1, NullTypes DEF NoAssoc, AssocOK
  <2>2. CASE assoc' = [NoAssoc EXCEPT !.step = "replay", !.replay = records]
    BY <1>2, <2>2 DEF NoAssoc, AssocOK, Assocs
  <2>. QED BY <1>3, <2>1, <2>2
<1>5. PoolsOK'
  BY <1>1 DEF ReadDb, PoolsOK
<1>6. PointersValid' /\ ReplayHasData' /\ GoneIsDisturbed'
  BY <1>4 DEF PointersValid, ReplayHasData, GoneIsDisturbed
<1>7. CacheFollowsDb'
  BY DEF ReadDb, IInv, CacheFollowsDb, Config
<1>8. ~Settled
  BY DEF Settled, ReadDb, NoAssoc
<1>. QED BY <1>1, <1>4, <1>5, <1>6, <1>7, <1>8, AssociationStep
         DEF ReadDb, Unaffected, interface, InterfaceOK, AuxOK

LEMMA ReplayPushStep ==
    ASSUME IInv, NEW k \in Pools, NEW v \in Profiles, ReplayPush(k, v)
    PROVE  IInv'
<1>1. PoolsOK /\ AuxOK /\ AssocOK /\ InterfaceOK /\ alive \in BOOLEAN
  BY DEF IInv, Types
<1>2. UNCHANGED <<pool, db, alive>> /\ disturbed' = disturbed \cup Victim(k)
  BY DEF ReplayPush
<1>3. disturbed' \subseteq Pools
  BY <1>1, <1>2, VictimType DEF AuxOK
<1>4. npu' \in [Handles -> NpuPool \cup {None}]
  <2>1. CASE UNCHANGED npu
    BY <1>1, <2>1 DEF PoolsOK
  <2>2. CASE NdiSet(pool[k].obj, v)
    BY <1>1, <2>2, NdiType
  <2>. QED BY <2>1, <2>2 DEF ReplayPush
<1>5. PoolsOK'
  BY <1>1, <1>2, <1>4 DEF PoolsOK
<1>6. CacheFollowsDb'
  BY <1>2 DEF IInv, CacheFollowsDb, Config
<1>. DEFINE rest == assoc.replay \ {<<k, v>>}
<1>7. AssocOK' /\ PointersValid' /\ ReplayHasData' /\ GoneIsDisturbed'
  <2>1. CASE /\ pool[k] # None
             /\ assoc' = [assoc EXCEPT !.replay = rest, !.gone = {}, !.key = k,
                                       !.data = Copy(k, v)]
    <3>1. Copy(k, v) \in PortPool
      BY <1>1, <2>1, PoolFields DEF Copy, PortPool, Profiles
    <3>2. AssocOK'
      BY <1>1, <2>1, <3>1 DEF AssocOK, Assocs
    <3>3. /\ assoc'.gone = {} /\ assoc'.data \in PortPool
          /\ assoc'.todo = assoc.todo /\ assoc'.step = assoc.step
      BY <1>1, <2>1, <3>1 DEF AssocOK, Assocs
    <3>4. assoc.todo = {}
      BY DEF IInv, PointersValid, ReplayPush
    <3>. QED BY <3>2, <3>3, <3>4 DEF PointersValid, ReplayHasData, GoneIsDisturbed
  <2>2. CASE assoc' = [assoc EXCEPT !.replay = rest]
    <3>1. AssocOK'
      BY <1>1, <2>2 DEF AssocOK, Assocs
    <3>2. /\ assoc'.todo = assoc.todo /\ assoc'.gone = assoc.gone
          /\ assoc'.key = assoc.key /\ assoc'.data = assoc.data /\ assoc'.step = assoc.step
      BY <1>1, <2>2 DEF AssocOK, Assocs
    <3>. QED BY <1>2, <3>1, <3>2 DEF IInv, PointersValid, ReplayHasData, GoneIsDisturbed
  <2>. QED BY <2>1, <2>2 DEF ReplayPush
<1>8. ~Settled
  BY DEF Settled, ReplayPush, NoAssoc
<1>. QED BY <1>1, <1>2, <1>3, <1>5, <1>6, <1>7, <1>8, AssociationStep
         DEF ReplayPush, Unaffected, interface, InterfaceOK

LEMMA ReplayStoreStep ==
    ASSUME IInv, ReplayStore
    PROVE  IInv'
<1>1. PoolsOK /\ AuxOK /\ AssocOK /\ InterfaceOK /\ alive \in BOOLEAN
  BY DEF IInv, Types
<1>. DEFINE k == assoc.key
            d == assoc.data
<1>2. k \in Pools /\ d \in PortPool /\ d # None /\ d.val \in Profiles
  BY <1>1, AssocFields DEF ReplayStore, IInv, ReplayHasData, PortPool, Profiles
<1>3. /\ db' = [db EXCEPT ![k] = d.val]
      /\ assoc' = [assoc EXCEPT !.key = None, !.data = None]
      /\ UNCHANGED <<npu, disturbed>>
  BY DEF ReplayStore
<1>4. AssocOK'
  BY <1>1, <1>3 DEF AssocOK, Assocs
<1>5. /\ assoc'.todo = assoc.todo /\ assoc'.gone = assoc.gone /\ assoc'.key = None
      /\ assoc'.step = assoc.step
  BY <1>1, <1>3 DEF AssocOK, Assocs
<1>6. db'[k] = d.val /\ \A j \in Pools : j # k => db'[j] = db[j]
  BY <1>1, <1>2, <1>3 DEF PoolsOK
<1>7. ~Settled
  BY DEF Settled, ReplayStore, NoAssoc
<1>8. CASE k \notin assoc.gone /\ pool' = [pool EXCEPT ![k] = d] /\ UNCHANGED alive
  <2>1. pool'[k] = d /\ \A j \in Pools : j # k => pool'[j] = pool[j]
    BY <1>1, <1>2, <1>8 DEF PoolsOK
  <2>2. PoolsOK'
    BY <1>1, <1>2, <1>3, <1>8 DEF PoolsOK
  <2>3. \A j \in Pools : pool[j] # None => pool'[j] # None
    BY <1>2, <2>1
  <2>4. PointersValid' /\ ReplayHasData' /\ GoneIsDisturbed'
    BY <1>1, <1>3, <1>5, <2>3, AssocFields
       DEF IInv, PointersValid, ReplayHasData, GoneIsDisturbed
  <2>5. CacheFollowsDb'
    BY <1>2, <1>3, <1>6, <2>1 DEF IInv, CacheFollowsDb, Config
  <2>. QED BY <1>1, <1>3, <1>4, <1>7, <1>8, <2>2, <2>3, <2>4, <2>5, AssociationStep
           DEF ReplayStore, Unaffected, interface, InterfaceOK, AuxOK
<1>9. CASE k \in assoc.gone /\ alive' \in BOOLEAN /\ UNCHANGED pool
  <2>1. PoolsOK'
    BY <1>1, <1>2, <1>3, <1>9 DEF PoolsOK
  <2>2. PointersValid' /\ ReplayHasData' /\ GoneIsDisturbed'
    BY <1>3, <1>5, <1>9 DEF IInv, PointersValid, ReplayHasData, GoneIsDisturbed
  <2>3. k \in disturbed
    BY <1>9 DEF IInv, GoneIsDisturbed
  <2>4. CacheFollowsDb'
    BY <1>3, <1>6, <1>9, <2>3 DEF IInv, CacheFollowsDb, Config
  <2>. QED BY <1>1, <1>3, <1>4, <1>7, <1>9, <2>1, <2>2, <2>4, AssociationStep
           DEF ReplayStore, Unaffected, interface, InterfaceOK, AuxOK
<1>. QED BY <1>8, <1>9 DEF ReplayStore

LEMMA EndAssociationStep ==
    ASSUME IInv, EndAssociation
    PROVE  IInv'
<1>1. PoolsOK /\ AuxOK /\ AssocOK /\ InterfaceOK /\ alive \in BOOLEAN
  BY DEF IInv, Types
<1>2. AssocOK' /\ assoc'.todo = {} /\ assoc'.gone = {} /\ assoc'.key = None
  BY NullTypes DEF EndAssociation, NoAssoc, AssocOK
<1>3. PoolsOK'
  BY <1>1 DEF EndAssociation, PoolsOK
<1>4. PointersValid' /\ ReplayHasData' /\ GoneIsDisturbed'
  BY <1>2 DEF PointersValid, ReplayHasData, GoneIsDisturbed
<1>5. CacheFollowsDb'
  BY DEF EndAssociation, IInv, CacheFollowsDb, Config
<1>6. ~Settled
  BY DEF Settled, EndAssociation, NoAssoc
<1>. QED BY <1>1, <1>2, <1>3, <1>4, <1>5, <1>6, AssociationStep
         DEF EndAssociation, Unaffected, interface, InterfaceOK, AuxOK

----------------------------------------------------------------------------
(* The theorems. *)

LEMMA InitInv == Init => IInv
<1>. SUFFICES ASSUME Init PROVE IInv
  OBVIOUS
<1>1. InterfaceOK /\ PoolsOK /\ HandOK /\ AuxOK /\ alive \in BOOLEAN
  BY DEF Init, InterfaceOK, PoolsOK, HandOK, AuxOK
<1>2. AssocOK
  BY NullTypes DEF Init, AssocOK
<1>3. TxOK
  <2>1. [phase |-> "idle", prev |-> <<>>] \in Transactions
    BY DEF Transactions
  <2>. QED BY <2>1 DEF Init, TxOK
<1>4. HandFindsPool /\ PointersValid /\ ReplayHasData /\ MetIsDisturbed /\ GoneIsDisturbed
  BY DEF Init, NoHand, NoAssoc, HandFindsPool, PointersValid, ReplayHasData, MetIsDisturbed,
         GoneIsDisturbed
<1>5. CacheFollowsDb
  BY DEF Init, CacheFollowsDb, Config
<1>. QED BY <1>1, <1>2, <1>3, <1>4, <1>5 DEF IInv, Types

LEMMA StepInv == IInv /\ [Next]_vars => IInv'
<1>. SUFFICES ASSUME IInv, [Next]_vars PROVE IInv'
  OBVIOUS
<1>1. CASE UNCHANGED vars
  <2>1. TxOK'
    BY <1>1 DEF vars, IInv, Types, TxOK
  <2>. QED BY <1>1, <2>1, OtherSteps DEF vars, aux, interface, IInv, Types, InterfaceOK, AuxOK
<1>2. CASE \E c \in Clients : Request(c) \/ Undo(c) \/ OtherFails(c) \/ End(c)
  BY <1>2, RequestStep, UndoStep, OtherFailsStep, EndStep
<1>3. CASE CreateCommit \/ CreateStore \/ SetStore \/ DeleteStore
  BY <1>3, CreateCommitStep, CreateStoreStep, SetStoreStep, DeleteStoreStep
<1>4. CASE \E k \in Pools, names \in SUBSET DOMAIN PortPoolCounters :
             StatReadDies(k, names) \/ \E c \in Clients : StatClear(c, k, names)
  BY <1>4, StatReadDiesStep, StatClearStep
<1>5. CASE \E n \in NpuPorts \cup {None} : Change(n)
  BY <1>5, ChangeStep
<1>6. CASE Associate
  <2>1. CASE Collect \/ CollectRaces \/ ReadDb \/ ReplayStore \/ EndAssociation
    BY <2>1, CollectStep, CollectRacesStep, ReadDbStep, ReplayStoreStep, EndAssociationStep
  <2>2. CASE \E k \in Pools : UseFreed(k) \/ Unbind(k) \/ Bind(k)
    BY <2>2, UseFreedStep, UnbindStep, BindStep
  <2>3. CASE \E k \in Pools, v \in Profiles : ReplayPush(k, v)
    BY <2>3, ReplayPushStep
  <2>. QED BY <1>6, <2>1, <2>2, <2>3 DEF Associate, Profiles
<1>. QED BY <1>1, <1>2, <1>3, <1>4, <1>5, <1>6 DEF Next

\* Types, agreement of cache and database, and what handlers and associations hold of each
\* other's pools, together, are inductive.
THEOREM PoolInvariance == Spec => []IInv
BY InitInv, StepInv, PTL DEF Spec

\* The variables of the pools have their types for all values of the constants.
THEOREM PoolTypes == Spec => []TypeOK
<1>1. IInv => TypeOK
  BY DEF IInv, Types, TypeOK, InterfaceOK, PoolsOK, HandOK, AssocOK, TxOK, AuxOK, Profiles, Ops,
         Hands, Assocs, Transactions
<1>. QED BY PoolInvariance, <1>1, PTL

\* For any number of pools, clients, requests and events: a pool that no request was about
\* while an event was pending is cached as it is recorded, at every moment
\* (nas_qos_cps_api_port_pool_* and nas_qos_port_pool_association).
THEOREM PoolsFollowDb == Spec => []CacheFollowsDb
<1>1. IInv => CacheFollowsDb
  BY DEF IInv
<1>. QED BY PoolInvariance, <1>1, PTL

----------------------------------------------------------------------------
(* Rollbacks.  What a transaction saved leads back, pool by pool, from the   *)
(* profiles of the cache to those of its beginning, while no event is        *)
(* pending; a handler that undoes is about the object saved last.            *)

Configs == [Pools -> Profiles \cup {None}]

\* Undoing s leads from the profiles now to the profiles then.
Undoes(s, now, then) ==
    /\ s.op = "delete" <=> now[s.key] = None
    /\ then = [now EXCEPT ![s.key] = IF s.op = "create" THEN None ELSE s.val]

INSTANCE Trails WITH Entries <- Saved, States <- Configs

\* The transaction of c, if nothing disturbed it, can be undone.
TrackedBy(c) ==
    /\ tx[c].phase = "idle" => tx[c].prev = <<>>
    /\ before[c] # None => LeadsBack(tx[c].prev, Config, before[c])

\* The handler of c undoes the object saved last.
Inverts(c) ==
    /\ tx[c].prev # <<>>
    /\ LET s == tx[c].prev[Len(tx[c].prev)] IN
          /\ hand.op = Opposite(s.op) /\ hand.key = s.key
          /\ hand.op # "delete" => hand.data.val = s.val

\* While a handler is at work only its transaction can be undone.
HandFits ==
    hand # NoHand =>
       /\ hand.step = "commit" => hand.op = "create"
       /\ \A d \in Clients \ {hand.by} : before[d] = None
       /\ before[hand.by] # None /\ Undoing(hand.by) => Inverts(hand.by)

NoneWhilePending == Settled \/ \A c \in Clients : before[c] = None

Tracked == (\A c \in Clients : TrackedBy(c)) /\ HandFits /\ NoneWhilePending

UndoInv == IInv /\ Tracked

----------------------------------------------------------------------------
(* The trails of the clients. *)

LEMMA ConfigIs ==
    ASSUME PoolsOK
    PROVE  Config \in Configs /\ \A k \in Pools : Config[k] = None <=> pool[k] = None
BY PoolFields DEF Configs, Config, Profiles

LEMMA Parts ==
    ASSUME IInv
    PROVE  PoolsOK /\ HandOK /\ TxOK /\ AuxOK /\ AssocOK
BY DEF IInv, Types

LEMMA TxFields ==
    ASSUME TxOK, NEW c \in Clients
    PROVE  /\ tx[c].prev \in Seq(Saved) /\ tx[c].phase \in {"idle", "open", "undo"}
           /\ tx[c].prev # <<>> =>
                 LET s == tx[c].prev[Len(tx[c].prev)] IN
                 s \in Saved /\ s.key \in Pools /\ s.op \in Ops /\ s.val \in Profiles
<1>1. tx[c] \in Transactions
  BY DEF TxOK
<1>2. tx[c].prev \in Seq(Saved) /\ tx[c].phase \in {"idle", "open", "undo"}
  BY <1>1 DEF Transactions
<1>3. tx[c].prev # <<>> => tx[c].prev[Len(tx[c].prev)] \in Saved
  BY <1>2
<1>. QED BY <1>2, <1>3 DEF Saved, Ops, Profiles

\* From its first operation on a transaction leads back to what it found.
LEMMA StartTracked ==
    ASSUME NEW c \in Clients, UndoInv, Start(c) # None
    PROVE  Start(c) \in Configs /\ LeadsBack(tx[c].prev, Config, Start(c))
<1>1. PoolsOK /\ AuxOK
  BY Parts DEF UndoInv
<1>2. CASE tx[c].phase = "idle"
  <2>1. tx[c].prev = <<>> /\ Start(c) = Config
    BY <1>2 DEF UndoInv, Tracked, TrackedBy, Start
  <2>. QED BY <1>1, <2>1, ConfigIs, EmptyTrail
<1>3. CASE tx[c].phase # "idle"
  BY <1>1, <1>3 DEF UndoInv, Tracked, TrackedBy, Start, AuxOK, Configs
<1>. QED BY <1>2, <1>3

\* Transactions that nobody can undo any more are tracked.
LEMMA LostTracked ==
    ASSUME NEW d \in Clients, UndoInv, tx'[d] = tx[d], before'[d] = None
    PROVE  TrackedBy(d)'
BY DEF UndoInv, Tracked, TrackedBy

LEMMA SameTracked ==
    ASSUME NEW d \in Clients, UndoInv, tx'[d] = tx[d],
           before'[d] \in {None, before[d]}, Config' = Config
    PROVE  TrackedBy(d)'
BY DEF UndoInv, Tracked, TrackedBy

\* What does nothing to the profiles of a transaction but may give up hope.
LEMMA QuietTracked ==
    ASSUME UndoInv, tx' = tx, hand' = hand, Config' = Config,
           \A d \in Clients : before'[d] \in {None, before[d]},
           NoneWhilePending'
    PROVE  Tracked'
<1>1. \A d \in Clients : TrackedBy(d)'
  BY SameTracked
<1>2. HandFits'
  <2>1. hand # NoHand => hand.by \in Clients
    BY Parts DEF UndoInv, HandOK, Hands
  <2>. QED BY <2>1 DEF UndoInv, Tracked, HandFits, Undoing, Inverts
<1>. QED BY <1>1, <1>2 DEF Tracked

\* While an event is pending no transaction can be undone, whatever is bound.
LEMMA PendingTracked ==
    ASSUME UndoInv, ~Settled, tx' = tx, hand' = hand, before' = before
    PROVE  Tracked'
<1>1. \A d \in Clients : before[d] = None
  BY DEF UndoInv, Tracked, NoneWhilePending
<1>2. \A d \in Clients : TrackedBy(d)'
  BY <1>1, LostTracked
<1>3. HandFits'
  <2>1. hand # NoHand => hand.by \in Clients
    BY Parts DEF UndoInv, HandOK, Hands
  <2>. QED BY <1>1, <2>1 DEF UndoInv, Tracked, HandFits
<1>. QED BY <1>1, <1>2, <1>3 DEF Tracked, NoneWhilePending

\* The operation of c is over: what it means for the others.
LEMMA OverTracked ==
    ASSUME UndoInv, NEW c \in Clients, hand.by = c, hand # NoHand, hand' = NoHand,
           before'[c] \in {None, before[c]}, UNCHANGED <<events, assoc>>,
           \A d \in Clients \ {c} : before'[d] \in {None, before[d]},
           \A d \in Clients \ {c} : tx'[d] = tx[d],
           TrackedBy(c)'
    PROVE  Tracked'
<1>1. \A d \in Clients \ {c} : before'[d] = None
  BY DEF UndoInv, Tracked, HandFits
<1>2. \A d \in Clients : TrackedBy(d)'
  BY <1>1, LostTracked
<1>3. NoneWhilePending'
  BY <1>1 DEF UndoInv, Tracked, NoneWhilePending, Settled
<1>. QED BY <1>2, <1>3 DEF Tracked, HandFits

LEMMA SucceedIs ==
    ASSUME TxOK, NEW c \in Clients, NEW q \in Seq(Saved), Succeed(c, q)
    PROVE  /\ \A d \in Clients \ {c} : tx'[d] = tx[d]
           /\ Undoing(c) => tx'[c].phase = "undo" /\ tx'[c].prev = Popped(tx[c].prev)
           /\ ~Undoing(c) => tx'[c].phase = "open" /\ tx'[c].prev = tx[c].prev \o q
BY DEF TxOK, Succeed

LEMMA FailIs ==
    ASSUME TxOK, NEW c \in Clients, Fail(c)
    PROVE  /\ \A d \in Clients \ {c} : tx'[d] = tx[d]
           /\ tx'[c].phase = "undo"
           /\ Undoing(c) => tx'[c].prev = Popped(tx[c].prev)
           /\ ~Undoing(c) => tx'[c].prev = tx[c].prev
BY DEF TxOK, Fail

\* An operation that succeeds makes its trail longer.
LEMMA DoneTracked ==
    ASSUME UndoInv, PoolsOK', NEW c \in Clients, ~Undoing(c), NEW s \in Saved,
           Succeed(c, <<s>>), before'[c] = before[c], Undoes(s, Config', Config)
    PROVE  TrackedBy(c)'
<1>1. PoolsOK /\ TxOK /\ AuxOK
  BY Parts DEF UndoInv
<1>2. <<s>> \in Seq(Saved) /\ tx[c].prev \in Seq(Saved)
  BY <1>1, TxFields
<1>3. tx'[c].phase = "open" /\ tx'[c].prev = Append(tx[c].prev, s)
  <2>1. tx[c].prev \o <<s>> = Append(tx[c].prev, s)
    BY <1>2
  <2>. QED BY <1>1, <1>2, <2>1, SucceedIs
<1>4. Config \in Configs /\ Config' \in Configs
  <2>1. (PoolsOK => Config \in Configs)'
    BY ConfigIs, PTL
  <2>. QED BY <1>1, <2>1, ConfigIs
<1>5. ASSUME before[c] # None
      PROVE  LeadsBack(Append(tx[c].prev, s), Config', before[c])
  <2>1. LeadsBack(tx[c].prev, Config, before[c]) /\ before[c] \in Configs
    BY <1>1, <1>5 DEF UndoInv, Tracked, TrackedBy, AuxOK, Configs
  <2>. QED BY <1>2, <1>4, <2>1, LongerTrail
<1>. QED BY <1>3, <1>5 DEF TrackedBy

\* An operation that undoes follows the trail back.
LEMMA UndoneTracked ==
    ASSUME UndoInv, NEW c \in Clients, Undoing(c), NEW q \in Seq(Saved), Succeed(c, q),
           hand # NoHand, hand.by = c,
           before'[c] = before[c],
           Inverts(c) => \A then : Undoes(tx[c].prev[Len(tx[c].prev)], Config, then)
                                     => Config' = then
    PROVE  TrackedBy(c)'
<1>. DEFINE p == tx[c].prev
<1>1. TxOK
  BY Parts DEF UndoInv
<1>2. p \in Seq(Saved)
  BY <1>1, TxFields
<1>3. tx'[c].phase = "undo" /\ tx'[c].prev = Popped(p)
  BY <1>1, SucceedIs
<1>4. ASSUME before[c] # None PROVE LeadsBack(Popped(p), Config', before[c])
  <2>1. Inverts(c) /\ p # <<>> /\ LeadsBack(p, Config, before[c])
    BY <1>4 DEF UndoInv, Tracked, TrackedBy, HandFits, Inverts
  <2>2. PICK mid \in Configs :
           Undoes(p[Len(p)], Config, mid) /\ LeadsBack(SubSeq(p, 1, Len(p) - 1), mid, before[c])
    <3>. HIDE DEF p
    <3>. QED BY <1>2, <2>1, ShorterTrail
  <2>. QED BY <2>1, <2>2 DEF Popped
<1>. QED BY <1>3, <1>4 DEF TrackedBy

----------------------------------------------------------------------------
(* The second halves of the handlers. *)

LEMMA HandIs ==
    ASSUME IInv, hand.step \in {"commit", "store"}
    PROVE  /\ hand # NoHand /\ hand.by \in Clients /\ hand.key \in Pools /\ hand.op \in Ops
           /\ hand.data \in PortPool /\ hand.data # None /\ hand.data.val \in Profiles
<1>1. HandOK
  BY Parts
<1>. QED BY <1>1, HandFields DEF NoHand, Hands

\* The profiles of the cache follow a pool that is written.
LEMMA WriteConfig ==
    ASSUME PoolsOK, NEW k \in Pools, NEW o \in PortPool \cup {None},
           pool' = [pool EXCEPT ![k] = o]
    PROVE  /\ PoolsOK => Config' = [Config EXCEPT ![k] = IF o = None THEN None ELSE o.val]
           /\ Config'[k] = IF o = None THEN None ELSE o.val
BY DEF PoolsOK, Config

LEMMA SavedIs ==
    ASSUME NEW op \in Ops, NEW k \in Pools, NEW v \in Profiles
    PROVE  [op |-> op, key |-> k, val |-> v] \in Saved
BY DEF Saved, Ops, Profiles

LEMMA CreateCommitTracked ==
    ASSUME UndoInv, CreateCommit
    PROVE  Tracked'
<1>. SUFFICES ASSUME NEW c, c = hand.by PROVE Tracked'
  OBVIOUS
<1>. DEFINE k == hand.key
            d == hand.data
<1>1. PoolsOK /\ TxOK /\ AuxOK /\ c \in Clients /\ hand # NoHand /\ k \in Pools
  BY Parts, HandIs DEF UndoInv, CreateCommit
<1>2. Config' = Config /\ UNCHANGED <<events, assoc>>
  BY DEF CreateCommit, Config, interface
<1>3. CASE /\ tx' = tx /\ before' = before
           /\ hand' # NoHand /\ hand'.by = c /\ hand'.op = "create"
           /\ hand'.key = k /\ hand'.data.val = d.val
  <2>1. \A e \in Clients : TrackedBy(e)'
    BY <1>2, <1>3, SameTracked
  <2>0. hand.op = "create"
    BY <1>1 DEF UndoInv, Tracked, HandFits, CreateCommit
  <2>2. HandFits'
    BY <1>1, <1>3, <2>0 DEF UndoInv, Tracked, HandFits, Undoing, Inverts
  <2>3. NoneWhilePending'
    BY <1>2, <1>3 DEF UndoInv, Tracked, NoneWhilePending, Settled
  <2>. QED BY <2>1, <2>2, <2>3 DEF Tracked
<1>4. CASE /\ Fail(c) /\ hand' = NoHand
           /\ before' = IF Undoing(c) THEN Only(c, None) ELSE before
  <2>1. \A e \in Clients : before'[e] \in {None, before[e]}
    BY <1>4 DEF Only
  <2>2. tx'[c].phase = "undo" /\ \A e \in Clients \ {c} : tx'[e] = tx[e]
    BY <1>1, <1>4, FailIs
  <2>3. TrackedBy(c)'
    <3>1. CASE Undoing(c)
      BY <1>1, <1>4, <2>2, <3>1 DEF Only, TrackedBy
    <3>2. CASE ~Undoing(c)
      <4>1. tx'[c].prev = tx[c].prev /\ before'[c] = before[c]
        BY <1>1, <1>4, <3>2, FailIs
      <4>. QED BY <1>1, <1>2, <2>2, <4>1 DEF UndoInv, Tracked, TrackedBy
    <3>. QED BY <3>1, <3>2
  <2>. QED BY <1>1, <1>2, <1>4, <2>1, <2>2, <2>3, OverTracked
<1>5. CASE intf = None /\ Hold(c, "create", k, "store", d, FALSE) /\ UNCHANGED <<npu, tx, before>>
  BY <1>3, <1>5 DEF Hold, NoHand
<1>6. CASE /\ \E h \in Handles : Hold(c, "create", k, "store",
                       [val |-> d.val, at |-> d.at, made |-> TRUE, obj |-> h], TRUE)
           /\ UNCHANGED <<tx, before>>
  BY <1>3, <1>6 DEF Hold, NoHand
<1>. QED BY <1>4, <1>5, <1>6 DEF CreateCommit

LEMMA CreateStoreTracked ==
    ASSUME UndoInv, IInv', CreateStore
    PROVE  Tracked'
<1>. SUFFICES ASSUME NEW c, c = hand.by PROVE Tracked'
  OBVIOUS
<1>. DEFINE k == hand.key
            d == hand.data
            s == [op |-> "create", key |-> k, val |-> Default]
<1>1. /\ PoolsOK /\ TxOK /\ AuxOK /\ PoolsOK' /\ c \in Clients /\ hand # NoHand /\ k \in Pools
      /\ d \in PortPool /\ d # None /\ d.val \in Profiles
  BY Parts, HandIs DEF UndoInv, CreateStore, IInv, Types
<1>2. hand' = NoHand /\ before' = before /\ UNCHANGED <<events, assoc>> /\ hand.op = "create"
  BY DEF CreateStore, interface
<1>3. s \in Saved /\ <<s>> \in Seq(Saved)
  BY <1>1, SavedIs DEF Profiles, Ops
<1>4. Config \in Configs /\ \A j \in Pools : Config[j] = None <=> pool[j] = None
  BY <1>1, ConfigIs
<1>. HIDE DEF s
<1>5. CASE /\ pool[k] = None /\ pool' = [pool EXCEPT ![k] = d] /\ Succeed(c, <<s>>)
  <2>1. Config' = [Config EXCEPT ![k] = d.val]
    BY <1>1, <1>5, WriteConfig
  <2>2. CASE Undoing(c)
    <3>1. ASSUME Inverts(c), NEW then, Undoes(tx[c].prev[Len(tx[c].prev)], Config, then)
          PROVE  Config' = then
      <4>. DEFINE l == tx[c].prev[Len(tx[c].prev)]
      <4>1. l.op \in Ops /\ Opposite(l.op) = "create" /\ l.key = k /\ l.val = d.val
        BY <1>1, <1>2, <3>1, TxFields DEF Inverts
      <4>2. l.op = "delete"
        BY <4>1 DEF Opposite, Ops
      <4>. QED BY <2>1, <3>1, <4>1, <4>2 DEF Undoes
    <3>2. TrackedBy(c)'
      BY <1>1, <1>2, <1>3, <1>5, <2>2, <3>1, UndoneTracked
    <3>. QED BY <1>1, <1>2, <1>3, <1>5, <3>2, SucceedIs, OverTracked
  <2>3. CASE ~Undoing(c)
    <3>1. Undoes(s, Config', Config)
      BY <1>1, <1>4, <1>5, <2>1 DEF Undoes, Configs, Profiles, s
    <3>2. TrackedBy(c)'
      BY <1>1, <1>2, <1>3, <1>5, <2>3, <3>1, DoneTracked
    <3>. QED BY <1>1, <1>2, <1>3, <1>5, <3>2, SucceedIs, OverTracked
  <2>. QED BY <2>2, <2>3
<1>6. CASE pool[k] # None /\ Fail(c) /\ UNCHANGED pool
  <2>1. tx'[c].phase = "undo" /\ \A e \in Clients \ {c} : tx'[e] = tx[e]
    BY <1>1, <1>6, FailIs
  <2>2. Config' = Config
    BY <1>6 DEF Config
  <2>3. CASE ~Undoing(c)
    <3>1. tx'[c].prev = tx[c].prev
      BY <1>1, <1>6, <2>3, FailIs
    <3>2. TrackedBy(c)'
      BY <1>1, <1>2, <2>1, <2>2, <3>1 DEF UndoInv, Tracked, TrackedBy
    <3>. QED BY <1>1, <1>2, <2>1, <3>2, OverTracked
  <2>4. CASE Undoing(c)
    <3>1. before[c] = None
      <4>. SUFFICES ASSUME before[c] # None PROVE FALSE
        OBVIOUS
      <4>. DEFINE p == tx[c].prev
                  l == p[Len(p)]
      <4>1. Inverts(c) /\ LeadsBack(p, Config, before[c])
        BY <1>1, <2>4 DEF UndoInv, Tracked, TrackedBy, HandFits
      <4>2. p \in Seq(Saved) /\ p # <<>>
        BY <1>1, <4>1, TxFields DEF Inverts
      <4>3. l.op \in Ops /\ Opposite(l.op) = "create" /\ l.key = k
        BY <1>1, <1>2, <4>1, <4>2, TxFields DEF Inverts
      <4>4. l.op = "delete"
        BY <4>3 DEF Opposite, Ops
      <4>5. \E mid \in Configs : Undoes(l, Config, mid)
        <5>. HIDE DEF p
        <5>. QED BY <4>1, <4>2, ShorterTrail
      <4>. QED BY <1>1, <1>4, <1>6, <4>3, <4>4, <4>5 DEF Undoes
    <3>2. TrackedBy(c)'
      BY <1>2, <2>1, <3>1 DEF TrackedBy
    <3>. QED BY <1>1, <1>2, <2>1, <3>2, OverTracked
  <2>. QED BY <2>3, <2>4
<1>. QED BY <1>5, <1>6 DEF CreateStore, s

LEMMA SetStoreTracked ==
    ASSUME UndoInv, IInv', SetStore
    PROVE  Tracked'
<1>. SUFFICES ASSUME NEW c, c = hand.by PROVE Tracked'
  OBVIOUS
<1>. DEFINE k == hand.key
            d == hand.data
            s == [op |-> "set", key |-> k, val |-> pool[k].val]
            q == IF hand.pushed THEN <<s>> ELSE <<>>
<1>1. /\ PoolsOK /\ TxOK /\ AuxOK /\ PoolsOK' /\ c \in Clients /\ hand # NoHand /\ k \in Pools
      /\ d \in PortPool /\ d # None /\ d.val \in Profiles
  BY Parts, HandIs DEF UndoInv, SetStore, IInv, Types
<1>2. hand' = NoHand /\ UNCHANGED <<events, assoc>> /\ hand.op = "set" /\ pool[k] # None
  BY DEF SetStore, interface, UndoInv, IInv, HandFindsPool
<1>3. s \in Saved /\ <<s>> \in Seq(Saved) /\ q \in Seq(Saved)
  <2>1. pool[k].val \in Profiles
    BY <1>1, <1>2, PoolFields
  <2>2. s \in Saved
    BY <1>1, <2>1, SavedIs DEF Ops
  <2>. HIDE DEF s
  <2>. QED BY <2>2
<1>4. Config \in Configs /\ \A j \in Pools : Config[j] = None <=> pool[j] = None
  BY <1>1, ConfigIs
<1>5. Config' = [Config EXCEPT ![k] = d.val]
  BY <1>1, WriteConfig DEF SetStore
<1>6. Succeed(c, q)
  BY DEF SetStore
<1>7. \A e \in Clients \ {c} : tx'[e] = tx[e]
  <2>. HIDE DEF q
  <2>. QED BY <1>1, <1>3, <1>6, SucceedIs
<1>8. CASE ~hand.pushed
  <2>1. before' = Only(c, None)
    BY <1>8 DEF SetStore
  <2>2. tx'[c].phase # "idle"
    <3>. HIDE DEF q
    <3>. QED BY <1>1, <1>3, <1>6, SucceedIs
  <2>3. TrackedBy(c)'
    BY <1>1, <2>1, <2>2 DEF TrackedBy, Only
  <2>. QED BY <1>1, <1>2, <1>7, <2>1, <2>3, OverTracked DEF Only
<1>9. CASE hand.pushed
  <2>1. before' = before /\ Succeed(c, <<s>>)
    BY <1>9 DEF SetStore
  <2>2. CASE Undoing(c)
    <3>1. ASSUME Inverts(c), NEW then, Undoes(tx[c].prev[Len(tx[c].prev)], Config, then)
          PROVE  Config' = then
      <4>. DEFINE l == tx[c].prev[Len(tx[c].prev)]
      <4>1. l.op \in Ops /\ Opposite(l.op) = "set" /\ l.key = k /\ l.val = d.val
        BY <1>1, <1>2, <3>1, TxFields DEF Inverts
      <4>2. l.op = "set"
        BY <4>1 DEF Opposite, Ops
      <4>. QED BY <1>5, <3>1, <4>1, <4>2 DEF Undoes
    <3>2. TrackedBy(c)'
      BY <1>1, <1>3, <2>1, <2>2, <3>1, UndoneTracked
    <3>. QED BY <1>1, <1>2, <1>7, <2>1, <3>2, OverTracked
  <2>3. CASE ~Undoing(c)
    <3>1. Undoes(s, Config', Config)
      <4>1. Config[k] = pool[k].val /\ Config'[k] = d.val
        BY <1>1, <1>2, <1>4, <1>5 DEF Config, Configs
      <4>2. Config = [Config' EXCEPT ![k] = pool[k].val]
        BY <1>1, <1>4, <1>5, <4>1 DEF Configs
      <4>. QED BY <1>1, <4>1, <4>2 DEF Undoes, Profiles
    <3>2. TrackedBy(c)'
      <4>. HIDE DEF s
      <4>. QED BY <1>1, <1>3, <2>1, <2>3, <3>1, DoneTracked
    <3>. QED BY <1>1, <1>2, <1>7, <2>1, <3>2, OverTracked
  <2>. QED BY <2>2, <2>3
<1>. QED BY <1>8, <1>9 DEF UndoInv, IInv, Types, HandOK, Hands

LEMMA DeleteStoreTracked ==
    ASSUME UndoInv, IInv', DeleteStore
    PROVE  Tracked'
<1>. SUFFICES ASSUME NEW c, c = hand.by PROVE Tracked'
  OBVIOUS
<1>. DEFINE k == hand.key
            s == [op |-> "delete", key |-> k, val |-> pool[k].val]
<1>1. /\ PoolsOK /\ TxOK /\ AuxOK /\ PoolsOK' /\ c \in Clients /\ hand # NoHand /\ k \in Pools
  BY Parts, HandIs DEF UndoInv, DeleteStore, IInv, Types
<1>2. /\ hand' = NoHand /\ events' = events /\ hand.op = "delete" /\ pool[k] # None
      /\ before' = before
  BY DEF DeleteStore, interface, aux, UndoInv, IInv, HandFindsPool
<1>3. s \in Saved /\ <<s>> \in Seq(Saved)
  <2>1. pool[k].val \in Profiles
    BY <1>1, <1>2, PoolFields
  <2>2. s \in Saved
    BY <1>1, <2>1, SavedIs DEF Ops
  <2>. HIDE DEF s
  <2>. QED BY <2>2
<1>4. Config \in Configs /\ \A j \in Pools : Config[j] = None <=> pool[j] = None
  BY <1>1, ConfigIs
<1>5. Config' = [Config EXCEPT ![k] = None]
  BY <1>1, WriteConfig DEF DeleteStore
<1>6. Succeed(c, <<s>>) /\ \A e \in Clients \ {c} : tx'[e] = tx[e]
  <2>1. Succeed(c, <<s>>)
    BY DEF DeleteStore
  <2>. HIDE DEF s
  <2>. QED BY <1>1, <1>3, <2>1, SucceedIs
<1>7. TrackedBy(c)'
  <2>1. CASE Undoing(c)
    <3>1. ASSUME Inverts(c), NEW then, Undoes(tx[c].prev[Len(tx[c].prev)], Config, then)
          PROVE  Config' = then
      <4>. DEFINE l == tx[c].prev[Len(tx[c].prev)]
      <4>1. l.op \in Ops /\ Opposite(l.op) = "delete" /\ l.key = k
        BY <1>1, <1>2, <3>1, TxFields DEF Inverts
      <4>2. l.op = "create"
        BY <4>1 DEF Opposite, Ops
      <4>. QED BY <1>5, <3>1, <4>1, <4>2 DEF Undoes
    <3>. QED BY <1>1, <1>2, <1>3, <1>6, <2>1, <3>1, UndoneTracked
  <2>2. CASE ~Undoing(c)
    <3>1. Undoes(s, Config', Config)
      <4>1. Config[k] = pool[k].val /\ Config'[k] = None
        BY <1>1, <1>2, <1>4, <1>5 DEF Config, Configs
      <4>2. Config = [Config' EXCEPT ![k] = pool[k].val]
        BY <1>1, <1>4, <1>5, <4>1 DEF Configs
      <4>. QED BY <1>1, <4>1, <4>2 DEF Undoes
    <3>. HIDE DEF s
    <3>. QED BY <1>1, <1>2, <1>3, <1>6, <2>2, <3>1, DoneTracked
  <2>. QED BY <2>1, <2>2
<1>8. NoneWhilePending'
  <2>1. CASE \A d \in Clients : before[d] = None
    BY <1>2, <2>1 DEF NoneWhilePending
  <2>2. CASE Settled
    <3>1. assoc' = assoc
      BY <1>1, <2>2 DEF DeleteStore, Invalidate, Settled, NoAssoc
    <3>. QED BY <1>2, <2>2, <3>1 DEF NoneWhilePending, Settled
  <2>. QED BY <2>1, <2>2 DEF UndoInv, Tracked, NoneWhilePending
<1>9. \A e \in Clients \ {c} : before'[e] = None
  BY <1>1, <1>2 DEF UndoInv, Tracked, HandFits
<1>10. \A e \in Clients : TrackedBy(e)'
  BY <1>6, <1>7, <1>9, LostTracked
<1>. QED BY <1>2, <1>8, <1>10 DEF Tracked, HandFits

----------------------------------------------------------------------------
(* The other actions. *)

LEMMA BeginTracked ==
    ASSUME UndoInv, NEW c \in Clients, NEW op \in Ops, NEW k \in Pools, NEW v \in Profiles,
           Begin(c, op, k, v),
           Undoing(c) => /\ tx[c].prev # <<>>
                         /\ LET s == tx[c].prev[Len(tx[c].prev)] IN
                            op = Opposite(s.op) /\ k = s.key /\ v = s.val
    PROVE  Tracked'
<1>1. PoolsOK /\ TxOK /\ AuxOK
  BY Parts DEF UndoInv
<1>2. hand = NoHand /\ UNCHANGED <<events, assoc>> /\ Config' = Config
  BY DEF Begin, interface, Config
<1>3. CASE /\ \/ op = "create" /\ CreateLook(c, k, v)
              \/ op = "set" /\ SetPush(c, k, v)
              \/ op = "delete" /\ DeletePush(c, k)
           /\ before' = Only(c, IF Settled THEN Start(c) ELSE None)
  <2>1. tx' = tx
    BY <1>3 DEF CreateLook, SetPush, DeletePush
  <2>2. /\ hand'.by = c /\ hand'.op = op /\ hand'.key = k
        /\ hand'.op # "delete" => hand'.data.val = v
        /\ hand'.step = "commit" => op = "create"
    <3>1. CASE op = "create" /\ CreateLook(c, k, v)
      BY <3>1 DEF CreateLook, Hold
    <3>2. CASE op = "set" /\ SetPush(c, k, v)
      BY <3>2 DEF SetPush, Hold, Copy
    <3>3. CASE op = "delete" /\ DeletePush(c, k)
      BY <3>3 DEF DeletePush, Hold
    <3>. QED BY <1>3, <3>1, <3>2, <3>3
  <2>3. before'[c] = (IF Settled THEN Start(c) ELSE None)
        /\ \A d \in Clients \ {c} : before'[d] = None
    BY <1>3 DEF Only
  <2>4. TrackedBy(c)'
    BY <1>2, <2>1, <2>3, StartTracked DEF UndoInv, Tracked, TrackedBy
  <2>5. \A d \in Clients \ {c} : TrackedBy(d)'
    BY <2>1, <2>3, LostTracked
  <2>6. NoneWhilePending'
    BY <1>2, <2>3 DEF NoneWhilePending, Settled
  <2>7. HandFits'
    BY <2>1, <2>2, <2>3 DEF HandFits, Inverts, Undoing
  <2>. QED BY <2>4, <2>5, <2>6, <2>7 DEF Tracked
<1>4. CASE /\ SetOrDeleteFails(c, op, k)
           /\ before' = Only(c, IF Settled /\ ~Undoing(c) THEN Start(c) ELSE None)
  <2>1. Fail(c) /\ hand' = NoHand
    BY <1>2, <1>4 DEF SetOrDeleteFails
  <2>2. before'[c] = (IF Settled /\ ~Undoing(c) THEN Start(c) ELSE None)
        /\ \A d \in Clients \ {c} : before'[d] = None
    BY <1>4 DEF Only
  <2>3. /\ \A d \in Clients \ {c} : tx'[d] = tx[d]
        /\ tx'[c].phase = "undo" /\ (~Undoing(c) => tx'[c].prev = tx[c].prev)
    BY <1>1, <2>1, FailIs
  <2>4. TrackedBy(c)'
    BY <1>2, <2>2, <2>3, StartTracked DEF TrackedBy
  <2>5. \A d \in Clients \ {c} : TrackedBy(d)'
    BY <2>2, <2>3, LostTracked
  <2>6. NoneWhilePending'
    BY <1>2, <2>2 DEF NoneWhilePending, Settled
  <2>. QED BY <2>1, <2>4, <2>5, <2>6 DEF Tracked, HandFits
<1>. QED BY <1>3, <1>4 DEF Begin

LEMMA RequestTracked ==
    ASSUME UndoInv, NEW c \in Clients, Request(c)
    PROVE  Tracked'
<1>1. ~Undoing(c)
  BY DEF Request, Undoing
<1>. QED BY <1>1, BeginTracked DEF Request, Ops, Profiles

LEMMA UndoTracked ==
    ASSUME UndoInv, NEW c \in Clients, Undo(c)
    PROVE  Tracked'
<1>. DEFINE s == tx[c].prev[Len(tx[c].prev)]
<1>1. tx[c].prev # <<>> /\ Begin(c, Opposite(s.op), s.key, s.val)
  BY DEF Undo
<1>2. s.key \in Pools /\ s.op \in Ops /\ s.val \in Profiles
  BY <1>1, Parts, TxFields DEF UndoInv
<1>3. Opposite(s.op) \in Ops
  BY DEF Opposite, Ops
<1>. QED BY <1>1, <1>2, <1>3, BeginTracked

LEMMA OtherFailsTracked ==
    ASSUME UndoInv, NEW c \in Clients, OtherFails(c)
    PROVE  Tracked'
<1>1. TxOK /\ Config' = Config /\ ~Undoing(c) /\ Fail(c) /\ hand' = hand /\ before' = before
  BY Parts DEF UndoInv, OtherFails, Config, Undoing, aux
<1>2. /\ \A d \in Clients \ {c} : tx'[d] = tx[d]
      /\ tx'[c].phase = "undo" /\ tx'[c].prev = tx[c].prev
  BY <1>1, FailIs
<1>3. \A d \in Clients : TrackedBy(d)'
  BY <1>1, <1>2 DEF UndoInv, Tracked, TrackedBy
<1>4. HandFits'
  <2>1. hand # NoHand => hand.by \in Clients \ {c}
    BY Parts DEF UndoInv, HandOK, Hands, OtherFails
  <2>. QED BY <1>1, <1>2, <2>1 DEF UndoInv, Tracked, HandFits, Undoing, Inverts
<1>5. NoneWhilePending'
  BY <1>1 DEF UndoInv, Tracked, NoneWhilePending, Settled, OtherFails, interface
<1>. QED BY <1>3, <1>4, <1>5 DEF Tracked

LEMMA EndTracked ==
    ASSUME UndoInv, NEW c \in Clients, End(c)
    PROVE  Tracked'
<1>1. TxOK /\ AuxOK /\ Config' = Config /\ hand' = hand
  BY Parts DEF UndoInv, End, Config
<1>2. /\ tx'[c] = [phase |-> "idle", prev |-> <<>>] /\ before'[c] = None
      /\ \A d \in Clients \ {c} : tx'[d] = tx[d] /\ before'[d] = before[d]
  BY <1>1 DEF End, TxOK, AuxOK
<1>3. \A d \in Clients : TrackedBy(d)'
  BY <1>1, <1>2 DEF UndoInv, Tracked, TrackedBy
<1>4. HandFits'
  <2>1. hand # NoHand => hand.by \in Clients \ {c}
    BY Parts DEF UndoInv, HandOK, Hands, End
  <2>. QED BY <1>1, <1>2, <2>1 DEF UndoInv, Tracked, HandFits, Undoing, Inverts
<1>5. NoneWhilePending'
  BY <1>2 DEF UndoInv, Tracked, NoneWhilePending, Settled, End, interface
<1>. QED BY <1>3, <1>4, <1>5 DEF Tracked

LEMMA StatClearTracked ==
    ASSUME UndoInv, NEW c \in Clients, NEW k, NEW names, StatClear(c, k, names)
    PROVE  Tracked'
<1>1. TxOK /\ AuxOK /\ Config' = Config /\ hand' = NoHand /\ ~Undoing(c)
  BY Parts DEF UndoInv, StatClear, Config, Undoing
<1>2. /\ before'[c] = IF Settled THEN Start(c) ELSE None
      /\ \A d \in Clients \ {c} : before'[d] = before[d]
  BY <1>1 DEF StatClear, AuxOK
<1>3. /\ \A d \in Clients \ {c} : tx'[d] = tx[d]
      /\ tx'[c].prev = tx[c].prev /\ (tx'[c].phase = "idle" => tx[c].phase = "idle")
  <2>1. CASE tx' = tx
    BY <2>1
  <2>2. CASE Succeed(c, <<>>)
    <3>1. tx[c].prev \o <<>> = tx[c].prev /\ <<>> \in Seq(Saved)
      BY <1>1, TxFields
    <3>. QED BY <1>1, <2>2, <3>1, SucceedIs
  <2>3. CASE Fail(c)
    BY <1>1, <2>3, FailIs
  <2>. QED BY <2>1, <2>2, <2>3 DEF StatClear
<1>4. TrackedBy(c)'
  BY <1>1, <1>2, <1>3, StartTracked DEF UndoInv, Tracked, TrackedBy
<1>5. \A d \in Clients \ {c} : TrackedBy(d)'
  BY <1>1, <1>2, <1>3, SameTracked
<1>6. NoneWhilePending'
  BY <1>2 DEF UndoInv, Tracked, NoneWhilePending, Settled, StatClear, interface
<1>. QED BY <1>1, <1>4, <1>5, <1>6 DEF Tracked, HandFits

LEMMA ChangeTracked ==
    ASSUME UndoInv, NEW n \in NpuPorts \cup {None}, Change(n)
    PROVE  Tracked'
<1>1. /\ tx' = tx /\ hand' = hand /\ Config' = Config
      /\ \A d \in Clients : before'[d] = None
  BY DEF Change, Config
<1>. QED BY <1>1, QuietTracked DEF NoneWhilePending

\* The association runs while no transaction can be undone.
LEMMA AssociateTracked ==
    ASSUME UndoInv, Associate
    PROVE  Tracked'
<1>1. ~Settled
  <2>1. CASE Collect \/ CollectRaces
    BY <2>1 DEF Collect, CollectRaces, Settled
  <2>2. CASE assoc.step # "none"
    BY <2>2 DEF Settled, NoAssoc
  <2>3. CASE ReadDb \/ ReplayStore \/ EndAssociation
    BY <2>2, <2>3 DEF ReadDb, ReplayStore, EndAssociation
  <2>4. CASE \E k \in Pools : UseFreed(k) \/ Unbind(k) \/ Bind(k)
    BY <2>2, <2>4 DEF UseFreed, Unbind, Bind
  <2>5. CASE \E k \in Pools, v \in Vals \cup {Default} : ReplayPush(k, v)
    BY <2>2, <2>5 DEF ReplayPush
  <2>. QED BY <2>1, <2>3, <2>4, <2>5 DEF Associate
<1>2. tx' = tx /\ hand' = hand /\ before' = before
  BY DEF Associate, Collect, CollectRaces, ReadDb, ReplayStore, EndAssociation, UseFreed, Unbind,
         Bind, ReplayPush, Unaffected, aux
<1>. QED BY <1>1, <1>2, PendingTracked

LEMMA StepTracked == UndoInv /\ IInv' /\ [Next]_vars => Tracked'
<1>. SUFFICES ASSUME UndoInv, IInv', [Next]_vars PROVE Tracked'
  OBVIOUS
<1>1. CASE (UNCHANGED vars) \/ \E k \in Pools, names \in SUBSET DOMAIN PortPoolCounters :
                                   StatReadDies(k, names)
  <2>1. /\ tx' = tx /\ hand' = hand /\ before' = before /\ Config' = Config
        /\ events' = events /\ assoc' = assoc
    BY <1>1 DEF vars, aux, interface, StatReadDies, Config
  <2>2. NoneWhilePending'
    BY <2>1 DEF UndoInv, Tracked, NoneWhilePending, Settled
  <2>. QED BY <2>1, <2>2, QuietTracked
<1>2. CASE \E c \in Clients : Request(c) \/ Undo(c) \/ OtherFails(c) \/ End(c)
  BY <1>2, RequestTracked, UndoTracked, OtherFailsTracked, EndTracked
<1>3. CASE CreateCommit \/ CreateStore \/ SetStore \/ DeleteStore
  BY <1>3, CreateCommitTracked, CreateStoreTracked, SetStoreTracked, DeleteStoreTracked
<1>4. CASE \E k \in Pools, names \in SUBSET DOMAIN PortPoolCounters, c \in Clients :
              StatClear(c, k, names)
  BY <1>4, StatClearTracked
<1>5. CASE \E n \in NpuPorts \cup {None} : Change(n)
  BY <1>5, ChangeTracked
<1>6. CASE Associate
  BY <1>6, AssociateTracked
<1>. QED BY <1>1, <1>2, <1>3, <1>4, <1>5, <1>6 DEF Next

\* The invariant of the rollback: beside types and agreement with the database, every
\* transaction that nothing disturbed has a trail back to what it found, and a handler at
\* work undoes the object it saved last (nas_qos_cps_api_port_pool_rollback).
THEOREM PoolTrails == Spec => []UndoInv
<1>1. Init => Tracked
  <2>. SUFFICES ASSUME Init PROVE Tracked
    OBVIOUS
  <2>1. \A c \in Clients : TrackedBy(c)
    BY DEF Init, TrackedBy
  <2>2. HandFits /\ NoneWhilePending
    BY DEF Init, HandFits, NoneWhilePending
  <2>. QED BY <2>1, <2>2 DEF Tracked
<1>2. UndoInv /\ IInv' /\ [Next]_vars => UndoInv'
  BY StepTracked DEF UndoInv
<1>3. IInv /\ Tracked => UndoInv
  BY DEF UndoInv
<1>. QED BY <1>1, <1>2, <1>3, PoolInvariance, PTL DEF Spec

\* For every number of pools and clients, transactions of any length, and steps of other
\* clients and of the event thread between any two steps of a handler: when the rollback
\* is through, pools and profiles are what the transaction found
\* (nas_qos_cps_api_port_pool_rollback).
THEOREM RollbacksRestorePools == Spec => []PoolsRestored
<1>1. UndoInv => PoolsRestored
  BY EndOfTrail DEF UndoInv, Tracked, TrackedBy, PoolsRestored
<1>. QED BY <1>1, PoolTrails, PTL
----------------------------------------------------------------------------
(* The NPU.  A pool that no request met an event on has its own NPU object,  *)
(* or none; a handler at work knows what it did to it.  An association finds *)
(* no such pool on the NPU that it binds, because the removal before it left *)
(* none there.                                                              *)

\* An NPU object of the pool of k, lost or not.
Has(h, k) == npu[h] # None /\ npu[h].pool = k

\* The NPU has the object of the pool of k as o has it.
ObjectFits(k, o) ==
    o.obj \in Handles =>
       Has(o.obj, k) /\ npu[o.obj] = [at |-> o.at, pool |-> k, val |-> o.val]

PoolFits(k) == pool[k] # None => ObjectFits(k, pool[k])
NpuFits(k) == \A h \in Handles \ lost : Has(h, k) => pool[k] # None /\ pool[k].obj = h
Fits(k) == NpuFits(k) /\ (assoc.key # k => PoolFits(k))

OthersFit == \A k \in Pools \ disturbed : hand.key # k => Fits(k)

\* What a handler at work has done and is about to do, unless an event came between.
HandFitsNpu(k, d) ==
    /\ hand.step = "commit" => hand.op = "create" /\ d.obj = None
    /\ hand.op = "create" =>
          /\ PoolFits(k) /\ ObjectFits(k, d)
          /\ \A h \in Handles \ lost : Has(h, k) =>
                d.obj = h \/ (pool[k] # None /\ pool[k].obj = h)
          /\ intf = None => d.obj \notin Handles
    /\ hand.op = "set" => ObjectFits(k, d) /\ d.obj = pool[k].obj /\ NpuFits(k)
    /\ hand.op = "delete" => \A h \in Handles \ lost : ~Has(h, k)

HandNpu == hand.key # None /\ hand.key \notin disturbed => HandFitsNpu(hand.key, hand.data)

\* Without an object on the NPU.
Unbound(k) == pool[k] = None \/ pool[k].obj \notin Handles

\* The association at hand is that of a removal.
Unmapping == assoc.step = "bind" /\ assoc.at = None

\* Removals and mappings alternate, and the last is what the interface is.
EventsFit ==
    /\ \A i \in 1 .. Len(events) - 1 : (events[i] = None) # (events[i + 1] = None)
    /\ events # <<>> => (events[Len(events)] = None <=> intf = None)
    /\ assoc # NoAssoc => /\ assoc.step # "none"
                          /\ events = <<>> => (Unmapping <=> intf = None)
                          /\ events # <<>> => (Unmapping <=> Head(events) # None)
    /\ assoc.key # None => assoc.step = "replay"

MustBeUnbound(k) ==
    \/ assoc # NoAssoc /\ (Unmapping => k \notin assoc.todo)
    \/ assoc = NoAssoc /\ events # <<>> /\ Head(events) # None
    \/ Settled /\ intf = None

EventsUnbind ==
    alive => /\ \A k \in Pools \ disturbed : MustBeUnbound(k) => Unbound(k)
             /\ assoc.key \in Pools \ disturbed => assoc.data.obj \notin Handles

\* An object on the NPU is known to be there.
MadeFits ==
    /\ \A k \in Pools : pool[k] # None /\ pool[k].obj \in Handles => pool[k].made
    /\ hand.key # None /\ hand.data.obj \in Handles => hand.data.made
    /\ assoc.key # None /\ assoc.data.obj \in Handles => assoc.data.made

Bindings == OthersFit /\ HandNpu /\ EventsFit /\ EventsUnbind /\ MadeFits

NpuInv == IInv /\ Bindings

----------------------------------------------------------------------------
(* What keeps a pool and its object as they fit each other. *)

\* Nothing happens to the pool of k and to its object.
SameObjects(k) ==
    /\ pool'[k] = pool[k] /\ lost \subseteq lost'
    /\ \A h \in Handles : npu'[h] = npu[h] \/ (~Has(h, k) /\ ~Has(h, k)')

LEMMA SameFits ==
    ASSUME NEW k \in Pools, SameObjects(k)
    PROVE  NpuFits(k) => NpuFits(k)'
BY DEF SameObjects, NpuFits, Has

LEMMA SameObjectFits ==
    ASSUME NEW k \in Pools, SameObjects(k), NEW o, ObjectFits(k, o)
    PROVE  o.obj \in Handles => /\ npu'[o.obj] # None /\ npu'[o.obj].pool = k
                                /\ npu'[o.obj] = [at |-> o.at, pool |-> k, val |-> o.val]
BY DEF SameObjects, ObjectFits, Has

LEMMA KeptFits ==
    ASSUME NEW k \in Pools, SameObjects(k), Fits(k), assoc'.key = assoc.key \/ assoc.key = None
    PROVE  Fits(k)'
<1>1. assoc.key # k => PoolFits(k)'
  BY SameObjectFits DEF Fits, PoolFits, SameObjects, ObjectFits, Has
<1>2. assoc'.key # k => assoc.key # k
  OBVIOUS
<1>. QED BY <1>1, <1>2, SameFits DEF Fits

\* While an event is pending the handler at work is disturbed.
LEMMA PendingHand ==
    ASSUME IInv, ~Settled, hand' = hand, disturbed \subseteq disturbed'
    PROVE  HandNpu'
BY DEF IInv, MetIsDisturbed, HandNpu

\* While the process lives, a pool that is neither disturbed nor at hand fits the NPU.
LEMMA AliveFits ==
    ASSUME NpuInv, alive, NEW k \in Pools \ disturbed, hand.key # k
    PROVE  NpuFits(k) /\ PoolFits(k)
<1>1. Fits(k)
  BY DEF NpuInv, Bindings, OthersFit
<1>2. CASE assoc.key = k
  <2>1. assoc # NoAssoc /\ ~Unmapping
    BY <1>2 DEF NpuInv, Bindings, EventsFit, Unmapping, NoAssoc
  <2>2. Unbound(k)
    BY <2>1 DEF NpuInv, Bindings, EventsUnbind, MustBeUnbound
  <2>. QED BY <1>1, <2>2 DEF Fits, Unbound, PoolFits, ObjectFits
<1>. QED BY <1>1, <1>2 DEF Fits

\* A disturbed pool may hit the object of another, which is disturbed then.
LEMMA OtherObjects ==
    ASSUME PoolsOK, NEW j \in Pools, pool[j] # None, j \in disturbed \/ PoolFits(j),
           Victim(j) \subseteq disturbed',
           NEW v, NdiSet(pool[j].obj, v) \/ NdiDelete(pool[j].obj),
           NEW k \in Pools \ disturbed', k # j, pool'[k] = pool[k], lost \subseteq lost'
    PROVE  SameObjects(k)
<1>. DEFINE o == pool[j].obj
<1>1. CASE UNCHANGED npu
  BY <1>1 DEF SameObjects
<1>2. CASE /\ Exists(o)
           /\ \/ npu' = [npu EXCEPT ![o] = [at |-> npu[o].at, pool |-> npu[o].pool, val |-> v]]
              \/ npu' = [npu EXCEPT ![o] = None]
  <2>1. o \in Handles /\ npu[o] # None
    BY <1>2 DEF Exists
  <2>2. npu[o].pool # k
    <3>1. CASE j \in disturbed
      BY <1>2, <2>1, <3>1 DEF Victim
    <3>2. CASE PoolFits(j)
      BY <2>1, <3>2 DEF PoolFits, ObjectFits, Has
    <3>. QED BY <3>1, <3>2
  <2>3. \A h \in Handles : h # o => npu'[h] = npu[h]
    BY <1>2 DEF PoolsOK
  <2>4. npu'[o] = None \/ npu'[o].pool = npu[o].pool
    BY <1>2, <2>1 DEF PoolsOK
  <2>. HIDE DEF o
  <2>. QED BY <2>1, <2>2, <2>3, <2>4 DEF SameObjects, Has
<1>. QED BY <1>1, <1>2 DEF NdiSet, NdiDelete

LEMMA UntouchedObjects ==
    ASSUME NEW k \in Pools, pool'[k] = pool[k], npu' = npu, lost \subseteq lost'
    PROVE  SameObjects(k)
BY DEF SameObjects

\* What changes nothing of the pools, the NPU, the handler at work and the events.
LEMMA QuietNpu ==
    ASSUME NpuInv, UNCHANGED <<intf, events, pool, npu, hand, assoc>>, alive' => alive,
           disturbed \subseteq disturbed', lost \subseteq lost'
    PROVE  Bindings'
<1>1. \A k \in Pools : SameObjects(k)
  BY UntouchedObjects
<1>2. OthersFit'
  BY <1>1, KeptFits DEF NpuInv, Bindings, OthersFit
<1>3. HandNpu'
  BY DEF NpuInv, Bindings, HandNpu, HandFitsNpu, PoolFits, NpuFits, ObjectFits, Has
<1>4. EventsFit' /\ EventsUnbind' /\ MadeFits'
  BY DEF NpuInv, Bindings, EventsFit, EventsUnbind, MadeFits, Unmapping, MustBeUnbound, Unbound,
         Settled
<1>. QED BY <1>2, <1>3, <1>4 DEF Bindings

----------------------------------------------------------------------------
(* Requests and rollbacks. *)

LEMMA SettledUnbound ==
    ASSUME NpuInv, alive, Settled, intf = None, NEW k \in Pools \ disturbed
    PROVE  Unbound(k)
BY DEF NpuInv, Bindings, EventsUnbind, MustBeUnbound

\* What a handler does first, while only k is at hand, leaves the other parts alone.
LEMMA FirstHalf ==
    ASSUME NpuInv, NEW k \in Pools, UNCHANGED <<intf, events, pool, assoc, lost>>, alive' = alive,
           disturbed \subseteq disturbed', hand'.key = k,
           hand'.data.obj \in Handles => hand'.data.made,
           \A j \in Pools \ disturbed' : j # k => hand.key # j /\ SameObjects(j),
           k \notin disturbed' => HandFitsNpu(k, hand.data)'
    PROVE  Bindings'
<1>1. OthersFit'
  BY KeptFits DEF NpuInv, Bindings, OthersFit
<1>2. EventsFit' /\ EventsUnbind'
  BY DEF NpuInv, Bindings, EventsFit, EventsUnbind, Unmapping, MustBeUnbound, Unbound,
         Settled
<1>3. MadeFits'
  BY DEF NpuInv, Bindings, MadeFits
<1>4. HandNpu'
  BY DEF HandNpu, HandFitsNpu, PoolFits, NpuFits, ObjectFits, Has
<1>. QED BY <1>1, <1>2, <1>3, <1>4 DEF Bindings

LEMMA CreateLookNpu ==
    ASSUME NpuInv, alive, hand = NoHand, NEW c, NEW k \in Pools, NEW v, CreateLook(c, k, v),
           UNCHANGED <<intf, events, pool, assoc, lost, alive>>, disturbed \subseteq disturbed'
    PROVE  Bindings'
<1>1. /\ hand'.key = k /\ hand'.step = "commit" /\ hand'.op = "create"
      /\ hand'.data.obj = None /\ npu' = npu
  BY DEF CreateLook, Hold
<1>2. \A j \in Pools : hand.key # j /\ SameObjects(j)
  BY <1>1, NullTypes, UntouchedObjects
<1>3. k \notin disturbed => HandFitsNpu(k, hand.data)'
  <2>. SUFFICES ASSUME k \notin disturbed PROVE HandFitsNpu(k, hand.data)'
    OBVIOUS
  <2>1. NpuFits(k) /\ PoolFits(k)
    BY NullTypes, AliveFits
  <2>2. NpuFits(k)' /\ PoolFits(k)'
    BY <1>1, <2>1 DEF NpuFits, PoolFits, ObjectFits, Has
  <2>. QED BY <1>1, <2>2 DEF HandFitsNpu, NpuFits, ObjectFits
<1>. QED BY <1>1, <1>2, <1>3, FirstHalf

LEMMA SetPushNpu ==
    ASSUME NpuInv, PoolsOK', alive, hand = NoHand, NEW c, NEW k \in Pools, NEW v \in Profiles,
           SetPush(c, k, v),
           UNCHANGED <<intf, events, pool, assoc, lost, alive>>, disturbed \subseteq disturbed',
           Victim(k) \subseteq disturbed', Settled \/ k \in disturbed'
    PROVE  Bindings'
<1>. DEFINE o == pool[k].obj
<1>1. PoolsOK /\ pool[k] # None /\ (k \in disturbed \/ (NpuFits(k) /\ PoolFits(k)))
  BY Parts, NullTypes, AliveFits DEF NpuInv, SetPush
<1>2. /\ hand'.key = k /\ hand'.step = "store" /\ hand'.op = "set"
      /\ hand'.data = Copy(k, v)
  BY DEF SetPush, Hold
<1>3. /\ hand'.data.obj = o /\ hand'.data.at = pool[k].at /\ hand'.data.val = v
      /\ hand'.data.made = pool[k].made
  BY <1>2 DEF Copy
<1>4. \A j \in Pools \ disturbed' : j # k => hand.key # j /\ SameObjects(j)
  <2>1. CASE npu' = npu
    BY <2>1, NullTypes, UntouchedObjects
  <2>2. CASE NdiSet(o, v)
    BY <1>1, <2>2, NullTypes, OtherObjects
  <2>. QED BY <2>1, <2>2 DEF SetPush
<1>5. ASSUME k \notin disturbed' PROVE HandFitsNpu(k, hand.data)'
  <2>1. Settled /\ k \notin disturbed /\ NpuFits(k) /\ PoolFits(k)
    BY <1>1, <1>5
  <2>2. CASE o \notin Handles
    <3>1. npu' = npu
      BY <2>2 DEF SetPush, NdiSet, Exists
    <3>. QED BY <1>2, <1>3, <2>1, <2>2, <3>1 DEF HandFitsNpu, ObjectFits, NpuFits, Has
  <2>3. CASE o \in Handles
    <3>1. npu[o] = [at |-> pool[k].at, pool |-> k, val |-> pool[k].val] /\ npu[o] # None
      BY <1>1, <2>1, <2>3 DEF PoolFits, ObjectFits, Has
    <3>2. OnNpu(k)
      <4>1. intf # None
        BY <2>1, <2>3, <1>1, SettledUnbound DEF Unbound
      <4>2. pool[k].made
        BY <1>1, <2>3 DEF NpuInv, Bindings, MadeFits
      <4>. QED BY <4>1, <4>2 DEF OnNpu
    <3>3. npu' = [npu EXCEPT ![o] = [at |-> npu[o].at, pool |-> npu[o].pool, val |-> v]]
      BY <2>3, <3>1, <3>2 DEF SetPush, NdiSet, Unknown
    <3>4. /\ npu'[o] = [at |-> pool[k].at, pool |-> k, val |-> v]
          /\ \A h \in Handles : h # o => npu'[h] = npu[h]
      BY <1>1, <2>3, <3>1, <3>3 DEF PoolsOK
    <3>5. npu'[o] # None
      <4>1. npu[o] \in NpuPool
        BY <1>1, <2>3, <3>1 DEF PoolsOK
      <4>2. npu'[o] \in NpuPool
        BY <3>1, <3>4, <4>1 DEF NpuPool, Profiles
      <4>. QED BY <4>2
    <3>6. \A h \in Handles \ lost' : Has(h, k)' => h = o
      BY <2>1, <3>4 DEF NpuFits, Has
    <3>. HIDE DEF o
    <3>. QED BY <1>1, <1>2, <1>3, <3>4, <3>5, <3>6 DEF HandFitsNpu, ObjectFits, NpuFits, Has, o
  <2>. QED BY <2>2, <2>3
<1>6. hand'.data.obj \in Handles => hand'.data.made
  BY <1>1, <1>3 DEF NpuInv, Bindings, MadeFits
<1>. QED BY <1>2, <1>4, <1>5, <1>6, FirstHalf

LEMMA DeletePushNpu ==
    ASSUME NpuInv, alive, hand = NoHand, NEW c, NEW k \in Pools, DeletePush(c, k),
           UNCHANGED <<intf, events, pool, assoc, lost, alive>>, disturbed \subseteq disturbed',
           Victim(k) \subseteq disturbed', Settled \/ k \in disturbed'
    PROVE  Bindings'
<1>. DEFINE o == pool[k].obj
<1>1. PoolsOK /\ pool[k] # None /\ (k \in disturbed \/ (NpuFits(k) /\ PoolFits(k)))
  BY Parts, NullTypes, AliveFits DEF NpuInv, DeletePush
<1>2. /\ hand'.key = k /\ hand'.step = "store" /\ hand'.op = "delete"
      /\ hand'.data = pool[k]
  BY DEF DeletePush, Hold
<1>4. \A j \in Pools \ disturbed' : j # k => hand.key # j /\ SameObjects(j)
  <2>1. CASE npu' = npu
    BY <2>1, NullTypes, UntouchedObjects
  <2>2. CASE NdiDelete(o)
    BY <1>1, <2>2, NullTypes, OtherObjects
  <2>. QED BY <2>1, <2>2 DEF DeletePush
<1>5. ASSUME k \notin disturbed' PROVE HandFitsNpu(k, hand.data)'
  <2>1. Settled /\ k \notin disturbed /\ NpuFits(k) /\ PoolFits(k)
    BY <1>1, <1>5
  <2>2. \A h \in Handles \ lost : Has(h, k) => h = o
    BY <2>1 DEF NpuFits
  <2>3. \A h \in Handles \ lost' : ~Has(h, k)'
    <3>1. CASE o \notin Handles
      <4>1. npu' = npu
        BY <3>1 DEF DeletePush, NdiDelete, Exists
      <4>. QED BY <2>2, <3>1, <4>1 DEF Has
    <3>2. CASE o \in Handles
      <4>1. intf # None
        BY <2>1, <3>2, <1>1, SettledUnbound DEF Unbound
      <4>2. npu[o] # None
        BY <1>1, <2>1, <3>2 DEF PoolFits, ObjectFits, Has
      <4>3. npu' = [npu EXCEPT ![o] = None]
        BY <3>2, <4>1, <4>2 DEF DeletePush, NdiDelete, Unknown
      <4>4. npu'[o] = None /\ \A h \in Handles : h # o => npu'[h] = npu[h]
        BY <1>1, <3>2, <4>3 DEF PoolsOK
      <4>. QED BY <2>2, <4>4 DEF Has
    <3>. QED BY <3>1, <3>2
  <2>. QED BY <1>2, <2>3 DEF HandFitsNpu
<1>6. hand'.data.obj \in Handles => hand'.data.made
  BY <1>1, <1>2 DEF NpuInv, Bindings, MadeFits
<1>. QED BY <1>2, <1>4, <1>5, <1>6, FirstHalf

LEMMA BeginNpu ==
    ASSUME NpuInv, PoolsOK', NEW c \in Clients, NEW op \in Ops, NEW k \in Pools, NEW v \in Profiles,
           Begin(c, op, k, v)
    PROVE  Bindings'
<1>1. /\ alive /\ hand = NoHand
      /\ UNCHANGED <<intf, events, pool, assoc, lost, alive>>
      /\ disturbed \subseteq disturbed' /\ Victim(k) \subseteq disturbed'
      /\ Settled \/ k \in disturbed'
  BY DEF Begin, interface
<1>2. CASE CreateLook(c, k, v)
  BY <1>1, <1>2, CreateLookNpu
<1>3. CASE SetPush(c, k, v)
  BY <1>1, <1>3, SetPushNpu
<1>4. CASE DeletePush(c, k)
  BY <1>1, <1>4, DeletePushNpu
<1>5. CASE SetOrDeleteFails(c, op, k)
  BY <1>1, <1>5, QuietNpu DEF SetOrDeleteFails
<1>. QED BY <1>2, <1>3, <1>4, <1>5 DEF Begin

----------------------------------------------------------------------------
(* The second halves of the handlers. *)

\* While a handler is at work on a pool that is not disturbed, no event is pending.
LEMMA HandSettled ==
    ASSUME IInv, hand.key # None, hand.key \notin disturbed
    PROVE  Settled
BY DEF IInv, MetIsDisturbed

LEMMA CreateCommitNpu ==
    ASSUME NpuInv, PoolsOK', CreateCommit
    PROVE  Bindings'
<1>. DEFINE k == hand.key
            d == hand.data
<1>1. PoolsOK /\ k \in Pools /\ d \in PortPool /\ d.val \in Profiles /\ hand.step = "commit"
  BY Parts, HandFields DEF NpuInv, CreateCommit
<1>2. UNCHANGED <<intf, events, pool, assoc, lost, disturbed, alive>> /\ alive
  BY DEF CreateCommit, interface
<1>3. k \notin disturbed => HandFitsNpu(k, d)
  BY <1>1 DEF NpuInv, Bindings, HandNpu
<1>4. CASE intf = None /\ Hold(hand.by, "create", k, "store", d, FALSE) /\ npu' = npu
  <2>1. hand'.key = k /\ hand'.step = "store" /\ hand'.op = "create" /\ hand'.data = d
    BY <1>4 DEF Hold
  <2>2. \A j \in Pools \ disturbed' : j # k => hand.key # j /\ SameObjects(j)
    BY <1>2, <1>4, UntouchedObjects
  <2>3. k \notin disturbed' => HandFitsNpu(k, hand.data)'
    <3>. SUFFICES ASSUME k \notin disturbed PROVE HandFitsNpu(k, hand.data)'
      BY <1>2
    <3>1. HandFitsNpu(k, d)
      BY <1>3
    <3>. QED BY <1>1, <1>2, <1>4, <2>1, <3>1
             DEF HandFitsNpu, PoolFits, ObjectFits, Has
  <2>4. hand'.data.obj \in Handles => hand'.data.made
    BY <1>1, <2>1 DEF NpuInv, Bindings, MadeFits
  <2>. QED BY <1>1, <1>2, <2>1, <2>2, <2>3, <2>4, FirstHalf
<1>5. CASE /\ intf # None /\ d.at # None
           /\ \E h \in Handles :
                /\ npu[h] = None
                /\ npu' = [npu EXCEPT ![h] = [at |-> d.at, pool |-> k, val |-> d.val]]
                /\ Hold(hand.by, "create", k, "store",
                        [val |-> d.val, at |-> d.at, made |-> TRUE, obj |-> h], TRUE)
  <2>1. PICK h \in Handles :
                /\ npu[h] = None
                /\ npu' = [npu EXCEPT ![h] = [at |-> d.at, pool |-> k, val |-> d.val]]
                /\ Hold(hand.by, "create", k, "store",
                        [val |-> d.val, at |-> d.at, made |-> TRUE, obj |-> h], TRUE)
    BY <1>5
  <2>2. /\ hand'.key = k /\ hand'.step = "store" /\ hand'.op = "create"
        /\ hand'.data = [val |-> d.val, at |-> d.at, made |-> TRUE, obj |-> h]
    BY <2>1 DEF Hold
  <2>3. /\ npu'[h] = [at |-> d.at, pool |-> k, val |-> d.val]
        /\ \A g \in Handles : g # h => npu'[g] = npu[g]
    BY <1>1, <2>1 DEF PoolsOK
  <2>4. npu'[h] # None /\ npu'[h].pool = k
    <3>1. d.at \in NpuPorts
      BY <1>1, <1>5 DEF PortPool
    <3>2. npu'[h] \in NpuPool
      BY <1>1, <2>3, <3>1 DEF NpuPool, Profiles
    <3>. QED BY <2>3, <3>2
  <2>5. \A j \in Pools : j # k => hand.key # j /\ SameObjects(j)
    BY <1>2, <2>1, <2>3, <2>4 DEF SameObjects, Has
  <2>6. k \notin disturbed' => HandFitsNpu(k, hand.data)'
    <3>. SUFFICES ASSUME k \notin disturbed PROVE HandFitsNpu(k, hand.data)'
      BY <1>2
    <3>1. /\ PoolFits(k)
          /\ \A g \in Handles \ lost : Has(g, k) => pool[k] # None /\ pool[k].obj = g
      BY <1>1, <1>3 DEF HandFitsNpu
    <3>2. PoolFits(k)'
      <4>1. ASSUME NEW g \in Handles, pool[k] # None, pool[k].obj = g
            PROVE  /\ npu'[g] # None /\ npu'[g].pool = k
                   /\ npu'[g] = [at |-> pool[k].at, pool |-> k, val |-> pool[k].val]
        <5>1. Has(g, k) /\ npu[g] = [at |-> pool[k].at, pool |-> k, val |-> pool[k].val]
          BY <3>1, <4>1 DEF PoolFits, ObjectFits
        <5>2. npu'[g] = npu[g]
          BY <2>1, <2>3, <5>1 DEF Has
        <5>. QED BY <5>1, <5>2 DEF Has
      <4>2. hand'.key = k /\ pool' = pool
        BY <1>2, <2>2
      <4>. QED BY <4>1, <4>2 DEF PoolFits, ObjectFits, Has
    <3>3. ObjectFits(k, hand.data)'
      BY <2>2, <2>3, <2>4 DEF ObjectFits, Has
    <3>4. \A g \in Handles \ lost' : Has(g, k)' =>
             hand'.data.obj = g \/ (pool'[k] # None /\ pool'[k].obj = g)
      BY <1>2, <2>2, <2>3, <3>1 DEF Has
    <3>. QED BY <1>2, <1>5, <2>2, <3>2, <3>3, <3>4 DEF HandFitsNpu
  <2>7. hand'.data.obj \in Handles => hand'.data.made
    BY <2>2
  <2>. QED BY <1>1, <1>2, <2>2, <2>5, <2>6, <2>7, FirstHalf
<1>6. CASE hand' = NoHand /\ npu' = npu
  <2>1. ASSUME NEW j \in Pools \ disturbed PROVE Fits(j)
    <3>1. CASE j # k
      BY <3>1 DEF NpuInv, Bindings, OthersFit
    <3>2. CASE j = k
      BY <1>1, <1>3, <3>2 DEF HandFitsNpu, Fits, NpuFits
    <3>. QED BY <3>1, <3>2
  <2>2. OthersFit'
    BY <1>2, <1>6, <2>1, UntouchedObjects, KeptFits DEF OthersFit
  <2>3. HandNpu' /\ EventsFit' /\ EventsUnbind' /\ MadeFits'
    BY <1>2, <1>6, NullTypes
       DEF NpuInv, Bindings, HandNpu, EventsFit, EventsUnbind, MadeFits, Unmapping,
           MustBeUnbound, Unbound, Settled
  <2>. QED BY <2>2, <2>3 DEF Bindings
<1>. QED BY <1>4, <1>5, <1>6 DEF CreateCommit

\* What a handler does last: only its pool changes.
LEMMA LastHalf ==
    ASSUME NpuInv, NEW k \in Pools, k = hand.key, hand' = NoHand,
           UNCHANGED <<intf, events, npu, alive, disturbed>>, lost \subseteq lost',
           assoc' = assoc \/ Invalidate(k),
           NEW o, PoolsOK, o = None \/ (o.obj \in Handles => o.made),
           pool' = [pool EXCEPT ![k] = o],
           k \notin disturbed => /\ NpuFits(k)' /\ PoolFits(k)'
                                 /\ Settled /\ intf = None => Unbound(k)'
    PROVE  Bindings'
<1>1. \A j \in Pools \ {k} : SameObjects(j)
  BY DEF PoolsOK, SameObjects
<1>2. /\ assoc'.key = assoc.key /\ assoc'.data = assoc.data /\ assoc'.step = assoc.step
      /\ assoc'.at = assoc.at /\ assoc'.todo = assoc.todo
      /\ (assoc' = NoAssoc <=> assoc = NoAssoc)
  <2>1. CASE assoc' = assoc
    BY <2>1
  <2>2. CASE Invalidate(k)
    <3>1. /\ assoc'.key = assoc.key /\ assoc'.data = assoc.data /\ assoc'.step = assoc.step
          /\ assoc'.at = assoc.at /\ assoc'.todo = assoc.todo
      BY <2>2, Parts DEF NpuInv, Invalidate, AssocOK, Assocs
    <3>2. assoc = NoAssoc => assoc' = NoAssoc
      BY <2>2 DEF Invalidate, NoAssoc
    <3>3. assoc # NoAssoc => assoc' # NoAssoc
      BY <3>1 DEF NpuInv, Bindings, EventsFit, NoAssoc
    <3>. QED BY <3>1, <3>2, <3>3
  <2>. QED BY <2>1, <2>2
<1>3. OthersFit'
  <2>. SUFFICES ASSUME NEW j \in Pools \ disturbed PROVE Fits(j)'
    BY DEF OthersFit
  <2>1. CASE j = k
    BY <2>1 DEF Fits
  <2>2. CASE j # k
    BY <1>1, <1>2, <2>2, KeptFits DEF NpuInv, Bindings, OthersFit
  <2>. QED BY <2>1, <2>2
<1>4. HandNpu'
  BY NullTypes DEF HandNpu
<1>5. EventsFit'
  BY <1>2 DEF NpuInv, Bindings, EventsFit, Unmapping
<1>6. \A j \in Pools \ {k} : pool'[j] = pool[j]
  BY DEF PoolsOK
<1>7. EventsUnbind'
  <2>1. \A j \in Pools : MustBeUnbound(j)' => MustBeUnbound(j)
    BY <1>2 DEF MustBeUnbound, Unmapping, Settled
  <2>2. ASSUME alive, NEW j \in Pools \ disturbed, MustBeUnbound(j) PROVE Unbound(j)'
    <3>1. CASE j # k
      BY <1>6, <2>2, <3>1 DEF NpuInv, Bindings, EventsUnbind, Unbound
    <3>2. CASE j = k
      <4>1. Settled
        BY <2>2, <3>2, HandSettled DEF NpuInv
      <4>2. intf = None
        BY <2>2, <4>1 DEF MustBeUnbound, Settled
      <4>. QED BY <2>2, <3>2, <4>1, <4>2
    <3>. QED BY <3>1, <3>2
  <2>. QED BY <1>2, <2>1, <2>2 DEF NpuInv, Bindings, EventsUnbind
<1>8. MadeFits'
  <2>1. ASSUME NEW j \in Pools, pool'[j] # None, pool'[j].obj \in Handles PROVE pool'[j].made
    <3>1. CASE j # k
      BY <1>6, <2>1, <3>1 DEF NpuInv, Bindings, MadeFits
    <3>2. CASE j = k
      BY <2>1, <3>2 DEF PoolsOK
    <3>. QED BY <3>1, <3>2
  <2>. QED BY <1>2, <2>1, NullTypes DEF NpuInv, Bindings, MadeFits
<1>. QED BY <1>3, <1>4, <1>5, <1>7, <1>8 DEF Bindings

\* What is known when a handler comes back to its pool.
LEMMA HandBack ==
    ASSUME NpuInv, hand.step = "store"
    PROVE  /\ hand.key \in Pools /\ hand.data \in PortPool /\ hand.data # None
           /\ hand.data.obj \in Handles => hand.data.made
           /\ hand.key \notin disturbed => HandFitsNpu(hand.key, hand.data)
<1>1. HandOK
  BY Parts DEF NpuInv
<1>. QED BY <1>1, HandFields DEF NpuInv, Bindings, MadeFits, HandNpu

LEMMA CreateStoreNpu ==
    ASSUME NpuInv, CreateStore
    PROVE  Bindings'
<1>. SUFFICES ASSUME NEW k, k = hand.key, NEW d, d = hand.data PROVE Bindings'
  OBVIOUS
<1>1. /\ PoolsOK /\ k \in Pools /\ d \in PortPool /\ d # None
      /\ d.obj \in Handles => d.made
      /\ k \notin disturbed => HandFitsNpu(k, d)
  BY Parts, HandBack DEF NpuInv, CreateStore
<1>2. /\ UNCHANGED <<intf, events, npu, assoc, alive, disturbed>> /\ hand' = NoHand
      /\ hand.op = "create"
  BY DEF CreateStore, interface
<1>3. CASE pool[k] = None /\ pool' = [pool EXCEPT ![k] = d] /\ UNCHANGED lost
  <2>1. pool'[k] = d
    BY <1>1, <1>3 DEF PoolsOK
  <2>2. ASSUME k \notin disturbed
        PROVE  NpuFits(k)' /\ PoolFits(k)' /\ (intf = None => Unbound(k)')
    <3>1. /\ ObjectFits(k, d) /\ (intf = None => d.obj \notin Handles)
          /\ \A h \in Handles \ lost : Has(h, k) => d.obj = h
      BY <1>1, <1>2, <1>3, <2>2 DEF HandFitsNpu
    <3>. QED BY <1>1, <1>2, <1>3, <2>1, <3>1
             DEF NpuFits, PoolFits, ObjectFits, Has, Unbound
  <2>. QED BY <1>1, <1>2, <1>3, <2>2, LastHalf
<1>4. CASE pool[k] # None /\ lost' = lost \cup ({d.obj} \cap Handles) /\ pool' = pool
  <2>1. pool' = [pool EXCEPT ![k] = pool[k]]
    BY <1>1, <1>4 DEF PoolsOK
  <2>2. ASSUME k \notin disturbed
        PROVE  NpuFits(k)' /\ PoolFits(k)' /\ (Settled /\ intf = None => Unbound(k)')
    <3>1. /\ PoolFits(k)
          /\ \A h \in Handles \ lost : Has(h, k) => d.obj = h \/ pool[k].obj = h
      BY <1>1, <1>2, <1>4, <2>2 DEF HandFitsNpu
    <3>2. Settled /\ intf = None => Unbound(k)
      BY <1>1, <2>2, SettledUnbound DEF CreateStore
    <3>. QED BY <1>1, <1>2, <1>4, <3>1, <3>2
             DEF NpuFits, PoolFits, ObjectFits, Has, Unbound
  <2>3. pool[k].obj \in Handles => pool[k].made
    BY <1>1, <1>4 DEF NpuInv, Bindings, MadeFits
  <2>. QED BY <1>1, <1>2, <1>4, <2>1, <2>2, <2>3, LastHalf
<1>. QED BY <1>3, <1>4 DEF CreateStore

LEMMA SetStoreNpu ==
    ASSUME NpuInv, SetStore
    PROVE  Bindings'
<1>. SUFFICES ASSUME NEW k, k = hand.key, NEW d, d = hand.data PROVE Bindings'
  OBVIOUS
<1>1. /\ PoolsOK /\ k \in Pools /\ d \in PortPool /\ d # None
      /\ d.obj \in Handles => d.made
      /\ k \notin disturbed => HandFitsNpu(k, d)
  BY Parts, HandBack DEF NpuInv, SetStore
<1>2. /\ UNCHANGED <<intf, events, npu, assoc, alive, disturbed, lost>> /\ hand' = NoHand
      /\ hand.op = "set" /\ pool' = [pool EXCEPT ![k] = d] /\ pool[k] # None /\ alive
  BY DEF SetStore, interface, NpuInv, IInv, HandFindsPool
<1>3. pool'[k] = d
  BY <1>1, <1>2 DEF PoolsOK
<1>4. ASSUME k \notin disturbed
      PROVE  NpuFits(k)' /\ PoolFits(k)' /\ (Settled /\ intf = None => Unbound(k)')
  <2>1. ObjectFits(k, d) /\ d.obj = pool[k].obj /\ NpuFits(k)
    BY <1>1, <1>2, <1>4 DEF HandFitsNpu
  <2>2. Settled /\ intf = None => Unbound(k)
    BY <1>1, <1>2, <1>4, SettledUnbound
  <2>. QED BY <1>1, <1>2, <1>3, <2>1, <2>2 DEF NpuFits, PoolFits, ObjectFits, Has, Unbound
<1>. QED BY <1>1, <1>2, <1>4, LastHalf

LEMMA DeleteStoreNpu ==
    ASSUME NpuInv, DeleteStore
    PROVE  Bindings'
<1>. SUFFICES ASSUME NEW k, k = hand.key PROVE Bindings'
  OBVIOUS
<1>1. PoolsOK /\ k \in Pools /\ (k \notin disturbed => HandFitsNpu(k, hand.data))
  BY Parts, HandBack DEF NpuInv, DeleteStore
<1>2. /\ UNCHANGED <<intf, events, npu, alive, disturbed, lost>> /\ hand' = NoHand
      /\ hand.op = "delete" /\ pool' = [pool EXCEPT ![k] = None] /\ Invalidate(k)
  BY DEF DeleteStore, interface, aux
<1>3. pool'[k] = None
  BY <1>1, <1>2 DEF PoolsOK
<1>4. ASSUME k \notin disturbed
      PROVE  NpuFits(k)' /\ PoolFits(k)' /\ Unbound(k)'
  <2>1. \A h \in Handles \ lost : ~Has(h, k)
    BY <1>1, <1>2, <1>4 DEF HandFitsNpu
  <2>. QED BY <1>2, <1>3, <2>1 DEF NpuFits, PoolFits, Has, Unbound
<1>. QED BY <1>1, <1>2, <1>4, LastHalf

----------------------------------------------------------------------------
(* The interface and the association. *)

LEMMA ChangeNpu ==
    ASSUME NpuInv, NEW n \in NpuPorts \cup {None}, Change(n)
    PROVE  Bindings'
<1>1. /\ UNCHANGED <<pool, npu, hand, assoc, lost>> /\ alive' = alive
      /\ events' = Append(events, n) /\ intf' = n /\ (n = None) # (intf = None)
      /\ disturbed \subseteq disturbed' /\ (hand.key # None => hand.key \in disturbed')
  BY DEF Change
<1>2. events \in Seq(NpuPorts \cup {None})
  BY DEF NpuInv, IInv, Types, InterfaceOK
<1>3. OthersFit'
  BY <1>1, UntouchedObjects, KeptFits DEF NpuInv, Bindings, OthersFit
<1>4. HandNpu'
  BY <1>1 DEF HandNpu
<1>5. /\ Len(events) \in Nat /\ Len(events') = Len(events) + 1 /\ events' # <<>>
      /\ events'[Len(events) + 1] = n /\ \A i \in 1 .. Len(events) : events'[i] = events[i]
      /\ Head(events') = IF events = <<>> THEN n ELSE Head(events)
      /\ events # <<>> => Len(events) >= 1
  BY <1>1, <1>2
<1>6. EventsFit'
  <2>1. \A i \in 1 .. Len(events') - 1 : (events'[i] = None) # (events'[i + 1] = None)
    <3>1. ASSUME NEW i \in 1 .. Len(events)
          PROVE  (events'[i] = None) # (events'[i + 1] = None)
      <4>1. CASE i = Len(events)
        <5>1. events # <<>> /\ events'[i] = events[Len(events)] /\ events'[i + 1] = n
          BY <1>5, <4>1
        <5>. QED BY <1>1, <5>1 DEF NpuInv, Bindings, EventsFit
      <4>2. CASE i # Len(events)
        <5>1. i \in 1 .. Len(events) - 1 /\ events'[i] = events[i] /\ events'[i + 1] = events[i + 1]
          BY <1>5, <4>2
        <5>. QED BY <5>1 DEF NpuInv, Bindings, EventsFit
      <4>. QED BY <4>1, <4>2
    <3>. QED BY <1>5, <3>1
  <2>2. events'[Len(events')] = None <=> intf' = None
    BY <1>1, <1>5
  <2>3. assoc # NoAssoc => (Unmapping <=> Head(events') # None)
    BY <1>1, <1>5 DEF NpuInv, Bindings, EventsFit
  <2>. QED BY <1>1, <1>5, <2>1, <2>2, <2>3 DEF NpuInv, Bindings, EventsFit, Unmapping
<1>7. \A k \in Pools : MustBeUnbound(k)' => MustBeUnbound(k)
  BY <1>1, <1>5 DEF MustBeUnbound, Unmapping, Settled
<1>8. EventsUnbind' /\ MadeFits'
  BY <1>1, <1>7 DEF NpuInv, Bindings, EventsUnbind, MadeFits, Unbound
<1>. QED BY <1>3, <1>4, <1>6, <1>8 DEF Bindings

\* An association step that leaves the pools and the NPU alone.
LEMMA PointersNpu ==
    ASSUME NpuInv, UNCHANGED <<intf, pool, npu, hand, lost>>, alive' => alive,
           disturbed' = disturbed, ~Settled, EventsFit',
           (assoc'.key = assoc.key /\ assoc'.data = assoc.data) \/ assoc'.key = None,
           assoc.key = None \/ assoc'.key # None,
           alive => \A k \in Pools \ disturbed : MustBeUnbound(k)' => Unbound(k)
    PROVE  Bindings'
<1>1. OthersFit'
  BY UntouchedObjects, KeptFits DEF NpuInv, Bindings, OthersFit
<1>2. HandNpu'
  BY PendingHand DEF NpuInv
<1>3. EventsUnbind' /\ MadeFits'
  BY DEF NpuInv, Bindings, EventsUnbind, MadeFits, Unbound
<1>. QED BY <1>1, <1>2, <1>3 DEF Bindings

LEMMA TailIs ==
    ASSUME NEW S, NEW e \in Seq(S), e # <<>>
    PROVE  /\ Len(e) \in Nat \ {0} /\ Len(Tail(e)) = Len(e) - 1
           /\ \A i \in 1 .. Len(e) - 1 : Tail(e)[i] = e[i + 1]
           /\ Head(e) = e[1] /\ (Tail(e) # <<>> => Head(Tail(e)) = Tail(e)[1])
           /\ (Tail(e) = <<>> <=> Len(e) = 1)
<1>1. Len(e) \in Nat \ {0} /\ Head(e) = e[1]
  OBVIOUS
<1>2. Tail(e) \in Seq(S) /\ Len(Tail(e)) = Len(e) - 1
  OBVIOUS
<1>3. \A i \in 1 .. Len(e) - 1 : Tail(e)[i] = e[i + 1]
  OBVIOUS
<1>4. Tail(e) # <<>> => Head(Tail(e)) = Tail(e)[1]
  BY <1>2
<1>5. Tail(e) = <<>> <=> Len(e) = 1
  BY <1>1, <1>2
<1>. QED BY <1>1, <1>2, <1>3, <1>4, <1>5

LEMMA CollectNpu ==
    ASSUME NpuInv, Collect
    PROVE  Bindings'
<1>. DEFINE all == {k \in Pools : pool[k] # None}
<1>1. /\ UNCHANGED <<intf, pool, npu, hand, lost, alive, disturbed>> /\ ~Settled
      /\ assoc = NoAssoc /\ events # <<>> /\ events' = Tail(events)
  BY DEF Collect, Settled, aux
<1>2. /\ assoc'.step = "bind" /\ assoc'.at = Head(events) /\ assoc'.todo = all
      /\ assoc'.key = None
  BY DEF Collect, NoAssoc
<1>3. /\ events \in Seq(NpuPorts \cup {None}) /\ Len(events) \in Nat \ {0}
      /\ Len(events') = Len(events) - 1
      /\ \A i \in 1 .. Len(events) - 1 : events'[i] = events[i + 1]
      /\ Head(events) = events[1] /\ (events' # <<>> => Head(events') = events'[1])
      /\ (events' = <<>> <=> Len(events) = 1)
  <2>1. events \in Seq(NpuPorts \cup {None})
    BY DEF NpuInv, IInv, Types, InterfaceOK
  <2>. QED BY <1>1, <2>1, TailIs
<1>4. assoc' # NoAssoc /\ (Unmapping' <=> Head(events) = None)
  BY <1>2 DEF NoAssoc, Unmapping
<1>5. EventsFit'
  <2>1. /\ \A i \in 1 .. Len(events) - 1 : (events[i] = None) # (events[i + 1] = None)
        /\ events[Len(events)] = None <=> intf = None
    BY <1>1 DEF NpuInv, Bindings, EventsFit
  <2>2. ASSUME NEW i \in 1 .. Len(events') - 1
        PROVE  (events'[i] = None) # (events'[i + 1] = None)
    <3>1. i + 1 \in 1 .. Len(events) - 1 /\ i \in 1 .. Len(events) - 1
      BY <1>3
    <3>2. (events[i + 1] = None) # (events[i + 1 + 1] = None)
      BY <2>1, <3>1
    <3>. QED BY <1>3, <3>1, <3>2
  <2>3. events' # <<>> => (events'[Len(events')] = None <=> intf' = None)
    <3>. SUFFICES ASSUME events' # <<>>
                  PROVE  events'[Len(events')] = None <=> intf' = None
      OBVIOUS
    <3>1. Len(events) - 1 \in 1 .. Len(events) - 1
      BY <1>3
    <3>2. events'[Len(events) - 1] = events[Len(events) - 1 + 1]
      BY <1>3, <3>1
    <3>3. Len(events) - 1 + 1 = Len(events)
      BY <1>3
    <3>. QED BY <1>1, <1>3, <2>1, <3>2, <3>3
  <2>4. events' = <<>> => (Unmapping' <=> intf' = None)
    BY <1>1, <1>3, <1>4, <2>1
  <2>5. events' # <<>> => (Unmapping' <=> Head(events') # None)
    <3>1. events' # <<>> => 1 \in 1 .. Len(events) - 1
      BY <1>3
    <3>2. events' # <<>> => (events[1] = None) # (events[1 + 1] = None)
      BY <2>1, <3>1
    <3>. QED BY <1>3, <1>4, <3>1, <3>2
  <2>. QED BY <1>2, <2>2, <2>3, <2>4, <2>5 DEF EventsFit
<1>6. alive => \A k \in Pools \ disturbed : MustBeUnbound(k)' => Unbound(k)
  <2>. SUFFICES ASSUME alive, NEW k \in Pools \ disturbed, MustBeUnbound(k)' PROVE Unbound(k)
    OBVIOUS
  <2>1. Unmapping' => k \notin all
    BY <1>2, <1>4 DEF MustBeUnbound, Settled
  <2>2. CASE Unmapping'
    BY <2>1, <2>2 DEF Unbound
  <2>3. CASE ~Unmapping'
    BY <1>1, <1>4, <2>3 DEF NpuInv, Bindings, EventsUnbind, MustBeUnbound
  <2>. QED BY <2>2, <2>3
<1>7. assoc.key = None
  BY <1>1, NullTypes DEF NoAssoc
<1>. QED BY <1>1, <1>2, <1>5, <1>6, <1>7, PointersNpu

\* The association at hand goes on with less to do.
LEMMA ToDo ==
    ASSUME NpuInv, ~Settled, events' = events, intf' = intf, assoc # NoAssoc,
           assoc'.step = assoc.step, assoc'.at = assoc.at, assoc'.todo \subseteq assoc.todo,
           assoc'.key # None => assoc.step = "replay"
    PROVE  /\ EventsFit' /\ ~Settled' /\ (Unmapping' <=> Unmapping)
           /\ \A k \in Pools : MustBeUnbound(k)' => MustBeUnbound(k) \/ k \in assoc.todo \ assoc'.todo
<1>1. assoc' # NoAssoc
  BY DEF NpuInv, Bindings, EventsFit, NoAssoc
<1>. QED BY <1>1 DEF NpuInv, Bindings, EventsFit, Unmapping, MustBeUnbound, Settled

LEMMA VisitedIs ==
    ASSUME AssocOK, NEW k, Visited(k)
    PROVE  /\ assoc'.todo = assoc.todo \ {k} /\ assoc'.key = assoc.key /\ assoc'.data = assoc.data
           /\ assoc'.step = assoc.step /\ assoc'.at = assoc.at
BY DEF AssocOK, Assocs, Visited

LEMMA UseFreedNpu ==
    ASSUME NpuInv, NEW k \in Pools, UseFreed(k)
    PROVE  Bindings'
<1>1. /\ UNCHANGED <<intf, events, pool, npu, hand, lost, disturbed>> /\ alive
      /\ ~Settled /\ assoc # NoAssoc /\ assoc.step = "bind"
  BY DEF UseFreed, Unaffected, interface, Settled, NoAssoc
<1>2. /\ assoc'.todo = assoc.todo \ {k} /\ assoc'.key = assoc.key /\ assoc'.data = assoc.data
      /\ assoc'.step = assoc.step /\ assoc'.at = assoc.at
  BY VisitedIs, Parts DEF UseFreed, NpuInv
<1>3. k \in disturbed
  BY DEF UseFreed, NpuInv, IInv, GoneIsDisturbed
<1>4. assoc.key = None
  BY <1>1 DEF NpuInv, Bindings, EventsFit
<1>5. EventsFit' /\ \A j \in Pools : MustBeUnbound(j)' => MustBeUnbound(j) \/ j = k
  BY <1>1, <1>2, <1>4, ToDo
<1>6. \A j \in Pools \ disturbed : MustBeUnbound(j)' => Unbound(j)
  BY <1>1, <1>3, <1>5 DEF NpuInv, Bindings, EventsUnbind
<1>. QED BY <1>1, <1>2, <1>4, <1>5, <1>6, PointersNpu

\* What an association does to the pools that it is not about.
LEMMA AssocFits ==
    ASSUME NpuInv, ~Settled, alive, NEW k \in Pools, pool[k] # None,
           hand' = hand, lost' = lost, disturbed' = disturbed \cup Victim(k),
           \A j \in Pools \ {k} : pool'[j] = pool[j],
           NEW v, npu' = npu \/ NdiSet(pool[k].obj, v) \/ NdiDelete(pool[k].obj),
           assoc'.key = assoc.key \/ assoc.key = None,
           k \notin disturbed' => NpuFits(k)' /\ (assoc'.key # k => PoolFits(k)')
    PROVE  OthersFit' /\ HandNpu'
<1>1. HandNpu'
  BY PendingHand DEF NpuInv
<1>2. k \in disturbed \/ (NpuFits(k) /\ PoolFits(k))
  <2>1. hand.key = k => k \in disturbed
    BY DEF NpuInv, IInv, MetIsDisturbed
  <2>. QED BY <2>1, AliveFits
<1>3. ASSUME NEW j \in Pools \ disturbed', j # k PROVE SameObjects(j)
  <2>1. CASE npu' = npu
    BY <1>3, <2>1, UntouchedObjects
  <2>2. CASE NdiSet(pool[k].obj, v) \/ NdiDelete(pool[k].obj)
    BY <1>2, <1>3, <2>2, Parts, OtherObjects DEF NpuInv
  <2>. QED BY <2>1, <2>2
<1>4. ASSUME NEW j \in Pools \ disturbed', hand'.key # j PROVE Fits(j)'
  <2>1. CASE j = k
    BY <1>4, <2>1 DEF Fits
  <2>2. CASE j # k
    <3>1. Fits(j)
      BY <1>4 DEF NpuInv, Bindings, OthersFit
    <3>. QED BY <1>3, <1>4, <2>2, <3>1, KeptFits
  <2>. QED BY <2>1, <2>2
<1>. QED BY <1>1, <1>4 DEF OthersFit

LEMMA UnbindNpu ==
    ASSUME NpuInv, NEW k \in Pools, Unbind(k)
    PROVE  Bindings'
<1>. DEFINE o == pool[k].obj
            u == [val |-> pool[k].val, at |-> pool[k].at, made |-> FALSE, obj |-> Null]
<1>1. /\ UNCHANGED <<intf, events, hand, lost>> /\ alive /\ ~Settled /\ assoc # NoAssoc
      /\ assoc.step = "bind" /\ assoc.at = None /\ disturbed' = disturbed \cup Victim(k)
  BY DEF Unbind, Unaffected, interface, Settled, NoAssoc
<1>2. /\ assoc'.todo = assoc.todo \ {k} /\ assoc'.key = assoc.key /\ assoc'.data = assoc.data
      /\ assoc'.step = assoc.step /\ assoc'.at = assoc.at
  BY VisitedIs, Parts DEF Unbind, NpuInv
<1>3. PoolsOK /\ pool[k] # None
  BY Parts DEF Unbind, NpuInv, IInv, PointersValid
<1>4. assoc.key = None
  BY <1>1 DEF NpuInv, Bindings, EventsFit
<1>5. EventsFit' /\ \A j \in Pools : MustBeUnbound(j)' => MustBeUnbound(j) \/ j = k
  BY <1>1, <1>2, <1>4, ToDo
<1>6. CASE NdiDelete(o) /\ pool' = [pool EXCEPT ![k] = u]
  <2>1. pool'[k] = u /\ \A j \in Pools \ {k} : pool'[j] = pool[j]
    BY <1>3, <1>6 DEF PoolsOK
  <2>2. PoolFits(k)' /\ Unbound(k)'
    BY <2>1 DEF PoolFits, ObjectFits, Unbound
  <2>3. ASSUME k \notin disturbed' PROVE NpuFits(k)'
    <3>1. NpuFits(k) /\ PoolFits(k)
      <4>1. k \notin disturbed /\ hand.key # k
        BY <1>1, <2>3 DEF NpuInv, IInv, MetIsDisturbed
      <4>. QED BY <1>1, <4>1, AliveFits
    <3>2. CASE o \notin Handles
      <4>1. npu' = npu
        BY <1>6, <3>2 DEF NdiDelete, Exists
      <4>. QED BY <1>1, <3>1, <3>2, <4>1 DEF NpuFits, Has
    <3>3. CASE o \in Handles
      <4>1. npu[o] # None
        BY <1>3, <3>1, <3>3 DEF PoolFits, ObjectFits, Has
      <4>2. npu' = [npu EXCEPT ![o] = None]
        BY <1>6, <3>3, <4>1 DEF NdiDelete, Unknown
      <4>3. npu'[o] = None /\ \A h \in Handles : h # o => npu'[h] = npu[h]
        BY <1>3, <3>3, <4>2 DEF PoolsOK
      <4>. QED BY <1>1, <3>1, <4>3 DEF NpuFits, Has
    <3>. QED BY <3>2, <3>3
  <2>4. OthersFit' /\ HandNpu'
    BY <1>1, <1>2, <1>3, <1>6, <2>1, <2>2, <2>3, AssocFits
  <2>5. EventsUnbind'
    <3>1. ASSUME NEW j \in Pools \ disturbed', MustBeUnbound(j)' PROVE Unbound(j)'
      <4>1. CASE j = k
        BY <2>2, <4>1
      <4>2. CASE j # k
        BY <1>1, <1>5, <2>1, <3>1, <4>2 DEF NpuInv, Bindings, EventsUnbind, Unbound
      <4>. QED BY <4>1, <4>2
    <3>. QED BY <1>2, <1>4, <3>1 DEF EventsUnbind
  <2>6. MadeFits'
    <3>1. \A j \in Pools : pool'[j] # None /\ pool'[j].obj \in Handles => pool'[j].made
      BY <2>1 DEF NpuInv, Bindings, MadeFits
    <3>. QED BY <1>1, <1>2, <3>1 DEF NpuInv, Bindings, MadeFits
  <2>. QED BY <1>5, <2>4, <2>5, <2>6 DEF Bindings
<1>7. CASE alive' = FALSE /\ UNCHANGED <<pool, npu>>
  <2>1. OthersFit'
    BY <1>1, <1>2, <1>7, UntouchedObjects, KeptFits DEF NpuInv, Bindings, OthersFit
  <2>2. HandNpu'
    BY <1>1, PendingHand DEF NpuInv
  <2>3. EventsUnbind' /\ MadeFits'
    BY <1>1, <1>2, <1>7 DEF NpuInv, Bindings, EventsUnbind, MadeFits
  <2>. QED BY <1>5, <2>1, <2>2, <2>3 DEF Bindings
<1>. QED BY <1>6, <1>7 DEF Unbind

LEMMA BindNpu ==
    ASSUME NpuInv, NEW k \in Pools, Bind(k)
    PROVE  Bindings'
<1>. DEFINE b == [val |-> pool[k].val, at |-> assoc.at, made |-> TRUE, obj |-> pool[k].obj]
<1>1. /\ UNCHANGED <<intf, events, hand, lost, npu, alive, disturbed>> /\ alive /\ ~Settled
      /\ assoc # NoAssoc /\ assoc.step = "bind" /\ ~Unmapping
      /\ pool' = [pool EXCEPT ![k] = b]
  BY DEF Bind, Unaffected, interface, Settled, NoAssoc, Unmapping
<1>2. /\ assoc'.todo = assoc.todo \ {k} /\ assoc'.key = assoc.key /\ assoc'.data = assoc.data
      /\ assoc'.step = assoc.step /\ assoc'.at = assoc.at
  BY VisitedIs, Parts DEF Bind, NpuInv
<1>3. PoolsOK /\ pool[k] # None
  BY Parts DEF Bind, NpuInv, IInv, PointersValid
<1>4. assoc.key = None
  BY <1>1 DEF NpuInv, Bindings, EventsFit
<1>5. EventsFit' /\ (Unmapping' <=> Unmapping)
  BY <1>1, <1>2, <1>4, ToDo
<1>6. pool'[k] = b /\ \A j \in Pools \ {k} : pool'[j] = pool[j]
  BY <1>1, <1>3 DEF PoolsOK
<1>7. \A j \in Pools \ disturbed : Unbound(j)
  BY <1>1 DEF NpuInv, Bindings, EventsUnbind, MustBeUnbound
<1>8. \A j \in Pools \ disturbed : Unbound(j)'
  BY <1>3, <1>6, <1>7 DEF Unbound
<1>9. OthersFit'
  <2>1. ASSUME NEW j \in Pools \ disturbed, hand.key # j PROVE Fits(j)'
    <3>1. NpuFits(j)
      BY <1>1, <2>1, AliveFits
    <3>2. \A h \in Handles \ lost : ~Has(h, j)
      BY <1>7, <3>1 DEF NpuFits, Unbound
    <3>3. NpuFits(j)'
      BY <1>1, <3>2 DEF NpuFits, Has
    <3>4. PoolFits(j)'
      BY <1>8 DEF PoolFits, ObjectFits, Unbound
    <3>. QED BY <3>3, <3>4 DEF Fits
  <2>. QED BY <1>1, <2>1 DEF OthersFit
<1>10. HandNpu'
  BY <1>1, PendingHand DEF NpuInv
<1>11. EventsUnbind' /\ MadeFits'
  BY <1>1, <1>2, <1>4, <1>6, <1>8 DEF NpuInv, Bindings, EventsUnbind, MadeFits
<1>. QED BY <1>5, <1>9, <1>10, <1>11 DEF Bindings

LEMMA ReadDbNpu ==
    ASSUME NpuInv, ReadDb
    PROVE  Bindings'
<1>1. /\ UNCHANGED <<intf, events, pool, npu, hand, lost, alive, disturbed>> /\ alive
      /\ ~Settled /\ assoc # NoAssoc /\ assoc.step = "bind" /\ assoc.todo = {}
  BY DEF ReadDb, Unaffected, interface, Settled, NoAssoc
<1>2. assoc.key = None
  BY <1>1 DEF NpuInv, Bindings, EventsFit
<1>3. \A k \in Pools \ disturbed : Unbound(k)
  BY <1>1 DEF NpuInv, Bindings, EventsUnbind, MustBeUnbound
<1>4. assoc'.key = None /\ EventsFit'
  <2>1. CASE assoc.at = None /\ assoc' = NoAssoc
    BY <1>1, <2>1, NullTypes DEF NpuInv, Bindings, EventsFit, NoAssoc
  <2>2. CASE assoc.at # None /\ \E r : assoc' = [NoAssoc EXCEPT !.step = "replay", !.replay = r]
    <3>1. assoc'.key = None /\ assoc'.step = "replay"
      BY <2>2 DEF NoAssoc
    <3>. QED BY <1>1, <2>2, <3>1 DEF NpuInv, Bindings, EventsFit, Unmapping
  <2>. QED BY <2>1, <2>2 DEF ReadDb
<1>. QED BY <1>1, <1>2, <1>3, <1>4, PointersNpu

LEMMA EndAssociationNpu ==
    ASSUME NpuInv, EndAssociation
    PROVE  Bindings'
<1>1. /\ UNCHANGED <<intf, events, pool, npu, hand, lost, alive, disturbed>> /\ alive
      /\ ~Settled /\ assoc # NoAssoc /\ ~Unmapping /\ assoc.key = None /\ assoc' = NoAssoc
  BY DEF EndAssociation, Unaffected, interface, Settled, NoAssoc, Unmapping
<1>2. \A k \in Pools \ disturbed : Unbound(k)
  BY <1>1 DEF NpuInv, Bindings, EventsUnbind, MustBeUnbound
<1>3. assoc'.key = None /\ EventsFit'
  BY <1>1 DEF NpuInv, Bindings, EventsFit, NoAssoc
<1>. QED BY <1>1, <1>2, <1>3, PointersNpu

LEMMA ReplayPushNpu ==
    ASSUME NpuInv, NEW k \in Pools, NEW v \in Profiles, ReplayPush(k, v)
    PROVE  Bindings'
<1>. DEFINE rest == assoc.replay \ {<<k, v>>}
<1>1. /\ UNCHANGED <<intf, events, pool, hand, lost, alive>> /\ alive /\ ~Settled
      /\ assoc # NoAssoc /\ assoc.step = "replay" /\ assoc.key = None /\ ~Unmapping
      /\ disturbed' = disturbed \cup Victim(k)
  BY DEF ReplayPush, Unaffected, interface, Settled, NoAssoc, Unmapping
<1>2. \A j \in Pools \ disturbed : Unbound(j)
  BY <1>1 DEF NpuInv, Bindings, EventsUnbind, MustBeUnbound
<1>3. /\ assoc'.step = assoc.step /\ assoc'.at = assoc.at /\ assoc'.todo = assoc.todo
      /\ \/ assoc'.key = None
         \/ assoc'.key = k /\ assoc'.data = Copy(k, v) /\ pool[k] # None
  BY Parts DEF ReplayPush, NpuInv, AssocOK, Assocs
<1>4. EventsFit'
  BY <1>1, <1>3, ToDo
<1>5. OthersFit' /\ HandNpu'
  <2>1. CASE npu' = npu
    <3>1. OthersFit'
      BY <1>1, <2>1, UntouchedObjects, KeptFits DEF NpuInv, Bindings, OthersFit
    <3>. QED BY <1>1, <3>1, PendingHand DEF NpuInv
  <2>2. CASE npu' # npu
    <3>1. pool[k] # None /\ NdiSet(pool[k].obj, v)
      BY <2>2 DEF ReplayPush
    <3>2. k \in disturbed
      <4>1. pool[k].obj \in Handles
        BY <2>2, <3>1 DEF NdiSet, Exists
      <4>. QED BY <1>2, <3>1, <4>1 DEF Unbound
    <3>. QED BY <1>1, <3>1, <3>2, AssocFits
  <2>. QED BY <2>1, <2>2
<1>6. EventsUnbind'
  <2>1. assoc'.key \in Pools \ disturbed' => assoc'.data.obj \notin Handles
    BY <1>1, <1>2, <1>3 DEF Copy, Unbound
  <2>. QED BY <1>1, <1>2, <2>1 DEF EventsUnbind, Unbound
<1>7. MadeFits'
  BY <1>1, <1>3 DEF NpuInv, Bindings, MadeFits, Copy
<1>. QED BY <1>4, <1>5, <1>6, <1>7 DEF Bindings

LEMMA ReplayStoreNpu ==
    ASSUME NpuInv, ReplayStore
    PROVE  Bindings'
<1>. SUFFICES ASSUME NEW k, k = assoc.key, NEW d, d = assoc.data PROVE Bindings'
  OBVIOUS
<1>1. /\ UNCHANGED <<intf, events, npu, hand, lost, disturbed>> /\ alive /\ ~Settled
      /\ assoc # NoAssoc /\ assoc.step = "replay" /\ ~Unmapping /\ k # None
  BY DEF ReplayStore, Unaffected, interface, Settled, NoAssoc, Unmapping
<1>2. PoolsOK /\ k \in Pools /\ d \in PortPool /\ d # None
  BY <1>1, Parts, AssocFields DEF NpuInv, IInv, ReplayHasData
<1>3. /\ assoc'.step = assoc.step /\ assoc'.at = assoc.at /\ assoc'.todo = assoc.todo
      /\ assoc'.key = None
  BY Parts DEF ReplayStore, NpuInv, AssocOK, Assocs
<1>4. EventsFit'
  BY <1>1, <1>3, ToDo
<1>5. /\ \A j \in Pools \ disturbed : Unbound(j)
      /\ k \notin disturbed => d.obj \notin Handles
  BY <1>1, <1>2 DEF NpuInv, Bindings, EventsUnbind, MustBeUnbound
<1>6. /\ \A j \in Pools \ {k} : pool'[j] = pool[j]
      /\ pool'[k] = d \/ (pool'[k] = pool[k] /\ k \in disturbed)
  BY <1>2 DEF ReplayStore, PoolsOK, NpuInv, IInv, GoneIsDisturbed
<1>7. \A j \in Pools \ disturbed : Unbound(j)'
  BY <1>5, <1>6 DEF Unbound
<1>8. OthersFit'
  <2>1. ASSUME NEW j \in Pools \ disturbed, hand.key # j PROVE Fits(j)'
    <3>1. NpuFits(j)
      BY <1>1, <2>1, AliveFits
    <3>2. \A h \in Handles \ lost : ~Has(h, j)
      BY <1>5, <3>1 DEF NpuFits, Unbound
    <3>3. NpuFits(j)'
      BY <1>1, <3>2 DEF NpuFits, Has
    <3>4. PoolFits(j)'
      BY <1>7 DEF PoolFits, ObjectFits, Unbound
    <3>. QED BY <3>3, <3>4 DEF Fits
  <2>. QED BY <1>1, <2>1 DEF OthersFit
<1>9. HandNpu'
  BY <1>1, PendingHand DEF NpuInv
<1>10. EventsUnbind'
  BY <1>1, <1>3, <1>7 DEF EventsUnbind
<1>11. MadeFits'
  <2>1. \A j \in Pools : pool[j] # None /\ pool[j].obj \in Handles => pool[j].made
    BY DEF NpuInv, Bindings, MadeFits
  <2>2. d.obj \in Handles => d.made
    BY <1>1 DEF NpuInv, Bindings, MadeFits
  <2>3. \A j \in Pools : pool'[j] # None /\ pool'[j].obj \in Handles => pool'[j].made
    BY <1>6, <2>1, <2>2
  <2>. QED BY <1>1, <1>3, <2>3 DEF NpuInv, Bindings, MadeFits
<1>. QED BY <1>4, <1>8, <1>9, <1>10, <1>11 DEF Bindings

----------------------------------------------------------------------------
(* The theorems. *)

LEMMA InitNpu == Init => Bindings
<1>. SUFFICES ASSUME Init PROVE Bindings
  OBVIOUS
<1>1. OthersFit
  BY DEF Init, OthersFit, Fits, NpuFits, PoolFits, Has
<1>2. HandNpu /\ EventsFit /\ MadeFits
  BY DEF Init, HandNpu, EventsFit, MadeFits, NoHand, NoAssoc
<1>3. EventsUnbind
  BY DEF Init, EventsUnbind, Unbound, NoAssoc
<1>. QED BY <1>1, <1>2, <1>3 DEF Bindings

LEMMA RequestsNpu ==
    ASSUME NpuInv, PoolsOK', NEW c \in Clients,
           Request(c) \/ Undo(c) \/ OtherFails(c) \/ End(c)
    PROVE  Bindings'
<1>1. CASE Request(c)
  BY <1>1, BeginNpu DEF Request, Ops, Profiles
<1>2. CASE Undo(c)
  <2>. DEFINE s == tx[c].prev[Len(tx[c].prev)]
  <2>1. tx[c].prev # <<>> /\ Begin(c, Opposite(s.op), s.key, s.val)
    BY <1>2 DEF Undo
  <2>2. s.key \in Pools /\ s.op \in Ops /\ s.val \in Profiles
    BY <2>1, Parts, TxFields DEF NpuInv
  <2>3. Opposite(s.op) \in Ops
    BY DEF Opposite, Ops
  <2>. QED BY <2>1, <2>2, <2>3, BeginNpu
<1>3. CASE OtherFails(c) \/ End(c)
  BY <1>3, QuietNpu DEF OtherFails, End, interface, aux
<1>. QED BY <1>1, <1>2, <1>3

LEMMA StepNpu == NpuInv /\ IInv' /\ [Next]_vars => Bindings'
<1>. SUFFICES ASSUME NpuInv, IInv', [Next]_vars PROVE Bindings'
  OBVIOUS
<1>0. PoolsOK'
  BY DEF IInv, Types
<1>1. CASE (UNCHANGED vars) \/ CollectRaces
  BY <1>1, QuietNpu DEF vars, aux, interface, CollectRaces, Unaffected
<1>2. CASE \E c \in Clients : Request(c) \/ Undo(c) \/ OtherFails(c) \/ End(c)
  BY <1>0, <1>2, RequestsNpu
<1>3. CASE CreateCommit \/ CreateStore \/ SetStore \/ DeleteStore
  BY <1>0, <1>3, CreateCommitNpu, CreateStoreNpu, SetStoreNpu, DeleteStoreNpu
<1>4. CASE \E k \in Pools, names \in SUBSET DOMAIN PortPoolCounters :
             StatReadDies(k, names) \/ \E c \in Clients : StatClear(c, k, names)
  <2>1. /\ UNCHANGED <<intf, events, pool, npu, hand, assoc, disturbed, lost>>
        /\ alive' => alive
    BY <1>4 DEF StatReadDies, StatClear, interface, aux
  <2>. QED BY <2>1, QuietNpu
<1>5. CASE \E n \in NpuPorts \cup {None} : Change(n)
  BY <1>5, ChangeNpu
<1>6. CASE Collect \/ ReadDb \/ ReplayStore \/ EndAssociation
  BY <1>6, CollectNpu, ReadDbNpu, ReplayStoreNpu, EndAssociationNpu
<1>7. CASE \E k \in Pools : UseFreed(k) \/ Unbind(k) \/ Bind(k)
  BY <1>7, UseFreedNpu, UnbindNpu, BindNpu
<1>8. CASE \E k \in Pools, v \in Profiles : ReplayPush(k, v)
  BY <1>8, ReplayPushNpu
<1>. QED BY <1>1, <1>2, <1>3, <1>4, <1>5, <1>6, <1>7, <1>8 DEF Next, Associate, Profiles

\* The invariant of the NPU objects: which object a pool has between and during the steps
\* of a handler and of an association, and that a mapping finds no pool bound
\* (nas_qos_cps_api_port_pool_*, nas_qos_port_pool_association).
THEOREM BindingInvariance == Spec => []NpuInv
<1>1. NpuInv /\ IInv' /\ [Next]_vars => NpuInv'
  BY StepNpu DEF NpuInv
<1>2. IInv /\ Bindings => NpuInv
  BY DEF NpuInv
<1>. QED BY <1>1, <1>2, InitNpu, PoolInvariance, PTL DEF Spec

\* For every number of pools, NPU objects, ports and clients: the object of a pool is in
\* the NPU as it is cached, and the NPU has no other but those refused as duplicates; a
\* pool a request was about while an event was pending is excepted, and one whose object
\* such a pool took.
THEOREM NpuHasPools == Spec => []NpuFollowsCache
<1>1. NpuInv => NpuFollowsCache
  <2>. SUFFICES ASSUME NpuInv PROVE NpuFollowsCache
    OBVIOUS
  <2>1. ASSUME NEW k \in Pools \ disturbed, hand.key # k
        PROVE  NpuFits(k) /\ (assoc.key # k => PoolFits(k))
    BY <2>1 DEF NpuInv, Bindings, OthersFit, Fits
  <2>2. \A h \in Handles : npu[h] # None => npu[h].pool \in Pools
    BY Parts DEF NpuInv, PoolsOK, NpuPool
  <2>3. ASSUME NEW k \in Pools \ disturbed, hand.key # k, assoc.key # k,
               pool[k] # None, pool[k].obj \in Handles
        PROVE  /\ npu[pool[k].obj] # None
               /\ npu[pool[k].obj] = [at |-> pool[k].at, pool |-> k, val |-> pool[k].val]
    BY <2>1, <2>3 DEF PoolFits, ObjectFits, Has
  <2>4. ASSUME NEW h \in Handles \ lost, npu[h] # None,
               npu[h].pool \notin disturbed, hand.key # npu[h].pool
        PROVE  pool[npu[h].pool] # None /\ pool[npu[h].pool].obj = h
    <3>1. npu[h].pool \in Pools \ disturbed
      BY <2>2, <2>4
    <3>. QED BY <2>1, <2>4, <3>1 DEF NpuFits, Has
  <2>. QED BY <2>3, <2>4 DEF NpuFollowsCache
<1>. QED BY <1>1, BindingInvariance, PTL
=============================================================================
