---------------------------- MODULE ProfileStore ----------------------------
(***************************************************************************)
(* The profile objects of one type (policer, WRED, scheduler, buffer pool or *)
(* buffer profile): the id generator, the cache of the switch, the objects  *)
(* the NPU holds, and the CPS transactions that create, set and delete them *)
(* and are rolled back when one of their operations fails.  The handlers of *)
(* one type hold the mutex of their file, so an operation is one step; the  *)
(* operations of different clients interleave, and so do their rollbacks.   *)
(*                                                                          *)
(* An object is abstracted to val (the attributes that are pushed to the    *)
(* NPU and marked dirty), name (set without being marked dirty) and ndi,    *)
(* the handle of its NPU object.                                            *)
(***************************************************************************)
EXTENDS Naturals, Sequences, FiniteSets

CONSTANTS
    Ids,          \* ids of the generator
    Vals, Names,  \* contents of an object; NoName is in Names
    Handles,      \* NDI object ids
    Clients,      \* processes that run CPS transactions
    None, NoName,
    NdiMayFail,   \* whether NDI may refuse a call
    HasShadows,   \* whether creation reads shadow objects back (buffer pools)
    MaxOps        \* bound on the operations of a transaction that succeed

ASSUME NoneIsNew == None \notin Ids \cup Vals \cup Handles
ASSUME NameIsName == NoName \in Names
ASSUME Flags == NdiMayFail \in BOOLEAN /\ HasShadows \in BOOLEAN /\ MaxOps \in Nat

VARIABLES
    reserved,  \* nas::id_generator_t: ids in use
    store,     \* nas_qos_switch: the objects by id
    npu,       \* the contents of the NPU's objects
    tx,        \* the transaction of each client: its phase and param->prev
    before,    \* auxiliary: for each transaction the store when it began, or None
               \* when something else changed an object since
    orphans    \* auxiliary: NPU objects of creations that failed half way

cache == <<reserved, store, npu, orphans>>
vars == <<cache, tx, before>>

Object == [val : Vals, name : Names, ndi : Handles]
\* What *_store_prev_attr saves: for a SET only what the request changed.
Saved ==
    [op : {"create"}, id : Ids, val : {None}]
      \cup [op : {"set"}, id : Ids, val : Vals \cup {None}]
      \cup [op : {"delete"}, id : Ids, val : Vals]
\* What a request carries of an object and a save keeps of it; its NDI ids are not part of it.
Content(o) == IF o = None THEN None ELSE [val |-> o.val, name |-> o.name]
Contents == [val : Vals, name : Names]
Configs == [Ids -> Contents \cup {None}]
ASSUME NoneIsNoObject == None \notin Object \cup Contents \cup Configs
Idle == [phase |-> "idle", prev |-> <<>>]

Stored == {i \in Ids : store[i] # None}
Config == [i \in Ids |-> Content(store[i])]

Init ==
    /\ reserved = {}
    /\ store = [i \in Ids |-> None]
    /\ npu = [h \in Handles |-> None]
    /\ tx = [c \in Clients |-> Idle]
    /\ before = [c \in Clients |-> None]
    /\ orphans = {}

----------------------------------------------------------------------------
(* The three operations, without the bookkeeping of the transaction.        *)

\* No id asked for: alloc_id; otherwise reserve_id, which fails when in use.
Candidates(asked) == (IF asked = None THEN Ids ELSE {asked}) \ reserved

\* Mutant: an id is taken without being reserved.
AddUnreserved(i, v, n) ==
    /\ \E h \in Handles :
         /\ npu[h] = None
         /\ npu' = [npu EXCEPT ![h] = v]
         /\ store' = [store EXCEPT ![i] = [val |-> v, name |-> n, ndi |-> h]]
    /\ UNCHANGED <<reserved, orphans>>

\* Mutant: what the NPU creates is not the object of the request.
AddDefault(i, v, n) ==
    /\ \E h \in Handles, w \in Vals :
         /\ npu[h] = None
         /\ npu' = [npu EXCEPT ![h] = w]
         /\ store' = [store EXCEPT ![i] = [val |-> v, name |-> n, ndi |-> h]]
    /\ reserved' = reserved \cup {i}
    /\ UNCHANGED orphans

\* commit_create, then add_*.
Add(i, v, n) ==
    /\ \E h \in Handles :
         /\ npu[h] = None
         /\ npu' = [npu EXCEPT ![h] = v]
         /\ store' = [store EXCEPT ![i] = [val |-> v, name |-> n, ndi |-> h]]
    /\ reserved' = reserved \cup {i}
    /\ UNCHANGED orphans

\* commit_create throws after the NPU created the object: the id is released and
\* the NPU object forgotten.
Lose(v) ==
    /\ HasShadows /\ NdiMayFail
    /\ \E h \in Handles :
         /\ npu[h] = None
         /\ npu' = [npu EXCEPT ![h] = v]
         /\ orphans' = orphans \cup {h}
    /\ UNCHANGED <<reserved, store>>

\* Mutant: an attribute the request does not carry is cleared.
ModifyAll(i, v, n) ==
    /\ npu' = IF v = None THEN npu ELSE [npu EXCEPT ![store[i].ndi] = v]
    /\ store' = [store EXCEPT ![i] =
                   [val |-> v, name |-> IF n = None THEN store[i].name ELSE n,
                    ndi |-> store[i].ndi]]
    /\ UNCHANGED <<reserved, orphans>>

\* commit_modify pushes the dirty attributes; the cache takes the whole copy.
Modify(i, v, n) ==
    /\ npu' = IF v = None THEN npu ELSE [npu EXCEPT ![store[i].ndi] = v]
    /\ store' = [store EXCEPT ![i] =
                   [val |-> IF v = None THEN store[i].val ELSE v,
                    name |-> IF n = None THEN store[i].name ELSE n,
                    ndi |-> store[i].ndi]]
    /\ UNCHANGED <<reserved, orphans>>

\* The request does not parse, or NDI refuses the call.
Refused == NdiMayFail /\ UNCHANGED cache

\* commit_delete, then remove_*, which also releases the id.
Remove(i) ==
    /\ npu' = [npu EXCEPT ![store[i].ndi] = None]
    /\ store' = [store EXCEPT ![i] = None]
    /\ reserved' = reserved \ {i}
    /\ UNCHANGED orphans

----------------------------------------------------------------------------
(* nas_qos_cps_api_*_write: an operation of a transaction.                  *)

Ready(c) == tx[c].phase \in {"idle", "open"}

Start(c) == IF tx[c].phase = "idle" THEN Config ELSE before[c]

\* The operation succeeds and its saved object is appended to param->prev; no other
\* transaction can hope to restore what it began with.
Done(c, s) ==
    /\ Len(tx[c].prev) < MaxOps
    /\ tx' = [tx EXCEPT ![c] = [phase |-> "open", prev |-> Append(tx[c].prev, s)]]
    /\ before' = [d \in Clients |-> IF d = c THEN Start(c) ELSE None]

\* It fails, and the CPS framework rolls back what the transaction did.
Failed(c) ==
    /\ tx' = [tx EXCEPT ![c] = [phase |-> "undo", prev |-> tx[c].prev]]
    /\ before' = [before EXCEPT ![c] = Start(c)]

Create(c, asked, v, n) ==
    /\ Ready(c)
    /\ \/ \E i \in Candidates(asked) :
             Add(i, v, n) /\ Done(c, [op |-> "create", id |-> i, val |-> None])
       \/ Candidates(asked) # {} /\ Lose(v) /\ Failed(c)
       \/ Candidates(asked) # {} /\ Refused /\ Failed(c)
       \/ Candidates(asked) = {} /\ UNCHANGED cache /\ Failed(c)

\* v or n is None when the request does not carry the attribute.
Set(c, i, v, n) ==
    /\ Ready(c)
    /\ \/ /\ store[i] # None
          /\ Modify(i, v, n)
          /\ Done(c, [op |-> "set", id |-> i,
                      val |-> IF v = None THEN None ELSE store[i].val])
       \/ store[i] # None /\ Refused /\ Failed(c)
       \/ store[i] = None /\ UNCHANGED cache /\ Failed(c)

Delete(c, i) ==
    /\ Ready(c)
    /\ \/ /\ store[i] # None
          /\ Remove(i)
          /\ Done(c, [op |-> "delete", id |-> i, val |-> store[i].val])
       \/ store[i] # None /\ Refused /\ Failed(c)
       \/ store[i] = None /\ UNCHANGED cache /\ Failed(c)

----------------------------------------------------------------------------
(* nas_qos_cps_api_*_rollback: the framework hands the saved objects back,  *)
(* the last one first; an operation that fails is passed over.              *)

UndoCreate(s) ==
    /\ s.op = "create"
    /\ IF store[s.id] = None THEN UNCHANGED cache ELSE Remove(s.id)

\* Mutant: the rollback handler has no case for SET.
UndoSetNothing(s) == s.op = "set" /\ UNCHANGED cache

UndoSet(s) ==
    /\ s.op = "set"
    /\ IF store[s.id] = None THEN UNCHANGED cache ELSE Modify(s.id, s.val, None)

UndoDelete(s) ==
    /\ s.op = "delete"
    /\ IF s.id \in reserved THEN UNCHANGED cache ELSE Add(s.id, s.val, NoName)

UndoFails(s) ==
    /\ \/ s.op \in {"create", "delete"} /\ Refused
       \/ s.op = "set" /\ s.val # None /\ Refused
       \/ s.op = "delete" /\ s.id \notin reserved /\ Lose(s.val)

\* Mutant: the framework's list is taken from its front.
UndoOldest(c) ==
    /\ tx[c].phase = "undo" /\ tx[c].prev # <<>>
    /\ LET s == Head(tx[c].prev)
       IN /\ \/ /\ UndoCreate(s) \/ UndoSet(s) \/ UndoDelete(s)
                /\ before' = [d \in Clients |-> IF d = c THEN before[c] ELSE None]
             \/ UndoFails(s) /\ before' = [d \in Clients |-> None]
          /\ tx' = [tx EXCEPT ![c] = [phase |-> "undo", prev |-> Tail(tx[c].prev)]]

Undo(c) ==
    /\ tx[c].phase = "undo" /\ tx[c].prev # <<>>
    /\ LET p == tx[c].prev
           s == p[Len(p)]
       IN /\ \/ /\ UndoCreate(s) \/ UndoSet(s) \/ UndoDelete(s)
                /\ before' = [d \in Clients |-> IF d = c THEN before[c] ELSE None]
             \/ UndoFails(s) /\ before' = [d \in Clients |-> None]
          /\ tx' = [tx EXCEPT ![c] = [phase |-> "undo",
                                      prev |-> SubSeq(p, 1, Len(p) - 1)]]

\* The transaction ends, committed or undone.
End(c) ==
    /\ \/ tx[c].phase = "open"
       \/ tx[c].phase = "undo" /\ tx[c].prev = <<>>
    /\ tx' = [tx EXCEPT ![c] = Idle]
    /\ before' = [before EXCEPT ![c] = None]
    /\ UNCHANGED cache

Request(c) ==
    \/ \E asked \in Ids \cup {None}, v \in Vals, n \in Names : Create(c, asked, v, n)
    \/ \E i \in Ids, v \in Vals \cup {None}, n \in Names \cup {None} : Set(c, i, v, n)
    \/ \E i \in Ids : Delete(c, i)

Next == \E c \in Clients : Request(c) \/ Undo(c) \/ End(c)

Spec == Init /\ [][Next]_vars
----------------------------------------------------------------------------
CacheTypeOK ==
    /\ reserved \subseteq Ids
    /\ store \in [Ids -> Object \cup {None}]
    /\ npu \in [Handles -> Vals \cup {None}]
    /\ orphans \subseteq Handles

TxTypeOK == tx \in [Clients -> [phase : {"idle", "open", "undo"}, prev : Seq(Saved)]]

AuxTypeOK == before \in [Clients -> Configs \cup {None}]

TypeOK == CacheTypeOK /\ TxTypeOK /\ AuxTypeOK

----------------------------------------------------------------------------
(* Properties *)

\* Whatever transactions and rollbacks interleave, the id generator and the cache
\* agree: no id leaks when a creation fails, and no id is given out twice.
IdsMatchObjects == reserved = Stored

\* The NPU holds one object for each cached object, with the cached contents, and
\* nothing else but the objects forgotten by creations that failed on their shadow
\* objects (nas_qos_buffer_pool::push_create_obj_to_npu).
NpuMirrorsCache ==
    /\ \A i \in Stored : npu[store[i].ndi] = store[i].val
    /\ \A i, j \in Stored : store[i].ndi = store[j].ndi => i = j
    /\ \A h \in Handles : npu[h] # None =>
          h \in orphans \/ \E i \in Stored : store[i].ndi = h

\* The transaction of c has been undone, nobody else changed an object since it
\* began, and NDI refused no step of the rollback.
Undone(c) == tx[c].phase = "undo" /\ tx[c].prev = <<>> /\ before[c] # None

SameValue(a, b) == a = b \/ (a # None /\ b # None /\ a.val = b.val)

\* A transaction that fails is undone: the same ids hold objects as before it, with
\* the same values of all attributes that go to the NPU, whichever objects it
\* created, changed and deleted, several times or in any order
\* (nas_qos_cps_api_*_rollback with what *_store_prev_attr saved).
RollbackRestores ==
    \A c \in Clients : Undone(c) => \A i \in Ids : SameValue(before[c][i], Config[i])

----------------------------------------------------------------------------
(* The refinement: what the NPU holds for each id, by way of the cache, is  *)
(* a store with atomic transactions.                                        *)

NpuObjects == [i \in Ids |-> IF store[i] = None THEN None ELSE npu[store[i].ndi]]
Values(config) == [i \in Ids |-> IF config[i] = None THEN None ELSE config[i].val]

Store == INSTANCE AtomicStore WITH
    objects <- NpuObjects,
    phase <- [c \in Clients |-> tx[c].phase],
    began <- [c \in Clients |-> IF before[c] = None THEN None ELSE Values(before[c])]

\* For the NPU every request and every step of a rollback changes one object, and a failed
\* transaction is over only when the objects are those it began with, unless another
\* client changed one or NDI refused the rollback (nas_qos_cps_api_*_write and
\* nas_qos_cps_api_*_rollback).
Atomic == Store!Spec
=============================================================================
