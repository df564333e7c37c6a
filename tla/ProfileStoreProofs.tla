------------------------- MODULE ProfileStoreProofs -------------------------
(***************************************************************************)
(* Proofs about ProfileStore: for every number of ids, handles, contents    *)
(* and clients, and transactions of any length, the id generator, the cache *)
(* and the objects of the NPU agree, an undone transaction leaves what it   *)
(* found, and the store implements AtomicStore.                             *)
(***************************************************************************)
EXTENDS ProfileStore, TLAPS

Agree == CacheTypeOK /\ IdsMatchObjects /\ NpuMirrorsCache

USE NoneIsNew, NameIsName, Flags, NoneIsNoObject

\* Creation keeps the generator, the cache and the NPU in agreement.
LEMMA AddAgrees ==
    ASSUME NEW i \in Ids, NEW v \in Vals, NEW n \in Names,
           Agree, i \notin reserved, Add(i, v, n)
    PROVE  Agree'
<1>1. PICK h \in Handles :
        /\ npu[h] = None
        /\ npu' = [npu EXCEPT ![h] = v]
        /\ store' = [store EXCEPT ![i] = [val |-> v, name |-> n, ndi |-> h]]
  BY DEF Add
<1>2. reserved' = reserved \cup {i} /\ orphans' = orphans
  BY DEF Add
<1>. DEFINE new == [val |-> v, name |-> n, ndi |-> h]
<1>3. new \in Object /\ new # None /\ new.val = v /\ new.ndi = h
  BY DEF Object
<1>4. store'[i] = new /\ \A j \in Ids : j # i => store'[j] = store[j]
  BY <1>1 DEF Agree, CacheTypeOK
<1>5. npu'[h] = v /\ \A g \in Handles : g # h => npu'[g] = npu[g]
  BY <1>1 DEF Agree, CacheTypeOK
<1>6. CacheTypeOK'
  BY <1>1, <1>2, <1>3 DEF Agree, CacheTypeOK
<1>7. Stored' = Stored \cup {i}
  BY <1>3, <1>4 DEF Stored
<1>8. IdsMatchObjects'
  BY <1>2, <1>7 DEF Agree, IdsMatchObjects
<1>9. i \notin Stored
  BY DEF Agree, IdsMatchObjects
<1>10. \A j \in Stored : store[j] \in Object /\ store[j].ndi \in Handles /\ store[j].val \in Vals
  BY DEF Agree, CacheTypeOK, Stored, Object
<1>11. \A j \in Stored : store[j].ndi # h /\ j # i /\ store'[j] = store[j] /\ j \in Ids
  BY <1>1, <1>4, <1>9, <1>10 DEF Agree, NpuMirrorsCache, Stored
<1>12. NpuMirrorsCache'
  <2>1. \A j \in Stored' : npu'[store'[j].ndi] = store'[j].val
    BY <1>3, <1>4, <1>5, <1>7, <1>10, <1>11 DEF Agree, NpuMirrorsCache
  <2>2. \A j, k \in Stored' : store'[j].ndi = store'[k].ndi => j = k
    BY <1>3, <1>4, <1>7, <1>11 DEF Agree, NpuMirrorsCache
  <2>3. \A g \in Handles : npu'[g] # None =>
          g \in orphans' \/ \E j \in Stored' : store'[j].ndi = g
    BY <1>2, <1>3, <1>4, <1>5, <1>7, <1>11 DEF Agree, NpuMirrorsCache
  <2>. QED BY <2>1, <2>2, <2>3 DEF NpuMirrorsCache
<1>. QED BY <1>6, <1>8, <1>12 DEF Agree

\* A creation that forgets its NPU object records it among the orphans.
LEMMA LoseAgrees ==
    ASSUME NEW v \in Vals, Agree, Lose(v)
    PROVE  Agree'
<1>1. PICK h \in Handles :
        /\ npu[h] = None
        /\ npu' = [npu EXCEPT ![h] = v]
        /\ orphans' = orphans \cup {h}
  BY DEF Lose
<1>2. reserved' = reserved /\ store' = store
  BY DEF Lose
<1>3. CacheTypeOK'
  BY <1>1, <1>2 DEF Agree, CacheTypeOK
<1>4. Stored' = Stored /\ IdsMatchObjects'
  BY <1>2 DEF Agree, IdsMatchObjects, Stored
<1>5. npu'[h] = v /\ \A g \in Handles : g # h => npu'[g] = npu[g]
  BY <1>1 DEF Agree, CacheTypeOK
<1>6. \A j \in Stored : store[j].ndi \in Handles /\ store[j].val # None
  BY DEF Agree, CacheTypeOK, Stored, Object
<1>7. NpuMirrorsCache'
  BY <1>1, <1>2, <1>4, <1>5, <1>6 DEF Agree, NpuMirrorsCache
<1>. QED BY <1>3, <1>4, <1>7 DEF Agree

\* A modification changes the value of one object on both sides.
LEMMA ModifyAgrees ==
    ASSUME NEW i \in Ids, NEW v \in Vals \cup {None}, NEW n \in Names \cup {None},
           Agree, store[i] # None, Modify(i, v, n)
    PROVE  Agree'
<1>. DEFINE w == IF v = None THEN store[i].val ELSE v
            m == IF n = None THEN store[i].name ELSE n
            h == store[i].ndi
            new == [val |-> w, name |-> m, ndi |-> h]
<1>1. store[i] \in Object /\ store[i].val \in Vals /\ store[i].name \in Names /\ h \in Handles
  BY DEF Agree, CacheTypeOK, Object
<1>2. w \in Vals
  BY <1>1
<1>3. m \in Names
  BY <1>1
<1>4. new \in Object /\ new # None /\ new.val = w /\ new.ndi = h
  BY <1>1, <1>2, <1>3 DEF Object
<1>5. store' = [store EXCEPT ![i] = new] /\ reserved' = reserved /\ orphans' = orphans
  BY DEF Modify
<1>6. store'[i] = new /\ \A j \in Ids : j # i => store'[j] = store[j]
  BY <1>5 DEF Agree, CacheTypeOK
<1>7. npu[h] = store[i].val
  BY DEF Agree, NpuMirrorsCache, Stored
<1>8. npu' = [npu EXCEPT ![h] = w]
  <2>1. CASE v = None
    BY <2>1, <1>1, <1>7 DEF Modify, Agree, CacheTypeOK
  <2>2. CASE v # None
    BY <2>2 DEF Modify
  <2>. QED BY <2>1, <2>2
<1>9. npu'[h] = w /\ \A g \in Handles : g # h => npu'[g] = npu[g]
  BY <1>1, <1>8 DEF Agree, CacheTypeOK
<1>10. CacheTypeOK'
  BY <1>1, <1>2, <1>4, <1>5, <1>8 DEF Agree, CacheTypeOK
<1>11. Stored' = Stored /\ i \in Stored
  BY <1>4, <1>6 DEF Stored
<1>12. IdsMatchObjects'
  BY <1>5, <1>11 DEF Agree, IdsMatchObjects
<1>13. \A j \in Stored : j \in Ids /\ store[j].ndi \in Handles /\ store'[j].ndi = store[j].ndi
  BY <1>1, <1>4, <1>6 DEF Agree, CacheTypeOK, Stored, Object
<1>14. NpuMirrorsCache'
  <2>1. \A j \in Stored' : npu'[store'[j].ndi] = store'[j].val
    BY <1>4, <1>6, <1>9, <1>11, <1>13 DEF Agree, NpuMirrorsCache
  <2>2. \A j, k \in Stored' : store'[j].ndi = store'[k].ndi => j = k
    BY <1>11, <1>13 DEF Agree, NpuMirrorsCache
  <2>3. \A g \in Handles : npu'[g] # None =>
          g \in orphans' \/ \E j \in Stored' : store'[j].ndi = g
    BY <1>5, <1>9, <1>11, <1>13 DEF Agree, NpuMirrorsCache
  <2>. QED BY <2>1, <2>2, <2>3 DEF NpuMirrorsCache
<1>. QED BY <1>10, <1>12, <1>14 DEF Agree

\* A removal frees the id and the NPU object together.
LEMMA RemoveAgrees ==
    ASSUME NEW i \in Ids, Agree, store[i] # None, Remove(i)
    PROVE  Agree'
<1>. DEFINE h == store[i].ndi
<1>1. h \in Handles /\ i \in Stored
  BY DEF Agree, CacheTypeOK, Object, Stored
<1>2. /\ npu' = [npu EXCEPT ![h] = None]
      /\ store' = [store EXCEPT ![i] = None]
      /\ reserved' = reserved \ {i} /\ orphans' = orphans
  BY DEF Remove
<1>3. CacheTypeOK'
  BY <1>1, <1>2 DEF Agree, CacheTypeOK
<1>4. store'[i] = None /\ \A j \in Ids : j # i => store'[j] = store[j]
  BY <1>2 DEF Agree, CacheTypeOK
<1>5. Stored' = Stored \ {i}
  BY <1>4 DEF Stored
<1>6. IdsMatchObjects'
  BY <1>2, <1>5 DEF Agree, IdsMatchObjects
<1>7. npu'[h] = None /\ \A g \in Handles : g # h => npu'[g] = npu[g]
  BY <1>1, <1>2 DEF Agree, CacheTypeOK
<1>8. \A j \in Stored' : /\ store[j].ndi \in Handles /\ store[j].ndi # h
                         /\ store'[j] = store[j] /\ j \in Stored
  BY <1>1, <1>4, <1>5 DEF Agree, CacheTypeOK, Object, Stored, NpuMirrorsCache
<1>9. NpuMirrorsCache'
  <2>1. \A j \in Stored' : npu'[store'[j].ndi] = store'[j].val
    BY <1>7, <1>8 DEF Agree, NpuMirrorsCache
  <2>2. \A j, k \in Stored' : store'[j].ndi = store'[k].ndi => j = k
    BY <1>8 DEF Agree, NpuMirrorsCache
  <2>3. \A g \in Handles : npu'[g] # None =>
          g \in orphans' \/ \E j \in Stored' : store'[j].ndi = g
    BY <1>2, <1>4, <1>5, <1>7 DEF Agree, NpuMirrorsCache, Stored
  <2>. QED BY <2>1, <2>2, <2>3 DEF NpuMirrorsCache
<1>. QED BY <1>3, <1>6, <1>9 DEF Agree

LEMMA SameCacheAgrees ==
    ASSUME Agree, UNCHANGED cache
    PROVE  Agree'
BY DEF Agree, cache, CacheTypeOK, IdsMatchObjects, NpuMirrorsCache, Stored

----------------------------------------------------------------------------
(* One lemma per action. *)

Inv == Agree /\ TxTypeOK /\ AuxTypeOK

LEMMA ConfigType ==
    ASSUME CacheTypeOK
    PROVE  Config \in Configs
<1>1. \A i \in Ids : Content(store[i]) \in Contents \cup {None}
  BY DEF CacheTypeOK, Content, Contents, Object
<1>. QED BY <1>1 DEF Config, Configs

LEMMA StartType ==
    ASSUME CacheTypeOK, AuxTypeOK, NEW c \in Clients
    PROVE  Start(c) \in Configs \cup {None}
BY ConfigType DEF Start, AuxTypeOK

\* What the bookkeeping of an operation does to the transactions.
LEMMA DoneType ==
    ASSUME CacheTypeOK, TxTypeOK, AuxTypeOK, NEW c \in Clients, NEW s \in Saved, Done(c, s)
    PROVE  TxTypeOK' /\ AuxTypeOK'
<1>1. Append(tx[c].prev, s) \in Seq(Saved)
  BY DEF TxTypeOK
<1>2. TxTypeOK'
  BY <1>1 DEF Done, TxTypeOK
<1>3. AuxTypeOK'
  BY StartType DEF Done, AuxTypeOK
<1>. QED BY <1>2, <1>3

LEMMA FailedType ==
    ASSUME CacheTypeOK, TxTypeOK, AuxTypeOK, NEW c \in Clients, Failed(c)
    PROVE  TxTypeOK' /\ AuxTypeOK'
<1>1. TxTypeOK'
  BY DEF Failed, TxTypeOK
<1>2. AuxTypeOK'
  BY StartType DEF Failed, AuxTypeOK
<1>. QED BY <1>1, <1>2

LEMMA CreateStep ==
    ASSUME NEW c \in Clients, NEW asked \in Ids \cup {None}, NEW v \in Vals, NEW n \in Names,
           Inv, Create(c, asked, v, n)
    PROVE  Inv'
<1>1. CacheTypeOK /\ TxTypeOK /\ AuxTypeOK /\ Agree
  BY DEF Inv, Agree
<1>2. CASE \E i \in Candidates(asked) :
             Add(i, v, n) /\ Done(c, [op |-> "create", id |-> i, val |-> None])
  <2>1. PICK i \in Candidates(asked) :
             Add(i, v, n) /\ Done(c, [op |-> "create", id |-> i, val |-> None])
    BY <1>2
  <2>2. i \in Ids /\ i \notin reserved
    BY NoneIsNew, <2>1 DEF Candidates
  <2>3. [op |-> "create", id |-> i, val |-> None] \in Saved
    BY <2>2 DEF Saved
  <2>4. Agree'
    BY <1>1, <2>1, <2>2, AddAgrees
  <2>5. TxTypeOK' /\ AuxTypeOK'
    BY <1>1, <2>1, <2>3, DoneType
  <2>. QED BY <2>4, <2>5 DEF Inv
<1>3. CASE Lose(v) /\ Failed(c)
  BY <1>1, <1>3, LoseAgrees, FailedType
     DEF Inv
<1>4. CASE UNCHANGED cache /\ Failed(c)
  BY <1>1, <1>4, SameCacheAgrees, FailedType
     DEF Inv
<1>. QED BY <1>2, <1>3, <1>4 DEF Create, Refused

LEMMA SetStep ==
    ASSUME NEW c \in Clients, NEW i \in Ids, NEW v \in Vals \cup {None},
           NEW n \in Names \cup {None}, Inv, Set(c, i, v, n)
    PROVE  Inv'
<1>1. CacheTypeOK /\ TxTypeOK /\ AuxTypeOK /\ Agree
  BY DEF Inv, Agree
<1>. DEFINE s == [op |-> "set", id |-> i, val |-> IF v = None THEN None ELSE store[i].val]
<1>2. CASE store[i] # None /\ Modify(i, v, n) /\ Done(c, s)
  <2>1. store[i].val \in Vals
    BY <1>1, <1>2 DEF CacheTypeOK, Object
  <2>2. (IF v = None THEN None ELSE store[i].val) \in Vals \cup {None}
    BY <2>1
  <2>3. s \in Saved
    BY <2>2 DEF Saved
  <2>4. Agree'
    BY <1>1, <1>2, ModifyAgrees
  <2>5. TxTypeOK' /\ AuxTypeOK'
    BY <1>1, <1>2, <2>3, DoneType
  <2>. QED BY <2>4, <2>5 DEF Inv
<1>3. CASE UNCHANGED cache /\ Failed(c)
  BY <1>1, <1>3, SameCacheAgrees, FailedType
     DEF Inv
<1>. QED BY <1>2, <1>3 DEF Set, Refused

LEMMA DeleteStep ==
    ASSUME NEW c \in Clients, NEW i \in Ids, Inv, Delete(c, i)
    PROVE  Inv'
<1>1. CacheTypeOK /\ TxTypeOK /\ AuxTypeOK /\ Agree
  BY DEF Inv, Agree
<1>. DEFINE s == [op |-> "delete", id |-> i, val |-> store[i].val]
<1>2. CASE store[i] # None /\ Remove(i) /\ Done(c, s)
  <2>1. s \in Saved
    BY <1>1, <1>2 DEF CacheTypeOK, Object, Saved
  <2>2. Agree'
    BY <1>1, <1>2, RemoveAgrees
  <2>3. TxTypeOK' /\ AuxTypeOK'
    BY <1>1, <1>2, <2>1, DoneType
  <2>. QED BY <2>2, <2>3 DEF Inv
<1>3. CASE UNCHANGED cache /\ Failed(c)
  BY <1>1, <1>3, SameCacheAgrees, FailedType
     DEF Inv
<1>. QED BY <1>2, <1>3 DEF Delete, Refused

\* A rollback step is the reverse operation on the last saved object, or nothing.
LEMMA UndoStep ==
    ASSUME NEW c \in Clients, Inv, Undo(c)
    PROVE  Inv'
<1>1. CacheTypeOK /\ TxTypeOK /\ AuxTypeOK /\ Agree
  BY DEF Inv, Agree
<1>. DEFINE p == tx[c].prev
            s == p[Len(p)]
            rest == SubSeq(p, 1, Len(p) - 1)
<1>2. p \in Seq(Saved) /\ p # <<>>
  BY <1>1 DEF Undo, TxTypeOK
<1>3. s \in Saved
  BY <1>2
<1>4. rest \in Seq(Saved)
  BY <1>2
<1>5. s.id \in Ids /\ s.val \in Vals \cup {None} /\ (s.op = "delete" => s.val \in Vals)
  BY <1>3 DEF Saved
<1>6. TxTypeOK'
  <2>1. tx' = [tx EXCEPT ![c] = [phase |-> "undo", prev |-> rest]]
    BY DEF Undo
  <2>. QED BY <1>1, <1>4, <2>1 DEF TxTypeOK
<1>7. AuxTypeOK'
  <2>1. \/ before' = [d \in Clients |-> IF d = c THEN before[c] ELSE None]
        \/ before' = [d \in Clients |-> None]
    BY DEF Undo
  <2>. QED BY <1>1, <2>1 DEF AuxTypeOK
<1>8. Agree'
  <2>1. UndoCreate(s) \/ UndoSet(s) \/ UndoDelete(s) \/ UndoFails(s)
    BY DEF Undo
  <2>2. CASE UndoCreate(s)
    BY <1>1, <1>5, <2>2, RemoveAgrees, SameCacheAgrees DEF UndoCreate
  <2>3. CASE UndoSet(s)
    BY <1>1, <1>5, <2>3, ModifyAgrees, SameCacheAgrees DEF UndoSet
  <2>4. CASE UndoDelete(s)
    BY <1>1, <1>5, <2>4, AddAgrees, SameCacheAgrees, NameIsName DEF UndoDelete
  <2>5. CASE UndoFails(s)
    BY <1>1, <1>5, <2>5, LoseAgrees, SameCacheAgrees DEF UndoFails, Refused
  <2>. QED BY <2>1, <2>2, <2>3, <2>4, <2>5
<1>. QED BY <1>6, <1>7, <1>8 DEF Inv

LEMMA EndStep ==
    ASSUME NEW c \in Clients, Inv, End(c)
    PROVE  Inv'
<1>1. CacheTypeOK /\ TxTypeOK /\ AuxTypeOK /\ Agree
  BY DEF Inv, Agree
<1>2. Agree'
  BY <1>1, SameCacheAgrees DEF End
<1>3. Idle \in [phase : {"idle", "open", "undo"}, prev : Seq(Saved)]
  BY DEF Idle
<1>4. TxTypeOK'
  BY <1>1, <1>3 DEF End, TxTypeOK
<1>5. AuxTypeOK'
  BY <1>1 DEF End, AuxTypeOK
<1>. QED BY <1>2, <1>4, <1>5 DEF Inv

LEMMA InitInv == Init => Inv
<1>. SUFFICES ASSUME Init PROVE Inv
  OBVIOUS
<1>1. CacheTypeOK /\ TxTypeOK /\ AuxTypeOK
  BY DEF Init, CacheTypeOK, TxTypeOK, AuxTypeOK, Idle
<1>2. Stored = {}
  BY DEF Init, Stored
<1>3. IdsMatchObjects /\ NpuMirrorsCache
  BY <1>2 DEF Init, IdsMatchObjects, NpuMirrorsCache
<1>. QED BY <1>1, <1>3 DEF Inv, Agree

\* Every step of every client, rollbacks included, keeps the agreement.
LEMMA StepInv == Inv /\ [Next]_vars => Inv'
<1>. SUFFICES ASSUME Inv, [Next]_vars PROVE Inv'
  OBVIOUS
<1>1. CASE UNCHANGED vars
  BY <1>1, SameCacheAgrees DEF vars, cache, Inv, TxTypeOK, AuxTypeOK
<1>2. CASE Next
  <2>1. PICK c \in Clients : Request(c) \/ Undo(c) \/ End(c)
    BY <1>2 DEF Next
  <2>. QED BY <2>1, CreateStep, SetStep, DeleteStep, UndoStep, EndStep DEF Request
<1>. QED BY <1>1, <1>2

\* The agreement is an invariant: with the types, it is inductive as it stands.
THEOREM Agreement == Spec => []Inv
BY InitInv, StepInv, PTL DEF Spec

\* For every number of ids and clients: an id is in use exactly when the cache holds
\* an object under it (id generators of nas_qos_switch).
THEOREM NoIdLeaks == Spec => []IdsMatchObjects
<1>1. Inv => IdsMatchObjects
  BY DEF Inv, Agree
<1>. QED BY Agreement, <1>1, PTL

\* For every number of objects and clients: the NPU holds the cached objects, with
\* their contents, and nothing else but recorded orphans
\* (commit_create, commit_modify and commit_delete in the handlers).
THEOREM NpuAgrees == Spec => []NpuMirrorsCache
<1>1. Inv => NpuMirrorsCache
  BY DEF Inv, Agree
<1>. QED BY Agreement, <1>1, PTL

\* The type invariant holds for all values of the constants.
THEOREM ProfileTypes == Spec => []TypeOK
<1>1. Inv => TypeOK
  BY DEF Inv, Agree, TypeOK
<1>. QED BY Agreement, <1>1, PTL

----------------------------------------------------------------------------
(* Undoing a transaction restores what it found, and the store as the NPU   *)
(* shows it implements AtomicStore.  What a transaction saved leads back,   *)
(* object by object, from the present values to those of its beginning.     *)

Valuations == [Ids -> Vals \cup {None}]
Present == Values(Config)

\* From the values now, the undoing of s leads to the values then.
Undoes(s, now, then) ==
    /\ s.op = "delete" <=> now[s.id] = None
    /\ then = [now EXCEPT ![s.id] =
                 IF s.op = "create" THEN None ELSE IF s.val = None THEN @ ELSE s.val]

INSTANCE Trails WITH Entries <- Saved, States <- Valuations

Tracked ==
    \A c \in Clients :
        /\ tx[c].phase = "idle" => tx[c].prev = <<>> /\ before[c] = None
        /\ before[c] # None => LeadsBack(tx[c].prev, Present, Values(before[c]))

----------------------------------------------------------------------------
(* What the operations do to the present values. *)

PresentOK ==
    /\ Present \in Valuations
    /\ \A i \in Ids : Present[i] = IF store[i] = None THEN None ELSE store[i].val

LEMMA PresentValues == CacheTypeOK => PresentOK
<1>. SUFFICES ASSUME CacheTypeOK PROVE PresentOK
  OBVIOUS
<1>1. ASSUME NEW i \in Ids, store[i] # None
      PROVE  /\ Config[i] # None /\ Config[i].val = store[i].val
             /\ store[i].val \in Vals
  <2>1. store[i].val \in Vals /\ store[i].name \in Names
    BY <1>1 DEF CacheTypeOK, Object
  <2>2. Config[i] = [val |-> store[i].val, name |-> store[i].name]
    BY <1>1 DEF Config, Content
  <2>3. Config[i] \in Contents
    BY <2>1, <2>2 DEF Contents
  <2>. QED BY <2>1, <2>2, <2>3
<1>2. \A i \in Ids : store[i] = None => Config[i] = None
  BY DEF Config, Content
<1>3. Present = [i \in Ids |-> IF store[i] = None THEN None ELSE store[i].val]
  BY <1>1, <1>2 DEF Present, Values
<1>. QED BY <1>1, <1>3 DEF PresentOK, Valuations

LEMMA BeforeValues ==
    ASSUME NEW b \in Configs
    PROVE  Values(b) \in Valuations
<1>1. \A i \in Ids : b[i] # None => b[i].val \in Vals
  BY DEF Configs, Contents
<1>. QED BY <1>1 DEF Values, Valuations

\* The values are those of the store, and the same where the store is the same.
LEMMA StoreChange ==
    ASSUME NEW i \in Ids, NEW o, CacheTypeOK, CacheTypeOK', store' = [store EXCEPT ![i] = o]
    PROVE  Present' = [Present EXCEPT ![i] = IF o = None THEN None ELSE o.val]
<1>1. PresentOK /\ PresentOK'
  BY PresentValues, PTL
<1>3. store'[i] = o /\ \A j \in Ids : j # i => store'[j] = store[j]
  BY DEF CacheTypeOK
<1>. QED BY <1>1, <1>3 DEF PresentOK, Valuations

LEMMA AddChange ==
    ASSUME NEW i \in Ids, NEW v \in Vals, NEW n \in Names, Agree, Agree', Add(i, v, n)
    PROVE  Present' = [Present EXCEPT ![i] = v]
<1>1. PICK h \in Handles :
        store' = [store EXCEPT ![i] = [val |-> v, name |-> n, ndi |-> h]]
  BY DEF Add
<1>. DEFINE o == [val |-> v, name |-> n, ndi |-> h]
<1>2. o \in Object /\ o.val = v
  BY DEF Object
<1>3. o # None
  BY <1>2
<1>. QED BY <1>1, <1>2, <1>3, StoreChange DEF Agree

LEMMA ModifyChange ==
    ASSUME NEW i \in Ids, NEW v \in Vals \cup {None}, NEW n \in Names \cup {None},
           Agree, Agree', store[i] # None, Modify(i, v, n)
    PROVE  Present' = [Present EXCEPT ![i] = IF v = None THEN @ ELSE v]
<1>. DEFINE w == IF v = None THEN store[i].val ELSE v
            m == IF n = None THEN store[i].name ELSE n
            o == [val |-> w, name |-> m, ndi |-> store[i].ndi]
<1>1. store' = [store EXCEPT ![i] = o]
  BY DEF Modify
<1>2. w \in Vals /\ m \in Names /\ store[i].ndi \in Handles
  BY DEF Agree, CacheTypeOK, Object
<1>3. o \in Object /\ o.val = w
  BY <1>2 DEF Object
<1>4. Present[i] = store[i].val /\ Present \in Valuations
  BY PresentValues DEF Agree, PresentOK
<1>5. Present' = [Present EXCEPT ![i] = IF o = None THEN None ELSE o.val]
  BY <1>1, StoreChange DEF Agree
<1>6. Present' = [Present EXCEPT ![i] = w]
  BY <1>3, <1>5
<1>. QED BY <1>4, <1>6 DEF Valuations

LEMMA RemoveChange ==
    ASSUME NEW i \in Ids, Agree, Agree', Remove(i)
    PROVE  Present' = [Present EXCEPT ![i] = None]
<1>1. store' = [store EXCEPT ![i] = None]
  BY DEF Remove
<1>. QED BY <1>1, StoreChange DEF Agree

LEMMA NoChange ==
    ASSUME store' = store
    PROVE  Present' = Present /\ Config' = Config
BY DEF Present, Values, Config

----------------------------------------------------------------------------
(* The trails of all clients, one lemma per action. *)

AtomicInv == Inv /\ Tracked

\* An operation that succeeds makes its trail longer, from the very start if it is the
\* first of its transaction, and ends those of the others.
LEMMA DoneTracked ==
    ASSUME NEW c \in Clients, NEW s \in Saved, AtomicInv, Inv', Ready(c), Done(c, s),
           Undoes(s, Present', Present)
    PROVE  Tracked'
<1>1. CacheTypeOK /\ CacheTypeOK' /\ TxTypeOK /\ AuxTypeOK
  BY DEF AtomicInv, Inv, Agree
<1>2. PresentOK /\ PresentOK'
  BY <1>1, PresentValues, PTL
<1>. DEFINE p == tx[c].prev
<1>3. p \in Seq(Saved)
  BY <1>1 DEF TxTypeOK
<1>4. /\ tx'[c].phase = "open" /\ tx'[c].prev = Append(p, s)
      /\ \A d \in Clients : d # c => tx'[d] = tx[d]
  BY <1>1 DEF Done, TxTypeOK
<1>5. before'[c] = Start(c) /\ \A d \in Clients : d # c => before'[d] = None
  BY DEF Done
<1>6. ASSUME Start(c) # None
      PROVE  LeadsBack(p, Present, Values(Start(c))) /\ Values(Start(c)) \in Valuations
  <2>1. CASE tx[c].phase = "idle"
    <3>1. p = <<>> /\ Values(Start(c)) = Present
      BY <2>1 DEF AtomicInv, Tracked, Start, Present
    <3>. QED BY <3>1, <1>2, EmptyTrail DEF PresentOK
  <2>2. CASE tx[c].phase # "idle"
    <3>1. Start(c) = before[c] /\ before[c] \in Configs
      BY <2>2, <1>1, <1>6 DEF Start, AuxTypeOK
    <3>. QED BY <3>1, <1>6, BeforeValues DEF AtomicInv, Tracked
  <2>. QED BY <2>1, <2>2
<1>7. Start(c) # None => LeadsBack(Append(p, s), Present', Values(Start(c)))
  BY <1>2, <1>3, <1>6, LongerTrail DEF PresentOK
<1>. QED BY <1>4, <1>5, <1>7 DEF AtomicInv, Tracked

\* One that fails changes nothing that is saved or stored.
LEMMA FailedTracked ==
    ASSUME NEW c \in Clients, AtomicInv, Failed(c), store' = store
    PROVE  Tracked'
<1>1. CacheTypeOK /\ TxTypeOK /\ AuxTypeOK
  BY DEF AtomicInv, Inv, Agree
<1>2. Present' = Present
  BY NoChange
<1>3. PresentOK
  BY <1>1, PresentValues
<1>4. /\ tx'[c].phase = "undo" /\ tx'[c].prev = tx[c].prev
      /\ \A d \in Clients : d # c => tx'[d] = tx[d] /\ before'[d] = before[d]
      /\ before'[c] = Start(c)
  BY <1>1 DEF Failed, TxTypeOK, AuxTypeOK
<1>5. Start(c) # None => LeadsBack(tx[c].prev, Present, Values(Start(c)))
  <2>1. CASE tx[c].phase = "idle"
    <3>1. tx[c].prev = <<>> /\ Values(Start(c)) = Present
      BY <2>1 DEF AtomicInv, Tracked, Start, Present
    <3>. QED BY <3>1, <1>3, EmptyTrail DEF PresentOK
  <2>2. CASE tx[c].phase # "idle"
    BY <2>2 DEF AtomicInv, Tracked, Start
  <2>. QED BY <2>1, <2>2
<1>. QED BY <1>2, <1>4, <1>5 DEF AtomicInv, Tracked

----------------------------------------------------------------------------
(* The steps of AtomicStore. *)

Phases == [c \in Clients |-> tx[c].phase]
Began == [c \in Clients |-> IF before[c] = None THEN None ELSE Values(before[c])]

NpuIsPresent == NpuObjects = Present

LEMMA NpuShowsPresent == Agree => NpuIsPresent
<1>. SUFFICES ASSUME Agree PROVE NpuIsPresent
  OBVIOUS
<1>1. PresentOK
  BY PresentValues DEF Agree
<1>2. \A i \in Ids : store[i] # None => npu[store[i].ndi] = store[i].val
  BY DEF Agree, NpuMirrorsCache, Stored
<1>. QED BY <1>1, <1>2 DEF NpuIsPresent, NpuObjects, PresentOK, Valuations

\* What began maps to when an operation of c starts or continues a transaction.
LEMMA StartMaps ==
    ASSUME NEW c \in Clients, Agree, Tracked
    PROVE  (IF Start(c) = None THEN None ELSE Values(Start(c))) =
             (IF Phases[c] = "idle" THEN NpuObjects ELSE Began[c])
<1>1. CASE tx[c].phase = "idle"
  <2>1. Config \in Configs
    BY ConfigType DEF Agree
  <2>2. Start(c) = Config /\ Config # None
    BY <1>1, <2>1 DEF Start
  <2>. QED BY <1>1, <2>2, NpuShowsPresent DEF NpuIsPresent, Phases, Present
<1>2. CASE tx[c].phase # "idle"
  BY <1>2 DEF Start, Phases, Began
<1>. QED BY <1>1, <1>2

LEMMA DoneOperates ==
    ASSUME NEW c \in Clients, NEW s \in Saved, AtomicInv, Inv', Ready(c), Done(c, s),
           NEW i \in Ids, NEW v \in Vals \cup {None}, Present' = [Present EXCEPT ![i] = v]
    PROVE  Store!Next
<1>1. TxTypeOK /\ AuxTypeOK /\ Agree /\ Agree' /\ Tracked
  BY DEF AtomicInv, Inv
<1>2. NpuObjects = Present /\ NpuObjects' = Present'
  <2>1. NpuIsPresent /\ NpuIsPresent'
    BY <1>1, NpuShowsPresent, PTL
  <2>. QED BY <2>1 DEF NpuIsPresent
<1>3. Phases[c] \in {"idle", "open"}
  BY DEF Ready, Phases
<1>4. NpuObjects' = [NpuObjects EXCEPT ![i] = v]
  BY <1>2
<1>5. Phases' = [Phases EXCEPT ![c] = "open"]
  BY <1>1 DEF Phases, Done, TxTypeOK
<1>6. Began' = [d \in Clients |->
                  IF d = c THEN IF Phases[c] = "idle" THEN NpuObjects ELSE Began[c] ELSE None]
  <2>1. before' = [d \in Clients |-> IF d = c THEN Start(c) ELSE None]
    BY DEF Done
  <2>. QED BY <2>1, <1>1, StartMaps DEF Began
<1>7. Store!Operate(c)
  BY <1>3, <1>4, <1>5, <1>6
     DEF Store!Operate, Store!OneChange, Store!Only, Store!Start, Phases, Began
<1>. QED BY <1>7 DEF Store!Next

LEMMA FailedFails ==
    ASSUME NEW c \in Clients, AtomicInv, Inv', Ready(c), Failed(c), store' = store
    PROVE  Store!Next
<1>1. TxTypeOK /\ AuxTypeOK /\ Agree /\ Agree' /\ Tracked
  BY DEF AtomicInv, Inv
<1>2. NpuObjects' = NpuObjects
  <2>1. NpuIsPresent /\ NpuIsPresent'
    BY <1>1, NpuShowsPresent, PTL
  <2>. QED BY <2>1, NoChange DEF NpuIsPresent
<1>3. Phases[c] \in {"idle", "open"}
  BY DEF Ready, Phases
<1>4. Phases' = [Phases EXCEPT ![c] = "undo"]
  BY <1>1 DEF Phases, Failed, TxTypeOK
<1>5. Began' = [Began EXCEPT ![c] = IF Phases[c] = "idle" THEN NpuObjects ELSE Began[c]]
  <2>1. before' = [before EXCEPT ![c] = Start(c)]
    BY DEF Failed
  <2>. QED BY <2>1, <1>1, StartMaps DEF Began, AuxTypeOK
<1>6. Store!Fail(c)
  BY <1>2, <1>3, <1>4, <1>5 DEF Store!Fail, Store!Start, Phases, Began
<1>. QED BY <1>6 DEF Store!Next

----------------------------------------------------------------------------
(* Every action keeps the trails and is a step of AtomicStore. *)

LEMMA CreateAtomic ==
    ASSUME NEW c \in Clients, NEW asked \in Ids \cup {None}, NEW v \in Vals, NEW n \in Names,
           AtomicInv, Inv', Create(c, asked, v, n)
    PROVE  Tracked' /\ Store!Next
<1>1. CASE \E i \in Candidates(asked) :
             Add(i, v, n) /\ Done(c, [op |-> "create", id |-> i, val |-> None])
  <2>1. PICK i \in Candidates(asked) :
             Add(i, v, n) /\ Done(c, [op |-> "create", id |-> i, val |-> None])
    BY <1>1
  <2>. DEFINE s == [op |-> "create", id |-> i, val |-> None]
  <2>2. i \in Ids /\ i \notin reserved
    BY <2>1 DEF Candidates
  <2>3. s \in Saved
    BY <2>2 DEF Saved
  <2>4. Present' = [Present EXCEPT ![i] = v]
    BY <2>1, <2>2, AddChange DEF AtomicInv, Inv
  <2>5. Present \in Valuations /\ Present[i] = None
    BY <2>2, PresentValues DEF AtomicInv, Inv, Agree, IdsMatchObjects, Stored, PresentOK
  <2>6. Undoes(s, Present', Present)
    BY <2>2, <2>4, <2>5 DEF Undoes, Valuations
  <2>7. Ready(c) /\ Done(c, s)
    BY <2>1 DEF Create
  <2>. QED BY <2>2, <2>3, <2>4, <2>6, <2>7, DoneTracked, DoneOperates
<1>2. CASE Lose(v) /\ Failed(c)
  BY <1>2, FailedTracked, FailedFails DEF Create, Lose
<1>3. CASE UNCHANGED cache /\ Failed(c)
  BY <1>3, FailedTracked, FailedFails DEF Create, cache
<1>. QED BY <1>1, <1>2, <1>3 DEF Create, Refused

LEMMA SetAtomic ==
    ASSUME NEW c \in Clients, NEW i \in Ids, NEW v \in Vals \cup {None},
           NEW n \in Names \cup {None}, AtomicInv, Inv', Set(c, i, v, n)
    PROVE  Tracked' /\ Store!Next
<1>. DEFINE old == IF v = None THEN None ELSE store[i].val
            s == [op |-> "set", id |-> i, val |-> old]
<1>1. CASE store[i] # None /\ Modify(i, v, n) /\ Done(c, s)
  <2>1. store[i].val \in Vals
    BY <1>1 DEF AtomicInv, Inv, Agree, CacheTypeOK, Object
  <2>2. s \in Saved
    <3>1. old \in Vals \cup {None}
      BY <2>1
    <3>. QED BY <3>1 DEF Saved
  <2>3. Present' = [Present EXCEPT ![i] = IF v = None THEN @ ELSE v]
    BY <1>1, ModifyChange DEF AtomicInv, Inv
  <2>4. Present \in Valuations /\ Present[i] = store[i].val
    BY <1>1, PresentValues DEF AtomicInv, Inv, Agree, PresentOK
  <2>. DEFINE w == IF v = None THEN Present[i] ELSE v
  <2>5. Present' = [Present EXCEPT ![i] = w] /\ w \in Vals
    BY <2>1, <2>3, <2>4 DEF Valuations
  <2>6. Undoes(s, Present', Present)
    <3>1. Present'[i] = w /\ w # None
      BY <2>4, <2>5 DEF Valuations
    <3>2. Present = [Present' EXCEPT ![i] = IF old = None THEN @ ELSE old]
      BY <2>1, <2>4, <2>5 DEF Valuations
    <3>. QED BY <3>1, <3>2 DEF Undoes
  <2>. HIDE DEF w, s
  <2>. QED BY <1>1, <2>2, <2>5, <2>6, DoneTracked, DoneOperates DEF Set
<1>2. CASE UNCHANGED cache /\ Failed(c)
  BY <1>2, FailedTracked, FailedFails DEF Set, cache
<1>. QED BY <1>1, <1>2 DEF Set, Refused

LEMMA DeleteAtomic ==
    ASSUME NEW c \in Clients, NEW i \in Ids, AtomicInv, Inv', Delete(c, i)
    PROVE  Tracked' /\ Store!Next
<1>. DEFINE s == [op |-> "delete", id |-> i, val |-> store[i].val]
<1>1. CASE store[i] # None /\ Remove(i) /\ Done(c, s)
  <2>1. store[i].val \in Vals
    BY <1>1 DEF AtomicInv, Inv, Agree, CacheTypeOK, Object
  <2>2. s \in Saved
    BY <2>1 DEF Saved
  <2>3. Present' = [Present EXCEPT ![i] = None]
    BY <1>1, RemoveChange DEF AtomicInv, Inv
  <2>4. Present \in Valuations /\ Present[i] = store[i].val
    BY <1>1, PresentValues DEF AtomicInv, Inv, Agree, PresentOK
  <2>5. Undoes(s, Present', Present)
    BY <2>1, <2>3, <2>4 DEF Undoes, Valuations
  <2>. HIDE DEF s
  <2>. QED BY <1>1, <2>2, <2>3, <2>5, DoneTracked, DoneOperates DEF Delete
<1>2. CASE UNCHANGED cache /\ Failed(c)
  BY <1>2, FailedTracked, FailedFails DEF Delete, cache
<1>. QED BY <1>1, <1>2 DEF Delete, Refused

\* Undoing s changes the present value of its object, and back to what it was if nothing
\* happened since s was saved.
LEMMA UndoChange ==
    ASSUME NEW s \in Saved, Inv, Inv', UndoCreate(s) \/ UndoSet(s) \/ UndoDelete(s)
    PROVE  /\ \E v \in Vals \cup {None} : Present' = [Present EXCEPT ![s.id] = v]
           /\ \A then : Undoes(s, Present, then) => Present' = then
<1>1. Agree /\ Agree' /\ PresentOK
  BY PresentValues DEF Inv, Agree
<1>2. s.id \in Ids /\ s.val \in Vals \cup {None} /\ (s.op = "delete" => s.val \in Vals)
  BY DEF Saved
<1>3. Present \in Valuations /\ (Present[s.id] = None <=> store[s.id] = None)
  BY <1>1, <1>2 DEF PresentOK, Agree, CacheTypeOK, Object
<1>4. /\ Present[s.id] \in Vals \cup {None}
      /\ Present = [Present EXCEPT ![s.id] = Present[s.id]]
  BY <1>2, <1>3 DEF Valuations
<1>5. CASE UndoCreate(s)
  <2>1. CASE store[s.id] = None
    <3>1. Present' = Present
      BY <1>5, <2>1, NoChange DEF UndoCreate, cache
    <3>. QED BY <3>1, <1>3, <1>4, <1>5, <2>1 DEF UndoCreate, Undoes
  <2>2. CASE store[s.id] # None
    <3>1. Present' = [Present EXCEPT ![s.id] = None]
      BY <1>1, <1>2, <1>5, <2>2, RemoveChange DEF UndoCreate
    <3>. QED BY <3>1, <1>5 DEF UndoCreate, Undoes
  <2>. QED BY <2>1, <2>2
<1>6. CASE UndoSet(s)
  <2>1. CASE store[s.id] = None
    <3>1. Present' = Present
      BY <1>6, <2>1, NoChange DEF UndoSet, cache
    <3>. QED BY <3>1, <1>3, <1>4, <1>6, <2>1 DEF UndoSet, Undoes
  <2>2. CASE store[s.id] # None
    <3>1. Present' = [Present EXCEPT ![s.id] = IF s.val = None THEN @ ELSE s.val]
      BY <1>1, <1>2, <1>6, <2>2, ModifyChange DEF UndoSet
    <3>2. Present' = [Present EXCEPT ![s.id] =
                        IF s.val = None THEN Present[s.id] ELSE s.val]
      BY <3>1, <1>4
    <3>3. (IF s.val = None THEN Present[s.id] ELSE s.val) \in Vals \cup {None}
      BY <1>2, <1>4
    <3>4. \A then : Undoes(s, Present, then) => Present' = then
      BY <3>1, <1>6 DEF UndoSet, Undoes
    <3>. QED BY <3>2, <3>3, <3>4
  <2>. QED BY <2>1, <2>2
<1>7. CASE UndoDelete(s)
  <2>1. CASE s.id \in reserved
    <3>1. Present' = Present
      BY <1>7, <2>1, NoChange DEF UndoDelete, cache
    <3>2. store[s.id] # None
      BY <2>1, <1>1 DEF Agree, IdsMatchObjects, Stored
    <3>. QED BY <3>1, <3>2, <1>3, <1>4, <1>7 DEF UndoDelete, Undoes
  <2>2. CASE s.id \notin reserved
    <3>1. s.val \in Vals
      BY <1>2, <1>7 DEF UndoDelete
    <3>2. Present' = [Present EXCEPT ![s.id] = s.val]
      BY <1>1, <1>2, <1>7, <2>2, <3>1, AddChange DEF UndoDelete
    <3>3. \A then : Undoes(s, Present, then) => Present' = then
      BY <3>1, <3>2, <1>7 DEF UndoDelete, Undoes
    <3>. QED BY <3>1, <3>2, <3>3
  <2>. QED BY <2>1, <2>2
<1>. QED BY <1>5, <1>6, <1>7

\* A step of a rollback follows the trail back; one that fails ends all trails.
LEMMA UndoAtomic ==
    ASSUME NEW c \in Clients, AtomicInv, Inv', Undo(c)
    PROVE  Tracked' /\ Store!Next
<1>. DEFINE p == tx[c].prev
            s == p[Len(p)]
            rest == SubSeq(p, 1, Len(p) - 1)
<1>1. TxTypeOK /\ AuxTypeOK /\ Agree /\ Agree' /\ Tracked /\ Inv
  BY DEF AtomicInv, Inv
<1>2. p \in Seq(Saved) /\ p # <<>> /\ s \in Saved /\ tx[c].phase = "undo"
  <2>1. p \in Seq(Saved) /\ p # <<>>
    BY <1>1 DEF Undo, TxTypeOK
  <2>. QED BY <2>1 DEF Undo
<1>3. tx' = [tx EXCEPT ![c] = [phase |-> "undo", prev |-> rest]]
  BY DEF Undo
<1>4. /\ tx'[c].phase = "undo" /\ tx'[c].prev = rest
      /\ \A d \in Clients : d # c => tx'[d] = tx[d]
  BY <1>1, <1>3 DEF TxTypeOK
<1>5. NpuObjects = Present /\ NpuObjects' = Present'
  <2>1. NpuIsPresent /\ NpuIsPresent'
    BY <1>1, NpuShowsPresent, PTL
  <2>. QED BY <2>1 DEF NpuIsPresent
<1>6. Phases[c] = "undo" /\ Phases' = Phases
  BY <1>1, <1>2, <1>3 DEF Phases, TxTypeOK
<1>. HIDE DEF p, s, rest
<1>7. CASE /\ UndoCreate(s) \/ UndoSet(s) \/ UndoDelete(s)
           /\ before' = [d \in Clients |-> IF d = c THEN before[c] ELSE None]
  <2>1. /\ \E v \in Vals \cup {None} : Present' = [Present EXCEPT ![s.id] = v]
        /\ \A then : Undoes(s, Present, then) => Present' = then
    BY <1>1, <1>2, <1>7, UndoChange
  <2>2. ASSUME before[c] # None
        PROVE  LeadsBack(rest, Present', Values(before[c]))
    <3>1. LeadsBack(p, Present, Values(before[c]))
      BY <1>1, <2>2 DEF Tracked, p
    <3>2. PICK mid \in Valuations :
             Undoes(p[Len(p)], Present, mid)
               /\ LeadsBack(SubSeq(p, 1, Len(p) - 1), mid, Values(before[c]))
      BY <3>1, <1>2, ShorterTrail
    <3>. QED BY <3>2, <2>1 DEF s, rest
  <2>3. Tracked'
    BY <1>1, <1>4, <1>7, <2>2 DEF Tracked
  <2>4. s.id \in Ids
    BY <1>2 DEF Saved
  <2>5. Store!OneChange
    BY <1>5, <2>1, <2>4 DEF Store!OneChange
  <2>6. Began' = [d \in Clients |-> IF d = c THEN Began[c] ELSE None]
    BY <1>7 DEF Began
  <2>7. Store!Restore(c)
    BY <1>6, <2>5, <2>6 DEF Store!Restore, Store!Only, Phases, Began
  <2>. QED BY <2>3, <2>7 DEF Store!Next
<1>8. CASE UndoFails(s) /\ before' = [d \in Clients |-> None]
  <2>1. store' = store
    BY <1>8 DEF UndoFails, Refused, Lose, cache
  <2>2. Tracked'
    BY <1>1, <1>4, <1>8 DEF Tracked
  <2>3. NpuObjects' = NpuObjects
    BY <1>5, <2>1, NoChange
  <2>4. Began' = [d \in Clients |-> None]
    BY <1>8 DEF Began
  <2>5. Store!GiveUp(c)
    BY <1>6, <2>3, <2>4 DEF Store!GiveUp, Phases, Began
  <2>. QED BY <2>2, <2>5 DEF Store!Next
<1>. QED BY <1>7, <1>8 DEF Undo, p, s

LEMMA EndAtomic ==
    ASSUME NEW c \in Clients, AtomicInv, Inv', End(c)
    PROVE  Tracked' /\ Store!Next
<1>1. TxTypeOK /\ AuxTypeOK /\ Agree /\ Agree' /\ Tracked
  BY DEF AtomicInv, Inv
<1>2. tx' = [tx EXCEPT ![c] = Idle] /\ before' = [before EXCEPT ![c] = None]
  BY DEF End
<1>3. store' = store /\ npu' = npu
  BY DEF End, cache
<1>4. Present' = Present /\ NpuObjects' = NpuObjects
  BY <1>3, NoChange DEF NpuObjects
<1>5. Tracked'
  BY <1>1, <1>2, <1>4 DEF Tracked, TxTypeOK, AuxTypeOK, Idle
<1>6. Phases' = [Phases EXCEPT ![c] = "idle"] /\ Began' = [Began EXCEPT ![c] = None]
  BY <1>1, <1>2 DEF Phases, Began, TxTypeOK, AuxTypeOK, Idle
<1>7. Phases[c] = "open" \/ (Phases[c] = "undo" /\ Began[c] \in {None, NpuObjects})
  <2>1. CASE tx[c].phase = "open"
    BY <2>1 DEF Phases
  <2>2. CASE tx[c].phase = "undo" /\ tx[c].prev = <<>>
    <3>1. before[c] # None => Present = Values(before[c])
      BY <2>2, <1>1, EndOfTrail DEF Tracked
    <3>2. NpuObjects = Present
      BY <1>1, NpuShowsPresent DEF NpuIsPresent
    <3>. QED BY <3>1, <3>2, <2>2 DEF Phases, Began
  <2>. QED BY <2>1, <2>2 DEF End
<1>8. Store!End(c)
  BY <1>4, <1>6, <1>7 DEF Store!End, Phases, Began
<1>. QED BY <1>5, <1>8 DEF Store!Next

----------------------------------------------------------------------------
(* The theorems. *)

LEMMA InitAtomic == Init => Tracked /\ Store!Init
<1>. SUFFICES ASSUME Init PROVE Tracked /\ Store!Init
  OBVIOUS
<1>1. Tracked
  BY DEF Init, Tracked, Idle
<1>2. Store!Init
  BY DEF Init, Store!Init, NpuObjects, Idle
<1>. QED BY <1>1, <1>2

LEMMA StepAtomic ==
    AtomicInv /\ Inv' /\ [Next]_vars => Tracked' /\ [Store!Next]_Store!vars
<1>. SUFFICES ASSUME AtomicInv, Inv', [Next]_vars
             PROVE  Tracked' /\ [Store!Next]_Store!vars
  OBVIOUS
<1>1. CASE UNCHANGED vars
  <2>1. Present' = Present
    BY <1>1, NoChange DEF vars, cache
  <2>2. Tracked'
    BY <1>1, <2>1 DEF AtomicInv, Tracked, vars
  <2>3. UNCHANGED Store!vars
    BY <1>1 DEF Store!vars, vars, cache, NpuObjects
  <2>. QED BY <2>2, <2>3
<1>2. CASE Next
  <2>1. PICK c \in Clients : Request(c) \/ Undo(c) \/ End(c)
    BY <1>2 DEF Next
  <2>. QED BY <2>1, CreateAtomic, SetAtomic, DeleteAtomic, UndoAtomic, EndAtomic DEF Request
<1>. QED BY <1>1, <1>2

\* Beside what the generator, cache and NPU agree on, every transaction that is not
\* disturbed has a trail back to its beginning: the inductive invariant of the rollback.
THEOREM TrailInvariance == Spec => []AtomicInv
<1>1. Init => AtomicInv
  BY InitInv, InitAtomic DEF AtomicInv
<1>2. AtomicInv /\ [Next]_vars => AtomicInv'
  BY StepInv, StepAtomic DEF AtomicInv
<1>. QED BY <1>1, <1>2, PTL DEF Spec

\* For every number of objects and clients and transactions of any length: what is left
\* when a rollback is through is what its transaction found
\* (nas_qos_cps_api_*_rollback).
THEOREM RollbacksRestore == Spec => []RollbackRestores
<1>1. AtomicInv => RollbackRestores
  <2>. SUFFICES ASSUME AtomicInv, NEW c \in Clients, Undone(c), NEW i \in Ids
                PROVE  SameValue(before[c][i], Config[i])
    BY DEF RollbackRestores
  <2>1. Present = Values(before[c])
    BY EndOfTrail DEF Undone, AtomicInv, Tracked
  <2>2. before[c] \in Configs /\ Config \in Configs
    BY ConfigType DEF Undone, AtomicInv, Inv, Agree, AuxTypeOK
  <2>3. /\ before[c][i] # None => before[c][i].val \in Vals
        /\ Config[i] # None => Config[i].val \in Vals
    BY <2>2 DEF Configs, Contents
  <2>4. Values(before[c])[i] = Values(Config)[i]
    BY <2>1 DEF Present
  <2>. QED BY <2>3, <2>4 DEF Values, SameValue
<1>. QED BY <1>1, TrailInvariance, PTL

\* For all values of the constants the store implements AtomicStore: towards the NPU
\* requests change one object each, and failed transactions undo all of theirs
\* (nas_qos_cps_api_*_write and nas_qos_cps_api_*_rollback).
THEOREM Implements == Spec => Atomic
<1>1. Init => Store!Init
  BY InitAtomic
<1>2. AtomicInv /\ Inv' /\ [Next]_vars => [Store!Next]_Store!vars
  BY StepAtomic
<1>3. Store!Init /\ [][Store!Next]_Store!vars => Atomic
  BY DEF Atomic, Store!Spec
<1>. QED BY <1>1, <1>2, <1>3, TrailInvariance, Agreement, PTL DEF Spec
=============================================================================
