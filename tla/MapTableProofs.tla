--------------------------- MODULE MapTableProofs ---------------------------
(***************************************************************************)
(* Proofs about MapTable: for every number of map types, ids, keys and      *)
(* clients, and transactions of any length, the id generator, the cached    *)
(* maps and the map objects of the NPU agree, and a rollback restores what  *)
(* its transaction found.                                                   *)
(***************************************************************************)
EXTENDS MapTable, TLAPS

USE IdBounds, Values, KeyValues, Requests, Switches, NoneIsNew

\* A cached map and the map object of the NPU.
Fits(g, m, n) ==
    \A k \in Keys : IF m[k] = None
                    THEN n[k] = Default \/ (g[1] \in KeyTypes /\ n[k] = KeyVal[k])
                    ELSE m[k].dirty \/ n[k] = m[k].val

\* An entry whose value is in its key: it never has another, and is never dirty.
IsKeys(g, k, e) == g[1] \in KeyTypes => e.val = KeyVal[k] /\ ~e.dirty
KeysHold(g, m) == \A k \in Keys : m[k] # None => IsKeys(g, k, m[k])
ValuesInKeys == \A g \in Gids : MapExists(g) => KeysHold(g, maps[g])

CacheTypeOK ==
    /\ reserved \subseteq Gids
    /\ maps \in [Gids -> Map \cup {None}]
    /\ npu \in [Gids -> NpuMap \cup {None}]

Agree == CacheTypeOK /\ IdsMatchMaps /\ StaleEntriesAreDirty /\ ValuesInKeys

\* What is saved names a map that was there; only entries are set, and none whose value
\* is in its key; a deleted entry has its value.
Undoable ==
    {s \in Step : /\ ~Unspecified(s.id)
                  /\ s.op = "set" => s.key \in Keys /\ s.id[1] \notin KeyTypes
                  /\ s.op = "delete" /\ s.key # None =>
                        s.val \in Vals /\ Written(s.id, s.key, s.val) = s.val}

TxTypeOK == tx \in [Clients -> [phase : {"idle", "open", "undo"}, prev : Seq(Undoable)]]

IInv == Agree /\ TxTypeOK

----------------------------------------------------------------------------
(* The operations                                                           *)

\* A map that is there and changes keeps the agreement when it fits its new object.
LEMMA ChangeAgrees ==
    ASSUME NEW g \in Gids, NEW m \in Map, NEW n \in NpuMap,
           Agree, Fits(g, m, n), KeysHold(g, m), ~Unspecified(g),
           maps' = [maps EXCEPT ![g] = m], npu' = [npu EXCEPT ![g] = n],
           reserved' = reserved \cup {g}
    PROVE  Agree'
<1>1. CacheTypeOK'
  BY DEF Agree, CacheTypeOK
<1>2. maps'[g] = m /\ npu'[g] = n
  BY DEF Agree, CacheTypeOK
<1>3. \A h \in Gids : h # g => maps'[h] = maps[h] /\ npu'[h] = npu[h]
  BY DEF Agree, CacheTypeOK
<1>4. IdsMatchMaps'
  BY <1>2, <1>3 DEF Agree, IdsMatchMaps, MapExists
<1>5. StaleEntriesAreDirty'
  <2>1. SUFFICES ASSUME NEW h \in Gids, MapExists(h)'
                 PROVE  Fits(h, maps[h], npu[h])'
    BY DEF StaleEntriesAreDirty, Fits
  <2>2. CASE h = g
    BY <1>2, <2>2 DEF Fits
  <2>3. CASE h # g
    BY <1>3, <2>1, <2>3 DEF Agree, StaleEntriesAreDirty, MapExists, Fits
  <2> QED
    BY <2>2, <2>3
<1>6. ValuesInKeys'
  BY <1>2, <1>3 DEF Agree, ValuesInKeys, MapExists
<1> QED
  BY <1>1, <1>4, <1>5, <1>6 DEF Agree

\* A new map has no entries, and its object the default values.
LEMMA AddMapAgrees ==
    ASSUME NEW g \in Gids, Agree, ~Unspecified(g), AddMap(g)
    PROVE  Agree'
<1>1. NoEntries \in Map /\ Defaults \in NpuMap
  BY DEF NoEntries, Defaults, Map, NpuMap
<1>2. Fits(g, NoEntries, Defaults) /\ KeysHold(g, NoEntries)
  BY DEF Fits, KeysHold, NoEntries, Defaults
<1> QED
  BY <1>1, <1>2, ChangeAgrees DEF AddMap

\* A map goes with its id and its object.
LEMMA RemoveMapAgrees ==
    ASSUME NEW g \in Gids, Agree, RemoveMap(g)
    PROVE  Agree'
<1>1. CacheTypeOK'
  BY DEF RemoveMap, Agree, CacheTypeOK
<1>2. maps'[g] = None /\ npu'[g] = None /\ g \notin reserved'
  BY DEF RemoveMap, Agree, CacheTypeOK
<1>3. \A h \in Gids : h # g =>
        maps'[h] = maps[h] /\ npu'[h] = npu[h] /\ (h \in reserved' <=> h \in reserved)
  BY DEF RemoveMap, Agree, CacheTypeOK
<1>4. IdsMatchMaps'
  BY <1>2, <1>3 DEF Agree, IdsMatchMaps, MapExists
<1>5. StaleEntriesAreDirty'
  BY <1>2, <1>3 DEF Agree, StaleEntriesAreDirty, MapExists
<1>6. ValuesInKeys'
  BY <1>2, <1>3 DEF Agree, ValuesInKeys, MapExists
<1> QED
  BY <1>1, <1>4, <1>5, <1>6 DEF Agree

\* The entry of one key changes, and the value of the key with it.
LEMMA EntryAgrees ==
    ASSUME NEW g \in Gids, NEW k \in Keys, NEW e \in Entry \cup {None}, NEW v \in Vals,
           Agree, MapExists(g),
           IF e = None THEN v = Written(g, k, Default)
                       ELSE (e.dirty \/ v = e.val) /\ IsKeys(g, k, e),
           PutEntry(g, k, e), PushValue(g, k, v), UNCHANGED reserved
    PROVE  Agree'
<1> DEFINE m == [maps[g] EXCEPT ![k] = e]
<1> DEFINE n == [npu[g] EXCEPT ![k] = v]
<1>1. maps[g] \in Map /\ npu[g] \in NpuMap /\ g \in reserved /\ ~Unspecified(g)
  BY DEF Agree, CacheTypeOK, IdsMatchMaps, MapExists
<1>2. m \in Map /\ n \in NpuMap
  BY <1>1 DEF Map, NpuMap
<1>3. m[k] = e /\ n[k] = v
  BY <1>1 DEF Map, NpuMap
<1>4. \A j \in Keys : j # k => m[j] = maps[g][j] /\ n[j] = npu[g][j]
  BY <1>1 DEF Map, NpuMap
<1>5. Fits(g, maps[g], npu[g]) /\ KeysHold(g, maps[g])
  BY DEF Agree, StaleEntriesAreDirty, ValuesInKeys, Fits
<1>6. Fits(g, m, n) /\ KeysHold(g, m)
  <2> HIDE DEF m, n
  <2>1. Fits(g, m, n)
    BY <1>3, <1>4, <1>5 DEF Fits, Written
  <2>2. KeysHold(g, m)
    BY <1>3, <1>4, <1>5 DEF KeysHold
  <2> QED
    BY <2>1, <2>2
<1>7. maps' = [maps EXCEPT ![g] = m] /\ npu' = [npu EXCEPT ![g] = n]
  BY <1>1 DEF PutEntry, PushValue
<1>8. reserved' = reserved \cup {g}
  BY <1>1
<1> HIDE DEF m, n
<1> QED
  BY <1>1, <1>2, <1>6, <1>7, <1>8, ChangeAgrees

\* An entry of a map is an entry, and its value a value.
LEMMA EntryTypes ==
    ASSUME NEW g \in Gids, NEW k \in Keys, Agree, EntryExists(g, k)
    PROVE  /\ maps[g] \in Map /\ maps[g][k] \in Entry /\ maps[g][k].val \in Vals
           /\ maps[g][k].dirty \in {TRUE, FALSE}
<1>1. maps[g] \in Map
  BY DEF EntryExists, MapExists, Agree, CacheTypeOK
<1>2. maps[g][k] \in Entry
  BY <1>1 DEF EntryExists, Map
<1> QED
  BY <1>1, <1>2 DEF Entry

\* A request may leave out only the value that is in the key.
MayCarry(g, v) == v \in Vals \/ g[1] \in KeyTypes

\* Creating an entry again writes the value that it had.
LEMMA EntryIsWritten ==
    ASSUME NEW g \in Gids, NEW k \in Keys, Agree, EntryExists(g, k)
    PROVE  Written(g, k, maps[g][k].val) = maps[g][k].val
BY DEF Agree, ValuesInKeys, KeysHold, IsKeys, EntryExists, Written

LEMMA AddEntryAgrees ==
    ASSUME NEW g \in Gids, NEW k \in Keys, NEW v, MayCarry(g, v), Agree, MapExists(g),
           AddEntry(g, k, v)
    PROVE  Agree'
<1>1. PICK w \in Vals : w = Written(g, k, v)
  BY DEF Written, MayCarry
<1>2. PICK e \in Committed(w) : PutEntry(g, k, e) /\ (g[1] \in KeyTypes => ~e.dirty)
  BY <1>1 DEF AddEntry
<1>3. e \in Entry /\ e.val = w
  BY <1>2 DEF Committed, Entry
<1>4. IsKeys(g, k, e)
  BY <1>1, <1>2, <1>3 DEF IsKeys, Written
<1>5. PushValue(g, k, w) /\ UNCHANGED reserved
  BY <1>1 DEF AddEntry
<1> QED
  BY <1>2, <1>3, <1>4, <1>5, EntryAgrees

LEMMA RemoveEntryAgrees ==
    ASSUME NEW g \in Gids, NEW k \in Keys, Agree, EntryExists(g, k), RemoveEntry(g, k)
    PROVE  Agree'
<1>1. PICK w \in Vals : w = Written(g, k, Default)
  BY DEF Written
<1> QED
  BY <1>1, EntryAgrees DEF RemoveEntry, EntryExists

\* Parsing a request yields an entry.
LEMMA ParsedType ==
    ASSUME NEW e \in Entry, NEW v \in Vals \cup {None}
    PROVE  Parsed(e, v) \in Entry
BY DEF Parsed, Entry

LEMMA PushEntryAgrees ==
    ASSUME NEW g \in Gids, NEW k \in Keys, NEW v \in Vals \cup {None}, Agree,
           EntryExists(g, k), PushEntry(g, k, v), g[1] \notin KeyTypes
    PROVE  Agree'
<1> DEFINE w == Parsed(maps[g][k], v).val
<1>1. w \in Vals
  BY EntryTypes, ParsedType DEF Entry
<1>2. PICK e \in Committed(w) : PutEntry(g, k, e)
  BY DEF PushEntry
<1>3. e \in Entry /\ e.val = w
  BY <1>1 DEF Committed, Entry
<1>4. e # None /\ w = e.val /\ IsKeys(g, k, e)
  BY <1>3 DEF IsKeys
<1>5. PushValue(g, k, w) /\ UNCHANGED reserved
  BY DEF PushEntry
<1> HIDE DEF w
<1> QED
  BY <1>1, <1>2, <1>3, <1>4, <1>5, EntryAgrees DEF EntryExists

\* A refused SET: the parsed value is in the cache and not in the NPU, and the entry is
\* dirty when it was not in agreement or has changed.
LEMMA LeaveParsedAgrees ==
    ASSUME NEW g \in Gids, NEW k \in Keys, NEW v \in Vals \cup {None}, Agree,
           EntryExists(g, k), LeaveParsed(g, k, v), g[1] \notin KeyTypes
    PROVE  Agree'
<1> DEFINE e == Parsed(maps[g][k], v)
<1> DEFINE u == npu[g][k]
<1>1. e \in Entry
  BY EntryTypes, ParsedType
<1>2. npu[g] \in NpuMap
  BY DEF Agree, CacheTypeOK, IdsMatchMaps, EntryExists
<1>3. u \in Vals
  BY <1>2 DEF NpuMap
<1>4. maps[g][k].dirty \/ u = maps[g][k].val
  BY DEF Agree, StaleEntriesAreDirty, EntryExists
<1>5. e.dirty \/ u = e.val
  BY <1>4 DEF Parsed
<1>6. PushValue(g, k, u)
  <2>1. npu[g] = [npu[g] EXCEPT ![k] = u]
    BY <1>2 DEF NpuMap
  <2>2. npu = [npu EXCEPT ![g] = npu[g]]
    BY DEF Agree, CacheTypeOK
  <2> QED
    BY <2>1, <2>2 DEF PushValue, LeaveParsed
<1>7. PutEntry(g, k, e) /\ UNCHANGED reserved
  BY DEF LeaveParsed
<1>8. e # None /\ (e.dirty \/ u = e.val) /\ IsKeys(g, k, e)
  BY <1>1, <1>5 DEF IsKeys
<1> HIDE DEF e, u
<1> QED
  BY <1>1, <1>3, <1>6, <1>7, <1>8, EntryAgrees DEF EntryExists

\* An entry whose value is in its key cannot be set.
LEMMA SetIsNoKeys ==
    ASSUME NEW g \in Gids, NEW k \in Keys, NEW v \in Given(g[1]) \cup {None}, Agree,
           EntryExists(g, k), Settable(Parsed(maps[g][k], v))
    PROVE  g[1] \notin KeyTypes
BY DEF Given, Parsed, Settable, Agree, ValuesInKeys, KeysHold, IsKeys, EntryExists

LEMMA SameCacheAgrees ==
    ASSUME Agree, UNCHANGED cache
    PROVE  Agree'
BY DEF Agree, cache, CacheTypeOK, IdsMatchMaps, StaleEntriesAreDirty, ValuesInKeys, MapExists

----------------------------------------------------------------------------
(* The transactions                                                         *)

LEMMA DoneType ==
    ASSUME TxTypeOK, NEW c \in Clients, NEW s \in Undoable, Done(c, s)
    PROVE  TxTypeOK'
<1>1. Append(tx[c].prev, s) \in Seq(Undoable)
  BY DEF TxTypeOK
<1> QED
  BY <1>1 DEF Done, TxTypeOK

LEMMA FailedType ==
    ASSUME TxTypeOK, NEW c \in Clients, Failed(c)
    PROVE  TxTypeOK'
BY DEF Failed, TxTypeOK

\* What the handlers save is a step that a rollback can undo.
LEMMA SavedType ==
    ASSUME NEW op \in {"create", "set", "delete"}, NEW g \in Gids,
           NEW k \in Keys \cup {None}, NEW v \in Vals \cup {None}, ~Unspecified(g),
           op = "set" => k \in Keys /\ g[1] \notin KeyTypes,
           op = "delete" /\ k # None => v \in Vals /\ Written(g, k, v) = v
    PROVE  Saved(op, g, k, v) \in Undoable
<1>1. Saved(op, g, k, v) \in Step
  BY DEF Saved, Step
<1>2. /\ Saved(op, g, k, v).op = op /\ Saved(op, g, k, v).id = g
      /\ Saved(op, g, k, v).key = k /\ Saved(op, g, k, v).val = v
  BY DEF Saved
<1> QED
  BY <1>1, <1>2 DEF Undoable

\* A map that exists has a specified id.
LEMMA ExistingIsSpecified ==
    ASSUME Agree, NEW g \in Gids, MapExists(g)
    PROVE  ~Unspecified(g)
BY DEF Agree, IdsMatchMaps

\* Every id that a request carries becomes an id of the switch.
LEMMA EncodeType ==
    ASSUME NEW t \in Types, NEW x \in AskedIds
    PROVE  Encode(x, t) \in Gids /\ Encode(x, t)[1] = t
<1>1. x % IdRange \in 0..(IdRange - 1)
  <2> HIDE Values, NoneIsNew, Switches
  <2>1. x \in Nat /\ IdRange \in Nat /\ IdRange > 0
    OBVIOUS
  <2> QED BY <2>1
<1> QED
  BY <1>1 DEF Encode, Gids

LEMMA CreateMapStep ==
    ASSUME IInv, NEW c \in Clients, NEW t \in Types, NEW x \in AskedIds, CreateMap(c, t, x)
    PROVE  IInv'
<1> DEFINE g == Encode(x, t)
<1> DEFINE new == IF Unspecified(g) THEN {<<t, l>> : l \in FreeIds(t)} ELSE {g} \ reserved
<1>1. g \in Gids
  BY EncodeType
<1>2. \A id \in new : id \in Gids /\ ~Unspecified(id)
  <2>1. \A l \in FreeIds(t) : <<t, l>> \in Gids /\ ~Unspecified(<<t, l>>)
    BY DEF FreeIds, Gids, Unspecified
  <2> QED
    BY <1>1, <2>1
<1>3. CASE \E id \in new : AddMap(id) /\ Done(c, Saved("create", id, None, None))
  <2>1. PICK id \in new : AddMap(id) /\ Done(c, Saved("create", id, None, None))
    BY <1>3
  <2>2. id \in Gids /\ ~Unspecified(id)
    BY <1>2
  <2> HIDE DEF new
  <2>3. Agree'
    BY <2>1, <2>2, AddMapAgrees DEF IInv
  <2>4. Saved("create", id, None, None) \in Undoable
    BY <2>2, SavedType
  <2> QED
    BY <2>1, <2>3, <2>4, DoneType DEF IInv
<1>4. CASE UNCHANGED cache /\ Failed(c)
  BY <1>4, SameCacheAgrees, FailedType DEF IInv
<1> QED
  BY <1>3, <1>4 DEF CreateMap, Refused

LEMMA DeleteMapStep ==
    ASSUME IInv, NEW c \in Clients, NEW t \in Types, NEW x \in AskedIds, DeleteMap(c, t, x)
    PROVE  IInv'
<1> DEFINE g == Encode(x, t)
<1>1. g \in Gids
  BY EncodeType
<1> HIDE DEF g
<1>2. MapExists(g) => Saved("delete", g, None, None) \in Undoable
  BY <1>1, ExistingIsSpecified, SavedType DEF IInv
<1>3. CASE MapExists(g) /\ RemoveMap(g) /\ Done(c, Saved("delete", g, None, None))
  BY <1>1, <1>2, <1>3, RemoveMapAgrees, DoneType DEF IInv
<1>4. CASE UNCHANGED cache /\ Failed(c)
  BY <1>4, SameCacheAgrees, FailedType DEF IInv
<1> QED
  BY <1>3, <1>4 DEF DeleteMap, Refused, g

LEMMA CreateEntryStep ==
    ASSUME IInv, NEW c \in Clients, NEW t \in Types, NEW x \in AskedIds,
           NEW k \in Keys, NEW v \in Given(t), CreateEntry(c, t, x, k, v)
    PROVE  IInv'
<1> DEFINE g == Encode(x, t)
<1>1. g \in Gids /\ MayCarry(g, v)
  BY EncodeType DEF Given, MayCarry
<1> HIDE DEF g
<1>2. MapExists(g) => Saved("create", g, k, None) \in Undoable
  BY <1>1, ExistingIsSpecified, SavedType DEF IInv
<1>3. CASE MapExists(g) /\ AddEntry(g, k, v) /\ Done(c, Saved("create", g, k, None))
  BY <1>1, <1>2, <1>3, AddEntryAgrees, DoneType DEF IInv
<1>4. CASE UNCHANGED cache /\ Failed(c)
  BY <1>4, SameCacheAgrees, FailedType DEF IInv
<1> QED
  BY <1>3, <1>4 DEF CreateEntry, Refused, g

LEMMA SetEntryStep ==
    ASSUME IInv, NEW c \in Clients, NEW t \in Types, NEW x \in AskedIds,
           NEW k \in Keys, NEW v \in Given(t) \cup {None}, SetEntry(c, t, x, k, v)
    PROVE  IInv'
<1> DEFINE g == Encode(x, t)
<1> DEFINE s == Saved("set", g, k, maps[g][k].val)
<1>1. g \in Gids /\ g[1] = t /\ v \in Vals \cup {None}
  BY EncodeType DEF Given
<1> HIDE DEF g
<1>2. EntryExists(g, k) /\ Settable(Parsed(maps[g][k], v)) => g[1] \notin KeyTypes
  BY <1>1, SetIsNoKeys DEF IInv
<1>3. EntryExists(g, k) /\ g[1] \notin KeyTypes => s \in Undoable
  BY <1>1, EntryTypes, ExistingIsSpecified, SavedType DEF IInv, EntryExists
<1> HIDE DEF s
<1>4. CASE EntryExists(g, k) /\ Settable(Parsed(maps[g][k], v)) /\ PushEntry(g, k, v) /\ Done(c, s)
  BY <1>1, <1>2, <1>3, <1>4, PushEntryAgrees, DoneType DEF IInv
<1>5. CASE EntryExists(g, k) /\ Settable(Parsed(maps[g][k], v)) /\ LeaveParsed(g, k, v) /\ Failed(c)
  BY <1>1, <1>2, <1>5, LeaveParsedAgrees, FailedType DEF IInv
<1>6. CASE UNCHANGED cache /\ Failed(c)
  BY <1>6, SameCacheAgrees, FailedType DEF IInv
<1> QED
  BY <1>4, <1>5, <1>6 DEF SetEntry, g, s

LEMMA DeleteEntryStep ==
    ASSUME IInv, NEW c \in Clients, NEW t \in Types, NEW x \in AskedIds,
           NEW k \in Keys, DeleteEntry(c, t, x, k)
    PROVE  IInv'
<1> DEFINE g == Encode(x, t)
<1> DEFINE s == Saved("delete", g, k, maps[g][k].val)
<1>1. g \in Gids
  BY EncodeType
<1> HIDE DEF g
<1>2. EntryExists(g, k) => s \in Undoable
  BY <1>1, EntryTypes, EntryIsWritten, ExistingIsSpecified, SavedType DEF IInv, EntryExists
<1> HIDE DEF s
<1>3. CASE EntryExists(g, k) /\ RemoveEntry(g, k) /\ Done(c, s)
  BY <1>1, <1>2, <1>3, RemoveEntryAgrees, DoneType DEF IInv
<1>4. CASE UNCHANGED cache /\ Failed(c)
  BY <1>4, SameCacheAgrees, FailedType DEF IInv
<1> QED
  BY <1>3, <1>4 DEF DeleteEntry, Refused, g, s

\* Undoing an operation on a map or on an entry.
LEMMA UndoAgrees ==
    ASSUME Agree, NEW s \in Undoable,
           \/ (IF s.key = None THEN UndoMap(s) ELSE UndoEntry(s))
           \/ UndoFails(s)
    PROVE  Agree'
<1>1. /\ s.id \in Gids /\ ~Unspecified(s.id) /\ s.key \in Keys \cup {None}
      /\ s.val \in Vals \cup {None}
      /\ s.op = "set" => s.key \in Keys /\ s.id[1] \notin KeyTypes
      /\ s.op = "delete" /\ s.key # None => MayCarry(s.id, s.val)
  BY DEF Undoable, Step, MayCarry
<1>2. CASE s.key = None /\ UndoMap(s)
  BY <1>1, <1>2, AddMapAgrees, RemoveMapAgrees, SameCacheAgrees DEF UndoMap
<1>3. CASE s.key # None /\ UndoEntry(s)
  BY <1>1, <1>3, AddEntryAgrees, RemoveEntryAgrees, PushEntryAgrees, SameCacheAgrees
  DEF UndoEntry
<1>4. CASE UndoFails(s)
  <2>1. CASE Refused
    BY <2>1, SameCacheAgrees DEF Refused
  <2>2. CASE s.op = "set" /\ EntryExists(s.id, s.key) /\ LeaveParsed(s.id, s.key, s.val)
    BY <1>1, <2>2, LeaveParsedAgrees
  <2> QED
    BY <1>4, <2>1, <2>2 DEF UndoFails
<1> QED
  BY <1>2, <1>3, <1>4

LEMMA UndoStep ==
    ASSUME IInv, NEW c \in Clients, Undo(c)
    PROVE  IInv'
<1> DEFINE p == tx[c].prev
<1> DEFINE s == p[Len(p)]
<1>1. p \in Seq(Undoable) /\ p # <<>>
  BY DEF Undo, IInv, TxTypeOK
<1>2. Len(p) \in 1..Len(p) /\ s \in Undoable
  BY <1>1
<1>3. SubSeq(p, 1, Len(p) - 1) \in Seq(Undoable)
  BY <1>1, <1>2
<1>4. tx' = [tx EXCEPT ![c] = [phase |-> "undo", prev |-> SubSeq(p, 1, Len(p) - 1)]]
  BY DEF Undo
<1>5. TxTypeOK'
  BY <1>3, <1>4 DEF IInv, TxTypeOK
<1>6. \/ (IF s.key = None THEN UndoMap(s) ELSE UndoEntry(s))
      \/ UndoFails(s)
  BY DEF Undo
<1> HIDE DEF p, s
<1>7. Agree'
  BY <1>2, <1>6, UndoAgrees DEF IInv
<1> QED
  BY <1>5, <1>7 DEF IInv

LEMMA EndStep ==
    ASSUME IInv, NEW c \in Clients, End(c)
    PROVE  IInv'
<1>1. Agree'
  BY SameCacheAgrees DEF End, IInv
<1>2. TxTypeOK'
  BY DEF End, IInv, TxTypeOK, Idle
<1> QED
  BY <1>1, <1>2 DEF IInv

LEMMA InitInv == Init => IInv
BY DEF Init, IInv, Agree, CacheTypeOK, IdsMatchMaps, StaleEntriesAreDirty, ValuesInKeys,
   MapExists, TxTypeOK, Idle

LEMMA NextInv == IInv /\ [Next]_vars => IInv'
<1> SUFFICES ASSUME IInv, [Next]_vars PROVE IInv'
  OBVIOUS
<1>1. CASE UNCHANGED vars
  BY <1>1, SameCacheAgrees DEF vars, IInv, TxTypeOK
<1>2. ASSUME NEW c \in Clients, Request(c) PROVE IInv'
  BY <1>2, CreateMapStep, DeleteMapStep, CreateEntryStep, SetEntryStep, DeleteEntryStep
  DEF Request
<1>3. ASSUME NEW c \in Clients, Undo(c) \/ End(c) PROVE IInv'
  BY <1>3, UndoStep, EndStep
<1> QED
  BY <1>1, <1>2, <1>3 DEF Next

\* In every reachable state of every instance, the parts of the map table agree.
THEOREM MapAgreement == Spec => []IInv
BY InitInv, NextInv, PTL DEF Spec

\* For every number of map types, ids and clients: an id is in use exactly when it
\* names a map, and exactly then the NPU has a map object
\* (nas_qos_switch::add_map, remove_map).
THEOREM MapIdsMatch == Spec => []IdsMatchMaps
<1>1. IInv => IdsMatchMaps
  BY DEF IInv, Agree
<1> QED
  BY <1>1, MapAgreement, PTL

\* Whatever requests and rollbacks are refused: an entry that differs from the NPU is
\* dirty, and a key without an entry has its default value, or, in a map whose entries
\* have their value in the key, possibly that value
\* (nas_qos_cps_api_map_set, nas_qos_map_entry::push_delete_obj_to_npu).
THEOREM StaleIsDirty == Spec => []StaleEntriesAreDirty
<1>1. IInv => StaleEntriesAreDirty
  BY DEF IInv, Agree
<1> QED
  BY <1>1, MapAgreement, PTL

----------------------------------------------------------------------------
(* The bookkeeping of the transactions                                      *)

Configs == [Gids -> [Keys -> Vals \cup {None}] \cup {None}]
BooksOK == before \in [Clients -> Configs \cup {None}] /\ overwrote \subseteq Clients

LEMMA ConfigIsOne == Agree => Config \in Configs
<1>. SUFFICES ASSUME Agree
              PROVE  Config \in Configs
  OBVIOUS
<1>1. ASSUME NEW g \in Gids
      PROVE  Content(maps[g]) \in [Keys -> Vals \cup {None}] \cup {None}
  <2>1. CASE maps[g] = None
    BY <2>1 DEF Content
  <2>2. CASE maps[g] # None
    <3>1. maps[g] \in Map
      BY <2>2 DEF Agree, CacheTypeOK
    <3>2. ASSUME NEW k \in Keys, maps[g][k] # None
          PROVE  maps[g][k].val \in Vals
      BY <3>1, <3>2 DEF Map, Entry
    <3>. QED BY <2>2, <3>2 DEF Content
  <2>. QED BY <2>1, <2>2
<1>. QED BY <1>1 DEF Config, Configs

LEMMA StepBooks == IInv /\ BooksOK /\ [Next]_vars => BooksOK'
<1>. SUFFICES ASSUME IInv, BooksOK, [Next]_vars
              PROVE  BooksOK'
  OBVIOUS
<1>1. ASSUME NEW c \in Clients
      PROVE  Start(c) \in Configs \cup {None} /\ before[c] \in Configs \cup {None}
  BY ConfigIsOne DEF IInv, BooksOK, Start
<1>2. ASSUME NEW c \in Clients, Failed(c)
      PROVE  BooksOK'
  <2>1. \A d \in Clients : (IF d = c THEN Start(c) ELSE IF maps' = maps THEN before[d] ELSE None)
                               \in Configs \cup {None}
    BY <1>1
  <2>. QED BY <1>2, <2>1 DEF Failed, BooksOK
<1>3. ASSUME NEW c \in Clients, NEW s, Done(c, s)
      PROVE  before' \in [Clients -> Configs \cup {None}]
  BY <1>1, <1>3 DEF Done
<1>4. ASSUME NEW c \in Clients, NEW t \in Types, NEW x \in AskedIds,
             CreateMap(c, t, x) \/ DeleteMap(c, t, x)
      PROVE  BooksOK'
  BY <1>2, <1>3, <1>4 DEF CreateMap, DeleteMap, BooksOK
<1>5. ASSUME NEW c \in Clients, NEW t \in Types, NEW x \in AskedIds, NEW k \in Keys,
             \/ \E v \in Given(t) : CreateEntry(c, t, x, k, v)
             \/ \E v \in Given(t) \cup {None} : SetEntry(c, t, x, k, v)
             \/ DeleteEntry(c, t, x, k)
      PROVE  BooksOK'
  BY <1>2, <1>3, <1>5 DEF CreateEntry, SetEntry, DeleteEntry, BooksOK
<1>6. ASSUME NEW c \in Clients, Undo(c)
      PROVE  BooksOK'
  <2>1. overwrote' = overwrote
    BY <1>6 DEF Undo
  <2>2. \/ before' = [d \in Clients |-> IF d = c THEN before[c] ELSE None]
        \/ before' = [d \in Clients |-> None]
    BY <1>6 DEF Undo
  <2>. QED BY <1>1, <2>1, <2>2 DEF BooksOK
<1>7. ASSUME NEW c \in Clients, End(c)
      PROVE  BooksOK'
  BY <1>7 DEF End, BooksOK
<1>8. CASE UNCHANGED vars
  BY <1>8 DEF vars, BooksOK
<1>. QED BY <1>4, <1>5, <1>6, <1>7, <1>8 DEF Next, Request

\* The state of the maps keeps its type: ids stay in their bit fields, values among
\* those of the map, and what is saved can be undone (nas_qos_cps_map.cpp).
THEOREM MapTypes == Spec => []TypeOK
<1>1. Init => BooksOK
  BY DEF Init, BooksOK
<1>2. IInv /\ BooksOK => TypeOK
  <2>. SUFFICES ASSUME IInv, BooksOK
                PROVE  TypeOK
    OBVIOUS
  <2>1. Seq(Undoable) \subseteq Seq(Step)
    BY DEF Undoable
  <2>. QED BY <2>1 DEF IInv, Agree, CacheTypeOK, TxTypeOK, BooksOK, Configs, TypeOK
<1>. QED BY <1>1, <1>2, StepBooks, MapAgreement, PTL DEF Spec

----------------------------------------------------------------------------
(* Undoing a transaction: the argument of Trails, with the entries that a   *)
(* refused SET left dirty left out.                                         *)

Empty(m) == m # None /\ \A k \in Keys : m[k] = None

\* From the maps now, undoing s leads to the maps then.
UndoesMap(s, now, then) ==
    \/ s.op = "create" /\ Empty(now[s.id]) /\ then[s.id] = None
    \/ s.op = "delete" /\ now[s.id] = None /\ Empty(then[s.id])

UndoesEntry(s, now, then) ==
    /\ now[s.id] # None /\ then[s.id] # None
    /\ \A k \in Keys : k # s.key => then[s.id][k] = now[s.id][k]
    /\ now[s.id][s.key] = None <=> s.op = "delete"
    /\ then[s.id][s.key] = IF s.op = "create" THEN None ELSE s.val
    /\ s.op # "create" => s.val \in Vals

Undoes(s, now, then) ==
    /\ \A g \in Gids : g # s.id => then[g] = now[g]
    /\ IF s.key = None THEN UndoesMap(s, now, then) ELSE UndoesEntry(s, now, then)

INSTANCE Trails WITH Entries <- Undoable, States <- Configs

\* The cache holds the maps of x, but for the values of entries that are dirty.
Like(m, y) ==
    /\ m # None <=> y # None
    /\ m # None => \A k \in Keys :
          IF m[k] = None THEN y[k] = None
          ELSE y[k] # None /\ (m[k].dirty \/ y[k] = m[k].val)
Near(x) == \A g \in Gids : Like(maps[g], x[g])

\* What an undisturbed transaction saved leads back to where it began: from the present
\* maps while it goes on, and from maps near to them once it failed.
Tracked ==
    \A c \in Clients :
       /\ tx[c].phase = "idle" => tx[c].prev = <<>>
       /\ tx[c].phase = "open" /\ before[c] # None /\ c \notin overwrote =>
             LeadsBack(tx[c].prev, Config, before[c])
       /\ tx[c].phase = "undo" /\ before[c] # None /\ c \notin overwrote =>
             \E x \in Configs : Near(x) /\ LeadsBack(tx[c].prev, x, before[c])

TrackInv == IInv /\ BooksOK /\ Tracked

----------------------------------------------------------------------------
(* What the operations do to the maps                                       *)

ConfigOK ==
    /\ Config \in Configs
    /\ \A g \in Gids : Config[g] = None <=> maps[g] = None
    /\ \A g \in Gids : maps[g] # None => \A k \in Keys :
          Config[g][k] = IF maps[g][k] = None THEN None ELSE maps[g][k].val
    /\ \A g \in Gids : maps[g] # None => \A k \in Keys :
          maps[g][k] # None => maps[g][k].val \in Vals

\* The contents of the cached maps, map by map.
LEMMA ConfigFacts == Agree => ConfigOK
<1> SUFFICES ASSUME Agree PROVE ConfigOK
  OBVIOUS
<1>1. Config \in Configs
  BY ConfigIsOne
<1>2. \A g \in Gids : Config[g] = Content(maps[g])
  BY DEF Config
<1>3. ASSUME NEW g \in Gids, maps[g] # None
      PROVE  /\ maps[g] \in Map
             /\ \A k \in Keys : Config[g][k] = IF maps[g][k] = None THEN None ELSE maps[g][k].val
  BY <1>2, <1>3 DEF Agree, CacheTypeOK, Content
<1>4. \A g \in Gids : maps[g] # None => \A k \in Keys :
         maps[g][k] # None => maps[g][k].val \in Vals
  BY EntryTypes DEF EntryExists, MapExists
<1>5. ASSUME NEW g \in Gids PROVE Config[g] = None <=> maps[g] = None
  <2>1. CASE maps[g] = None
    BY <1>2, <2>1 DEF Content
  <2>2. CASE maps[g] # None
    <3>1. Content(maps[g]) = [k \in Keys |-> IF maps[g][k] = None THEN None ELSE maps[g][k].val]
      BY <2>2 DEF Content
    <3>2. \A k \in Keys : maps[g][k] # None => maps[g][k].val \in Vals
      BY <1>4, <2>2
    <3>3. Content(maps[g]) \in [Keys -> Vals \cup {None}]
      BY <3>1, <3>2
    <3> QED BY <1>2, <2>2, <3>3
  <2> QED BY <2>1, <2>2
<1> QED
  BY <1>1, <1>3, <1>4, <1>5 DEF ConfigOK

\* The present maps are near themselves.
LEMMA NearConfig == ASSUME ConfigOK PROVE Near(Config)
BY DEF ConfigOK, Near, Like

\* One map changes, or one entry of one map.
MapIs(g, m) ==
    /\ \A h \in Gids : h # g => maps'[h] = maps[h]
    /\ maps'[g] = m

EntryIs(g, k, e) ==
    /\ \A h \in Gids : h # g => maps'[h] = maps[h]
    /\ maps[g] # None /\ maps'[g] # None /\ maps'[g][k] = e
    /\ \A j \in Keys : j # k => maps'[g][j] = maps[g][j]

LEMMA AddMapIs == ASSUME Agree, NEW g \in Gids, AddMap(g) PROVE MapIs(g, NoEntries)
BY DEF AddMap, MapIs, Agree, CacheTypeOK

LEMMA RemoveMapIs == ASSUME Agree, NEW g \in Gids, RemoveMap(g) PROVE MapIs(g, None)
BY DEF RemoveMap, MapIs, Agree, CacheTypeOK

LEMMA PutEntryIs ==
  ASSUME Agree, NEW g \in Gids, NEW k \in Keys, NEW e \in Entry \cup {None}, MapExists(g),
         PutEntry(g, k, e)
  PROVE  EntryIs(g, k, e)
<1>1. maps[g] \in Map
  BY DEF Agree, CacheTypeOK, MapExists
<1>2. maps'[g] = [maps[g] EXCEPT ![k] = e] /\ \A h \in Gids : h # g => maps'[h] = maps[h]
  BY DEF PutEntry, Agree, CacheTypeOK
<1>3. maps'[g] \in Map
  BY <1>1, <1>2 DEF Map
<1> QED
  BY <1>1, <1>2, <1>3 DEF EntryIs, MapExists, Map

\* A request or a rollback writes an entry with the value it carries, or its key.
LEMMA AddEntryIs ==
  ASSUME Agree, NEW g \in Gids, NEW k \in Keys, NEW v, MayCarry(g, v), MapExists(g),
         AddEntry(g, k, v)
  PROVE  \E e \in Entry : e.val = Written(g, k, v) /\ EntryIs(g, k, e)
<1>1. PICK w \in Vals : w = Written(g, k, v)
  BY DEF Written, MayCarry
<1>2. PICK e \in Committed(w) : PutEntry(g, k, e)
  BY <1>1 DEF AddEntry
<1>3. e \in Entry /\ e.val = w
  BY <1>2 DEF Committed, Entry
<1> QED
  BY <1>1, <1>2, <1>3, PutEntryIs

LEMMA PushEntryIs ==
  ASSUME Agree, NEW g \in Gids, NEW k \in Keys, NEW v \in Vals \cup {None}, EntryExists(g, k),
         PushEntry(g, k, v)
  PROVE  \E e \in Entry : /\ e.val = IF v = None THEN maps[g][k].val ELSE v
                          /\ EntryIs(g, k, e)
<1> DEFINE w == Parsed(maps[g][k], v).val
<1>1. w \in Vals /\ w = IF v = None THEN maps[g][k].val ELSE v
  BY EntryTypes DEF Parsed, Entry
<1>2. PICK e \in Committed(w) : PutEntry(g, k, e)
  BY DEF PushEntry
<1>3. e \in Entry /\ e.val = w
  BY <1>1 DEF Committed, Entry
<1> HIDE DEF w
<1> QED
  BY <1>1, <1>2, <1>3, PutEntryIs DEF EntryExists

LEMMA RemoveEntryIs ==
  ASSUME Agree, NEW g \in Gids, NEW k \in Keys, EntryExists(g, k), RemoveEntry(g, k)
  PROVE  EntryIs(g, k, None)
BY PutEntryIs DEF RemoveEntry, EntryExists

\* What was saved of an operation undoes it.
LEMMA MapUndoes ==
  ASSUME Agree, Agree', NEW g \in Gids, NEW op \in {"create", "delete"}, NEW s,
         s = Saved(op, g, None, None),
         IF op = "create" THEN ~MapExists(g) /\ MapIs(g, NoEntries)
                          ELSE maps[g] = NoEntries /\ MapIs(g, None)
  PROVE  Undoes(s, Config', Config)
<1>1. ConfigOK /\ ConfigOK'
  BY ConfigFacts, PTL
<1>2. s.op = op /\ s.id = g /\ s.key = None
  BY DEF Saved
<1>3. \A h \in Gids : h # g => Config[h] = Config'[h]
  BY DEF Config, MapIs
<1>4. NoEntries # None /\ \A k \in Keys : NoEntries[k] = None
  BY DEF NoEntries, Map
<1>5. CASE op = "create"
  <2>1. Empty(Config'[g]) /\ Config[g] = None
    BY <1>1, <1>4, <1>5 DEF ConfigOK, Empty, MapIs, MapExists
  <2> QED BY <1>2, <1>3, <1>5, <2>1 DEF Undoes, UndoesMap
<1>6. CASE op = "delete"
  <2>1. Empty(Config[g]) /\ Config'[g] = None
    BY <1>1, <1>4, <1>6 DEF ConfigOK, Empty, MapIs, MapExists
  <2> QED BY <1>2, <1>3, <1>6, <2>1 DEF Undoes, UndoesMap
<1> QED
  BY <1>5, <1>6

LEMMA EntryUndoes ==
  ASSUME Agree, Agree', NEW g \in Gids, NEW k \in Keys, NEW op \in {"create", "set", "delete"},
         NEW e \in Entry \cup {None}, EntryIs(g, k, e), NEW old, NEW s, s = Saved(op, g, k, old),
         op = "delete" <=> e = None, op = "create" <=> maps[g][k] = None,
         op # "create" => old = maps[g][k].val
  PROVE  Undoes(s, Config', Config)
<1>1. ConfigOK /\ ConfigOK'
  BY ConfigFacts, PTL
<1>2. s.op = op /\ s.id = g /\ s.key = k /\ s.val = old
  BY DEF Saved
<1>3. \A h \in Gids : h # g => Config[h] = Config'[h]
  BY DEF Config, EntryIs
<1>4. /\ maps[g] # None /\ maps'[g] # None /\ maps'[g][k] = e
      /\ \A j \in Keys : j # k => maps'[g][j] = maps[g][j]
  BY DEF EntryIs
<1>5. Config[g] # None /\ Config'[g] # None
  BY <1>1, <1>4 DEF ConfigOK
<1>6. \A j \in Keys : j # k => Config[g][j] = Config'[g][j]
  BY <1>1, <1>4 DEF ConfigOK
<1>7. /\ Config'[g][k] = None <=> op = "delete"
      /\ Config[g][k] = IF op = "create" THEN None ELSE old
      /\ op # "create" => old \in Vals
  BY <1>1, <1>4 DEF ConfigOK
<1>8. k # None
  OBVIOUS
<1> QED
  BY <1>2, <1>3, <1>5, <1>6, <1>7, <1>8 DEF Undoes, UndoesEntry

----------------------------------------------------------------------------
(* Undoing                                                                  *)

\* Undoing s in maps near to those it was saved in leads near to those before.
LEMMA UndoNear ==
  ASSUME Agree, NEW s \in Undoable, NEW x \in Configs, NEW y \in Configs, Near(x),
         Undoes(s, x, y), IF s.key = None THEN UndoMap(s) ELSE UndoEntry(s)
  PROVE  Near(y)'
<1> DEFINE g == s.id
           k == s.key
<1>1. /\ g \in Gids /\ k \in Keys \cup {None} /\ s.op \in {"create", "set", "delete"}
      /\ s.val \in Vals \cup {None}
  BY DEF Undoable, Step
<1>2. Like(maps[g], x[g]) /\ \A h \in Gids : h # g => y[h] = x[h]
  BY <1>1 DEF Near, Undoes
<1>3. ASSUME \A h \in Gids : h # g => maps'[h] = maps[h], Like(maps'[g], y[g])
      PROVE  Near(y)'
  BY <1>2, <1>3 DEF Near
<1>4. CASE k = None
  <2>1. UndoesMap(s, x, y) /\ UndoMap(s)
    BY <1>4 DEF Undoes
  <2>2. CASE s.op = "create" /\ Empty(x[g]) /\ y[g] = None
    <3>1. maps[g] \in Map /\ \A j \in Keys : maps[g][j] = None
      BY <1>1, <1>2, <2>2 DEF Like, Empty, Agree, CacheTypeOK
    <3>2. maps[g] = NoEntries
      BY <3>1 DEF Map, NoEntries
    <3>3. MapIs(g, None)
      BY <1>1, <2>1, <2>2, <3>2, RemoveMapIs DEF UndoMap
    <3> QED BY <1>3, <2>2, <3>3 DEF MapIs, Like
  <2>3. CASE s.op = "delete" /\ x[g] = None /\ Empty(y[g])
    <3>1. maps[g] = None
      BY <1>2, <2>3 DEF Like
    <3>2. g \notin reserved
      BY <1>1, <3>1 DEF Agree, IdsMatchMaps, MapExists
    <3>3. MapIs(g, NoEntries)
      BY <1>1, <2>1, <2>3, <3>2, AddMapIs DEF UndoMap
    <3>4. NoEntries # None /\ \A j \in Keys : NoEntries[j] = None
      BY DEF NoEntries, Map
    <3> QED BY <1>3, <2>3, <3>3, <3>4 DEF MapIs, Like, Empty
  <2> QED BY <2>1, <2>2, <2>3 DEF UndoesMap
<1>5. CASE k # None
  <2>1. UndoesEntry(s, x, y) /\ UndoEntry(s) /\ k \in Keys
    BY <1>1, <1>5 DEF Undoes
  <2>2. /\ x[g] # None /\ y[g] # None /\ \A j \in Keys : j # k => y[g][j] = x[g][j]
        /\ x[g][k] = None <=> s.op = "delete"
        /\ y[g][k] = IF s.op = "create" THEN None ELSE s.val
        /\ s.op # "create" => s.val \in Vals
    BY <2>1 DEF UndoesEntry
  <2>3. /\ maps[g] # None /\ (maps[g][k] = None <=> s.op = "delete")
        /\ \A j \in Keys : IF maps[g][j] = None THEN x[g][j] = None
                            ELSE x[g][j] # None /\ (maps[g][j].dirty \/ x[g][j] = maps[g][j].val)
    BY <1>2, <2>1, <2>2 DEF Like
  <2>4. MapExists(g) /\ (EntryExists(g, k) <=> s.op # "delete")
    BY <2>3 DEF EntryExists, MapExists
  <2>5. \E e \in Entry \cup {None} :
          /\ EntryIs(g, k, e)
          /\ IF s.op = "create" THEN e = None ELSE e # None /\ e.val = s.val
    <3>1. CASE s.op = "create"
      BY <1>1, <2>1, <2>4, <3>1, RemoveEntryIs DEF UndoEntry
    <3>2. CASE s.op = "set"
      <4>1. PushEntry(g, k, s.val) /\ s.val \in Vals
        BY <2>1, <2>2, <2>4, <3>2 DEF UndoEntry
      <4> QED BY <1>1, <2>1, <2>4, <3>2, <4>1, PushEntryIs
    <3>3. CASE s.op = "delete"
      <4>1. AddEntry(g, k, s.val) /\ MayCarry(g, s.val)
        BY <2>1, <2>2, <2>4, <3>3 DEF UndoEntry, MayCarry
      <4>2. Written(g, k, s.val) = s.val
        BY <1>5, <3>3 DEF Undoable
      <4> QED BY <1>1, <2>1, <2>4, <3>3, <4>1, <4>2, AddEntryIs
    <3> QED BY <1>1, <3>1, <3>2, <3>3
  <2>6. PICK e \in Entry \cup {None} :
          /\ EntryIs(g, k, e)
          /\ IF s.op = "create" THEN e = None ELSE e # None /\ e.val = s.val
    BY <2>5
  <2>7. /\ maps'[g] # None /\ maps'[g][k] = e
        /\ \A j \in Keys : j # k => maps'[g][j] = maps[g][j]
        /\ \A h \in Gids : h # g => maps'[h] = maps[h]
    BY <2>6 DEF EntryIs
  <2>8. ASSUME NEW j \in Keys
        PROVE  IF maps'[g][j] = None THEN y[g][j] = None
               ELSE y[g][j] # None /\ (maps'[g][j].dirty \/ y[g][j] = maps'[g][j].val)
    <3>1. CASE j = k
      BY <2>2, <2>6, <2>7, <3>1
    <3>2. CASE j # k
      BY <2>2, <2>3, <2>7, <3>2
    <3> QED BY <3>1, <3>2
  <2>9. Like(maps'[g], y[g])
    BY <2>2, <2>7, <2>8 DEF Like
  <2> QED BY <1>3, <2>7, <2>9
<1> QED
  BY <1>4, <1>5

\* Where a transaction begins, or goes on, its trail begins.
LEMMA StartTracked ==
  ASSUME TrackInv, NEW c \in Clients, Ready(c), Start(c) # None, c \notin overwrote
  PROVE  LeadsBack(tx[c].prev, Config, Start(c)) /\ Start(c) \in Configs
<1>1. Config \in Configs
  BY ConfigIsOne DEF TrackInv, IInv
<1>2. CASE tx[c].phase = "idle"
  <2>1. tx[c].prev = <<>> /\ Start(c) = Config
    BY <1>2 DEF TrackInv, Tracked, Start
  <2> QED BY <1>1, <2>1, EmptyTrail
<1>3. CASE tx[c].phase = "open"
  BY <1>3 DEF TrackInv, Tracked, Start, BooksOK
<1> QED
  BY <1>2, <1>3 DEF Ready

\* An operation that succeeds makes the trail longer and ends those of the others.
LEMMA DoneTracked ==
  ASSUME TrackInv, Agree', NEW c \in Clients, NEW s \in Undoable, Ready(c), Done(c, s),
         c \notin overwrote' => c \notin overwrote /\ Undoes(s, Config', Config)
  PROVE  Tracked'
<1>1. ConfigOK /\ ConfigOK'
  BY ConfigFacts, PTL DEF TrackInv, IInv
<1>2. Config \in Configs /\ Config' \in Configs
  BY <1>1 DEF ConfigOK
<1>3. /\ tx'[c].phase = "open" /\ tx'[c].prev = Append(tx[c].prev, s)
      /\ \A d \in Clients : d # c => tx'[d] = tx[d]
      /\ before'[c] = Start(c) /\ \A d \in Clients : d # c => before'[d] = None
  BY DEF Done, TrackInv, IInv, TxTypeOK
<1>4. tx[c].prev \in Seq(Undoable)
  BY DEF TrackInv, IInv, TxTypeOK
<1>5. Start(c) # None /\ c \notin overwrote' => LeadsBack(Append(tx[c].prev, s), Config', Start(c))
  BY <1>2, <1>4, StartTracked, LongerTrail
<1> QED
  BY <1>3, <1>5 DEF Tracked, TrackInv

\* One that fails leaves the maps near to what they were.
LEMMA FailedTracked ==
  ASSUME TrackInv, NEW c \in Clients, Ready(c), Failed(c), NEW x, x = Config, Near(x)'
  PROVE  Tracked'
<1>1. x \in Configs
  BY ConfigIsOne DEF TrackInv, IInv
<1>2. /\ tx'[c].phase = "undo" /\ tx'[c].prev = tx[c].prev
      /\ \A d \in Clients : d # c => tx'[d] = tx[d]
      /\ before'[c] = Start(c) /\ overwrote' = overwrote
      /\ \A d \in Clients : d # c => before'[d] = IF maps' = maps THEN before[d] ELSE None
  BY DEF Failed, TrackInv, IInv, TxTypeOK
<1>3. Start(c) # None /\ c \notin overwrote => LeadsBack(tx[c].prev, x, Start(c))
  BY StartTracked
<1>4. maps' = maps => Config' = Config /\ \A y \in Configs : Near(y) => Near(y)'
  BY DEF Config, Near
<1> QED
  BY <1>1, <1>2, <1>3, <1>4 DEF Tracked, TrackInv

\* One that fails and changes nothing.
LEMMA RefusedTracked ==
  ASSUME TrackInv, NEW c \in Clients, Ready(c), Failed(c), maps' = maps
  PROVE  Tracked'
<1>1. PICK x : x = Config
  OBVIOUS
<1>2. Near(x)
  BY <1>1, ConfigFacts, NearConfig DEF TrackInv, IInv
<1>3. Near(x)'
  BY <1>2 DEF Near
<1> QED
  BY <1>1, <1>3, FailedTracked

\* A refused SET leaves a dirty entry behind.
LEMMA LeaveParsedTracked ==
  ASSUME TrackInv, NEW c \in Clients, Ready(c), Failed(c), NEW g \in Gids, NEW k \in Keys,
         NEW v \in Vals \cup {None}, EntryExists(g, k), LeaveParsed(g, k, v)
  PROVE  Tracked'
<1>1. PICK x : x = Config
  OBVIOUS
<1>2. Near(x) /\ Agree
  BY <1>1, ConfigFacts, NearConfig DEF TrackInv, IInv
<1> DEFINE e == Parsed(maps[g][k], v)
<1>3. e \in Entry /\ (e.dirty \/ e = maps[g][k])
  BY <1>2, EntryTypes, ParsedType DEF Parsed
<1>4. EntryIs(g, k, e)
  BY <1>2, <1>3, PutEntryIs DEF LeaveParsed, EntryExists
<1> HIDE DEF e
<1>5. /\ maps[g] # None /\ maps'[g] # None /\ maps'[g][k] = e /\ maps[g][k] # None
      /\ \A j \in Keys : j # k => maps'[g][j] = maps[g][j]
      /\ \A h \in Gids : h # g => maps'[h] = maps[h]
  BY <1>4 DEF EntryIs, EntryExists
<1>6. Like(maps[g], x[g])
  BY <1>2 DEF Near
<1>7. Like(maps'[g], x[g])
  BY <1>3, <1>5, <1>6 DEF Like
<1>8. Near(x)'
  BY <1>2, <1>5, <1>7 DEF Near
<1> QED
  BY <1>1, <1>8, FailedTracked

----------------------------------------------------------------------------
(* Every action keeps the trails                                            *)

LEMMA CreateMapTracked ==
  ASSUME TrackInv, Agree', NEW c \in Clients, NEW t \in Types, NEW x \in AskedIds,
         CreateMap(c, t, x)
  PROVE  Tracked'
<1> DEFINE g == Encode(x, t)
           new == IF Unspecified(g) THEN {<<t, l>> : l \in FreeIds(t)} ELSE {g} \ reserved
<1>1. g \in Gids /\ Ready(c)
  BY EncodeType DEF CreateMap
<1>2. \A id \in new : id \in Gids /\ ~Unspecified(id) /\ id \notin reserved
  <2>1. \A l \in FreeIds(t) : /\ <<t, l>> \in Gids /\ ~Unspecified(<<t, l>>)
                             /\ <<t, l>> \notin reserved
    BY DEF FreeIds, Gids, Unspecified
  <2> QED BY <1>1, <2>1
<1>3. \/ \E id \in new : AddMap(id) /\ Done(c, Saved("create", id, None, None))
      \/ UNCHANGED cache /\ Failed(c)
  BY DEF CreateMap, Refused
<1> HIDE DEF new, g
<1>4. ASSUME NEW id \in new, AddMap(id), Done(c, Saved("create", id, None, None))
      PROVE  Tracked'
  <2>1. id \in Gids /\ ~Unspecified(id) /\ ~MapExists(id)
    BY <1>2, <1>4 DEF TrackInv, IInv, Agree, IdsMatchMaps
  <2>2. MapIs(id, NoEntries)
    BY <1>4, <2>1, AddMapIs DEF TrackInv, IInv
  <2> DEFINE s == Saved("create", id, None, None)
  <2>3. s \in Undoable
    BY <2>1, SavedType
  <2>4. Undoes(s, Config', Config)
    BY <2>1, <2>2, MapUndoes DEF TrackInv, IInv
  <2>5. overwrote' = overwrote
    BY <1>1, <1>4 DEF CreateMap, Done, Failed, Ready, TrackInv, IInv, TxTypeOK
  <2> QED BY <1>1, <1>4, <2>3, <2>4, <2>5, DoneTracked
<1> QED
  BY <1>1, <1>3, <1>4, RefusedTracked DEF cache

LEMMA DeleteMapTracked ==
  ASSUME TrackInv, Agree', NEW c \in Clients, NEW t \in Types, NEW x \in AskedIds,
         DeleteMap(c, t, x)
  PROVE  Tracked'
<1> DEFINE g == Encode(x, t)
           s == Saved("delete", g, None, None)
<1>1. g \in Gids /\ Ready(c)
  BY EncodeType DEF DeleteMap
<1>2. \/ /\ MapExists(g) /\ maps[g] = NoEntries /\ RemoveMap(g) /\ Done(c, s)
         /\ UNCHANGED overwrote
      \/ UNCHANGED cache /\ Failed(c)
  BY DEF DeleteMap, Refused
<1> HIDE DEF g
<1>3. CASE MapExists(g) /\ maps[g] = NoEntries /\ RemoveMap(g) /\ Done(c, s)
           /\ UNCHANGED overwrote
  <2>1. s \in Undoable
    BY <1>1, <1>3, ExistingIsSpecified, SavedType DEF TrackInv, IInv
  <2>2. MapIs(g, None)
    BY <1>1, <1>3, RemoveMapIs DEF TrackInv, IInv
  <2>3. Undoes(s, Config', Config)
    BY <1>1, <1>3, <2>2, MapUndoes DEF TrackInv, IInv
  <2> QED BY <1>1, <1>3, <2>1, <2>3, DoneTracked
<1> QED
  BY <1>1, <1>2, <1>3, RefusedTracked DEF cache

LEMMA CreateEntryTracked ==
  ASSUME TrackInv, Agree', NEW c \in Clients, NEW t \in Types, NEW x \in AskedIds,
         NEW k \in Keys, NEW v \in Given(t), CreateEntry(c, t, x, k, v)
  PROVE  Tracked'
<1> DEFINE g == Encode(x, t)
           s == Saved("create", g, k, None)
<1>1. g \in Gids /\ Ready(c) /\ MayCarry(g, v)
  BY EncodeType DEF CreateEntry, Given, MayCarry
<1>2. \/ /\ MapExists(g) /\ AddEntry(g, k, v) /\ Done(c, s)
         /\ overwrote' = IF EntryExists(g, k) THEN overwrote \cup {c} ELSE overwrote
      \/ UNCHANGED cache /\ Failed(c)
  BY DEF CreateEntry, Refused
<1> HIDE DEF g
<1>3. CASE /\ MapExists(g) /\ AddEntry(g, k, v) /\ Done(c, s)
           /\ overwrote' = IF EntryExists(g, k) THEN overwrote \cup {c} ELSE overwrote
  <2>1. s \in Undoable
    BY <1>1, <1>3, ExistingIsSpecified, SavedType DEF TrackInv, IInv
  <2>2. PICK e \in Entry : EntryIs(g, k, e)
    BY <1>1, <1>3, AddEntryIs DEF TrackInv, IInv
  <2>3. c \notin overwrote' => c \notin overwrote /\ maps[g][k] = None
    BY <1>3 DEF EntryExists
  <2>4. maps[g][k] = None => Undoes(s, Config', Config)
    BY <1>1, <2>2, EntryUndoes DEF TrackInv, IInv
  <2> QED BY <1>1, <1>3, <2>1, <2>3, <2>4, DoneTracked
<1> QED
  BY <1>1, <1>2, <1>3, RefusedTracked DEF cache

LEMMA SetEntryTracked ==
  ASSUME TrackInv, Agree', NEW c \in Clients, NEW t \in Types, NEW x \in AskedIds,
         NEW k \in Keys, NEW v \in Given(t) \cup {None}, SetEntry(c, t, x, k, v)
  PROVE  Tracked'
<1> DEFINE g == Encode(x, t)
           s == Saved("set", g, k, maps[g][k].val)
<1>1. g \in Gids /\ Ready(c) /\ g[1] = t /\ v \in Vals \cup {None}
  BY EncodeType DEF SetEntry, Given
<1>2. \/ /\ EntryExists(g, k) /\ Settable(Parsed(maps[g][k], v))
         /\ PushEntry(g, k, v) /\ Done(c, s) /\ UNCHANGED overwrote
      \/ EntryExists(g, k) /\ LeaveParsed(g, k, v) /\ Failed(c)
      \/ UNCHANGED cache /\ Failed(c)
  BY DEF SetEntry
<1> HIDE DEF g
<1>3. CASE /\ EntryExists(g, k) /\ Settable(Parsed(maps[g][k], v))
           /\ PushEntry(g, k, v) /\ Done(c, s) /\ UNCHANGED overwrote
  <2>0. g[1] \notin KeyTypes
    BY <1>1, <1>3, SetIsNoKeys DEF TrackInv, IInv
  <2>1. s \in Undoable
    BY <1>1, <1>3, <2>0, EntryTypes, ExistingIsSpecified, SavedType
    DEF TrackInv, IInv, EntryExists
  <2>2. PICK e \in Entry : EntryIs(g, k, e)
    BY <1>1, <1>3, PushEntryIs DEF TrackInv, IInv
  <2>3. Undoes(s, Config', Config)
    BY <1>1, <1>3, <2>2, EntryUndoes DEF TrackInv, IInv, EntryExists
  <2> QED BY <1>1, <1>3, <2>1, <2>3, DoneTracked
<1>4. CASE EntryExists(g, k) /\ LeaveParsed(g, k, v) /\ Failed(c)
  BY <1>1, <1>4, LeaveParsedTracked
<1> QED
  BY <1>1, <1>2, <1>3, <1>4, RefusedTracked DEF cache

LEMMA DeleteEntryTracked ==
  ASSUME TrackInv, Agree', NEW c \in Clients, NEW t \in Types, NEW x \in AskedIds,
         NEW k \in Keys, DeleteEntry(c, t, x, k)
  PROVE  Tracked'
<1> DEFINE g == Encode(x, t)
           s == Saved("delete", g, k, maps[g][k].val)
<1>1. g \in Gids /\ Ready(c)
  BY EncodeType DEF DeleteEntry
<1>2. \/ EntryExists(g, k) /\ RemoveEntry(g, k) /\ Done(c, s) /\ UNCHANGED overwrote
      \/ UNCHANGED cache /\ Failed(c)
  BY DEF DeleteEntry, Refused
<1> HIDE DEF g
<1>3. CASE EntryExists(g, k) /\ RemoveEntry(g, k) /\ Done(c, s) /\ UNCHANGED overwrote
  <2>1. s \in Undoable
    BY <1>1, <1>3, EntryTypes, EntryIsWritten, ExistingIsSpecified, SavedType
    DEF TrackInv, IInv, EntryExists
  <2>2. EntryIs(g, k, None)
    BY <1>1, <1>3, RemoveEntryIs DEF TrackInv, IInv
  <2>3. Undoes(s, Config', Config)
    BY <1>1, <1>3, <2>2, EntryUndoes DEF TrackInv, IInv, EntryExists
  <2> QED BY <1>1, <1>3, <2>1, <2>3, DoneTracked
<1> QED
  BY <1>1, <1>2, <1>3, RefusedTracked DEF cache

\* The rollback follows the trail of its own transaction and ends those of the others.
LEMMA UndoTracked ==
  ASSUME TrackInv, NEW c \in Clients, Undo(c)
  PROVE  Tracked'
<1> DEFINE p == tx[c].prev
           s == p[Len(p)]
           q == SubSeq(p, 1, Len(p) - 1)
<1>1. tx[c].phase = "undo" /\ p # <<>> /\ p \in Seq(Undoable) /\ s \in Undoable
  BY DEF Undo, TrackInv, IInv, TxTypeOK
<1>2. /\ tx'[c].phase = "undo" /\ tx'[c].prev = q
      /\ \A d \in Clients : d # c => tx'[d] = tx[d]
  BY DEF Undo, TrackInv, IInv, TxTypeOK
<1>3. overwrote' = overwrote
  BY DEF Undo
<1>4. CASE before' = [d \in Clients |-> None]
  BY <1>2, <1>4 DEF Tracked, TrackInv
<1>5. CASE /\ IF s.key = None THEN UndoMap(s) ELSE UndoEntry(s)
           /\ before' = [d \in Clients |-> IF d = c THEN before[c] ELSE None]
  <2>1. before'[c] = before[c] /\ \A d \in Clients : d # c => before'[d] = None
    BY <1>5
  <2>2. ASSUME before[c] # None, c \notin overwrote
        PROVE  \E y \in Configs : Near(y)' /\ LeadsBack(q, y, before[c])
    <3>1. PICK x \in Configs : Near(x) /\ LeadsBack(p, x, before[c])
      BY <1>1, <2>2 DEF TrackInv, Tracked
    <3>2. PICK y \in Configs : Undoes(s, x, y) /\ LeadsBack(q, y, before[c])
      BY <1>1, <3>1, ShorterTrail
    <3>3. Near(y)'
      BY <1>1, <1>5, <3>1, <3>2, UndoNear DEF TrackInv, IInv
    <3> QED BY <3>2, <3>3
  <2> QED BY <1>2, <1>3, <2>1, <2>2 DEF Tracked, TrackInv
<1>6. \/ /\ IF s.key = None THEN UndoMap(s) ELSE UndoEntry(s)
         /\ before' = [d \in Clients |-> IF d = c THEN before[c] ELSE None]
      \/ before' = [d \in Clients |-> None]
  BY DEF Undo
<1> QED
  BY <1>4, <1>5, <1>6

LEMMA SameTracked ==
  ASSUME TrackInv, UNCHANGED maps, NEW c \in Clients, tx'[c] = Idle,
         \A d \in Clients : d # c => tx'[d] = tx[d] /\ before'[d] = before[d],
         \A d \in Clients : d # c => (d \in overwrote' <=> d \in overwrote)
  PROVE  Tracked'
<1>1. Config' = Config /\ \A y \in Configs : Near(y) => Near(y)'
  BY DEF Config, Near
<1>2. tx'[c].phase = "idle" /\ tx'[c].prev = <<>>
  BY DEF Idle
<1> QED
  BY <1>1, <1>2 DEF Tracked, TrackInv

LEMMA NextTracked == TrackInv /\ IInv' /\ [Next]_vars => Tracked'
<1> SUFFICES ASSUME TrackInv, IInv', [Next]_vars PROVE Tracked'
  OBVIOUS
<1>1. Agree'
  BY DEF IInv
<1>2. ASSUME NEW c \in Clients, Request(c) PROVE Tracked'
  BY <1>1, <1>2, CreateMapTracked, DeleteMapTracked, CreateEntryTracked, SetEntryTracked,
     DeleteEntryTracked DEF Request
<1>3. ASSUME NEW c \in Clients, Undo(c) PROVE Tracked'
  BY <1>3, UndoTracked
<1>4. ASSUME NEW c \in Clients, End(c) PROVE Tracked'
  BY <1>4, SameTracked DEF End, cache, TrackInv, IInv, TxTypeOK, BooksOK
<1>5. CASE UNCHANGED vars
  <2>1. Config' = Config /\ \A y \in Configs : Near(y) => Near(y)'
    BY <1>5 DEF Config, Near, vars, cache
  <2> QED BY <1>5, <2>1 DEF Tracked, TrackInv, vars
<1> QED
  BY <1>2, <1>3, <1>4, <1>5 DEF Next

\* In every reachable state what each transaction saved leads back, from maps near to the
\* present ones, to those of its beginning: the inductive invariant of the rollback
\* (nas_qos_cps_api_map_rollback_type).
THEOREM TrackInvariance == Spec => []TrackInv
<1>1. Init => BooksOK /\ Tracked
  BY DEF Init, BooksOK, Tracked, Idle
<1>2. TrackInv /\ [Next]_vars => BooksOK'
  BY StepBooks DEF TrackInv
<1>3. TrackInv <=> IInv /\ BooksOK /\ Tracked
  BY DEF TrackInv
<1> QED
  BY <1>1, <1>2, <1>3, InitInv, NextInv, NextTracked, PTL DEF Spec

\* For every number of map types, ids, keys, values and clients, and transactions of any
\* length on maps and their entries: a rollback that was not disturbed leaves the maps that
\* its transaction found, but for entries left dirty (nas_qos_cps_api_map_rollback_type).
THEOREM RollbacksRestoreMaps == Spec => []RollbackRestores
<1>1. TrackInv => RollbackRestores
  <2> SUFFICES ASSUME TrackInv, NEW c \in Clients, Undone(c), c \notin overwrote,
                      NEW g \in Gids
               PROVE  /\ MapExists(g) <=> before[c][g] # None
                      /\ MapExists(g) => \A k \in Keys :
                            IF maps[g][k] = None THEN before[c][g][k] = None
                            ELSE maps[g][k].dirty \/ before[c][g][k] = maps[g][k].val
    BY DEF RollbackRestores
  <2>1. PICK x \in Configs : Near(x) /\ LeadsBack(<<>>, x, before[c])
    BY DEF Undone, TrackInv, Tracked
  <2>2. x = before[c]
    BY <2>1, EndOfTrail
  <2>3. Like(maps[g], before[c][g])
    BY <2>1, <2>2 DEF Near
  <2> QED BY <2>3 DEF Like, MapExists
<1> QED
  BY <1>1, TrackInvariance, PTL
=============================================================================
