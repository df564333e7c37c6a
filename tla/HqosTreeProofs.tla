--------------------------- MODULE HqosTreeProofs ---------------------------
(***************************************************************************)
(* Proofs about HqosTree: for every number of queues, groups, NPU ports,    *)
(* clients, requests and events, the nodes keep their levels, parents and   *)
(* lists of children agree, and the NPU has the same tree as long as the    *)
(* interface stays where it is.                                             *)
(***************************************************************************)
EXTENDS HqosTree, Integers, SequenceTheorems, TLAPS

USE DEF Previous

Typed(t) ==
    /\ t = [z \in Nodes |-> t[z]]
    /\ \A z \in Nodes : t[z] \in Node(z) \cup {None}

Parents(x) == Above(x) \cup {None}

InterfaceOK ==
    /\ intf \in NpuPorts \cup {None} /\ requests \in Nat /\ changes \in Nat
    /\ events \in Seq([op : {"add", "remove"}, npu : NpuPorts]) /\ moved \in BOOLEAN
DbOK ==
    /\ db = [x \in Nodes |-> db[x]]
    /\ \A x \in Nodes : db[x] = <<>> \/ db[x][1] \in Parents(x)
NpuOK == npu \in [Objects -> Objects \cup {None, Missing}]
AssocOK ==
    /\ assoc \in [npu : NpuPorts \cup {None}, queues : SUBSET Nodes, groups : SUBSET Groups]
    /\ assoc.groups # {} => assoc.npu \in NpuPorts

\* What is saved can be undone: a parent of the level above, a group that was created.
Saved == {s \in Step : /\ s.op = "set" => s.parent \in Parents(s.node)
                       /\ s.op = "create" => s.node \in Spares}
Transactions == [phase : {"idle", "open", "undo"}, prev : Seq(Saved)]
TxOK == tx \in [Clients -> Transactions]

QueuesExist == \A x \in Queues : Exists(x)

\* The nodes whose record is to be replayed.
WaitingExist == \A x \in assoc.queues : x \in Nodes /\ Exists(x) /\ db[x] # <<>>

\* What ListsAgree says of one node.
Linked(x) ==
    /\ Exists(x) /\ x \notin preset /\ tree[x].parent # None =>
          Exists(tree[x].parent) /\ x \in tree[tree[x].parent].children
    /\ \A y \in Nodes : Exists(y) /\ x \in tree[y].children =>
          Exists(x) /\ x \notin preset /\ tree[x].parent = y
AllLinked == \A x \in Nodes \ offline : Linked(x)

\* Until an association, each node has an object of its own, below that of its parent,
\* and no parent is preset.
Mirrors(x) ==
    /\ tree[x].ndi[2] = x /\ x \notin preset
    /\ x \notin offline =>
          \A q : q = tree[x].parent => npu[tree[x].ndi] = IF q = None THEN None ELSE tree[q].ndi
Mirrored == \A x \in Nodes : Bound(x) => Mirrors(x)

CachedInv ==
    /\ Typed(tree) /\ DbOK /\ NpuOK /\ offline \subseteq Nodes /\ preset \subseteq Queues
    /\ QueuesExist /\ AllLinked /\ (~moved => Mirrored)

IInv ==
    /\ CachedInv
    /\ InterfaceOK /\ AssocOK /\ TxOK /\ WaitingExist
    /\ (~moved => assoc = NoAssoc)

----------------------------------------------------------------------------
(* The levels of the tree. *)

LEMMA Levels ==
    /\ Queues \subseteq Nodes /\ Groups \subseteq Nodes /\ Root \in Nodes
    /\ Spares \subseteq Groups /\ AutoGroups \subseteq Groups
    /\ Queues \cap Groups = {} /\ Root \notin Queues /\ Root \notin Groups
<1>1. /\ \A x \in Queues : x[1] = "queue"
      /\ \A x \in Groups : x[1] = "group"
      /\ Root[1] = "root"
  BY DEF Queues, Groups, AutoGroups, Spares, Root
<1>2. Queues \cap Groups = {} /\ Root \notin Queues /\ Root \notin Groups
  BY <1>1
<1>. QED BY <1>2 DEF Nodes, Groups

LEMMA AboveNodes ==
    ASSUME NEW x \in Nodes
    PROVE  /\ Above(x) \subseteq Nodes /\ x \notin Above(x)
           /\ \A y \in Above(x) : x \in Below(y)
           /\ x \in Spares => Above(x) = {Root}
           /\ x = Root => Above(x) = {}
BY Levels DEF Above, Below

LEMMA BelowNodes ==
    ASSUME NEW y
    PROVE  Below(y) \subseteq Nodes
BY DEF Below

USE NoneIsNew

LEMMA RecordIsNode ==
    ASSUME NEW z \in Nodes, NEW q \in Parents(z), NEW ch \in SUBSET Below(z),
           NEW o \in Objects \cup {None}
    PROVE  /\ [parent |-> q, children |-> ch, ndi |-> o] \in Node(z)
           /\ [parent |-> q, children |-> ch, ndi |-> o] # None
<1>1. [parent |-> q, children |-> ch, ndi |-> o] \in Node(z)
  BY DEF Node, Parents
<1>. QED BY <1>1

LEMMA NodeFields ==
    ASSUME NEW t, Typed(t), NEW z \in Nodes, t[z] # None
    PROVE  /\ t[z] \in Node(z)
           /\ t[z].parent \in Parents(z) /\ t[z].children \subseteq Below(z)
           /\ t[z].ndi \in Objects \cup {None}
           /\ t[z].parent # None => t[z].parent \in Nodes
<1>1. t[z] \in Node(z)
  BY DEF Typed
<1>2. t[z].parent \in Parents(z) /\ t[z].children \subseteq Below(z)
      /\ t[z].ndi \in Objects \cup {None}
  BY <1>1 DEF Node, Parents
<1>. QED BY <1>1, <1>2, AboveNodes DEF Parents

----------------------------------------------------------------------------
(* What the operations on lists of children do. *)

\* t and u have the same nodes with the same NPU objects.
Alike(t, u) ==
    \A z \in Nodes : /\ u[z] = None <=> t[z] = None
                     /\ t[z] # None => u[z].ndi = t[z].ndi

\* From t to u, x left the list of y or joined it.
Left(t, u, x, y) ==
    /\ Typed(u) /\ Alike(t, u)
    /\ \A z \in Nodes : t[z] # None =>
          /\ u[z].parent = t[z].parent
          /\ \A w : w \in u[z].children <=> w \in t[z].children /\ ~(z = y /\ w = x)
Joined(t, u, x, y) ==
    /\ Typed(u) /\ Alike(t, u)
    /\ \A z \in Nodes : t[z] # None =>
          /\ u[z].parent = t[z].parent
          /\ \A w : w \in u[z].children <=> w \in t[z].children \/ (z = y /\ w = x)

LEMMA LeaveTree ==
    ASSUME NEW t, Typed(t), NEW x \in Nodes, NEW y \in Nodes \cup {None},
           NEW u, u = Leave(t, x, y)
    PROVE  Left(t, u, x, y)
<1>1. CASE y = None \/ t[y] = None
  <2>1. u = t
    BY <1>1 DEF Leave
  <2>. QED BY <1>1, <2>1 DEF Alike, Left
<1>2. CASE ~(y = None \/ t[y] = None)
  <2>. DEFINE r == [parent |-> t[y].parent, children |-> t[y].children \ {x}, ndi |-> t[y].ndi]
  <2>1. y \in Nodes /\ u = [t EXCEPT ![y] = r]
    BY <1>2 DEF Leave
  <2>2. r \in Node(y) /\ r # None
    <3>1. t[y].children \ {x} \in SUBSET Below(y)
      BY <1>2, <2>1, NodeFields
    <3>. QED BY <1>2, <2>1, <3>1, NodeFields, RecordIsNode
  <2>. HIDE DEF r
  <2>3. u = [w \in Nodes |-> IF w = y THEN r ELSE t[w]]
    BY <2>1 DEF Typed
  <2>4. u[y] = r /\ \A w \in Nodes : w # y => u[w] = t[w]
    BY <2>1, <2>3
  <2>5. Typed(u)
    BY <2>2, <2>3, <2>4 DEF Typed
  <2>. QED BY <1>2, <2>1, <2>2, <2>4, <2>5 DEF Alike, Left, r
<1>. QED BY <1>1, <1>2

LEMMA JoinTree ==
    ASSUME NEW t, Typed(t), NEW x \in Nodes, NEW y \in Parents(x), NEW u, u = Join(t, x, y)
    PROVE  Joined(t, u, x, y)
<1>1. CASE y = None \/ t[y] = None
  <2>1. u = t
    BY <1>1 DEF Join
  <2>. QED BY <1>1, <2>1 DEF Alike, Joined
<1>2. CASE ~(y = None \/ t[y] = None)
  <2>. DEFINE r == [parent |-> t[y].parent, children |-> t[y].children \cup {x},
                    ndi |-> t[y].ndi]
  <2>1. y \in Nodes /\ y \in Above(x) /\ u = [t EXCEPT ![y] = r]
    BY <1>2, AboveNodes DEF Join, Parents
  <2>2. r \in Node(y) /\ r # None
    <3>1. t[y].children \cup {x} \in SUBSET Below(y)
      BY <1>2, <2>1, NodeFields, AboveNodes
    <3>. QED BY <1>2, <2>1, <3>1, NodeFields, RecordIsNode
  <2>. HIDE DEF r
  <2>3. u = [w \in Nodes |-> IF w = y THEN r ELSE t[w]]
    BY <2>1 DEF Typed
  <2>4. u[y] = r /\ \A w \in Nodes : w # y => u[w] = t[w]
    BY <2>1, <2>3
  <2>5. Typed(u)
    BY <2>2, <2>3, <2>4 DEF Typed
  <2>. QED BY <1>2, <2>1, <2>2, <2>4, <2>5 DEF Alike, Joined, r
<1>. QED BY <1>1, <1>2

LEMMA ReparentTree ==
    ASSUME NEW t, Typed(t), NEW x \in Nodes, t[x] # None, NEW y \in Parents(x),
           NEW u, u = Reparent(t, x, y)
    PROVE  /\ Typed(u) /\ Alike(t, u)
           /\ \A z \in Nodes : t[z] # None =>
                 /\ u[z].parent = IF z = x THEN y ELSE t[z].parent
                 /\ u[z].children = t[z].children
<1>. DEFINE r == [parent |-> y, children |-> t[x].children, ndi |-> t[x].ndi]
<1>1. u = [t EXCEPT ![x] = r]
  BY DEF Reparent
<1>2. r \in Node(x) /\ r # None
  BY NodeFields, RecordIsNode
<1>. HIDE DEF r
<1>3. u = [w \in Nodes |-> IF w = x THEN r ELSE t[w]]
  BY <1>1 DEF Typed
<1>4. u[x] = r /\ \A w \in Nodes : w # x => u[w] = t[w]
  BY <1>1, <1>3
<1>5. Typed(u)
  BY <1>2, <1>3, <1>4 DEF Typed
<1>. QED BY <1>2, <1>4, <1>5 DEF Alike, r

\* A node that moves from its parent to y: both lists follow.
MovedTree(t, x, y) == Reparent(Join(Leave(t, x, t[x].parent), x, y), x, y)
Shifted(t, u, x, y) ==
    /\ Typed(u) /\ Alike(t, u)
    /\ \A z \in Nodes : t[z] # None =>
          /\ u[z].parent = IF z = x THEN y ELSE t[z].parent
          /\ \A w \in Nodes : w # x => (w \in u[z].children <=> w \in t[z].children)
          /\ x \in u[z].children <=> z = y \/ (z # t[x].parent /\ x \in t[z].children)

LEMMA MoveTree ==
    ASSUME NEW t, Typed(t), NEW x \in Nodes, t[x] # None, NEW y \in Parents(x),
           NEW u, u = MovedTree(t, x, y)
    PROVE  Shifted(t, u, x, y)
<1>. DEFINE t1 == Leave(t, x, t[x].parent)
            t2 == Join(t1, x, y)
<1>0. t1 = Leave(t, x, t[x].parent) /\ t2 = Join(t1, x, y) /\ u = Reparent(t2, x, y)
  BY DEF MovedTree
<1>. HIDE DEF t1, t2
<1>1. PICK q \in Nodes \cup {None} : q = t[x].parent
  BY NodeFields
<1>2. /\ Typed(t1) /\ Alike(t, t1)
      /\ \A z \in Nodes : t[z] # None =>
            /\ t1[z].parent = t[z].parent
            /\ \A w : w \in t1[z].children <=>
                        w \in t[z].children /\ ~(z = q /\ w = x)
  <2>1. t1 = Leave(t, x, q)
    BY <1>0, <1>1
  <2>2. Left(t, t1, x, q)
    BY <2>1, LeaveTree
  <2>. QED BY <2>2 DEF Left
<1>3. /\ Typed(t2) /\ Alike(t1, t2)
      /\ \A z \in Nodes : t1[z] # None =>
            /\ t2[z].parent = t1[z].parent
            /\ \A w : w \in t2[z].children <=>
                        w \in t1[z].children \/ (z = y /\ w = x)
  <2>1. Joined(t1, t2, x, y)
    BY <1>0, <1>2, JoinTree
  <2>. QED BY <2>1 DEF Joined
<1>4. t2[x] # None
  BY <1>2, <1>3 DEF Alike
<1>5. /\ Typed(u) /\ Alike(t2, u)
      /\ \A z \in Nodes : t2[z] # None =>
            /\ u[z].parent = IF z = x THEN y ELSE t2[z].parent
            /\ u[z].children = t2[z].children
  BY <1>0, <1>3, <1>4, ReparentTree
<1>6. Alike(t, u)
  BY <1>2, <1>3, <1>5 DEF Alike
<1>7. ASSUME NEW z \in Nodes, t[z] # None
      PROVE  /\ u[z].parent = IF z = x THEN y ELSE t[z].parent
             /\ \A w \in Nodes : w # x => (w \in u[z].children <=> w \in t[z].children)
             /\ x \in u[z].children <=> z = y \/ (z # t[x].parent /\ x \in t[z].children)
  <2>1. t1[z] # None /\ t2[z] # None
    BY <1>2, <1>3, <1>7 DEF Alike
  <2>2. u[z].parent = IF z = x THEN y ELSE t[z].parent
    BY <1>2, <1>3, <1>5, <1>7, <2>1
  <2>3. \A w : w \in u[z].children <=> w \in t1[z].children \/ (z = y /\ w = x)
    BY <1>3, <1>5, <2>1
  <2>4. \A w : w \in t1[z].children <=> w \in t[z].children /\ ~(z = t[x].parent /\ w = x)
    BY <1>1, <1>2, <1>7
  <2>. QED BY <2>2, <2>3, <2>4
<1>. QED BY <1>5, <1>6, <1>7 DEF Shifted

\* v is t but for one node.
Differ(t, v, x) == Typed(v) /\ \A z \in Nodes : z # x => v[z] = t[z]

\* A node that is new, and in the list of its parent only.
Added(t, u, s, y, o) ==
    /\ Typed(u) /\ u[s] # None /\ u[s].parent = y /\ u[s].ndi = o
    /\ \A w : w \notin u[s].children
    /\ \A z \in Nodes : z # s =>
          /\ u[z] = None <=> t[z] = None
          /\ t[z] # None =>
                /\ u[z].parent = t[z].parent /\ u[z].ndi = t[z].ndi
                /\ \A w : w \in u[z].children <=> w \in t[z].children \/ (z = y /\ w = s)

LEMMA AddTree ==
    ASSUME NEW t, Typed(t), NEW s \in Nodes, t[s] = None, NEW y \in Parents(s),
           NEW v, Differ(t, v, s), v[s] # None, v[s].parent = y, v[s].children = {},
           NEW o, v[s].ndi = o, NEW u, u = Join(v, s, y)
    PROVE  Added(t, u, s, y, o)
<1>1. Typed(v)
  BY DEF Differ
<1>2. Joined(v, u, s, y)
  BY <1>1, JoinTree
<1>3. s # y
  BY AboveNodes DEF Parents
<1>. QED BY <1>2, <1>3 DEF Alike, Differ, Joined, Added

\* A node that goes, and leaves the list of its parent.
Removed(t, u, x, p) ==
    /\ Typed(u) /\ u[x] = None
    /\ \A z \in Nodes : z # x =>
          /\ u[z] = None <=> t[z] = None
          /\ t[z] # None =>
                /\ u[z].parent = t[z].parent /\ u[z].ndi = t[z].ndi
                /\ \A w : w \in u[z].children <=> w \in t[z].children /\ ~(z = p /\ w = x)

LEMMA RemoveTree ==
    ASSUME NEW t, Typed(t), NEW x \in Nodes, NEW p \in Nodes \cup {None},
           NEW v, Differ(t, v, x), v[x] = None, NEW u, u = Leave(v, x, p)
    PROVE  Removed(t, u, x, p)
<1>1. Typed(v)
  BY DEF Differ
<1>2. Left(v, u, x, p)
  BY <1>1, LeaveTree
<1>. QED BY <1>2 DEF Alike, Differ, Left, Removed

----------------------------------------------------------------------------
(* The operations keep the agreement of lists, parents and NPU. *)

SameNodes == \A z \in Nodes : tree'[z] = None <=> tree[z] = None

LEMMA NodeTypes ==
    ASSUME Typed(tree), NEW z \in Nodes, Exists(z)
    PROVE  /\ tree[z].parent \in Parents(z) /\ tree[z].children \subseteq Nodes
           /\ tree[z].ndi \in Objects \cup {None}
           /\ tree[z].parent # None => tree[z].parent \in Nodes
BY NodeFields, BelowNodes DEF Exists

LEMMA ParentIsNode ==
    ASSUME NEW x \in Nodes, NEW y \in Parents(x), y # None
    PROVE  y \in Nodes
BY AboveNodes DEF Parents

LEMMA MoveKeeps ==
    ASSUME CachedInv, moved' = moved, NEW x \in Nodes, NEW y \in Parents(x), Bound(x), Move(x, y)
    PROVE  CachedInv' /\ SameNodes
<1>1. /\ Typed(tree) /\ DbOK /\ NpuOK /\ offline \subseteq Nodes /\ preset \subseteq Queues
      /\ QueuesExist /\ AllLinked
  BY DEF CachedInv
<1>2. Exists(x) /\ tree[x] # None
  BY DEF Bound, Exists
<1>. DEFINE o == tree[x].ndi
<1>3. o \in Objects
  BY <1>1, <1>2, NodeTypes DEF Bound
<1>4. y # None => y \in Nodes /\ Exists(y)
  BY ParentIsNode DEF Move, Accepts
<1>5. /\ Typed(tree') /\ Alike(tree, tree')
      /\ \A z \in Nodes : tree[z] # None =>
            /\ tree'[z].parent = IF z = x THEN y ELSE tree[z].parent
            /\ \A w \in Nodes : w # x => (w \in tree'[z].children <=> w \in tree[z].children)
            /\ x \in tree'[z].children <=>
                  z = y \/ (z # tree[x].parent /\ x \in tree[z].children)
  <2>1. Shifted(tree, tree', x, y)
    BY <1>1, <1>2, MoveTree DEF Move, MovedTree
  <2>. QED BY <2>1 DEF Shifted
<1>6. SameNodes /\ \A z \in Nodes : tree[z] # None => tree'[z].ndi = tree[z].ndi
  BY <1>5 DEF SameNodes, Alike
<1>7. /\ npu' = [npu EXCEPT ![o] = NdiOf(y)]
      /\ db' = [db EXCEPT ![x] = <<y>>] /\ offline' = offline
      /\ preset' = preset \ {x}
  BY DEF Move
<1>8. NdiOf(y) \in Objects \cup {None}
  BY <1>1, <1>4, NodeTypes DEF NdiOf
<1>9. NpuOK' /\ DbOK' /\ QueuesExist' /\ offline' \subseteq Nodes /\ preset' \subseteq Queues
  <2>1. NpuOK'
    BY <1>1, <1>7, <1>8 DEF NpuOK
  <2>2. DbOK'
    BY <1>1, <1>7 DEF DbOK
  <2>3. QueuesExist'
    BY <1>1, <1>6, Levels DEF QueuesExist, Exists, SameNodes
  <2>. QED BY <2>1, <2>2, <2>3, <1>1, <1>7
<1>10. AllLinked'
  <2>1. ASSUME NEW z \in Nodes \ offline
        PROVE  Linked(z)'
    <3>1. Linked(z)
      BY <1>1 DEF AllLinked
    <3>2. ASSUME tree'[z] # None, z \notin preset', tree'[z].parent # None
          PROVE  LET q == tree'[z].parent IN tree'[q] # None /\ z \in tree'[q].children
      <4>1. tree[z] # None
        BY <1>6, <3>2 DEF SameNodes
      <4>2. CASE z = x
        BY <1>4, <1>5, <1>6, <3>2, <4>1, <4>2 DEF SameNodes, Exists
      <4>3. CASE z # x
        <5>1. tree'[z].parent = tree[z].parent /\ tree[z].parent \in Nodes
          BY <1>1, <1>5, <3>2, <4>1, <4>3, NodeTypes DEF Exists
        <5>2. Exists(tree[z].parent) /\ z \in tree[tree[z].parent].children
          BY <1>7, <3>1, <3>2, <4>1, <4>3, <5>1 DEF Linked, Exists
        <5>. QED BY <1>5, <1>6, <4>3, <5>1, <5>2 DEF SameNodes, Exists
      <4>. QED BY <4>2, <4>3
    <3>3. ASSUME NEW q \in Nodes, tree'[q] # None, z \in tree'[q].children
          PROVE  tree'[z] # None /\ z \notin preset' /\ tree'[z].parent = q
      <4>1. tree[q] # None
        BY <1>6, <3>3 DEF SameNodes
      <4>2. CASE z = x
        <5>1. q = y \/ (q # tree[x].parent /\ x \in tree[q].children)
          BY <1>5, <3>3, <4>1, <4>2
        <5>2. x \in tree[q].children => tree[x].parent = q
          BY <3>1, <4>1, <4>2 DEF Linked, Exists
        <5>. QED BY <1>2, <1>5, <1>6, <1>7, <4>2, <5>1, <5>2 DEF SameNodes
      <4>3. CASE z # x
        <5>1. z \in tree[q].children
          BY <1>5, <3>3, <4>1, <4>3
        <5>2. tree[z] # None /\ z \notin preset /\ tree[z].parent = q
          BY <3>1, <4>1, <5>1 DEF Linked, Exists
        <5>. QED BY <1>5, <1>6, <1>7, <4>3, <5>2 DEF SameNodes
      <4>. QED BY <4>2, <4>3
    <3>. QED BY <3>2, <3>3 DEF Linked, Exists
  <2>. QED BY <2>1, <1>7 DEF AllLinked
<1>11. ~moved' => Mirrored'
  <2>. SUFFICES ASSUME ~moved', NEW z \in Nodes, Bound(z)'
                PROVE  Mirrors(z)'
    BY DEF Mirrored
  <2>1. tree[z] # None /\ tree'[z].ndi = tree[z].ndi /\ Bound(z) /\ Mirrors(z)
    BY <1>6 DEF Bound, Exists, SameNodes, CachedInv, Mirrored
  <2>2. tree'[z].ndi[2] = z /\ z \notin preset'
    BY <1>7, <2>1 DEF Mirrors
  <2>3. ASSUME z \notin offline', NEW q, q = tree'[z].parent
        PROVE  npu'[tree'[z].ndi] = IF q = None THEN None ELSE tree'[q].ndi
    <3>1. CASE z = x
      <4>1. npu'[tree'[z].ndi] = NdiOf(y) /\ q = y
        BY <1>1, <1>3, <1>5, <1>7, <2>1, <2>3, <3>1 DEF NpuOK
      <4>. QED BY <4>1, <1>4, <1>6 DEF NdiOf, Exists
    <3>2. CASE z # x
      <4>1. tree[z].ndi # o
        BY <1>2, <1>3, <2>1, <3>2, NoneIsNew DEF Mirrors, Bound, CachedInv, Mirrored
      <4>2. tree[z].ndi \in Objects
        BY <1>1, <2>1, NodeTypes DEF Bound
      <4>3. npu'[tree'[z].ndi] = npu[tree[z].ndi]
        BY <1>1, <1>7, <2>1, <4>1, <4>2 DEF NpuOK
      <4>4. q = tree[z].parent
        BY <1>5, <2>1, <2>3, <3>2
      <4>5. npu[tree[z].ndi] = IF q = None THEN None ELSE tree[q].ndi
        BY <1>7, <2>1, <2>3, <4>4 DEF Mirrors
      <4>6. q # None => q \in Nodes /\ Exists(q)
        <5>1. Linked(z)
          BY <1>1, <1>7, <2>3 DEF AllLinked
        <5>. QED BY <1>1, <2>1, <4>4, <5>1, NodeTypes DEF Linked, Exists, Mirrors
      <4>. QED BY <1>6, <4>3, <4>5, <4>6 DEF Exists
    <3>. QED BY <3>1, <3>2
  <2>. QED BY <2>2, <2>3 DEF Mirrors
<1>. QED BY <1>5, <1>6, <1>9, <1>10, <1>11 DEF CachedInv

LEMMA MoveOfflineKeeps ==
    ASSUME CachedInv, moved' = moved, NEW x \in Nodes, NEW y \in Parents(x), Exists(x),
           MoveOffline(x, y)
    PROVE  CachedInv' /\ SameNodes
<1>1. /\ Typed(tree) /\ DbOK /\ NpuOK /\ offline \subseteq Nodes /\ preset \subseteq Queues
      /\ QueuesExist /\ AllLinked
  BY DEF CachedInv
<1>2. tree[x] # None
  BY DEF Exists
<1>3. /\ Typed(tree') /\ Alike(tree, tree')
      /\ \A z \in Nodes : tree[z] # None =>
            /\ tree'[z].parent = IF z = x THEN y ELSE tree[z].parent
            /\ tree'[z].children = tree[z].children
  <2>1. tree' = Reparent(tree, x, y)
    BY DEF MoveOffline
  <2>. QED BY <2>1, <1>1, <1>2, ReparentTree
<1>4. SameNodes /\ \A z \in Nodes : tree[z] # None => tree'[z].ndi = tree[z].ndi
  BY <1>3 DEF SameNodes, Alike
<1>5. /\ npu' = npu /\ db' = [db EXCEPT ![x] = <<y>>] /\ offline' = offline \cup {x}
      /\ preset' = preset
  BY DEF MoveOffline
<1>6. NpuOK' /\ DbOK' /\ QueuesExist' /\ offline' \subseteq Nodes /\ preset' \subseteq Queues
  <2>1. DbOK'
    BY <1>1, <1>5 DEF DbOK
  <2>2. QueuesExist'
    BY <1>1, <1>4, Levels DEF QueuesExist, Exists, SameNodes
  <2>. QED BY <2>1, <2>2, <1>1, <1>5 DEF NpuOK
<1>7. AllLinked'
  <2>1. ASSUME NEW z \in Nodes \ offline'
        PROVE  Linked(z)'
    <3>1. Linked(z) /\ z # x
      BY <1>1, <1>5 DEF AllLinked
    <3>2. tree[z] # None /\ tree[z].parent # None => tree[z].parent \in Nodes
      BY <1>1, NodeTypes DEF Exists
    <3>. QED BY <1>3, <1>4, <1>5, <3>1, <3>2 DEF Linked, Exists, SameNodes
  <2>. QED BY <2>1 DEF AllLinked
<1>8. ~moved' => Mirrored'
  <2>. SUFFICES ASSUME ~moved', NEW z \in Nodes, Bound(z)'
                PROVE  Mirrors(z)'
    BY DEF Mirrored
  <2>1. tree[z] # None /\ tree'[z].ndi = tree[z].ndi /\ Mirrors(z)
    BY <1>4 DEF Bound, Exists, SameNodes, CachedInv, Mirrored
  <2>2. ASSUME z \notin offline', NEW q, q = tree'[z].parent
        PROVE  npu'[tree'[z].ndi] = IF q = None THEN None ELSE tree'[q].ndi
    <3>1. q = tree[z].parent /\ z \notin offline /\ Linked(z)
      BY <1>1, <1>3, <1>5, <2>1, <2>2 DEF AllLinked
    <3>2. q # None => q \in Nodes /\ tree[q] # None
      BY <1>1, <2>1, <3>1, NodeTypes DEF Linked, Exists, Mirrors
    <3>. QED BY <1>4, <1>5, <2>1, <3>1, <3>2 DEF Mirrors
  <2>. QED BY <1>5, <2>1, <2>2 DEF Mirrors
<1>. QED BY <1>3, <1>4, <1>6, <1>7, <1>8 DEF CachedInv

LEMMA AddShape ==
    ASSUME Typed(tree), InterfaceOK, NEW s \in Spares, NEW y \in {Root, None},
           Creatable(s, y), Add(s, y), NEW o, o = <<intf, s>>
    PROVE  Added(tree, tree', s, y, o)
<1>1. s \in Nodes /\ s \in Groups /\ tree[s] = None /\ s # Root
  BY Levels DEF Creatable, Exists
<1>2. y \in Parents(s)
  BY <1>1, AboveNodes DEF Parents
<1>. DEFINE r == [parent |-> y, children |-> {}, ndi |-> o]
            t == [tree EXCEPT ![s] = r]
<1>3. t = [tree EXCEPT ![s] = r] /\ tree' = Join(t, s, y)
  BY DEF Add
<1>4. o \in Objects
  BY <1>1 DEF Creatable, InterfaceOK, Objects
<1>5. r \in Node(s) /\ r # None /\ r.parent = y /\ r.children = {} /\ r.ndi = o
  BY <1>1, <1>2, <1>4, RecordIsNode
<1>. HIDE DEF r, t
<1>6. t = [z \in Nodes |-> IF z = s THEN r ELSE tree[z]]
  BY <1>3 DEF Typed
<1>7. t[s] = r /\ \A z \in Nodes : z # s => t[z] = tree[z]
  BY <1>1, <1>6
<1>8. Differ(tree, t, s)
  BY <1>5, <1>6, <1>7 DEF Typed, Differ
<1>9. t[s] # None /\ t[s].parent = y /\ t[s].children = {} /\ t[s].ndi = o
  BY <1>5, <1>7
<1>. QED BY <1>1, <1>2, <1>3, <1>8, <1>9, AddTree

LEMMA AddKeeps ==
    ASSUME CachedInv, InterfaceOK, moved' = moved, NEW s \in Spares, NEW y \in {Root, None},
           Creatable(s, y), Add(s, y)
    PROVE  CachedInv' /\ Exists(s)'
           /\ \A z \in Nodes : Exists(z) => Exists(z)'
<1>1. /\ Typed(tree) /\ DbOK /\ NpuOK /\ offline \subseteq Nodes /\ preset \subseteq Queues
      /\ QueuesExist /\ AllLinked
  BY DEF CachedInv
<1>2. s \in Nodes /\ s \in Groups /\ tree[s] = None /\ s # Root
  BY Levels DEF Creatable, Exists
<1>3. y \in Parents(s) /\ s # y /\ (y # None => y \in Nodes /\ tree[y] # None)
  BY <1>2, Levels, AboveNodes, NoneIsNew DEF Parents, Creatable, Accepts, Exists
<1>. DEFINE o == <<intf, s>>
<1>4. /\ npu' = [npu EXCEPT ![o] = NdiOf(y)] /\ db' = db /\ offline' = offline /\ o[2] = s
      /\ preset' = preset /\ s \notin preset
  BY <1>1, <1>2, Levels DEF Add
<1>5. o \in Objects /\ Added(tree, tree', s, y, o)
  <2>1. o \in Objects
    BY <1>2 DEF Creatable, InterfaceOK, Objects
  <2>. QED BY <1>1, <2>1, AddShape
<1>. HIDE DEF o
<1>9. /\ Typed(tree') /\ tree'[s] # None /\ tree'[s].parent = y /\ tree'[s].ndi = o
      /\ \A w : w \notin tree'[s].children
      /\ \A z \in Nodes : z # s =>
            /\ tree'[z] = None <=> tree[z] = None
            /\ tree[z] # None =>
                  /\ tree'[z].parent = tree[z].parent /\ tree'[z].ndi = tree[z].ndi
                  /\ \A w : w \in tree'[z].children <=>
                              w \in tree[z].children \/ (z = y /\ w = s)
  BY <1>5 DEF Added
<1>10. NdiOf(y) \in Objects \cup {None}
  BY <1>1, <1>3, NodeTypes DEF NdiOf, Exists
<1>11. Exists(s)' /\ \A z \in Nodes : Exists(z) => Exists(z)'
  BY <1>9 DEF Exists
<1>12. NpuOK' /\ DbOK' /\ QueuesExist' /\ offline' \subseteq Nodes /\ preset' \subseteq Queues
  <2>1. NpuOK'
    BY <1>1, <1>4, <1>10 DEF NpuOK
  <2>2. QueuesExist'
    BY <1>1, <1>11, Levels DEF QueuesExist
  <2>. QED BY <2>1, <2>2, <1>1, <1>4 DEF DbOK
<1>13. AllLinked'
  <2>1. ASSUME NEW z \in Nodes \ offline'
        PROVE  Linked(z)'
    <3>1. Linked(z)
      BY <1>1, <1>4 DEF AllLinked
    <3>2. CASE z = s
      BY <1>2, <1>3, <1>4, <1>9, <3>1, <3>2 DEF Linked, Exists
    <3>3. CASE z # s
      <4>1. tree[z] # None => tree[z].parent \in Nodes \cup {None}
        BY <1>1, NodeTypes DEF Exists
      <4>2. tree[z] # None /\ z \notin preset => tree[z].parent # s
        BY <1>2, <3>1, NoneIsNew DEF Linked, Exists
      <4>. QED BY <1>4, <1>9, <3>1, <3>3, <4>1, <4>2 DEF Linked, Exists
    <3>. QED BY <3>2, <3>3
  <2>. QED BY <2>1 DEF AllLinked
<1>14. ~moved' => Mirrored'
  <2>. SUFFICES ASSUME ~moved', NEW z \in Nodes, Bound(z)'
                PROVE  Mirrors(z)'
    BY DEF Mirrored
  <2>1. CASE z = s
    <3>1. tree'[z].ndi = o /\ tree'[z].parent = y /\ npu'[o] = NdiOf(y)
      BY <1>1, <1>4, <1>5, <1>9, <2>1 DEF NpuOK
    <3>2. y # None => tree'[y].ndi = tree[y].ndi
      BY <1>3, <1>9
    <3>3. npu'[o] = IF y = None THEN None ELSE tree'[y].ndi
      BY <3>1, <3>2 DEF NdiOf
    <3>. QED BY <1>4, <2>1, <3>1, <3>3 DEF Mirrors
  <2>2. CASE z # s
    <3>1. tree[z] # None /\ tree'[z].ndi = tree[z].ndi /\ tree'[z].parent = tree[z].parent
      BY <1>9, <2>2 DEF Bound, Exists
    <3>2. Mirrors(z) /\ tree[z].ndi \in Objects /\ tree[z].ndi # o
      <4>1. Mirrors(z)
        BY <3>1 DEF CachedInv, Mirrored, Bound, Exists
      <4>. QED BY <1>1, <1>4, <2>2, <3>1, <4>1, NodeTypes DEF Mirrors, Bound, Exists
    <3>3. npu'[tree'[z].ndi] = npu[tree[z].ndi]
      BY <1>1, <1>4, <3>1, <3>2 DEF NpuOK
    <3>4. ASSUME z \notin offline', NEW q, q = tree'[z].parent
          PROVE  npu'[tree'[z].ndi] = IF q = None THEN None ELSE tree'[q].ndi
      <4>1. Linked(z) /\ q = tree[z].parent
        BY <1>1, <1>4, <3>1, <3>4 DEF AllLinked
      <4>2. q # None => q \in Nodes /\ tree[q] # None /\ q # s
        BY <1>1, <1>2, <3>1, <3>2, <4>1, NodeTypes DEF Linked, Exists, Mirrors
      <4>3. npu[tree[z].ndi] = IF q = None THEN None ELSE tree[q].ndi
        BY <1>4, <3>2, <3>4, <4>1 DEF Mirrors
      <4>4. q # None => tree'[q].ndi = tree[q].ndi
        BY <1>9, <4>2
      <4>. QED BY <3>3, <4>3, <4>4
    <3>. QED BY <1>4, <3>1, <3>2, <3>4 DEF Mirrors
  <2>. QED BY <2>1, <2>2
<1>. QED BY <1>9, <1>11, <1>12, <1>13, <1>14 DEF CachedInv

LEMMA RemoveShape ==
    ASSUME Typed(tree), NEW x \in Nodes, Exists(x), Remove(x), NEW p, p = tree[x].parent
    PROVE  Removed(tree, tree', x, p)
<1>1. tree[x] # None /\ p \in Nodes \cup {None}
  BY NodeTypes DEF Exists
<1>. DEFINE t == [tree EXCEPT ![x] = None]
<1>2. t = [tree EXCEPT ![x] = None] /\ tree' = Leave(t, x, p)
  BY DEF Remove
<1>. HIDE DEF t
<1>3. t = [z \in Nodes |-> IF z = x THEN None ELSE tree[z]]
  BY <1>2 DEF Typed
<1>4. t[x] = None /\ \A z \in Nodes : z # x => t[z] = tree[z]
  BY <1>3
<1>5. Differ(tree, t, x)
  BY <1>3, <1>4 DEF Typed, Differ
<1>. QED BY <1>1, <1>2, <1>4, <1>5, RemoveTree

LEMMA RemoveKeeps ==
    ASSUME CachedInv, moved' = moved, NEW x \in Groups \cup {Root}, Removable(x), Remove(x)
    PROVE  CachedInv'
<1>1. /\ Typed(tree) /\ DbOK /\ NpuOK /\ offline \subseteq Nodes /\ preset \subseteq Queues
      /\ QueuesExist /\ AllLinked
  BY DEF CachedInv
<1>2. x \in Nodes /\ x \notin Queues /\ tree[x] # None /\ tree[x].children = {}
  BY Levels DEF Removable, Exists
<1>3. /\ npu' = (IF Bound(x) THEN [npu EXCEPT ![tree[x].ndi] = Missing] ELSE npu)
      /\ db' = db /\ offline' = offline /\ preset' = preset
  BY DEF Remove
<1>5. PICK p \in Nodes \cup {None} : p = tree[x].parent
  BY <1>1, <1>2, NodeTypes DEF Exists
<1>7. /\ Typed(tree') /\ tree'[x] = None
      /\ \A z \in Nodes : z # x =>
            /\ tree'[z] = None <=> tree[z] = None
            /\ tree[z] # None =>
                  /\ tree'[z].parent = tree[z].parent /\ tree'[z].ndi = tree[z].ndi
                  /\ \A w : w \in tree'[z].children <=>
                              w \in tree[z].children /\ ~(z = p /\ w = x)
  <2>1. Removed(tree, tree', x, p)
    BY <1>1, <1>2, <1>5, RemoveShape DEF Exists
  <2>. QED BY <2>1 DEF Removed
<1>8. NpuOK' /\ DbOK' /\ QueuesExist' /\ offline' \subseteq Nodes /\ preset' \subseteq Queues
  <2>1. NpuOK'
    BY <1>1, <1>3 DEF NpuOK
  <2>2. QueuesExist'
    BY <1>1, <1>2, <1>7, Levels DEF QueuesExist, Exists
  <2>. QED BY <2>1, <2>2, <1>1, <1>3 DEF DbOK
<1>9. AllLinked'
  <2>1. ASSUME NEW z \in Nodes \ offline'
        PROVE  Linked(z)'
    <3>1. Linked(z)
      BY <1>1, <1>3 DEF AllLinked
    <3>2. CASE z = x
      <4>1. ASSUME NEW y \in Nodes, tree'[y] # None, x \in tree'[y].children
            PROVE  FALSE
        <5>1. tree[y] # None /\ x \in tree[y].children /\ y # p
          BY <1>7, <4>1
        <5>. QED BY <1>5, <3>1, <3>2, <5>1 DEF Linked, Exists
      <4>. QED BY <1>7, <3>2, <4>1 DEF Linked, Exists
    <3>3. CASE z # x
      <4>1. tree[z] # None => tree[z].parent \in Nodes \cup {None}
        BY <1>1, NodeTypes DEF Exists
      <4>2. tree[z] # None /\ z \notin preset => tree[z].parent # x
        BY <1>2, <3>1, NoneIsNew DEF Linked, Exists
      <4>. QED BY <1>3, <1>7, <3>1, <3>3, <4>1, <4>2 DEF Linked, Exists
    <3>. QED BY <3>2, <3>3
  <2>. QED BY <2>1 DEF AllLinked
<1>10. ~moved' => Mirrored'
  <2>. SUFFICES ASSUME ~moved', NEW z \in Nodes, Bound(z)'
                PROVE  Mirrors(z)'
    BY DEF Mirrored
  <2>1. z # x /\ tree[z] # None /\ tree'[z].ndi = tree[z].ndi /\ tree'[z].parent = tree[z].parent
    BY <1>7 DEF Bound, Exists
  <2>2. Bound(z) /\ Mirrors(z) /\ tree[z].ndi \in Objects
    <3>1. Bound(z)
      BY <2>1 DEF Bound, Exists
    <3>. QED BY <1>1, <3>1, NodeTypes DEF CachedInv, Mirrored, Bound
  <2>3. Bound(x) => tree[x].ndi # tree[z].ndi
    BY <1>2, <2>1, <2>2 DEF CachedInv, Mirrored, Mirrors
  <2>4. npu'[tree'[z].ndi] = npu[tree[z].ndi]
    BY <1>1, <1>3, <2>1, <2>2, <2>3 DEF NpuOK
  <2>5. ASSUME z \notin offline', NEW q, q = tree'[z].parent
        PROVE  npu'[tree'[z].ndi] = IF q = None THEN None ELSE tree'[q].ndi
    <3>1. Linked(z) /\ q = tree[z].parent
      BY <1>1, <1>3, <2>1, <2>5 DEF AllLinked
    <3>2. q # None => q \in Nodes /\ tree[q] # None /\ q # x
      BY <1>1, <1>2, <2>1, <2>2, <3>1, NodeTypes DEF Linked, Exists, Mirrors
    <3>3. npu[tree[z].ndi] = IF q = None THEN None ELSE tree[q].ndi
      BY <1>3, <2>2, <2>5, <3>1 DEF Mirrors
    <3>4. q # None => tree'[q].ndi = tree[q].ndi
      BY <1>7, <3>2
    <3>. QED BY <2>4, <3>3, <3>4
  <2>. QED BY <1>3, <2>1, <2>2, <2>5 DEF Mirrors
<1>. QED BY <1>7, <1>8, <1>9, <1>10 DEF CachedInv

LEMMA SameKeeps ==
    ASSUME CachedInv, UNCHANGED cached, moved' = moved
    PROVE  CachedInv' /\ SameNodes
<1>1. CachedInv'
  BY DEF CachedInv, cached, Typed, DbOK, NpuOK, QueuesExist, AllLinked, Linked, Mirrored,
         Mirrors, Bound, Exists
<1>. QED BY <1>1 DEF cached, SameNodes

\* The parents and lists stay; some nodes lose their object.
LEMMA UnbindKeeps ==
    ASSUME CachedInv, Disassociate
    PROVE  CachedInv'
<1>1. /\ Typed(tree) /\ DbOK /\ NpuOK /\ offline \subseteq Nodes /\ preset \subseteq Queues
      /\ QueuesExist /\ AllLinked
  BY DEF CachedInv
<1>2. tree' = [x \in Nodes |-> IF x \in Queues \cup Groups /\ Exists(x)
                               THEN Bind(x, None) ELSE tree[x]]
  BY DEF Disassociate
<1>3. /\ db' = db /\ npu' = npu /\ offline' = offline /\ preset' = preset
      /\ moved' = moved
  BY DEF Disassociate
<1>4. ASSUME NEW z \in Nodes
      PROVE  /\ tree'[z] \in Node(z) \cup {None} /\ (tree'[z] = None <=> tree[z] = None)
             /\ tree[z] # None => /\ tree'[z].parent = tree[z].parent
                                  /\ tree'[z].children = tree[z].children
             /\ z = Root => tree'[z] = tree[z]
             /\ z # Root /\ tree[z] # None => tree'[z].ndi = None
  <2>1. CASE z \in Queues \cup Groups /\ Exists(z)
    <3>1. tree'[z] = [parent |-> tree[z].parent, children |-> tree[z].children, ndi |-> None]
      BY <1>2, <2>1 DEF Bind
    <3>2. tree'[z] \in Node(z) /\ tree'[z] # None
      BY <1>1, <2>1, <3>1, NodeFields, RecordIsNode DEF Exists
    <3>. QED BY <2>1, <3>1, <3>2, Levels DEF Exists
  <2>2. CASE ~(z \in Queues \cup Groups /\ Exists(z))
    BY <1>1, <1>2, <2>2 DEF Typed, Exists, Nodes
  <2>. QED BY <2>1, <2>2
<1>5. Typed(tree')
  BY <1>2, <1>4 DEF Typed
<1>6. NpuOK' /\ DbOK' /\ QueuesExist'
  BY <1>1, <1>3, <1>4, Levels DEF NpuOK, DbOK, QueuesExist, Exists
<1>7. AllLinked'
  <2>1. ASSUME NEW z \in Nodes \ offline'
        PROVE  Linked(z)'
    <3>1. Linked(z)
      BY <1>1, <1>3 DEF AllLinked
    <3>2. tree[z] # None => tree[z].parent \in Nodes \cup {None}
      BY <1>1, NodeTypes DEF Exists
    <3>. QED BY <1>3, <1>4, <3>1, <3>2 DEF Linked, Exists
  <2>. QED BY <2>1 DEF AllLinked
<1>8. ~moved' => Mirrored'
  <2>. SUFFICES ASSUME ~moved', NEW z \in Nodes, Bound(z)'
                PROVE  Mirrors(z)'
    BY DEF Mirrored
  <2>1. z = Root /\ tree'[z] = tree[z] /\ tree[z] # None /\ Bound(z)
    BY <1>4 DEF Bound, Exists
  <2>2. tree[z].parent = None
    BY <1>1, <2>1, NodeTypes, AboveNodes DEF Exists, Parents
  <2>3. Mirrors(z)
    BY <1>3, <2>1 DEF CachedInv, Mirrored
  <2>. QED BY <1>3, <2>1, <2>2, <2>3 DEF Mirrors
<1>. QED BY <1>1, <1>3, <1>5, <1>6, <1>7, <1>8 DEF CachedInv

\* Some nodes are bound to an object of the NPU.
LEMMA BindKeeps ==
    ASSUME CachedInv, moved', db' = db, npu' = npu, offline' = offline, preset' = preset,
           tree' = [z \in Nodes |-> tree'[z]],
           \A z \in Nodes : \/ tree'[z] = tree[z]
                            \/ tree[z] # None /\ \E o \in Objects : tree'[z] = Bind(z, o)
    PROVE  CachedInv' /\ SameNodes
<1>1. /\ Typed(tree) /\ DbOK /\ NpuOK /\ offline \subseteq Nodes /\ preset \subseteq Queues
      /\ QueuesExist /\ AllLinked
  BY DEF CachedInv
<1>2. ASSUME NEW z \in Nodes
      PROVE  /\ tree'[z] \in Node(z) \cup {None} /\ (tree'[z] = None <=> tree[z] = None)
             /\ tree[z] # None => /\ tree'[z].parent = tree[z].parent
                                  /\ tree'[z].children = tree[z].children
  <2>1. CASE tree'[z] = tree[z]
    BY <1>1, <2>1 DEF Typed
  <2>2. CASE tree[z] # None /\ \E o \in Objects : tree'[z] = Bind(z, o)
    <3>1. PICK o \in Objects :
             tree'[z] = [parent |-> tree[z].parent, children |-> tree[z].children, ndi |-> o]
      BY <2>2 DEF Bind
    <3>2. tree'[z] \in Node(z) /\ tree'[z] # None
      BY <1>1, <2>2, <3>1, NodeFields, RecordIsNode
    <3>. QED BY <2>2, <3>1, <3>2
  <2>. QED BY <2>1, <2>2
<1>3. Typed(tree') /\ SameNodes
  BY <1>2 DEF Typed, SameNodes
<1>4. NpuOK' /\ DbOK' /\ QueuesExist'
  BY <1>1, <1>2, Levels DEF NpuOK, DbOK, QueuesExist, Exists
<1>5. AllLinked'
  <2>1. ASSUME NEW z \in Nodes \ offline'
        PROVE  Linked(z)'
    <3>1. Linked(z)
      BY <1>1 DEF AllLinked
    <3>2. tree[z] # None => tree[z].parent \in Nodes \cup {None}
      BY <1>1, NodeTypes DEF Exists
    <3>. QED BY <1>2, <3>1, <3>2 DEF Linked, Exists
  <2>. QED BY <2>1 DEF AllLinked
<1>. QED BY <1>1, <1>3, <1>4, <1>5 DEF CachedInv

----------------------------------------------------------------------------
(* One lemma for each action. *)

\* A request or an undo: the mutex is free and nothing but the tree and tx changes.
LEMMA PortStays ==
    ASSUME IInv, assoc = NoAssoc, UNCHANGED port, requests' \in Nat, TxOK', CachedInv'
    PROVE  IInv'
<1>1. InterfaceOK' /\ AssocOK' /\ moved' = moved /\ assoc' = NoAssoc
  BY DEF IInv, InterfaceOK, AssocOK, port
<1>2. WaitingExist'
  BY <1>1 DEF WaitingExist, NoAssoc
<1>. QED BY <1>1, <1>2 DEF IInv

LEMMA TxGrows ==
    ASSUME TxOK, NEW c \in Clients, NEW s \in Saved,
           tx' = [tx EXCEPT ![c] = [phase |-> "open", prev |-> tx[c].prev \o <<s>>]]
    PROVE  TxOK'
<1>1. tx[c].prev \in Seq(Saved)
  BY DEF TxOK, Transactions
<1>2. tx[c].prev \o <<s>> \in Seq(Saved)
  BY <1>1
<1>3. [phase |-> "open", prev |-> tx[c].prev \o <<s>>] \in Transactions
  BY <1>2 DEF Transactions
<1>. QED BY <1>3 DEF TxOK

LEMMA TxFails ==
    ASSUME TxOK, NEW c \in Clients,
           tx' = [tx EXCEPT ![c] = [phase |-> "undo", prev |-> tx[c].prev]]
    PROVE  TxOK'
<1>1. [phase |-> "undo", prev |-> tx[c].prev] \in Transactions
  BY DEF TxOK, Transactions
<1>. QED BY <1>1 DEF TxOK

LEMMA FailedKeeps ==
    ASSUME IInv, assoc = NoAssoc, NEW c \in Clients, UNCHANGED cached, Failed(c)
    PROVE  IInv'
<1>1. UNCHANGED port /\ requests' = requests /\ moved' = moved
      /\ tx' = [tx EXCEPT ![c] = [phase |-> "undo", prev |-> tx[c].prev]]
  BY DEF Failed, port
<1>2. TxOK' /\ CachedInv' /\ requests' \in Nat
  BY <1>1, TxFails, SameKeeps DEF IInv, InterfaceOK
<1>. QED BY <1>1, <1>2, PortStays

LEMMA SetParentKeeps ==
    ASSUME IInv, NEW c \in Clients, NEW x \in Nodes, NEW y \in Parents(x), SetParent(c, x, y)
    PROVE  IInv'
<1>1. CachedInv /\ TxOK /\ assoc = NoAssoc /\ requests \in Nat /\ Typed(tree)
  BY DEF IInv, CachedInv, InterfaceOK, SetParent, Ready
<1>2. CASE /\ Settable(x) /\ Live(x) /\ Move(x, y)
           /\ Done(c, <<[op |-> "set", node |-> x, parent |-> tree[x].parent]>>)
  <2>. DEFINE s == [op |-> "set", node |-> x, parent |-> tree[x].parent]
  <2>1. Bound(x) /\ Exists(x)
    BY <1>2 DEF Live, Bound
  <2>2. s \in Saved
    BY <1>1, <2>1, NodeTypes DEF Saved, Step
  <2>3. /\ UNCHANGED port /\ requests' = requests + 1 /\ moved' = moved
        /\ tx' = [tx EXCEPT ![c] = [phase |-> "open", prev |-> tx[c].prev \o <<s>>]]
    BY <1>2 DEF Done, port
  <2>. HIDE DEF s
  <2>4. TxOK'
    BY <1>1, <2>2, <2>3, TxGrows
  <2>5. CachedInv'
    BY <1>1, <1>2, <2>1, <2>3, MoveKeeps
  <2>. QED BY <1>1, <2>3, <2>4, <2>5, PortStays
<1>3. CASE Settable(x) /\ ~Live(x) /\ MoveOffline(x, y) /\ Done(c, <<>>)
  <2>1. /\ UNCHANGED port /\ requests' = requests + 1 /\ moved' = moved
        /\ tx' = [tx EXCEPT ![c] = [phase |-> "open", prev |-> tx[c].prev \o <<>>]]
    BY <1>3 DEF Done, port
  <2>2. CachedInv'
    BY <1>1, <1>3, <2>1, MoveOfflineKeeps DEF Settable
  <2>3. TxOK'
    <3>1. tx[c].prev \o <<>> \in Seq(Saved)
      BY <1>1 DEF TxOK, Transactions
    <3>2. [phase |-> "open", prev |-> tx[c].prev \o <<>>] \in Transactions
      BY <3>1 DEF Transactions
    <3>. QED BY <1>1, <2>1, <3>2 DEF TxOK
  <2>. QED BY <1>1, <2>1, <2>2, <2>3, PortStays
<1>4. CASE Failed(c) /\ UNCHANGED cached
  BY <1>1, <1>4, FailedKeeps
<1>. QED BY <1>2, <1>3, <1>4 DEF SetParent, MoveFails

LEMMA CreateKeeps ==
    ASSUME IInv, NEW c \in Clients, NEW x \in Spares, NEW y \in {Root, None}, Create(c, x, y)
    PROVE  IInv'
<1>1. CachedInv /\ InterfaceOK /\ TxOK /\ assoc = NoAssoc /\ requests \in Nat
  BY DEF IInv, InterfaceOK, Create, Ready
<1>2. CASE /\ Creatable(x, y) /\ Add(x, y)
           /\ Done(c, <<[op |-> "create", node |-> x, parent |-> y]>>)
  <2>. DEFINE s == [op |-> "create", node |-> x, parent |-> y]
  <2>1. s \in Saved
    BY Levels DEF Saved, Step
  <2>2. /\ UNCHANGED port /\ requests' = requests + 1 /\ moved' = moved
        /\ tx' = [tx EXCEPT ![c] = [phase |-> "open", prev |-> tx[c].prev \o <<s>>]]
    BY <1>2 DEF Done, port
  <2>. HIDE DEF s
  <2>3. TxOK'
    BY <1>1, <2>1, <2>2, TxGrows
  <2>4. CachedInv'
    BY <1>1, <1>2, <2>2, AddKeeps
  <2>. QED BY <1>1, <2>2, <2>3, <2>4, PortStays
<1>3. CASE UNCHANGED cached /\ Failed(c)
  BY <1>1, <1>3, FailedKeeps
<1>. QED BY <1>2, <1>3 DEF Create, Refused

LEMMA DeleteKeeps ==
    ASSUME IInv, NEW c \in Clients, NEW x \in Groups \cup {Root}, Delete(c, x)
    PROVE  IInv'
<1>1. CachedInv /\ TxOK /\ assoc = NoAssoc /\ requests \in Nat /\ Typed(tree) /\ x \in Nodes
  BY Levels DEF IInv, CachedInv, InterfaceOK, Delete, Ready
<1>2. CASE /\ Removable(x) /\ Remove(x)
           /\ Done(c, <<[op |-> "delete", node |-> x, parent |-> tree[x].parent]>>)
  <2>. DEFINE s == [op |-> "delete", node |-> x, parent |-> tree[x].parent]
  <2>1. s \in Saved
    BY <1>1, <1>2, NodeTypes DEF Saved, Step, Removable
  <2>2. /\ UNCHANGED port /\ requests' = requests + 1 /\ moved' = moved
        /\ tx' = [tx EXCEPT ![c] = [phase |-> "open", prev |-> tx[c].prev \o <<s>>]]
    BY <1>2 DEF Done, port
  <2>. HIDE DEF s
  <2>3. TxOK'
    BY <1>1, <2>1, <2>2, TxGrows
  <2>4. CachedInv'
    BY <1>1, <1>2, <2>2, RemoveKeeps
  <2>. QED BY <1>1, <2>2, <2>3, <2>4, PortStays
<1>3. CASE UNCHANGED cached /\ Failed(c)
  BY <1>1, <1>3, FailedKeeps
<1>. QED BY <1>2, <1>3 DEF Delete, Refused

LEMMA UndoKeeps ==
    ASSUME IInv, NEW c \in Clients, Undo(c)
    PROVE  IInv'
<1>1. /\ CachedInv /\ TxOK /\ assoc = NoAssoc /\ requests \in Nat
      /\ UNCHANGED port /\ requests' = requests /\ moved' = moved
  BY DEF IInv, InterfaceOK, Undo, port
<1>. DEFINE p == tx[c].prev
            s == p[Len(p)]
<1>2. p \in Seq(Saved) /\ p # <<>>
  BY <1>1 DEF TxOK, Transactions, Undo
<1>3. s \in Saved
  BY <1>2
<1>4. s \in Step /\ (s.op = "set" => s.parent \in Parents(s.node))
      /\ (s.op = "create" => s.node \in Spares)
  BY <1>3 DEF Saved
<1>5. s.node \in Nodes
  BY <1>4 DEF Step
<1>6. TxOK'
  <2>1. SubSeq(p, 1, Len(p) - 1) \in Seq(Saved)
    BY <1>2
  <2>2. [phase |-> "undo", prev |-> SubSeq(p, 1, Len(p) - 1)] \in Transactions
    BY <2>1 DEF Transactions
  <2>3. tx' = [tx EXCEPT ![c] = [phase |-> "undo", prev |-> SubSeq(p, 1, Len(p) - 1)]]
    BY DEF Undo
  <2>. QED BY <1>1, <2>2, <2>3 DEF TxOK
<1>7. UndoSet(s) \/ UndoCreate(s) \/ UndoFails(s)
  BY DEF Undo
<1>. HIDE DEF p, s
<1>8. CachedInv'
  <2>1. CASE UNCHANGED cached
    BY <1>1, <2>1, SameKeeps
  <2>2. CASE s.op = "set" /\ Live(s.node) /\ Move(s.node, s.parent)
    <3>1. PICK x \in Nodes, y \in Parents(s.node) : x = s.node /\ y = s.parent
      BY <1>4, <1>5, <2>2
    <3>2. y \in Parents(x) /\ Bound(x) /\ Move(x, y)
      BY <2>2, <3>1 DEF Live
    <3>. QED BY <1>1, <3>2, MoveKeeps
  <2>3. CASE s.op = "set" /\ Settable(s.node) /\ MoveOffline(s.node, s.parent)
    <3>1. PICK x \in Nodes, y \in Parents(s.node) : x = s.node /\ y = s.parent
      BY <1>4, <1>5, <2>3
    <3>2. y \in Parents(x) /\ Exists(x) /\ MoveOffline(x, y)
      BY <2>3, <3>1 DEF Settable
    <3>. QED BY <1>1, <3>2, MoveOfflineKeeps
  <2>4. CASE s.op = "create" /\ Removable(s.node) /\ Remove(s.node)
    <3>1. PICK x \in Groups : x = s.node
      BY <1>4, <2>4, Levels
    <3>2. Removable(x) /\ Remove(x)
      BY <2>4, <3>1
    <3>. QED BY <1>1, <3>2, RemoveKeeps
  <2>. QED BY <1>7, <2>1, <2>2, <2>3, <2>4 DEF UndoSet, UndoCreate, UndoFails, Refused, MoveFails
<1>. QED BY <1>1, <1>6, <1>8, PortStays

LEMMA EndKeeps ==
    ASSUME IInv, NEW c \in Clients, End(c)
    PROVE  IInv'
<1>1. Idle \in Transactions
  BY DEF Idle, Transactions
<1>2. TxOK'
  BY <1>1 DEF End, IInv, TxOK
<1>3. UNCHANGED cached /\ UNCHANGED port /\ requests' = requests /\ moved' = moved
  BY DEF End, port
<1>4. CachedInv'
  BY <1>3, SameKeeps DEF IInv
<1>5. InterfaceOK' /\ AssocOK' /\ WaitingExist' /\ (~moved => assoc = NoAssoc)'
  BY <1>3 DEF IInv, InterfaceOK, AssocOK, WaitingExist, port, cached, Exists
<1>. QED BY <1>2, <1>4, <1>5 DEF IInv

LEMMA ChangeKeeps ==
    ASSUME IInv, NEW v \in NpuPorts \cup {None}, NEW e \in [op : {"add", "remove"}, npu : NpuPorts],
           Change(v, e)
    PROVE  IInv'
<1>1. /\ UNCHANGED cached /\ assoc' = assoc /\ moved' = moved /\ tx' = tx
      /\ requests' = requests /\ changes' = changes + 1 /\ intf' = v /\ events' = Append(events, e)
  BY DEF Change
<1>2. events' \in Seq([op : {"add", "remove"}, npu : NpuPorts])
  BY <1>1 DEF IInv, InterfaceOK
<1>3. CachedInv'
  BY <1>1, SameKeeps DEF IInv
<1>4. InterfaceOK' /\ AssocOK' /\ TxOK' /\ WaitingExist' /\ (~moved => assoc = NoAssoc)'
  BY <1>1, <1>2 DEF IInv, InterfaceOK, AssocOK, TxOK, WaitingExist, cached, Exists
<1>. QED BY <1>3, <1>4 DEF IInv

LEMMA DisassociateKeeps ==
    ASSUME IInv, Disassociate
    PROVE  IInv'
<1>1. CachedInv'
  BY UnbindKeeps DEF IInv
<1>2. /\ events # <<>> /\ events' = Tail(events) /\ assoc = NoAssoc /\ assoc' = assoc
      /\ intf' = intf /\ changes' = changes /\ requests' = requests /\ moved' = moved /\ tx' = tx
  BY DEF Disassociate
<1>3. events' \in Seq([op : {"add", "remove"}, npu : NpuPorts])
  BY <1>2 DEF IInv, InterfaceOK
<1>4. InterfaceOK' /\ AssocOK' /\ TxOK' /\ WaitingExist' /\ (~moved => assoc = NoAssoc)'
  BY <1>2, <1>3 DEF IInv, InterfaceOK, AssocOK, TxOK, WaitingExist, NoAssoc
<1>. QED BY <1>1, <1>4 DEF IInv

LEMMA AssociateKeeps ==
    ASSUME IInv, Associate
    PROVE  IInv'
<1>. DEFINE n == Head(events).npu
<1>1. /\ events # <<>> /\ events' = Tail(events) /\ moved' = TRUE
      /\ db' = db /\ npu' = npu /\ offline' = offline /\ preset' = preset
      /\ intf' = intf /\ changes' = changes /\ requests' = requests /\ tx' = tx
      /\ tree' = [x \in Nodes |-> IF x \in Queues THEN Bind(x, <<n, x>>) ELSE tree[x]]
      /\ assoc' = [npu |-> n, queues |-> {x \in Queues : db[x] # <<>>},
                   groups |-> {g \in Groups : npu[<<n, g>>] # Missing}]
  BY DEF Associate
<1>2. n \in NpuPorts /\ events' \in Seq([op : {"add", "remove"}, npu : NpuPorts])
  <2>1. events \in Seq([op : {"add", "remove"}, npu : NpuPorts]) /\ events # <<>>
    BY <1>1 DEF IInv, InterfaceOK
  <2>2. Head(events) \in [op : {"add", "remove"}, npu : NpuPorts]
        /\ Tail(events) \in Seq([op : {"add", "remove"}, npu : NpuPorts])
    BY <2>1, HeadTailProperties, Zenon
  <2>. QED BY <1>1, <2>2
<1>. HIDE DEF n
<1>3. ASSUME NEW z \in Nodes
      PROVE  \/ tree'[z] = tree[z]
             \/ tree[z] # None /\ \E o \in Objects : tree'[z] = Bind(z, o)
  <2>1. CASE z \in Queues
    <3>1. tree[z] # None
      BY <2>1 DEF IInv, CachedInv, QueuesExist, Exists
    <3>2. <<n, z>> \in Objects /\ tree'[z] = Bind(z, <<n, z>>)
      BY <1>1, <1>2, <2>1 DEF Objects
    <3>. QED BY <3>1, <3>2
  <2>2. CASE z \notin Queues
    BY <1>1, <2>2
  <2>. QED BY <2>1, <2>2
<1>4. tree' = [z \in Nodes |-> tree'[z]]
  BY <1>1
<1>5. CachedInv' /\ SameNodes
  BY <1>1, <1>3, <1>4, BindKeeps DEF IInv
<1>6. WaitingExist'
  BY <1>1, <1>5, Levels DEF WaitingExist, CachedInv, QueuesExist
<1>7. AssocOK' /\ InterfaceOK' /\ TxOK'
  BY <1>1, <1>2, Levels DEF IInv, AssocOK, InterfaceOK, TxOK
<1>. QED BY <1>1, <1>5, <1>6, <1>7 DEF IInv

LEMMA ReplayKeeps ==
    ASSUME IInv, NEW x \in Nodes, ReplayQueue(x)
    PROVE  IInv'
<1>1. /\ x \in assoc.queues /\ Replay(x, db[x][1])
      /\ assoc' = [npu |-> assoc.npu, queues |-> assoc.queues \ {x}, groups |-> assoc.groups]
      /\ intf' = intf /\ changes' = changes /\ events' = events /\ moved' = moved
      /\ requests' = requests /\ tx' = tx
  BY DEF ReplayQueue
<1>2. CachedInv /\ Exists(x) /\ db[x][1] \in Parents(x)
  BY <1>1 DEF IInv, WaitingExist, CachedInv, DbOK
<1>3. CachedInv' /\ SameNodes
  BY <1>1, <1>2, MoveKeeps, MoveOfflineKeeps, SameKeeps DEF Replay, Live, MoveFails
<1>4. moved
  BY <1>1 DEF IInv, NoAssoc
<1>5. \A z \in Nodes : db[z] # <<>> => db'[z] # <<>>
  <2>1. db' = db \/ db' = [db EXCEPT ![x] = <<db[x][1]>>]
    BY <1>1 DEF Replay, Move, MoveOffline, MoveFails, cached
  <2>. QED BY <1>2, <2>1 DEF CachedInv, DbOK
<1>6. WaitingExist'
  BY <1>1, <1>3, <1>5 DEF IInv, WaitingExist, SameNodes, Exists
<1>7. AssocOK' /\ InterfaceOK' /\ TxOK'
  BY <1>1 DEF IInv, AssocOK, InterfaceOK, TxOK
<1>. QED BY <1>1, <1>3, <1>4, <1>6, <1>7 DEF IInv

LEMMA BindGroupKeeps ==
    ASSUME IInv, NEW g \in Groups, BindGroup(g)
    PROVE  IInv'
<1>1. /\ assoc.queues = {} /\ g \in assoc.groups
      /\ db' = db /\ npu' = npu /\ offline' = offline /\ preset' = preset /\ moved' = moved
      /\ intf' = intf /\ changes' = changes /\ events' = events
      /\ requests' = requests /\ tx' = tx
  BY DEF BindGroup
<1>2. moved
  BY <1>1 DEF IInv, NoAssoc
<1>3. InterfaceOK' /\ TxOK' /\ CachedInv /\ AssocOK
  BY <1>1 DEF IInv, InterfaceOK, TxOK
<1>. DEFINE o == <<assoc.npu, g>>
<1>4. CASE \E h \in Recognised(o) :
              /\ tree' = [tree EXCEPT ![h] = Bind(h, o)]
              /\ assoc' = [npu |-> assoc.npu, queues |-> IF db[h] = <<>> THEN {} ELSE {h},
                           groups |-> assoc.groups \ {g}]
  <2>1. PICK h \in Recognised(o) :
              /\ tree' = [tree EXCEPT ![h] = Bind(h, o)]
              /\ assoc' = [npu |-> assoc.npu, queues |-> IF db[h] = <<>> THEN {} ELSE {h},
                           groups |-> assoc.groups \ {g}]
    BY <1>4
  <2>2. h \in Nodes /\ tree[h] # None
    BY Levels DEF Recognised, Exists
  <2>3. o \in Objects
    <3>1. assoc.npu \in NpuPorts
      BY <1>3, <1>1 DEF IInv, AssocOK, Associate
    <3>. QED BY <3>1, Levels DEF Objects
  <2>. HIDE DEF o
  <2>4. tree = [z \in Nodes |-> tree[z]]
    BY <1>3 DEF CachedInv, Typed
  <2>5. tree' = [z \in Nodes |-> IF z = h THEN Bind(h, o) ELSE tree[z]]
    BY <2>1, <2>4
  <2>6. tree' = [z \in Nodes |-> tree'[z]]
    BY <2>5
  <2>7. \A z \in Nodes : \/ tree'[z] = tree[z]
                         \/ tree[z] # None /\ \E b \in Objects : tree'[z] = Bind(z, b)
    BY <2>2, <2>3, <2>5
  <2>8. CachedInv' /\ SameNodes
    BY <1>1, <1>2, <1>3, <2>6, <2>7, BindKeeps
  <2>9. WaitingExist'
    BY <1>1, <2>1, <2>2, <2>8 DEF WaitingExist, SameNodes, Exists
  <2>10. AssocOK'
    BY <1>3, <2>1, <2>2 DEF AssocOK
  <2>. QED BY <1>1, <1>2, <1>3, <2>8, <2>9, <2>10 DEF IInv
<1>5. CASE /\ assoc' = [npu |-> assoc.npu, queues |-> {}, groups |-> assoc.groups \ {g}]
           /\ UNCHANGED tree
  <2>1. CachedInv'
    BY <1>1, <1>3, <1>5, SameKeeps DEF cached
  <2>2. WaitingExist' /\ AssocOK'
    BY <1>3, <1>5 DEF WaitingExist, AssocOK
  <2>. QED BY <1>1, <1>2, <1>3, <2>1, <2>2 DEF IInv
<1>. QED BY <1>4, <1>5 DEF BindGroup

LEMMA FinishKeeps ==
    ASSUME IInv, Finish
    PROVE  IInv'
<1>1. /\ assoc' = NoAssoc /\ UNCHANGED cached /\ moved' = moved /\ intf' = intf
      /\ changes' = changes /\ events' = events /\ requests' = requests /\ tx' = tx
  BY DEF Finish
<1>2. CachedInv'
  BY <1>1, SameKeeps DEF IInv
<1>3. WaitingExist' /\ AssocOK' /\ InterfaceOK' /\ TxOK'
  BY <1>1 DEF IInv, WaitingExist, AssocOK, NoAssoc, InterfaceOK, TxOK
<1>. QED BY <1>1, <1>2, <1>3 DEF IInv

----------------------------------------------------------------------------
(* The initial states. *)

LEMMA DefaultParents ==
    ASSUME NEW x \in Nodes \ Spares
    PROVE  /\ DefaultParent(x) \in Parents(x)
           /\ DefaultParent(x) # None => DefaultParent(x) \in Nodes \ Spares
           /\ DefaultParent(x) = None <=> x = Root
<1>1. AutoGroups \cap Spares = {}
  BY Sizes DEF AutoGroups, Spares
<1>2. CASE x \in Queues
  <2>1. <<"group", x[2]>> \in AutoGroups
    BY <1>2 DEF Queues, AutoGroups
  <2>. QED BY <1>1, <1>2, <2>1, Levels, NoneIsNew DEF DefaultParent, Parents, Above, Nodes
<1>3. CASE x \in AutoGroups
  BY <1>1, <1>3, Levels, NoneIsNew DEF DefaultParent, Parents, Above, Nodes
<1>4. CASE x = Root
  BY <1>4, Levels DEF DefaultParent, Parents, Above
<1>5. Groups = AutoGroups \cup Spares
  BY DEF Groups
<1>. QED BY <1>2, <1>3, <1>4, <1>5 DEF Nodes

LEMMA VirtualStart ==
    ASSUME tree = VirtualTree, offline = {}, preset = Queues
    PROVE  Typed(tree) /\ QueuesExist /\ AllLinked /\ Mirrored
<1>1. ASSUME NEW z \in Nodes
      PROVE  IF z \in Spares \cup {Root} THEN tree[z] = None
             ELSE /\ tree[z].parent = IF z \in Queues THEN DefaultParent(z) ELSE None
                  /\ tree[z].children = {} /\ tree[z].ndi = None
                  /\ tree[z] \in Node(z) /\ tree[z] # None
  <2>. DEFINE q == IF z \in Queues THEN DefaultParent(z) ELSE None
  <2>1. tree[z] = IF z \in Spares \cup {Root} THEN None
                  ELSE [parent |-> q, children |-> {}, ndi |-> None]
    BY DEF VirtualTree
  <2>2. z \notin Spares => q \in Parents(z)
    BY DefaultParents DEF Parents
  <2>. HIDE DEF q
  <2>3. z \notin Spares =>
           /\ [parent |-> q, children |-> {}, ndi |-> None] \in Node(z)
           /\ [parent |-> q, children |-> {}, ndi |-> None] # None
    BY <2>2, RecordIsNode
  <2>. QED BY <2>1, <2>3 DEF q
<1>2. Typed(tree)
  BY <1>1 DEF Typed, VirtualTree
<1>3. QueuesExist
  <2>1. ASSUME NEW x \in Queues
        PROVE  x \notin Spares \cup {Root}
    BY Levels
  <2>. QED BY <1>1, <2>1, Levels DEF QueuesExist, Exists
<1>4. AllLinked
  BY <1>1 DEF AllLinked, Linked, Exists
<1>5. Mirrored
  BY <1>1 DEF Mirrored, Bound, Exists
<1>. QED BY <1>2, <1>3, <1>4, <1>5

LEMMA PhysicalStart ==
    ASSUME NEW n \in NpuPorts, tree = PhysicalTree(n), npu = DefaultNpu, offline = {},
           preset = {}
    PROVE  Typed(tree) /\ QueuesExist /\ AllLinked /\ Mirrored
<1>1. ASSUME NEW z \in Nodes
      PROVE  IF z \in Spares THEN tree[z] = None
             ELSE /\ tree[z] \in Node(z) /\ tree[z] # None
                  /\ tree[z].parent = DefaultParent(z) /\ tree[z].ndi = <<n, z>>
                  /\ \A w : w \in tree[z].children <=> w \in Nodes \ Spares /\ DefaultParent(w) = z
  <2>. DEFINE ch == {w \in Nodes \ Spares : DefaultParent(w) = z}
  <2>1. tree[z] = IF z \in Spares THEN None
                  ELSE [parent |-> DefaultParent(z), children |-> ch, ndi |-> <<n, z>>]
    BY DEF PhysicalTree
  <2>2. ch \in SUBSET Below(z)
    BY DefaultParents, AboveNodes, NoneIsNew DEF Parents
  <2>3. <<n, z>> \in Objects
    BY DEF Objects
  <2>4. z \notin Spares => DefaultParent(z) \in Parents(z)
    BY DefaultParents
  <2>5. \A w : w \in ch <=> w \in Nodes \ Spares /\ DefaultParent(w) = z
    OBVIOUS
  <2>. HIDE DEF ch
  <2>. QED BY <2>1, <2>2, <2>3, <2>4, <2>5, RecordIsNode
<1>2. Typed(tree)
  BY <1>1 DEF Typed, PhysicalTree
<1>3. QueuesExist
  <2>1. ASSUME NEW x \in Queues
        PROVE  x \notin Spares
    BY Levels
  <2>. QED BY <1>1, <2>1, Levels DEF QueuesExist, Exists
<1>4. AllLinked
  BY <1>1, DefaultParents DEF AllLinked, Linked, Exists
<1>5. ASSUME NEW z \in Nodes, Bound(z)
      PROVE  Mirrors(z)
  <2>1. z \notin Spares /\ tree[z].ndi = <<n, z>> /\ tree[z].parent = DefaultParent(z)
    BY <1>1, <1>5 DEF Bound, Exists
  <2>2. npu[<<n, z>>] = IF z = Root THEN None ELSE <<n, DefaultParent(z)>>
    BY <2>1 DEF DefaultNpu, Objects
  <2>3. z # Root => tree[DefaultParent(z)].ndi = <<n, DefaultParent(z)>>
    BY <1>1, <2>1, DefaultParents
  <2>. QED BY <2>1, <2>2, <2>3, DefaultParents DEF Mirrors
<1>. QED BY <1>2, <1>3, <1>4, <1>5 DEF Mirrored

LEMMA Start0 == Init => IInv
<1>. SUFFICES ASSUME Init
              PROVE  IInv
  OBVIOUS
<1>1. Typed(tree) /\ QueuesExist /\ AllLinked /\ Mirrored
  BY VirtualStart, PhysicalStart DEF Init
<1>2. DbOK /\ offline \subseteq Nodes /\ preset \subseteq Queues
  BY DEF Init, DbOK
<1>3. NpuOK
  <2>1. ASSUME NEW o \in Objects
        PROVE  npu[o] \in Objects \cup {None, Missing}
    <3>1. PICK n \in NpuPorts, x \in Nodes : o = <<n, x>>
      BY DEF Objects
    <3>2. x \notin Spares /\ x # Root => <<n, DefaultParent(x)>> \in Objects
      BY DefaultParents DEF Objects
    <3>. QED BY <3>1, <3>2 DEF Init, DefaultNpu
  <2>. QED BY <2>1 DEF Init, DefaultNpu, NpuOK
<1>4. InterfaceOK
  <2>1. <<>> \in Seq([op : {"add", "remove"}, npu : NpuPorts])
    OBVIOUS
  <2>2. intf \in NpuPorts \cup {None} /\ requests = 0 /\ changes = 0 /\ moved = FALSE
    BY DEF Init
  <2>3. events = <<>>
    BY DEF Init
  <2>. QED BY <2>1, <2>2, <2>3 DEF InterfaceOK
<1>6. AssocOK /\ WaitingExist
  BY DEF Init, AssocOK, WaitingExist, NoAssoc
<1>5. TxOK
  BY DEF Init, TxOK, Idle, Transactions
<1>. QED BY <1>1, <1>2, <1>3, <1>4, <1>6, <1>5 DEF IInv, CachedInv, Init

LEMMA StepKeeps == IInv /\ [Next]_vars => IInv'
<1>. SUFFICES ASSUME IInv, [Next]_vars
              PROVE  IInv'
  OBVIOUS
<1>1. ASSUME NEW c \in Clients, Request(c)
      PROVE  IInv'
  BY <1>1, SetParentKeeps, CreateKeeps, DeleteKeeps DEF Request, Parents
<1>2. ASSUME NEW c \in Clients, Undo(c) \/ End(c)
      PROVE  IInv'
  BY <1>2, UndoKeeps, EndKeeps
<1>3. ASSUME NEW n \in NpuPorts, IfMap(n)
      PROVE  IInv'
  <2>1. [op |-> "add", npu |-> n] \in [op : {"add", "remove"}, npu : NpuPorts]
    OBVIOUS
  <2>. QED BY <1>3, <2>1, ChangeKeeps DEF IfMap
<1>4. CASE IfUnmap
  <2>1. [op |-> "remove", npu |-> intf] \in [op : {"add", "remove"}, npu : NpuPorts]
    BY <1>4 DEF IfUnmap, IInv, InterfaceOK
  <2>. QED BY <1>4, <2>1, ChangeKeeps DEF IfUnmap
<1>5. CASE Event
  BY <1>5, DisassociateKeeps, AssociateKeeps, FinishKeeps, ReplayKeeps, BindGroupKeeps DEF Event
<1>6. CASE UNCHANGED vars
  <2>1. CachedInv'
    BY <1>6, SameKeeps DEF IInv, vars, port
  <2>2. InterfaceOK' /\ AssocOK' /\ TxOK' /\ WaitingExist' /\ (~moved => assoc = NoAssoc)'
    BY <1>6 DEF vars, port, cached, IInv, InterfaceOK, AssocOK, TxOK, WaitingExist, Exists
  <2>. QED BY <2>1, <2>2 DEF IInv
<1>. QED BY <1>1, <1>2, <1>3, <1>4, <1>5, <1>6 DEF Next

----------------------------------------------------------------------------

\* The inductive invariant, from a physical or a virtual start: parents, lists and NPU objects
\* keep agreeing, but for nodes set without an NPU object and preset queues, through every
\* interleaving of transactions, undos and the events of the interface.
THEOREM HqosInvariance == Spec => []IInv
BY Start0, StepKeeps, PTL DEF Spec

\* The state keeps its type: a node has parents and children of the right levels, also
\* through undos and replays (nas_qos_cps_scheduler_group.cpp, nas_qos_cps_queue.cpp).
THEOREM TreeTypes == Spec => []TypeOK
<1>1. IInv => TypeOK
  <2>. SUFFICES ASSUME IInv
                PROVE  TypeOK
    OBVIOUS
  <2>1. \A x \in Nodes : tree[x] \in Node(x) \cup {None}
    BY DEF IInv, CachedInv, Typed
  <2>2. tx \in [Clients -> [phase : {"idle", "open", "undo"}, prev : Seq(Step)]]
    <3>1. Seq(Saved) \subseteq Seq(Step)
      BY DEF Saved
    <3>. QED BY <3>1 DEF IInv, TxOK, Transactions
  <2>. QED BY <2>1, <2>2 DEF IInv, CachedInv, InterfaceOK, DbOK, NpuOK, AssocOK, TypeOK, Parents
<1>. QED BY <1>1, HqosInvariance, PTL

\* Every child that was never set without an NPU object is in the list of its parent and in
\* no other, and a queue that has the preset parent of a virtual port in none
\* (nas_qos_notify_parent_child_change, nas_qos_port_queue_init_vp).
THEOREM ChildrenAgree == Spec => []ListsAgree
<1>1. IInv => ListsAgree
  BY DEF IInv, CachedInv, AllLinked, Linked, ListsAgree
<1>. QED BY <1>1, HqosInvariance, PTL

\* The NPU has each node below the object of its cached parent until the interface
\* moves.
THEOREM NpuFollows == Spec => []NpuFollowsCache
<1>1. IInv => NpuFollowsCache
  BY DEF IInv, CachedInv, Mirrored, Mirrors, NpuFollowsCache, NdiOf
<1>. QED BY <1>1, HqosInvariance, PTL

----------------------------------------------------------------------------
(* Rollbacks: undoing a step leads back to the tree before it. *)

RemovedTree(t, s) == Leave([t EXCEPT ![s] = None], s, t[s].parent)

\* From the tree now, undoing s leads to the tree then.
Undoes(s, now, then) ==
    /\ now[s.node] # None /\ now[s.node].ndi # None
    /\ \/ /\ s.op = "set" /\ s.node \notin Spares
          /\ then = MovedTree(now, s.node, s.parent)
       \/ /\ s.op = "create" /\ now[s.node].children = {}
          /\ then = RemovedTree(now, s.node)

Trees ==
    {t \in [Nodes -> [parent : Nodes \cup {None}, children : SUBSET Nodes,
                      ndi : Objects \cup {None}] \cup {None}] : Typed(t)}

INSTANCE Trails WITH Entries <- Saved, States <- Trees

ShapeOf(t) ==
    [x \in Nodes |-> IF t[x] = None THEN None
                     ELSE [parent |-> t[x].parent, children |-> t[x].children]]

LEMMA TypedTrees ==
    ASSUME NEW t, Typed(t)
    PROVE  t \in Trees
<1>1. ASSUME NEW z \in Nodes, t[z] # None
      PROVE  t[z] \in [parent : Nodes \cup {None}, children : SUBSET Nodes,
                       ndi : Objects \cup {None}]
  <2>1. t[z] \in [parent : Parents(z), children : SUBSET Below(z), ndi : Objects \cup {None}]
    BY <1>1, NodeFields DEF Node, Parents
  <2>2. Parents(z) \subseteq Nodes \cup {None} /\ Below(z) \subseteq Nodes
    BY AboveNodes, BelowNodes DEF Parents
  <2>. QED BY <2>1, <2>2
<1>. QED BY <1>1 DEF Typed, Trees

LEMMA SameNode ==
    ASSUME NEW x \in Nodes, NEW a \in Node(x), NEW b \in Node(x),
           a.parent = b.parent, a.ndi = b.ndi, \A w \in Nodes : w \in a.children <=> w \in b.children
    PROVE  a = b
<1>1. a.children \subseteq Nodes /\ b.children \subseteq Nodes
  BY BelowNodes DEF Node
<1>2. a.children = b.children
  BY <1>1
<1>. QED BY <1>2 DEF Node

\* Trees with the same nodes, parents, lists and objects are the same.
LEMMA SameTree ==
    ASSUME NEW t, NEW u, Typed(t), Typed(u), Alike(t, u),
           \A z \in Nodes : t[z] # None =>
              /\ u[z].parent = t[z].parent
              /\ \A w \in Nodes : w \in u[z].children <=> w \in t[z].children
    PROVE  u = t
<1>1. ASSUME NEW z \in Nodes PROVE u[z] = t[z]
  <2>1. CASE t[z] = None
    BY <2>1 DEF Alike
  <2>2. CASE t[z] # None
    <3>1. t[z] \in Node(z) /\ u[z] \in Node(z) /\ u[z].ndi = t[z].ndi
      BY <2>2 DEF Alike, Typed
    <3>. QED BY <2>2, <3>1, SameNode
  <2>. QED BY <2>1, <2>2
<1>. QED BY <1>1 DEF Typed

\* A node that is linked and moves can be moved back.
LEMMA MoveBack ==
    ASSUME NEW t, Typed(t), NEW x \in Nodes, t[x] # None, NEW y \in Parents(x),
           NEW p \in Parents(x), p = t[x].parent,
           \A z \in Nodes : t[z] # None => (x \in t[z].children <=> z = p),
           NEW u, Shifted(t, u, x, y), NEW v, v = MovedTree(u, x, p)
    PROVE  v = t
<1>1. Typed(u) /\ u[x] # None /\ u[x].parent = y
  BY DEF Shifted, Alike
<1>2. Shifted(u, v, x, p)
  BY <1>1, MoveTree
<1>3. Typed(v) /\ Alike(t, v)
  BY <1>2 DEF Shifted, Alike
<1>4. ASSUME NEW z \in Nodes, t[z] # None
      PROVE  /\ v[z].parent = t[z].parent
             /\ \A w \in Nodes : w \in v[z].children <=> w \in t[z].children
  <2>1. u[z] # None
    BY <1>4 DEF Shifted, Alike
  <2>2. v[z].parent = t[z].parent
    BY <1>2, <1>4, <2>1 DEF Shifted
  <2>3. x \in u[z].children <=> z = y
    BY <1>4 DEF Shifted
  <2>4. x \in v[z].children <=> z = p
    BY <1>1, <1>2, <2>1, <2>3 DEF Shifted
  <2>5. \A w \in Nodes : w # x => (w \in v[z].children <=> w \in t[z].children)
    BY <1>2, <1>4, <2>1 DEF Shifted
  <2>. QED BY <1>4, <2>2, <2>4, <2>5
<1>. QED BY <1>3, <1>4, SameTree

\* A new node that no list named can be removed again.
LEMMA AddBack ==
    ASSUME NEW t, Typed(t), NEW s \in Nodes, t[s] = None, NEW y \in Parents(s),
           \A z \in Nodes : t[z] # None => s \notin t[z].children,
           NEW o, NEW u, Added(t, u, s, y, o), NEW v, v = RemovedTree(u, s)
    PROVE  v = t
<1>. DEFINE e == [u EXCEPT ![s] = None]
<1>1. Typed(u) /\ u[s].parent = y /\ y \in Nodes \cup {None}
  BY ParentIsNode DEF Added
<1>2. e = [z \in Nodes |-> IF z = s THEN None ELSE u[z]] /\ v = Leave(e, s, y)
  BY <1>1 DEF Typed, RemovedTree
<1>. HIDE DEF e
<1>3. e[s] = None /\ \A z \in Nodes : z # s => e[z] = u[z]
  BY <1>2
<1>4. Differ(u, e, s)
  BY <1>1, <1>2, <1>3 DEF Typed, Differ
<1>5. Removed(u, v, s, y)
  BY <1>1, <1>2, <1>3, <1>4, RemoveTree
<1>6. Typed(v) /\ Alike(t, v)
  BY <1>5 DEF Removed, Added, Alike
<1>7. ASSUME NEW z \in Nodes, t[z] # None
      PROVE  /\ v[z].parent = t[z].parent
             /\ \A w \in Nodes : w \in v[z].children <=> w \in t[z].children
  BY <1>5, <1>7 DEF Removed, Added
<1>. QED BY <1>6, <1>7, SameTree

----------------------------------------------------------------------------
(* What an undo may rely on. *)

\* The parents that the NPU has are objects that it has.
NpuClosed ==
    \A o \in Objects : npu[o] \notin {None, Missing} => npu[npu[o]] # Missing

\* The NPU uses the object of s for no other nodes than those in the list of s.
Hung(s) ==
    \A o \in Objects : npu[o] = tree[s].ndi =>
       \E x \in Nodes : x \in tree[s].children /\ Exists(x) /\ tree[x].ndi = o

\* A group that its request made and bound to an object of its own: it can go again as
\* soon as its list is empty.
Own(s) ==
    /\ Bound(s) /\ tree[s].ndi = <<intf, s>>
    /\ \A g \in Nodes : g # s /\ Exists(g) => tree[g].ndi # tree[s].ndi
    /\ Hung(s)

Made(p) == \A k \in 1 .. Len(p) : p[k].op = "create" => Own(p[k].node)
Once(p) ==
    \A j, k \in 1 .. Len(p) :
       p[j].op = "create" /\ p[k].op = "create" /\ j # k => p[j].node # p[k].node

\* Undoing p, the last step first, leads back to nodes of the shape b.
CanRestore(p, b) ==
    /\ p # <<>> => intf # None
    /\ Made(p) /\ Once(p)
    /\ \E t \in Trees : ShapeOf(t) = b /\ LeadsBack(p, tree, t)

Tracked(c) ==
    /\ tx[c].phase = "idle" => tx[c].prev = <<>> /\ before[c] = None
    /\ before[c] # None => assoc = NoAssoc /\ CanRestore(tx[c].prev, before[c])
AllTracked == \A c \in Clients : Tracked(c)

UndoInv ==
    /\ IInv /\ NpuClosed /\ AllTracked
    /\ before = [c \in Clients |-> before[c]]

----------------------------------------------------------------------------
(* The operations keep what an undo relies on. *)

USE MissingIsNew

LEMMA MoveKeepsNpu ==
    ASSUME CachedInv, NpuClosed, NEW x \in Nodes, NEW y \in Parents(x), Bound(x), Move(x, y)
    PROVE  NpuClosed'
<1>1. tree[x].ndi \in Objects /\ NpuOK
  BY NodeTypes DEF CachedInv, Bound
<1>2. npu' = [npu EXCEPT ![tree[x].ndi] = NdiOf(y)] /\ NdiTakes(tree[x].ndi, NdiOf(y))
  BY DEF Move, Accepts
<1>3. NdiOf(y) \in Objects \cup {None}
  BY ParentIsNode, NodeTypes DEF CachedInv, Move, Accepts, NdiOf
<1>4. NdiOf(y) # None => npu[NdiOf(y)] # Missing
  BY <1>2 DEF NdiTakes
<1>. QED BY <1>1, <1>2, <1>3, <1>4, Nulls DEF NpuClosed, NpuOK

LEMMA AddKeepsNpu ==
    ASSUME CachedInv, InterfaceOK, NpuClosed, NEW s \in Spares, NEW y \in {Root, None},
           Creatable(s, y), Add(s, y)
    PROVE  NpuClosed'
<1>. DEFINE o == <<intf, s>>
<1>1. s \in Nodes /\ o \in Objects /\ NpuOK
  BY Levels DEF CachedInv, Creatable, InterfaceOK, Objects
<1>2. npu' = [npu EXCEPT ![o] = NdiOf(y)] /\ NdiTakes(o, NdiOf(y))
  BY DEF Add, Creatable, Accepts
<1>3. NdiOf(y) \in Objects \cup {None}
  BY NodeTypes, Levels DEF CachedInv, Creatable, Accepts, NdiOf
<1>4. NdiOf(y) # None => npu[NdiOf(y)] # Missing
  BY <1>2 DEF NdiTakes
<1>. HIDE DEF o
<1>. QED BY <1>1, <1>2, <1>3, <1>4, Nulls DEF NpuClosed, NpuOK

LEMMA RemoveKeepsNpu ==
    ASSUME CachedInv, NpuClosed, NEW x \in Nodes, Removable(x), Remove(x)
    PROVE  NpuClosed'
<1>1. NpuOK /\ (Bound(x) => tree[x].ndi \in Objects)
  BY NodeTypes DEF CachedInv, Bound
<1>2. npu' = IF Bound(x) THEN [npu EXCEPT ![tree[x].ndi] = Missing] ELSE npu
  BY DEF Remove
<1>3. Bound(x) => \A o \in Objects : npu[o] # tree[x].ndi
  BY DEF Removable
<1>. QED BY <1>1, <1>2, <1>3, Nulls DEF NpuClosed, NpuOK

LEMMA MoveKeepsOwn ==
    ASSUME CachedInv, intf' = intf, NEW x \in Nodes, NEW y \in Parents(x), Bound(x),
           Move(x, y), NEW s \in Nodes, Own(s)
    PROVE  Own(s)'
<1>1. Typed(tree) /\ NpuOK /\ tree[x] # None /\ tree[s] # None
  BY DEF CachedInv, Own, Bound, Exists
<1>. DEFINE o == tree[x].ndi
<1>2. o \in Objects /\ npu' = [npu EXCEPT ![o] = NdiOf(y)]
  BY <1>1, NodeTypes DEF Bound, Move
<1>3. y # None => y \in Nodes /\ Exists(y)
  BY ParentIsNode DEF Move, Accepts
<1>4. Shifted(tree, tree', x, y)
  BY <1>1, MoveTree DEF Move, MovedTree
<1>5. SameNodes /\ \A z \in Nodes : tree[z] # None => tree'[z].ndi = tree[z].ndi
  BY <1>4 DEF Shifted, Alike, SameNodes
<1>6. ASSUME NEW q \in Objects, npu'[q] = tree[s].ndi
      PROVE  \E w \in Nodes : w \in tree'[s].children /\ tree'[w] # None /\ tree'[w].ndi = q
  <2>1. CASE q = o
    <3>1. NdiOf(y) = tree[s].ndi
      BY <1>1, <1>2, <1>6, <2>1 DEF NpuOK
    <3>2. y = s
      BY <1>3, <3>1 DEF Own, Bound, NdiOf
    <3>3. x \in tree'[s].children
      BY <1>1, <1>4, <3>2 DEF Shifted
    <3>. QED BY <1>1, <1>5, <2>1, <3>3 DEF SameNodes
  <2>2. CASE q # o
    <3>1. npu[q] = tree[s].ndi
      BY <1>1, <1>2, <1>6, <2>2 DEF NpuOK
    <3>2. PICK w \in Nodes : w \in tree[s].children /\ Exists(w) /\ tree[w].ndi = q
      BY <3>1 DEF Own, Hung
    <3>3. w # x
      BY <2>2, <3>2
    <3>4. w \in tree'[s].children
      BY <1>1, <1>4, <3>2, <3>3 DEF Shifted
    <3>. QED BY <1>5, <3>2, <3>4 DEF SameNodes, Exists
  <2>. QED BY <2>1, <2>2
<1>. QED BY <1>1, <1>5, <1>6 DEF Own, Hung, Bound, Exists, SameNodes

LEMMA AddMakesOwn ==
    ASSUME CachedInv, InterfaceOK, NpuClosed, NEW s \in Spares, NEW y \in {Root, None},
           Creatable(s, y), Add(s, y), Unused(s), intf' = intf
    PROVE  Own(s)'
<1>. DEFINE o == <<intf, s>>
<1>1. Typed(tree) /\ NpuOK /\ s \in Nodes /\ o \in Objects
  BY Levels DEF CachedInv, Creatable, InterfaceOK, Objects
<1>2. npu' = [npu EXCEPT ![o] = NdiOf(y)] /\ npu[o] = Missing
  BY DEF Add, Creatable
<1>3. Added(tree, tree', s, y, o)
  BY <1>1, AddShape
<1>4. \A x \in Nodes : Exists(x) => tree[x].ndi # o
  BY DEF Unused
<1>5. \A q \in Objects : npu[q] # o
  BY <1>1, <1>2, Nulls DEF NpuClosed
<1>6. NdiOf(y) # o
  BY <1>1, <1>4, Levels DEF NdiOf, Creatable, Accepts
<1>7. \A q \in Objects : npu'[q] # o
  BY <1>1, <1>2, <1>5, <1>6 DEF NpuOK
<1>8. tree'[s] # None /\ tree'[s].ndi = o /\ o # None
  BY <1>1, <1>3 DEF Added
<1>9. \A g \in Nodes : g # s /\ tree'[g] # None => tree'[g].ndi # o
  BY <1>3, <1>4 DEF Added, Exists
<1>10. o = <<intf', s>>
  OBVIOUS
<1>. HIDE DEF o
<1>. QED BY <1>7, <1>8, <1>9, <1>10 DEF Own, Hung, Bound, Exists

LEMMA AddKeepsOwn ==
    ASSUME CachedInv, InterfaceOK, NEW s \in Spares, NEW y \in {Root, None},
           Creatable(s, y), Add(s, y), intf' = intf, NEW g \in Nodes, Own(g)
    PROVE  Own(g)'
<1>. DEFINE o == <<intf, s>>
<1>1. Typed(tree) /\ NpuOK /\ s \in Nodes /\ o \in Objects
  BY Levels DEF CachedInv, Creatable, InterfaceOK, Objects
<1>2. npu' = [npu EXCEPT ![o] = NdiOf(y)]
  BY DEF Add
<1>3. Added(tree, tree', s, y, o)
  BY <1>1, AddShape
<1>4. tree[g] # None /\ tree[s] = None /\ g # s
  BY DEF Own, Bound, Exists, Creatable
<1>5. tree[g].ndi = <<intf, g>> /\ o # <<intf, g>>
  BY <1>4 DEF Own
<1>6. /\ tree'[g] # None /\ tree'[g].ndi = tree[g].ndi
      /\ \A w : w \in tree[g].children => w \in tree'[g].children
  BY <1>3, <1>4 DEF Added
<1>7. ASSUME NEW q \in Objects, npu'[q] = tree[g].ndi
      PROVE  \E w \in Nodes : w \in tree'[g].children /\ tree'[w] # None /\ tree'[w].ndi = q
  <2>1. CASE q = o
    <3>1. NdiOf(y) = tree[g].ndi
      BY <1>1, <1>2, <1>7, <2>1 DEF NpuOK
    <3>2. y = g
      BY <3>1, Levels DEF Own, Bound, NdiOf, Creatable, Accepts
    <3>3. s \in tree'[g].children
      BY <1>3, <1>4, <3>2 DEF Added
    <3>. QED BY <1>1, <1>3, <2>1, <3>3 DEF Added
  <2>2. CASE q # o
    <3>1. npu[q] = tree[g].ndi
      BY <1>1, <1>2, <1>7, <2>2 DEF NpuOK
    <3>2. PICK w \in Nodes : w \in tree[g].children /\ Exists(w) /\ tree[w].ndi = q
      BY <3>1 DEF Own, Hung
    <3>3. w # s
      BY <1>4, <3>2 DEF Exists
    <3>. QED BY <1>3, <1>6, <3>2, <3>3 DEF Added, Exists
  <2>. QED BY <2>1, <2>2
<1>8. ASSUME NEW z \in Nodes, z # g, tree'[z] # None
      PROVE  tree'[z].ndi # tree[g].ndi
  BY <1>3, <1>5, <1>8 DEF Added, Own, Exists
<1>. QED BY <1>6, <1>7, <1>8 DEF Own, Hung, Bound, Exists

LEMMA RemoveKeepsOwn ==
    ASSUME CachedInv, NEW x \in Nodes, Bound(x), Remove(x), intf' = intf,
           NEW g \in Nodes, g # x, Own(g)
    PROVE  Own(g)'
<1>1. Typed(tree) /\ NpuOK /\ tree[g] # None /\ Exists(x)
  BY DEF CachedInv, Own, Bound, Exists
<1>. DEFINE o == tree[x].ndi
<1>2. o \in Objects /\ npu' = [npu EXCEPT ![o] = Missing]
  BY <1>1, NodeTypes DEF Bound, Remove
<1>3. PICK p : p = tree[x].parent
  OBVIOUS
<1>4. Removed(tree, tree', x, p)
  BY <1>1, <1>3, RemoveShape
<1>5. tree'[g] # None /\ tree'[g].ndi = tree[g].ndi /\ tree[g].ndi \in Objects
  BY <1>1, <1>4, NodeTypes DEF Removed, Own, Bound, Exists
<1>6. ASSUME NEW q \in Objects, npu'[q] = tree[g].ndi
      PROVE  \E w \in Nodes : w \in tree'[g].children /\ tree'[w] # None /\ tree'[w].ndi = q
  <2>1. q # o /\ npu[q] = tree[g].ndi
    BY <1>1, <1>2, <1>5, <1>6 DEF NpuOK
  <2>2. PICK w \in Nodes : w \in tree[g].children /\ Exists(w) /\ tree[w].ndi = q
    BY <2>1 DEF Own, Hung
  <2>3. w # x
    BY <2>1, <2>2
  <2>. QED BY <1>1, <1>4, <2>2, <2>3 DEF Removed, Exists
<1>7. \A z \in Nodes : z # g /\ tree'[z] # None => tree'[z].ndi # tree[g].ndi
  BY <1>4 DEF Removed, Own, Exists
<1>. QED BY <1>5, <1>6, <1>7 DEF Own, Hung, Bound, Exists

----------------------------------------------------------------------------
(* The trails of all clients. *)

LEMMA StartCan ==
    ASSUME UndoInv, NEW c \in Clients, Ready(c), NEW b, b = Start(c), b # None
    PROVE  CanRestore(tx[c].prev, b)
<1>1. CASE tx[c].phase = "idle"
  <2>1. tx[c].prev = <<>> /\ b = Shape
    BY <1>1 DEF UndoInv, AllTracked, Tracked, Start
  <2>2. ShapeOf(tree) = b
    BY <2>1 DEF ShapeOf, Shape
  <2>3. tree \in Trees
    BY TypedTrees DEF UndoInv, IInv, CachedInv
  <2>4. LeadsBack(<<>>, tree, tree)
    BY <2>3, EmptyTrail
  <2>5. Made(<<>>) /\ Once(<<>>)
    BY DEF Made, Once
  <2>. QED BY <2>1, <2>2, <2>3, <2>4, <2>5 DEF CanRestore
<1>2. CASE tx[c].phase # "idle"
  BY <1>2 DEF UndoInv, AllTracked, Tracked, Start
<1>. QED BY <1>1, <1>2

\* A step that can be undone makes the trail longer.
LEMMA CanGrow ==
    ASSUME NEW p \in Seq(Saved), NEW s \in Saved, NEW b, CanRestore(p, b),
           Typed(tree), Typed(tree'), intf' = intf, intf # None, Undoes(s, tree', tree),
           \A g \in Nodes : Own(g) => Own(g)',
           s.op = "create" => Own(s.node)' /\ ~Exists(s.node)
    PROVE  CanRestore(Append(p, s), b)'
<1>. DEFINE q == Append(p, s)
            n == Len(p)
<1>1. n \in Nat /\ Len(q) = n + 1 /\ q[n + 1] = s /\ \A k \in 1 .. n : q[k] = p[k]
  OBVIOUS
<1>2. \A k \in 1 .. n : p[k] \in Saved /\ p[k].node \in Nodes
  BY DEF Saved, Step
<1>3. \A k \in 1 .. n : p[k].op = "create" => Own(p[k].node)
  BY DEF CanRestore, Made
<1>. HIDE DEF q, n
<1>4. Made(q)'
  BY <1>1, <1>2, <1>3 DEF Made
<1>5. Once(q)'
  <2>1. \A k \in 1 .. n : p[k].op = "create" /\ s.op = "create" => p[k].node # s.node
    BY <1>3 DEF Own, Bound
  <2>2. \A j, k \in 1 .. n : p[j].op = "create" /\ p[k].op = "create" /\ j # k
                                => p[j].node # p[k].node
    BY DEF CanRestore, Once, n
  <2>. QED BY <1>1, <2>1, <2>2 DEF Once
<1>6. \E t \in Trees : ShapeOf(t) = b /\ LeadsBack(q, tree', t)
  <2>1. PICK t \in Trees : ShapeOf(t) = b /\ LeadsBack(p, tree, t)
    BY DEF CanRestore
  <2>2. tree \in Trees /\ tree' \in Trees
    BY TypedTrees
  <2>3. LeadsBack(q, tree', t)
    BY <2>1, <2>2, LongerTrail DEF q
  <2>. QED BY <2>1, <2>3
<1>. QED BY <1>4, <1>5, <1>6 DEF CanRestore, q

LEMMA CanStay ==
    ASSUME NEW p, NEW b, CanRestore(p, b), UNCHANGED cached, intf' = intf
    PROVE  CanRestore(p, b)'
BY DEF CanRestore, Made, Once, Own, Hung, Bound, Exists, cached

\* A transaction without a beginning to go back to has nothing to keep.
LEMMA NoneTracked ==
    ASSUME AllTracked, \A d \in Clients : before'[d] = None,
           \A d \in Clients : tx'[d].phase = "idle" => tx'[d].prev = <<>>
    PROVE  AllTracked'
BY DEF AllTracked, Tracked

LEMMA DoneTracked ==
    ASSUME UndoInv, IInv', NEW c \in Clients, Ready(c), NEW s \in Saved, Done(c, <<s>>),
           NEW b, before' = Only(c, b), intf # None,
           b # None => /\ b = Start(c) /\ Undoes(s, tree', tree)
                       /\ (\A g \in Nodes : Own(g) => Own(g)')
                       /\ s.op = "create" => Own(s.node)' /\ ~Exists(s.node)
    PROVE  AllTracked'
<1>1. Typed(tree) /\ Typed(tree') /\ TxOK /\ AllTracked /\ assoc = NoAssoc
  BY DEF UndoInv, IInv, CachedInv, Ready
<1>2. intf' = intf /\ assoc' = assoc
  BY DEF Done, port
<1>3. PICK p : p = tx[c].prev
  OBVIOUS
<1>4. p \in Seq(Saved)
  BY <1>1, <1>3 DEF TxOK, Transactions
<1>5. p \o <<s>> = Append(p, s)
  BY <1>4
<1>6. /\ tx'[c].phase = "open" /\ tx'[c].prev = Append(p, s)
      /\ \A d \in Clients : d # c => tx'[d] = tx[d]
  BY <1>1, <1>3, <1>5 DEF Done, TxOK
<1>7. before'[c] = b /\ \A d \in Clients : d # c => before'[d] = None
  BY DEF Only
<1>8. b # None => CanRestore(Append(p, s), b)'
  <2>. SUFFICES ASSUME b # None PROVE CanRestore(Append(p, s), b)'
    OBVIOUS
  <2>1. CanRestore(p, b)
    BY <1>3, StartCan
  <2>. QED BY <1>1, <1>2, <1>4, <2>1, CanGrow
<1>9. Tracked(c)'
  BY <1>1, <1>2, <1>6, <1>7, <1>8 DEF Tracked
<1>10. \A d \in Clients : d # c => Tracked(d)'
  BY <1>1, <1>6, <1>7 DEF AllTracked, Tracked
<1>. QED BY <1>9, <1>10 DEF AllTracked

LEMMA FailedTracked ==
    ASSUME UndoInv, NEW c \in Clients, Ready(c), UNCHANGED cached, Failed(c)
    PROVE  AllTracked'
<1>1. TxOK /\ AllTracked /\ assoc = NoAssoc /\ assoc' = assoc /\ intf' = intf
  BY DEF UndoInv, IInv, Ready, Failed, port
<1>2. /\ tx'[c].phase = "undo" /\ tx'[c].prev = tx[c].prev /\ before'[c] = Start(c)
      /\ \A d \in Clients : d # c => tx'[d] = tx[d] /\ before'[d] = before[d]
  BY <1>1 DEF Failed, TxOK, UndoInv
<1>3. ASSUME NEW d \in Clients
      PROVE  Tracked(d)'
  <2>1. PICK p, b : p = tx[d].prev /\ b = IF d = c THEN Start(c) ELSE before[d]
    OBVIOUS
  <2>2. tx'[d].prev = p /\ before'[d] = b
    BY <1>2, <2>1
  <2>3. b # None => CanRestore(p, b)
    BY <1>1, <2>1, StartCan DEF AllTracked, Tracked
  <2>4. b # None => CanRestore(p, b)'
    BY <1>1, <2>3, CanStay
  <2>5. tx'[d].phase = "idle" => p = <<>> /\ b = None
    BY <1>1, <1>2, <2>1 DEF AllTracked, Tracked
  <2>. QED BY <1>1, <2>2, <2>4, <2>5 DEF Tracked
<1>. QED BY <1>3 DEF AllTracked

----------------------------------------------------------------------------
(* One lemma for each action that saves or undoes. *)

LEMMA SetParentTracked ==
    ASSUME UndoInv, IInv', NEW c \in Clients, NEW x \in Nodes, NEW y \in Parents(x),
           SetParent(c, x, y)
    PROVE  NpuClosed' /\ AllTracked'
<1>1. /\ CachedInv /\ Typed(tree) /\ AllLinked /\ TxOK /\ NpuClosed /\ AllTracked
      /\ Ready(c)
  BY DEF UndoInv, IInv, CachedInv, SetParent
<1>2. CASE /\ Settable(x) /\ Live(x) /\ Move(x, y)
           /\ Done(c, <<[op |-> "set", node |-> x, parent |-> tree[x].parent]>>)
           /\ before' = Only(c, IF x \in offline \cup preset THEN None ELSE Start(c))
  <2>1. /\ Exists(x) /\ Bound(x) /\ x \notin Spares /\ intf # None
        /\ tree[x] # None /\ tree[x].ndi # None
    BY <1>2 DEF Settable, Live, Bound, Exists
  <2>2. PICK p \in Parents(x) : p = tree[x].parent
    BY <1>1, <2>1, NodeTypes
  <2>. DEFINE s == [op |-> "set", node |-> x, parent |-> p]
              b == IF x \in offline \cup preset THEN None ELSE Start(c)
  <2>3. s \in Saved
    <3>1. p \in Nodes \cup {None}
      BY AboveNodes DEF Parents
    <3>. QED BY <3>1 DEF Saved, Step
  <2>4. intf' = intf
    BY <1>2 DEF Done, port
  <2>5. Shifted(tree, tree', x, y)
    BY <1>1, <1>2, <2>1, MoveTree DEF Move, MovedTree
  <2>6. \A g \in Nodes : Own(g) => Own(g)'
    BY <1>1, <1>2, <2>1, <2>4, MoveKeepsOwn
  <2>7. b # None => Undoes(s, tree', tree)
    <3>. SUFFICES ASSUME b # None PROVE Undoes(s, tree', tree)
      OBVIOUS
    <3>1. Linked(x)
      BY <1>1 DEF AllLinked
    <3>2. \A z \in Nodes : tree[z] # None => (x \in tree[z].children <=> z = p)
      BY <2>1, <2>2, <3>1, NoneIsNew DEF Linked, Exists
    <3>3. PICK v : v = MovedTree(tree', x, p)
      OBVIOUS
    <3>4. v = tree
      BY <1>1, <2>1, <2>2, <2>5, <3>2, <3>3, MoveBack
    <3>5. tree'[x] # None /\ tree'[x].ndi # None
      BY <2>1, <2>5 DEF Shifted, Alike
    <3>. QED BY <2>1, <3>3, <3>4, <3>5 DEF Undoes
  <2>8. Done(c, <<s>>) /\ before' = Only(c, b) /\ s.op # "create"
    BY <1>2, <2>2
  <2>9. b # None => b = Start(c)
    OBVIOUS
  <2>. HIDE DEF s, b
  <2>10. AllTracked'
    BY <1>1, <2>1, <2>3, <2>6, <2>7, <2>8, <2>9, DoneTracked
  <2>. QED BY <1>1, <1>2, <2>1, <2>10, MoveKeepsNpu
<1>3. CASE /\ MoveOffline(x, y) /\ Done(c, <<>>) /\ before' = Only(c, None)
  <2>1. tx'[c].phase = "open" /\ \A d \in Clients : d # c => tx'[d] = tx[d]
    BY <1>1, <1>3 DEF Done, TxOK
  <2>2. \A d \in Clients : before'[d] = None
    BY <1>3 DEF Only
  <2>3. AllTracked'
    BY <1>1, <2>1, <2>2, NoneTracked DEF AllTracked, Tracked
  <2>. QED BY <1>1, <1>3, <2>3 DEF MoveOffline, NpuClosed
<1>4. CASE UNCHANGED cached /\ Failed(c)
  BY <1>1, <1>4, FailedTracked DEF NpuClosed, cached
<1>. QED BY <1>2, <1>3, <1>4 DEF SetParent, MoveFails

LEMMA CreateTracked ==
    ASSUME UndoInv, IInv', NEW c \in Clients, NEW x \in Spares, NEW y \in {Root, None},
           Create(c, x, y)
    PROVE  NpuClosed' /\ AllTracked'
<1>1. /\ CachedInv /\ InterfaceOK /\ Typed(tree) /\ AllLinked /\ TxOK /\ NpuClosed
      /\ AllTracked /\ Ready(c) /\ x \in Nodes
  BY Levels DEF UndoInv, IInv, CachedInv, Create
<1>2. CASE /\ Creatable(x, y) /\ Add(x, y)
           /\ Done(c, <<[op |-> "create", node |-> x, parent |-> y]>>)
           /\ before' = Only(c, IF Unused(x) THEN Start(c) ELSE None)
  <2>. DEFINE s == [op |-> "create", node |-> x, parent |-> y]
              b == IF Unused(x) THEN Start(c) ELSE None
              o == <<intf, x>>
  <2>1. s \in Saved
    BY <1>1, Levels DEF Saved, Step
  <2>2. intf' = intf /\ intf # None /\ ~Exists(x) /\ tree[x] = None
    BY <1>2 DEF Done, port, Creatable, Exists
  <2>3. y \in Parents(x)
    BY <1>1, AboveNodes DEF Parents
  <2>4. Added(tree, tree', x, y, o)
    BY <1>1, <1>2, AddShape
  <2>5. \A g \in Nodes : Own(g) => Own(g)'
    BY <1>1, <1>2, <2>2, AddKeepsOwn
  <2>6. b # None => Own(x)'
    BY <1>1, <1>2, <2>2, AddMakesOwn
  <2>7. b # None => Undoes(s, tree', tree)
    <3>. SUFFICES ASSUME b # None PROVE Undoes(s, tree', tree)
      OBVIOUS
    <3>1. Linked(x)
      BY <1>1 DEF AllLinked, Unused
    <3>2. \A z \in Nodes : tree[z] # None => x \notin tree[z].children
      BY <2>2, <3>1 DEF Linked, Exists
    <3>3. PICK v : v = RemovedTree(tree', x)
      OBVIOUS
    <3>4. v = tree
      BY <1>1, <2>2, <2>3, <2>4, <3>2, <3>3, AddBack
    <3>5. tree'[x] # None /\ tree'[x].ndi = o /\ o \in Objects
      BY <1>1, <2>2, <2>4 DEF Added, InterfaceOK, Objects
    <3>6. tree'[x].children = {}
      <4>1. tree'[x] \in Node(x)
        BY <1>1, <3>5 DEF IInv, CachedInv, Typed
      <4>. QED BY <2>4, <4>1 DEF Added
    <3>. QED BY <3>3, <3>4, <3>5, <3>6 DEF Undoes
  <2>8. Done(c, <<s>>) /\ before' = Only(c, b) /\ s.node = x
    BY <1>2
  <2>9. b # None => b = Start(c)
    OBVIOUS
  <2>. HIDE DEF s, b
  <2>10. AllTracked'
    BY <1>1, <2>1, <2>2, <2>5, <2>6, <2>7, <2>8, <2>9, DoneTracked
  <2>. QED BY <1>1, <1>2, <2>10, AddKeepsNpu
<1>3. CASE UNCHANGED cached /\ Failed(c)
  BY <1>1, <1>3, FailedTracked DEF NpuClosed, cached
<1>. QED BY <1>2, <1>3 DEF Create, Refused

LEMMA DeleteTracked ==
    ASSUME UndoInv, NEW c \in Clients, NEW x \in Groups \cup {Root}, Delete(c, x)
    PROVE  NpuClosed' /\ AllTracked'
<1>1. CachedInv /\ TxOK /\ NpuClosed /\ AllTracked /\ Ready(c) /\ x \in Nodes
  BY Levels DEF UndoInv, IInv, Delete
<1>2. CASE /\ Removable(x) /\ Remove(x)
           /\ Done(c, <<[op |-> "delete", node |-> x, parent |-> tree[x].parent]>>)
           /\ before' = Only(c, None)
  <2>1. tx'[c].phase = "open" /\ \A d \in Clients : d # c => tx'[d] = tx[d]
    BY <1>1, <1>2 DEF Done, TxOK
  <2>2. \A d \in Clients : before'[d] = None
    BY <1>2 DEF Only
  <2>3. AllTracked'
    BY <1>1, <2>1, <2>2, NoneTracked DEF AllTracked, Tracked
  <2>. QED BY <1>1, <1>2, <2>3, RemoveKeepsNpu
<1>3. CASE UNCHANGED cached /\ Failed(c)
  BY <1>1, <1>3, FailedTracked DEF NpuClosed, cached
<1>. QED BY <1>2, <1>3 DEF Delete, Refused

\* The state before the step that is undone is the one that the trail has.
LEMMA UndoFollows ==
    ASSUME UndoInv, intf # None, intf' = intf, NEW p \in Seq(Saved), p # <<>>,
           Made(p), Once(p), NEW s \in Saved, s = p[Len(p)], UndoSet(s) \/ UndoCreate(s),
           NEW mid, Undoes(s, tree, mid)
    PROVE  /\ tree' = mid
           /\ \A k \in 1 .. Len(p) - 1 : p[k].op = "create" => Own(p[k].node)'
<1>1. CachedInv /\ s.node \in Nodes /\ tree[s.node] # None /\ tree[s.node].ndi # None
  BY DEF UndoInv, IInv, Undoes, Saved, Step
<1>2. Exists(s.node) /\ Bound(s.node) /\ Live(s.node)
  BY <1>1 DEF Exists, Bound, Live
<1>3. Len(p) \in Nat \ {0} /\ \A k \in 1 .. Len(p) : p[k] \in Saved /\ p[k].node \in Nodes
  BY DEF Saved, Step
<1>4. PICK x, y : x \in Nodes /\ x = s.node /\ y = s.parent
  BY <1>1
<1>5. CASE s.op = "set"
  <2>1. x \notin Spares /\ mid = MovedTree(tree, x, y) /\ y \in Parents(x)
    BY <1>4, <1>5 DEF Undoes, Saved
  <2>2. Move(x, y)
    BY <1>2, <1>4, <1>5, <2>1 DEF UndoSet, UndoCreate, Settable
  <2>3. \A g \in Nodes : Own(g) => Own(g)'
    BY <1>1, <1>2, <1>4, <2>1, <2>2, MoveKeepsOwn
  <2>. QED BY <1>3, <2>1, <2>2, <2>3 DEF Move, MovedTree, Made
<1>6. CASE s.op = "create"
  <2>1. tree[x].children = {} /\ mid = RemovedTree(tree, x)
    BY <1>4, <1>6 DEF Undoes
  <2>2. Own(x)
    BY <1>3, <1>4, <1>6 DEF Made
  <2>3. Removable(x)
    BY <1>2, <1>4, <2>1, <2>2 DEF Removable, Own, Hung
  <2>4. Remove(x)
    BY <1>4, <1>6, <2>3 DEF UndoSet, UndoCreate
  <2>5. \A g \in Nodes : g # x /\ Own(g) => Own(g)'
    BY <1>1, <1>2, <1>4, <2>4, RemoveKeepsOwn
  <2>6. \A k \in 1 .. Len(p) - 1 : p[k].op = "create" => p[k].node # x
    BY <1>3, <1>4, <1>6 DEF Once
  <2>. QED BY <1>3, <2>1, <2>4, <2>5, <2>6 DEF Remove, RemovedTree, Made
<1>. QED BY <1>5, <1>6 DEF Undoes

LEMMA CanShrink ==
    ASSUME UndoInv, IInv', intf' = intf, NEW p \in Seq(Saved), p # <<>>,
           NEW b, CanRestore(p, b), NEW s, s = p[Len(p)], UndoSet(s) \/ UndoCreate(s)
    PROVE  CanRestore(SubSeq(p, 1, Len(p) - 1), b)'
<1>. DEFINE rest == SubSeq(p, 1, Len(p) - 1)
<1>1. Len(p) \in Nat \ {0} /\ s \in Saved
  OBVIOUS
<1>2. Len(rest) = Len(p) - 1 /\ \A k \in 1 .. Len(p) - 1 : rest[k] = p[k]
  BY Front
<1>3. PICK t \in Trees : ShapeOf(t) = b /\ LeadsBack(p, tree, t)
  BY DEF CanRestore
<1>4. PICK mid \in Trees : Undoes(s, tree, mid) /\ LeadsBack(rest, mid, t)
  BY <1>3, ShorterTrail
<1>5. intf # None /\ Made(p) /\ Once(p)
  BY DEF CanRestore
<1>6. /\ tree' = mid
      /\ \A k \in 1 .. Len(p) - 1 : p[k].op = "create" => Own(p[k].node)'
  BY <1>1, <1>4, <1>5, UndoFollows
<1>. HIDE DEF rest
<1>7. Made(rest)'
  BY <1>1, <1>2, <1>6 DEF Made
<1>8. Once(rest)'
  BY <1>1, <1>2, <1>5 DEF Once
<1>. QED BY <1>3, <1>4, <1>5, <1>6, <1>7, <1>8 DEF CanRestore, rest

LEMMA UndoTracked ==
    ASSUME UndoInv, IInv', NEW c \in Clients, Undo(c)
    PROVE  NpuClosed' /\ AllTracked'
<1>1. /\ CachedInv /\ TxOK /\ NpuClosed /\ AllTracked /\ assoc = NoAssoc
      /\ intf' = intf /\ assoc' = assoc
  BY DEF UndoInv, IInv, Undo, port
<1>2. PICK p : p = tx[c].prev
  OBVIOUS
<1>3. p \in Seq(Saved) /\ p # <<>>
  BY <1>1, <1>2 DEF TxOK, Transactions, Undo
<1>4. PICK s \in Saved : s = p[Len(p)]
  BY <1>3
<1>5. s.node \in Nodes /\ (s.op = "set" => s.parent \in Parents(s.node))
      /\ (s.op = "create" => s.node \in Spares)
  BY DEF Saved, Step
<1>6. tx' = [tx EXCEPT ![c] = [phase |-> "undo", prev |-> SubSeq(p, 1, Len(p) - 1)]]
  BY <1>2 DEF Undo
<1>7. /\ tx'[c].phase = "undo" /\ tx'[c].prev = SubSeq(p, 1, Len(p) - 1)
      /\ \A d \in Clients : d # c => tx'[d] = tx[d]
  BY <1>1, <1>6 DEF TxOK
<1>8. \/ (UndoSet(s) \/ UndoCreate(s)) /\ before' = Only(c, before[c])
      \/ UndoFails(s) /\ before' = Only(c, None)
  BY <1>2, <1>4 DEF Undo
<1>9. NpuClosed'
  <2>1. CASE UNCHANGED cached
    BY <1>1, <2>1 DEF NpuClosed, cached
  <2>2. CASE s.op = "set" /\ Live(s.node) /\ Move(s.node, s.parent)
    <3>1. PICK x, y : x \in Nodes /\ x = s.node /\ y = s.parent
      BY <1>5
    <3>2. y \in Parents(x)
      BY <1>5, <2>2, <3>1
    <3>3. Bound(x) /\ Move(x, y)
      BY <2>2, <3>1 DEF Live
    <3>. QED BY <1>1, <3>1, <3>2, <3>3, MoveKeepsNpu
  <2>3. CASE MoveOffline(s.node, s.parent)
    BY <1>1, <2>3 DEF MoveOffline, NpuClosed
  <2>4. CASE Removable(s.node) /\ Remove(s.node)
    BY <1>1, <1>5, <2>4, RemoveKeepsNpu
  <2>. QED BY <1>8, <2>1, <2>2, <2>3, <2>4 DEF UndoSet, UndoCreate, UndoFails, Refused, MoveFails
<1>10. Tracked(c)'
  <2>1. PICK b : b = before[c]
    OBVIOUS
  <2>2. before'[c] # None => before'[c] = b /\ (UndoSet(s) \/ UndoCreate(s))
    BY <1>8, <2>1 DEF Only
  <2>3. b # None => CanRestore(p, b)
    BY <1>1, <1>2, <2>1 DEF AllTracked, Tracked
  <2>4. before'[c] # None => CanRestore(SubSeq(p, 1, Len(p) - 1), b)'
    BY <1>1, <1>3, <1>4, <2>2, <2>3, CanShrink
  <2>. QED BY <1>1, <1>7, <2>2, <2>4 DEF Tracked
<1>11. \A d \in Clients : d # c => Tracked(d)'
  <2>1. \A d \in Clients : d # c => before'[d] = None
    BY <1>8 DEF Only
  <2>. QED BY <1>1, <1>7, <2>1 DEF AllTracked, Tracked
<1>. QED BY <1>9, <1>10, <1>11 DEF AllTracked

----------------------------------------------------------------------------
(* The other actions. *)

LEMMA EndTracked ==
    ASSUME UndoInv, NEW c \in Clients, End(c)
    PROVE  NpuClosed' /\ AllTracked'
<1>1. TxOK /\ NpuClosed /\ AllTracked
  BY DEF UndoInv, IInv
<1>2. UNCHANGED cached /\ assoc' = assoc /\ intf' = intf
  BY DEF End, port
<1>3. /\ tx'[c] = Idle /\ before'[c] = None
      /\ \A d \in Clients : d # c => tx'[d] = tx[d] /\ before'[d] = before[d]
  BY <1>1 DEF End, TxOK, UndoInv
<1>4. ASSUME NEW d \in Clients
      PROVE  Tracked(d)'
  <2>1. CASE d = c
    BY <1>3, <2>1 DEF Tracked, Idle
  <2>2. CASE d # c
    <3>1. PICK p, b : p = tx[d].prev /\ b = before[d]
      OBVIOUS
    <3>2. tx'[d].prev = p /\ before'[d] = b /\ tx'[d] = tx[d]
      BY <1>3, <2>2, <3>1
    <3>3. b # None => CanRestore(p, b)'
      BY <1>1, <1>2, <3>1, CanStay DEF AllTracked, Tracked
    <3>. QED BY <1>1, <1>2, <3>1, <3>2, <3>3 DEF AllTracked, Tracked
  <2>. QED BY <2>1, <2>2
<1>. QED BY <1>1, <1>2, <1>4 DEF NpuClosed, cached, AllTracked

\* What ends all trails and keeps the transactions.
LEMMA DropTracked ==
    ASSUME UndoInv, NpuClosed', tx' = tx, before' = [d \in Clients |-> None]
    PROVE  NpuClosed' /\ AllTracked'
<1>1. \A d \in Clients : before'[d] = None /\ (tx'[d].phase = "idle" => tx'[d].prev = <<>>)
  BY DEF UndoInv, AllTracked, Tracked
<1>. QED BY <1>1, NoneTracked DEF UndoInv

LEMMA EventTracked ==
    ASSUME UndoInv, Event
    PROVE  NpuClosed' /\ AllTracked'
<1>1. CachedInv /\ NpuClosed /\ AllTracked /\ WaitingExist /\ AssocOK
  BY DEF UndoInv, IInv
<1>2. CASE Disassociate
  BY <1>1, <1>2, DropTracked DEF Disassociate, NpuClosed
<1>3. CASE Associate
  BY <1>1, <1>3, DropTracked DEF Associate, NpuClosed
<1>4. CASE assoc # NoAssoc
  <2>1. \A d \in Clients : before[d] = None
    BY <1>1, <1>4 DEF AllTracked, Tracked
  <2>2. Finish \/ (\E x \in Nodes : ReplayQueue(x)) \/ (\E g \in Groups : BindGroup(g))
    BY <1>4 DEF Event, Disassociate, Associate
  <2>3. tx' = tx /\ before' = before
    BY <2>2 DEF Finish, ReplayQueue, BindGroup
  <2>4. NpuClosed'
    <3>1. CASE Finish \/ (\E g \in Groups : BindGroup(g))
      BY <1>1, <3>1 DEF Finish, BindGroup, cached, NpuClosed
    <3>2. CASE \E x \in Nodes : ReplayQueue(x)
      <4>1. PICK x \in Nodes : ReplayQueue(x)
        BY <3>2
      <4>2. PICK y : y = db[x][1]
        OBVIOUS
      <4>3. Replay(x, y) /\ y \in Parents(x)
        BY <1>1, <4>1, <4>2 DEF ReplayQueue, WaitingExist, CachedInv, DbOK
      <4>4. CASE Live(x) /\ Move(x, y)
        BY <1>1, <4>3, <4>4, MoveKeepsNpu DEF Live
      <4>5. CASE MoveOffline(x, y) \/ MoveFails(x, y)
        BY <1>1, <4>5 DEF MoveOffline, MoveFails, cached, NpuClosed
      <4>. QED BY <4>3, <4>4, <4>5 DEF Replay
    <3>. QED BY <2>2, <3>1, <3>2
  <2>. QED BY <1>1, <2>1, <2>3, <2>4, NoneTracked DEF AllTracked, Tracked
<1>5. CASE assoc = NoAssoc /\ ~Disassociate /\ ~Associate
  BY <1>1, <1>5 DEF Event, Finish, ReplayQueue, BindGroup, NoAssoc
<1>. QED BY <1>2, <1>3, <1>4, <1>5

LEMMA UndoStart == Init => UndoInv
<1>. SUFFICES ASSUME Init
              PROVE  UndoInv
  OBVIOUS
<1>1. NpuClosed
  <2>. SUFFICES ASSUME NEW o \in Objects, npu[o] \notin {None, Missing}
                PROVE  npu[npu[o]] # Missing
    BY DEF NpuClosed
  <2>1. PICK n \in NpuPorts, x \in Nodes : o = <<n, x>>
    BY DEF Objects
  <2>2. npu[o] = <<n, DefaultParent(x)>> /\ x \notin Spares /\ x # Root
    BY <2>1 DEF Init, DefaultNpu
  <2>3. PICK y \in Nodes \ Spares : y = DefaultParent(x)
    BY <2>2, DefaultParents
  <2>4. <<n, y>> \in Objects
    BY DEF Objects
  <2>5. npu[<<n, y>>] = IF y = Root THEN None ELSE <<n, DefaultParent(y)>>
    BY <2>4 DEF Init, DefaultNpu
  <2>6. y # Root => <<n, DefaultParent(y)>> \in Objects
    BY DefaultParents DEF Objects
  <2>. QED BY <2>2, <2>3, <2>5, <2>6, Nulls
<1>2. AllTracked
  BY DEF Init, AllTracked, Tracked, Idle
<1>. QED BY <1>1, <1>2, Start0 DEF UndoInv, Init

LEMMA UndoStep == UndoInv /\ [Next]_vars => UndoInv'
<1>. SUFFICES ASSUME UndoInv, [Next]_vars
              PROVE  UndoInv'
  OBVIOUS
<1>1. IInv'
  BY StepKeeps DEF UndoInv
<1>2. before' = [d \in Clients |-> before'[d]]
  <2>1. ASSUME NEW c \in Clients, Request(c)
        PROVE  before' = [d \in Clients |-> before'[d]]
    <3>1. ASSUME NEW b, before' = Only(c, b)
          PROVE  before' = [d \in Clients |-> before'[d]]
      BY <3>1 DEF Only
    <3>2. ASSUME Failed(c)
          PROVE  before' = [d \in Clients |-> before'[d]]
      BY <3>2 DEF Failed, UndoInv
    <3>3. ASSUME NEW x \in Nodes, NEW y, SetParent(c, x, y)
          PROVE  before' = [d \in Clients |-> before'[d]]
      BY <3>1, <3>2, <3>3 DEF SetParent
    <3>4. ASSUME NEW x, NEW y, Create(c, x, y)
          PROVE  before' = [d \in Clients |-> before'[d]]
      BY <3>1, <3>2, <3>4 DEF Create
    <3>5. ASSUME NEW x, Delete(c, x)
          PROVE  before' = [d \in Clients |-> before'[d]]
      BY <3>1, <3>2, <3>5 DEF Delete
    <3>. QED BY <2>1, <3>3, <3>4, <3>5 DEF Request
  <2>2. ASSUME NEW c \in Clients, Undo(c) \/ End(c)
        PROVE  before' = [d \in Clients |-> before'[d]]
    BY <2>2 DEF Undo, End, Only, UndoInv
  <2>3. CASE (\E n \in NpuPorts : IfMap(n)) \/ IfUnmap
    BY <2>3 DEF IfMap, IfUnmap, Change
  <2>4. CASE Event
    BY <2>4 DEF Event, Disassociate, Associate, Finish, ReplayQueue, BindGroup, UndoInv
  <2>5. CASE UNCHANGED vars
    BY <2>5 DEF vars, UndoInv
  <2>. QED BY <2>1, <2>2, <2>3, <2>4, <2>5 DEF Next
<1>. SUFFICES NpuClosed' /\ AllTracked'
  BY <1>1, <1>2 DEF UndoInv
<1>3. ASSUME NEW c \in Clients, Request(c)
      PROVE  NpuClosed' /\ AllTracked'
  BY <1>1, <1>3, SetParentTracked, CreateTracked, DeleteTracked DEF Request, Parents
<1>4. ASSUME NEW c \in Clients, Undo(c) \/ End(c)
      PROVE  NpuClosed' /\ AllTracked'
  BY <1>1, <1>4, UndoTracked, EndTracked
<1>5. CASE (\E n \in NpuPorts : IfMap(n)) \/ IfUnmap
  <2>1. UNCHANGED cached /\ tx' = tx /\ before' = [d \in Clients |-> None]
    BY <1>5 DEF IfMap, IfUnmap, Change
  <2>. QED BY <2>1, DropTracked DEF UndoInv, NpuClosed, cached
<1>6. CASE Event
  BY <1>6, EventTracked
<1>7. CASE UNCHANGED vars
  <2>1. ASSUME NEW d \in Clients
        PROVE  Tracked(d)'
    <3>1. PICK p, b : p = tx[d].prev /\ b = before[d]
      OBVIOUS
    <3>2. UNCHANGED cached /\ intf' = intf /\ assoc' = assoc /\ tx' = tx /\ before' = before
      BY <1>7 DEF vars, port
    <3>3. b # None => CanRestore(p, b)'
      BY <3>1, <3>2, CanStay DEF UndoInv, AllTracked, Tracked
    <3>. QED BY <3>1, <3>2, <3>3 DEF UndoInv, AllTracked, Tracked
  <2>. QED BY <1>7, <2>1 DEF UndoInv, NpuClosed, vars, cached, AllTracked
<1>. QED BY <1>3, <1>4, <1>5, <1>6, <1>7 DEF Next

\* Every transaction that is not disturbed has a trail back to its beginning, and the
\* groups it created can go again: the inductive invariant of the rollback.
THEOREM UndoInvariance == Spec => []UndoInv
BY UndoStart, UndoStep, PTL DEF Spec

\* For every number of queues, groups and clients and transactions of any length: what a
\* rollback leaves has the nodes, parents and lists of children that the transaction
\* found, if it set no node that its parent did not list
\* (nas_qos_cps_api_queue_rollback, nas_qos_cps_api_scheduler_group_rollback).
THEOREM RollbacksRestoreTree == Spec => []RollbackRestores
<1>1. UndoInv => RollbackRestores
  <2>. SUFFICES ASSUME UndoInv, NEW c \in Clients, Undone(c)
                PROVE  before[c] = Shape
    BY DEF RollbackRestores
  <2>1. CanRestore(<<>>, before[c])
    BY DEF UndoInv, AllTracked, Tracked, Undone
  <2>2. PICK t \in Trees : ShapeOf(t) = before[c] /\ LeadsBack(<<>>, tree, t)
    BY <2>1 DEF CanRestore
  <2>3. tree = t
    BY <2>2, EndOfTrail
  <2>. QED BY <2>2, <2>3 DEF ShapeOf, Shape
<1>. QED BY <1>1, UndoInvariance, PTL

=============================================================================
