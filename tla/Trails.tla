------------------------------- MODULE Trails -------------------------------
(***************************************************************************)
(* The argument that the proofs about rollbacks share.  A transaction keeps *)
(* a sequence of saved steps (param->prev); a trail is a sequence of states *)
(* beside it, such that undoing each step leads from the state after it to  *)
(* the one before.  The steps may be saved and undone in any state that     *)
(* other clients leave, as long as each undoing follows the trail.          *)
(***************************************************************************)
EXTENDS Integers, SequenceTheorems, TLAPS

CONSTANTS
    Entries,        \* what may be saved
    States,         \* what a rollback is to restore
    Undoes(_, _, _) \* Undoes(s, now, then): undoing s leads from now to then

\* T holds the state after each of the steps that p saved.
Trail(T, p, now, then) ==
    /\ T \in [0 .. Len(p) -> States]
    /\ T[0] = then /\ T[Len(p)] = now
    /\ \A k \in 1 .. Len(p) : Undoes(p[k], T[k], T[k - 1])

\* Undoing all of p, the last step first, leads from now to then.
LeadsBack(p, now, then) == \E T : Trail(T, p, now, then)

----------------------------------------------------------------------------
LEMMA EmptyTrail ==
    ASSUME NEW now \in States
    PROVE  LeadsBack(<<>>, now, now)
<1>. DEFINE T == [k \in 0 .. 0 |-> now]
<1>1. Trail(T, <<>>, now, now)
  BY DEF Trail
<1>. QED BY <1>1 DEF LeadsBack

LEMMA EndOfTrail ==
    ASSUME NEW now, NEW then, LeadsBack(<<>>, now, then)
    PROVE  now = then
BY DEF LeadsBack, Trail

\* A step that is saved makes the trail longer.
LEMMA LongerTrail ==
    ASSUME NEW p \in Seq(Entries), NEW s \in Entries, NEW now \in States,
           NEW next \in States, NEW then \in States,
           LeadsBack(p, now, then), Undoes(s, next, now)
    PROVE  LeadsBack(Append(p, s), next, then)
<1>1. PICK T : Trail(T, p, now, then)
  BY DEF LeadsBack
<1>. DEFINE n == Len(p)
            q == Append(p, s)
            U == [k \in 0 .. n + 1 |-> IF k = n + 1 THEN next ELSE T[k]]
<1>2. n \in Nat /\ Len(q) = n + 1 /\ q[n + 1] = s /\ \A k \in 1 .. n : q[k] = p[k]
  OBVIOUS
<1>3. U \in [0 .. n + 1 -> States]
  BY <1>1, <1>2 DEF Trail
<1>4. U[0] = then /\ U[n + 1] = next /\ U[n] = now
  BY <1>1, <1>2 DEF Trail
<1>5. \A k \in 1 .. n + 1 : Undoes(q[k], U[k], U[k - 1])
  <2>1. ASSUME NEW k \in 1 .. n PROVE Undoes(q[k], U[k], U[k - 1])
    <3>1. U[k] = T[k] /\ U[k - 1] = T[k - 1]
      BY <1>2
    <3>. QED BY <1>1, <1>2, <3>1 DEF Trail
  <2>2. Undoes(q[n + 1], U[n + 1], U[n + 1 - 1])
    BY <1>2, <1>4
  <2>. QED BY <1>2, <2>1, <2>2
<1>6. Trail(U, q, next, then)
  BY <1>2, <1>3, <1>4, <1>5 DEF Trail
<1>. QED BY <1>6 DEF LeadsBack

\* What is left when the last element of a sequence goes.
LEMMA Front ==
    ASSUME NEW p \in Seq(Entries), p # <<>>
    PROVE  /\ Len(p) \in Nat \ {0} /\ Len(SubSeq(p, 1, Len(p) - 1)) = Len(p) - 1
           /\ \A k \in 1 .. Len(p) - 1 : SubSeq(p, 1, Len(p) - 1)[k] = p[k]
<1>. DEFINE n == Len(p)
            q == SubSeq(p, 1, n - 1)
<1>1. n \in Nat /\ n # 0
  OBVIOUS
<1>2. \A k \in 1 .. n - 1 : p[k] \in Entries
  BY <1>1
<1>3. Len(q) = n - 1
  <2>1. n - 1 \in Int /\ (IF 1 <= n - 1 THEN n - 1 - 1 + 1 ELSE 0) = n - 1
    <3>. HIDE DEF n
    <3>. QED BY <1>1
  <2>2. Len(q) = IF 1 <= n - 1 THEN n - 1 - 1 + 1 ELSE 0
    BY <1>1, <1>2, SubSeqProperties
  <2>. HIDE DEF n, q
  <2>. QED BY <2>1, <2>2
<1>4. \A k \in 1 .. n - 1 : q[k] = p[k]
  BY <1>1, <1>2, SubSeqProperties
<1>. QED BY <1>1, <1>3, <1>4

\* Undoing the step saved last leaves a shorter one.
LEMMA ShorterTrail ==
    ASSUME NEW p \in Seq(Entries), p # <<>>, NEW now, NEW then, LeadsBack(p, now, then)
    PROVE  \E mid \in States :
              /\ Undoes(p[Len(p)], now, mid)
              /\ LeadsBack(SubSeq(p, 1, Len(p) - 1), mid, then)
<1>1. PICK T : Trail(T, p, now, then)
  BY DEF LeadsBack
<1>. DEFINE n == Len(p)
            q == SubSeq(p, 1, n - 1)
            mid == T[n - 1]
            U == [k \in 0 .. n - 1 |-> T[k]]
<1>2. n \in Nat \ {0} /\ Len(q) = n - 1 /\ \A k \in 1 .. n - 1 : q[k] = p[k]
  BY Front
<1>3. mid \in States /\ Undoes(p[n], now, mid)
  BY <1>1, <1>2 DEF Trail
<1>4. U \in [0 .. n - 1 -> States] /\ U[0] = then /\ U[n - 1] = mid
  BY <1>1, <1>2 DEF Trail
<1>5. \A k \in 1 .. n - 1 : Undoes(q[k], U[k], U[k - 1])
  BY <1>1, <1>2 DEF Trail
<1>6. Trail(U, q, mid, then)
  BY <1>2, <1>4, <1>5 DEF Trail
<1>. QED BY <1>3, <1>6 DEF LeadsBack
=============================================================================
