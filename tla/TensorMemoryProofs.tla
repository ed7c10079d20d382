------------------------- MODULE TensorMemoryProofs -------------------------
(***************************************************************************)
(* Proofs about TensorMemory, for any number of handles, threads, tensors  *)
(* and storages.                                                           *)
(***************************************************************************)
EXTENDS TensorMemory, FiniteSetTheorems, TLAPS

\* The number of owners of o when f says who points where.
Count(f, o) == Cardinality(Owners(f, o))

\* What a pointer x contributes to the owners of o.
Points(x, o) == IF x = o THEN 1 ELSE 0

ObjOrNull == Obj \cup {NoObj}

LEMMA PointsType ==
  ASSUME NEW x, NEW o
  PROVE  /\ Points(x, o) \in {0, 1}
         /\ x # o => Points(x, o) = 0
BY DEF Points

\* Owners are finitely many, so that they can be counted.
LEMMA OwnersFinite ==
  ASSUME NEW f, NEW o
  PROVE  IsFiniteSet(Owners(f, o)) /\ Count(f, o) \in Nat
<1>1. IsFiniteSet(Owner)
  BY ConstantsOK, FS_Union DEF Owner
<1>2. Owners(f, o) \subseteq Owner
  BY DEF Owners
<1>3. IsFiniteSet(Owners(f, o))
  BY <1>1, <1>2, FS_Subset
<1>4. QED
  BY <1>3, FS_CardinalityType DEF Count

\* Moving one pointer takes an owner from the object it left and gives one to
\* the object it now points to.
LEMMA MoveOne ==
  ASSUME NEW f \in [Owner -> ObjOrNull], NEW w \in Owner, NEW x \in ObjOrNull,
         NEW o \in Obj
  PROVE  Count([f EXCEPT ![w] = x], o) = Count(f, o) + Points(x, o) - Points(f[w], o)
<1> DEFINE g == [f EXCEPT ![w] = x]
<1>0. Count(f, o) \in Nat /\ IsFiniteSet(Owners(f, o))
  BY OwnersFinite
<1>1. CASE x = o /\ f[w] # o
  <2>1. Owners(g, o) = Owners(f, o) \cup {w} /\ w \notin Owners(f, o)
    BY <1>1 DEF Owners
  <2>2. Cardinality(Owners(f, o) \cup {w}) = Cardinality(Owners(f, o)) + 1
    BY <2>1, <1>0, FS_AddElement
  <2>3. Count(g, o) = Count(f, o) + 1
    BY <2>1, <2>2 DEF Count
  <2>4. QED
    BY <2>3, <1>0, <1>1 DEF Points
<1>2. CASE x # o /\ f[w] = o
  <2>1. Owners(g, o) = Owners(f, o) \ {w} /\ w \in Owners(f, o)
    BY <1>2 DEF Owners
  <2>2. Cardinality(Owners(f, o) \ {w}) = Cardinality(Owners(f, o)) - 1
    BY <2>1, <1>0, FS_RemoveElement
  <2>3. Count(g, o) = Count(f, o) - 1
    BY <2>1, <2>2 DEF Count
  <2>4. QED
    BY <2>3, <1>0, <1>2 DEF Points
<1>3. CASE (x = o) <=> (f[w] = o)
  <2>1. Owners(g, o) = Owners(f, o)
    BY <1>3 DEF Owners
  <2>2. QED
    BY <2>1, <1>0, <1>3 DEF Count, Points
<1>4. QED
  BY <1>1, <1>2, <1>3

\* The same for two pointers moved in one step.
LEMMA MoveTwo ==
  ASSUME NEW f \in [Owner -> ObjOrNull], NEW g \in [Owner -> ObjOrNull],
         NEW w \in Owner, NEW v \in Owner, w # v,
         \A u \in Owner \ {w, v} : g[u] = f[u],
         NEW o \in Obj
  PROVE  Count(g, o) = Count(f, o) + Points(g[w], o) - Points(f[w], o)
                                   + Points(g[v], o) - Points(f[v], o)
<1> DEFINE e == [f EXCEPT ![w] = g[w]]
<1>1. e \in [Owner -> ObjOrNull] /\ e[v] = f[v]
  OBVIOUS
<1>2. g = [e EXCEPT ![v] = g[v]]
  OBVIOUS
<1>3. Count(e, o) = Count(f, o) + Points(g[w], o) - Points(f[w], o)
  BY MoveOne
<1>4. Count(g, o) = Count(e, o) + Points(g[v], o) - Points(e[v], o)
  <2>1. Count([e EXCEPT ![v] = g[v]], o) = Count(e, o) + Points(g[v], o) - Points(e[v], o)
    <3> HIDE DEF e
    <3> QED BY <1>1, MoveOne
  <2>2. QED
    BY <1>2, <2>1
<1>5. QED
  <2> HIDE DEF e
  <2> QED BY <1>1, <1>3, <1>4, OwnersFinite DEF Points

\* An object that something points to has an owner.
LEMMA Owned ==
  ASSUME NEW f, NEW w \in Owner, NEW o, f[w] = o
  PROVE  Count(f, o) \in Nat /\ Count(f, o) >= 1
<1>1. w \in Owners(f, o)
  BY DEF Owners
<1>2. Count(f, o) \in Nat /\ (Count(f, o) = 0 <=> Owners(f, o) = {})
  BY OwnersFinite, FS_EmptySet DEF Count
<1>3. QED
  BY <1>1, <1>2

-----------------------------------------------------------------------------
(***************************************************************************)
(* The part of the invariant that is about the C heap, and what each way   *)
(* of changing the heap does to it.                                        *)
(***************************************************************************)
HeapOK ==
  /\ ref \in [Owner -> ObjOrNull]
  /\ \A t \in Tensor : ref[t] \in Storage \cup {NoObj}
  /\ rc \in [Obj -> Int]
  /\ retained \in [Obj -> Nat]
  /\ \A o \in Obj : rc[o] = Count(ref, o) + retained[o]
  /\ \A t \in Tensor : rc[t] = 0 => ref[t] = NoObj

\* Of the handles and threads, only w may now point elsewhere.
OnlyMoves(w) == \A v \in (Handle \cup Thread) \ {w} : ref'[v] = ref[v]

\* Counts that follow Inc and Dec change where the pointers do.
LEMMA IncDec ==
  ASSUME NEW r \in [Obj -> Int], NEW x \in ObjOrNull
  PROVE  /\ Inc(r, x) \in [Obj -> Int]
         /\ Dec(r, x) \in [Obj -> Int]
         /\ \A o \in Obj : Inc(r, x)[o] = r[o] + Points(x, o)
         /\ \A o \in Obj : r[o] >= 0 => Dec(r, x)[o] = r[o] - Points(x, o)
<1>1. NoObj \notin Obj
  BY ConstantsOK DEF Obj
<1>2. CASE x = NoObj
  BY <1>1, <1>2 DEF Inc, Dec, Points
<1>3. CASE x # NoObj
  BY <1>1, <1>3 DEF Inc, Dec, Points, ObjOrNull
<1>4. QED
  BY <1>2, <1>3

\* An owned object has a positive count, so that freeing it takes one away.
LEMMA OwnedCount ==
  ASSUME HeapOK, NEW w \in Owner, ref[w] \in Obj
  PROVE  rc[ref[w]] > 0
BY Owned, OwnersFinite DEF HeapOK

LEMMA NonNegative ==
  ASSUME HeapOK, NEW o \in Obj
  PROVE  rc[o] >= 0
BY OwnersFinite DEF HeapOK

\* A new tensor, on whatever storage, is counted right.
LEMMA NewTensorKeeps ==
  ASSUME HeapOK, NEW th \in Thread, NEW s \in Storage \cup {NoObj},
         ref[th] = NoObj, NewTensor(th, s), UNCHANGED retained
  PROVE  HeapOK' /\ OnlyMoves(th)
<1>1. PICK t \in Tensor : /\ Unused(t)
                          /\ ref' = [ref EXCEPT ![th] = t, ![t] = s]
                          /\ rc' = Inc(Inc(rc, t), s)
  BY DEF NewTensor
<1>2. /\ th \in Owner /\ t \in Owner /\ th # t /\ th \notin Tensor
      /\ t \in ObjOrNull /\ s \in ObjOrNull /\ NoObj \notin Obj
      /\ t \notin Handle \cup Thread
  BY ConstantsOK DEF Owner, Obj, ObjOrNull
<1>3. ref[t] = NoObj /\ rc[t] = 0
  BY <1>1 DEF HeapOK, Unused
<1>4. ref' \in [Owner -> ObjOrNull] /\ \A u \in Tensor : ref'[u] \in Storage \cup {NoObj}
  BY <1>1, <1>2 DEF HeapOK, Owner
<1>5. rc' \in [Obj -> Int] /\ \A o \in Obj : rc'[o] = rc[o] + Points(t, o) + Points(s, o)
  <2>1. /\ Inc(rc, t) \in [Obj -> Int]
        /\ \A o \in Obj : Inc(rc, t)[o] = rc[o] + Points(t, o)
    BY <1>2, IncDec DEF HeapOK
  <2>2. /\ rc' \in [Obj -> Int]
        /\ \A o \in Obj : rc'[o] = Inc(rc, t)[o] + Points(s, o)
    BY <1>1, <1>2, <2>1, IncDec
  <2>3. QED
    BY <2>1, <2>2
<1>6. ASSUME NEW o \in Obj PROVE Count(ref', o) = Count(ref, o) + Points(t, o) + Points(s, o)
  <2>1. Count(ref', o) = Count(ref, o) + Points(t, o) - Points(ref[th], o)
                                       + Points(s, o) - Points(ref[t], o)
    <3>1. ref \in [Owner -> ObjOrNull]
      BY DEF HeapOK
    <3>2. /\ ref' \in [Owner -> ObjOrNull] /\ ref'[th] = t /\ ref'[t] = s
          /\ \A u \in Owner \ {th, t} : ref'[u] = ref[u]
      BY <3>1, <1>1, <1>2
    <3>3. QED
      BY <3>1, <3>2, <1>2, MoveTwo
  <2>2. Points(ref[th], o) = 0 /\ Points(ref[t], o) = 0
    BY <1>2, <1>3, PointsType
  <2>3. Count(ref, o) \in Int /\ Points(t, o) \in Int /\ Points(s, o) \in Int
    BY OwnersFinite, PointsType
  <2>4. QED
    BY <2>1, <2>2, <2>3
<1>7. \A o \in Obj : rc'[o] = Count(ref', o) + retained'[o]
  BY <1>5, <1>6, OwnersFinite DEF HeapOK, Points
<1>8. \A u \in Tensor : rc'[u] = 0 => ref'[u] = NoObj
  <2> SUFFICES ASSUME NEW u \in Tensor, rc'[u] = 0 PROVE ref'[u] = NoObj
    OBVIOUS
  <2>1. u \in Obj /\ rc[u] >= 0
    BY NonNegative DEF Obj
  <2>2. rc[u] = 0 /\ u # t
    BY <1>5, <2>1 DEF HeapOK, Points
  <2>3. ref'[u] = ref[u]
    BY <2>2, <1>1, <1>2 DEF HeapOK, Owner
  <2>4. QED
    BY <2>2, <2>3 DEF HeapOK
<1>9. OnlyMoves(th)
  BY <1>1, <1>2 DEF HeapOK, OnlyMoves, Owner
<1>10. QED
  BY <1>4, <1>5, <1>7, <1>8, <1>9 DEF HeapOK

\* One more counted reference for a thread.
LEMMA ShareKeeps ==
  ASSUME HeapOK, NEW th \in Thread, NEW o \in Obj,
         ref[th] = NoObj, Share(th, o), UNCHANGED retained
  PROVE  HeapOK' /\ OnlyMoves(th)
<1>1. th \in Owner /\ th \notin Tensor /\ o \in ObjOrNull /\ NoObj \notin Obj
  BY ConstantsOK DEF Owner, Obj, ObjOrNull
<1>2. rc' \in [Obj -> Int] /\ \A p \in Obj : rc'[p] = rc[p] + Points(o, p)
  BY <1>1, IncDec DEF HeapOK, Share
<1>3. ASSUME NEW p \in Obj PROVE Count(ref', p) = Count(ref, p) + Points(o, p)
  <2>1. Count(ref', p) = Count(ref, p) + Points(o, p) - Points(ref[th], p)
    BY <1>1, MoveOne DEF HeapOK, Share
  <2>2. QED
    BY <2>1, <1>1, OwnersFinite DEF Points
<1>4. \A p \in Obj : rc'[p] = Count(ref', p) + retained'[p]
  BY <1>2, <1>3, OwnersFinite DEF HeapOK, Points
<1>5. \A u \in Tensor : rc'[u] = 0 => ref'[u] = NoObj
  <2> SUFFICES ASSUME NEW u \in Tensor, rc'[u] = 0 PROVE ref'[u] = NoObj
    OBVIOUS
  <2>1. u \in Obj /\ rc[u] >= 0
    BY NonNegative DEF Obj
  <2>2. rc[u] = 0
    BY <1>2, <2>1 DEF HeapOK, Points
  <2>3. QED
    BY <2>2, <1>1 DEF HeapOK, Share
<1>6. OnlyMoves(th)
  BY <1>1 DEF HeapOK, OnlyMoves, Share, Owner
<1>7. /\ ref' \in [Owner -> ObjOrNull]
      /\ \A t \in Tensor : ref'[t] \in Storage \cup {NoObj}
  BY <1>1 DEF HeapOK, Share, Owner
<1>8. QED
  BY <1>2, <1>4, <1>5, <1>6, <1>7 DEF HeapOK

\* Putting a tensor in use on another storage, or on none.
LEMMA PutOnKeeps ==
  ASSUME HeapOK, NEW t \in Tensor, NEW s \in Storage \cup {NoObj}, rc[t] > 0,
         PutOn(t, s), UNCHANGED retained
  PROVE  HeapOK' /\ \A v \in Handle \cup Thread : ref'[v] = ref[v]
<1> DEFINE old == ref[t]
<1>1. /\ t \in Owner /\ t \in Obj /\ t \notin Handle \cup Thread
      /\ s \in ObjOrNull /\ old \in ObjOrNull /\ s # t /\ old # t
  BY ConstantsOK DEF HeapOK, Owner, Obj, ObjOrNull
<1>2. /\ rc' \in [Obj -> Int]
      /\ \A o \in Obj : rc'[o] = rc[o] + Points(s, o) - Points(old, o)
  <2>1. CASE s = old
    <3>1. rc' = rc
      BY <2>1 DEF PutOn
    <3>2. QED
      BY <3>1, <2>1, PointsType DEF HeapOK
  <2>2. CASE s # old
    <3>1. rc' = Dec(Inc(rc, s), old)
      BY <2>2 DEF PutOn
    <3>2. /\ Inc(rc, s) \in [Obj -> Int]
          /\ \A o \in Obj : Inc(rc, s)[o] = rc[o] + Points(s, o)
      BY <1>1, IncDec DEF HeapOK
    <3>3. \A o \in Obj : Inc(rc, s)[o] >= 0
      BY <3>2, NonNegative, PointsType DEF HeapOK
    <3>4. /\ rc' \in [Obj -> Int]
          /\ \A o \in Obj : rc'[o] = Inc(rc, s)[o] - Points(old, o)
      <4> HIDE DEF old
      <4> QED BY <1>1, <3>1, <3>2, <3>3, IncDec
    <3>5. ASSUME NEW o \in Obj PROVE rc'[o] = rc[o] + Points(s, o) - Points(old, o)
      <4>1. rc[o] \in Int /\ Points(s, o) \in Int /\ Points(old, o) \in Int
        BY PointsType DEF HeapOK
      <4>2. QED
        <5> HIDE DEF old
        <5> QED BY <3>2, <3>4, <4>1
    <3>6. QED
      BY <3>4, <3>5
  <2>3. QED
    BY <2>1, <2>2
<1>3. ASSUME NEW o \in Obj
      PROVE  Count(ref', o) = Count(ref, o) + Points(s, o) - Points(old, o)
  BY <1>1, MoveOne DEF HeapOK, PutOn
<1>4. \A o \in Obj : rc'[o] = Count(ref', o) + retained'[o]
  <2> SUFFICES ASSUME NEW o \in Obj PROVE rc'[o] = Count(ref', o) + retained'[o]
    OBVIOUS
  <2>1. /\ Count(ref, o) \in Int /\ Points(s, o) \in Int /\ Points(old, o) \in Int
        /\ retained[o] \in Int
    BY OwnersFinite, PointsType DEF HeapOK
  <2>2. QED
    BY <1>2, <1>3, <2>1 DEF HeapOK
<1>5. /\ ref' \in [Owner -> ObjOrNull]
      /\ \A u \in Tensor : ref'[u] \in Storage \cup {NoObj}
      /\ \A v \in Owner \ {t} : ref'[v] = ref[v]
  BY <1>1 DEF HeapOK, PutOn, Owner
<1>6. \A u \in Tensor : rc'[u] = 0 => ref'[u] = NoObj
  <2> SUFFICES ASSUME NEW u \in Tensor, rc'[u] = 0 PROVE ref'[u] = NoObj
    OBVIOUS
  <2>1. u \in Obj /\ s # u /\ old # u
    BY ConstantsOK DEF Obj, HeapOK
  <2>2. rc'[u] = rc[u]
    BY <1>2, <2>1, PointsType DEF HeapOK
  <2>3. QED
    BY <2>2, <1>5 DEF HeapOK, Owner
<1>7. QED
  BY <1>1, <1>2, <1>4, <1>5, <1>6 DEF HeapOK, Owner

\* A tensor in use that grows.
LEMMA GrowKeeps ==
  ASSUME HeapOK, NEW t \in Tensor, rc[t] > 0, Grow(t), UNCHANGED retained
  PROVE  HeapOK' /\ \A v \in Handle \cup Thread : ref'[v] = ref[v]
<1>1. CASE \E s \in Storage : PutOn(t, s)
  BY <1>1, PutOnKeeps
<1>2. CASE UNCHANGED <<ref, rc>>
  BY <1>2 DEF HeapOK, Count, Owners
<1>3. QED
  BY <1>1, <1>2 DEF Grow

\* An owner gives its reference back.
LEMMA FreeKeeps ==
  ASSUME HeapOK, NEW w \in Handle \cup Thread, Free(w), UNCHANGED retained
  PROVE  HeapOK' /\ OnlyMoves(w) /\ ref'[w] = NoObj
<1> DEFINE o == ref[w]
<1>1. /\ w \in Owner /\ w \notin Tensor /\ o \in ObjOrNull /\ NoObj \notin Obj
      /\ NoObj \in ObjOrNull
  BY ConstantsOK DEF HeapOK, Owner, Obj, ObjOrNull
<1>2. /\ Dec(rc, o) \in [Obj -> Int]
      /\ \A p \in Obj : Dec(rc, o)[p] = rc[p] - Points(o, p)
  BY <1>1, IncDec, NonNegative DEF HeapOK
<1>3. o \in Obj => rc[o] > 0
  BY <1>1, OwnedCount
<1>4. CASE o \in Tensor /\ rc[o] = 1
  <2> DEFINE s == ref[o]
  <2>1. /\ o \in Owner /\ w # o /\ s \in ObjOrNull
        /\ s \in Storage \cup {NoObj} /\ s # o /\ o \in Obj
    BY <1>1, <1>4, ConstantsOK DEF HeapOK, Owner, Obj, ObjOrNull
  <2>2. ref' = [ref EXCEPT ![w] = NoObj, ![o] = NoObj] /\ rc' = Dec(Dec(rc, o), s)
    BY <1>4 DEF Free
  <2>3. \A p \in Obj : Dec(rc, o)[p] >= 0
    BY <1>2, <1>3, NonNegative, PointsType DEF HeapOK, Points
  <2>4. /\ rc' \in [Obj -> Int]
        /\ \A p \in Obj : rc'[p] = rc[p] - Points(o, p) - Points(s, p)
    <3>1. /\ rc' \in [Obj -> Int]
          /\ \A p \in Obj : rc'[p] = Dec(rc, o)[p] - Points(s, p)
      <4> HIDE DEF o, s
      <4> QED BY <1>2, <2>1, <2>2, <2>3, IncDec
    <3>2. QED
      BY <1>2, <3>1
  <2>5. ASSUME NEW p \in Obj
        PROVE  Count(ref', p) = Count(ref, p) - Points(o, p) - Points(s, p)
    <3>1. Count(ref', p) = Count(ref, p) + Points(NoObj, p) - Points(o, p)
                                         + Points(NoObj, p) - Points(s, p)
      <4>1. ref \in [Owner -> ObjOrNull]
        BY DEF HeapOK
      <4>2. /\ ref' \in [Owner -> ObjOrNull] /\ ref'[w] = NoObj /\ ref'[o] = NoObj
            /\ \A u \in Owner \ {w, o} : ref'[u] = ref[u]
        BY <4>1, <1>1, <2>1, <2>2
      <4>3. ref[w] = o /\ ref[o] = s
        OBVIOUS
      <4>4. QED
        <5> HIDE DEF o, s
        <5> QED BY <4>1, <4>2, <4>3, <1>1, <2>1, MoveTwo
    <3>2. Points(NoObj, p) = 0
      BY <1>1, PointsType
    <3>3. Count(ref, p) \in Int /\ Points(o, p) \in Int /\ Points(s, p) \in Int
      BY OwnersFinite, PointsType
    <3>4. QED
      BY <3>1, <3>2, <3>3
  <2>6. \A p \in Obj : rc'[p] = Count(ref', p) + retained'[p]
    <3> SUFFICES ASSUME NEW p \in Obj PROVE rc'[p] = Count(ref', p) + retained'[p]
      OBVIOUS
    <3>1. /\ Count(ref, p) \in Int /\ Points(o, p) \in Int /\ Points(s, p) \in Int
          /\ retained[p] \in Int
      BY OwnersFinite, PointsType DEF HeapOK
    <3>2. QED
      BY <2>4, <2>5, <3>1 DEF HeapOK
  <2>7. /\ ref' \in [Owner -> ObjOrNull] /\ ref'[w] = NoObj /\ ref'[o] = NoObj
        /\ \A v \in Owner \ {w, o} : ref'[v] = ref[v]
    BY <1>1, <2>1, <2>2 DEF HeapOK
  <2>8. ASSUME NEW u \in Tensor
        PROVE  ref'[u] \in Storage \cup {NoObj} /\ (rc'[u] = 0 => ref'[u] = NoObj)
    <3>1. CASE u = o
      BY <3>1, <2>7
    <3>2. CASE u # o
      <4>1. u \in Obj /\ s # u /\ u \in Owner \ {w, o}
        BY <1>1, <2>1, <3>2, ConstantsOK DEF Obj, Owner
      <4>2. rc'[u] = rc[u]
        BY <2>4, <3>2, <4>1, PointsType DEF HeapOK
      <4>3. QED
        BY <4>1, <4>2, <2>7 DEF HeapOK
    <3>3. QED
      BY <3>1, <3>2
  <2>9. OnlyMoves(w)
    BY <2>7, <1>4, ConstantsOK DEF OnlyMoves, Owner
  <2>10. QED
    BY <2>4, <2>6, <2>7, <2>8, <2>9 DEF HeapOK
<1>5. CASE ~(o \in Tensor /\ rc[o] = 1)
  <2>1. ref' = [ref EXCEPT ![w] = NoObj] /\ rc' = Dec(rc, o)
    BY <1>5 DEF Free
  <2>2. ASSUME NEW p \in Obj
        PROVE  Count(ref', p) = Count(ref, p) - Points(o, p)
    <3>1. Count(ref', p) = Count(ref, p) + Points(NoObj, p) - Points(o, p)
      BY <1>1, <2>1, MoveOne DEF HeapOK
    <3>2. Points(NoObj, p) = 0
      BY <1>1, PointsType
    <3>3. Count(ref, p) \in Int /\ Points(o, p) \in Int
      BY OwnersFinite, PointsType
    <3>4. QED
      BY <3>1, <3>2, <3>3
  <2>3. \A p \in Obj : rc'[p] = Count(ref', p) + retained'[p]
    <3> SUFFICES ASSUME NEW p \in Obj PROVE rc'[p] = Count(ref', p) + retained'[p]
      OBVIOUS
    <3>1. Count(ref, p) \in Int /\ Points(o, p) \in Int /\ retained[p] \in Int
      BY OwnersFinite, PointsType DEF HeapOK
    <3>2. rc'[p] = rc[p] - Points(o, p) /\ rc[p] = Count(ref, p) + retained[p]
      BY <1>2, <2>1 DEF HeapOK
    <3>3. Count(ref', p) = Count(ref, p) - Points(o, p)
      BY <2>2
    <3>4. QED
      <4> HIDE DEF o
      <4> QED BY <3>1, <3>2, <3>3
  <2>4. /\ ref' \in [Owner -> ObjOrNull] /\ ref'[w] = NoObj
        /\ \A v \in Owner \ {w} : ref'[v] = ref[v]
    BY <1>1, <2>1 DEF HeapOK
  <2>5. ASSUME NEW u \in Tensor
        PROVE  ref'[u] \in Storage \cup {NoObj} /\ (rc'[u] = 0 => ref'[u] = NoObj)
    <3>1. u \in Obj /\ u \in Owner \ {w} /\ ref'[u] = ref[u]
      BY <1>1, <2>4 DEF Obj, Owner
    <3>2. rc'[u] = rc[u] - Points(o, u)
      BY <1>2, <2>1, <3>1
    <3>3. rc'[u] = 0 => rc[u] = 0
      <4>1. CASE u = o
        BY <4>1, <1>3, <1>5, <3>1, <3>2 DEF Points, HeapOK
      <4>2. CASE u # o
        BY <4>2, <3>1, <3>2, PointsType DEF HeapOK
      <4>3. QED
        BY <4>1, <4>2
    <3>4. QED
      BY <3>1, <3>3 DEF HeapOK
  <2>6. QED
    BY <1>2, <2>1, <2>3, <2>4, <2>5 DEF HeapOK, OnlyMoves, Owner
<1>6. QED
  BY <1>4, <1>5
-----------------------------------------------------------------------------
(***************************************************************************)
(* The part of the invariant that is about handles, scopes and frames.     *)
(***************************************************************************)
SelfOps == TensorOps \cup Tensor2Ops \cup FreeOps \cup {"_setStorage", "_catArray"}

Frames == [op : AllOps \cup {"none", "mkDynamic"},
           self : Tensor \cup {NoObj}, src : Obj \cup {NoObj}]

\* The thread u is in the frame fr with the handles hs held, and f says who
\* points where: fr is of an operation in use, its raw pointers have their
\* types and are those of handles in hs, and u has a result only where it may.
GoodFrame(fr, hs, f, u) ==
  /\ fr.op \in Ops \cup {"none", "mkDynamic"}
  /\ fr.op \in SelfOps => fr.self \in Tensor
  /\ fr.op \in Tensor2Ops => fr.src \in Tensor
  /\ fr.op \in StorageOps \cup {"_setStorage"} => fr.src \notin Tensor
  /\ f[u] # NoObj => fr.op \in FreeOps \cup {"mkDynamic"}
  /\ fr.self # NoObj => \E h \in hs : f[h] = fr.self
  /\ fr.src # NoObj => fr.op = "_catArray" \/ \E h \in hs : f[h] = fr.src

ThreadOK ==
  /\ live \subseteq Handle
  /\ reach \subseteq live
  /\ held \in [Thread -> SUBSET live]
  /\ frame \in [Thread -> Frames]
  /\ \A h \in Handle \ live : ref[h] = NoObj
  /\ \A th \in Thread : GoodFrame(frame[th], held[th], ref, th)

\* The inductive invariant.
IInv == HeapOK /\ ThreadOK

\* It is Inv, and that the operations in progress are operations in use.
LEMMA IInvInv == IInv => Inv
<1> SUFFICES ASSUME IInv PROVE Inv
  OBVIOUS
<1>1. TypeOK
  BY DEF IInv, HeapOK, ThreadOK, TypeOK, ObjOrNull, GoodFrame, Frames, SelfOps, Self, Src
<1>2. RefCount
  BY DEF IInv, HeapOK, RefCount, Count
<1>3. Tidy
  BY DEF IInv, HeapOK, ThreadOK, Tidy, GoodFrame
<1>4. Scoped
  BY DEF IInv, ThreadOK, Scoped, GoodFrame, Self, Src, Calling
<1>5. QED
  BY <1>1, <1>2, <1>3, <1>4 DEF Inv

\* A frame stays good when the pointers it rests on stay.
LEMMA GoodFrameStays ==
  ASSUME NEW fr, NEW hs, NEW f, NEW g, NEW u,
         GoodFrame(fr, hs, f, u), g[u] = f[u], \A h \in hs : g[h] = f[h]
  PROVE  GoodFrame(fr, hs, g, u)
BY DEF GoodFrame

\* While th moves its own pointer only, the other threads' frames stay good.
LEMMA OthersStay ==
  ASSUME ThreadOK, NEW th \in Thread, OnlyMoves(th),
         NEW u \in Thread \ {th}, frame'[u] = frame[u], held'[u] = held[u]
  PROVE  GoodFrame(frame'[u], held'[u], ref', u)
<1>1. GoodFrame(frame[u], held[u], ref, u)
  BY DEF ThreadOK
<1>2. ref'[u] = ref[u] /\ \A h \in held[u] : ref'[h] = ref[h]
  BY ConstantsOK DEF ThreadOK, OnlyMoves
<1>3. QED
  BY <1>1, <1>2, GoodFrameStays

\* So do handles that have been finalized point nowhere still.
LEMMA FinalizedStay ==
  ASSUME ThreadOK, NEW th \in Thread, OnlyMoves(th), UNCHANGED live
  PROVE  \A h \in Handle \ live' : ref'[h] = NoObj
BY ConstantsOK DEF ThreadOK, OnlyMoves

\* An operation ends and the thread keeps no pointer.
LEMMA EndKeeps ==
  ASSUME ThreadOK, NEW th \in Thread, End(th), OnlyMoves(th), ref'[th] = NoObj,
         UNCHANGED <<live, reach>>
  PROVE  ThreadOK'
<1>1. /\ frame' \in [Thread -> Frames] /\ held' \in [Thread -> SUBSET live']
      /\ frame'[th] = Idle /\ held'[th] = {}
      /\ \A u \in Thread \ {th} : frame'[u] = frame[u] /\ held'[u] = held[u]
  BY DEF ThreadOK, End, Frames, Idle
<1>2. GoodFrame(frame'[th], held'[th], ref', th)
  BY <1>1 DEF GoodFrame, Idle, SelfOps, TensorOps, Tensor2Ops, FreeOps, StorageOps
<1>3. \A u \in Thread : GoodFrame(frame'[u], held'[u], ref', u)
  BY <1>1, <1>2, OthersStay
<1>4. QED
  BY <1>1, <1>3, FinalizedStay DEF ThreadOK

\* An operation has a result to wrap.
LEMMA ReturnKeeps ==
  ASSUME ThreadOK, NEW th \in Thread, Return(th), OnlyMoves(th),
         UNCHANGED <<live, reach>>
  PROVE  ThreadOK'
<1>1. /\ frame' \in [Thread -> Frames] /\ held' \in [Thread -> SUBSET live']
      /\ frame'[th] = Wrapping
      /\ \A u \in Thread \ {th} : frame'[u] = frame[u] /\ held'[u] = held[u]
  BY DEF ThreadOK, Return, Frames, Wrapping
<1>2. GoodFrame(frame'[th], held'[th], ref', th)
  BY <1>1 DEF GoodFrame, Wrapping, SelfOps, TensorOps, Tensor2Ops, FreeOps, StorageOps
<1>3. \A u \in Thread : GoodFrame(frame'[u], held'[u], ref', u)
  BY <1>1, <1>2, OthersStay
<1>4. QED
  BY <1>1, <1>3, FinalizedStay DEF ThreadOK

\* An operation opens its scopes and takes its raw pointers.
LEMMA BeginKeeps ==
  ASSUME ThreadOK, NEW th \in Thread, NEW op, NEW scope \in SUBSET live,
         NEW self \in Tensor \cup {NoObj}, NEW src \in Obj \cup {NoObj},
         Begin(th, op, scope, self, src), OnlyMoves(th),
         GoodFrame([op |-> op, self |-> self, src |-> src], scope, ref', th),
         UNCHANGED <<live, reach>>
  PROVE  ThreadOK'
<1>1. op \in AllOps
  BY ConstantsOK DEF Begin
<1>2. /\ frame' \in [Thread -> Frames] /\ held' \in [Thread -> SUBSET live']
      /\ frame'[th] = [op |-> op, self |-> self, src |-> src] /\ held'[th] = scope
      /\ \A u \in Thread \ {th} : frame'[u] = frame[u] /\ held'[u] = held[u]
  BY <1>1 DEF ThreadOK, Begin, Frames
<1>3. GoodFrame(frame'[th], held'[th], ref', th)
  BY <1>2
<1>4. \A u \in Thread : GoodFrame(frame'[u], held'[u], ref', u)
  BY <1>2, <1>3, OthersStay
<1>5. QED
  BY <1>2, <1>4, FinalizedStay DEF ThreadOK
-----------------------------------------------------------------------------
(***************************************************************************)
(* One lemma per kind of step.                                             *)
(***************************************************************************)
LEMMA HeapStays ==
  ASSUME HeapOK, UNCHANGED <<ref, rc, retained>>
  PROVE  HeapOK'
BY DEF HeapOK, Count, Owners

\* A thread outside the frees and the wrapping has no pointer of its own.
LEMMA Fresh ==
  ASSUME IInv, NEW th \in Thread, frame[th].op \notin FreeOps \cup {"mkDynamic"}
  PROVE  ref[th] = NoObj
BY DEF IInv, ThreadOK, GoodFrame

\* The tensor an operation is called on is allocated: a scope holds its handle.
LEMMA SelfInUse ==
  ASSUME IInv, NEW th \in Thread, frame[th].op \in SelfOps
  PROVE  Self(th) \in Tensor /\ rc[Self(th)] > 0
<1>1. GoodFrame(frame[th], held[th], ref, th)
  BY DEF IInv, ThreadOK
<1>2. Self(th) \in Tensor /\ Self(th) # NoObj
  BY <1>1, ConstantsOK DEF GoodFrame, Self
<1>3. PICK h \in held[th] : ref[h] = Self(th)
  BY <1>1, <1>2 DEF GoodFrame, Self
<1>4. h \in Owner /\ ref[h] \in Obj
  BY <1>2, <1>3 DEF IInv, ThreadOK, Owner, Obj
<1>5. QED
  BY <1>2, <1>3, <1>4, OwnedCount DEF IInv

\* Opening scopes leaves the heap alone ...
LEMMA EnterKeeps ==
  ASSUME IInv, NEW th \in Thread,
         \/ mkDynamicIO(th)
         \/ withDynamicState(th)
         \/ with2DynamicState(th)
         \/ withStorageState(th)
         \/ withDynamicStateAndStorage(th)
         \/ catArrayBegin(th)
  PROVE  IInv'
<1> USE DEF IInv, Dynamics, Storages
<1>1. /\ UNCHANGED <<ref, rc, retained, live, reach>>
      /\ OnlyMoves(th) /\ HeapOK'
  BY HeapStays DEF mkDynamicIO, withDynamicState, with2DynamicState, withStorageState,
     withDynamicStateAndStorage, catArrayBegin, OnlyMoves
<1>2. frame[th] = Idle
  BY DEF mkDynamicIO, withDynamicState, with2DynamicState, withStorageState,
     withDynamicStateAndStorage, catArrayBegin, Begin
<1>3. ref'[th] = NoObj
  BY <1>1, <1>2, Fresh DEF Idle, FreeOps
<1>4. reach \subseteq live /\ live \subseteq Handle /\ NoObj \notin Obj
      /\ \A h \in Handle : ref[h] \in Obj \cup {NoObj}
  BY ConstantsOK DEF ThreadOK, HeapOK, Owner, ObjOrNull, Obj
<1>5. CASE mkDynamicIO(th)
  <2>1. PICK op \in MakeOps : Begin(th, op, {}, NoObj, NoObj)
    BY <1>5 DEF mkDynamicIO
  <2>2. GoodFrame([op |-> op, self |-> NoObj, src |-> NoObj], {}, ref', th)
    BY <2>1, <1>3, ConstantsOK DEF GoodFrame, Begin, MakeOps, SelfOps, TensorOps,
       Tensor2Ops, StorageOps, FreeOps
  <2>3. QED
    BY <1>1, <2>1, <2>2, BeginKeeps
<1>6. CASE withDynamicState(th)
  <2>1. PICK op \in TensorOps, h \in Dynamics : Begin(th, op, {h}, ref[h], NoObj)
    BY <1>6 DEF withDynamicState
  <2>2. GoodFrame([op |-> op, self |-> ref[h], src |-> NoObj], {h}, ref', th)
    BY <2>1, <1>1, <1>3, ConstantsOK DEF GoodFrame, Begin, TensorOps, Tensor2Ops,
       StorageOps
  <2>3. QED
    BY <1>1, <1>4, <2>1, <2>2, BeginKeeps
<1>7. CASE with2DynamicState(th)
  <2>1. PICK op \in Tensor2Ops, h \in Dynamics, g \in Dynamics :
          Begin(th, op, {h, g}, ref[h], ref[g])
    BY <1>7 DEF with2DynamicState
  <2>2. GoodFrame([op |-> op, self |-> ref[h], src |-> ref[g]], {h, g}, ref', th)
    BY <2>1, <1>1, <1>3, ConstantsOK DEF GoodFrame, Begin, Tensor2Ops, StorageOps
  <2>3. QED
    BY <1>1, <1>4, <2>1, <2>2, BeginKeeps DEF Obj
<1>8. CASE withStorageState(th)
  <2>1. PICK op \in StorageOps, h \in Storages : Begin(th, op, {h}, NoObj, ref[h])
    BY <1>8 DEF withStorageState
  <2>2. GoodFrame([op |-> op, self |-> NoObj, src |-> ref[h]], {h}, ref', th)
    BY <2>1, <1>1, <1>3, ConstantsOK DEF GoodFrame, Begin, SelfOps, TensorOps,
       Tensor2Ops, FreeOps, StorageOps
  <2>3. QED
    BY <1>1, <1>4, <2>1, <2>2, BeginKeeps
<1>9. CASE withDynamicStateAndStorage(th)
  <2>1. PICK h \in Dynamics, g \in Storages :
          Begin(th, "_setStorage", {h, g}, ref[h], ref[g])
    BY <1>9 DEF withDynamicStateAndStorage
  <2>2. GoodFrame([op |-> "_setStorage", self |-> ref[h], src |-> ref[g]], {h, g}, ref', th)
    BY <2>1, <1>1, <1>3, ConstantsOK DEF GoodFrame, Begin, Tensor2Ops
  <2>3. QED
    BY <1>1, <1>4, <2>1, <2>2, BeginKeeps
<1>10. CASE catArrayBegin(th)
  <2>1. PICK h \in Dynamics, g \in Dynamics :
          Begin(th, "_catArray", {h}, ref[h], ref[g])
    BY <1>10 DEF catArrayBegin
  <2>2. GoodFrame([op |-> "_catArray", self |-> ref[h], src |-> ref[g]], {h}, ref', th)
    BY <2>1, <1>1, <1>3, ConstantsOK DEF GoodFrame, Begin, Tensor2Ops, StorageOps
  <2>3. QED
    BY <1>1, <1>4, <2>1, <2>2, BeginKeeps DEF Obj
<1>11. QED
  BY <1>5, <1>6, <1>7, <1>8, <1>9, <1>10

\* ... but for a free by hand, which hands the thread the reference to give back.
LEMMA freeBeginKeeps ==
  ASSUME IInv, NEW th \in Thread, freeBegin(th)
  PROVE  IInv'
<1>1. PICK op \in FreeOps, h \in Dynamics, g \in Dynamics :
        /\ retained[ref[h]] > 0
        /\ Begin(th, op, {h, g}, ref[h], ref[g])
        /\ ref' = [ref EXCEPT ![th] = ref[h]]
        /\ retained' = [retained EXCEPT ![ref[h]] = @ - 1]
  BY DEF freeBegin
<1> DEFINE o == ref[h]
<1>2. /\ o \in Tensor /\ o \in Obj /\ o \in ObjOrNull /\ ref[g] \in Tensor /\ NoObj \notin Obj
      /\ h \in live /\ g \in live /\ h \in Handle /\ g \in Handle
      /\ th \in Owner /\ th \notin Tensor /\ th \notin Handle
  BY ConstantsOK DEF Dynamics, IInv, ThreadOK, Obj, ObjOrNull, Owner
<1>3. UNCHANGED <<rc, live, reach>>
  BY DEF freeBegin
<1>4. ref[th] = NoObj
  BY <1>1, Fresh DEF Begin, Idle, FreeOps
<1>5. /\ ref' \in [Owner -> ObjOrNull] /\ ref'[th] = o
      /\ \A v \in Owner \ {th} : ref'[v] = ref[v]
  BY <1>1, <1>2 DEF IInv, HeapOK
<1>6. HeapOK'
  <2>1. retained' \in [Obj -> Nat]
        /\ \A p \in Obj : retained'[p] = retained[p] - Points(o, p)
    BY <1>1, <1>2 DEF IInv, HeapOK, Points
  <2>2. ASSUME NEW p \in Obj PROVE rc'[p] = Count(ref', p) + retained'[p]
    <3>1. Count(ref', p) = Count(ref, p) + Points(o, p) - Points(ref[th], p)
      <4>1. ref \in [Owner -> ObjOrNull]
        BY DEF IInv, HeapOK
      <4>2. QED
        BY <4>1, <1>1, <1>2, MoveOne
    <3>2. Points(ref[th], p) = 0
      BY <1>2, <1>4, PointsType
    <3>3. /\ Count(ref, p) \in Int /\ Points(o, p) \in Int /\ retained[p] \in Int
          /\ rc'[p] = Count(ref, p) + retained[p]
      BY <1>3, OwnersFinite, PointsType DEF IInv, HeapOK
    <3>4. QED
      <4> HIDE DEF o
      <4> QED BY <2>1, <3>1, <3>2, <3>3
  <2>3. \A t \in Tensor : ref'[t] = ref[t]
    BY <1>2, <1>5 DEF Owner
  <2>4. QED
    BY <1>3, <1>5, <2>1, <2>2, <2>3 DEF IInv, HeapOK
<1>7. ThreadOK'
  <2>1. OnlyMoves(th)
    BY <1>5 DEF OnlyMoves, Owner
  <2>2. ref'[h] = ref[h] /\ ref'[g] = ref[g]
    BY <1>2, <1>5 DEF Owner
  <2>3. op \in Ops
    BY <1>1 DEF Begin
  <2>4. GoodFrame([op |-> op, self |-> ref[h], src |-> ref[g]], {h, g}, ref', th)
    BY <1>2, <2>2, <2>3, ConstantsOK DEF GoodFrame, FreeOps, Tensor2Ops, StorageOps
  <2>5. QED
    BY <1>1, <1>2, <1>3, <2>1, <2>4, BeginKeeps DEF IInv, Obj
<1>8. QED
  BY <1>6, <1>7 DEF IInv

\* What an operation can get at: the objects of the handles that its scopes hold, of
\* its result, those retained by hand, and the storages of such tensors.
Takes == (Storage \cap Heap!Usable) \cup {NoObj}

LEMMA WantedFacts ==
  /\ Heap!Wanted \subseteq Obj
  /\ \A th \in Thread : \A h \in held[th] : ref[h] \in Obj => ref[h] \in Heap!Wanted
  /\ \A h \in reach : ref[h] \in Obj => ref[h] \in Heap!Wanted
  /\ \A th \in Thread : ref[th] \in Obj => ref[th] \in Heap!Wanted
  /\ \A o \in Obj : retained[o] > 0 => o \in Heap!Wanted
  /\ \A t \in Tensor : t \in Heap!Wanted /\ ref[t] \in Storage => ref[t] \in Heap!Wanted
<1> DEFINE known == reach \cup UNION {held[th] : th \in Thread}
           top == {o \in Obj : retained[o] > 0 \/ \E w \in known \cup Thread : ref[w] = o}
<1>1. Heap!Wanted = top \cup {s \in Storage : \E t \in Tensor \cap top : ref[t] = s}
  BY DEF Heap!Wanted, Heap!Obj, Obj
<1>2. \A t \in Tensor : t \in Heap!Wanted => t \in top
  BY <1>1, ConstantsOK
<1>3. QED
  BY <1>1, <1>2 DEF Obj

\* An address that C has not given out is one that an operation can take.
LEMMA UnusedUsable ==
  ASSUME NEW o \in Obj, Unused(o)
  PROVE  o \in Heap!Usable
BY DEF Unused, Heap!Usable, Heap!Obj, Obj

LEMMA SelfWanted ==
  ASSUME IInv, NEW th \in Thread, frame[th].op \in SelfOps
  PROVE  /\ Self(th) \in Tensor /\ Self(th) \in Heap!Wanted
         /\ ref[Self(th)] \in Takes
<1>1. GoodFrame(frame[th], held[th], ref, th)
  BY DEF IInv, ThreadOK
<1>2. Self(th) \in Tensor /\ Self(th) # NoObj
  BY <1>1, ConstantsOK DEF GoodFrame, Self
<1>3. PICK h \in held[th] : ref[h] = Self(th)
  BY <1>1, <1>2 DEF GoodFrame, Self
<1>4. Self(th) \in Heap!Wanted
  BY <1>2, <1>3, WantedFacts DEF Obj
<1>5. ref[Self(th)] \in Storage \cup {NoObj}
  BY <1>2 DEF IInv, HeapOK
<1>6. QED
  BY <1>2, <1>4, <1>5, WantedFacts DEF Takes, Heap!Usable

\* The second pointer of an operation, _catArray excepted.
LEMMA SrcWanted ==
  ASSUME IInv, NEW th \in Thread, frame[th].op # "_catArray", Src(th) # NoObj
  PROVE  /\ Src(th) \in Obj /\ Src(th) \in Heap!Wanted
         /\ Src(th) \in Storage => Src(th) \in Takes
         /\ Src(th) \in Tensor => ref[Src(th)] \in Takes
<1>1. GoodFrame(frame[th], held[th], ref, th) /\ frame[th] \in Frames
  BY DEF IInv, ThreadOK
<1>2. Src(th) \in Obj
  BY <1>1 DEF Frames, Src
<1>3. PICK h \in held[th] : ref[h] = Src(th)
  BY <1>1 DEF GoodFrame, Src
<1>4. Src(th) \in Heap!Wanted
  BY <1>2, <1>3, WantedFacts
<1>5. Src(th) \in Tensor => ref[Src(th)] \in Storage \cup {NoObj}
  BY DEF IInv, HeapOK
<1>6. QED
  BY <1>2, <1>4, <1>5, WantedFacts DEF Takes, Heap!Usable

\* The calls that return an object make a tensor, or share what there is.
LEMMA MakesOrShares ==
  ASSUME IInv, NEW th \in Thread,
         \/ empty(th)
         \/ newWithSize(th)
         \/ newStorage(th)
         \/ newX(th)
         \/ newClone(th)
         \/ newContiguous(th)
         \/ newWithStorage(th)
  PROVE  /\ ref[th] = NoObj /\ Return(th) /\ UNCHANGED <<retained, live, reach>>
         /\ \/ \E s \in Takes : NewTensor(th, s)
            \/ \E o \in Obj \cap Heap!Usable : Share(th, o)
<1>1. Return(th) /\ UNCHANGED <<retained, live, reach>>
  BY DEF empty, newWithSize, newStorage, newX, newClone, newContiguous, newWithStorage
<1>2. ref[th] = NoObj
  BY Fresh DEF empty, newWithSize, newStorage, newX, newClone, newContiguous,
     newWithStorage, Calling, FreeOps
<1>3. \/ \E s \in Takes : NewTensor(th, s)
      \/ \E o \in Obj \cap Heap!Usable : Share(th, o)
  <2> NoObj \in Takes /\ \A s \in Storage : s \in Obj /\ (Unused(s) => s \in Takes)
    BY UnusedUsable DEF Takes, Obj
  <2>1. CASE empty(th)
    BY <2>1 DEF empty
  <2>2. CASE newWithSize(th)
    BY <2>2 DEF newWithSize
  <2>3. CASE newStorage(th)
    BY <2>3, UnusedUsable DEF newStorage
  <2>4. CASE newX(th)
    <3>1. ref[Self(th)] \in Takes
      BY <2>4, SelfWanted DEF newX, Calling, SelfOps, TensorOps
    <3>2. QED
      BY <2>4, <3>1 DEF newX
  <2>5. CASE newClone(th)
    BY <2>5 DEF newClone, Clone
  <2>6. CASE newContiguous(th)
    <3>1. Self(th) \in Tensor /\ Self(th) \in Heap!Wanted
      BY <2>6, SelfWanted DEF newContiguous, Calling, SelfOps, TensorOps
    <3>2. Self(th) \in Obj \cap Heap!Usable
      BY <3>1 DEF Obj, Heap!Usable
    <3>3. QED
      BY <2>6, <3>2 DEF newContiguous, Clone
  <2>7. CASE newWithStorage(th)
    <3>1. Src(th) \in Storage \cup {NoObj}
      BY <2>7 DEF newWithStorage, Calling, Src, IInv, ThreadOK, GoodFrame, Frames,
         StorageOps, Obj
    <3>2. Src(th) \in Takes
      BY <2>7, <3>1, SrcWanted DEF newWithStorage, Calling, Takes
    <3>3. QED
      BY <2>7, <3>2 DEF newWithStorage
  <2>8. QED
    BY <2>1, <2>2, <2>3, <2>4, <2>5, <2>6, <2>7
<1>4. QED
  BY <1>1, <1>2, <1>3

LEMMA MakeKeeps ==
  ASSUME IInv, NEW th \in Thread,
         \/ empty(th)
         \/ newWithSize(th)
         \/ newStorage(th)
         \/ newX(th)
         \/ newClone(th)
         \/ newContiguous(th)
         \/ newWithStorage(th)
  PROVE  IInv'
<1>1. /\ ref[th] = NoObj /\ Return(th) /\ UNCHANGED <<retained, live, reach>>
      /\ \/ \E s \in Storage \cup {NoObj} : NewTensor(th, s)
         \/ \E o \in Obj : Share(th, o)
  BY MakesOrShares DEF Takes
<1>2. HeapOK' /\ OnlyMoves(th)
  BY <1>1, NewTensorKeeps, ShareKeeps DEF IInv
<1>3. QED
  BY <1>1, <1>2, ReturnKeeps DEF IInv

\* The calls that change a tensor in use give it a storage, or leave it alone.
LEMMA PutsOrGrows ==
  ASSUME IInv, NEW th \in Thread,
         _resize(th) \/ _set(th) \/ _setStorage(th) \/ math(th)
  PROVE  /\ ref[th] = NoObj /\ End(th) /\ UNCHANGED <<retained, live, reach>>
         /\ Self(th) \in Tensor /\ rc[Self(th)] > 0 /\ Self(th) \in Heap!Wanted
         /\ Grow(Self(th)) \/ \E s \in Takes : PutOn(Self(th), s)
<1>1. /\ End(th) /\ UNCHANGED <<retained, live, reach>>
      /\ frame[th].op \in SelfOps \ FreeOps
  BY DEF _resize, _set, _setStorage, math, Calling, SelfOps, TensorOps, Tensor2Ops, FreeOps
<1>2. Self(th) \in Tensor /\ rc[Self(th)] > 0 /\ Self(th) \in Heap!Wanted
  BY <1>1, SelfInUse, SelfWanted
<1>3. ref[th] = NoObj
  BY <1>1, Fresh DEF SelfOps, TensorOps, Tensor2Ops, FreeOps
<1>4. Grow(Self(th)) \/ \E s \in Takes : PutOn(Self(th), s)
  <2>1. CASE _set(th)
    <3>1. Src(th) \in Tensor
      BY <2>1 DEF _set, Calling, Src, Tensor2Ops, IInv, ThreadOK, GoodFrame
    <3>2. ref[Src(th)] \in Takes
      BY <2>1, <3>1, SrcWanted, ConstantsOK DEF _set, Calling
    <3>3. QED
      BY <2>1, <3>2 DEF _set
  <2>2. CASE _setStorage(th)
    <3>1. Src(th) \in Storage \cup {NoObj}
      BY <2>2 DEF _setStorage, Calling, Src, IInv, ThreadOK, GoodFrame, Frames,
         StorageOps, Obj
    <3>2. Src(th) \in Takes
      BY <2>2, <3>1, SrcWanted DEF _setStorage, Calling, Takes
    <3>3. QED
      BY <2>2, <3>2 DEF _setStorage
  <2>3. CASE _resize(th) \/ math(th)
    BY <2>3 DEF _resize, math
  <2>4. QED
    BY <2>1, <2>2, <2>3
<1>5. QED
  BY <1>1, <1>2, <1>3, <1>4

LEMMA ChangeKeeps ==
  ASSUME IInv, NEW th \in Thread,
         _resize(th) \/ _set(th) \/ _setStorage(th) \/ math(th)
  PROVE  IInv'
<1>1. /\ ref[th] = NoObj /\ End(th) /\ UNCHANGED <<retained, live, reach>>
      /\ Self(th) \in Tensor /\ rc[Self(th)] > 0
      /\ Grow(Self(th)) \/ \E s \in Storage \cup {NoObj} : PutOn(Self(th), s)
  BY PutsOrGrows DEF Takes
<1>2. HeapOK' /\ \A v \in Handle \cup Thread : ref'[v] = ref[v]
  BY <1>1, GrowKeeps, PutOnKeeps DEF IInv
<1>3. QED
  BY <1>1, <1>2, EndKeeps DEF IInv, OnlyMoves

LEMMA retainKeeps ==
  ASSUME IInv, NEW th \in Thread, retain(th)
  PROVE  IInv'
<1>1. End(th) /\ UNCHANGED <<ref, live, reach>>
  BY DEF retain
<1>2. ref'[th] = NoObj /\ OnlyMoves(th)
  BY <1>1, Fresh DEF retain, Calling, FreeOps, OnlyMoves
<1>3. PICK o \in ObjOrNull : RetainBy(th, o)
  BY DEF retain, Self, Src, IInv, ThreadOK, Frames, Obj, ObjOrNull
<1>4. HeapOK'
  <2>1. CASE o = NoObj
    BY <1>1, <1>3, <2>1, HeapStays DEF RetainBy, IInv
  <2>2. CASE o # NoObj
    <3>1. rc' = Inc(rc, o) /\ retained' = Inc(retained, o)
      BY <1>3, <2>2 DEF RetainBy
    <3>2. rc' \in [Obj -> Int] /\ \A p \in Obj : rc'[p] = rc[p] + Points(o, p)
      BY <3>1, IncDec DEF IInv, HeapOK
    <3>3. /\ retained' \in [Obj -> Nat]
          /\ \A p \in Obj : retained'[p] = retained[p] + Points(o, p)
      <4>1. o \in Obj /\ retained \in [Obj -> Nat]
        BY <2>2 DEF IInv, HeapOK, ObjOrNull
      <4>2. retained' = [retained EXCEPT ![o] = @ + 1]
        BY <3>1, <2>2 DEF Inc
      <4>3. QED
        BY <4>1, <4>2 DEF Points
    <3>4. ASSUME NEW p \in Obj PROVE rc'[p] = Count(ref', p) + retained'[p]
      <4>1. Count(ref', p) = Count(ref, p) /\ Count(ref, p) \in Nat
        BY <1>1, OwnersFinite DEF Count, Owners
      <4>2. QED
        BY <3>2, <3>3, <4>1, PointsType DEF IInv, HeapOK
    <3>5. ASSUME NEW t \in Tensor, rc'[t] = 0 PROVE ref'[t] = NoObj
      <4>1. t \in Obj /\ rc[t] >= 0
        BY NonNegative DEF IInv, Obj
      <4>2. rc[t] = 0
        BY <3>2, <3>5, <4>1, PointsType DEF IInv, HeapOK
      <4>3. QED
        BY <1>1, <4>2 DEF IInv, HeapOK
    <3>6. QED
      BY <1>1, <3>2, <3>3, <3>4, <3>5 DEF IInv, HeapOK
  <2>3. QED
    BY <2>1, <2>2
<1>5. QED
  BY <1>1, <1>2, <1>4, EndKeeps DEF IInv

LEMMA freeKeeps ==
  ASSUME IInv, NEW th \in Thread, _free(th)
  PROVE  IInv'
<1>1. End(th) /\ Free(th) /\ UNCHANGED <<retained, live, reach>>
  BY DEF _free
<1>2. HeapOK' /\ OnlyMoves(th) /\ ref'[th] = NoObj
  BY <1>1, FreeKeeps DEF IInv
<1>3. QED
  BY <1>1, <1>2, EndKeeps DEF IInv

\* Wrapping a result moves the thread's reference to a handle that had none.
LEMMA mkDynamicKeeps ==
  ASSUME IInv, NEW th \in Thread, mkDynamic(th)
  PROVE  IInv'
<1>1. PICK h \in Handle \ live : /\ ref' = [ref EXCEPT ![h] = ref[th], ![th] = NoObj]
                                 /\ live' = live \cup {h}
                                 /\ reach' = reach \cup {h}
  BY DEF mkDynamic
<1>2. End(th) /\ UNCHANGED <<rc, retained>>
  BY DEF mkDynamic
<1>3. /\ h \in Owner /\ th \in Owner /\ h # th /\ h \notin Tensor /\ th \notin Tensor
      /\ h \in Handle /\ h \notin Thread /\ NoObj \in ObjOrNull /\ NoObj \notin Obj
      /\ ref \in [Owner -> ObjOrNull] /\ ref[h] = NoObj
  BY ConstantsOK DEF IInv, ThreadOK, HeapOK, Owner, ObjOrNull, Obj
<1>4. /\ ref' \in [Owner -> ObjOrNull] /\ ref'[h] = ref[th] /\ ref'[th] = NoObj
      /\ \A v \in Owner \ {h, th} : ref'[v] = ref[v]
  BY <1>1, <1>3
<1>5. HeapOK'
  <2>1. ASSUME NEW o \in Obj PROVE rc'[o] = Count(ref', o) + retained'[o]
    <3>1. Count(ref', o) = Count(ref, o) + Points(ref[th], o) - Points(ref[h], o)
                                         + Points(NoObj, o) - Points(ref[th], o)
      BY <1>3, <1>4, MoveTwo
    <3>2. Points(ref[h], o) = 0 /\ Points(NoObj, o) = 0
      BY <1>3, PointsType
    <3>3. Count(ref, o) \in Int /\ Points(ref[th], o) \in Int
      BY OwnersFinite, PointsType
    <3>4. Count(ref', o) = Count(ref, o)
      BY <3>1, <3>2, <3>3
    <3>5. QED
      BY <3>4, <1>2 DEF IInv, HeapOK
  <2>2. \A t \in Tensor : ref'[t] = ref[t]
    BY <1>3, <1>4 DEF Owner
  <2>3. QED
    BY <1>2, <1>4, <2>1, <2>2 DEF IInv, HeapOK
<1>6. ThreadOK'
  <2>1. /\ frame' \in [Thread -> Frames] /\ held' \in [Thread -> SUBSET live']
        /\ frame'[th] = Idle /\ held'[th] = {}
        /\ \A u \in Thread \ {th} : frame'[u] = frame[u] /\ held'[u] = held[u]
    BY <1>1, <1>2 DEF IInv, ThreadOK, End, Frames, Idle
  <2>2. GoodFrame(frame'[th], held'[th], ref', th)
    BY <2>1, <1>4 DEF GoodFrame, Idle, SelfOps, TensorOps, Tensor2Ops, FreeOps, StorageOps
  <2>3. ASSUME NEW u \in Thread \ {th} PROVE GoodFrame(frame'[u], held'[u], ref', u)
    <3>1. GoodFrame(frame[u], held[u], ref, u) /\ held[u] \subseteq live
      BY DEF IInv, ThreadOK
    <3>2. ref'[u] = ref[u] /\ \A g \in held[u] : ref'[g] = ref[g]
      BY <1>1, <1>3, <1>4, <3>1, ConstantsOK DEF Owner, IInv, ThreadOK
    <3>3. QED
      BY <2>1, <3>1, <3>2, GoodFrameStays
  <2>4. \A g \in Handle \ live' : ref'[g] = NoObj
    BY <1>1, <1>3, <1>4, ConstantsOK DEF Owner, IInv, ThreadOK
  <2>5. live' \subseteq Handle /\ reach' \subseteq live'
    BY <1>1 DEF IInv, ThreadOK
  <2>6. QED
    BY <2>1, <2>2, <2>3, <2>4, <2>5 DEF ThreadOK
<1>7. QED
  BY <1>5, <1>6 DEF IInv

LEMMA ForgetKeeps ==
  ASSUME IInv, NEW h \in Handle, Forget(h)
  PROVE  IInv'
<1>1. HeapOK'
  BY HeapStays DEF Forget, IInv
<1>2. ThreadOK'
  BY DEF Forget, IInv, ThreadOK, GoodFrame
<1>3. QED
  BY <1>1, <1>2 DEF IInv

\* No scope holds the handle that is finalized, so every frame stays good.
LEMMA FinalizeKeeps ==
  ASSUME IInv, NEW h \in Handle, Finalize(h)
  PROVE  IInv'
<1>1. HeapOK' /\ OnlyMoves(h) /\ ref'[h] = NoObj
  BY FreeKeeps DEF IInv, Finalize
<1>2. ThreadOK'
  <2>1. /\ live' = live \ {h} /\ UNCHANGED <<reach, frame, held>> /\ h \notin reach
        /\ \A th \in Thread : h \notin held[th]
    BY DEF Finalize
  <2>2. held' \in [Thread -> SUBSET live'] /\ reach' \subseteq live' /\ live' \subseteq Handle
    BY <2>1 DEF IInv, ThreadOK
  <2>3. ASSUME NEW u \in Thread PROVE GoodFrame(frame'[u], held'[u], ref', u)
    <3>1. GoodFrame(frame[u], held[u], ref, u) /\ held[u] \subseteq Handle \ {h}
      BY <2>1 DEF IInv, ThreadOK
    <3>2. ref'[u] = ref[u] /\ \A g \in held[u] : ref'[g] = ref[g]
      BY <1>1, <3>1, ConstantsOK DEF OnlyMoves
    <3>3. QED
      BY <2>1, <3>1, <3>2, GoodFrameStays
  <2>4. \A g \in Handle \ live' : ref'[g] = NoObj
    BY <1>1, <2>1 DEF OnlyMoves, IInv, ThreadOK
  <2>5. QED
    BY <2>1, <2>2, <2>3, <2>4 DEF IInv, ThreadOK
<1>3. QED
  BY <1>1, <1>2 DEF IInv
-----------------------------------------------------------------------------
(***************************************************************************)
(* The theorems.                                                           *)
(***************************************************************************)
LEMMA InitIInv == Init => IInv
<1> SUFFICES ASSUME Init PROVE IInv
  OBVIOUS
<1>1. HeapOK
  <2>1. ASSUME NEW o \in Obj PROVE Count(ref, o) = 0
    <3>1. Owners(ref, o) = {}
      BY ConstantsOK DEF Init, Owners, Obj
    <3>2. QED
      BY <3>1, FS_EmptySet DEF Count
  <2>2. QED
    BY <2>1 DEF Init, HeapOK, ObjOrNull, Owner, Obj
<1>2. ThreadOK
  BY ConstantsOK DEF Init, ThreadOK, Idle, Frames, GoodFrame, Owner, SelfOps,
     TensorOps, Tensor2Ops, StorageOps, FreeOps
<1>3. QED
  BY <1>1, <1>2 DEF IInv

\* Every step of a program that uses counted operations only keeps IInv.
LEMMA NextIInv ==
  ASSUME Ops \subseteq CountedOps
  PROVE  IInv /\ [Next]_vars => IInv'
<1> SUFFICES ASSUME IInv, [Next]_vars PROVE IInv'
  OBVIOUS
<1>1. ASSUME NEW th \in Thread, Enter(th) PROVE IInv'
  BY <1>1, EnterKeeps, freeBeginKeeps DEF Enter
<1>2. ASSUME NEW th \in Thread, Call(th) PROVE IInv'
  <2>1. ~storage(th) /\ ~copyType(th)
    BY DEF storage, copyType, Calling, IInv, ThreadOK, GoodFrame, CountedOps
  <2>2. QED
    BY <1>2, <2>1, MakeKeeps, ChangeKeeps, retainKeeps, freeKeeps DEF Call
<1>3. ASSUME NEW th \in Thread, mkDynamic(th) PROVE IInv'
  BY <1>3, mkDynamicKeeps
<1>4. ASSUME NEW h \in Handle, Forget(h) \/ Finalize(h) PROVE IInv'
  BY <1>4, ForgetKeeps, FinalizeKeeps
<1>5. CASE UNCHANGED vars
  BY <1>5, HeapStays DEF vars, IInv, ThreadOK, GoodFrame
<1>6. QED
  BY <1>1, <1>2, <1>3, <1>4, <1>5 DEF Next

\* With the operations that keep C's counts, the invariant holds always: the
\* counts are the owners, what is not in use points nowhere, and operations
\* have the raw pointers of handles their scopes keep from being finalized.
THEOREM Invariance ==
  ASSUME Ops \subseteq CountedOps
  PROVE  Spec => []Inv
<1>1. Spec => []IInv
  BY InitIInv, NextIInv, PTL DEF Spec
<1>2. QED
  BY <1>1, IInvInv, PTL

\* The variables keep their types.
THEOREM Typing ==
  ASSUME Ops \subseteq CountedOps
  PROVE  Spec => []TypeOK
<1>1. Inv => TypeOK
  BY DEF Inv
<1>2. QED
  BY <1>1, Invariance, PTL

\* C's count of an object is the number of references there are: nothing that
\* mkDynamic and mkStorage wrapped is freed early or twice, and nothing leaks.
THEOREM Counting ==
  ASSUME Ops \subseteq CountedOps
  PROVE  Spec => []RefCount
<1>1. Inv => RefCount
  BY DEF Inv
<1>2. QED
  BY <1>1, Invariance, PTL

\* No handle that can still be used, and no tensor, points to freed memory.
THEOREM Handles ==
  ASSUME Ops \subseteq CountedOps
  PROVE  Spec => []NoDangling
<1>1. Inv => NoDangling
  <2> SUFFICES ASSUME Inv, NEW w \in Owner, ref[w] # NoObj PROVE rc[ref[w]] > 0
    BY DEF NoDangling
  <2>1. ref[w] \in Obj
    BY DEF Inv, TypeOK
  <2>2. Count(ref, ref[w]) \in Nat /\ Count(ref, ref[w]) >= 1
    BY Owned
  <2>3. rc[ref[w]] = Count(ref, ref[w]) + retained[ref[w]] /\ retained[ref[w]] \in Nat
    BY <2>1 DEF Inv, TypeOK, RefCount, Count
  <2>4. QED
    BY <2>2, <2>3
<1>2. QED
  BY <1>1, Invariance, PTL

\* The raw pointers that managed operations pass to C are to allocated memory,
\* whatever the garbage collector and the other threads do in the meantime.
THEOREM RawPointers ==
  ASSUME Ops \subseteq ManagedOps
  PROVE  Spec => []NoUseAfterFree
<1>1. Ops \subseteq CountedOps
  BY DEF ManagedOps
<1>2. Spec => []IInv
  BY <1>1, InitIInv, NextIInv, PTL DEF Spec
<1>3. IInv => NoUseAfterFree
  <2> SUFFICES ASSUME IInv, NEW th \in Thread
               PROVE  /\ Self(th) # NoObj => rc[Self(th)] > 0
                      /\ Src(th) # NoObj => rc[Src(th)] > 0
    BY DEF NoUseAfterFree
  <2>1. GoodFrame(frame[th], held[th], ref, th) /\ frame[th] \in Frames
        /\ frame[th].op # "_catArray" /\ held[th] \subseteq Handle
    BY DEF IInv, ThreadOK, GoodFrame, ManagedOps
  <2>2. ASSUME NEW p \in Obj, \E h \in held[th] : ref[h] = p PROVE rc[p] > 0
    BY <2>1, <2>2, OwnedCount DEF Owner, IInv
  <2>3. QED
    BY <2>1, <2>2 DEF GoodFrame, Frames, Self, Src, Obj
<1>4. QED
  BY <1>2, <1>3, PTL
-----------------------------------------------------------------------------
(***************************************************************************)
(* The scopes cover the raw pointers, whatever operations the program      *)
(* uses: nothing here depends on C's counts, so the operations that break  *)
(* the counts are included.                                                *)
(***************************************************************************)

\* The inductive invariant: what Scoped needs of the other variables.  Nothing
\* is said of what pointers point to, as they may dangle here.
ScopesOK ==
  /\ ref = [w \in Owner |-> ref[w]]
  /\ frame = [th \in Thread |-> frame[th]]
  /\ live \subseteq Handle
  /\ reach \subseteq live
  /\ held \in [Thread -> SUBSET live]
  /\ \A th \in Thread : frame[th].op \in SelfOps => Self(th) \in Tensor
  /\ Scoped

\* A step of C that leaves the handles alone.
HandlesStay ==
  /\ ref' = [w \in Owner |-> ref'[w]]
  /\ \A h \in Handle : ref'[h] = ref[h]

\* Handles, threads and tensors are different things.
LEMMA Apart ==
  /\ \A th \in Thread : th \in Owner /\ th \notin Handle
  /\ \A t \in Tensor : t \in Owner /\ t \notin Handle
BY ConstantsOK DEF Owner

-----------------------------------------------------------------------------
(***************************************************************************)
(* How scopes open and close.                                              *)
(***************************************************************************)
\* A scope opens with the pointers of the handles that it holds.
LEMMA Opens ==
  ASSUME ScopesOK, NEW th \in Thread, NEW op, NEW scope \in SUBSET reach,
         NEW self, NEW src,
         Begin(th, op, scope, self, src),
         HandlesStay, UNCHANGED <<live, reach>>,
         op \in SelfOps => self \in Tensor,
         self # NoObj => \E h \in scope : ref[h] = self,
         src # NoObj => op = "_catArray" \/ \E h \in scope : ref[h] = src
  PROVE  ScopesOK'
<1> DEFINE fr == [op |-> op, self |-> self, src |-> src]
<1>1. frame' = [frame EXCEPT ![th] = fr] /\ held' = [held EXCEPT ![th] = scope]
  BY DEF Begin
<1>2. frame'[th] = fr /\ held'[th] = scope
  BY <1>1 DEF ScopesOK
<1>3. \A u \in Thread \ {th} : frame'[u] = frame[u] /\ held'[u] = held[u]
  BY <1>1 DEF ScopesOK
<1>4. frame' = [u \in Thread |-> frame'[u]]
  BY <1>1 DEF ScopesOK
<1>5. held' \in [Thread -> SUBSET live'] /\ live' \subseteq Handle /\ reach' \subseteq live'
  BY <1>1 DEF ScopesOK
<1>6. \A h \in live : ref'[h] = ref[h]
  BY DEF HandlesStay, ScopesOK
<1>7. ASSUME NEW u \in Thread
      PROVE  /\ frame'[u].op \in SelfOps => frame'[u].self \in Tensor
             /\ frame'[u].self # NoObj => \E h \in held'[u] : ref'[h] = frame'[u].self
             /\ frame'[u].src # NoObj => \/ frame'[u].op = "_catArray"
                                         \/ \E h \in held'[u] : ref'[h] = frame'[u].src
  <2>1. CASE u = th
    <3>1. /\ frame'[u].op = op /\ frame'[u].self = self /\ frame'[u].src = src
          /\ held'[u] = scope
      BY <2>1, <1>2
    <3>2. \A h \in scope : ref'[h] = ref[h]
      BY <1>6 DEF ScopesOK
    <3>3. QED
      BY <3>1, <3>2
  <2>2. CASE u # th
    <3>1. held[u] \subseteq live
      BY DEF ScopesOK
    <3>2. frame'[u] = frame[u] /\ held'[u] = held[u]
      BY <2>2, <1>3
    <3>3. QED
      BY <3>1, <3>2, <1>6 DEF ScopesOK, Scoped, Self, Src, Calling
  <2>3. QED
    BY <2>1, <2>2
<1>8. QED
  BY <1>4, <1>5, <1>7 DEF ScopesOK, Scoped, Self, Src, Calling, HandlesStay

\* After the C call nothing is passed to C any more, and the handles that other
\* scopes hold point where they did.
LEMMA Closes ==
  ASSUME ScopesOK, NEW th \in Thread,
         End(th) \/ Return(th),
         ref' = [w \in Owner |-> ref'[w]],
         \A h \in live : ref'[h] = ref[h],
         live \subseteq live', live' \subseteq Handle, reach' \subseteq live'
  PROVE  ScopesOK'
<1>1. frame' = [u \in Thread |-> frame'[u]]
  BY DEF ScopesOK, End, Return
<1>2. held' \in [Thread -> SUBSET live']
  BY DEF ScopesOK, End, Return
<1>3. frame'[th] \in {Idle, Wrapping}
  BY DEF ScopesOK, End, Return
<1>4. \A u \in Thread \ {th} : frame'[u] = frame[u] /\ held'[u] = held[u]
  BY DEF ScopesOK, End, Return
<1>5. ASSUME NEW u \in Thread
      PROVE  /\ frame'[u].op \in SelfOps => frame'[u].self \in Tensor
             /\ frame'[u].self # NoObj => \E h \in held'[u] : ref'[h] = frame'[u].self
             /\ frame'[u].src # NoObj => \/ frame'[u].op = "_catArray"
                                         \/ \E h \in held'[u] : ref'[h] = frame'[u].src
  <2>1. CASE u = th
    <3>1. frame'[u].op \in {"none", "mkDynamic"} /\ frame'[u].self = NoObj
            /\ frame'[u].src = NoObj
      BY <2>1, <1>3 DEF Idle, Wrapping
    <3>2. frame'[u].op \notin SelfOps
      BY <3>1 DEF SelfOps, TensorOps, Tensor2Ops, FreeOps
    <3>3. QED
      BY <3>1, <3>2
  <2>2. CASE u # th
    <3>1. held[u] \subseteq live
      BY DEF ScopesOK
    <3>2. frame'[u] = frame[u] /\ held'[u] = held[u]
      BY <2>2, <1>4
    <3>3. QED
      BY <3>1, <3>2 DEF ScopesOK, Scoped, Self, Src, Calling
  <2>3. QED
    BY <2>1, <2>2
<1>6. QED
  BY <1>1, <1>2, <1>5 DEF ScopesOK, Scoped, Self, Src, Calling

-----------------------------------------------------------------------------
(***************************************************************************)
(* What C does moves the pointers of tensors and of the calling thread.    *)
(***************************************************************************)
LEMMA MakeStays ==
  ASSUME ScopesOK, NEW th \in Thread, NEW s, NewTensor(th, s)
  PROVE  HandlesStay
<1>1. PICK t \in Tensor : ref' = [ref EXCEPT ![th] = t, ![t] = s]
  BY DEF NewTensor
<1>2. th \notin Handle /\ t \notin Handle
  BY Apart
<1>3. \A h \in Handle : h # th /\ h # t /\ h \in Owner
  BY <1>2 DEF Owner
<1>4. \A h \in Handle : ref'[h] = ref[h]
  BY <1>1, <1>3 DEF ScopesOK
<1>5. ref' = [w \in Owner |-> ref'[w]]
  BY <1>1 DEF ScopesOK
<1>6. QED
  BY <1>4, <1>5 DEF HandlesStay

LEMMA ShareStays ==
  ASSUME ScopesOK, NEW th \in Thread, NEW o, ref' = [ref EXCEPT ![th] = o]
  PROVE  HandlesStay
BY Apart DEF HandlesStay, ScopesOK

LEMMA CloneStays ==
  ASSUME ScopesOK, NEW th \in Thread, Clone(th)
  PROVE  HandlesStay
BY MakeStays DEF Clone

LEMMA PutOnStays ==
  ASSUME ScopesOK, NEW t \in Tensor, NEW s, PutOn(t, s)
  PROVE  HandlesStay
BY Apart DEF HandlesStay, ScopesOK, PutOn

LEMMA GrowStays ==
  ASSUME ScopesOK, NEW t \in Tensor, Grow(t)
  PROVE  HandlesStay
<1>1. CASE UNCHANGED <<ref, rc>>
  BY <1>1 DEF HandlesStay, ScopesOK
<1>2. CASE \E s \in Storage : PutOn(t, s)
  BY <1>2, PutOnStays
<1>3. QED
  BY <1>1, <1>2 DEF Grow

\* A free moves the pointer of the one who frees, and of a tensor that dies.
LEMMA FreeMoves ==
  ASSUME ScopesOK, NEW w \in Owner, Free(w)
  PROVE  /\ ref' = [v \in Owner |-> ref'[v]]
         /\ \A h \in Handle \ {w} : ref'[h] = ref[h]
<1> DEFINE o == ref[w]
<1>1. CASE o \in Tensor /\ rc[o] = 1
  <2>1. ref' = [ref EXCEPT ![w] = NoObj, ![o] = NoObj]
    BY <1>1 DEF Free
  <2>2. o \notin Handle
    BY <1>1, Apart
  <2>3. \A h \in Handle \ {w} : h # o /\ h \in Owner
    BY <2>2 DEF Owner
  <2> HIDE DEF o
  <2>4. \A h \in Handle \ {w} : ref'[h] = ref[h]
    BY <2>1, <2>3 DEF ScopesOK
  <2>5. ref' = [v \in Owner |-> ref'[v]]
    BY <2>1 DEF ScopesOK
  <2>6. QED
    BY <2>4, <2>5
<1>2. CASE ~(o \in Tensor /\ rc[o] = 1)
  <2>1. ref' = [ref EXCEPT ![w] = NoObj]
    BY <1>2 DEF Free
  <2>2. QED
    BY <2>1 DEF ScopesOK
<1>3. QED
  BY <1>1, <1>2

\* The tail of every C call.
LEMMA Called ==
  ASSUME ScopesOK, NEW th \in Thread, HandlesStay,
         End(th) \/ Return(th), UNCHANGED <<live, reach>>
  PROVE  ScopesOK'
<1>1. \A h \in live : ref'[h] = ref[h]
  BY DEF HandlesStay, ScopesOK
<1>2. live \subseteq live' /\ live' \subseteq Handle /\ reach' \subseteq live'
  BY DEF ScopesOK
<1>3. ref' = [w \in Owner |-> ref'[w]]
  BY DEF HandlesStay
<1>4. QED
  BY <1>1, <1>2, <1>3, Closes

-----------------------------------------------------------------------------
(***************************************************************************)
(* Every step keeps the invariant.                                         *)
(***************************************************************************)
LEMMA EnterScopes ==
  ASSUME ScopesOK, NEW th \in Thread, Enter(th)
  PROVE  ScopesOK'
<1> USE DEF Dynamics, Storages
<1>0. UNCHANGED ref => HandlesStay
  BY DEF HandlesStay, ScopesOK
<1>1. CASE mkDynamicIO(th)
  <2>1. PICK op \in MakeOps : Begin(th, op, {}, NoObj, NoObj)
    BY <1>1 DEF mkDynamicIO
  <2>2. op \notin SelfOps
    BY DEF MakeOps, SelfOps, TensorOps, Tensor2Ops, FreeOps
  <2>3. UNCHANGED <<ref, live, reach>>
    BY <1>1 DEF mkDynamicIO
  <2>4. QED
    BY <2>1, <2>2, <2>3, <1>0, Opens
<1>2. CASE withDynamicState(th)
  <2>1. PICK op \in TensorOps, h \in Dynamics : Begin(th, op, {h}, ref[h], NoObj)
    BY <1>2 DEF withDynamicState
  <2>2. UNCHANGED <<ref, live, reach>>
    BY <1>2 DEF withDynamicState
  <2>3. QED
    BY <2>1, <2>2, <1>0, Opens
<1>3. CASE with2DynamicState(th)
  <2>1. PICK op \in Tensor2Ops, h \in Dynamics, g \in Dynamics :
          Begin(th, op, {h, g}, ref[h], ref[g])
    BY <1>3 DEF with2DynamicState
  <2>2. UNCHANGED <<ref, live, reach>>
    BY <1>3 DEF with2DynamicState
  <2>3. QED
    BY <2>1, <2>2, <1>0, Opens
<1>4. CASE withStorageState(th)
  <2>1. PICK op \in StorageOps, h \in Storages : Begin(th, op, {h}, NoObj, ref[h])
    BY <1>4 DEF withStorageState
  <2>2. UNCHANGED <<ref, live, reach>>
    BY <1>4 DEF withStorageState
  <2>3. op \notin SelfOps
    BY DEF StorageOps, SelfOps, TensorOps, Tensor2Ops, FreeOps
  <2>4. QED
    BY <2>1, <2>2, <2>3, <1>0, Opens
<1>5. CASE withDynamicStateAndStorage(th)
  <2>1. PICK h \in Dynamics, g \in Storages :
          Begin(th, "_setStorage", {h, g}, ref[h], ref[g])
    BY <1>5 DEF withDynamicStateAndStorage
  <2>2. UNCHANGED <<ref, live, reach>>
    BY <1>5 DEF withDynamicStateAndStorage
  <2>3. QED
    BY <2>1, <2>2, <1>0, Opens
<1>6. CASE catArrayBegin(th)
  <2>1. PICK h \in Dynamics, g \in Dynamics :
          Begin(th, "_catArray", {h}, ref[h], ref[g])
    BY <1>6 DEF catArrayBegin
  <2>2. UNCHANGED <<ref, live, reach>>
    BY <1>6 DEF catArrayBegin
  <2>3. QED
    BY <2>1, <2>2, <1>0, Opens
<1>7. CASE freeBegin(th)
  <2>1. PICK op \in FreeOps, h \in Dynamics, g \in Dynamics :
          /\ Begin(th, op, {h, g}, ref[h], ref[g])
          /\ ref' = [ref EXCEPT ![th] = ref[h]]
    BY <1>7 DEF freeBegin
  <2>2. UNCHANGED <<live, reach>>
    BY <1>7 DEF freeBegin
  <2>3. HandlesStay
    BY <2>1, ShareStays
  <2>4. QED
    BY <2>1, <2>2, <2>3, Opens
<1>8. QED
  BY <1>1, <1>2, <1>3, <1>4, <1>5, <1>6, <1>7 DEF Enter

LEMMA CallScopes ==
  ASSUME ScopesOK, NEW th \in Thread, Call(th)
  PROVE  ScopesOK'
<1>0. frame[th].op \in SelfOps => Self(th) \in Tensor
  BY DEF ScopesOK
<1>1. CASE empty(th)
  BY <1>1, MakeStays, Called DEF empty
<1>2. CASE newWithSize(th)
  BY <1>2, MakeStays, Called DEF newWithSize
<1>3. CASE newStorage(th)
  BY <1>3, ShareStays, Called DEF newStorage, Share
<1>4. CASE newX(th)
  BY <1>4, MakeStays, Called DEF newX
<1>5. CASE newClone(th)
  BY <1>5, CloneStays, Called DEF newClone
<1>6. CASE newContiguous(th)
  BY <1>6, CloneStays, ShareStays, Called DEF newContiguous, Share
<1>7. CASE newWithStorage(th)
  BY <1>7, MakeStays, Called DEF newWithStorage
<1>8. CASE storage(th)
  BY <1>8, ShareStays, Called DEF storage
<1>9. CASE _resize(th)
  <2>1. Self(th) \in Tensor
    BY <1>9, <1>0 DEF _resize, Calling, SelfOps, TensorOps
  <2>2. HandlesStay
    BY <1>9, <2>1, GrowStays DEF _resize
  <2>3. QED
    BY <1>9, <2>2, Called DEF _resize
<1>10. CASE _set(th)
  <2>1. Self(th) \in Tensor
    BY <1>10, <1>0 DEF _set, Calling, SelfOps, Tensor2Ops
  <2>2. HandlesStay
    BY <1>10, <2>1, PutOnStays DEF _set
  <2>3. QED
    BY <1>10, <2>2, Called DEF _set
<1>11. CASE _setStorage(th)
  <2>1. Self(th) \in Tensor
    BY <1>11, <1>0 DEF _setStorage, Calling, SelfOps
  <2>2. HandlesStay
    BY <1>11, <2>1, PutOnStays DEF _setStorage
  <2>3. QED
    BY <1>11, <2>2, Called DEF _setStorage
<1>12. CASE math(th)
  <2>1. Self(th) \in Tensor
    BY <1>12, <1>0 DEF math, Calling, SelfOps, TensorOps, Tensor2Ops
  <2>2. HandlesStay
    BY <1>12, <2>1, GrowStays DEF math
  <2>3. QED
    BY <1>12, <2>2, Called DEF math
<1>13. CASE retain(th)
  <2>1. HandlesStay
    BY <1>13 DEF retain, HandlesStay, ScopesOK
  <2>2. QED
    BY <1>13, <2>1, Called DEF retain
<1>14. CASE _free(th)
  <2>1. HandlesStay
    BY <1>14, FreeMoves, Apart DEF _free, HandlesStay
  <2>2. QED
    BY <1>14, <2>1, Called DEF _free
<1>15. CASE copyType(th)
  <2>1. HandlesStay
    BY <1>15 DEF copyType, HandlesStay, ScopesOK
  <2>2. QED
    BY <1>15, <2>1, Called DEF copyType
<1>16. QED
  BY <1>1, <1>2, <1>3, <1>4, <1>5, <1>6, <1>7, <1>8, <1>9, <1>10, <1>11, <1>12,
     <1>13, <1>14, <1>15 DEF Call

\* A handle that is not live is held by nobody, so it may point anywhere.
LEMMA WrapScopes ==
  ASSUME ScopesOK, NEW th \in Thread, mkDynamic(th)
  PROVE  ScopesOK'
<1>1. PICK h \in Handle \ live :
        /\ ref' = [ref EXCEPT ![h] = ref[th], ![th] = NoObj]
        /\ live' = live \cup {h}
        /\ reach' = reach \cup {h}
  BY DEF mkDynamic
<1>2. \A g \in live : g # h /\ g # th /\ g \in Owner
  BY Apart DEF ScopesOK, Owner
<1>3. \A g \in live : ref'[g] = ref[g]
  BY <1>1, <1>2 DEF ScopesOK
<1>4. ref' = [w \in Owner |-> ref'[w]]
  BY <1>1 DEF ScopesOK
<1>5. live \subseteq live' /\ live' \subseteq Handle /\ reach' \subseteq live'
  BY <1>1 DEF ScopesOK
<1>6. End(th)
  BY DEF mkDynamic
<1>7. QED
  BY <1>3, <1>4, <1>5, <1>6, Closes

\* Without a change of frames and scopes, held handles have to stay.
LEMMA HandleScopes ==
  ASSUME ScopesOK, UNCHANGED <<frame, held>>,
         ref' = [w \in Owner |-> ref'[w]],
         \A th \in Thread : \A h \in held[th] : ref'[h] = ref[h] /\ h \in live',
         live' \subseteq Handle, reach' \subseteq live'
  PROVE  ScopesOK'
<1>1. held' \in [Thread -> SUBSET live']
  BY DEF ScopesOK
<1>2. Scoped'
  BY DEF ScopesOK, Scoped, Self, Src, Calling
<1>3. frame' = [th \in Thread |-> frame'[th]]
  BY DEF ScopesOK
<1>4. \A th \in Thread : frame'[th].op \in SelfOps => frame'[th].self \in Tensor
  BY DEF ScopesOK, Self
<1>5. QED
  BY <1>1, <1>2, <1>3, <1>4 DEF ScopesOK, Self

LEMMA FinalizeScopes ==
  ASSUME ScopesOK, NEW h \in Handle, Finalize(h)
  PROVE  ScopesOK'
<1>1. h \in Owner
  BY DEF Owner
<1>2. /\ ref' = [w \in Owner |-> ref'[w]]
      /\ \A g \in Handle \ {h} : ref'[g] = ref[g]
  BY <1>1, FreeMoves DEF Finalize
<1>3. \A th \in Thread : held[th] \subseteq live \ {h}
  BY DEF Finalize, ScopesOK
<1>4. live' = live \ {h} /\ reach' = reach /\ h \notin reach
  BY DEF Finalize
<1>5. live' \subseteq Handle /\ reach' \subseteq live'
  BY <1>4 DEF ScopesOK
<1>6. \A th \in Thread : \A g \in held[th] : ref'[g] = ref[g] /\ g \in live'
  BY <1>2, <1>3, <1>4 DEF ScopesOK
<1>7. QED
  BY <1>2, <1>5, <1>6, HandleScopes DEF Finalize

LEMMA ForgetScopes ==
  ASSUME ScopesOK, NEW h \in Handle, Forget(h)
  PROVE  ScopesOK'
<1>1. ref' = [w \in Owner |-> ref'[w]]
  BY DEF Forget, ScopesOK
<1>2. \A th \in Thread : \A g \in held[th] : ref'[g] = ref[g] /\ g \in live'
  BY DEF Forget, ScopesOK
<1>3. live' \subseteq Handle /\ reach' \subseteq live'
  BY DEF Forget, ScopesOK
<1>4. QED
  BY <1>1, <1>2, <1>3, HandleScopes DEF Forget

-----------------------------------------------------------------------------
\* The raw pointers of an operation are those of the handles that its scopes
\* hold (withForeignPtr in with2DynamicState and its kin), whatever operations
\* the program uses: also with storage and copyType, which break C's counts.
THEOREM ScopesCover == Spec => []Scoped
<1>1. Init => ScopesOK
  <2> SUFFICES ASSUME Init PROVE ScopesOK
    OBVIOUS
  <2>1. \A th \in Thread : frame[th] = Idle
    BY DEF Init
  <2>2. "none" \notin SelfOps
    BY DEF SelfOps, TensorOps, Tensor2Ops, FreeOps
  <2>3. Scoped
    BY <2>1 DEF Scoped, Idle, Self, Src
  <2>4. held \in [Thread -> SUBSET live] /\ live \subseteq Handle /\ reach \subseteq live
    BY DEF Init
  <2>5. ref = [w \in Owner |-> ref[w]] /\ frame = [th \in Thread |-> frame[th]]
    BY DEF Init
  <2>6. \A th \in Thread : frame[th].op \in SelfOps => Self(th) \in Tensor
    BY <2>1, <2>2 DEF Idle
  <2>7. QED
    BY <2>3, <2>4, <2>5, <2>6 DEF ScopesOK
<1>2. ScopesOK /\ [Next]_vars => ScopesOK'
  <2> SUFFICES ASSUME ScopesOK, [Next]_vars PROVE ScopesOK'
    OBVIOUS
  <2>1. CASE \E th \in Thread : Enter(th) \/ Call(th) \/ mkDynamic(th)
    BY <2>1, EnterScopes, CallScopes, WrapScopes
  <2>2. CASE \E h \in Handle : Forget(h) \/ Finalize(h)
    BY <2>2, ForgetScopes, FinalizeScopes
  <2>3. CASE UNCHANGED vars
    BY <2>3 DEF vars, ScopesOK, Scoped, Self, Src, Calling
  <2>4. QED
    BY <2>1, <2>2, <2>3 DEF Next
<1>3. ScopesOK => Scoped
  BY DEF ScopesOK
<1>4. QED
  BY <1>1, <1>2, <1>3, PTL DEF Spec
=============================================================================
