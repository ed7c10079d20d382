----------------------- MODULE TensorMemoryRefinement -----------------------
(***************************************************************************)
(* Proof that TensorMemory implements ManagedHeap, for any number of       *)
(* handles, threads, tensors and storages: reference counts, finalizers    *)
(* and withForeignPtr scopes together keep the promise that an object      *)
(* exists exactly as long as it can be got at.                             *)
(***************************************************************************)
EXTENDS TensorMemoryProofs

\* The refinement mapping of ImplementsHeap.
Known == reach \cup UNION {held[th] : th \in Thread}
Alive == {o \in Obj : rc[o] > 0}

-----------------------------------------------------------------------------
\* An object with a positive count is retained by hand or pointed to.
LEMMA HasOwner ==
  ASSUME NEW f, NEW o, Count(f, o) > 0
  PROVE  \E w \in Owner : f[w] = o
<1>1. Owners(f, o) # {}
  BY OwnersFinite, FS_EmptySet DEF Count
<1>2. QED
  BY <1>1 DEF Owners

\* When the counts are right, what C keeps is what can be got at: the tensors
\* that keep storages are themselves kept by holders.
LEMMA CountedReached ==
  ASSUME NEW f \in [Owner -> ObjOrNull], NEW r \in [Obj -> Int], NEW k \in [Obj -> Nat],
         \A t \in Tensor : f[t] \in Storage \cup {NoObj},
         \A o \in Obj : r[o] = Count(f, o) + k[o],
         \A t \in Tensor : r[t] = 0 => f[t] = NoObj
  PROVE  Heap!Reached(f, k) = {o \in Obj : r[o] > 0}
<1>1. /\ Heap!Held(f, k) = {o \in Obj : k[o] > 0 \/ \E w \in Handle \cup Thread : f[w] = o}
      /\ Heap!Reached(f, k) = Heap!Held(f, k) \cup
           {s \in Storage : \E t \in Tensor \cap Heap!Held(f, k) : f[t] = s}
  BY DEF Heap!Held, Heap!Reached, Heap!Obj, Heap!Holder, Obj
<1>2. \A o \in Obj : (\E w \in Owner : f[w] = o) => r[o] > 0
  BY Owned
<1>3. \A o \in Obj : k[o] > 0 => r[o] > 0
  BY OwnersFinite
<1>4. \A o \in Obj : r[o] > 0 => k[o] > 0 \/ \E w \in Owner : f[w] = o
  BY HasOwner, OwnersFinite
<1>5. ASSUME NEW o \in Heap!Reached(f, k) PROVE o \in Obj /\ r[o] > 0
  BY <1>1, <1>2, <1>3 DEF Owner, Obj
<1>6. ASSUME NEW t \in Tensor, r[t] > 0 PROVE t \in Heap!Held(f, k)
  <2>1. t \in Obj /\ \A u \in Tensor : f[u] # t
    BY ConstantsOK DEF Obj
  <2>2. QED
    BY <1>1, <1>4, <1>6, <2>1 DEF Owner
<1>7. ASSUME NEW o \in Obj, r[o] > 0 PROVE o \in Heap!Reached(f, k)
  <2>1. CASE k[o] > 0 \/ \E w \in Handle \cup Thread : f[w] = o
    BY <1>1, <2>1
  <2>2. CASE \E t \in Tensor : f[t] = o
    <3>1. PICK t \in Tensor : f[t] = o
      BY <2>2
    <3>2. o \in Storage /\ t \in Obj /\ f[t] # NoObj
      BY <3>1, ConstantsOK DEF Obj
    <3>3. r[t] > 0
      BY <3>2, OwnersFinite
    <3>4. QED
      BY <1>1, <1>6, <3>1, <3>2, <3>3
  <2>3. QED
    BY <1>4, <1>7, <2>1, <2>2 DEF Owner
<1>8. QED
  BY <1>5, <1>7

\* A step after which the pointers are those of f, but for tensors that C has
\* freed, settles the abstract heap.
LEMMA Settled ==
  ASSUME HeapOK', NEW f, NEW got,
         \A w \in Handle \cup Thread : ref'[w] = f[w],
         \A t \in Tensor : ref'[t] = f[t] \/ rc'[t] = 0,
         Known' \subseteq Known \cup got
  PROVE  Heap!Settle(f, retained', got)
<1>1. Heap!Reached(ref', retained') = {o \in Obj : rc'[o] > 0}
  BY CountedReached DEF HeapOK
<1>2. Heap!Held(f, retained') = Heap!Held(ref', retained')
  BY DEF Heap!Held, Heap!Holder
<1>3. \A t \in Tensor \cap Heap!Held(ref', retained') : ref'[t] = f[t]
  BY <1>1 DEF Heap!Reached, Obj
<1>4. Heap!Reached(f, retained') = {o \in Obj : rc'[o] > 0}
  BY <1>1, <1>2, <1>3 DEF Heap!Reached
<1>5. ref' = [w \in Handle \cup Thread \cup Tensor |->
                IF w \in Tensor \ {o \in Obj : rc'[o] > 0} THEN NoObj ELSE f[w]]
  <2>1. ASSUME NEW t \in Tensor
        PROVE  IF rc'[t] > 0 THEN ref'[t] = f[t] ELSE ref'[t] = NoObj
    <3>1. rc'[t] \in Int /\ rc'[t] >= 0
      BY OwnersFinite DEF HeapOK, Obj
    <3>2. QED
      BY <3>1 DEF HeapOK
  <2>2. ref' = [w \in Owner |-> ref'[w]]
    BY DEF HeapOK
  <2>3. QED
    BY <2>1, <2>2, ConstantsOK DEF Owner, Obj
<1>6. (reach \cup UNION {held[th] : th \in Thread})' \in
        SUBSET ((reach \cup UNION {held[th] : th \in Thread}) \cup got)
  BY DEF Known
<1>7. QED
  BY <1>4, <1>5, <1>6 DEF Heap!Settle, Heap!Holder
\* The holders' part of the mapping: threads are in no scope.
LEMMA KnownHandles == IInv => Known \subseteq Handle
BY DEF Known, IInv, ThreadOK

\* What an operation leaves behind when its scopes end, or new ones begin with
\* handles that the program has.
LEMMA EndKnown ==
  ASSUME IInv, NEW th \in Thread, End(th), UNCHANGED reach
  PROVE  Known' \subseteq Known
<1>1. \A u \in Thread : held'[u] \subseteq held[u]
  BY DEF End, IInv, ThreadOK
<1>2. QED
  BY <1>1 DEF Known

LEMMA BeginKnown ==
  ASSUME IInv, NEW th \in Thread, NEW op, NEW scope \in SUBSET reach, NEW self, NEW src,
         Begin(th, op, scope, self, src), UNCHANGED reach
  PROVE  Known' \subseteq Known
<1>1. \A u \in Thread : held'[u] \subseteq held[u] \cup reach
  BY DEF Begin, IInv, ThreadOK
<1>2. QED
  BY <1>1 DEF Known

\* A step that moves no pointer and takes no reference only forgets.
LEMMA Forgets ==
  ASSUME HeapOK', UNCHANGED <<ref, retained>>, Known' \subseteq Known
  PROVE  Heap!Next
<1>1. Heap!Settle(ref, retained, {})
  BY Settled
<1>2. QED
  BY <1>1 DEF Heap!Next, Heap!Forget

-----------------------------------------------------------------------------
(***************************************************************************)
(* Every step of a program is a step of the managed heap.                  *)
(***************************************************************************)
LEMMA EnterHeap ==
  ASSUME IInv, IInv', NEW th \in Thread, Enter(th), ~freeBegin(th)
  PROVE  Heap!Next
<1>1. UNCHANGED <<ref, retained, reach>>
  BY DEF Enter, mkDynamicIO, withDynamicState, with2DynamicState, withStorageState,
     withDynamicStateAndStorage, catArrayBegin
<1>2. Known' \subseteq Known
  <2> USE <1>1 DEF Dynamics, Storages
  <2>1. CASE mkDynamicIO(th)
    BY <2>1, BeginKnown DEF mkDynamicIO
  <2>2. CASE withDynamicState(th)
    BY <2>2, BeginKnown DEF withDynamicState
  <2>3. CASE with2DynamicState(th)
    BY <2>3, BeginKnown DEF with2DynamicState
  <2>4. CASE withStorageState(th)
    BY <2>4, BeginKnown DEF withStorageState
  <2>5. CASE withDynamicStateAndStorage(th)
    BY <2>5, BeginKnown DEF withDynamicStateAndStorage
  <2>6. CASE catArrayBegin(th)
    BY <2>6, BeginKnown DEF catArrayBegin
  <2>7. QED
    BY <2>1, <2>2, <2>3, <2>4, <2>5, <2>6 DEF Enter
<1>3. QED
  BY <1>1, <1>2, Forgets DEF IInv

\* A reference taken by hand goes to the thread that will free it.
LEMMA freeBeginHeap ==
  ASSUME IInv, IInv', NEW th \in Thread, freeBegin(th)
  PROVE  Heap!Next
<1>1. PICK op \in FreeOps, h \in Dynamics, g \in Dynamics :
        /\ retained[ref[h]] > 0
        /\ Begin(th, op, {h, g}, ref[h], ref[g])
        /\ ref' = [ref EXCEPT ![th] = ref[h]]
        /\ retained' = [retained EXCEPT ![ref[h]] = @ - 1]
  BY DEF freeBegin
<1>2. ref[h] \in Obj /\ {h, g} \in SUBSET reach
  BY DEF Dynamics, Obj
<1>3. ref[th] = NoObj
  BY <1>1, Fresh DEF Begin, Idle, FreeOps
<1>4. Known' \subseteq Known
  BY <1>1, <1>2, BeginKnown DEF freeBegin
<1>5. Heap!Settle(ref', retained', {})
  BY <1>4, Settled DEF IInv
<1>6. PICK o \in Obj : o = ref[h]
  BY <1>2
<1>7. Heap!Surrender(th, o)
  BY <1>1, <1>3, <1>5, <1>6 DEF Heap!Surrender
<1>8. QED
  BY <1>7 DEF Heap!Next, Heap!Obj, Obj

\* The calls that return an object create it, or obtain one that there is.
LEMMA MakeHeap ==
  ASSUME IInv, IInv', NEW th \in Thread,
         \/ empty(th)
         \/ newWithSize(th)
         \/ newStorage(th)
         \/ newX(th)
         \/ newClone(th)
         \/ newContiguous(th)
         \/ newWithStorage(th)
  PROVE  Heap!Next
<1>1. ref[th] = NoObj /\ Return(th) /\ UNCHANGED <<retained, live, reach>>
      /\ \/ \E s \in Takes : NewTensor(th, s)
         \/ \E o \in Obj \cap Heap!Usable : Share(th, o)
  BY MakesOrShares
<1>2. Known' \subseteq Known
  BY <1>1 DEF Return, Known
<1>3. Heap!Settle(ref', retained, {})
  BY <1>1, <1>2, Settled DEF IInv
<1>4. ASSUME NEW s \in Takes, NewTensor(th, s) PROVE Heap!Next
  <2>1. PICK t \in Tensor : Unused(t) /\ ref' = [ref EXCEPT ![th] = t, ![t] = s]
    BY <1>4 DEF NewTensor
  <2>2. t \notin {o \in Obj : rc[o] > 0}
    BY <2>1 DEF Unused
  <2>3. s \in Storage \cup {NoObj} /\ s \in Heap!Usable \cup {NoObj}
    BY DEF Takes
  <2>4. Heap!Create(th, t, s)
    BY <1>1, <1>3, <2>1, <2>2, <2>3 DEF Heap!Create
  <2>5. QED
    BY <2>3, <2>4 DEF Heap!Next
<1>5. ASSUME NEW o \in Obj \cap Heap!Usable, Share(th, o) PROVE Heap!Next
  <2>1. Heap!Obtain(th, o)
    BY <1>1, <1>3, <1>5 DEF Heap!Obtain, Share
  <2>2. QED
    BY <2>1 DEF Heap!Next, Heap!Obj, Obj
<1>6. QED
  BY <1>1, <1>4, <1>5

\* The calls that change a tensor in use put it on another storage.
LEMMA ChangeHeap ==
  ASSUME IInv, IInv', NEW th \in Thread,
         _resize(th) \/ _set(th) \/ _setStorage(th) \/ math(th)
  PROVE  Heap!Next
<1>1. /\ End(th) /\ UNCHANGED <<retained, reach>>
      /\ Self(th) \in Tensor /\ Self(th) \in Heap!Wanted
      /\ Grow(Self(th)) \/ \E s \in Takes : PutOn(Self(th), s)
  BY PutsOrGrows
<1>2. Known' \subseteq Known
  BY <1>1, EndKnown
<1>3. CASE UNCHANGED <<ref, rc>>
  BY <1>1, <1>2, <1>3, Forgets DEF IInv
<1>4. ASSUME NEW s \in Takes, PutOn(Self(th), s) PROVE Heap!Next
  <2>1. Heap!Settle(ref', retained, {})
    BY <1>1, <1>2, Settled DEF IInv
  <2>2. PICK t \in Tensor : t = Self(th)
    BY <1>1
  <2>3. t \in Heap!Wanted /\ s \in Storage \cup {NoObj} /\ s \in Heap!Usable \cup {NoObj}
    BY <1>1, <2>2 DEF Takes
  <2>4. Heap!Repoint(t, s)
    BY <1>4, <2>1, <2>2, <2>3 DEF Heap!Repoint, PutOn
  <2>5. QED
    BY <2>3, <2>4 DEF Heap!Next
<1>5. ASSUME NEW s \in Storage, Unused(s) PROVE s \in Takes
  BY <1>5, UnusedUsable DEF Takes, Obj
<1>6. QED
  BY <1>1, <1>3, <1>4, <1>5 DEF Grow

\* What is retained by hand exists: a scope holds its handle.
LEMMA retainHeap ==
  ASSUME IInv, IInv', NEW th \in Thread, retain(th)
  PROVE  Heap!Next
<1>1. End(th) /\ UNCHANGED <<ref, reach>>
  BY DEF retain
<1>2. Known' \subseteq Known
  BY <1>1, EndKnown
<1>3. PICK o \in ObjOrNull : RetainBy(th, o) /\ (o # NoObj => o \in Heap!Wanted)
  <2>1. CASE Calling(th, "retain") /\ RetainBy(th, Self(th))
    BY <2>1, SelfWanted DEF Calling, SelfOps, TensorOps, ObjOrNull, Obj
  <2>2. CASE Calling(th, "retainStorage") /\ RetainBy(th, Src(th))
    BY <2>2, SrcWanted DEF Calling, ObjOrNull
  <2>3. QED
    BY <2>1, <2>2 DEF retain
<1>4. CASE o = NoObj
  BY <1>1, <1>2, <1>3, <1>4, Forgets DEF RetainBy, IInv
<1>5. CASE o # NoObj
  <2>1. o \in Obj /\ o \in Heap!Wanted /\ retained' = [retained EXCEPT ![o] = @ + 1]
    BY <1>3, <1>5 DEF RetainBy, Inc, ObjOrNull
  <2>2. Heap!Settle(ref, retained', {})
    BY <1>1, <1>2, Settled DEF IInv
  <2>3. Heap!Retain(o)
    BY <2>1, <2>2 DEF Heap!Retain
  <2>4. QED
    BY <2>1, <2>3 DEF Heap!Next, Heap!Obj, Obj
<1>6. QED
  BY <1>4, <1>5

\* Giving a reference back moves its owner's pointer, and those of a tensor
\* that goes with it.
LEMMA FreeSettles ==
  ASSUME HeapOK, HeapOK', NEW w \in Handle \cup Thread, Free(w), UNCHANGED retained,
         Known' \subseteq Known
  PROVE  Heap!Settle([ref EXCEPT ![w] = NoObj], retained, {})
<1> DEFINE o == ref[w]
           f == [ref EXCEPT ![w] = NoObj]
<1>1. w \in Owner /\ w \notin Tensor /\ ref = [v \in Owner |-> ref[v]]
  BY ConstantsOK DEF Owner, HeapOK
<1>2. CASE o \in Tensor /\ rc[o] = 1
  <2>1. ref' = [ref EXCEPT ![w] = NoObj, ![o] = NoObj] /\ rc' = Dec(Dec(rc, o), ref[o])
    BY <1>2 DEF Free
  <2>2. o \in Obj /\ ref[o] # o /\ ref[o] \in ObjOrNull
    BY <1>2, ConstantsOK DEF HeapOK, Obj, ObjOrNull
  <2>3. Dec(rc, o) \in [Obj -> Int] /\ Dec(rc, o)[o] = 0
    <3>1. rc \in [Obj -> Int] /\ o \in ObjOrNull /\ rc[o] = 1 /\ Points(o, o) = 1
      BY <1>2, <2>2 DEF HeapOK, Points, ObjOrNull
    <3>2. Dec(rc, o) \in [Obj -> Int] /\ Dec(rc, o)[o] = rc[o] - Points(o, o)
      <4> HIDE DEF o
      <4> QED BY <2>2, <3>1, IncDec
    <3>3. QED
      BY <3>1, <3>2
  <2>4. rc'[o] = 0
    <3>1. Dec(Dec(rc, o), ref[o])[o] = Dec(rc, o)[o] - Points(ref[o], o)
      <4> HIDE DEF o
      <4> QED BY <2>2, <2>3, IncDec
    <3>2. Points(ref[o], o) = 0
      BY <2>2, PointsType
    <3>3. QED
      BY <2>1, <2>3, <3>1, <3>2
  <2>5. \A v \in Owner : ref'[v] = f[v] \/ v = o
    BY <1>1, <2>1
  <2>6. QED
    BY <1>1, <1>2, <2>4, <2>5, Settled, ConstantsOK DEF Owner
<1>3. CASE ~(o \in Tensor /\ rc[o] = 1)
  <2>1. ref' = f
    BY <1>3 DEF Free
  <2>2. QED
    BY <2>1, Settled
<1>4. QED
  BY <1>2, <1>3

LEMMA freeHeap ==
  ASSUME IInv, IInv', NEW th \in Thread, _free(th)
  PROVE  Heap!Next
<1>1. Free(th) /\ End(th) /\ UNCHANGED <<retained, reach>>
  BY DEF _free
<1>2. Heap!Settle([ref EXCEPT ![th] = NoObj], retained, {})
  BY <1>1, EndKnown, FreeSettles DEF IInv
<1>3. th \notin reach \cup UNION {held[u] : u \in Thread}
  BY KnownHandles, ConstantsOK DEF Known
<1>4. Heap!LetGo(th)
  BY <1>2, <1>3 DEF Heap!LetGo
<1>5. QED
  BY <1>4 DEF Heap!Next, Heap!Holder

\* A finalizer runs only for a handle that nobody has.
LEMMA FinalizeHeap ==
  ASSUME IInv, IInv', NEW h \in Handle, Finalize(h)
  PROVE  Heap!Next
<1>1. Free(h) /\ UNCHANGED <<retained, reach, held>> /\ h \notin reach
      /\ \A th \in Thread : h \notin held[th]
  BY DEF Finalize
<1>2. Heap!Settle([ref EXCEPT ![h] = NoObj], retained, {})
  BY <1>1, FreeSettles DEF IInv, Known
<1>3. Heap!LetGo(h)
  BY <1>1, <1>2 DEF Heap!LetGo
<1>4. QED
  BY <1>3 DEF Heap!Next, Heap!Holder

LEMMA mkDynamicHeap ==
  ASSUME IInv, IInv', NEW th \in Thread, mkDynamic(th)
  PROVE  Heap!Next
<1>1. PICK h \in Handle \ live : /\ ref' = [ref EXCEPT ![h] = ref[th], ![th] = NoObj]
                                 /\ reach' = reach \cup {h}
  BY DEF mkDynamic
<1>2. ref[h] = NoObj
  BY DEF IInv, ThreadOK
<1>3. Known' \subseteq Known \cup {h}
  <2>1. \A u \in Thread : held'[u] \subseteq held[u]
    BY DEF mkDynamic, End, IInv, ThreadOK
  <2>2. QED
    BY <1>1, <2>1 DEF Known
<1>4. Heap!Settle(ref', retained, {h})
  BY <1>3, Settled DEF mkDynamic, IInv
<1>5. Heap!Pass(th, h)
  BY <1>1, <1>2, <1>4 DEF Heap!Pass
<1>6. QED
  BY <1>5 DEF Heap!Next

LEMMA ForgetHeap ==
  ASSUME IInv, IInv', NEW h \in Handle, Forget(h)
  PROVE  Heap!Next
BY Forgets DEF Forget, Known, IInv

-----------------------------------------------------------------------------
\* The program starts with an empty heap.
LEMMA InitHeap == Init => Heap!Init
BY DEF Init, Heap!Init, Heap!Holder, Heap!Obj, Obj, Owner

LEMMA NextHeap ==
  ASSUME Ops \subseteq CountedOps
  PROVE  IInv /\ IInv' /\ [Next]_vars => [Heap!Next]_(Heap!vars)
<1> SUFFICES ASSUME IInv, IInv', [Next]_vars PROVE Heap!Next \/ UNCHANGED Heap!vars
  OBVIOUS
<1>1. ASSUME NEW th \in Thread, Enter(th) PROVE Heap!Next
  BY <1>1, EnterHeap, freeBeginHeap
<1>2. ASSUME NEW th \in Thread, Call(th) PROVE Heap!Next
  <2>1. ~storage(th) /\ ~copyType(th)
    BY DEF storage, copyType, Calling, IInv, ThreadOK, GoodFrame, CountedOps
  <2>2. QED
    BY <1>2, <2>1, MakeHeap, ChangeHeap, retainHeap, freeHeap DEF Call
<1>3. ASSUME NEW th \in Thread, mkDynamic(th) PROVE Heap!Next
  BY <1>3, mkDynamicHeap
<1>4. ASSUME NEW h \in Handle, Forget(h) \/ Finalize(h) PROVE Heap!Next
  BY <1>4, ForgetHeap, FinalizeHeap
<1>5. CASE UNCHANGED vars
  BY <1>5 DEF vars, Heap!vars
<1>6. QED
  BY <1>1, <1>2, <1>3, <1>4, <1>5 DEF Next

\* Counts, scopes and finalizers implement the managed heap: whatever the
\* garbage collector and the threads do, and however many objects there are, an
\* object that can be got at is never freed, and one that cannot is gone.
THEOREM Refinement ==
  ASSUME Ops \subseteq CountedOps
  PROVE  Spec => ImplementsHeap
<1>1. Init => IInv /\ Heap!Init
  BY InitIInv, InitHeap
<1>2. IInv /\ [Next]_vars => IInv'
  BY NextIInv
<1>3. IInv /\ IInv' /\ [Next]_vars => [Heap!Next]_(Heap!vars)
  BY NextHeap
<1>4. QED
  BY <1>1, <1>2, <1>3, PTL DEF Spec, ImplementsHeap, Heap!Spec

-----------------------------------------------------------------------------
(***************************************************************************)
(* What nobody can get at.  That it stays so is shown of the managed heap, *)
(* whose steps the program's are.                                          *)
(***************************************************************************)
\* Both modules say the same of what can be got at.
SameWanted == Heap!Wanted = {o \in Obj : Wanted(o)}

LEMMA WantedSame == HeapOK => SameWanted
<1> SUFFICES ASSUME HeapOK PROVE Heap!Wanted = {o \in Obj : Wanted(o)}
  BY DEF SameWanted
<1> DEFINE known == reach \cup UNION {held[th] : th \in Thread}
           top == {o \in Obj : retained[o] > 0 \/ \E w \in known \cup Thread : ref[w] = o}
<1>1. Heap!Wanted = top \cup {s \in Storage : \E t \in Tensor \cap top : ref[t] = s}
  BY DEF Heap!Wanted, Heap!Obj, Obj
<1>2. \A o \in Obj : Wanted(o) <=> o \in top \/ \E t \in Tensor \cap top : ref[t] = o
  BY DEF Wanted
<1>3. \A t \in Tensor, o \in Obj : ref[t] = o => o \in Storage
  BY ConstantsOK DEF HeapOK, Obj
<1>4. QED
  BY <1>1, <1>2, <1>3 DEF Obj

LEMMA WantedSameNext == HeapOK' => SameWanted'
BY WantedSame, PTL

\* A settled heap in which all pointers that lead on from what is held are to usable
\* objects gives nothing else away.
LEMMA SettledWanted ==
  ASSUME NEW f, NEW k, NEW got, Heap!Settle(f, k, got),
         \A o \in Obj : k[o] > 0 => o \in Heap!Usable,
         \A w \in Known \cup got \cup Thread : f[w] \in Obj => f[w] \in Heap!Usable,
         \A t \in Tensor \cap Heap!Usable : f[t] \in Storage => f[t] \in Heap!Usable,
         Known \cup got \subseteq Handle
  PROVE  Heap!Wanted' \subseteq Heap!Usable
<1> DEFINE top == {o \in Obj : retained'[o] > 0 \/ \E w \in Known' \cup Thread : ref'[w] = o}
<1>1. Heap!Wanted' = top \cup {s \in Storage : \E t \in Tensor \cap top : ref'[t] = s}
  BY DEF Heap!Wanted, Heap!Obj, Obj, Known
<1>2. /\ retained' = k /\ Known' \subseteq Known \cup got
      /\ ref' = [w \in Handle \cup Thread \cup Tensor |->
                   IF w \in Tensor \ Heap!Reached(f, k) THEN NoObj ELSE f[w]]
  BY DEF Heap!Settle, Heap!Holder, Known
<1>3. \A w \in Known' \cup Thread : ref'[w] = f[w]
  BY <1>2, ConstantsOK
<1>4. top \subseteq Heap!Usable
  BY <1>2, <1>3
<1>5. ASSUME NEW t \in Tensor \cap top, ref'[t] \in Storage PROVE ref'[t] \in Heap!Usable
  <2>1. ref'[t] = f[t]
    BY <1>2, <1>5, ConstantsOK DEF Obj
  <2>2. QED
    BY <1>4, <1>5, <2>1
<1>6. QED
  BY <1>1, <1>4, <1>5

\* So nothing that nobody can get at is given away by a step of the managed heap.
LEMMA HeapGivesUsable ==
  ASSUME IInv, Heap!Next
  PROVE  Heap!Wanted' \subseteq Heap!Usable
<1>1. /\ \A o \in Obj : retained[o] > 0 => o \in Heap!Usable
      /\ \A w \in Known \cup Thread : ref[w] \in Obj => ref[w] \in Heap!Usable
      /\ \A t \in Tensor \cap Heap!Usable : ref[t] \in Storage => ref[t] \in Heap!Usable
      /\ Known \subseteq Handle
  <2>1. \A w \in Known \cup Thread : ref[w] \in Obj => ref[w] \in Heap!Usable
    BY WantedFacts DEF Known, Heap!Usable
  <2>2. ASSUME NEW t \in Tensor, t \in Heap!Usable, ref[t] \in Storage
        PROVE  ref[t] \in Heap!Usable
    <3>1. CASE t \in Heap!Wanted
      BY <2>2, <3>1, WantedFacts DEF Heap!Usable
    <3>2. CASE t \notin Heap!Wanted
      <4>1. ~(rc[t] > 0) /\ rc[t] \in Int /\ rc[t] >= 0
        BY <2>2, <3>2, OwnersFinite DEF Heap!Usable, IInv, HeapOK, Obj
      <4>2. ref[t] = NoObj
        BY <4>1 DEF IInv, HeapOK
      <4>3. QED
        BY <2>2, <4>2, ConstantsOK
    <3>3. QED
      BY <3>1, <3>2
  <2>3. QED
    BY <2>1, <2>2, WantedFacts, KnownHandles DEF Heap!Usable
<1>2. ref \in [Owner -> ObjOrNull] /\ retained \in [Obj -> Nat]
  BY DEF IInv, HeapOK
<1>3. Thread \cap Tensor = {} /\ Handle \cap Tensor = {} /\ NoObj \notin Obj
      /\ Thread \subseteq Owner /\ Tensor \subseteq Owner /\ Handle \subseteq Owner
  BY ConstantsOK DEF Obj, Owner
<1>4. ASSUME NEW w \in Thread, NEW t \in Tensor, NEW s \in Storage \cup {NoObj},
             Heap!Create(w, t, s)
      PROVE  Heap!Wanted' \subseteq Heap!Usable
  <2> DEFINE f == [ref EXCEPT ![w] = t, ![t] = s]
  <2>1. /\ Heap!Settle(f, retained, {})
        /\ t \in Heap!Usable /\ s \in Heap!Usable \cup {NoObj}
    BY <1>4 DEF Heap!Create, Heap!Usable, Heap!Obj, Obj
  <2>2. f[w] = t /\ f[t] = s /\ \A u \in Owner \ {w, t} : f[u] = ref[u]
    BY <1>2, <1>3
  <2> HIDE DEF f
  <2>3. \A u \in Known \cup {} \cup Thread : f[u] \in Obj => f[u] \in Heap!Usable
    BY <1>1, <1>3, <2>1, <2>2
  <2>4. \A u \in Tensor \cap Heap!Usable : f[u] \in Storage => f[u] \in Heap!Usable
    BY <1>1, <1>3, <2>1, <2>2 DEF Obj
  <2>5. QED
    BY <1>1, <2>1, <2>3, <2>4, SettledWanted
<1>5. ASSUME NEW w \in Thread, NEW o \in Obj, Heap!Obtain(w, o)
      PROVE  Heap!Wanted' \subseteq Heap!Usable
  <2> DEFINE f == [ref EXCEPT ![w] = o]
  <2>1. Heap!Settle(f, retained, {}) /\ o \in Heap!Usable
    BY <1>5 DEF Heap!Obtain
  <2>2. f[w] = o /\ \A u \in Owner \ {w} : f[u] = ref[u]
    BY <1>2, <1>3
  <2> HIDE DEF f
  <2>3. QED
    BY <1>1, <1>3, <2>1, <2>2, SettledWanted
<1>6. ASSUME NEW w \in Thread, NEW v \in Handle, Heap!Pass(w, v)
      PROVE  Heap!Wanted' \subseteq Heap!Usable
  <2> DEFINE f == [ref EXCEPT ![v] = ref[w], ![w] = NoObj]
  <2>1. Heap!Settle(f, retained, {v})
    BY <1>6 DEF Heap!Pass
  <2>2. /\ f[w] = NoObj /\ f[v] \in {ref[w], NoObj}
        /\ \A u \in Owner \ {w, v} : f[u] = ref[u]
    BY <1>2, <1>3
  <2> HIDE DEF f
  <2>3. \A u \in Known \cup {v} \cup Thread : f[u] \in Obj => f[u] \in Heap!Usable
    BY <1>1, <1>3, <2>2
  <2>4. \A u \in Tensor \cap Heap!Usable : f[u] \in Storage => f[u] \in Heap!Usable
    BY <1>1, <1>3, <2>2
  <2>5. QED
    BY <1>1, <2>1, <2>3, <2>4, SettledWanted
<1>7. ASSUME NEW w \in Handle \cup Thread, Heap!LetGo(w)
      PROVE  Heap!Wanted' \subseteq Heap!Usable
  <2> DEFINE f == [ref EXCEPT ![w] = NoObj]
  <2>1. Heap!Settle(f, retained, {})
    BY <1>7 DEF Heap!LetGo
  <2>2. f[w] = NoObj /\ \A u \in Owner \ {w} : f[u] = ref[u]
    BY <1>2, <1>3
  <2> HIDE DEF f
  <2>3. QED
    BY <1>1, <1>3, <2>1, <2>2, SettledWanted
<1>8. CASE Heap!Forget
  BY <1>1, <1>8, SettledWanted DEF Heap!Forget
<1>9. ASSUME NEW t \in Tensor, NEW s \in Storage \cup {NoObj}, Heap!Repoint(t, s)
      PROVE  Heap!Wanted' \subseteq Heap!Usable
  <2> DEFINE f == [ref EXCEPT ![t] = s]
  <2>1. Heap!Settle(f, retained, {}) /\ s \in Heap!Usable \cup {NoObj}
    BY <1>9 DEF Heap!Repoint
  <2>2. f[t] = s /\ \A u \in Owner \ {t} : f[u] = ref[u]
    BY <1>2, <1>3
  <2> HIDE DEF f
  <2>3. \A u \in Known \cup {} \cup Thread : f[u] \in Obj => f[u] \in Heap!Usable
    BY <1>1, <1>3, <2>2
  <2>4. \A u \in Tensor \cap Heap!Usable : f[u] \in Storage => f[u] \in Heap!Usable
    BY <1>1, <1>3, <2>1, <2>2, ConstantsOK
  <2>5. QED
    BY <1>1, <2>1, <2>3, <2>4, SettledWanted
<1>10. ASSUME NEW o \in Obj, Heap!Retain(o)
       PROVE  Heap!Wanted' \subseteq Heap!Usable
  <2> DEFINE k == [retained EXCEPT ![o] = @ + 1]
  <2>1. Heap!Settle(ref, k, {}) /\ o \in Heap!Usable
    BY <1>10 DEF Heap!Retain, Heap!Usable
  <2>2. \A p \in Obj \ {o} : k[p] = retained[p]
    BY <1>2
  <2> HIDE DEF k
  <2>3. QED
    BY <1>1, <2>1, <2>2, SettledWanted
<1>11. ASSUME NEW w \in Thread, NEW o \in Obj, Heap!Surrender(w, o)
       PROVE  Heap!Wanted' \subseteq Heap!Usable
  <2> DEFINE f == [ref EXCEPT ![w] = o]
             k == [retained EXCEPT ![o] = @ - 1]
  <2>1. Heap!Settle(f, k, {}) /\ o \in Heap!Usable
    BY <1>1, <1>11 DEF Heap!Surrender
  <2>2. f[w] = o /\ \A u \in Owner \ {w} : f[u] = ref[u]
    BY <1>2, <1>3
  <2>3. \A p \in Obj \ {o} : k[p] = retained[p]
    BY <1>2
  <2> HIDE DEF f, k
  <2>4. QED
    BY <1>1, <1>3, <2>1, <2>2, <2>3, SettledWanted
<1>12. QED
  BY <1>4, <1>5, <1>6, <1>7, <1>8, <1>9, <1>10, <1>11
  DEF Heap!Next, Heap!Obj, Obj, Heap!Holder

LEMMA GarbageKept ==
  ASSUME Ops \subseteq CountedOps, IInv, IInv', [Next]_vars, NEW o \in Obj, Garbage(o)
  PROVE  Garbage(o)' \/ rc'[o] = 0
<1>1. Heap!Next \/ UNCHANGED Heap!vars
  BY NextHeap
<1>2. o \notin Heap!Wanted /\ rc[o] > 0
  BY WantedSame DEF Garbage, SameWanted, IInv
<1>3. rc'[o] \in Int /\ rc'[o] >= 0
  BY OwnersFinite DEF IInv, HeapOK
<1>4. Wanted(o)' <=> o \in Heap!Wanted'
  BY WantedSameNext DEF SameWanted, IInv
<1>5. CASE Heap!Next
  <2>1. o \notin Heap!Wanted'
    BY <1>2, <1>5, HeapGivesUsable DEF Heap!Usable
  <2>2. QED
    BY <1>3, <1>4, <2>1 DEF Garbage
<1>6. CASE UNCHANGED Heap!vars
  <2>1. Heap!Wanted' = Heap!Wanted
    BY <1>6 DEF Heap!vars, Heap!Wanted
  <2>2. QED
    BY <1>2, <1>3, <1>4, <2>1 DEF Garbage
<1>7. QED
  BY <1>1, <1>5, <1>6

\* No operation brings back an object that nobody can get at, however many handles
\* of it wait for their finalizers.
THEOREM NoResurrection ==
  ASSUME Ops \subseteq CountedOps
  PROVE  Spec => StaysGarbage
<1>1. Init => IInv
  BY InitIInv
<1>2. IInv /\ [Next]_vars => IInv'
  BY NextIInv
<1>3. IInv /\ IInv' /\ [Next]_vars => [\A o \in Obj : Garbage(o) => Garbage(o)' \/ rc'[o] = 0]_vars
  BY GarbageKept
<1>4. QED
  BY <1>1, <1>2, <1>3, PTL DEF Spec, StaysGarbage

\* The owners of an object that nobody can get at are dead handles, or a tensor that
\* nobody can get at either and that has dead handles in its turn.
LEMMA GarbageCollectable == IInv => Collectable
<1> SUFFICES ASSUME IInv, NEW o \in Obj, Garbage(o)
             PROVE  \E h \in live \ reach :
                      /\ \A th \in Thread : h \notin held[th]
                      /\ ref[h] = o \/ (ref[h] \in Tensor /\ ref[ref[h]] = o)
  BY DEF Collectable
<1> DEFINE Dead(h) == h \in live \ reach /\ \A th \in Thread : h \notin held[th]
<1>1. ASSUME NEW p \in Obj, rc[p] > 0, ~Wanted(p)
      PROVE  (\E h \in Handle : Dead(h) /\ ref[h] = p) \/ \E t \in Tensor : ref[t] = p
  <2>1. retained[p] = 0
    BY <1>1 DEF Wanted, IInv, HeapOK
  <2>2. Count(ref, p) > 0
    BY <1>1, <2>1, OwnersFinite DEF IInv, HeapOK
  <2>3. PICK w \in Owner : ref[w] = p
    BY <2>2, HasOwner
  <2>4. w \notin Thread /\ w \notin reach /\ \A th \in Thread : w \notin held[th]
    BY <1>1, <2>3 DEF Wanted
  <2>5. w \in Handle => w \in live
    BY <2>3, ConstantsOK DEF IInv, ThreadOK, Obj
  <2>6. QED
    BY <2>3, <2>4, <2>5 DEF Owner
<1>2. CASE \E h \in Handle : Dead(h) /\ ref[h] = o
  BY <1>2
<1>3. CASE \E t \in Tensor : ref[t] = o
  <2>1. PICK t \in Tensor : ref[t] = o
    BY <1>3
  <2>2. t \in Obj /\ o # NoObj
    BY ConstantsOK DEF Obj
  <2>3. rc[t] > 0
    <3>1. rc[t] \in Int /\ rc[t] >= 0 /\ rc[t] # 0
      BY <2>1, <2>2, OwnersFinite DEF IInv, HeapOK
    <3>2. QED
      BY <3>1
  <2>4. ~Wanted(t)
    <3>1. \A u \in Tensor : ref[u] # t
      BY ConstantsOK DEF IInv, HeapOK
    <3>2. QED
      BY <2>1, <2>2, <3>1 DEF Wanted, Garbage
  <2>5. PICK h \in Handle : Dead(h) /\ ref[h] = t
    <3>1. \A u \in Tensor : ref[u] # t
      BY ConstantsOK DEF IInv, HeapOK
    <3>2. QED
      BY <1>1, <2>2, <2>3, <2>4, <3>1
  <2>6. QED
    BY <2>1, <2>5
<1>4. QED
  BY <1>1, <1>2, <1>3 DEF Garbage

\* So an object that nobody can get at waits for nothing but finalizers.
THEOREM GarbageHasFinalizers ==
  ASSUME Ops \subseteq CountedOps
  PROVE  Spec => []Collectable
<1>1. Init => IInv
  BY InitIInv
<1>2. IInv /\ [Next]_vars => IInv'
  BY NextIInv
<1>3. QED
  BY <1>1, <1>2, GarbageCollectable, PTL DEF Spec
=============================================================================
