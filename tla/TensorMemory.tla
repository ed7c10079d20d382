---------------------------- MODULE TensorMemory ----------------------------
(***************************************************************************)
(* Who owns the C tensors and C storages behind Haskell's handles, on the  *)
(* CPU (TH) backend.                                                       *)
(*                                                                         *)
(* A handle is a ForeignPtr made by mkDynamic or mkStorage: it owns one    *)
(* reference of a C object, and its finalizer gives that reference back    *)
(* some time after the last use of the handle.  Operations of the IsTensor *)
(* and Storage instances run in two or three steps: they open a            *)
(* withForeignPtr scope and so get raw pointers, they call C, and, when C  *)
(* returned a new object, they wrap it in a handle.  Between these steps   *)
(* other threads run, the program forgets handles and finalizers fire.     *)
(*                                                                         *)
(* The C library is external.  It counts references, atomically: a tensor  *)
(* holds one reference of its storage, which it gives back when its own    *)
(* count reaches 0.  A C call is one step.  Addresses are used again.      *)
(* The CTHState of a CPU handle is the null pointer and its finalizer does *)
(* nothing, so states are left out here.                                   *)
(***************************************************************************)
EXTENDS Integers, FiniteSets

CONSTANTS
  Handle,     \* ForeignPtrs; a finalized one may be used again
  Thread,     \* Haskell threads
  Tensor,     \* addresses of C tensors
  Storage,    \* addresses of C storages
  NoObj,      \* the null pointer
  Ops,        \* the operations that the program uses
  MaxRetain   \* bound: references taken by hand per object

(***************************************************************************)
(* Operations by the scope they open.  A name stands for its family: newX  *)
(* for the views (newWithTensor, newNarrow, newSelect, newTranspose,       *)
(* newUnfold, newView, newExpand), _set for _set, _narrow, _select,        *)
(* _squeeze, _transpose, _unfold, _unsqueeze1d and _expand, _resize for    *)
(* every _resizeN, and math for what reads and writes elements only.       *)
(***************************************************************************)
MakeOps    == {"empty", "newWithSize", "newStorage"}
TensorOps  == {"newX", "newClone", "newContiguous", "storage", "_resize",
               "retain", "copyType", "math"}
Tensor2Ops == {"_set", "math2"}
StorageOps == {"newWithStorage", "retainStorage"}
FreeOps    == {"_free", "_freeCopyTo"}

AllOps == MakeOps \cup TensorOps \cup Tensor2Ops \cup StorageOps
          \cup FreeOps \cup {"_setStorage", "_catArray"}

\* The operations that keep C's counts right, and of these the ones that keep
\* every pointer they use in a scope.
CountedOps == AllOps \ {"storage", "copyType"}
ManagedOps == CountedOps \ {"_catArray"}

ASSUME ConstantsOK ==
  /\ Ops \subseteq AllOps
  /\ MaxRetain \in Nat
  /\ IsFiniteSet(Handle) /\ IsFiniteSet(Thread) /\ IsFiniteSet(Tensor)
  /\ Handle \cap Thread = {}
  /\ Tensor \cap (Handle \cup Thread) = {}
  /\ Tensor \cap Storage = {}
  /\ NoObj \notin Tensor \cup Storage

VARIABLES
  ref,       \* what a handle, a thread's fresh result or a tensor points to
  rc,        \* the reference count that C keeps; 0 is an address not in use
  retained,  \* references that the program took by hand and has not freed
  live,      \* handles whose finalizer has not run
  reach,     \* handles that the program can still reach
  frame,     \* per thread: the operation it is in, and its raw pointers
  held       \* per thread: the handles its withForeignPtr scopes keep alive

vars == <<ref, rc, retained, live, reach, frame, held>>

Obj   == Tensor \cup Storage
Owner == Handle \cup Thread \cup Tensor

Idle == [op |-> "none", self |-> NoObj, src |-> NoObj]

Init ==
  /\ ref = [w \in Owner |-> NoObj]
  /\ rc = [o \in Obj |-> 0]
  /\ retained = [o \in Obj |-> 0]
  /\ live = {}
  /\ reach = {}
  /\ frame = [th \in Thread |-> Idle]
  /\ held = [th \in Thread |-> {}]

-----------------------------------------------------------------------------
(***************************************************************************)
(* Scopes.                                                                 *)
(***************************************************************************)
Dynamics == {h \in reach : ref[h] \in Tensor}
Storages == {h \in reach : ref[h] \notin Tensor}

Begin(th, op, scope, self, src) ==
  /\ op \in Ops
  /\ frame[th] = Idle
  /\ frame' = [frame EXCEPT ![th] = [op |-> op, self |-> self, src |-> src]]
  /\ held' = [held EXCEPT ![th] = scope]

\* The scopes end (or there are none) and the operation has returned.
End(th) ==
  /\ frame' = [frame EXCEPT ![th] = Idle]
  /\ held' = [held EXCEPT ![th] = {}]

\* C has returned an object; what is left is to wrap it.
Wrapping == [op |-> "mkDynamic", self |-> NoObj, src |-> NoObj]
Return(th) ==
  /\ frame' = [frame EXCEPT ![th] = Wrapping]
  /\ UNCHANGED held

mkDynamicIO(th) ==
  /\ \E op \in MakeOps : Begin(th, op, {}, NoObj, NoObj)
  /\ UNCHANGED <<ref, rc, retained, live, reach>>

\* Seeded fault: the raw pointer is used outside its withForeignPtr.
withDynamicStateUnscoped(th) ==
  /\ \E op \in TensorOps, h \in Dynamics :
       /\ op = "retain" => retained[ref[h]] < MaxRetain
       /\ Begin(th, op, {}, ref[h], NoObj)
  /\ UNCHANGED <<ref, rc, retained, live, reach>>

withDynamicState(th) ==
  /\ \E op \in TensorOps, h \in Dynamics :
       /\ op = "retain" => retained[ref[h]] < MaxRetain
       /\ Begin(th, op, {h}, ref[h], NoObj)
  /\ UNCHANGED <<ref, rc, retained, live, reach>>

with2DynamicState(th) ==
  /\ \E op \in Tensor2Ops, h \in Dynamics, g \in Dynamics :
       Begin(th, op, {h, g}, ref[h], ref[g])
  /\ UNCHANGED <<ref, rc, retained, live, reach>>

withStorageState(th) ==
  /\ \E op \in StorageOps, h \in Storages :
       /\ op = "retainStorage" /\ ref[h] # NoObj => retained[ref[h]] < MaxRetain
       /\ Begin(th, op, {h}, NoObj, ref[h])
  /\ UNCHANGED <<ref, rc, retained, live, reach>>

\* Seeded fault: the scope of the storage's handle is left out.
withDynamicStateOnly(th) ==
  /\ \E h \in Dynamics, g \in Storages :
       Begin(th, "_setStorage", {h}, ref[h], ref[g])
  /\ UNCHANGED <<ref, rc, retained, live, reach>>

withDynamicStateAndStorage(th) ==
  /\ \E h \in Dynamics, g \in Storages :
       Begin(th, "_setStorage", {h, g}, ref[h], ref[g])
  /\ UNCHANGED <<ref, rc, retained, live, reach>>

(***************************************************************************)
(* _catArray takes the pointers of its operands out of their scopes (it    *)
(* returns them with pure) before it calls C: only the result is held.     *)
(***************************************************************************)
catArrayBegin(th) ==
  /\ \E h \in Dynamics, g \in Dynamics :
       Begin(th, "_catArray", {h}, ref[h], ref[g])
  /\ UNCHANGED <<ref, rc, retained, live, reach>>

\* Seeded fault: a free by hand of what was not retained.
freeBeginUnretained(th) ==
  /\ \E op \in FreeOps, h \in Dynamics, g \in Dynamics :
       /\ op = "_free" => g = h
       /\ Begin(th, op, {h, g}, ref[h], ref[g])
       /\ ref' = [ref EXCEPT ![th] = ref[h]]
       /\ retained' = [retained EXCEPT ![ref[h]] = @ - 1]
  /\ UNCHANGED <<rc, live, reach>>

(***************************************************************************)
(* The program frees by hand only what it has retained by hand: nothing in *)
(* the code asks for this, and the handle's finalizer frees once more.     *)
(* The reference to be freed is the thread's from here on.                 *)
(***************************************************************************)
freeBegin(th) ==
  /\ \E op \in FreeOps, h \in Dynamics, g \in Dynamics :
       /\ retained[ref[h]] > 0
       /\ op = "_free" => g = h
       /\ Begin(th, op, {h, g}, ref[h], ref[g])
       /\ ref' = [ref EXCEPT ![th] = ref[h]]
       /\ retained' = [retained EXCEPT ![ref[h]] = @ - 1]
  /\ UNCHANGED <<rc, live, reach>>

-----------------------------------------------------------------------------
(***************************************************************************)
(* The C library's counts.  An object freed once too often has count -1    *)
(* (a bound: what C does then is undefined).                               *)
(***************************************************************************)
Inc(r, o) == IF o = NoObj THEN r ELSE [r EXCEPT ![o] = @ + 1]
Dec(r, o) == IF o = NoObj THEN r ELSE [r EXCEPT ![o] = IF @ < 0 THEN @ ELSE @ - 1]

Unused(o) == rc[o] = 0

\* Seeded fault: a freed tensor keeps its storage's reference.
FreeTensorOnly(w) ==
  /\ ref' = [ref EXCEPT ![w] = NoObj]
  /\ rc' = Dec(rc, ref[w])

\* The owner w gives its reference back; the last one of a tensor takes the
\* tensor's reference of its storage along.
Free(w) ==
  LET o == ref[w] IN
  IF o \in Tensor /\ rc[o] = 1
  THEN /\ ref' = [ref EXCEPT ![w] = NoObj, ![o] = NoObj]
       /\ rc' = Dec(Dec(rc, o), ref[o])
  ELSE /\ ref' = [ref EXCEPT ![w] = NoObj]
       /\ rc' = Dec(rc, o)

\* Seeded fault: a view does not count its reference of the storage.
NewTensorUncounted(th, s) ==
  \E t \in Tensor :
    /\ Unused(t)
    /\ ref' = [ref EXCEPT ![th] = t, ![t] = s]
    /\ rc' = Inc(rc, t)

\* A new tensor on the storage s (on no storage when s is NoObj).
NewTensor(th, s) ==
  \E t \in Tensor :
    /\ Unused(t)
    /\ ref' = [ref EXCEPT ![th] = t, ![t] = s]
    /\ rc' = Inc(Inc(rc, t), s)

\* Seeded fault: the result is an object there is, and is not retained.
ShareUncounted(th, o) ==
  /\ ref' = [ref EXCEPT ![th] = o]
  /\ rc' = IF Unused(o) THEN Inc(rc, o) ELSE rc

\* The result is one more reference of an object there is.
Share(th, o) ==
  /\ ref' = [ref EXCEPT ![th] = o]
  /\ rc' = Inc(rc, o)

\* The tensor t is put on the storage s (setStorageNd).
PutOn(t, s) ==
  /\ ref' = [ref EXCEPT ![t] = s]
  /\ rc' = IF s = ref[t] THEN rc ELSE Dec(Inc(rc, s), ref[t])

\* A tensor without storage gets one when it grows; otherwise the storage
\* that it has is enlarged in place.
Grow(t) ==
  \/ /\ ref[t] = NoObj
     /\ \E s \in Storage : Unused(s) /\ PutOn(t, s)
  \/ UNCHANGED <<ref, rc>>

-----------------------------------------------------------------------------
(***************************************************************************)
(* The C call of each operation.                                           *)
(***************************************************************************)
Calling(th, op) == frame[th].op = op
Self(th) == frame[th].self
Src(th)  == frame[th].src

empty(th) ==
  /\ Calling(th, "empty")
  /\ NewTensor(th, NoObj)
  /\ Return(th)
  /\ UNCHANGED <<retained, live, reach>>

newWithSize(th) ==
  /\ Calling(th, "newWithSize")
  /\ \E s \in Storage : Unused(s) /\ NewTensor(th, s)
  /\ Return(th)
  /\ UNCHANGED <<retained, live, reach>>

newStorage(th) ==
  /\ Calling(th, "newStorage")
  /\ \E s \in Storage : Unused(s) /\ Share(th, s)
  /\ Return(th)
  /\ UNCHANGED <<retained, live, reach>>

newX(th) ==
  /\ Calling(th, "newX")
  /\ NewTensor(th, ref[Self(th)])
  /\ Return(th)
  /\ UNCHANGED <<retained, live, reach>>

Clone(th) ==
  \/ ref[Self(th)] = NoObj /\ NewTensor(th, NoObj)
  \/ /\ ref[Self(th)] # NoObj
     /\ \E s \in Storage : Unused(s) /\ NewTensor(th, s)

newClone(th) ==
  /\ Calling(th, "newClone")
  /\ Clone(th)
  /\ Return(th)
  /\ UNCHANGED <<retained, live, reach>>

\* A contiguous tensor is not copied: the result is the same C tensor.
newContiguous(th) ==
  /\ Calling(th, "newContiguous")
  /\ Clone(th) \/ Share(th, Self(th))
  /\ Return(th)
  /\ UNCHANGED <<retained, live, reach>>

newWithStorage(th) ==
  /\ Calling(th, "newWithStorage")
  /\ NewTensor(th, Src(th))
  /\ Return(th)
  /\ UNCHANGED <<retained, live, reach>>

\* C hands out the tensor's storage and counts no reference for it.
storage(th) ==
  /\ Calling(th, "storage")
  /\ ref' = [ref EXCEPT ![th] = ref[Self(th)]]
  /\ Return(th)
  /\ UNCHANGED <<rc, retained, live, reach>>

_resize(th) ==
  /\ Calling(th, "_resize")
  /\ Grow(Self(th))
  /\ End(th)
  /\ UNCHANGED <<retained, live, reach>>

_set(th) ==
  /\ Calling(th, "_set")
  /\ PutOn(Self(th), ref[Src(th)])
  /\ End(th)
  /\ UNCHANGED <<retained, live, reach>>

_setStorage(th) ==
  /\ Calling(th, "_setStorage")
  /\ PutOn(Self(th), Src(th))
  /\ End(th)
  /\ UNCHANGED <<retained, live, reach>>

\* Elements are read and written; a result without storage may get one.
math(th) ==
  /\ Calling(th, "math") \/ Calling(th, "math2") \/ Calling(th, "_catArray")
  /\ Grow(Self(th))
  /\ End(th)
  /\ UNCHANGED <<retained, live, reach>>

RetainBy(th, o) ==
  IF o = NoObj
  THEN UNCHANGED <<rc, retained>>
  ELSE rc' = Inc(rc, o) /\ retained' = Inc(retained, o)

retain(th) ==
  /\ \/ Calling(th, "retain") /\ RetainBy(th, Self(th))
     \/ Calling(th, "retainStorage") /\ RetainBy(th, Src(th))
  /\ End(th)
  /\ UNCHANGED <<ref, live, reach>>

_free(th) ==
  /\ Calling(th, "_free") \/ Calling(th, "_freeCopyTo")
  /\ Free(th)
  /\ End(th)
  /\ UNCHANGED <<retained, live, reach>>

\* The copies between element types make their target and then throw.
copyType(th) ==
  /\ Calling(th, "copyType")
  /\ \E t \in Tensor : Unused(t) /\ rc' = Inc(rc, t)
  /\ End(th)
  /\ UNCHANGED <<ref, retained, live, reach>>

-----------------------------------------------------------------------------
(***************************************************************************)
(* Handles: made, forgotten by the program, finalized.                     *)
(***************************************************************************)
\* Seeded fault: the pointer is wrapped without a finalizer (newForeignPtr_).
mkDynamicUnmanaged(th) ==
  /\ Calling(th, "mkDynamic")
  /\ ref' = [ref EXCEPT ![th] = NoObj]
  /\ End(th)
  /\ UNCHANGED <<rc, retained, live, reach>>

mkDynamic(th) ==
  /\ Calling(th, "mkDynamic")
  /\ \E h \in Handle \ live :
       /\ ref' = [ref EXCEPT ![h] = ref[th], ![th] = NoObj]
       /\ live' = live \cup {h}
       /\ reach' = reach \cup {h}
  /\ End(th)
  /\ UNCHANGED <<rc, retained>>

Forget(h) ==
  /\ h \in reach
  /\ reach' = reach \ {h}
  /\ UNCHANGED <<ref, rc, retained, live, frame, held>>

\* Seeded fault: the finalizer runs although a scope is open.
FinalizeInScope(h) ==
  /\ h \in live \ reach
  /\ Free(h)
  /\ live' = live \ {h}
  /\ UNCHANGED <<retained, reach, frame, held>>

\* The garbage collector may run the finalizer of any handle that neither
\* the program nor an open scope has, at any time and in any order.
Finalize(h) ==
  /\ h \in live \ reach
  /\ \A th \in Thread : h \notin held[th]
  /\ Free(h)
  /\ live' = live \ {h}
  /\ UNCHANGED <<retained, reach, frame, held>>

Enter(th) ==
  \/ mkDynamicIO(th)
  \/ withDynamicState(th)
  \/ with2DynamicState(th)
  \/ withStorageState(th)
  \/ withDynamicStateAndStorage(th)
  \/ catArrayBegin(th)
  \/ freeBegin(th)

Call(th) ==
  \/ empty(th)
  \/ newWithSize(th)
  \/ newStorage(th)
  \/ newX(th)
  \/ newClone(th)
  \/ newContiguous(th)
  \/ newWithStorage(th)
  \/ storage(th)
  \/ _resize(th)
  \/ _set(th)
  \/ _setStorage(th)
  \/ math(th)
  \/ retain(th)
  \/ _free(th)
  \/ copyType(th)

Next ==
  \/ \E th \in Thread : Enter(th) \/ Call(th) \/ mkDynamic(th)
  \/ \E h \in Handle : Forget(h) \/ Finalize(h)

Spec == Init /\ [][Next]_vars

\* The program has returned from every operation and has let go of every handle.
Ended == reach = {} /\ \A th \in Thread : frame[th] = Idle

\* When the program ends, GHC runs the C finalizers that are left.  Before that the
\* collector may come, or not: no code asks for it, and C's memory does not count
\* for it.
FairSpec == Spec /\ \A h \in Handle : WF_vars(Ended /\ Finalize(h))

-----------------------------------------------------------------------------
(***************************************************************************)
(* Properties.                                                             *)
(***************************************************************************)
Owners(f, o) == {w \in Owner : f[w] = o}

\* The variables have their types: a tensor points to a storage, a result or
\* a handle to either, and scopes hold handles that are not finalized.
TypeOK ==
  /\ ref \in [Owner -> Obj \cup {NoObj}]
  /\ \A t \in Tensor : ref[t] \in Storage \cup {NoObj}
  /\ rc \in [Obj -> Int]
  /\ retained \in [Obj -> Nat]
  /\ live \subseteq Handle
  /\ reach \subseteq live
  /\ held \in [Thread -> SUBSET live]
  /\ frame \in [Thread -> [op : AllOps \cup {"none", "mkDynamic"},
                             self : Tensor \cup {NoObj},
                             src : Obj \cup {NoObj}]]
  /\ \A th \in Thread :
       /\ frame[th].op \in TensorOps \cup Tensor2Ops \cup FreeOps
                           \cup {"_setStorage", "_catArray"} => Self(th) \in Tensor
       /\ frame[th].op \in Tensor2Ops => Src(th) \in Tensor
       /\ frame[th].op \in StorageOps \cup {"_setStorage"} => Src(th) \notin Tensor

\* C's count of an object is the number of its owners: the handles made by
\* mkDynamic and mkStorage, results not yet wrapped, tensors on a storage, and
\* the references taken by hand.  One too many leaks; one too few frees early.
RefCount ==
  \A o \in Obj : rc[o] = Cardinality(Owners(ref, o)) + retained[o]

\* No handle, result or tensor points to an object that C has freed: the
\* finalizer of mkDynamic and mkStorage never frees a second time.
NoDangling == \A w \in Owner : ref[w] # NoObj => rc[ref[w]] > 0

\* The raw pointers that an operation took out of its withForeignPtr scopes
\* are still allocated when it passes them to C.
NoUseAfterFree ==
  \A th \in Thread :
    /\ Self(th) # NoObj => rc[Self(th)] > 0
    /\ Src(th) # NoObj => rc[Src(th)] > 0

\* What is not in use points nowhere: finalized handles, threads that have no
\* fresh result, tensors that C has freed.
Tidy ==
  /\ \A h \in Handle \ live : ref[h] = NoObj
  /\ \A th \in Thread :
       ref[th] # NoObj => frame[th].op \in FreeOps \cup {"mkDynamic"}
  /\ \A t \in Tensor : rc[t] = 0 => ref[t] = NoObj

\* The raw pointers of an operation are those of the handles its scopes hold,
\* the operands of _catArray excepted.
Scoped ==
  \A th \in Thread :
    /\ Self(th) # NoObj => \E h \in held[th] : ref[h] = Self(th)
    /\ Src(th) # NoObj => \/ Calling(th, "_catArray")
                          \/ \E h \in held[th] : ref[h] = Src(th)

\* What every step keeps, and NoDangling and NoUseAfterFree follow from.
Inv == TypeOK /\ RefCount /\ Tidy /\ Scoped

\* An object that C keeps has somebody who will give it back.
NoLeak ==
  \A o \in Obj : rc[o] <= Cardinality(Owners(ref, o)) + retained[o]

\* What the program or a running operation can get at.
Wanted(o) ==
  LET top == {p \in Obj : \/ retained[p] > 0
                          \/ \E h \in reach : ref[h] = p
                          \/ \E th \in Thread : \/ ref[th] = p
                                                \/ \E h \in held[th] : ref[h] = p}
  IN  o \in top \/ \E t \in Tensor \cap top : ref[t] = o

Garbage(o) == rc[o] > 0 /\ ~Wanted(o)

\* What nobody can get at stays so until it is freed: no operation, by a stale raw
\* pointer or by way of a tensor that shares it, brings it back between the
\* finalizers of its handles.
StaysGarbage ==
  [][\A o \in Obj : Garbage(o) => Garbage(o)' \/ rc'[o] = 0]_vars

\* And it never waits for anything but finalizers: one that may run gives back a
\* reference of it, or of a tensor that keeps it.
Collectable ==
  \A o \in Obj : Garbage(o) =>
    \E h \in live \ reach :
      /\ \A th \in Thread : h \notin held[th]
      /\ ref[h] = o \/ (ref[h] \in Tensor /\ ref[ref[h]] = o)

\* Memory comes back at the end of the program: the finalizers of whatever handles are
\* left, in any order, free all that was not retained by hand, through however many
\* handles and tensors it is still referenced.  Nothing is promised for a program that
\* goes on: MemorySpec.hs:30 and :40 report of one that makes and drops tensors in a
\* loop that it leaks, or does not release consistently.
Reclaimed == Ended ~> (~Ended \/ \A o \in Obj : ~Garbage(o))

\* The counts, scopes and finalizers implement the managed heap: objects exist
\* exactly while they can be got at, and no handle in use loses its object.
Heap == INSTANCE ManagedHeap WITH
          known <- reach \cup UNION {held[th] : th \in Thread},
          alive <- {o \in Obj : rc[o] > 0}
ImplementsHeap == Heap!Spec
=============================================================================
