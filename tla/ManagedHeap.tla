---------------------------- MODULE ManagedHeap ----------------------------
(***************************************************************************)
(* What "memory-managed tensors" (README.md, the row of types/) promises,  *)
(* with no reference count, no finalizer and no scope in sight: a heap of  *)
(* C tensors and C storages in which an object exists exactly as long as   *)
(* somebody can still get at it.                                           *)
(*                                                                         *)
(* A holder is a Haskell handle or a thread that is inside an operation.   *)
(* A tensor may point to one storage, and several tensors may point to the *)
(* same one.                                                               *)
(***************************************************************************)
EXTENDS Naturals

CONSTANTS
  Handle,   \* the ForeignPtrs of tensors and storages
  Thread,   \* the Haskell threads
  Tensor,   \* addresses of C tensors
  Storage,  \* addresses of C storages
  NoObj     \* the null pointer

VARIABLES
  ref,      \* what each holder, and each tensor, points to
  retained, \* references the program has taken by hand
  known,    \* the handles that the program, or an operation, still has
  alive     \* the objects that exist

vars == <<ref, retained, known, alive>>

Obj    == Tensor \cup Storage
Holder == Handle \cup Thread

(***************************************************************************)
(* The objects that can be got at when f says who points where and k       *)
(* counts the references taken by hand.                                    *)
(***************************************************************************)
Held(f, k)    == {o \in Obj : k[o] > 0 \/ \E w \in Holder : f[w] = o}
Reached(f, k) == Held(f, k) \cup
                 {s \in Storage : \E t \in Tensor \cap Held(f, k) : f[t] = s}

(***************************************************************************)
(* The pointers become f and the hand-taken references k; what can no      *)
(* longer be got at is gone, at once, with the pointers it held.  The      *)
(* program gets the handles in got, and may forget any it has.             *)
(***************************************************************************)
Settle(f, k, got) ==
  /\ alive' = Reached(f, k)
  /\ ref' = [w \in Holder \cup Tensor |->
               IF w \in Tensor \ Reached(f, k) THEN NoObj ELSE f[w]]
  /\ retained' = k
  /\ known' \in SUBSET (known \cup got)

(***************************************************************************)
(* What the program or a thread can get at: not by way of forgotten        *)
(* handles, though these keep their objects until they let go.             *)
(***************************************************************************)
Wanted ==
  LET top == {o \in Obj : retained[o] > 0 \/ \E w \in known \cup Thread : ref[w] = o}
  IN  top \cup {s \in Storage : \E t \in Tensor \cap top : ref[t] = s}

\* What an operation can take: nothing comes back that was only waiting to go.
Usable == Wanted \cup (Obj \ alive)

Init ==
  /\ ref = [w \in Holder \cup Tensor |-> NoObj]
  /\ retained = [o \in Obj |-> 0]
  /\ known = {}
  /\ alive = {}

(***************************************************************************)
(* A holder that points nowhere gets a tensor that did not exist, on a     *)
(* new storage, on a storage that can be got at, or on none ...            *)
(***************************************************************************)
Create(w, t, s) ==
  /\ ref[w] = NoObj
  /\ t \notin alive
  /\ s \in Usable \cup {NoObj}
  /\ Settle([ref EXCEPT ![w] = t, ![t] = s], retained, {})

\* ... or a storage that did not exist, or an object that can be got at.
Obtain(w, o) ==
  /\ ref[w] = NoObj
  /\ o \in Usable
  /\ Settle([ref EXCEPT ![w] = o], retained, {})

\* What one holder has passes to another.
Pass(w, v) ==
  /\ ref[v] = NoObj
  /\ Settle([ref EXCEPT ![v] = ref[w], ![w] = NoObj], retained, {v})

\* A thread lets go; a handle does only when nobody has it any more.
LetGo(w) ==
  /\ w \notin known
  /\ Settle([ref EXCEPT ![w] = NoObj], retained, {})

\* Handles are forgotten.
Forget == Settle(ref, retained, {})

\* A tensor that can be got at is put on another storage.
Repoint(t, s) ==
  /\ t \in Wanted
  /\ s \in Usable \cup {NoObj}
  /\ Settle([ref EXCEPT ![t] = s], retained, {})

\* A reference is taken by hand, or is given to a holder.
Retain(o) ==
  /\ o \in Wanted
  /\ Settle(ref, [retained EXCEPT ![o] = @ + 1], {})

Surrender(w, o) ==
  /\ ref[w] = NoObj
  /\ retained[o] > 0
  /\ Settle([ref EXCEPT ![w] = o], [retained EXCEPT ![o] = @ - 1], {})

Next ==
  \/ \E w \in Thread, t \in Tensor, s \in Storage \cup {NoObj} : Create(w, t, s)
  \/ \E w \in Thread, o \in Obj : Obtain(w, o)
  \/ \E w \in Thread, v \in Handle : Pass(w, v)
  \/ \E w \in Holder : LetGo(w)
  \/ Forget
  \/ \E t \in Tensor, s \in Storage \cup {NoObj} : Repoint(t, s)
  \/ \E o \in Obj : Retain(o)
  \/ \E w \in Thread, o \in Obj : Surrender(w, o)

Spec == Init /\ [][Next]_vars
=============================================================================
