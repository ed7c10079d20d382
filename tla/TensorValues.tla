---------------------------- MODULE TensorValues ----------------------------
(***************************************************************************)
(* What the operations on tensors do to the elements: which memory they    *)
(* write, and from which values.                                           *)
(*                                                                         *)
(* The names follow a convention (core/README.md, Preserving Immutability  *)
(* in non-IO FFI): f is pure and returns a new tensor, f_ mutates its      *)
(* first tensor and returns it, _f is the call into C.  Underneath, every  *)
(* one of them runs a loop of C over the elements of its operands, and     *)
(* tensors may be views of the same storage.  Other threads run between    *)
(* the loads and stores of a loop: the calls are safe foreign calls, and   *)
(* nothing locks.                                                          *)
(*                                                                         *)
(* Operators as ^+^ are pure by unsafePerformIO: the expression is a thunk *)
(* that has its operands, and the operation runs when it is forced.        *)
(*                                                                         *)
(* Sizes do not change here; memory management is in TensorMemory.         *)
(***************************************************************************)
EXTENDS Naturals, Sequences

CONSTANTS
  Thread,    \* Haskell threads
  Tensor,    \* C tensors; bound: how many a run makes
  Storage,   \* C storages; bound: likewise
  NoObj,     \* no tensor yet
  Junk,      \* what uninitialized memory holds
  Width,     \* bound: the elements of a storage
  Mod,       \* bound: the values of an element
  Ops        \* the operations that the program uses

(***************************************************************************)
(* One operation stands for all of its family: cadd for the pointwise ones *)
(* (those of fewer operands included), addmm for those of TensorMathBlas   *)
(* that add to a tensor.                                                   *)
(***************************************************************************)
PureOps    == {"fromList1d", "copy", "cadd", "addmm"}
InPlaceOps == {"cadd_", "addmm_"}
AllOps     == PureOps \cup InPlaceOps \cup {"newNarrow", "^+^"}

\* The operations that keep to the naming convention.
SoundOps == AllOps \ {"copy", "addmm_"}

ASSUME ConstantsOK ==
  /\ Ops \subseteq AllOps
  /\ Width \in Nat \ {0}
  /\ Mod \in Nat \ {0}
  /\ NoObj \notin Tensor \cup [stor : Storage, off : Nat, n : Nat]
  /\ Junk \notin Nat

VARIABLES
  known,   \* the tensors that the program has
  view,    \* per tensor: its storage, offset and number of elements
  data,    \* per storage: its elements
  frame,   \* per thread: the operation it is in
  thunk    \* an expression a ^+^ b that has not been forced; bound: one

vars == <<known, view, data, frame, thunk>>

Value == 0 .. Mod - 1
Index == 1 .. Width

Idle     == [op |-> "none"]
NoThunk  == [args |-> <<>>, before |-> <<>>]

Init ==
  /\ known = {}
  /\ view = [t \in Tensor |-> NoObj]
  /\ data = [s \in Storage |-> [j \in Index |-> Junk]]
  /\ frame = [th \in Thread |-> Idle]
  /\ thunk = NoThunk

-----------------------------------------------------------------------------
Size(t)     == view[t].n
Cell(t, i)  == <<view[t].stor, view[t].off + i>>
Cells(t)    == {Cell(t, i) : i \in 1 .. Size(t)}
At(c)       == data[c[1]][c[2]]
Contents(t) == [i \in 1 .. Size(t) |-> At(Cell(t, i))]

InUse(t) == view[t] # NoObj
Stored   == {view[t].stor : t \in {u \in Tensor : InUse(u)}}

\* Operands of one size, as many as the operation takes.
Operands(op) ==
  LET k == CASE op = "copy" -> 1
             [] op \in {"cadd", "cadd_", "^+^"} -> 2
             [] op \in {"addmm", "addmm_"} -> 3
  IN  {a \in [1 .. k -> known] : \A j, l \in 1 .. k : Size(a[j]) = Size(a[l])}

\* What an element becomes, from the elements vs of the sources.
Element(op, vs) ==
  IF \E j \in DOMAIN vs : vs[j] = Junk THEN {Junk}
  ELSE CASE op = "fromList1d" -> Value
         [] op = "copy" -> {vs[1]}
         [] op \in {"cadd", "cadd_", "^+^"} -> {(vs[1] + vs[2]) % Mod}
         [] op \in {"addmm", "addmm_"} -> {(vs[1] + vs[2] + vs[3]) % Mod}

-----------------------------------------------------------------------------
(***************************************************************************)
(* Which tensor C writes and which ones it reads, of the operands a and    *)
(* the new tensor r.  The Blas operations in place are called on their     *)
(* second tensor; copy calls C with source and destination exchanged.      *)
(***************************************************************************)
\* Seeded faults: new and in-place functions exchanged; the last operand written.
DstExchanged(op, a, r) == IF a = <<>> THEN r ELSE a[1]
DstLast(op, a, r) == IF op \in PureOps THEN r ELSE a[Len(a)]

Dst(op, a, r) ==
  CASE op = "addmm_" -> a[2]
    [] op = "copy" -> a[1]
    [] op \in (PureOps \cup {"^+^"}) \ {"copy"} -> r
    [] op \in InPlaceOps \ {"addmm_"} -> a[1]

\* Seeded fault: the result is read for the first operand.
SrcResult(op, a, r) ==
  IF op \in PureOps /\ a # <<>> THEN [a EXCEPT ![1] = r] ELSE a

Src(op, a, r) == IF op = "copy" THEN <<r>> ELSE a

\* The operand that the result of a pure operation is as large as.
Model(op, a) == IF op = "addmm" THEN a[2] ELSE a[1]

-----------------------------------------------------------------------------
(***************************************************************************)
(* The loop in C: dst from src, element by element.  before is kept for    *)
(* the property Snapshot: the elements of the operands of a pure operation *)
(* when it was called, forgotten when something writes to them.            *)
(***************************************************************************)
Now(a) == [j \in DOMAIN a |-> Contents(a[j])]

Loop(th, op, a, r, before) ==
  frame' = [frame EXCEPT ![th] =
              [op |-> op, args |-> a, dst |-> Dst(op, a, r), src |-> Src(op, a, r),
               ret |-> IF r = NoObj THEN Dst(op, a, r) ELSE r,
               i |-> 1, acc |-> NoObj, before |-> before]]

Running(th) == frame[th] # Idle
\* Seeded fault: the last element is left out.
DoneEarly(th) == Running(th) /\ frame[th].i >= Size(frame[th].dst)

Done(th) == Running(th) /\ frame[th].i > Size(frame[th].dst)

Load(th) ==
  /\ Running(th) /\ ~Done(th) /\ frame[th].acc = NoObj
  /\ LET f == frame[th]
         vs == [j \in DOMAIN f.src |-> At(Cell(f.src[j], f.i))]
     IN  \E v \in Element(f.op, vs) : frame' = [frame EXCEPT ![th].acc = v]
  /\ UNCHANGED <<known, view, data, thunk>>

\* What is left of before, of the operands of x, when the cell c is written.
Kept(x, c) == IF \E j \in DOMAIN x.args : c \in Cells(x.args[j]) THEN <<>> ELSE x.before

Store(th) ==
  /\ Running(th) /\ frame[th].acc # NoObj
  /\ LET f == frame[th]
         c == Cell(f.dst, f.i)
     IN  /\ data' = [data EXCEPT ![c[1]][c[2]] = f.acc]
         /\ frame' = [u \in Thread |->
              IF u = th THEN [f EXCEPT !.i = @ + 1, !.acc = NoObj]
              ELSE IF Running(u) THEN [frame[u] EXCEPT !.before = Kept(frame[u], c)]
              ELSE Idle]
         /\ thunk' = [thunk EXCEPT !.before = Kept(thunk, c)]
  /\ UNCHANGED <<known, view>>

Return(th) ==
  /\ Done(th)
  /\ known' = known \cup {frame[th].ret}
  /\ frame' = [frame EXCEPT ![th] = Idle]
  /\ UNCHANGED <<view, data, thunk>>

-----------------------------------------------------------------------------
\* Seeded fault: the storage may be one that is in use.
NewShared(r, n) ==
  /\ ~InUse(r)
  /\ \E s \in Storage :
       view' = [view EXCEPT ![r] = [stor |-> s, off |-> 0, n |-> n]]
  /\ UNCHANGED data

\* A tensor of n elements on a storage of its own.
New(r, n) ==
  /\ ~InUse(r)
  /\ \E s \in Storage \ Stored :
       view' = [view EXCEPT ![r] = [stor |-> s, off |-> 0, n |-> n]]
  /\ UNCHANGED data

\* A new tensor, whose elements are set one by one.
fromList1d(th) ==
  /\ ~Running(th) /\ "fromList1d" \in Ops
  /\ \E r \in Tensor, n \in Index :
       New(r, n) /\ Loop(th, "fromList1d", <<>>, r, <<>>)
  /\ UNCHANGED <<known, thunk>>

\* f: a new tensor of the size of an operand, then C.
withEmpty(th) ==
  /\ ~Running(th)
  /\ \E op \in (PureOps \ {"fromList1d"}) \cap Ops, r \in Tensor :
     \E a \in Operands(op) :
       New(r, Size(Model(op, a))) /\ Loop(th, op, a, r, Now(a))
  /\ UNCHANGED <<known, thunk>>

\* f_: C on the operands.
twice(th) ==
  /\ ~Running(th)
  /\ \E op \in InPlaceOps \cap Ops : \E a \in Operands(op) :
       Loop(th, op, a, NoObj, <<>>)
  /\ UNCHANGED <<known, view, data, thunk>>

\* Seeded fault: the view may go on after the end of the tensor.
newNarrowUnchecked(th) ==
  /\ ~Running(th) /\ "newNarrow" \in Ops
  /\ \E r \in Tensor, t \in known :
       /\ ~InUse(r)
       /\ \E o \in 0 .. Size(t) - 1 : \E n \in 1 .. Size(t) :
            view' = [view EXCEPT ![r] = [view[t] EXCEPT !.off = @ + o, !.n = n]]
       /\ known' = known \cup {r}
  /\ UNCHANGED <<data, frame, thunk>>

\* A view of some of the elements.
newNarrow(th) ==
  /\ ~Running(th) /\ "newNarrow" \in Ops
  /\ \E r \in Tensor, t \in known :
       /\ ~InUse(r)
       /\ \E o \in 0 .. Size(t) - 1 : \E n \in 1 .. Size(t) - o :
            view' = [view EXCEPT ![r] = [view[t] EXCEPT !.off = @ + o, !.n = n]]
       /\ known' = known \cup {r}
  /\ UNCHANGED <<data, frame, thunk>>

\* a ^+^ b is a value of the program before anything has been added.
defer(th) ==
  /\ ~Running(th) /\ "^+^" \in Ops
  /\ thunk = NoThunk
  /\ \E a \in Operands("^+^") :
       thunk' = [args |-> a, before |-> Now(a)]
  /\ UNCHANGED <<known, view, data, frame>>

\* Forcing it runs cadd.
force(th) ==
  /\ ~Running(th)
  /\ thunk # NoThunk
  /\ \E r \in Tensor :
       /\ New(r, Size(thunk.args[1]))
       /\ Loop(th, "^+^", thunk.args, r, thunk.before)
  /\ thunk' = NoThunk
  /\ UNCHANGED known

Step(th) ==
  \/ Load(th) \/ Store(th) \/ Return(th)
  \/ fromList1d(th) \/ withEmpty(th) \/ twice(th) \/ newNarrow(th)
  \/ defer(th) \/ force(th)

Next == \E th \in Thread : Step(th)

Spec == Init /\ [][Next]_vars

-----------------------------------------------------------------------------
(***************************************************************************)
(* Properties.                                                             *)
(***************************************************************************)
Views  == [stor : Storage, off : 0 .. Width - 1, n : Index]
Frames == [op : AllOps, args : Seq(Tensor), dst : Tensor, src : Seq(Tensor), ret : Tensor,
           i : 1 .. Width + 1, acc : Value \cup {NoObj, Junk},
           before : Seq(UNION {[1 .. n -> Value \cup {Junk}] : n \in Index})]

\* The variables have their types; views lie inside their storages.
TypeOK ==
  /\ known \subseteq {t \in Tensor : InUse(t)}
  /\ view \in [Tensor -> Views \cup {NoObj}]
  /\ \A t \in Tensor : InUse(t) => view[t].off + view[t].n <= Width
  /\ data \in [Storage -> [Index -> Value \cup {Junk}]]
  /\ \A th \in Thread : Running(th) => frame[th] \in Frames
  /\ thunk.args \in Seq(known)

Pure(th) == Running(th) /\ frame[th].op \in PureOps \cup {"^+^"}

\* The result of a pure operation is not known before it is returned, and no
\* other tensor has its storage: nobody sees it half done.
Fresh ==
  \A th \in Thread : Pure(th) =>
    /\ frame[th].ret \notin known
    /\ \A t \in Tensor \ {frame[th].ret} :
         InUse(t) => view[t].stor # view[frame[th].ret].stor

\* The thread th stores an element in this step.
Stores(th) == Running(th) /\ Running(th)' /\ frame'[th].i # frame[th].i

\* A function without underscore is pure: whatever other threads do, none of
\* its steps changes an element of a tensor that the program has.
Purity ==
  [][\A th \in Thread : Pure(th) /\ Stores(th) =>
       \A t \in known : Contents(t)' = Contents(t)]_vars

\* A function suffixed with _ mutates its first tensor and nothing else, but
\* for what other tensors share with it.
MutatesFirst ==
  [][\A th \in Thread : Stores(th) /\ frame[th].op \in InPlaceOps =>
       \A s \in Storage, j \in Index :
         data'[s][j] # data[s][j] => <<s, j>> \in Cells(frame[th].args[1])]_vars

\* What a pure operation returns is a function of the elements its operands had
\* when it was called, or the operator applied, unless something has written
\* to them since; its own writes do not.
Snapshot ==
  \A th \in Thread :
    Pure(th) /\ Done(th) /\ frame[th].before # <<>> =>
      \A i \in 1 .. Size(frame[th].ret) :
        At(Cell(frame[th].ret, i)) \in
          Element(frame[th].op, [j \in DOMAIN frame[th].before |-> frame[th].before[j][i]])

\* No tensor that these operations return shows uninitialized memory (new, which
\* returns it by design, is here only a part of them).
Initialized == \A t \in known : \A i \in 1 .. Size(t) : At(Cell(t, i)) # Junk
=============================================================================
