------------------------- MODULE TensorValuesProofs -------------------------
(***************************************************************************)
(* Proofs about TensorValues, for any number of threads, tensors, storages *)
(* and elements.                                                           *)
(***************************************************************************)
EXTENDS TensorValues, TLAPS

\* A record with the fields of a frame.
IsFrame(f) ==
  f \in [op : {f.op}, args : {f.args}, dst : {f.dst}, src : {f.src}, ret : {f.ret},
         i : {f.i}, acc : {f.acc}, before : {f.before}]

\* Tensors in use have a view, and the program's are in use.
ViewOK ==
  /\ view = [t \in Tensor |-> view[t]]
  /\ \A t \in Tensor : InUse(t) => view[t] \in [stor : Storage, off : Nat, n : Nat]
  /\ known \subseteq {t \in Tensor : InUse(t)}

ThunkOK ==
  /\ thunk \in [args : {thunk.args}, before : {thunk.before}]
  /\ thunk = NoThunk \/ thunk.args[1] \in known

\* A running operation writes the tensor that it returns: a new one when it is
\* pure, its first operand when it is in place.
FrameOK(th) ==
  Running(th) =>
    LET f == frame[th] IN
    /\ IsFrame(f)
    /\ f.op \in PureOps \cup InPlaceOps \cup {"^+^"}
    /\ f.dst = f.ret
    /\ f.ret \in Tensor /\ InUse(f.ret)
    /\ f.i \in Nat \ {0}
    /\ f.acc # NoObj => f.i <= Size(f.dst)
    /\ f.op \in InPlaceOps => f.ret \in known /\ f.ret = f.args[1]

\* No two pure operations make the same tensor.
Distinct ==
  \A th, u \in Thread : Pure(th) /\ Pure(u) /\ frame[th].ret = frame[u].ret => th = u

\* The inductive invariant.
IInv ==
  /\ ViewOK
  /\ ThunkOK
  /\ frame = [th \in Thread |-> frame[th]]
  /\ \A th \in Thread : FrameOK(th)
  /\ Fresh
  /\ Distinct

-----------------------------------------------------------------------------
\* It holds before anything is made.
LEMMA InitIInv == Init => IInv
<1> SUFFICES ASSUME Init PROVE IInv
  OBVIOUS
<1>1. \A th \in Thread : ~Running(th)
  BY DEF Init, Running
<1>2. \A t \in Tensor : ~InUse(t)
  BY DEF Init, InUse
<1>3. ViewOK /\ frame = [th \in Thread |-> frame[th]]
  BY <1>2 DEF Init, ViewOK
<1>4. ThunkOK
  BY DEF Init, ThunkOK, NoThunk
<1>5. QED
  BY <1>1, <1>3, <1>4 DEF IInv, FrameOK, Fresh, Distinct, Pure

\* Operands are tensors that the program has, two or more but for copy's.
LEMMA OperandsKnown ==
  ASSUME NEW op \in (PureOps \cup InPlaceOps \cup {"^+^"}) \ {"fromList1d", "copy"},
         NEW a \in Operands(op)
  PROVE  a[1] \in known /\ a[2] \in known
BY DEF Operands, PureOps, InPlaceOps

\* A pure operation begins: the new tensor is nobody else's, nor is its storage.
LEMMA BeginPure ==
  ASSUME IInv, NEW th \in Thread, NEW op \in (PureOps \cup {"^+^"}) \ {"copy"},
         NEW a, NEW r \in Tensor, NEW n \in Nat, NEW b,
         ~Running(th), New(r, n), Loop(th, op, a, r, b), known' = known, ThunkOK'
  PROVE  IInv'
<1>1. PICK s \in Storage \ Stored :
        view' = [view EXCEPT ![r] = [stor |-> s, off |-> 0, n |-> n]]
  BY DEF New
<1>2. r # NoObj /\ ~InUse(r) /\ r \notin known
  BY ConstantsOK DEF New, IInv, ViewOK
<1>3. /\ view' = [t \in Tensor |-> view'[t]]
      /\ view'[r] = [stor |-> s, off |-> 0, n |-> n]
      /\ \A t \in Tensor \ {r} : view'[t] = view[t]
  BY <1>1 DEF IInv, ViewOK
<1> DEFINE f == frame'[th]
<1>4. /\ frame' = [u \in Thread |-> frame'[u]]
      /\ \A u \in Thread \ {th} : frame'[u] = frame[u]
      /\ f = [op |-> op, args |-> a, dst |-> Dst(op, a, r), src |-> Src(op, a, r),
              ret |-> r, i |-> 1, acc |-> NoObj, before |-> b]
  BY <1>2 DEF Loop, IInv
<1>5. Dst(op, a, r) = r
  BY DEF Dst, PureOps, InPlaceOps
<1>6. InUse(r)' /\ \A t \in Tensor : InUse(t) => InUse(t)' /\ t # r /\ view'[t] = view[t]
  BY <1>2, <1>3, ConstantsOK DEF InUse
<1>7. \A t \in Tensor : InUse(t)' => t = r \/ InUse(t)
  BY <1>3 DEF InUse
<1>8. ViewOK'
  BY <1>3, <1>6, <1>7 DEF ViewOK, IInv
<1>9. Running(th)' /\ f.op = op /\ f.ret = r /\ Pure(th)'
  BY <1>4 DEF Running, Idle, Pure, PureOps
<1>10. FrameOK(th)'
  BY <1>4, <1>5, <1>6, <1>9 DEF FrameOK, IsFrame, PureOps, InPlaceOps
<1>11. \A u \in Thread \ {th} :
         (Running(u)' <=> Running(u)) /\ (Pure(u)' <=> Pure(u)) /\ frame'[u] = frame[u]
  BY <1>4 DEF Running, Pure
<1>12. \A u \in Thread \ {th} : FrameOK(u)'
  <2> SUFFICES ASSUME NEW u \in Thread \ {th}, Running(u)
               PROVE  FrameOK(u)'
    BY <1>11 DEF FrameOK
  <2>1. FrameOK(u) /\ frame'[u] = frame[u]
    BY <1>11 DEF IInv
  <2>2. frame[u].ret \in Tensor /\ InUse(frame[u].ret) /\ frame[u].dst = frame[u].ret
    BY <2>1 DEF FrameOK
  <2>3. InUse(frame[u].ret)' /\ view'[frame[u].dst] = view[frame[u].dst]
    BY <2>1, <2>2, <1>6
  <2>4. QED
    BY <2>1, <2>3 DEF FrameOK, InUse, Size
<1>13. Fresh'
  <2> SUFFICES ASSUME NEW u \in Thread, Pure(u)'
               PROVE  /\ frame'[u].ret \notin known'
                      /\ \A t \in Tensor \ {frame'[u].ret} :
                           InUse(t)' => view'[t].stor # view'[frame'[u].ret].stor
    BY DEF Fresh
  <2>0. frame'[u].ret \notin known'
    BY <1>2, <1>9, <1>11 DEF IInv, Fresh
  <2> SUFFICES ASSUME NEW t \in Tensor \ {frame'[u].ret}, InUse(t)'
               PROVE  view'[t].stor # view'[frame'[u].ret].stor
    BY <2>0
  <2>1. CASE u = th
    <3>1. InUse(t) /\ view'[t] = view[t]
      BY <2>1, <1>6, <1>7, <1>9
    <3>2. view[t].stor \in Stored
      BY <3>1 DEF Stored
    <3>3. QED
      BY <2>1, <3>1, <3>2, <1>1, <1>2, <1>3, <1>9
  <2>2. CASE u # th
    <3>1. Pure(u) /\ frame'[u] = frame[u]
      BY <2>2, <1>11
    <3>2. /\ frame[u].ret \in Tensor /\ InUse(frame[u].ret)
          /\ frame[u].ret # r /\ frame[u].ret \notin known
          /\ view'[frame[u].ret] = view[frame[u].ret]
      BY <3>1, <1>6 DEF IInv, FrameOK, Pure, Fresh
    <3>3. CASE t = r
      <4>1. view[frame[u].ret].stor \in Stored
        BY <3>2 DEF Stored
      <4>2. QED
        BY <3>1, <3>2, <3>3, <4>1, <1>1, <1>3
    <3>4. CASE t # r
      <4>1. InUse(t) /\ view'[t] = view[t]
        BY <3>4, <1>6, <1>7
      <4>2. QED
        BY <3>1, <3>2, <4>1 DEF IInv, Fresh
    <3>5. QED
      BY <3>3, <3>4
  <2>3. QED
    BY <2>1, <2>2
<1>14. Distinct'
  <2>1. \A u \in Thread \ {th} : Pure(u)' => frame'[u].ret # r
    BY <1>6, <1>11 DEF IInv, FrameOK, Pure
  <2>2. QED
    BY <2>1, <1>9, <1>11 DEF Distinct, IInv
<1>15. QED
  BY <1>4, <1>8, <1>10, <1>12, <1>13, <1>14 DEF IInv

\* Steps that make no tensor and begin nothing pure keep what is said of the
\* pure operations.
LEMMA NothingNew ==
  ASSUME IInv, view' = view, known' = known, ThunkOK',
         frame' = [u \in Thread |-> frame'[u]],
         \A u \in Thread : FrameOK(u)',
         \A u \in Thread : Pure(u)' => Pure(u) /\ frame'[u].ret = frame[u].ret
  PROVE  IInv'
<1>1. ViewOK'
  BY DEF IInv, ViewOK, InUse
<1>2. Fresh'
  BY DEF IInv, Fresh, InUse
<1>3. Distinct'
  BY DEF IInv, Distinct
<1>4. QED
  BY <1>1, <1>2, <1>3 DEF IInv

\* The frame of a thread for which nothing it speaks of changes.
LEMMA FrameStays ==
  ASSUME NEW u \in Thread, FrameOK(u), frame'[u] = frame[u], view' = view,
         known \subseteq known'
  PROVE  FrameOK(u)'
BY DEF FrameOK, Running, InUse, Size

\* f_ begins, on operands that the program has.
LEMMA twiceKeeps ==
  ASSUME IInv, Ops \subseteq SoundOps, NEW th \in Thread, twice(th)
  PROVE  IInv'
<1>0. PICK op \in InPlaceOps \cap Ops : \E a \in Operands(op) : Loop(th, op, a, NoObj, <<>>)
  BY DEF twice
<1>1. PICK a \in Operands(op) : Loop(th, op, a, NoObj, <<>>)
  BY <1>0
<1>2. op = "cadd_"
  BY DEF InPlaceOps, SoundOps, AllOps
<1>3. a[1] \in known
  BY <1>2, OperandsKnown DEF InPlaceOps, PureOps
<1>4. Dst(op, a, NoObj) = a[1]
  BY <1>2 DEF Dst, PureOps, InPlaceOps
<1>5. /\ frame' = [u \in Thread |-> frame'[u]]
      /\ \A u \in Thread \ {th} : frame'[u] = frame[u]
      /\ frame'[th] = [op |-> op, args |-> a, dst |-> a[1], src |-> Src(op, a, NoObj),
                       ret |-> a[1], i |-> 1, acc |-> NoObj, before |-> <<>>]
  BY <1>1, <1>4 DEF Loop, IInv
<1>6. known' = known /\ view' = view /\ ThunkOK'
  BY DEF twice, IInv, ThunkOK
<1>7. FrameOK(th)'
  <2>1. a[1] \in Tensor /\ InUse(a[1])'
    BY <1>3, <1>6 DEF IInv, ViewOK, InUse
  <2>2. QED
    BY <1>2, <1>3, <1>5, <1>6, <2>1 DEF FrameOK, IsFrame, InPlaceOps
<1>8. \A u \in Thread : FrameOK(u)'
  BY <1>5, <1>6, <1>7, FrameStays DEF IInv
<1>9. \A u \in Thread : Pure(u)' => Pure(u) /\ frame'[u].ret = frame[u].ret
  BY <1>2, <1>5 DEF Pure, Running, PureOps
<1>10. QED
  BY <1>5, <1>6, <1>8, <1>9, NothingNew

\* A load changes its thread's accumulator only.
LEMMA LoadKeeps ==
  ASSUME IInv, NEW th \in Thread, Load(th)
  PROVE  IInv'
<1>1. PICK v : frame' = [frame EXCEPT ![th].acc = v]
  BY DEF Load
<1>2. FrameOK(th) /\ Running(th) /\ IsFrame(frame[th])
  BY DEF IInv, FrameOK, Load
<1>3. /\ frame' = [u \in Thread |-> frame'[u]]
      /\ \A u \in Thread \ {th} : frame'[u] = frame[u]
      /\ frame'[th] = [frame[th] EXCEPT !.acc = v]
  BY <1>1 DEF IInv
<1>4. LET f == frame[th]  g == frame'[th] IN
      /\ IsFrame(g)
      /\ g.op = f.op /\ g.args = f.args /\ g.dst = f.dst /\ g.ret = f.ret /\ g.i = f.i
  BY <1>2, <1>3 DEF IsFrame
<1>5. known' = known /\ view' = view /\ ThunkOK'
  BY DEF Load, IInv, ThunkOK
<1>6. frame[th].i <= Size(frame[th].dst)
  <2>1. Size(frame[th].dst) \in Nat
    BY <1>2 DEF IInv, ViewOK, FrameOK, Size
  <2>2. QED
    BY <1>2, <2>1 DEF Load, Done, FrameOK
<1>7. FrameOK(th)'
  BY <1>2, <1>4, <1>5, <1>6 DEF FrameOK, InUse, Size
<1>8. \A u \in Thread : FrameOK(u)'
  BY <1>3, <1>5, <1>7, FrameStays DEF IInv
<1>9. \A u \in Thread : Pure(u)' => Pure(u) /\ frame'[u].ret = frame[u].ret
  BY <1>2, <1>3, <1>4 DEF Pure, Running
<1>10. QED
  BY <1>3, <1>5, <1>8, <1>9, NothingNew

\* A store moves its own loop on, and makes other threads forget what their
\* operands held.
LEMMA StoreKeeps ==
  ASSUME IInv, NEW th \in Thread, Store(th)
  PROVE  IInv'
<1> DEFINE c == Cell(frame[th].dst, frame[th].i)
<1>1. /\ frame' = [u \in Thread |-> frame'[u]]
      /\ frame'[th] = [frame[th] EXCEPT !.i = @ + 1, !.acc = NoObj]
      /\ \A u \in Thread \ {th} :
           frame'[u] = IF Running(u)
                       THEN [frame[u] EXCEPT !.before = Kept(frame[u], c)]
                       ELSE Idle
  BY DEF Store
<1>2. known' = known /\ view' = view
  BY DEF Store
<1>3. ThunkOK'
  <2>1. thunk' = [thunk EXCEPT !.before = Kept(thunk, c)]
    BY DEF Store
  <2>2. thunk' \in [args : {thunk'.args}, before : {thunk'.before}] /\ thunk'.args = thunk.args
    BY <2>1 DEF IInv, ThunkOK
  <2>3. CASE thunk = NoThunk
    <3>1. Kept(thunk, c) = <<>>
      BY <2>3 DEF Kept, NoThunk
    <3>2. thunk' = NoThunk
      BY <2>1, <2>3, <3>1 DEF NoThunk
    <3>3. QED
      BY <2>2, <3>2 DEF ThunkOK, NoThunk
  <2>4. CASE thunk # NoThunk
    BY <1>2, <2>2, <2>4 DEF ThunkOK, IInv
  <2>5. QED
    BY <2>3, <2>4
<1>4. Running(th) /\ FrameOK(th) /\ IsFrame(frame[th])
  BY DEF Store, IInv, FrameOK
<1>5. \A u \in Thread : Running(u) =>
        LET f == frame[u]  g == frame'[u] IN
        /\ IsFrame(g)
        /\ g.op = f.op /\ g.args = f.args /\ g.dst = f.dst /\ g.ret = f.ret
        /\ \/ u = th /\ g.i = f.i + 1 /\ g.acc = NoObj
           \/ u # th /\ g.i = f.i /\ g.acc = f.acc
  <2>1. SUFFICES ASSUME NEW u \in Thread, Running(u)
                 PROVE  LET f == frame[u]  g == frame'[u] IN
                        /\ IsFrame(g)
                        /\ g.op = f.op /\ g.args = f.args /\ g.dst = f.dst /\ g.ret = f.ret
                        /\ \/ u = th /\ g.i = f.i + 1 /\ g.acc = NoObj
                           \/ u # th /\ g.i = f.i /\ g.acc = f.acc
    OBVIOUS
  <2>2. IsFrame(frame[u])
    BY <2>1 DEF IInv, FrameOK
  <2>3. CASE u = th
    BY <1>1, <2>2, <2>3 DEF IsFrame
  <2>4. CASE u # th
    BY <1>1, <2>1, <2>2, <2>4 DEF IsFrame
  <2>5. QED
    BY <2>3, <2>4
<1>6. \A u \in Thread : Running(u)' => Running(u)
  BY <1>1, <1>4 DEF Running
<1>7. \A u \in Thread : FrameOK(u)'
  <2> SUFFICES ASSUME NEW u \in Thread, Running(u)'
               PROVE  FrameOK(u)'
    BY DEF FrameOK
  <2>1. FrameOK(u) /\ Running(u)
    BY <1>6 DEF IInv
  <2>2. QED
    BY <1>2, <1>5, <2>1 DEF FrameOK, InUse, Size
<1>8. \A u \in Thread : Pure(u)' => Pure(u) /\ frame'[u].ret = frame[u].ret
  BY <1>5, <1>6 DEF Pure
<1>9. QED
  BY <1>1, <1>2, <1>3, <1>7, <1>8, NothingNew

\* What a thread returns is not what another is still making.
LEMMA ReturnKeeps ==
  ASSUME IInv, NEW th \in Thread, Return(th)
  PROVE  IInv'
<1>1. /\ frame' = [u \in Thread |-> frame'[u]]
      /\ \A u \in Thread \ {th} : frame'[u] = frame[u]
      /\ ~Running(th)'
  BY DEF Return, IInv, Running
<1>2. view' = view /\ known' = known \cup {frame[th].ret} /\ thunk' = thunk
  BY DEF Return
<1>3. Running(th) /\ FrameOK(th)
  BY DEF Return, Done, IInv
<1>4. ViewOK' /\ ThunkOK'
  BY <1>2, <1>3 DEF IInv, ViewOK, ThunkOK, FrameOK, InUse
<1>5. \A u \in Thread : FrameOK(u)'
  BY <1>1, <1>2, FrameStays DEF IInv, FrameOK
<1>6. \A u \in Thread : Pure(u)' => u # th /\ Pure(u) /\ frame'[u].ret = frame[u].ret
  BY <1>1 DEF Pure, Running
<1>7. \A u \in Thread : Pure(u) /\ u # th => frame[u].ret # frame[th].ret
  BY <1>3 DEF IInv, Distinct, Fresh, FrameOK, Pure
<1>8. Fresh'
  BY <1>2, <1>6, <1>7 DEF IInv, Fresh, InUse
<1>9. Distinct'
  BY <1>6 DEF IInv, Distinct
<1>10. QED
  BY <1>1, <1>4, <1>5, <1>8, <1>9 DEF IInv

\* A view of a tensor that the program has is on no storage that is being made.
LEMMA newNarrowKeeps ==
  ASSUME IInv, NEW th \in Thread, newNarrow(th)
  PROVE  IInv'
<1>1. PICK r \in Tensor, t \in known :
        /\ ~InUse(r)
        /\ \E o \in 0 .. Size(t) - 1 : \E n \in 1 .. Size(t) - o :
             view' = [view EXCEPT ![r] = [view[t] EXCEPT !.off = @ + o, !.n = n]]
        /\ known' = known \cup {r}
  BY DEF newNarrow
<1>2. PICK o \in 0 .. Size(t) - 1 : \E n \in 1 .. Size(t) - o :
        view' = [view EXCEPT ![r] = [view[t] EXCEPT !.off = @ + o, !.n = n]]
  BY <1>1
<1>3. PICK n \in 1 .. Size(t) - o :
        view' = [view EXCEPT ![r] = [view[t] EXCEPT !.off = @ + o, !.n = n]]
  BY <1>2
<1>4. t \in Tensor /\ InUse(t) /\ view[t] \in [stor : Storage, off : Nat, n : Nat]
  BY DEF IInv, ViewOK
<1>5. /\ view' = [u \in Tensor |-> view'[u]]
      /\ view'[r] = [view[t] EXCEPT !.off = @ + o, !.n = n]
      /\ \A u \in Tensor \ {r} : view'[u] = view[u]
  BY <1>3 DEF IInv, ViewOK
<1>6. view'[r] \in [stor : Storage, off : Nat, n : Nat] /\ view'[r].stor = view[t].stor
  <2>1. o \in Nat /\ n \in Nat
    BY <1>4 DEF Size
  <2>2. view[t].off + o \in Nat
    BY <1>4, <2>1
  <2>3. QED
    BY <1>4, <1>5, <2>1, <2>2
<1>7. \A u \in Tensor : InUse(u) => view'[u] = view[u] /\ u # r
  BY <1>1, <1>5
<1>8. view'[r] # NoObj
  BY <1>6, ConstantsOK
<1>9. frame' = frame /\ thunk' = thunk
  BY DEF newNarrow
<1>10. ViewOK' /\ ThunkOK'
  <2>1. \A u \in Tensor : InUse(u)' => view'[u] \in [stor : Storage, off : Nat, n : Nat]
    BY <1>5, <1>6 DEF IInv, ViewOK, InUse
  <2>2. known' \subseteq {u \in Tensor : InUse(u)'}
    BY <1>1, <1>7, <1>8 DEF IInv, ViewOK, InUse
  <2>3. ViewOK'
    BY <1>5, <2>1, <2>2 DEF ViewOK, InUse
  <2>4. QED
    BY <1>1, <1>9, <2>3 DEF IInv, ThunkOK
<1>11. \A u \in Thread : FrameOK(u)'
  BY <1>1, <1>7, <1>9 DEF IInv, FrameOK, Running, InUse, Size
<1>12. Fresh'
  <2> SUFFICES ASSUME NEW u \in Thread, Pure(u)
               PROVE  /\ frame[u].ret \notin known'
                      /\ \A w \in Tensor \ {frame[u].ret} :
                           InUse(w)' => view'[w].stor # view'[frame[u].ret].stor
    BY <1>9 DEF Fresh, Pure, Running
  <2>1. /\ frame[u].ret \in Tensor /\ InUse(frame[u].ret) /\ frame[u].ret \notin known
        /\ \A w \in Tensor \ {frame[u].ret} :
             InUse(w) => view[w].stor # view[frame[u].ret].stor
    BY DEF IInv, FrameOK, Pure, Fresh
  <2>2. frame[u].ret # r /\ frame[u].ret # t /\ view'[frame[u].ret] = view[frame[u].ret]
    BY <2>1, <1>7
  <2>3. view'[r].stor # view'[frame[u].ret].stor
    BY <2>1, <2>2, <1>4, <1>6
  <2>4. QED
    BY <2>1, <2>2, <2>3, <1>1, <1>5 DEF InUse
<1>13. Distinct'
  BY <1>9 DEF IInv, Distinct, Pure, Running
<1>14. QED
  BY <1>9, <1>10, <1>11, <1>12, <1>13 DEF IInv

\* The three ways to begin an operation that makes its result.
LEMMA fromList1dKeeps ==
  ASSUME IInv, NEW th \in Thread, fromList1d(th)
  PROVE  IInv'
<1>1. PICK r \in Tensor, n \in Index : New(r, n) /\ Loop(th, "fromList1d", <<>>, r, <<>>)
  BY DEF fromList1d
<1>2. n \in Nat /\ ~Running(th) /\ known' = known /\ ThunkOK'
  BY ConstantsOK DEF fromList1d, Index, IInv, ThunkOK
<1>3. QED
  BY <1>1, <1>2, BeginPure DEF PureOps

LEMMA withEmptyKeeps ==
  ASSUME IInv, Ops \subseteq SoundOps, NEW th \in Thread, withEmpty(th)
  PROVE  IInv'
<1>1. PICK op \in (PureOps \ {"fromList1d"}) \cap Ops, r \in Tensor :
        \E a \in Operands(op) : New(r, Size(Model(op, a))) /\ Loop(th, op, a, r, Now(a))
  BY DEF withEmpty
<1>2. PICK a \in Operands(op) : New(r, Size(Model(op, a))) /\ Loop(th, op, a, r, Now(a))
  BY <1>1
<1>3. op \in (PureOps \cup {"^+^"}) \ {"fromList1d", "copy"}
  BY DEF SoundOps
<1>4. Model(op, a) \in known
  BY <1>3, OperandsKnown DEF Model
<1>5. Size(Model(op, a)) \in Nat
  BY <1>4 DEF IInv, ViewOK, Size
<1>6. ~Running(th) /\ known' = known /\ ThunkOK'
  BY DEF withEmpty, IInv, ThunkOK
<1>7. QED
  BY <1>2, <1>3, <1>5, <1>6, BeginPure

LEMMA forceKeeps ==
  ASSUME IInv, NEW th \in Thread, force(th)
  PROVE  IInv'
<1>1. PICK r \in Tensor : /\ New(r, Size(thunk.args[1]))
                          /\ Loop(th, "^+^", thunk.args, r, thunk.before)
  BY DEF force
<1>2. Size(thunk.args[1]) \in Nat
  BY DEF force, IInv, ThunkOK, ViewOK, Size
<1>3. ~Running(th) /\ known' = known /\ ThunkOK'
  BY DEF force, ThunkOK, NoThunk
<1>4. "^+^" \in (PureOps \cup {"^+^"}) \ {"copy"}
  OBVIOUS
<1>5. QED
  BY <1>1, <1>2, <1>3, <1>4, BeginPure

\* A thunk has operands that the program has.
LEMMA deferKeeps ==
  ASSUME IInv, NEW th \in Thread, defer(th)
  PROVE  IInv'
<1>1. PICK a \in Operands("^+^") : thunk' = [args |-> a, before |-> Now(a)]
  BY DEF defer
<1>2. a[1] \in known
  BY OperandsKnown DEF PureOps, InPlaceOps
<1>3. known' = known /\ view' = view /\ frame' = frame
  BY DEF defer
<1>4. ThunkOK'
  BY <1>1, <1>2, <1>3 DEF ThunkOK
<1>5. \A u \in Thread : FrameOK(u)' /\ (Pure(u)' => Pure(u))
  BY <1>3, FrameStays DEF IInv, Pure, Running
<1>6. QED
  BY <1>3, <1>4, <1>5, NothingNew DEF IInv

\* Every step keeps the invariant.
LEMMA NextIInv ==
  ASSUME Ops \subseteq SoundOps, IInv, [Next]_vars
  PROVE  IInv'
<1>1. CASE UNCHANGED vars
  BY <1>1 DEF vars, IInv, ViewOK, ThunkOK, FrameOK, Fresh, Distinct, Pure, Running,
              InUse, Size
<1>2. ASSUME NEW th \in Thread, Step(th)
      PROVE  IInv'
  BY <1>2, LoadKeeps, StoreKeeps, ReturnKeeps, fromList1dKeeps, withEmptyKeeps,
     twiceKeeps, newNarrowKeeps, deferKeeps, forceKeeps DEF Step
<1>3. QED
  BY <1>1, <1>2 DEF Next

\* In every reachable state the running operations write only what they return,
\* and what pure ones return is nobody else's (withEmpty, twice).
THEOREM Invariance ==
  ASSUME Ops \subseteq SoundOps
  PROVE  Spec => []IInv
<1>1. Init => IInv
  BY InitIInv
<1>2. IInv /\ [Next]_vars => IInv'
  BY NextIInv
<1>3. QED
  BY <1>1, <1>2, PTL DEF Spec

\* The result of a pure operation is the program's only when it is returned, and
\* shares its storage with no other tensor until then.
THEOREM FreshResults ==
  ASSUME Ops \subseteq SoundOps
  PROVE  Spec => []Fresh
<1>1. IInv => Fresh
  BY DEF IInv
<1>2. QED
  BY <1>1, Invariance, PTL

-----------------------------------------------------------------------------
\* A thread stores an element only in its own Store.
LEMMA OnlyStoreStores ==
  ASSUME IInv, [Next]_vars, NEW th \in Thread, Stores(th)
  PROVE  Store(th)
<1>1. Running(th) /\ Running(th)' /\ frame'[th].i # frame[th].i /\ IsFrame(frame[th])
  BY DEF Stores, IInv, FrameOK
<1>2. PICK u \in Thread : Step(u)
  BY <1>1 DEF Next, vars
<1>3. CASE Store(u)
  <2>1. u # th => frame'[th] = [frame[th] EXCEPT !.before =
                                  Kept(frame[th], Cell(frame[u].dst, frame[u].i))]
    BY <1>1, <1>3 DEF Store
  <2>2. QED
    BY <1>1, <1>3, <2>1 DEF IsFrame
<1>4. CASE Load(u)
  <2>1. PICK v : frame' = [frame EXCEPT ![u].acc = v]
    BY <1>4 DEF Load
  <2>2. frame'[th] = frame[th] \/ frame'[th] = [frame[th] EXCEPT !.acc = v]
    BY <2>1 DEF IInv
  <2>3. QED
    BY <1>1, <2>2 DEF IsFrame
<1>5. CASE Return(u)
  BY <1>1, <1>5 DEF Return, IInv, Running
<1>6. CASE ~Running(u) /\ \E op, a, r, b : Loop(u, op, a, r, b)
  BY <1>1, <1>6 DEF Loop, IInv
<1>7. CASE newNarrow(u) \/ defer(u)
  BY <1>1, <1>7 DEF newNarrow, defer
<1>8. QED
  BY <1>2, <1>3, <1>4, <1>5, <1>6, <1>7 DEF Step, fromList1d, withEmpty, twice, force

\* A cell that no tensor the program has contains may change unseen.
LEMMA OthersUnseen ==
  ASSUME IInv, NEW th \in Thread, Pure(th), Store(th), NEW t \in known
  PROVE  Contents(t)' = Contents(t)
<1> DEFINE c == Cell(frame[th].dst, frame[th].i)
<1>1. view' = view /\ data' = [data EXCEPT ![c[1]][c[2]] = frame[th].acc]
  BY DEF Store
<1>2. c[1] = view[frame[th].ret].stor
  BY DEF Cell, IInv, FrameOK, Pure
<1>3. view[t].stor # c[1]
  BY <1>2 DEF IInv, Fresh, ViewOK, FrameOK, Pure
<1>4. \A i : At(Cell(t, i))' = At(Cell(t, i))
  BY <1>1, <1>3 DEF At, Cell
<1>5. QED
  BY <1>1, <1>4 DEF Contents, Size

\* Pure functions are pure, whatever other threads do.
THEOREM PureFunctions ==
  ASSUME Ops \subseteq SoundOps
  PROVE  Spec => Purity
<1>1. ASSUME IInv, [Next]_vars
      PROVE  \A th \in Thread : Pure(th) /\ Stores(th) =>
               \A t \in known : Contents(t)' = Contents(t)
  BY <1>1, OnlyStoreStores, OthersUnseen
<1>2. QED
  BY <1>1, Invariance, PTL DEF Spec, Purity

\* In-place functions write their first tensor, and nothing else.
THEOREM InPlaceFunctions ==
  ASSUME Ops \subseteq SoundOps
  PROVE  Spec => MutatesFirst
<1>1. ASSUME IInv, [Next]_vars, NEW th \in Thread, Stores(th), frame[th].op \in InPlaceOps,
             NEW s \in Storage, NEW j \in Index, data'[s][j] # data[s][j]
      PROVE  <<s, j>> \in Cells(frame[th].args[1])
  <2> DEFINE c == Cell(frame[th].dst, frame[th].i)
  <2>1. Store(th) /\ data' = [data EXCEPT ![c[1]][c[2]] = frame[th].acc]
    BY <1>1, OnlyStoreStores DEF Store
  <2>2. /\ frame[th].dst = frame[th].args[1]
        /\ frame[th].dst \in Tensor /\ InUse(frame[th].dst)
        /\ frame[th].i \in Nat \ {0} /\ frame[th].i <= Size(frame[th].dst)
    BY <1>1, <2>1 DEF IInv, FrameOK, Store
  <2>3. frame[th].i \in 1 .. Size(frame[th].dst)
    BY <2>2 DEF IInv, ViewOK, Size
  <2>4. s = c[1] /\ j = c[2]
    BY <1>1, <2>1
  <2>5. QED
    BY <2>2, <2>3, <2>4 DEF Cells, Cell
<1>2. ASSUME IInv, [Next]_vars
      PROVE  \A th \in Thread : Stores(th) /\ frame[th].op \in InPlaceOps =>
               \A s \in Storage, j \in Index :
                 data'[s][j] # data[s][j] => <<s, j>> \in Cells(frame[th].args[1])
  BY <1>2, <1>1
<1>3. QED
  BY <1>2, Invariance, PTL DEF Spec, MutatesFirst
=============================================================================
