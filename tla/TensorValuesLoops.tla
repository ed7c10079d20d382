------------------------- MODULE TensorValuesLoops --------------------------
(***************************************************************************)
(* Proofs about what the loops of TensorValues compute: no result shows    *)
(* uninitialized memory, and the result of a pure operation is a function  *)
(* of its operands at the time of the call.                                *)
(*                                                                         *)
(* The invariant speaks of the part of a loop that is done: the cells of   *)
(* the result before position i hold elements computed from what the       *)
(* operands held, for as long as nobody has written to those.              *)
(***************************************************************************)
EXTENDS TensorValuesProofs

Content == Value \cup {Junk}

Arity(op) ==
  CASE op = "fromList1d" -> 0
    [] op \in {"cadd", "cadd_", "^+^"} -> 2
    [] op = "addmm" -> 3

\* The operations that run as loops, without copy and addmm_.
LoopOps == {"fromList1d", "cadd", "addmm", "cadd_", "^+^"}

\* Views lie inside their storages.
Placed ==
  /\ view \in [Tensor -> Views \cup {NoObj}]
  /\ \A t \in Tensor : InUse(t) => view[t] \in Views /\ view[t].off + view[t].n <= Width
  /\ data \in [Storage -> [Index -> Content]]

\* Known tensors of one size, as many as the operation takes.
Suits(op, a) ==
  /\ a \in Seq(known) /\ Len(a) = Arity(op)
  /\ \A j, l \in DOMAIN a : Size(a[j]) = Size(a[l])

\* b is what the operands hold, or has been forgotten.
Remembers(a, b) == b = <<>> \/ b = Now(a)

Column(b, i) == [j \in DOMAIN b |-> b[j][i]]

\* v is an element that op may compute at position i.
Computed(op, b, i, v) == v \in Value /\ (b # <<>> => v \in Element(op, Column(b, i)))

\* A running loop has computed what lies before its position, and what it is
\* about to store.
LoopOK(th) ==
  Running(th) =>
    LET f == frame[th] IN
    /\ f.op \in LoopOps
    /\ Suits(f.op, f.args) /\ f.src = f.args
    /\ \A j \in DOMAIN f.args : Size(f.args[j]) = Size(f.dst)
    /\ f.i <= Size(f.dst) + 1
    /\ Remembers(f.args, f.before)
    /\ f.op \in InPlaceOps => f.before = <<>>
    /\ f.acc # NoObj => Computed(f.op, f.before, f.i, f.acc)
    /\ Pure(th) => \A i \in 1 .. f.i - 1 : Computed(f.op, f.before, i, At(Cell(f.ret, i)))

ThunkSuits ==
  thunk = NoThunk \/ (Suits("^+^", thunk.args) /\ Remembers(thunk.args, thunk.before))

Shown == \A t \in known : \A i \in 1 .. Size(t) : At(Cell(t, i)) \in Value

\* The inductive invariant, together with IInv.
Loops ==
  /\ Placed
  /\ Shown
  /\ ThunkSuits
  /\ \A th \in Thread : LoopOK(th)

-----------------------------------------------------------------------------
\* It holds before anything is made.
LEMMA InitLoops == Init => Loops
<1> SUFFICES ASSUME Init PROVE Loops
  OBVIOUS
<1>1. \A th \in Thread : ~Running(th)
  BY DEF Init, Running
<1>2. \A t \in Tensor : ~InUse(t)
  BY DEF Init, InUse
<1>3. Placed
  BY <1>2 DEF Init, Placed, Content
<1>4. QED
  BY <1>1, <1>3 DEF Init, Loops, LoopOK, ThunkSuits, Shown

\* A cell of a tensor in use lies in its storage.
LEMMA CellInside ==
  ASSUME Placed, NEW t \in Tensor, InUse(t), NEW i \in 1 .. Size(t)
  PROVE  /\ view[t].stor \in Storage /\ view[t].off + i \in Index
         /\ At(Cell(t, i)) \in Content
<1>1. /\ view[t].stor \in Storage /\ view[t].off \in Nat /\ view[t].n \in Nat
      /\ view[t].off + view[t].n <= Width
  BY ConstantsOK DEF Placed, Views, Index
<1>2. view[t].off + i \in Index
  BY <1>1, ConstantsOK DEF Index, Size
<1>3. QED
  BY <1>1, <1>2 DEF Placed, At, Cell

\* The size of a tensor in use.
LEMMA SizeInside ==
  ASSUME Placed, NEW t \in Tensor, InUse(t)
  PROVE  Size(t) \in Index /\ Size(t) \in Nat \ {0} /\ Size(t) <= Width
BY ConstantsOK DEF Placed, Views, Size, Index

\* From elements that are values every operation computes values.
LEMMA ElementsAreValues ==
  ASSUME NEW op \in LoopOps, NEW vs, DOMAIN vs = 1 .. Arity(op),
         \A j \in 1 .. Arity(op) : vs[j] \in Value
  PROVE  Element(op, vs) \subseteq Value
<1>1. ~ \E j \in DOMAIN vs : vs[j] = Junk
  BY ConstantsOK DEF Value
<1>2. \A n \in Nat : n % Mod \in Value
  BY ConstantsOK DEF Value
<1>3. CASE op = "fromList1d"
  BY <1>1, <1>3 DEF Element
<1>4. CASE op \in {"cadd", "cadd_", "^+^"}
  <2>1. Element(op, vs) = {(vs[1] + vs[2]) % Mod}
    BY <1>1, <1>4 DEF Element
  <2>2. Arity(op) = 2
    BY <1>4 DEF Arity
  <2>3. vs[1] \in Nat /\ vs[2] \in Nat
    BY <2>2 DEF Value
  <2>4. (vs[1] + vs[2]) % Mod \in Value
    BY <2>3, <1>2
  <2>5. QED
    BY <2>1, <2>4
<1>5. CASE op = "addmm"
  <2>1. Element(op, vs) = {(vs[1] + vs[2] + vs[3]) % Mod}
    BY <1>1, <1>5 DEF Element
  <2>2. Arity(op) = 3
    BY <1>5 DEF Arity
  <2>3. vs[1] \in Nat /\ vs[2] \in Nat /\ vs[3] \in Nat
    BY <2>2 DEF Value
  <2>4. (vs[1] + vs[2] + vs[3]) % Mod \in Value
    BY <2>3, <1>2
  <2>5. QED
    BY <2>1, <2>4
<1>6. QED
  BY <1>3, <1>4, <1>5 DEF LoopOps

-----------------------------------------------------------------------------
(***************************************************************************)
(* What steps that write no element leave alone.                           *)
(***************************************************************************)
\* Tensors in use stay where they are, and so does what they hold.
Still ==
  /\ data' = data /\ known \subseteq known'
  /\ \A t \in Tensor : InUse(t) => InUse(t)' /\ view'[t] = view[t]

LEMMA StillSuits ==
  ASSUME IInv, Still, NEW op, NEW a, Suits(op, a), NEW b, Remembers(a, b)
  PROVE  Suits(op, a)' /\ Remembers(a, b)' /\ Now(a)' = Now(a)
<1>1. \A j \in DOMAIN a : a[j] \in known
  BY DEF Suits
<1>2. \A j \in DOMAIN a : view'[a[j]] = view[a[j]]
  BY <1>1 DEF Still, IInv, ViewOK
<1>3. \A j \in DOMAIN a : Contents(a[j])' = Contents(a[j]) /\ Size(a[j])' = Size(a[j])
  BY <1>2 DEF Still, Contents, Size, At, Cell
<1>4. Now(a)' = Now(a)
  BY <1>3 DEF Now
<1>5. a \in Seq(known')
  BY DEF Suits, Still
<1>6. QED
  BY <1>3, <1>4, <1>5 DEF Suits, Remembers

LEMMA StillLoop ==
  ASSUME IInv, Loops, Still, NEW u \in Thread, frame'[u] = frame[u]
  PROVE  LoopOK(u)'
<1> SUFFICES ASSUME Running(u)
             PROVE  LoopOK(u)'
  BY DEF LoopOK, Running
<1> DEFINE f == frame[u]
<1>1. LoopOK(u) /\ FrameOK(u)
  BY DEF Loops, IInv
<1>2. InUse(f.ret) /\ f.dst = f.ret /\ f.ret \in Tensor
  BY <1>1 DEF FrameOK
<1>3. view'[f.ret] = view[f.ret]
  BY <1>2 DEF Still
<1>4. Size(f.dst)' = Size(f.dst)
  BY <1>2, <1>3 DEF Size
<1>5. Suits(f.op, f.args) /\ Remembers(f.args, f.before)
  BY <1>1 DEF LoopOK
<1>6. Suits(f.op, f.args)' /\ Remembers(f.args, f.before)'
  BY <1>5, StillSuits
<1>7. \A j \in DOMAIN f.args : Size(f.args[j])' = Size(f.args[j])
  BY <1>5 DEF Suits, Still, IInv, ViewOK, Size
<1>8. \A i : At(Cell(f.ret, i))' = At(Cell(f.ret, i))
  BY <1>3 DEF Still, At, Cell
<1>9. Pure(u)' <=> Pure(u)
  BY DEF Pure, Running
<1>10. QED
  BY <1>1, <1>4, <1>6, <1>7, <1>8, <1>9 DEF LoopOK, Computed

LEMMA StillThunk ==
  ASSUME IInv, Loops, Still, thunk' = thunk
  PROVE  ThunkSuits'
<1>1. CASE thunk = NoThunk
  BY <1>1 DEF ThunkSuits
<1>2. CASE thunk # NoThunk
  BY <1>2, StillSuits DEF ThunkSuits, Loops
<1>3. QED
  BY <1>1, <1>2

-----------------------------------------------------------------------------
(***************************************************************************)
(* Actions that begin and end operations.                                  *)
(***************************************************************************)
\* A new tensor takes nothing away from those in use.
LEMMA NewIsStill ==
  ASSUME IInv, Loops, NEW r \in Tensor, NEW n \in Index, New(r, n), known' = known
  PROVE  Still /\ Placed' /\ Shown' /\ InUse(r)' /\ Size(r)' = n /\ ~InUse(r)
<1>1. PICK s \in Storage \ Stored :
        view' = [view EXCEPT ![r] = [stor |-> s, off |-> 0, n |-> n]]
  BY DEF New
<1>2. ~InUse(r) /\ data' = data
  BY DEF New
<1>3. /\ view'[r] = [stor |-> s, off |-> 0, n |-> n]
      /\ \A t \in Tensor \ {r} : view'[t] = view[t]
  BY <1>1 DEF Loops, Placed
<1>4. view'[r] \in Views /\ view'[r].off + view'[r].n <= Width /\ view'[r].n = n
  BY <1>3, ConstantsOK DEF Views, Index
<1>5. view'[r] # NoObj
  BY <1>3, ConstantsOK DEF Index
<1>6. Still
  BY <1>2, <1>3 DEF Still, InUse
<1>7. Placed'
  <2>1. view' \in [Tensor -> Views \cup {NoObj}]
    BY <1>1, <1>4, <1>3 DEF Loops, Placed
  <2>2. \A t \in Tensor : InUse(t)' => view'[t] \in Views /\ view'[t].off + view'[t].n <= Width
    BY <1>3, <1>4 DEF Loops, Placed, InUse
  <2>3. QED
    BY <2>1, <2>2, <1>2 DEF Loops, Placed
<1>8. Shown'
  <2>1. \A t \in known : view'[t] = view[t]
    BY <1>6 DEF Still, IInv, ViewOK
  <2>2. QED
    BY <1>2, <2>1 DEF Loops, Shown, Size, At, Cell
<1>9. QED
  BY <1>2, <1>4, <1>5, <1>6, <1>7, <1>8 DEF InUse, Size

\* A loop that has not begun has everything still to do.
LEMMA BeginLoop ==
  ASSUME IInv, Loops, NEW th \in Thread, NEW op \in LoopOps \ {"cadd_"}, NEW a,
         Suits(op, a), NEW n \in Index, \A j \in DOMAIN a : Size(a[j]) = n,
         NEW r \in Tensor, NEW b, Remembers(a, b),
         New(r, n), Loop(th, op, a, r, b), known' = known, ThunkSuits'
  PROVE  Loops'
<1>1. Still /\ Placed' /\ Shown' /\ InUse(r)' /\ Size(r)' = n /\ ~InUse(r)
  BY NewIsStill
<1>2. r # NoObj
  BY ConstantsOK
<1>3. Dst(op, a, r) = r /\ Src(op, a, r) = a
  BY DEF Dst, Src, PureOps, InPlaceOps, LoopOps
<1>4. /\ \A u \in Thread \ {th} : frame'[u] = frame[u]
      /\ frame'[th] = [op |-> op, args |-> a, dst |-> r, src |-> a, ret |-> r,
                       i |-> 1, acc |-> NoObj, before |-> b]
  BY <1>2, <1>3 DEF Loop, IInv
<1>5. Suits(op, a)' /\ Remembers(a, b)'
  BY <1>1, StillSuits
<1>6. \A j \in DOMAIN a : Size(a[j])' = n
  <2> SUFFICES ASSUME NEW j \in DOMAIN a
               PROVE  Size(a[j])' = n
    OBVIOUS
  <2>1. a[j] \in known /\ Size(a[j]) = n
    BY DEF Suits
  <2>2. view'[a[j]] = view[a[j]]
    BY <1>1, <2>1 DEF Still, IInv, ViewOK
  <2>3. QED
    BY <2>1, <2>2 DEF Size
<1>7. LoopOK(th)'
  <2>1. n \in Nat
    BY ConstantsOK DEF Index
  <2>2. (frame[th].i <= Size(frame[th].dst) + 1)' /\ 1 .. frame'[th].i - 1 = {}
    BY <2>1, <1>1, <1>4
  <2>3. frame'[th].op \notin InPlaceOps
    BY <1>4 DEF LoopOps, InPlaceOps
  <2>4. /\ frame'[th].op = op /\ frame'[th].args = a /\ frame'[th].src = a
        /\ frame'[th].before = b /\ frame'[th].acc = NoObj /\ frame'[th].dst = r
    BY <1>4
  <2>5. QED
    BY <2>2, <2>3, <2>4, <1>1, <1>5, <1>6 DEF LoopOK
<1>8. \A u \in Thread \ {th} : LoopOK(u)'
  BY <1>1, <1>4, StillLoop
<1>9. QED
  BY <1>1, <1>7, <1>8 DEF Loops

LEMMA fromList1dLoops ==
  ASSUME IInv, Loops, NEW th \in Thread, fromList1d(th)
  PROVE  Loops'
<1>1. PICK r \in Tensor, n \in Index : New(r, n) /\ Loop(th, "fromList1d", <<>>, r, <<>>)
  BY DEF fromList1d
<1>2. known' = known /\ thunk' = thunk
  BY DEF fromList1d
<1>3. ThunkSuits'
  BY <1>1, <1>2, NewIsStill, StillThunk
<1>4. Suits("fromList1d", <<>>) /\ Remembers(<<>>, <<>>)
  BY DEF Suits, Arity, Remembers
<1>5. QED
  BY <1>1, <1>2, <1>3, <1>4, BeginLoop DEF LoopOps

\* Operands suit their operation.
LEMMA OperandsSuit ==
  ASSUME NEW op \in LoopOps \ {"fromList1d"}, NEW a \in Operands(op)
  PROVE  Suits(op, a) /\ 1 \in DOMAIN a /\ 2 \in DOMAIN a
<1>1. /\ a \in [1 .. Arity(op) -> known] /\ Arity(op) \in {2, 3}
      /\ \A j, l \in 1 .. Arity(op) : Size(a[j]) = Size(a[l])
  BY DEF Operands, Arity, LoopOps
<1>2. a \in Seq(known) /\ Len(a) = Arity(op) /\ DOMAIN a = 1 .. Arity(op)
  BY <1>1
<1>3. QED
  BY <1>1, <1>2 DEF Suits

LEMMA withEmptyLoops ==
  ASSUME Ops \subseteq SoundOps, IInv, Loops, NEW th \in Thread, withEmpty(th)
  PROVE  Loops'
<1>1. PICK op \in (PureOps \ {"fromList1d"}) \cap Ops, r \in Tensor :
        \E a \in Operands(op) : New(r, Size(Model(op, a))) /\ Loop(th, op, a, r, Now(a))
  BY DEF withEmpty
<1>2. PICK a \in Operands(op) : New(r, Size(Model(op, a))) /\ Loop(th, op, a, r, Now(a))
  BY <1>1
<1>3. op \in LoopOps \ {"fromList1d", "cadd_"}
  BY DEF SoundOps, AllOps, PureOps, InPlaceOps, LoopOps
<1>4. Suits(op, a) /\ 1 \in DOMAIN a /\ 2 \in DOMAIN a
  BY <1>3, OperandsSuit
<1>5. PICK m \in DOMAIN a : Model(op, a) = a[m]
  BY <1>4 DEF Model
<1>6. a[m] \in known
  BY <1>4 DEF Suits
<1>7. Size(Model(op, a)) \in Index
  BY <1>5, <1>6, SizeInside DEF IInv, ViewOK, Loops
<1>8. \A j \in DOMAIN a : Size(a[j]) = Size(Model(op, a))
  BY <1>4, <1>5 DEF Suits
<1>9. known' = known /\ thunk' = thunk
  BY DEF withEmpty
<1>10. ThunkSuits'
  BY <1>2, <1>7, <1>9, NewIsStill, StillThunk
<1>11. Remembers(a, Now(a))
  BY DEF Remembers
<1>12. QED
  BY <1>2, <1>3, <1>4, <1>7, <1>8, <1>9, <1>10, <1>11, BeginLoop

LEMMA forceLoops ==
  ASSUME IInv, Loops, NEW th \in Thread, force(th)
  PROVE  Loops'
<1>1. PICK r \in Tensor : /\ New(r, Size(thunk.args[1]))
                          /\ Loop(th, "^+^", thunk.args, r, thunk.before)
  BY DEF force
<1>2. known' = known /\ thunk # NoThunk /\ thunk' = NoThunk
  BY DEF force
<1>3. Suits("^+^", thunk.args) /\ Remembers(thunk.args, thunk.before)
  BY <1>2 DEF Loops, ThunkSuits
<1>4. 1 \in DOMAIN thunk.args /\ thunk.args[1] \in known
  BY <1>3 DEF Suits, Arity
<1>5. Size(thunk.args[1]) \in Index
  BY <1>4, SizeInside DEF IInv, ViewOK, Loops
<1>6. \A j \in DOMAIN thunk.args : Size(thunk.args[j]) = Size(thunk.args[1])
  BY <1>3, <1>4 DEF Suits
<1>7. ThunkSuits'
  BY <1>2 DEF ThunkSuits
<1>8. QED
  BY <1>1, <1>2, <1>3, <1>5, <1>6, <1>7, BeginLoop DEF LoopOps

LEMMA twiceLoops ==
  ASSUME Ops \subseteq SoundOps, IInv, Loops, NEW th \in Thread, twice(th)
  PROVE  Loops'
<1>1. PICK op \in InPlaceOps \cap Ops : \E a \in Operands(op) : Loop(th, op, a, NoObj, <<>>)
  BY DEF twice
<1>2. PICK a \in Operands(op) : Loop(th, op, a, NoObj, <<>>)
  BY <1>1
<1>3. op = "cadd_"
  BY DEF InPlaceOps, SoundOps, AllOps
<1>4. Suits(op, a) /\ 1 \in DOMAIN a
  BY <1>3, OperandsSuit DEF LoopOps
<1>5. Dst(op, a, NoObj) = a[1] /\ Src(op, a, NoObj) = a
  BY <1>3 DEF Dst, Src, PureOps, InPlaceOps
<1>6. /\ \A u \in Thread \ {th} : frame'[u] = frame[u]
      /\ frame'[th] = [op |-> op, args |-> a, dst |-> a[1], src |-> a, ret |-> a[1],
                       i |-> 1, acc |-> NoObj, before |-> <<>>]
  BY <1>2, <1>5 DEF Loop, IInv
<1>7. known' = known /\ view' = view /\ data' = data /\ thunk' = thunk
  BY DEF twice
<1>8. Still
  BY <1>7 DEF Still, InUse
<1>9. Remembers(a, <<>>)
  BY DEF Remembers
<1>10. Suits(op, a)' /\ Remembers(a, <<>>)'
  BY <1>4, <1>8, <1>9, StillSuits
<1>11. Size(a[1]) \in Nat \ {0} /\ a[1] \in known
  BY <1>4, SizeInside DEF Suits, IInv, ViewOK, Loops
<1>12. \A j \in DOMAIN a : Size(a[j])' = Size(a[1])'
  BY <1>4, <1>10 DEF Suits
<1>13. LoopOK(th)'
  <2>1. Size(a[1])' \in Nat \ {0}
    BY <1>7, <1>11 DEF Size
  <2>2. ~Pure(th)'
    BY <1>3, <1>6 DEF Pure, PureOps
  <2>3. QED
    BY <1>3, <1>6, <1>10, <1>12, <2>1, <2>2 DEF LoopOK, LoopOps
<1>14. \A u \in Thread \ {th} : LoopOK(u)'
  BY <1>6, <1>8, StillLoop
<1>15. Placed' /\ Shown' /\ ThunkSuits'
  BY <1>7, <1>8, StillThunk DEF Loops, Placed, Shown, InUse, Size, At, Cell
<1>16. QED
  BY <1>13, <1>14, <1>15 DEF Loops

\* A thunk remembers its operands as they are.
LEMMA deferLoops ==
  ASSUME IInv, Loops, NEW th \in Thread, defer(th)
  PROVE  Loops'
<1>1. PICK a \in Operands("^+^") : thunk' = [args |-> a, before |-> Now(a)]
  BY DEF defer
<1>2. known' = known /\ view' = view /\ data' = data /\ frame' = frame
  BY DEF defer
<1>3. Still
  BY <1>2 DEF Still, InUse
<1>4. Suits("^+^", a)
  BY OperandsSuit DEF LoopOps
<1>5. Remembers(a, Now(a))
  BY DEF Remembers
<1>6. Suits("^+^", a)' /\ Remembers(a, Now(a))'
  <2>1. Remembers(a, Now(a))' <=> Now(a)' = <<>> \/ Now(a)' = Now(a)'
    BY DEF Remembers
  <2>2. QED
    BY <1>3, <1>4, <1>5, <2>1, StillSuits
<1>7. ThunkSuits'
  <2>1. Now(a)' = Now(a)
    BY <1>3, <1>4, <1>5, StillSuits
  <2>2. thunk'.args = a /\ thunk'.before = Now(a)'
    BY <1>1, <2>1
  <2>3. QED
    BY <1>6, <2>2 DEF ThunkSuits, Remembers
<1>8. \A u \in Thread : LoopOK(u)'
  BY <1>2, <1>3, StillLoop
<1>9. Placed' /\ Shown'
  BY <1>2 DEF Loops, Placed, Shown, InUse, Size, At, Cell
<1>10. QED
  BY <1>7, <1>8, <1>9 DEF Loops

\* A loop that is done has filled what it returns.
LEMMA ReturnLoops ==
  ASSUME IInv, Loops, NEW th \in Thread, Return(th)
  PROVE  Loops'
<1> DEFINE f == frame[th]
<1>1. /\ \A u \in Thread \ {th} : frame'[u] = frame[u]
      /\ ~Running(th)'
  BY DEF Return, IInv, Running
<1>2. known' = known \cup {f.ret} /\ view' = view /\ data' = data /\ thunk' = thunk
  BY DEF Return
<1>3. Running(th) /\ f.i > Size(f.dst) /\ FrameOK(th) /\ LoopOK(th)
  BY DEF Return, Done, IInv, Loops
<1>4. Still
  BY <1>2 DEF Still, InUse
<1>5. \A u \in Thread : LoopOK(u)'
  <2>1. LoopOK(th)'
    BY <1>1 DEF LoopOK
  <2>2. QED
    BY <1>1, <1>4, <2>1, StillLoop
<1>6. ThunkSuits'
  BY <1>2, <1>4, StillThunk
<1>7. Placed'
  BY <1>2 DEF Loops, Placed, InUse
<1>8. \A i \in 1 .. Size(f.ret) : At(Cell(f.ret, i)) \in Value
  <2>1. CASE f.op \in InPlaceOps
    BY <2>1, <1>3 DEF FrameOK, Loops, Shown
  <2>2. CASE f.op \notin InPlaceOps
    <3>1. Pure(th)
      BY <2>2, <1>3 DEF LoopOK, LoopOps, Pure, PureOps, InPlaceOps
    <3>2. f.dst = f.ret /\ f.i \in Nat /\ Size(f.ret) \in Nat
      BY <1>3, SizeInside DEF FrameOK, Loops
    <3>3. \A i \in 1 .. f.i - 1 : At(Cell(f.ret, i)) \in Value
      BY <3>1, <1>3 DEF LoopOK, Computed
    <3>4. \A i \in 1 .. Size(f.ret) : i \in 1 .. f.i - 1
      BY <3>2, <1>3
    <3>5. QED
      BY <3>3, <3>4
  <2>3. QED
    BY <2>1, <2>2
<1>9. Shown'
  <2>1. \A t, i : At(Cell(t, i))' = At(Cell(t, i)) /\ Size(t)' = Size(t)
    BY <1>2 DEF At, Cell, Size
  <2>2. \A t \in known' : \A i \in 1 .. Size(t) : At(Cell(t, i)) \in Value
    BY <1>2, <1>8 DEF Loops, Shown
  <2>3. QED
    BY <2>1, <2>2 DEF Shown
<1>10. QED
  BY <1>5, <1>6, <1>7, <1>9 DEF Loops

\* A view shows cells that the tensor it is of has shown.
LEMMA newNarrowLoops ==
  ASSUME IInv, Loops, NEW th \in Thread, newNarrow(th)
  PROVE  Loops'
<1>1. PICK r \in Tensor, t \in known :
        /\ ~InUse(r)
        /\ \E o \in 0 .. Size(t) - 1 : \E n \in 1 .. Size(t) - o :
             view' = [view EXCEPT ![r] = [view[t] EXCEPT !.off = @ + o, !.n = n]]
        /\ known' = known \cup {r}
  BY DEF newNarrow
<1>2. PICK o \in 0 .. Size(t) - 1 : \E n \in 1 .. Size(t) - o :
        view' = [view EXCEPT ![r] = [view[t] EXCEPT !.off = @ + o, !.n = n]]
  BY <1>1
<1>3. PICK n \in 1 .. Size(t) - o :
        view' = [view EXCEPT ![r] = [view[t] EXCEPT !.off = @ + o, !.n = n]]
  BY <1>2
<1>4. /\ t \in Tensor /\ InUse(t) /\ view[t] \in Views
      /\ view[t].off + view[t].n <= Width
  BY DEF IInv, ViewOK, Loops, Placed
<1>5. /\ view'[r] = [view[t] EXCEPT !.off = @ + o, !.n = n]
      /\ \A u \in Tensor \ {r} : view'[u] = view[u]
  BY <1>3 DEF Loops, Placed
<1>6. /\ view'[r].stor = view[t].stor /\ view'[r].off = view[t].off + o /\ view'[r].n = n
      /\ view'[r] \in [stor : {view'[r].stor}, off : {view'[r].off}, n : {view'[r].n}]
  BY <1>4, <1>5 DEF Views
<1>7. /\ view[t].off \in Nat /\ view[t].n \in Nat /\ o \in Nat /\ n \in Nat \ {0}
      /\ o + n <= view[t].n /\ view[t].n <= Width /\ view[t].stor \in Storage
  BY <1>4, ConstantsOK DEF Views, Index, Size
<1>8. view'[r] \in Views /\ view'[r].off + view'[r].n <= Width
  <2>1. view'[r].off \in 0 .. Width - 1 /\ view'[r].n \in Index
    BY <1>4, <1>6, <1>7, ConstantsOK DEF Index
  <2>2. view'[r].off + view'[r].n <= Width
    BY <1>4, <1>6, <1>7, ConstantsOK
  <2>3. QED
    BY <1>6, <1>7, <2>1, <2>2 DEF Views
<1>9. data' = data /\ frame' = frame /\ thunk' = thunk /\ known' = known \cup {r}
  BY <1>1 DEF newNarrow
<1>10. Still
  BY <1>1, <1>5, <1>9 DEF Still, InUse
<1>11. Placed'
  <2>1. view' \in [Tensor -> Views \cup {NoObj}]
    BY <1>3, <1>5, <1>8 DEF Loops, Placed
  <2>2. \A u \in Tensor : InUse(u)' => view'[u] \in Views /\ view'[u].off + view'[u].n <= Width
    BY <1>5, <1>8 DEF Loops, Placed, InUse
  <2>3. QED
    BY <2>1, <2>2, <1>9 DEF Loops, Placed
<1>12. Shown'
  <2>1. ASSUME NEW i \in 1 .. n
        PROVE  At(Cell(r, i))' \in Value
    <3>1. i + o \in 1 .. Size(t)
      BY <1>7 DEF Size
    <3>2. At(Cell(t, i + o)) \in Value
      BY <3>1 DEF Loops, Shown
    <3>3. Cell(r, i)' = Cell(t, i + o)
      BY <1>6, <1>7 DEF Cell
    <3>4. QED
      BY <3>2, <3>3, <1>9 DEF At
  <2>2. Size(r)' = n
    BY <1>6 DEF Size
  <2>3. \A u \in known : u # r /\ view'[u] = view[u]
    BY <1>1, <1>5 DEF IInv, ViewOK
  <2>4. ASSUME NEW u \in known, NEW i \in 1 .. Size(u)
        PROVE  At(Cell(u, i))' \in Value
    BY <2>3, <1>9 DEF Loops, Shown, At, Cell
  <2>5. \A u \in known : Size(u)' = Size(u)
    BY <2>3 DEF Size
  <2>6. QED
    BY <2>1, <2>2, <2>4, <2>5, <1>9 DEF Shown
<1>13. \A u \in Thread : LoopOK(u)'
  BY <1>9, <1>10, StillLoop
<1>14. QED
  BY <1>9, <1>10, <1>11, <1>12, <1>13, StillThunk DEF Loops

-----------------------------------------------------------------------------
(***************************************************************************)
(* The loop.                                                               *)
(***************************************************************************)
\* What is loaded is computed from the operands; as long as they are remembered,
\* from what is remembered.
LEMMA LoadLoops ==
  ASSUME IInv, Loops, NEW th \in Thread, Load(th)
  PROVE  Loops'
<1> DEFINE f  == frame[th]
           vs == [j \in DOMAIN f.src |-> At(Cell(f.src[j], f.i))]
<1>1. PICK v \in Element(f.op, vs) : frame' = [frame EXCEPT ![th].acc = v]
  BY DEF Load
<1>2. /\ Running(th) /\ FrameOK(th) /\ LoopOK(th) /\ IsFrame(f)
      /\ f.dst = f.ret /\ f.ret \in Tensor /\ InUse(f.ret)
  BY DEF Load, IInv, Loops, FrameOK
<1>3. known' = known /\ view' = view /\ data' = data /\ thunk' = thunk
  BY DEF Load
<1>4. Still
  BY <1>3 DEF Still, InUse
<1>5. /\ \A u \in Thread \ {th} : frame'[u] = frame[u]
      /\ frame'[th] = [f EXCEPT !.acc = v]
  BY <1>1 DEF IInv
<1>6. /\ frame'[th].op = f.op /\ frame'[th].args = f.args /\ frame'[th].dst = f.dst
      /\ frame'[th].src = f.src /\ frame'[th].ret = f.ret /\ frame'[th].i = f.i
      /\ frame'[th].before = f.before /\ frame'[th].acc = v
  BY <1>2, <1>5 DEF IsFrame
<1>7. f.i \in 1 .. Size(f.dst)
  <2>1. f.i \in Nat \ {0} /\ Size(f.dst) \in Nat
    BY <1>2, SizeInside DEF FrameOK, Loops
  <2>2. ~(f.i > Size(f.dst))
    BY DEF Load, Done
  <2>3. QED
    BY <2>1, <2>2
<1>8. f.op \in LoopOps /\ Suits(f.op, f.args) /\ f.src = f.args
  BY <1>2 DEF LoopOK
<1>9. DOMAIN f.args = 1 .. Arity(f.op)
  BY <1>8 DEF Suits
<1>10. \A j \in DOMAIN f.args : f.args[j] \in known /\ f.i \in 1 .. Size(f.args[j])
  BY <1>2, <1>7, <1>8 DEF LoopOK, Suits
<1>11. \A j \in DOMAIN f.args : At(Cell(f.args[j], f.i)) \in Value
  BY <1>10 DEF Loops, Shown
<1>12. v \in Value
  <2>1. DOMAIN vs = 1 .. Arity(f.op)
    BY <1>8, <1>9
  <2>2. \A j \in 1 .. Arity(f.op) : vs[j] \in Value
    BY <1>8, <1>9, <1>11
  <2> HIDE DEF vs
  <2>3. QED
    BY <1>1, <1>8, <2>1, <2>2, ElementsAreValues
<1>13. f.before # <<>> => Column(f.before, f.i) = vs
  <2> SUFFICES ASSUME f.before # <<>>
               PROVE  Column(f.before, f.i) = vs
    OBVIOUS
  <2>1. f.before = Now(f.args)
    BY <1>2 DEF LoopOK, Remembers
  <2>2. /\ DOMAIN f.before = DOMAIN f.args
        /\ \A j \in DOMAIN f.args : f.before[j] = Contents(f.args[j])
    BY <2>1 DEF Now
  <2>3. \A j \in DOMAIN f.args : f.before[j][f.i] = At(Cell(f.args[j], f.i))
    BY <1>10, <2>2 DEF Contents
  <2>4. QED
    BY <1>8, <2>2, <2>3 DEF Column
<1>14. Computed(f.op, f.before, f.i, v)
  BY <1>1, <1>12, <1>13 DEF Computed
<1>15. LoopOK(th)'
  <2>1. (Suits(frame[th].op, frame[th].args) /\ Remembers(frame[th].args, frame[th].before))'
    <3>1. \A op, a, b : Suits(op, a) /\ Remembers(a, b) => Suits(op, a)' /\ Remembers(a, b)'
      BY <1>4, StillSuits
    <3>2. Remembers(f.args, f.before)
      BY <1>2 DEF LoopOK
    <3>3. QED
      BY <3>1, <3>2, <1>6, <1>8
  <2>2. \A t, i : At(Cell(t, i))' = At(Cell(t, i)) /\ Size(t)' = Size(t)
    BY <1>3 DEF At, Cell, Size
  <2>3. Pure(th)' <=> Pure(th)
    BY <1>2, <1>6, <1>5 DEF Pure, Running, Idle, IsFrame
  <2>4. Size(frame[th].dst)' = Size(f.dst)
    BY <1>3, <1>6 DEF Size
  <2>5. \A i : At(Cell(frame[th].ret, i))' = At(Cell(f.ret, i))
    BY <1>3, <1>6 DEF At, Cell
  <2>6. /\ frame'[th].op \in LoopOps /\ frame'[th].src = frame'[th].args
        /\ frame'[th].op \in InPlaceOps => frame'[th].before = <<>>
        /\ (frame[th].i <= Size(frame[th].dst) + 1)'
    BY <1>2, <1>6, <2>4 DEF LoopOK
  <2>7. \A i \in 1 .. f.i - 1 : Pure(th) => Computed(f.op, f.before, i, At(Cell(f.ret, i)))
    BY <1>2 DEF LoopOK
  <2>8. (\A j \in DOMAIN frame[th].args : Size(frame[th].args[j]) = Size(frame[th].dst))'
    BY <1>2, <1>6, <2>2 DEF LoopOK
  <2>9. QED
    BY <1>6, <1>14, <2>1, <2>3, <2>5, <2>6, <2>7, <2>8 DEF LoopOK, Computed
<1>16. \A u \in Thread \ {th} : LoopOK(u)'
  BY <1>4, <1>5, StillLoop
<1>17. Placed' /\ Shown' /\ ThunkSuits'
  BY <1>3, <1>4, StillThunk DEF Loops, Placed, Shown, InUse, Size, At, Cell
<1>18. QED
  BY <1>15, <1>16, <1>17 DEF Loops

\* A store changes one cell, to a value.
LEMMA StoreWrites ==
  ASSUME IInv, Loops, NEW th \in Thread, Store(th)
  PROVE  LET c == Cell(frame[th].dst, frame[th].i)
         IN  /\ frame[th].i \in 1 .. Size(frame[th].dst) /\ frame[th].acc \in Value
             /\ data' \in [Storage -> [Index -> Content]]
             /\ \A t \in Tensor : InUse(t) => \A i \in 1 .. Size(t) :
                  At(Cell(t, i))' = IF Cell(t, i) = c THEN frame[th].acc ELSE At(Cell(t, i))
<1> DEFINE f == frame[th]
           c == Cell(f.dst, f.i)
<1>1. Running(th) /\ f.acc # NoObj /\ FrameOK(th) /\ LoopOK(th)
  BY DEF Store, IInv, Loops
<1>2. f.dst \in Tensor /\ InUse(f.dst) /\ f.i \in Nat \ {0} /\ f.i <= Size(f.dst)
  BY <1>1 DEF FrameOK
<1>3. f.i \in 1 .. Size(f.dst)
  BY <1>2, SizeInside DEF Loops
<1>4. f.acc \in Value /\ f.acc \in Content
  BY <1>1 DEF LoopOK, Computed, Content
<1>5. data' = [data EXCEPT ![c[1]][c[2]] = f.acc] /\ view' = view
  BY DEF Store
<1>6. c[1] \in Storage /\ c[2] \in Index
  BY <1>2, <1>3, CellInside DEF Cell, Loops
<1>7. data \in [Storage -> [Index -> Content]]
  BY DEF Loops, Placed
<1>8. \A s \in Storage, j \in Index :
        data'[s][j] = IF s = c[1] /\ j = c[2] THEN f.acc ELSE data[s][j]
  <2> HIDE DEF c
  <2>1. QED
    BY <1>5, <1>6, <1>7
<1>9. data' \in [Storage -> [Index -> Content]]
  <2> HIDE DEF c
  <2>1. QED
    BY <1>4, <1>5, <1>6, <1>7
<1>10. ASSUME NEW t \in Tensor, InUse(t), NEW i \in 1 .. Size(t)
       PROVE  At(Cell(t, i))' = IF Cell(t, i) = c THEN f.acc ELSE At(Cell(t, i))
  <2>1. view[t].stor \in Storage /\ view[t].off + i \in Index
    BY <1>10, CellInside DEF Loops
  <2>2. At(Cell(t, i))' = data'[view[t].stor][view[t].off + i]
    BY <1>5 DEF At, Cell
  <2>3. At(Cell(t, i)) = data[view[t].stor][view[t].off + i]
    BY DEF At, Cell
  <2>4. Cell(t, i) = c <=> view[t].stor = c[1] /\ view[t].off + i = c[2]
    BY DEF Cell
  <2> HIDE DEF c
  <2>5. QED
    BY <2>1, <2>2, <2>3, <2>4, <1>8
<1>11. QED
  BY <1>3, <1>4, <1>9, <1>10

\* What is still remembered after a store is still so.
LEMMA StoreRemembers ==
  ASSUME IInv, Loops, NEW th \in Thread, Store(th), NEW op, NEW a, Suits(op, a),
         NEW b, Remembers(a, b),
         b = <<>> \/ \A j \in DOMAIN a : Cell(frame[th].dst, frame[th].i) \notin Cells(a[j])
  PROVE  Suits(op, a)' /\ Remembers(a, b)'
<1> DEFINE c == Cell(frame[th].dst, frame[th].i)
<1>1. view' = view /\ known' = known
  BY DEF Store
<1>2. Suits(op, a)'
  BY <1>1 DEF Suits, Size
<1>3. CASE b = <<>>
  <2>1. Remembers(a, b)' <=> (b = <<>> \/ b = Now(a)')
    BY DEF Remembers
  <2>2. QED
    BY <1>2, <1>3, <2>1
<1>4. CASE \A j \in DOMAIN a : c \notin Cells(a[j])
  <2>1. ASSUME NEW j \in DOMAIN a
        PROVE  Contents(a[j])' = Contents(a[j])
    <3>1. a[j] \in Tensor /\ InUse(a[j])
      BY DEF Suits, IInv, ViewOK
    <3>2. \A i \in 1 .. Size(a[j]) : Cell(a[j], i) # c
      BY <1>4, <2>1 DEF Cells
    <3> HIDE DEF c
    <3>3. \A i \in 1 .. Size(a[j]) : At(Cell(a[j], i))' = At(Cell(a[j], i))
      BY <3>1, <3>2, StoreWrites DEF c
    <3>4. Size(a[j])' = Size(a[j])
      BY <1>1 DEF Size
    <3>5. QED
      BY <3>3, <3>4 DEF Contents
  <2>2. Now(a)' = Now(a)
    BY <2>1 DEF Now
  <2>3. QED
    BY <1>2, <2>2 DEF Remembers
<1>5. QED
  BY <1>2, <1>3, <1>4

\* The result of a pure operation is in another storage than what others write,
\* and than what the program has.
LEMMA StoreElsewhere ==
  ASSUME IInv, NEW th \in Thread, Store(th)
  PROVE  /\ \A u \in Thread \ {th} : Pure(u) =>
              view[frame[th].dst].stor # view[frame[u].ret].stor
         /\ Pure(th) => \A t \in known : view[t].stor # view[frame[th].dst].stor
<1>1. Running(th) /\ FrameOK(th)
  BY DEF Store, IInv
<1>2. /\ frame[th].dst = frame[th].ret /\ frame[th].ret \in Tensor /\ InUse(frame[th].ret)
      /\ frame[th].op \in PureOps \cup InPlaceOps \cup {"^+^"}
  BY <1>1 DEF FrameOK
<1>3. ASSUME NEW u \in Thread \ {th}, Pure(u)
      PROVE  view[frame[th].dst].stor # view[frame[u].ret].stor
  <2>1. frame[th].ret # frame[u].ret
    <3>1. CASE Pure(th)
      BY <1>3, <3>1 DEF IInv, Distinct
    <3>2. CASE ~Pure(th)
      <4>1. frame[th].ret \in known
        BY <1>1, <1>2, <3>2 DEF FrameOK, Pure
      <4>2. QED
        BY <4>1, <1>3 DEF IInv, Fresh
    <3>3. QED
      BY <3>1, <3>2
  <2>2. QED
    BY <1>2, <1>3, <2>1 DEF IInv, Fresh
<1>4. Pure(th) => \A t \in known : view[t].stor # view[frame[th].dst].stor
  BY <1>2 DEF IInv, Fresh, ViewOK
<1>5. QED
  BY <1>3, <1>4

\* The cells of a tensor in another storage stay as they are.
LEMMA StoreLeaves ==
  ASSUME IInv, Loops, NEW th \in Thread, Store(th), NEW t \in Tensor, InUse(t),
         view[t].stor # view[frame[th].dst].stor
  PROVE  /\ \A i \in 1 .. Size(t) : At(Cell(t, i))' = At(Cell(t, i))
         /\ Cell(frame[th].dst, frame[th].i) \notin Cells(t)
<1>1. \A i : Cell(t, i) # Cell(frame[th].dst, frame[th].i)
  BY DEF Cell
<1>2. QED
  BY <1>1, StoreWrites DEF Cells

\* The loop that stores has its element in place, and goes on.
LEMMA StoreOwn ==
  ASSUME IInv, Loops, NEW th \in Thread, Store(th)
  PROVE  LoopOK(th)'
<1> DEFINE f == frame[th]
<1>1. Running(th) /\ FrameOK(th) /\ LoopOK(th) /\ IsFrame(f)
  BY DEF Store, IInv, Loops, FrameOK
<1>2. f.dst = f.ret /\ f.ret \in Tensor /\ InUse(f.ret)
  BY <1>1 DEF FrameOK
<1>3. known' = known /\ view' = view /\ frame'[th] = [f EXCEPT !.i = @ + 1, !.acc = NoObj]
  BY DEF Store
<1>4. /\ frame'[th].op = f.op /\ frame'[th].args = f.args /\ frame'[th].dst = f.dst
      /\ frame'[th].src = f.src /\ frame'[th].ret = f.ret /\ frame'[th].before = f.before
      /\ frame'[th].i = f.i + 1 /\ frame'[th].acc = NoObj
  BY <1>1, <1>3 DEF IsFrame
<1>5. /\ f.op \in LoopOps /\ Suits(f.op, f.args) /\ f.src = f.args
      /\ Remembers(f.args, f.before) /\ (f.op \in InPlaceOps => f.before = <<>>)
      /\ f.acc # NoObj /\ Computed(f.op, f.before, f.i, f.acc)
  BY <1>1 DEF LoopOK, Store
<1>6. f.i \in 1 .. Size(f.dst) /\ Size(f.dst) \in Nat
  BY <1>2, StoreWrites, SizeInside DEF Loops
<1>7. f.op \in InPlaceOps \/ Pure(th)
  BY <1>1, <1>5 DEF Pure, LoopOps, PureOps, InPlaceOps
<1>8. f.before = <<>> \/ \A j \in DOMAIN f.args : Cell(f.dst, f.i) \notin Cells(f.args[j])
  <2>1. CASE f.op \in InPlaceOps
    BY <2>1, <1>5
  <2>2. CASE Pure(th)
    <3>1. ASSUME NEW j \in DOMAIN f.args
          PROVE  Cell(f.dst, f.i) \notin Cells(f.args[j])
      <4>1. f.args[j] \in known
        BY <1>5 DEF Suits
      <4>2. f.args[j] \in Tensor /\ InUse(f.args[j])
        BY <4>1 DEF IInv, ViewOK
      <4>3. view[f.args[j]].stor # view[f.dst].stor
        BY <2>2, <4>1, StoreElsewhere
      <4>4. QED
        BY <4>2, <4>3, StoreLeaves
    <3>2. QED
      BY <3>1
  <2>3. QED
    BY <1>7, <2>1, <2>2
<1>9. (Suits(frame[th].op, frame[th].args) /\ Remembers(frame[th].args, frame[th].before))'
  <2>1. \A op, a, b :
          Suits(op, a) /\ Remembers(a, b)
            /\ (b = <<>> \/ \A j \in DOMAIN a : Cell(f.dst, f.i) \notin Cells(a[j]))
          => Suits(op, a)' /\ Remembers(a, b)'
    BY StoreRemembers
  <2>2. QED
    BY <2>1, <1>4, <1>5, <1>8
<1>10. ASSUME Pure(th)
       PROVE  (\A i \in 1 .. frame[th].i - 1 :
                 Computed(frame[th].op, frame[th].before, i, At(Cell(frame[th].ret, i))))'
  <2>1. PICK d \in Tensor : d = f.dst /\ d = frame'[th].ret
    BY <1>2, <1>4
  <2>2. ASSUME NEW i \in 1 .. f.i
        PROVE  Computed(f.op, f.before, i, At(Cell(d, i))')
    <3>1. i \in 1 .. Size(d) /\ InUse(d)
      <4>1. Size(d) = Size(f.dst) /\ InUse(d)
        BY <2>1, <1>2 DEF Size, InUse
      <4>2. i \in 1 .. Size(f.dst)
        BY <1>6
      <4>3. QED
        BY <4>1, <4>2
    <3>2. At(Cell(d, i))' = IF Cell(d, i) = Cell(f.dst, f.i) THEN f.acc ELSE At(Cell(d, i))
      BY <3>1, StoreWrites
    <3>3. CASE i = f.i
      BY <2>1, <3>2, <3>3, <1>5
    <3>4. CASE i # f.i
      <4>1. i \in 1 .. f.i - 1
        BY <3>4, <1>6
      <4>2. Computed(f.op, f.before, i, At(Cell(d, i)))
        BY <2>1, <4>1, <1>1, <1>2, <1>10 DEF LoopOK
      <4>3. view[d].off + i # view[d].off + f.i
        BY <3>1, <3>4, <1>6 DEF IInv, ViewOK
      <4>4. Cell(d, i) # Cell(f.dst, f.i)
        BY <2>1, <4>3 DEF Cell
      <4>5. QED
        BY <3>2, <4>2, <4>4
    <3>5. QED
      BY <3>3, <3>4
  <2>3. (1 .. frame[th].i - 1)' = 1 .. f.i
    BY <1>4, <1>6
  <2>4. \A i : At(Cell(frame[th].ret, i))' = At(Cell(d, i))'
    BY <2>1 DEF At, Cell
  <2>5. \A i \in 1 .. f.i :
          Computed(frame'[th].op, frame'[th].before, i, At(Cell(frame[th].ret, i))')
    BY <2>2, <2>4, <1>4
  <2>6. QED
    BY <2>3, <2>5 DEF Computed
<1>11. Pure(th)' <=> Pure(th)
  BY <1>1, <1>4, <1>3 DEF Pure, Running, Idle, IsFrame
<1>12. \A t : Size(t)' = Size(t)
  BY <1>3 DEF Size
<1>13. (\A j \in DOMAIN frame[th].args : Size(frame[th].args[j]) = Size(frame[th].dst))'
  BY <1>1, <1>4, <1>12 DEF LoopOK
<1>14. (frame[th].i <= Size(frame[th].dst) + 1)'
  BY <1>4, <1>6, <1>12
<1>15. QED
  BY <1>4, <1>5, <1>9, <1>10, <1>11, <1>13, <1>14 DEF LoopOK

\* Another thread's loop forgets what its operands held, if they were written, and
\* keeps what it has done: nobody else writes where it does.
LEMMA StoreOther ==
  ASSUME IInv, Loops, NEW th \in Thread, Store(th), NEW u \in Thread \ {th}
  PROVE  LoopOK(u)'
<1> DEFINE c == Cell(frame[th].dst, frame[th].i)
           f == frame[u]
<1>1. known' = known /\ view' = view
      /\ frame'[u] = IF Running(u) THEN [f EXCEPT !.before = Kept(f, c)] ELSE Idle
  BY DEF Store
<1> SUFFICES ASSUME Running(u)'
             PROVE  LoopOK(u)'
  BY DEF LoopOK
<1>2. Running(u)
  BY <1>1 DEF Running
<1>3. FrameOK(u) /\ LoopOK(u) /\ IsFrame(f) /\ f.ret \in Tensor /\ InUse(f.ret) /\ f.dst = f.ret
  BY <1>2 DEF IInv, Loops, FrameOK
<1>4. /\ frame'[u].op = f.op /\ frame'[u].args = f.args /\ frame'[u].dst = f.dst
      /\ frame'[u].src = f.src /\ frame'[u].ret = f.ret /\ frame'[u].i = f.i
      /\ frame'[u].acc = f.acc /\ frame'[u].before = Kept(f, c)
  BY <1>1, <1>2, <1>3 DEF IsFrame
<1>5. /\ f.op \in LoopOps /\ Suits(f.op, f.args) /\ f.src = f.args
      /\ Remembers(f.args, f.before) /\ (f.op \in InPlaceOps => f.before = <<>>)
      /\ f.acc # NoObj => Computed(f.op, f.before, f.i, f.acc)
  BY <1>2, <1>3 DEF LoopOK
<1>6. \/ Kept(f, c) = <<>>
      \/ Kept(f, c) = f.before /\ \A j \in DOMAIN f.args : c \notin Cells(f.args[j])
  BY DEF Kept
<1>7. Remembers(f.args, Kept(f, c))
  BY <1>5, <1>6 DEF Remembers
<1> HIDE DEF c
<1>8. (Suits(frame[u].op, frame[u].args) /\ Remembers(frame[u].args, frame[u].before))'
  <2>1. \A op, a, b :
          Suits(op, a) /\ Remembers(a, b)
            /\ (b = <<>> \/ \A j \in DOMAIN a : c \notin Cells(a[j]))
          => Suits(op, a)' /\ Remembers(a, b)'
    BY StoreRemembers DEF c
  <2>2. PICK b : b = Kept(f, c)
    OBVIOUS
  <2>3. frame'[u].before = b /\ Remembers(f.args, b)
    BY <1>4, <1>7, <2>2
  <2>4. b = <<>> \/ \A j \in DOMAIN f.args : c \notin Cells(f.args[j])
    BY <1>6, <2>2
  <2>5. QED
    BY <2>1, <2>3, <2>4, <1>4, <1>5
<1>9. \A i, v : Computed(f.op, f.before, i, v) => Computed(f.op, Kept(f, c), i, v)
  BY <1>6 DEF Computed
<1>10. ASSUME Pure(u)
       PROVE  (\A i \in 1 .. frame[u].i - 1 :
                 Computed(frame[u].op, frame[u].before, i, At(Cell(frame[u].ret, i))))'
  <2>1. PICK d \in Tensor : d = f.ret /\ d = frame'[u].ret
    BY <1>3, <1>4
  <2>2. InUse(d) /\ view[d].stor # view[frame[th].dst].stor
    BY <2>1, <1>3, <1>10, StoreElsewhere DEF InUse
  <2>3. \A i \in 1 .. Size(d) : At(Cell(d, i))' = At(Cell(d, i))
    BY <2>2, StoreLeaves
  <2>4. ASSUME NEW i \in 1 .. f.i - 1
        PROVE  Computed(f.op, Kept(f, c), i, At(Cell(d, i))')
    <3>1. f.i \in Nat /\ Size(d) \in Nat /\ f.i <= Size(d) + 1
      BY <2>1, <2>2, <1>2, <1>3, SizeInside DEF FrameOK, LoopOK, Loops, Size
    <3>2. i \in 1 .. Size(d)
      BY <3>1
    <3>3. Computed(f.op, f.before, i, At(Cell(d, i)))
      BY <2>1, <1>2, <1>3, <1>10 DEF LoopOK
    <3>4. QED
      BY <2>3, <3>2, <3>3, <1>9
  <2>5. \A i : At(Cell(frame[u].ret, i))' = At(Cell(d, i))'
    BY <2>1 DEF At, Cell
  <2>6. \A i \in 1 .. f.i - 1 :
          Computed(frame'[u].op, frame'[u].before, i, At(Cell(frame[u].ret, i))')
    BY <2>4, <2>5, <1>4
  <2>7. (1 .. frame[u].i - 1)' = 1 .. f.i - 1
    BY <1>4
  <2>8. QED
    BY <2>6, <2>7 DEF Computed
<1>11. Pure(u)' <=> Pure(u)
  BY <1>2, <1>4 DEF Pure
<1>12. \A t : Size(t)' = Size(t)
  BY <1>1 DEF Size
<1>13. /\ (\A j \in DOMAIN frame[u].args : Size(frame[u].args[j]) = Size(frame[u].dst))'
       /\ (frame[u].i <= Size(frame[u].dst) + 1)'
  BY <1>2, <1>3, <1>4, <1>12 DEF LoopOK
<1>14. /\ frame'[u].acc # NoObj =>
            Computed(frame'[u].op, frame'[u].before, frame'[u].i, frame'[u].acc)
       /\ frame'[u].op \in InPlaceOps => frame'[u].before = <<>>
  BY <1>4, <1>5, <1>6, <1>9
<1>15. QED
  BY <1>4, <1>5, <1>8, <1>10, <1>11, <1>13, <1>14 DEF LoopOK, Computed

LEMMA StoreLoops ==
  ASSUME IInv, Loops, NEW th \in Thread, Store(th)
  PROVE  Loops'
<1> DEFINE c == Cell(frame[th].dst, frame[th].i)
<1>1. known' = known /\ view' = view /\ thunk' = [thunk EXCEPT !.before = Kept(thunk, c)]
  BY DEF Store
<1>2. \A u \in Thread : LoopOK(u)'
  BY StoreOwn, StoreOther
<1>3. Placed'
  BY <1>1, StoreWrites DEF Loops, Placed, InUse
<1>4. Shown'
  <2>1. ASSUME NEW t \in known, NEW i \in 1 .. Size(t)
        PROVE  At(Cell(t, i))' \in Value
    <3>1. t \in Tensor /\ InUse(t) /\ At(Cell(t, i)) \in Value
      BY DEF IInv, ViewOK, Loops, Shown
    <3>2. QED
      BY <3>1, StoreWrites
  <2>2. \A t : Size(t)' = Size(t)
    BY <1>1 DEF Size
  <2>3. QED
    BY <1>1, <2>1, <2>2 DEF Shown
<1>5. ThunkSuits'
  <2>1. thunk'.args = thunk.args /\ thunk'.before = Kept(thunk, c)
    BY <1>1 DEF IInv, ThunkOK
  <2>2. CASE thunk = NoThunk
    <3>1. Kept(thunk, c) = <<>>
      BY <2>2 DEF Kept, NoThunk
    <3>2. thunk' = NoThunk
      BY <1>1, <2>2, <3>1 DEF NoThunk
    <3>3. QED
      BY <3>2 DEF ThunkSuits
  <2>3. CASE thunk # NoThunk
    <3>1. Suits("^+^", thunk.args) /\ Remembers(thunk.args, thunk.before)
      BY <2>3 DEF Loops, ThunkSuits
    <3>2. PICK b : b = Kept(thunk, c)
      OBVIOUS
    <3>3. \/ b = <<>>
          \/ b = thunk.before /\ \A j \in DOMAIN thunk.args : c \notin Cells(thunk.args[j])
      BY <3>2 DEF Kept
    <3>4. Remembers(thunk.args, b)
      BY <3>1, <3>3 DEF Remembers
    <3> HIDE DEF c
    <3>5. \A op, a : Suits(op, a) /\ Remembers(a, b)
                       /\ (b = <<>> \/ \A j \in DOMAIN a : c \notin Cells(a[j]))
                     => Suits(op, a)' /\ Remembers(a, b)'
      BY StoreRemembers DEF c
    <3>6. (Suits("^+^", thunk.args) /\ Remembers(thunk.args, thunk.before))'
      BY <2>1, <3>1, <3>2, <3>3, <3>4, <3>5
    <3>7. QED
      BY <3>6 DEF ThunkSuits
  <2>4. QED
    BY <2>2, <2>3
<1>6. QED
  BY <1>2, <1>3, <1>4, <1>5 DEF Loops

-----------------------------------------------------------------------------
\* Every step keeps the invariant.
LEMMA NextLoops ==
  ASSUME Ops \subseteq SoundOps, IInv, Loops, [Next]_vars
  PROVE  Loops'
<1>1. CASE UNCHANGED vars
  <2>1. Still /\ known' = known /\ view' = view /\ data' = data /\ frame' = frame
        /\ thunk' = thunk
    BY <1>1 DEF vars, Still, InUse
  <2>2. Placed' /\ Shown'
    BY <2>1 DEF Loops, Placed, Shown, InUse, Size, At, Cell
  <2>3. QED
    BY <2>1, <2>2, StillLoop, StillThunk DEF Loops
<1>2. ASSUME NEW th \in Thread, Step(th)
      PROVE  Loops'
  BY <1>2, LoadLoops, StoreLoops, ReturnLoops, fromList1dLoops, withEmptyLoops,
     twiceLoops, newNarrowLoops, deferLoops, forceLoops DEF Step
<1>3. QED
  BY <1>1, <1>2 DEF Next

\* In every reachable state the loops have computed what lies behind them from what
\* their operands held (the C loops under withEmpty and twice).
THEOREM LoopInvariance ==
  ASSUME Ops \subseteq SoundOps
  PROVE  Spec => [](IInv /\ Loops)
<1>1. Init => IInv /\ Loops
  BY InitIInv, InitLoops
<1>2. IInv /\ Loops /\ [Next]_vars => (IInv /\ Loops)'
  BY NextIInv, NextLoops
<1>3. QED
  BY <1>1, <1>2, PTL DEF Spec

\* No tensor that the program has shows uninitialized memory: a loop fills every
\* element of what it returns, and views lie inside what they are views of.
THEOREM ResultsInitialized ==
  ASSUME Ops \subseteq SoundOps
  PROVE  Spec => []Initialized
<1>1. Loops => Initialized
  BY ConstantsOK DEF Loops, Shown, Initialized, Value
<1>2. QED
  BY <1>1, LoopInvariance, PTL

\* What a pure operation returns is computed from what its operands held when it was
\* called, or the operator applied (^+^), unless they have been written since.
THEOREM ResultsOfOperands ==
  ASSUME Ops \subseteq SoundOps
  PROVE  Spec => []Snapshot
<1>1. ASSUME IInv, Loops
      PROVE  Snapshot
  <2> SUFFICES ASSUME NEW th \in Thread, Pure(th), Done(th), frame[th].before # <<>>,
                      NEW i \in 1 .. Size(frame[th].ret)
               PROVE  At(Cell(frame[th].ret, i)) \in
                        Element(frame[th].op, Column(frame[th].before, i))
    BY DEF Snapshot, Column
  <2>1. Running(th) /\ FrameOK(th) /\ LoopOK(th) /\ frame[th].i > Size(frame[th].dst)
    BY <1>1 DEF Done, IInv, Loops
  <2>2. /\ frame[th].dst = frame[th].ret /\ frame[th].i \in Nat
        /\ Size(frame[th].ret) \in Nat
    BY <1>1, <2>1, SizeInside DEF FrameOK, Loops
  <2>3. i \in 1 .. frame[th].i - 1
    BY <2>1, <2>2
  <2>4. QED
    BY <2>1, <2>3 DEF LoopOK, Computed
<1>2. QED
  BY <1>1, LoopInvariance, PTL

\* The variables have their types, and views lie inside their storages.
THEOREM ValuesTyped ==
  ASSUME Ops \subseteq SoundOps
  PROVE  Spec => []TypeOK
<1>1. ASSUME IInv, Loops
      PROVE  TypeOK
  <2>1. /\ known \subseteq {t \in Tensor : InUse(t)}
        /\ view \in [Tensor -> Views \cup {NoObj}]
        /\ \A t \in Tensor : InUse(t) => view[t].off + view[t].n <= Width
        /\ data \in [Storage -> [Index -> Value \cup {Junk}]]
    BY <1>1 DEF IInv, ViewOK, Loops, Placed, Content
  <2>2. thunk.args \in Seq(known)
    <3>1. CASE thunk = NoThunk
      BY <3>1 DEF NoThunk
    <3>2. CASE thunk # NoThunk
      BY <1>1, <3>2 DEF Loops, ThunkSuits, Suits
    <3>3. QED
      BY <3>1, <3>2
  <2>3. ASSUME NEW th \in Thread, Running(th)
        PROVE  frame[th] \in Frames
    <3> DEFINE f == frame[th]
    <3>1. FrameOK(th) /\ LoopOK(th) /\ IsFrame(f)
      BY <1>1, <2>3 DEF IInv, Loops, FrameOK
    <3>2. f.op \in AllOps /\ f.dst \in Tensor /\ f.ret \in Tensor /\ InUse(f.dst)
      BY <2>3, <3>1 DEF FrameOK, AllOps
    <3>3. f.args \in Seq(Tensor) /\ f.src \in Seq(Tensor)
      BY <2>1, <2>3, <3>1 DEF LoopOK, Suits
    <3>4. f.i \in 1 .. Width + 1
      BY <1>1, <2>3, <3>1, <3>2, SizeInside, ConstantsOK DEF FrameOK, LoopOK, Loops
    <3>5. f.acc \in Value \cup {NoObj, Junk}
      BY <2>3, <3>1 DEF LoopOK, Computed
    <3>6. f.before \in Seq(UNION {[1 .. n -> Value \cup {Junk}] : n \in Index})
      <4>1. CASE f.before = <<>>
        BY <4>1
      <4>2. CASE f.before = Now(f.args)
        <5>1. f.args \in Seq(known)
          BY <2>3, <3>1 DEF LoopOK, Suits
        <5>2. ASSUME NEW j \in 1 .. Len(f.args)
              PROVE  Contents(f.args[j]) \in UNION {[1 .. n -> Value \cup {Junk}] : n \in Index}
          <6>1. f.args[j] \in Tensor /\ InUse(f.args[j])
            BY <2>1, <5>1, <5>2
          <6>2. /\ Size(f.args[j]) \in Index
                /\ \A i \in 1 .. Size(f.args[j]) : At(Cell(f.args[j], i)) \in Value \cup {Junk}
            BY <1>1, <6>1, SizeInside, CellInside DEF Loops, Content
          <6>3. Contents(f.args[j]) \in [1 .. Size(f.args[j]) -> Value \cup {Junk}]
            BY <6>2 DEF Contents
          <6>4. QED
            BY <6>2, <6>3
        <5>3. f.before = [j \in 1 .. Len(f.args) |-> Contents(f.args[j])]
          BY <4>2, <5>1 DEF Now
        <5>4. Len(f.args) \in Nat
          BY <5>1
        <5>5. QED
          BY <5>2, <5>3, <5>4
      <4>3. QED
        BY <2>3, <3>1, <4>1, <4>2 DEF LoopOK, Remembers
    <3>7. QED
      BY <3>1, <3>2, <3>3, <3>4, <3>5, <3>6 DEF IsFrame, Frames
  <2>4. QED
    BY <2>1, <2>2, <2>3 DEF TypeOK
<1>2. QED
  BY <1>1, LoopInvariance, PTL
=============================================================================
