---------------------------- MODULE ShapesLoops ----------------------------
(***************************************************************************)
(* Proofs about the two loops of Shapes, each of which may meet resizes by *)
(* other threads: a shape that is read dimension by dimension is the shape *)
(* that the tensor had, and expandNd changes all of its results or none,   *)
(* if no other thread changed the tensors of the call meanwhile.           *)
(***************************************************************************)
EXTENDS ShapesProofs, WellFoundedInduction

\* A set of numbers has a least one.
LEMMA LeastNumber ==
  ASSUME NEW S \in SUBSET Nat, S # {}
  PROVE  \E x \in S : \A y \in S : x <= y
<1> DEFINE R == {r \in Nat \X Nat : r[1] < r[2]}
<1>1. IsWellFoundedOn(R, Nat)
  BY NatLessThanWellFounded DEF OpToRel
<1>2. PICK x \in S : \A y \in S : <<y, x>> \notin R
  BY <1>1, WFMin
<1>3. ASSUME NEW y \in S
      PROVE  x <= y
  <2>1. <<y, x>> \in Nat \X Nat /\ <<y, x>>[1] = y /\ <<y, x>>[2] = x
    OBVIOUS
  <2>2. ~ (y < x)
    BY <1>2, <2>1
  <2>3. QED
    BY <2>2
<1>4. QED
  BY <1>3

\* And a greatest one, if there is a bound.
LEMMA GreatestNumber ==
  ASSUME NEW S \in SUBSET Nat, S # {}, NEW b \in Nat, \A x \in S : x <= b
  PROVE  \E x \in S : \A y \in S : x >= y
<1> DEFINE D == {d \in Nat : \E x \in S : d + x = b}
<1>1. D # {}
  <2>1. PICK x \in S : TRUE
    OBVIOUS
  <2>2. b - x \in D
    OBVIOUS
  <2>3. QED
    BY <2>2
<1>2. PICK d \in D : \A e \in D : d <= e
  <2> HIDE DEF D
  <2>1. D \subseteq Nat
    BY DEF D
  <2>2. QED
    BY <1>1, <2>1, LeastNumber
<1>3. PICK x \in S : d + x = b
  OBVIOUS
<1>4. ASSUME NEW y \in S
      PROVE  x >= y
  <2>1. b - y \in D
    OBVIOUS
  <2>2. d <= b - y
    BY <1>2, <2>1
  <2>3. QED
    BY <1>3, <2>2
<1>5. QED
  BY <1>4

\* The numbers of a list are bounded.
LEMMA ListBounded ==
  ASSUME NEW n \in Nat, NEW f, \A j \in 1 .. n : f[j] \in Nat
  PROVE  \E b \in Nat : \A j \in 1 .. n : f[j] <= b
<1> DEFINE Bounds(m, b) == \A j \in 1 .. m : f[j] <= b
           Unbounded(m) == \A b \in Nat : ~ Bounds(m, b)
           T == {m \in 0 .. n : Unbounded(m)}
<1> SUFFICES ASSUME Unbounded(n) PROVE FALSE
  OBVIOUS
<1>1. n \in T
  <2>1. n \in 0 .. n
    OBVIOUS
  <2>2. Unbounded(n)
    OBVIOUS
  <2> HIDE DEF Unbounded
  <2>3. QED
    BY <2>1, <2>2
<1>2. PICK m \in T : \A k \in T : m <= k
  <2> HIDE DEF T
  <2>1. T \subseteq Nat
    BY DEF T
  <2>2. QED
    BY <1>1, <2>1, LeastNumber
<1>3. m # 0
  <2>1. Bounds(0, 0)
    OBVIOUS
  <2>2. QED
    BY <2>1
<1>4. m - 1 \in 0 .. n /\ m \in 1 .. n /\ ~(m <= m - 1)
  BY <1>3
<1>5. PICK b \in Nat : Bounds(m - 1, b)
  <2>1. m - 1 \notin T
    <3> HIDE DEF T
    <3>1. QED
      BY <1>2, <1>4
  <2>2. ~ Unbounded(m - 1)
    <3> HIDE DEF Unbounded
    <3>1. QED
      BY <1>4, <2>1
  <2>3. QED
    BY <2>2
<1>6. PICK c \in Nat : b <= c /\ f[m] <= c
  <2>1. f[m] \in Nat
    BY <1>4
  <2>2. b + f[m] \in Nat /\ b <= b + f[m] /\ f[m] <= b + f[m]
    BY <2>1
  <2>3. QED
    BY <2>2
<1>7. Bounds(m, c)
  <2> SUFFICES ASSUME NEW j \in 1 .. m PROVE f[j] <= c
    OBVIOUS
  <2>1. CASE j = m
    BY <2>1, <1>6
  <2>2. CASE j # m
    <3>1. j \in 1 .. m - 1
      BY <2>2
    <3>2. f[j] <= b /\ f[j] \in Nat
      BY <3>1, <1>5, <1>4
    <3>3. QED
      BY <3>2, <1>6
  <2>3. QED
    BY <2>1, <2>2
<1>8. QED
  BY <1>7

-----------------------------------------------------------------------------
(***************************************************************************)
(* Sizes are lists of numbers, those that expandNd computes included.      *)
(***************************************************************************)
LEMMA NumbersAreList ==
  ASSUME NEW n \in Nat, NEW list \in [1 .. n -> Nat]
  PROVE  list \in Seq(Nat)
OBVIOUS

LEMMA MinIn ==
  ASSUME NEW S \in SUBSET Nat, S # {}
  PROVE  Min(S) \in S
BY LeastNumber DEF Min

LEMMA MaxIn ==
  ASSUME NEW S \in SUBSET Nat, S # {}, NEW b \in Nat, \A x \in S : x <= b
  PROVE  Max(S) \in S
BY GreatestNumber DEF Max

LEMMA FromRightType ==
  ASSUME NEW list \in Seq(Nat), NEW k \in Nat \ {0}
  PROVE  FromRight(list, k, 1) \in Nat
<1>1. CASE k <= Len(list)
  <2>1. Len(list) + 1 - k \in 1 .. Len(list)
    BY <1>1
  <2>2. QED
    BY <1>1, <2>1 DEF FromRight
<1>2. CASE ~(k <= Len(list))
  BY <1>2 DEF FromRight
<1>3. QED
  BY <1>1, <1>2

LEMMA CommonSizeType ==
  ASSUME NEW n \in Nat \ {0}, NEW lists \in [1 .. n -> Seq(Nat)]
  PROVE  CommonSize(lists) \in Seq(Nat)
<1> DEFINE ranks == {Len(lists[j]) : j \in 1 .. n}
           rank == Max(ranks)
           more(k) == {j \in 1 .. n : FromRight(lists[j], k, 1) # 1}
           FirstSize(k) == IF more(k) = {} THEN 1 ELSE FromRight(lists[Min(more(k))], k, 1)
<1>1. \A j \in 1 .. n : lists[j] \in Seq(Nat) /\ Len(lists[j]) \in Nat
  OBVIOUS
<1>2. rank \in Nat
  <2> DEFINE f == [j \in 1 .. n |-> Len(lists[j])]
  <2>1. \A j \in 1 .. n : f[j] \in Nat /\ f[j] = Len(lists[j])
    BY <1>1
  <2> HIDE DEF f
  <2>2. PICK b \in Nat : \A j \in 1 .. n : f[j] <= b
    BY <2>1, ListBounded
  <2>3. ranks \subseteq Nat /\ \A x \in ranks : x <= b
    BY <2>1, <2>2
  <2>4. Len(lists[1]) \in ranks
    OBVIOUS
  <2> HIDE DEF ranks
  <2>5. QED
    BY <2>3, <2>4, MaxIn
<1>3. ASSUME NEW k \in Nat \ {0}
      PROVE  FirstSize(k) \in Nat
  <2>1. CASE more(k) = {}
    BY <2>1
  <2>2. CASE more(k) # {}
    <3> DEFINE S == more(k)
               j == Min(S)
    <3>1. S \subseteq 1 .. n /\ S \subseteq Nat
      OBVIOUS
    <3>2. j \in S
      <4> HIDE DEF S
      <4>1. QED
        BY <2>2, <3>1, MinIn DEF S
    <3>3. j \in 1 .. n
      BY <3>1, <3>2
    <3> HIDE DEF j
    <3>4. FromRight(lists[j], k, 1) \in Nat
      BY <3>3, <1>1, FromRightType
    <3>5. QED
      BY <2>2, <3>4 DEF j
  <2>3. QED
    BY <2>1, <2>2
<1>4. CommonSize(lists) = [d \in 1 .. rank |-> FirstSize(rank + 1 - d)]
  <2>1. DOMAIN lists = 1 .. n
    OBVIOUS
  <2>2. QED
    BY <2>1 DEF CommonSize
<1> HIDE DEF rank, FirstSize
<1>5. \A d \in 1 .. rank : FirstSize(rank + 1 - d) \in Nat
  BY <1>2, <1>3
<1>6. QED
  BY <1>2, <1>4, <1>5

\* The lists among the locals f at the place p.  tensordata keeps a length in read.
ListsOf(f, p) ==
  /\ f.want \in Seq(Nat)
  /\ f.op # "tensordata" => f.read \in Seq(Nat)
  /\ p = "ndCheck" => f.read = <<>>
  /\ p = "ndTake" => Len(f.read) + 1 = f.i
  /\ p = "ndInfer" => Len(f.read) = Len(f.ops)

Lists ==
  /\ \A t \in Tensor : tensor[t].size \in Seq(Nat)
  /\ \A th \in Thread : ListsOf(frame[th], pc[th])

LEMMA ListsStep ==
  ASSUME Lists, NEW th \in Thread, Only(th, frame, frame'), Only(th, pc, pc'),
         \A t \in Tensor : tensor'[t].size \in Seq(Nat),
         ListsOf(frame'[th], pc'[th])
  PROVE  Lists'
<1>1. \A u \in Thread \ {th} : frame'[u] = frame[u] /\ pc'[u] = pc[u]
  BY DEF Only
<1>2. \A u \in Thread : ListsOf(frame'[u], pc'[u])
  BY <1>1 DEF Lists
<1>3. QED
  BY <1>2 DEF Lists

\* A step of th whose locals g have the same lists.
LEMMA ListsKept ==
  ASSUME Control, Lists, NEW th \in Thread, NEW g, NEW p, tensor' = tensor,
         p \notin {"ndCheck", "ndTake", "ndInfer"},
         frame' = [frame EXCEPT ![th] = g], pc' = [pc EXCEPT ![th] = p],
         g.op = frame[th].op, g.want = frame[th].want, g.read = frame[th].read
  PROVE  Lists'
<1>1. Only(th, frame, frame') /\ frame'[th] = g /\ Only(th, pc, pc') /\ pc'[th] = p
  BY DEF Control, PerThread, Only
<1>2. ListsOf(g, p)
  BY DEF Lists, ListsOf
<1>3. QED
  BY <1>1, <1>2, ListsStep DEF Lists

LEMMA ListsSame ==
  ASSUME Lists, UNCHANGED <<tensor, frame, pc>>
  PROVE  Lists'
BY DEF Lists

LEMMA ListsPlace ==
  ASSUME Control, Lists, NEW th \in Thread, NEW p, UNCHANGED <<tensor, frame>>,
         p \notin {"ndCheck", "ndTake", "ndInfer"},
         pc' = [pc EXCEPT ![th] = p]
  PROVE  Lists'
<1>1. Only(th, frame, frame') /\ Only(th, pc, pc') /\ pc'[th] = p
  BY OnlyItself DEF Control, PerThread, Only
<1>2. ListsOf(frame[th], p)
  BY DEF Lists, ListsOf
<1>3. QED
  BY <1>1, <1>2, ListsStep DEF Lists

LEMMA ListsError ==
  ASSUME Control, Lists, NEW th \in Thread, NEW g, NEW p, tensor' = tensor,
         p \notin {"ndCheck", "ndTake", "ndInfer"},
         Error(th, g, p),
         g.op = frame[th].op, g.want = frame[th].want, g.read = frame[th].read
  PROVE  Lists'
BY ListsKept, ListsSame DEF Error, Goto

\* A step that reports to the error handler.
LEMMA ErrorStep ==
  ASSUME Control, NEW th \in Thread, NEW g, NEW p, Error(th, g, p)
  PROVE  /\ Only(th, frame, frame') /\ Only(th, pc, pc')
         /\ \/ frame'[th] = frame[th] /\ pc'[th] = pc[th]
            \/ frame'[th] = g /\ pc'[th] = p
BY DEF Error, Goto, Control, PerThread, Only

\* The lists of a call.
SameLists(f, g) ==
  g.op = f.op /\ g.rets = f.rets /\ g.ops = f.ops /\ g.want = f.want /\ g.read = f.read

\* The steps of expand but the one that sets its result.
Expansion(th) ==
  \/ expandCheck(th) \/ expandCheckSizes(th) \/ expandGeometry(th) \/ expandInfer(th)
  \/ expandArgs(th) \/ expandFree(th)

\* They go on, or the sizes cannot be expanded.
LEMMA expandKeeps ==
  ASSUME Control, NEW th \in Thread, Expansion(th)
  PROVE  LET f == frame[th]
             g == frame'[th]
         IN  /\ Only(th, frame, frame') /\ Only(th, pc, pc') /\ SameLists(f, g)
             /\ UNCHANGED <<tensor, held, calm, before>>
             /\ Locals(f, pc[th])
             /\ pc[th] \in {"check", "rank", "geometry", "infer", "args", "free"}
             /\ pc'[th] \notin {"new", "ndCheck", "ndTake", "ndInfer"}
             /\ \/ /\ g.failed \in {f.failed, "arg"}
                   /\ \/ pc'[th] \in {"check", "rank", "geometry", "args", "set"}
                      \/ pc'[th] = "infer" /\ expandGeometry(th)
                      \/ pc'[th] = AfterExpand(f) /\ pc[th] = "free"
                \/ /\ pc[th] = "infer"
                   /\ \E x \in GeometryAt(th) : ~Expandable(x.size, f.want)
<1> DEFINE f == frame[th]
           x == tensor[Source(th)]
<1>1. /\ Locals(f, pc[th]) /\ Record(f) /\ PerThread(frame) /\ PerThread(pc)
      /\ pc[th] \in {"check", "rank", "geometry", "infer", "args", "free"}
      /\ UNCHANGED <<tensor, held, calm, before>>
      /\ AfterExpand(f) \in {"done", "check", "ndFree"}
  BY ControlAt DEF Expansion, expandCheck, expandCheckSizes, expandGeometry, expandInfer,
                   expandArgs, expandFree, mem, AfterExpand, Locals
<1>2. ASSUME NEW p \in {"rank", "geometry"}, pc[th] \in {"check", "rank"},
             \/ frame' = frame /\ Goto(th, p)
             \/ Error(th, [f EXCEPT !.failed = "arg"], p)
      PROVE  /\ Only(th, frame, frame') /\ Only(th, pc, pc') /\ SameLists(f, frame'[th])
             /\ frame'[th].failed \in {f.failed, "arg"}
             /\ pc'[th] \in {"check", "rank", "geometry"}
  <2> DEFINE g == [f EXCEPT !.failed = "arg"]
  <2>1. SameLists(f, g) /\ g.failed = "arg" /\ SameLists(f, f)
    BY <1>1 DEF Record, SameLists
  <2>2. CASE frame' = frame /\ Goto(th, p)
    <3>1. Only(th, frame, frame') /\ Only(th, pc, pc') /\ pc'[th] = p
      BY <1>1, <2>2, OnlyItself DEF PerThread, Only, Goto
    <3>2. QED
      BY <2>1, <2>2, <3>1
  <2>3. CASE Error(th, g, p)
    <3> HIDE DEF g
    <3>1. /\ Only(th, frame, frame') /\ Only(th, pc, pc')
          /\ \/ frame'[th] = f /\ pc'[th] = pc[th]
             \/ frame'[th] = g /\ pc'[th] = p
      BY <2>3, ErrorStep
    <3>2. QED
      BY <1>2, <2>1, <3>1
  <2>4. QED
    BY <1>2, <2>2, <2>3
<1>3. CASE expandCheck(th) \/ expandCheckSizes(th)
  <2>1. pc[th] \in {"check", "rank"}
    BY <1>3 DEF expandCheck, expandCheckSizes, At
  <2>2. \E p \in {"rank", "geometry"} :
          \/ frame' = frame /\ Goto(th, p)
          \/ Error(th, [f EXCEPT !.failed = "arg"], p)
    BY <1>3 DEF expandCheck, expandCheckSizes
  <2>3. /\ Only(th, frame, frame') /\ Only(th, pc, pc') /\ SameLists(f, frame'[th])
        /\ frame'[th].failed \in {f.failed, "arg"}
        /\ pc'[th] \in {"check", "rank", "geometry"}
    BY <1>2, <2>1, <2>2
  <2>4. QED
    BY <1>1, <2>3
<1>4. CASE expandGeometry(th)
  <2> DEFINE limit == Len(x.size)
             g == [f EXCEPT !.limit = limit]
  <2>1. Only(th, frame, frame') /\ Only(th, pc, pc') /\ frame'[th] = g /\ pc'[th] = "infer"
    BY <1>1, <1>4 DEF expandGeometry, Goto, PerThread, Only
  <2> HIDE DEF limit
  <2>2. SameLists(f, g) /\ g.failed = f.failed
    BY <1>1 DEF Record, SameLists
  <2> HIDE DEF g
  <2>3. QED
    BY <1>1, <1>4, <2>1, <2>2
<1>5. CASE expandInfer(th)
  <2>0. pc[th] = "infer"
    BY <1>5 DEF expandInfer, At
  <2>1. PICK y \in GeometryAt(th) :
          IF Expandable(y.size, f.want)
          THEN /\ frame' = [frame EXCEPT ![th].stride = ExpandedStride(y, f.want)]
               /\ Goto(th, "args")
          ELSE Error(th, [f EXCEPT !.failed = "infer", !.i = NextOp(f)], AfterExpand(f))
    BY <1>5 DEF expandInfer
  <2>2. CASE Expandable(y.size, f.want)
    <3> DEFINE stride == ExpandedStride(y, f.want)
               g == [f EXCEPT !.stride = stride]
    <3>1. Only(th, frame, frame') /\ Only(th, pc, pc') /\ frame'[th] = g /\ pc'[th] = "args"
      BY <1>1, <2>1, <2>2 DEF Goto, PerThread, Only
    <3> HIDE DEF stride
    <3>2. SameLists(f, g) /\ g.failed = f.failed
      BY <1>1 DEF Record, SameLists
    <3> HIDE DEF g
    <3>3. QED
      BY <1>1, <3>1, <3>2
  <2>3. CASE ~Expandable(y.size, f.want)
    <3> DEFINE i == NextOp(f)
               g == [f EXCEPT !.failed = "infer", !.i = i]
               p == AfterExpand(f)
    <3>1. Error(th, g, p)
      BY <2>1, <2>3
    <3> HIDE DEF i
    <3>2. SameLists(f, g) /\ SameLists(f, f)
      BY <1>1 DEF Record, SameLists
    <3> HIDE DEF g
    <3>3. /\ Only(th, frame, frame') /\ Only(th, pc, pc')
          /\ frame'[th] \in {f, g} /\ pc'[th] \in {"infer", p}
      BY <2>0, <3>1, ErrorStep
    <3>4. SameLists(f, frame'[th])
      BY <3>2, <3>3
    <3>5. pc'[th] \notin {"new", "ndCheck", "ndTake", "ndInfer"}
      BY <1>1, <3>3
    <3>6. QED
      BY <1>1, <2>0, <2>3, <3>3, <3>4, <3>5
  <2>4. QED
    BY <2>2, <2>3
<1>6. CASE expandArgs(th)
  <2> DEFINE storage == x.storage
             offset == x.offset
             g == [f EXCEPT !.storage = storage, !.offset = offset]
  <2>1. Only(th, frame, frame') /\ Only(th, pc, pc') /\ frame'[th] = g /\ pc'[th] = "set"
    BY <1>1, <1>6 DEF expandArgs, Goto, PerThread, Only
  <2> HIDE DEF storage, offset
  <2>2. SameLists(f, g) /\ g.failed = f.failed
    BY <1>1 DEF Record, SameLists
  <2> HIDE DEF g
  <2>3. QED
    BY <1>1, <2>1, <2>2
<1>7. CASE expandFree(th)
  <2> DEFINE i == NextOp(f)
             g == [f EXCEPT !.i = i]
  <2>1. /\ Only(th, frame, frame') /\ Only(th, pc, pc') /\ frame'[th] = g
        /\ pc'[th] = AfterExpand(f) /\ pc[th] = "free"
    BY <1>1, <1>7 DEF expandFree, Goto, PerThread, Only, At
  <2> HIDE DEF i
  <2>2. SameLists(f, g) /\ g.failed = f.failed
    BY <1>1 DEF Record, SameLists
  <2> HIDE DEF g
  <2>3. QED
    BY <1>1, <2>1, <2>2
<1>8. QED
  BY <1>3, <1>4, <1>5, <1>6, <1>7 DEF Expansion

LEMMA expandLists ==
  ASSUME Control, Lists, NEW th \in Thread, Expansion(th)
  PROVE  Lists'
<1>1. /\ Only(th, frame, frame') /\ Only(th, pc, pc') /\ SameLists(frame[th], frame'[th])
      /\ tensor' = tensor /\ pc'[th] \notin {"ndCheck", "ndTake", "ndInfer"}
  BY expandKeeps
<1>2. ListsOf(frame'[th], pc'[th])
  BY <1>1 DEF Lists, ListsOf, SameLists
<1>3. QED
  BY <1>1, <1>2, ListsStep DEF Lists

\* The ranks that expandNd copies, and the sizes that it finds behind them.
LEMMA expandNdLists ==
  ASSUME Control, Lists, NEW th \in Thread,
         expandNdCheck(th) \/ expandNdTake(th) \/ expandNdInfer(th) \/ expandNdFree(th)
  PROVE  Lists'
<1> DEFINE f == frame[th]
           n == Len(f.ops)
<1>1. /\ Locals(f, pc[th]) /\ tensor' = tensor /\ PerThread(frame) /\ PerThread(pc)
      /\ pc[th] \in {"ndCheck", "ndTake", "ndInfer", "ndFree"}
  BY ControlAt DEF expandNdCheck, expandNdTake, expandNdInfer, expandNdFree, mem
<1>2. f.op = "_expandNd" /\ f.ops \in Seq(Tensor) /\ n \in Nat \ {0} /\ Record(f)
  BY <1>1 DEF Locals, Place
<1>3. /\ f.want \in Seq(Nat) /\ f.read \in Seq(Nat)
      /\ pc[th] = "ndCheck" => f.read = <<>>
      /\ pc[th] = "ndTake" => Len(f.read) + 1 = f.i
      /\ pc[th] = "ndInfer" => Len(f.read) = n
      /\ DOMAIN f.ops = 1 .. n /\ \A j \in 1 .. n : f.ops[j] \in Tensor
      /\ f.i \in 1 .. n
  BY <1>1, <1>2 DEF Lists, ListsOf, Locals
<1>4. ASSUME NEW x
      PROVE  LET g == [f EXCEPT !.failed = x]
             IN  g.op = f.op /\ g.want = f.want /\ g.read = f.read
  BY <1>2 DEF Record
<1>5. CASE expandNdCheck(th)
  <2> DEFINE i == NextRound(f)
             g == [f EXCEPT !.i = i]
             h == [g EXCEPT !.failed = "arg"]
             p == IF f.i < Len(g.ops) THEN "ndCheck" ELSE "ndTake"
  <2>0. pc[th] = "ndCheck"
    BY <1>5 DEF expandNdCheck, At
  <2>1. \/ frame' = [frame EXCEPT ![th] = g] /\ Goto(th, p)
        \/ Error(th, h, p)
    BY <1>5 DEF expandNdCheck
  <2>2. i = IF f.i < n THEN f.i + 1 ELSE 1
    BY DEF NextRound
  <2> HIDE DEF i
  <2>3. /\ g.op = f.op /\ g.want = f.want /\ g.read = f.read /\ g.i = i /\ g.ops = f.ops
        /\ h.op = f.op /\ h.want = f.want /\ h.read = f.read /\ h.i = i /\ h.ops = f.ops
    BY <1>2 DEF Record
  <2>4. p = IF f.i < n THEN "ndCheck" ELSE "ndTake"
    BY <2>3
  <2> HIDE DEF g, h, p
  <2>5. ListsOf(g, p) /\ ListsOf(h, p)
    <3>1. f.read = <<>> /\ Len(<<>>) + 1 = 1
      BY <1>3, <2>0
    <3>2. QED
      BY <1>3, <2>2, <2>3, <2>4, <3>1 DEF ListsOf
  <2>6. /\ Only(th, frame, frame') /\ Only(th, pc, pc')
        /\ \/ frame'[th] = f /\ pc'[th] = pc[th]
           \/ frame'[th] = g /\ pc'[th] = p
           \/ frame'[th] = h /\ pc'[th] = p
    BY <1>1, <2>1, ErrorStep DEF Goto, PerThread, Only
  <2>7. ListsOf(frame'[th], pc'[th])
    BY <2>5, <2>6 DEF Lists
  <2>8. QED
    BY <1>1, <2>6, <2>7, ListsStep DEF Lists
<1>6. CASE expandNdTake(th)
  <2> DEFINE i == NextRound(f)
             rank == Len(tensor[Source(th)].size)
             read == Append(f.read, rank)
             g == [f EXCEPT !.read = read, !.i = i]
             p == IF f.i < n THEN "ndTake" ELSE "ndInfer"
  <2>0. pc[th] = "ndTake"
    BY <1>6 DEF expandNdTake, At
  <2>1. /\ Only(th, frame, frame') /\ frame'[th] = g /\ Only(th, pc, pc') /\ pc'[th] = p
    BY <1>1, <1>6 DEF expandNdTake, Goto, PerThread, Only
  <2>2. i = IF f.i < n THEN f.i + 1 ELSE 1
    BY DEF NextRound
  <2>3. rank \in Nat
    <3>1. Source(th) \in Tensor
      BY <1>3 DEF Source
    <3>2. QED
      BY <3>1 DEF Lists
  <2> HIDE DEF i, rank
  <2>4. read \in Seq(Nat) /\ Len(read) = Len(f.read) + 1
    BY <1>3, <2>3
  <2> HIDE DEF read
  <2>5. g.op = f.op /\ g.want = f.want /\ g.read = read /\ g.ops = f.ops /\ g.i = i
    BY <1>2 DEF Record
  <2> HIDE DEF g
  <2>6. ListsOf(g, p)
    <3>1. Len(read) = f.i
      BY <1>3, <2>0, <2>4
    <3>2. CASE f.i < n
      BY <1>2, <1>3, <2>2, <2>4, <2>5, <3>1, <3>2 DEF ListsOf
    <3>3. CASE ~(f.i < n)
      <4>1. f.i = n
        BY <1>2, <1>3, <3>3
      <4>2. QED
        BY <1>3, <2>4, <2>5, <3>1, <3>3, <4>1 DEF ListsOf
    <3>4. QED
      BY <3>2, <3>3
  <2> HIDE DEF p
  <2>7. QED
    BY <1>1, <2>1, <2>6, ListsStep DEF Lists
<1>7. CASE expandNdInfer(th)
  <2>1. pc[th] = "ndInfer"
    BY <1>7 DEF expandNdInfer, At
  <2>2. ASSUME NEW lists \in SizesAt(th)
        PROVE  lists \in [1 .. n -> Seq(Nat)]
    <3>1. DOMAIN lists = 1 .. n /\ lists = [j \in 1 .. n |-> lists[j]]
      BY <1>3 DEF SizesAt
    <3>2. ASSUME NEW j \in 1 .. n
          PROVE  lists[j] \in Seq(Nat)
      <4>1. CASE j \in moved[th]
        <5>1. lists[j] \in [1 .. f.read[j] -> Junk]
          BY <3>1, <4>1 DEF SizesAt
        <5>2. f.read[j] \in Nat
          BY <1>3, <2>1
        <5>3. Junk \subseteq Nat
          BY ConstantsOK
        <5>4. lists[j] \in [1 .. f.read[j] -> Nat]
          BY <5>1, <5>3
        <5>5. QED
          BY <5>2, <5>4, NumbersAreList
      <4>2. CASE j \notin moved[th]
        <5>1. lists[j] = tensor[f.ops[j]].size
          BY <3>1, <4>2 DEF SizesAt
        <5>2. QED
          BY <5>1, <1>3 DEF Lists
      <4>3. QED
        BY <4>1, <4>2
    <3>3. QED
      BY <3>1, <3>2
  <2>3. ASSUME NEW want \in Seq(Nat), frame' = [frame EXCEPT ![th].want = want, ![th].i = 1],
               pc' = [pc EXCEPT ![th] = "check"]
        PROVE  Lists'
    <3> DEFINE g == [f EXCEPT !.want = want, !.i = 1]
    <3>1. Only(th, frame, frame') /\ frame'[th] = g /\ Only(th, pc, pc') /\ pc'[th] = "check"
      BY <1>1, <2>3 DEF PerThread, Only
    <3>2. g.want = want /\ g.read = f.read
      BY <1>2 DEF Record
    <3> HIDE DEF g
    <3>3. ListsOf(g, "check")
      BY <1>3, <3>2 DEF ListsOf
    <3>4. QED
      BY <1>1, <3>1, <3>3, ListsStep DEF Lists
  <2>4. ASSUME Error(th, [f EXCEPT !.failed = "infer"], "done")
        PROVE  Lists'
    <3> DEFINE g == [f EXCEPT !.failed = "infer"]
    <3>1. g.op = f.op /\ g.want = f.want /\ g.read = f.read /\ Error(th, g, "done")
      BY <1>4, <2>4
    <3> HIDE DEF g
    <3>2. QED
      BY <1>1, <3>1, ListsError
  <2>5. PICK lists \in SizesAt(th) :
          \/ /\ frame' = [frame EXCEPT ![th].want = CommonSize(lists), ![th].i = 1]
             /\ pc' = [pc EXCEPT ![th] = "check"]
          \/ Error(th, [f EXCEPT !.failed = "infer"], "done")
    BY <1>7 DEF expandNdInfer, Goto
  <2>6. CommonSize(lists) \in Seq(Nat)
    BY <1>2, <2>2, CommonSizeType
  <2>7. QED
    BY <2>3, <2>4, <2>5, <2>6
<1>8. CASE expandNdFree(th)
  BY <1>1, <1>8, ListsPlace DEF expandNdFree, Goto
<1>9. QED
  BY <1>5, <1>6, <1>7, <1>8

LEMMA expandSetLists ==
  ASSUME Control, Data, Lists, NEW th \in Thread, expandSet(th)
  PROVE  Lists'
<1> DEFINE f == frame[th]
           t == Target(th)
<1>1. /\ Locals(f, "set") /\ UNCHANGED frame
      /\ pc' = [pc EXCEPT ![th] = "free"] /\ Change(th, t, View(th))
      /\ PerThread(frame) /\ PerThread(pc)
  BY ControlAt DEF expandSet, Goto
<1>2. t \in Tensor
  <2>1. f.i \in 1 .. Len(f.rets) /\ f.rets \in Seq(Tensor)
    BY <1>1 DEF Locals, Place
  <2>2. QED
    BY <2>1 DEF Target
<1>3. tensor'[t].size = f.want
  BY <1>1, <1>2, ChangeSize DEF View
<1> HIDE DEF t
<1>4. \A u \in Tensor \ {t} : tensor'[u] = tensor[u]
  BY <1>1, <1>2, ChangeFacts
<1>5. \A u \in Tensor : tensor'[u].size \in Seq(Nat)
  BY <1>3, <1>4 DEF Lists, ListsOf
<1>6. Only(th, frame, frame') /\ Only(th, pc, pc') /\ pc'[th] = "free"
  BY <1>1, OnlyItself DEF PerThread, Only
<1>7. ListsOf(f, "free")
  BY DEF Lists, ListsOf
<1>8. QED
  BY <1>1, <1>5, <1>6, <1>7, ListsStep

LEMMA resizeDimLists ==
  ASSUME Control, Data, Lists, NEW th \in Thread, resizeDim(th)
  PROVE  Lists'
<1> DEFINE f == frame[th]
           t == Target(th)
           y == tensor[t]
           stride == Contiguous(f.want)
           x == [y EXCEPT !.size = f.want, !.stride = stride]
<1>1. /\ Locals(f, "resize") /\ UNCHANGED frame
      /\ pc' = [pc EXCEPT ![th] = "done"] /\ PerThread(frame) /\ PerThread(pc)
  BY ControlAt DEF resizeDim, Goto
<1>2. t \in Tensor
  <2>1. f.rets \in Seq(Tensor) /\ f.i = 1 /\ Len(f.rets) = 1
    BY <1>1 DEF Locals, Place
  <2>2. QED
    BY <2>1 DEF Target
<1>3. Only(th, frame, frame') /\ Only(th, pc, pc') /\ pc'[th] = "done"
  BY <1>1, OnlyItself DEF PerThread, Only
<1>4. f.want \in Seq(Nat) /\ ListsOf(f, "done")
  BY DEF Lists, ListsOf
<1>5. CASE UNCHANGED mem
  BY <1>1, <1>3, <1>4, <1>5, ListsStep DEF mem, Lists
<1>6. CASE Change(th, t, x)
  <2>1. tensor'[t].size \in Seq(Nat)
    <3>1. PICK z : tensor' = [tensor EXCEPT ![t] = z] /\ z.size \in {y.size, f.want}
      <4>1. \A s : [x EXCEPT !.storage = s].size \in {y.size, f.want}
        BY DEF x
      <4>2. x.size \in {y.size, f.want}
        BY DEF x
      <4> HIDE DEF x
      <4>3. QED
        BY <1>6, <4>1, <4>2 DEF Change
    <3>2. tensor'[t] = z
      BY <3>1, <1>2 DEF Data, Results
    <3>3. QED
      BY <3>1, <3>2, <1>2, <1>4 DEF Lists
  <2> HIDE DEF t, x
  <2>2. \A u \in Tensor \ {t} : tensor'[u] = tensor[u]
    BY <1>2, <1>6, ChangeFacts
  <2>3. \A u \in Tensor : tensor'[u].size \in Seq(Nat)
    BY <2>1, <2>2 DEF Lists
  <2>4. QED
    BY <1>1, <1>3, <1>4, <2>3, ListsStep
<1>7. QED
  BY <1>5, <1>6 DEF resizeDim

\* A new result with the sizes that it was made with.
LEMMA CreateFacts ==
  ASSUME Control, Data, NEW th \in Thread, NEW size, newSized(th, size)
  PROVE  \E r \in Tensor \ (held \cup Private) :
           /\ tensor'[r].size = size
           /\ \A u \in Tensor \ {r} : tensor'[u] = tensor[u]
           /\ \A u \in Thread : calm'[u] => calm[u]
           /\ frame' = [frame EXCEPT ![th].rets = <<r>>]
           /\ before' = [before EXCEPT ![th][r] = tensor'[r]]
<1>1. PICK r \in Tensor \ (held \cup Private) :
        /\ Change(th, r, Sized(size))
        /\ frame' = [frame EXCEPT ![th].rets = <<r>>]
        /\ before' = [before EXCEPT ![th][r] = tensor'[r]]
  BY DEF newSized
<1>2. /\ \A u \in Tensor \ {r} : tensor'[u] = tensor[u]
      /\ \A u \in Thread : calm'[u] => calm[u]
  BY <1>1, ChangeFacts
<1>3. tensor'[r].size = size
  <2> DEFINE stride == Contiguous(size)
  <2>1. Change(th, r, [size |-> size, stride |-> stride, storage |-> NoObj, offset |-> 0])
    BY <1>1 DEF Sized
  <2> HIDE DEF stride
  <2>2. QED
    BY <2>1, ChangeSize
<1>4. QED
  BY <1>1, <1>2, <1>3

\* The locals of th with a result.
LEMMA WithResult ==
  ASSUME Control, NEW th \in Thread, NEW r, frame' = [frame EXCEPT ![th].rets = <<r>>]
  PROVE  /\ Only(th, frame, frame')
         /\ LET f == frame[th]
                g == frame'[th]
            IN  /\ g.op = f.op /\ g.ops = f.ops /\ g.want = f.want /\ g.read = f.read
                /\ g.i = f.i /\ g.rets = <<r>>
<1> DEFINE f == frame[th]
           g == [f EXCEPT !.rets = <<r>>]
<1>1. Only(th, frame, frame') /\ frame'[th] = g
  BY DEF Control, PerThread, Only
<1>2. Record(f)
  BY DEF Control, Locals
<1>3. /\ g.op = f.op /\ g.ops = f.ops /\ g.want = f.want /\ g.read = f.read /\ g.i = f.i
      /\ g.rets = <<r>>
  BY <1>2 DEF Record
<1> HIDE DEF g
<1>4. QED
  BY <1>1, <1>3

LEMMA createsLists ==
  ASSUME Control, Data, Lists, NEW th \in Thread,
         newExpandNew(th) \/ expand2dNew(th) \/ withEmptyNew(th)
  PROVE  Lists'
<1> DEFINE f == frame[th]
<1>1. PICK r \in Tensor \ (held \cup Private), p \in {"check", "done"} :
        /\ frame' = [frame EXCEPT ![th].rets = <<r>>]
        /\ tensor'[r].size \in Seq(Nat)
        /\ \A u \in Tensor \ {r} : tensor'[u] = tensor[u]
        /\ pc' = [pc EXCEPT ![th] = p]
  <2>1. CASE newExpandNew(th)
    <3>1. PICK r \in Tensor \ (held \cup Private) :
            /\ frame' = [frame EXCEPT ![th].rets = <<r>>]
            /\ tensor' = [tensor EXCEPT ![r] = NewTensor]
      BY <2>1 DEF newExpandNew
    <3>2. pc' = [pc EXCEPT ![th] = "check"]
      BY <2>1 DEF newExpandNew, Goto
    <3>3. tensor = [u \in Tensor |-> tensor[u]]
      BY DEF Data, Results
    <3>4. tensor'[r] = NewTensor /\ \A u \in Tensor \ {r} : tensor'[u] = tensor[u]
      BY <3>1, <3>3
    <3>5. NewTensor.size \in Seq(Nat)
      BY DEF NewTensor
    <3>6. QED
      BY <3>1, <3>2, <3>4, <3>5
  <2>2. CASE expand2dNew(th)
    <3>1. newSized(th, f.want) /\ pc' = [pc EXCEPT ![th] = "check"]
      BY <2>2 DEF expand2dNew, Goto
    <3>2. f.want \in Seq(Nat)
      BY DEF Lists, ListsOf
    <3>3. QED
      BY <3>1, <3>2, CreateFacts
  <2>3. CASE withEmptyNew(th)
    <3>1. newSized(th, f.read) /\ pc' = [pc EXCEPT ![th] = "done"] /\ f.op = "withEmpty"
      BY <2>3 DEF withEmptyNew, Goto
    <3>2. f.read \in Seq(Nat)
      BY <3>1 DEF Lists, ListsOf
    <3>3. QED
      BY <3>1, <3>2, CreateFacts
  <2>4. QED
    BY <2>1, <2>2, <2>3
<1>2. Only(th, frame, frame') /\ frame'[th].op = f.op /\ frame'[th].want = f.want
        /\ frame'[th].read = f.read
  BY <1>1, WithResult
<1>3. Only(th, pc, pc') /\ pc'[th] = p
  BY <1>1 DEF Control, PerThread, Only
<1>4. ListsOf(frame'[th], p)
  BY <1>1, <1>2 DEF Lists, ListsOf
<1>5. \A u \in Tensor : tensor'[u].size \in Seq(Nat)
  BY <1>1 DEF Lists
<1>6. QED
  BY <1>2, <1>3, <1>4, <1>5, ListsStep

\* Where a reading call is, its operand is its first tensor, which is held.
LEMMA SourceFacts ==
  ASSUME Control, Data, NEW th \in Thread, frame[th].op \in {"withEmpty", "tensordata", "resize"}
  PROVE  /\ Source(th) \in Range(frame[th].ops) /\ Source(th) \in held /\ Source(th) \in Tensor
         /\ frame[th].i = 1
<1> DEFINE f == frame[th]
<1>1. Locals(f, pc[th])
  BY DEF Control
<1>2. f.ops \in Seq(Tensor) /\ Len(f.ops) = 1 /\ f.i \in 1 .. Len(f.ops)
  BY <1>1 DEF Locals
<1>3. f.i = 1 /\ Source(th) \in Range(f.ops) /\ Source(th) \in Tensor
  BY <1>2 DEF Source, Range
<1>4. QED
  BY <1>3 DEF Data, Ownership, Owned

LEMMA readsLists ==
  ASSUME Control, Data, Lists, NEW th \in Thread,
         \/ getDimListRank(th) \/ getDimListSize(th)
         \/ getStorage(th) \/ tensordataLength(th) \/ tensordataPointer(th)
         \/ tensordataPeek(th) \/ resize(th)
  PROVE  Lists'
<1> DEFINE f == frame[th]
           x == tensor[Source(th)]
<1>1. /\ Locals(f, pc[th])
      /\ pc[th] \in {"dims", "size", "storage", "length", "data", "peek", "capacity"}
      /\ tensor' = tensor /\ PerThread(frame) /\ PerThread(pc)
  BY ControlAt DEF getDimListRank, getDimListSize, getStorage, tensordataLength,
                   tensordataPointer, tensordataPeek, resize, mem
<1>2. /\ Record(f)
      /\ pc[th] \in {"dims", "size"} => f.op = "withEmpty"
      /\ pc[th] \in {"length", "data", "peek"} => f.op = "tensordata"
  BY <1>1 DEF Locals, Place
<1>3. CASE getDimListRank(th)
  <2> DEFINE rank == Rank(x)
             g == [f EXCEPT !.limit = rank]
             p == IF rank = 0 THEN "new" ELSE "size"
  <2>1. frame' = [frame EXCEPT ![th] = g] /\ pc' = [pc EXCEPT ![th] = p]
        /\ p \in {"new", "size"}
    BY <1>3 DEF getDimListRank, Goto
  <2> HIDE DEF rank, p
  <2>2. g.op = f.op /\ g.want = f.want /\ g.read = f.read
    BY <1>2 DEF Record
  <2> HIDE DEF g
  <2>3. QED
    BY <1>1, <2>1, <2>2, ListsKept
<1>4. CASE getDimListSize(th)
  <2> DEFINE d == Len(f.read) + 1
             p == IF d = f.limit THEN "new" ELSE "size"
  <2>0. f.op = "withEmpty" /\ Source(th) \in Tensor
    BY <1>2, <1>4, SourceFacts DEF getDimListSize, At
  <2>1. f.read \in Seq(Nat) /\ f.want \in Seq(Nat) /\ x.size \in Seq(Nat)
    BY <2>0 DEF Lists, ListsOf
  <2>2. ASSUME NEW n \in Nat, NEW g, g.want = f.want, g.read = Append(f.read, n),
               frame' = [frame EXCEPT ![th] = g], pc' = [pc EXCEPT ![th] = p]
        PROVE  Lists'
    <3>1. p \in {"new", "size"}
      OBVIOUS
    <3> HIDE DEF p
    <3>2. Only(th, frame, frame') /\ frame'[th] = g /\ Only(th, pc, pc') /\ pc'[th] = p
      BY <1>1, <2>2 DEF PerThread, Only
    <3>3. ListsOf(g, p)
      BY <2>1, <2>2, <3>1 DEF ListsOf
    <3>4. QED
      BY <1>1, <3>2, <3>3, ListsStep DEF Lists
  <2>3. CASE d <= Len(x.size)
    <3> DEFINE n == x.size[d]
               read == Append(f.read, n)
               g == [f EXCEPT !.read = read]
    <3>1. n \in Nat
      <4>1. Len(f.read) \in Nat
        BY <2>1
      <4>2. d \in 1 .. Len(x.size)
        BY <2>1, <2>3, <4>1
      <4> DEFINE size == x.size
      <4>3. size \in Seq(Nat) /\ d \in 1 .. Len(size)
        BY <2>1, <4>2
      <4> HIDE DEF size, d
      <4>4. size[d] \in Nat
        BY <4>3
      <4>5. QED
        BY <4>4 DEF size
    <3>2. frame' = [frame EXCEPT ![th] = g] /\ pc' = [pc EXCEPT ![th] = p]
      BY <1>4, <2>3 DEF getDimListSize, Goto
    <3> HIDE DEF n, p
    <3>3. g.want = f.want /\ g.read = Append(f.read, n)
      BY <1>2 DEF Record
    <3> HIDE DEF g
    <3>4. QED
      BY <2>2, <3>1, <3>2, <3>3
  <2>4. CASE ~(d <= Len(x.size))
    <3>1. PICK n \in Junk : Error(th, [f EXCEPT !.read = Append(f.read, n), !.failed = "arg"], p)
      BY <1>4, <2>4 DEF getDimListSize
    <3> DEFINE read == Append(f.read, n)
               g == [f EXCEPT !.read = read, !.failed = "arg"]
    <3> HIDE DEF p
    <3>2. Error(th, g, p)
      BY <3>1
    <3>3. g.want = f.want /\ g.read = Append(f.read, n)
      <4> HIDE DEF read
      <4>1. g.want = f.want /\ g.read = read
        BY <1>2 DEF Record
      <4>2. QED
        BY <4>1 DEF read
    <3> HIDE DEF g
    <3>4. n \in Nat
      BY ConstantsOK
    <3>5. CASE UNCHANGED <<pc, frame>>
      BY <1>1, <3>5, ListsSame
    <3>6. CASE frame' = [frame EXCEPT ![th] = g] /\ pc' = [pc EXCEPT ![th] = p]
      BY <2>2, <3>3, <3>4, <3>6
    <3>7. QED
      BY <3>2, <3>5, <3>6 DEF Error, Goto
  <2>5. QED
    BY <2>3, <2>4
<1>5. ASSUME f.op = "tensordata", NEW p \in {"data", "peek"}, Only(th, frame, frame'),
             frame'[th].op = f.op, frame'[th].want = f.want, pc' = [pc EXCEPT ![th] = p]
      PROVE  Lists'
  <2>1. Only(th, pc, pc') /\ pc'[th] = p
    BY <1>1, <1>5 DEF PerThread, Only
  <2>2. ListsOf(frame'[th], p)
    BY <1>5 DEF Lists, ListsOf
  <2>3. QED
    BY <1>1, <1>5, <2>1, <2>2, ListsStep DEF Lists
<1>6. CASE tensordataLength(th)
  <2> DEFINE read == <<cap[f.storage]>>
             g == [f EXCEPT !.read = read]
  <2>1. Only(th, frame, frame') /\ frame'[th] = g /\ pc' = [pc EXCEPT ![th] = "data"]
    BY <1>1, <1>6 DEF tensordataLength, Goto, PerThread, Only
  <2> HIDE DEF read
  <2>2. g.op = f.op /\ g.want = f.want
    BY <1>2 DEF Record
  <2>3. f.op = "tensordata"
    BY <1>2, <1>6 DEF tensordataLength, At
  <2> HIDE DEF g
  <2>4. QED
    BY <1>5, <2>1, <2>2, <2>3
<1>7. CASE tensordataPointer(th)
  <2> DEFINE storage == x.storage
             offset == x.offset
             g == [f EXCEPT !.storage = storage, !.offset = offset]
  <2>1. Only(th, frame, frame') /\ frame'[th] = g /\ pc' = [pc EXCEPT ![th] = "peek"]
    BY <1>1, <1>7 DEF tensordataPointer, Goto, PerThread, Only
  <2> HIDE DEF offset, storage
  <2>2. g.op = f.op /\ g.want = f.want
    BY <1>2 DEF Record
  <2>3. f.op = "tensordata"
    BY <1>2, <1>7 DEF tensordataPointer, At
  <2> HIDE DEF g
  <2>4. QED
    BY <1>5, <2>1, <2>2, <2>3
<1>8. CASE tensordataPeek(th) \/ resize(th)
  BY <1>1, <1>8, ListsPlace DEF tensordataPeek, resize, Goto
<1>9. CASE getStorage(th)
  <2> DEFINE s == x.storage
             g == [f EXCEPT !.storage = s]
             p == IF f.op = "resize" THEN "capacity" ELSE "length"
  <2>1. \/ UNCHANGED <<pc, frame>>
        \/ frame' = [frame EXCEPT ![th] = g] /\ pc' = [pc EXCEPT ![th] = p]
    BY <1>9 DEF getStorage, Goto
  <2> HIDE DEF s
  <2>2. g.op = f.op /\ g.want = f.want /\ g.read = f.read
    BY <1>2 DEF Record
  <2>3. p \notin {"ndCheck", "ndTake", "ndInfer"}
    OBVIOUS
  <2> HIDE DEF g, p
  <2>4. QED
    BY <1>1, <2>1, <2>2, <2>3, ListsSame, ListsKept
<1>10. QED
  BY <1>3, <1>4, <1>6, <1>7, <1>8, <1>9

LEMMA SizeListIsList == \A size \in SizeList : size \in Seq(Nat)
<1> SUFFICES ASSUME NEW size \in SizeList PROVE size \in Seq(Nat)
  OBVIOUS
<1>1. size \in Seq(Nat \ {0})
  BY DEF SizeList
<1>2. \A d \in 1 .. Len(size) : size[d] \in Nat
  BY <1>1
<1>3. QED
  BY <1>1, <1>2

LEMMA BeginLists ==
  ASSUME Control, Lists, NEW th \in Thread, Begin(th)
  PROVE  Lists'
<1>1. PICK c \in CallsOf[th] :
        /\ frame' = [frame EXCEPT ![th] = [Idle EXCEPT !.op = c.op, !.rets = c.rets,
                                                       !.ops = c.ops, !.want = c.want]]
        /\ pc' = [pc EXCEPT ![th] = Entry(c.op)]
  BY DEF Begin, Goto
<1> DEFINE g == [Idle EXCEPT !.op = c.op, !.rets = c.rets, !.ops = c.ops, !.want = c.want]
           p == Entry(c.op)
<1>2. g.want = c.want /\ g.read = <<>> /\ p \notin {"ndTake", "ndInfer"}
  BY CallFacts
<1>3. Only(th, frame, frame') /\ frame'[th] = g /\ Only(th, pc, pc') /\ pc'[th] = p
  BY <1>1 DEF Control, PerThread, Only
<1> HIDE DEF g, p
<1>4. c.want \in Seq(Nat)
  <2>1. c \in Call
    BY ConstantsOK
  <2>2. c.want \in SizeList \cup {<<>>}
    <3>1. ASSUME NEW S, NEW R, NEW O, NEW W,
                 c \in [op : S, rets : R, ops : O, want : W]
          PROVE  c.want \in W
      BY <3>1
    <3>2. \/ c \in [op : {"newExpand"}, rets : {<<>>}, ops : One, want : SizeList]
          \/ c \in [op : {"_expand"}, rets : One, ops : One, want : SizeList]
          \/ c \in [op : {"expand2d"}, rets : {<<>>}, ops : One,
                      want : {w \in SizeList : Len(w) = 2}]
          \/ c \in [op : {"_expandNd"}, rets : Seq(Tensor), ops : Seq(Tensor), want : {<<>>}]
          \/ c \in [op : {"withEmpty"}, rets : {<<>>}, ops : One, want : {<<>>}]
          \/ c \in [op : {"tensordata"}, rets : {<<>>}, ops : One, want : {<<>>}]
          \/ c \in [op : {"_resizeDim"}, rets : One, ops : {<<>>}, want : SizeList]
          \/ c \in [op : {"resize"}, rets : {<<>>}, ops : One,
                      want : {w \in SizeList : Len(w) = 1}]
      BY <2>1 DEF Call
    <3>3. \/ c.want \in SizeList \/ c.want \in {w \in SizeList : Len(w) = 2}
          \/ c.want \in {w \in SizeList : Len(w) = 1} \/ c.want \in {<<>>}
      BY <3>1, <3>2
    <3>4. QED
      BY <3>3
  <2>3. <<>> \in Seq(Nat)
    OBVIOUS
  <2>4. QED
    BY <2>2, <2>3, SizeListIsList
<1>5. <<>> \in Seq(Nat)
  OBVIOUS
<1>6. ListsOf(g, p)
  BY <1>2, <1>4, <1>5 DEF ListsOf
<1>7. QED
  BY <1>3, <1>6, ListsStep DEF Lists, Begin

LEMMA ReturnLists ==
  ASSUME Control, Lists, NEW th \in Thread, Return(th)
  PROVE  Lists'
<1>1. /\ Only(th, frame, frame') /\ frame'[th] = Idle /\ Only(th, pc, pc') /\ pc'[th] = "idle"
      /\ tensor' = tensor
  BY DEF Return, Goto, mem, Control, PerThread, Only
<1>2. ListsOf(Idle, "idle")
  BY DEF ListsOf, Idle
<1>3. QED
  BY <1>1, <1>2, ListsStep DEF Lists

LEMMA NextLists ==
  ASSUME Control, Data, Lists, NEW th \in Thread, Begin(th) \/ Continue(th)
  PROVE  Lists'
BY NextCases, BeginLists, createsLists, expandLists, expandSetLists, expandNdLists,
   readsLists, resizeDimLists, ReturnLists DEF Expansion

-----------------------------------------------------------------------------
(***************************************************************************)
(* What withEmpty has read so far, as long as no other thread changed its  *)
(* operand.                                                                *)
(***************************************************************************)
ReadSoFar(th) ==
  LET f    == frame[th]
      size == tensor[Source(th)].size
  IN  f.op = "withEmpty" /\ calm[th] =>
        /\ size = before[th][Source(th)].size
        /\ pc[th] = "dims" => f.read = <<>>
        /\ pc[th] = "size" => /\ f.limit = Len(size) /\ Len(f.read) < Len(size)
                              /\ \A d \in 1 .. Len(f.read) : f.read[d] = size[d]
        /\ pc[th] = "new"  => f.read = size
        /\ pc[th] = "done" => /\ Len(f.rets) = 1
                              /\ tensor[Target(th)].size = size

\* The inductive invariant, together with Control and Data.
Reading == Lists /\ \A th \in Thread : ReadSoFar(th)

\* A step of another thread that u would notice if it changed u's tensors.
LEMMA OthersRead ==
  ASSUME Control, Data, NEW u \in Thread, ReadSoFar(u),
         frame'[u] = frame[u], pc'[u] = pc[u], before'[u] = before[u],
         calm'[u] => calm[u] /\ \A t \in Uses(u) : tensor'[t] = tensor[t]
  PROVE  ReadSoFar(u)'
<1> DEFINE f == frame[u]
<1>1. CASE ~(f.op = "withEmpty" /\ calm'[u])
  BY <1>1 DEF ReadSoFar
<1>2. CASE f.op = "withEmpty" /\ calm'[u]
  <2>1. Source(u) \in Uses(u) /\ f.i = 1
    BY <1>2, SourceFacts DEF Uses
  <2>2. Len(f.rets) = 1 => Target(u) \in Uses(u)
    <3>1. f.rets \in Seq(Tensor)
      BY DEF Control, Locals
    <3>2. QED
      BY <2>1, <3>1 DEF Target, Uses, Range
  <2>3. Source(u)' = Source(u) /\ Target(u)' = Target(u)
    BY DEF Source, Target
  <2> DEFINE s == Source(u)
             t == Target(u)
  <2>4. tensor'[s] = tensor[s] /\ (Len(f.rets) = 1 => tensor'[t] = tensor[t])
    BY <1>2, <2>1, <2>2
  <2>5. calm[u]
    BY <1>2
  <2>6. QED
    BY <1>2, <2>3, <2>4, <2>5 DEF ReadSoFar
<1>3. QED
  BY <1>1, <1>2

\* A step of th that leaves the tensors alone.
LEMMA ReadingQuiet ==
  ASSUME Control, Data, Reading, NEW th \in Thread, Quiet(th), Lists',
         frame'[th].op = "withEmpty" => ReadSoFar(th)'
  PROVE  Reading'
<1>1. \A u \in Thread \ {th} : frame'[u] = frame[u] /\ pc'[u] = pc[u]
  BY DEF Quiet, SameCall, Only
<1>2. UNCHANGED <<tensor, calm, before>>
  BY DEF Quiet
<1>3. \A u \in Thread : ReadSoFar(u)'
  <2> TAKE u \in Thread
  <2>1. CASE u # th
    BY <1>1, <1>2, <2>1, OthersRead DEF Reading
  <2>2. CASE u = th /\ frame'[th].op # "withEmpty"
    BY <2>2 DEF ReadSoFar
  <2>3. QED
    BY <2>1, <2>2
<1>4. QED
  BY <1>3 DEF Reading

\* A step of th that changes one tensor of its call.
LEMMA ReadingChange ==
  ASSUME Control, Data, Reading, NEW th \in Thread, NEW t \in Tensor, NEW x, NEW p,
         Change(th, t, x), UNCHANGED <<frame, before>>, pc' = [pc EXCEPT ![th] = p],
         frame[th].op # "withEmpty", Lists'
  PROVE  Reading'
<1>1. \A u \in Thread \ {th} : frame'[u] = frame[u] /\ pc'[u] = pc[u] /\ before'[u] = before[u]
  BY DEF Control, PerThread
<1>2. /\ \A u \in Tensor \ {t} : tensor'[u] = tensor[u]
      /\ \A u \in Thread : calm'[u] => calm[u] /\ (u = th \/ t \notin Uses(u))
  BY ChangeFacts
<1>3. \A u \in Thread : Uses(u) \subseteq Tensor
  BY DEF Uses, Control, Locals, Range
<1>4. \A u \in Thread : ReadSoFar(u)'
  <2> TAKE u \in Thread
  <2>1. CASE u # th
    <3>1. calm'[u] => calm[u] /\ \A s \in Uses(u) : tensor'[s] = tensor[s]
      BY <1>2, <1>3, <2>1
    <3>2. QED
      BY <1>1, <2>1, <3>1, OthersRead DEF Reading
  <2>2. CASE u = th
    BY <2>2 DEF ReadSoFar
  <2>3. QED
    BY <2>1, <2>2
<1>5. QED
  BY <1>4 DEF Reading

\* A step of th that makes its result r: a tensor that nobody uses.
LEMMA ReadingCreate ==
  ASSUME Control, Data, Reading, NEW th \in Thread, NEW r \in Tensor \ (held \cup Private), NEW p,
         \A u \in Tensor \ {r} : tensor'[u] = tensor[u],
         \A u \in Thread : calm'[u] => calm[u],
         frame' = [frame EXCEPT ![th].rets = <<r>>],
         \A u \in Thread \ {th} : before'[u] = before[u], pc' = [pc EXCEPT ![th] = p],
         Lists',
         frame[th].op = "withEmpty" => ReadSoFar(th)'
  PROVE  Reading'
<1>1. \A u \in Thread \ {th} : frame'[u] = frame[u] /\ pc'[u] = pc[u]
  BY WithResult DEF Only, Control, PerThread
<1>2. frame'[th].op = frame[th].op
  BY WithResult
<1>3. ASSUME NEW u \in Thread, NEW t \in Uses(u)
      PROVE  tensor'[t] = tensor[t]
  <2>1. t \in Tensor
    BY DEF Uses, Control, Locals, Range
  <2>2. t # r
    BY DEF Uses, Private, Data, Ownership, Owned
  <2>3. QED
    BY <2>1, <2>2
<1>4. \A u \in Thread : ReadSoFar(u)'
  <2> TAKE u \in Thread
  <2>1. CASE u # th
    BY <1>1, <1>3, <2>1, OthersRead DEF Reading
  <2>2. CASE u = th /\ frame[th].op # "withEmpty"
    BY <1>2, <2>2 DEF ReadSoFar
  <2>3. QED
    BY <2>1, <2>2
<1>5. QED
  BY <1>4 DEF Reading

\* The rank is read.
LEMMA RankRead ==
  ASSUME Control, Data, Reading, NEW th \in Thread, getDimListRank(th)
  PROVE  ReadSoFar(th)'
<1> DEFINE f == frame[th]
           size == tensor[Source(th)].size
           rank == Len(size)
           g == [f EXCEPT !.limit = rank]
           p == IF rank = 0 THEN "new" ELSE "size"
<1>1. /\ pc[th] = "dims" /\ Locals(f, "dims") /\ PerThread(frame) /\ PerThread(pc)
      /\ UNCHANGED <<tensor, calm, before>>
  BY ControlAt DEF getDimListRank, mem
<1>2. frame'[th] = g /\ pc'[th] = p
  BY <1>1 DEF getDimListRank, Goto, Rank, PerThread
<1>3. f.op = "withEmpty" /\ Record(f)
  BY <1>1 DEF Locals, Place
<1>4. size \in Seq(Nat)
  BY <1>3, SourceFacts DEF Reading, Lists
<1> HIDE DEF rank
<1>5. g.op = f.op /\ g.ops = f.ops /\ g.i = f.i /\ g.read = f.read /\ g.limit = rank
  BY <1>3 DEF Record
<1> HIDE DEF g
<1>6. Source(th)' = Source(th)
  BY <1>2, <1>5 DEF Source
<1>7. calm[th] => f.read = <<>> /\ size = before[th][Source(th)].size
  BY <1>1, <1>3 DEF Reading, ReadSoFar
<1>8. rank \in Nat /\ (rank = 0 => size = <<>>)
  BY <1>4 DEF rank
<1>9. CASE rank = 0
  BY <1>1, <1>2, <1>5, <1>6, <1>7, <1>8, <1>9 DEF ReadSoFar
<1>10. CASE rank # 0
  <2>1. pc'[th] = "size" /\ Len(<<>>) = 0 /\ rank > 0
    BY <1>2, <1>8, <1>10
  <2>2. QED
    BY <1>1, <1>2, <1>5, <1>6, <1>7, <2>1 DEF ReadSoFar, rank
<1>11. QED
  BY <1>9, <1>10

LEMMA SameList ==
  ASSUME NEW a \in Seq(Nat), NEW b \in Seq(Nat), Len(a) = Len(b),
         \A d \in 1 .. Len(a) : a[d] = b[d]
  PROVE  a = b
OBVIOUS

\* A prefix of a list, with the next element.
LEMMA LongerPrefix ==
  ASSUME NEW a \in Seq(Nat), NEW b \in Seq(Nat), Len(a) < Len(b),
         \A d \in 1 .. Len(a) : a[d] = b[d], NEW c, c = Append(a, b[Len(a) + 1])
  PROVE  /\ c \in Seq(Nat) /\ Len(c) = Len(a) + 1
         /\ \A d \in 1 .. Len(c) : c[d] = b[d]
<1>1. Len(a) \in Nat /\ Len(a) + 1 \in 1 .. Len(b)
  OBVIOUS
<1>2. b[Len(a) + 1] \in Nat
  BY <1>1
<1>3. c \in Seq(Nat) /\ Len(c) = Len(a) + 1
  BY <1>2
<1>4. ASSUME NEW d \in 1 .. Len(a) + 1
      PROVE  c[d] = b[d]
  <2>1. CASE d = Len(a) + 1
    BY <1>2, <2>1
  <2>2. CASE d # Len(a) + 1
    <3>1. d \in 1 .. Len(a)
      BY <1>1, <2>2
    <3>2. QED
      BY <1>2, <3>1
  <2>3. QED
    BY <2>1, <2>2
<1>5. QED
  BY <1>3, <1>4

\* One more size is read.
LEMMA SizeRead ==
  ASSUME Control, Data, Reading, NEW th \in Thread, getDimListSize(th)
  PROVE  ReadSoFar(th)'
<1> DEFINE f == frame[th]
           size == tensor[Source(th)].size
           d == Len(f.read) + 1
           p == IF d = f.limit THEN "new" ELSE "size"
<1>1. /\ pc[th] = "size" /\ Locals(f, "size") /\ PerThread(frame) /\ PerThread(pc)
      /\ UNCHANGED <<tensor, calm, before>>
  BY ControlAt DEF getDimListSize, mem
<1>2. f.op = "withEmpty" /\ Record(f)
  BY <1>1 DEF Locals, Place
<1>3. size \in Seq(Nat) /\ f.read \in Seq(Nat)
  BY <1>2, SourceFacts DEF Reading, Lists, ListsOf
<1>4. CASE ~calm[th]
  BY <1>1, <1>4 DEF ReadSoFar
<1>5. CASE calm[th]
  <2>1. /\ size = before[th][Source(th)].size
        /\ f.limit = Len(size) /\ Len(f.read) < Len(size)
        /\ \A e \in 1 .. Len(f.read) : f.read[e] = size[e]
    BY <1>1, <1>2, <1>5 DEF Reading, ReadSoFar
  <2>2. d <= Len(size)
    BY <1>3, <2>1
  <2> DEFINE n == size[d]
             read == Append(f.read, n)
             g == [f EXCEPT !.read = read]
  <2>3. frame'[th] = g /\ pc'[th] = p
    BY <1>1, <2>2 DEF getDimListSize, Goto, PerThread
  <2>4. read \in Seq(Nat) /\ Len(read) = d /\ \A e \in 1 .. Len(read) : read[e] = size[e]
    <3> DEFINE a == f.read
               b == size
    <3>1. /\ a \in Seq(Nat) /\ b \in Seq(Nat) /\ Len(a) < Len(b)
          /\ \A e \in 1 .. Len(a) : a[e] = b[e]
      BY <1>3, <2>1
    <3>2. read = Append(a, b[Len(a) + 1])
      OBVIOUS
    <3> HIDE DEF a, b, read
    <3>3. read \in Seq(Nat) /\ Len(read) = Len(a) + 1 /\ \A e \in 1 .. Len(read) : read[e] = b[e]
      BY <3>1, <3>2, LongerPrefix
    <3>4. QED
      BY <3>3 DEF a, b
  <2> HIDE DEF read
  <2>5. g.op = f.op /\ g.ops = f.ops /\ g.i = f.i /\ g.read = read /\ g.limit = f.limit
    BY <1>2 DEF Record
  <2> HIDE DEF g
  <2>6. Source(th)' = Source(th)
    BY <2>3, <2>5 DEF Source
  <2>7. CASE d = f.limit
    <3>1. read = size
      BY <1>3, <2>1, <2>4, <2>7, SameList
    <3>2. pc'[th] = "new"
      BY <2>3, <2>7
    <3>3. QED
      BY <1>1, <2>1, <2>3, <2>5, <2>6, <3>1, <3>2 DEF ReadSoFar
  <2>8. CASE d # f.limit
    <3>1. pc'[th] = "size"
      BY <2>3, <2>8
    <3>2. Len(read) < Len(size)
      BY <1>3, <2>1, <2>2, <2>4, <2>8
    <3>3. QED
      BY <1>1, <2>1, <2>3, <2>4, <2>5, <2>6, <3>1, <3>2 DEF ReadSoFar
  <2>9. QED
    BY <2>7, <2>8
<1>6. QED
  BY <1>4, <1>5 DEF Data, Results

LEMMA readsReading ==
  ASSUME Control, Data, Reading, NEW th \in Thread,
         \/ getDimListRank(th) \/ getDimListSize(th)
         \/ getStorage(th) \/ tensordataLength(th) \/ tensordataPointer(th)
         \/ tensordataPeek(th) \/ resize(th)
  PROVE  Reading'
<1>1. Quiet(th) /\ Lists'
  BY readsQuiet, readsLists DEF Reading
<1>2. frame'[th].op = frame[th].op
  BY <1>1 DEF Quiet, SameCall
<1>3. CASE getDimListRank(th) \/ getDimListSize(th)
  BY <1>1, <1>3, RankRead, SizeRead, ReadingQuiet
<1>4. CASE \/ getStorage(th) \/ tensordataLength(th) \/ tensordataPointer(th)
           \/ tensordataPeek(th) \/ resize(th)
  <2>1. /\ pc[th] \in {"storage", "length", "data", "peek", "capacity"}
        /\ Locals(frame[th], pc[th])
    BY <1>4, ControlAt DEF getStorage, tensordataLength, tensordataPointer, tensordataPeek,
                           resize
  <2>2. frame[th].op # "withEmpty"
    BY <2>1 DEF Locals, Place
  <2>3. QED
    BY <1>1, <1>2, <2>2, ReadingQuiet
<1>5. QED
  BY <1>3, <1>4

\* expand reads with other means.
LEMMA expandReading ==
  ASSUME Control, Data, Reading, NEW th \in Thread,
         \/ Expansion(th)
         \/ expandNdCheck(th) \/ expandNdTake(th) \/ expandNdInfer(th) \/ expandNdFree(th)
  PROVE  Reading'
<1>1. Quiet(th) /\ Lists'
  BY expandCheckQuiet, expandReadsQuiet, expandInferQuiet, expandFreeQuiet, expandNdQuiet,
     expandLists, expandNdLists DEF Reading, Expansion
<1>2. /\ pc[th] \in {"check", "rank", "geometry", "infer", "args", "free",
                     "ndCheck", "ndTake", "ndInfer", "ndFree"}
      /\ Locals(frame[th], pc[th])
  BY ControlAt, expandKeeps DEF expandNdCheck, expandNdTake, expandNdInfer, expandNdFree
<1>3. frame[th].op # "withEmpty"
  BY <1>2 DEF Locals, Place
<1>4. frame'[th].op = frame[th].op
  BY <1>1 DEF Quiet, SameCall
<1>5. QED
  BY <1>1, <1>3, <1>4, ReadingQuiet

LEMMA changesReading ==
  ASSUME Control, Data, Reading, NEW th \in Thread, expandSet(th) \/ resizeDim(th)
  PROVE  Reading'
<1> DEFINE f == frame[th]
           t == Target(th)
<1>1. /\ pc[th] \in {"set", "resize"} /\ Locals(f, pc[th]) /\ UNCHANGED <<frame, before>>
  BY ControlAt DEF expandSet, resizeDim
<1>2. f.op # "withEmpty"
  BY <1>1 DEF Locals, Place
<1>3. t \in Tensor
  <2>1. f.rets \in Seq(Tensor)
    BY <1>1 DEF Locals
  <2>2. f.i \in 1 .. Len(f.rets)
    <3>1. CASE pc[th] = "set"
      BY <1>1, <3>1 DEF Locals, Place
    <3>2. CASE pc[th] = "resize"
      <4>1. f.i = 1 /\ Len(f.rets) = 1
        BY <1>1, <3>2 DEF Locals, Place
      <4>2. QED
        BY <4>1
    <3>3. QED
      BY <1>1, <3>1, <3>2
  <2>3. QED
    BY <2>1, <2>2 DEF Target
<1>4. Lists'
  BY expandSetLists, resizeDimLists DEF Reading
<1>5. PICK p \in {"free", "done"} : pc' = [pc EXCEPT ![th] = p]
  BY DEF expandSet, resizeDim, Goto
<1> HIDE DEF t
<1>6. CASE \E x : Change(th, t, x)
  BY <1>1, <1>2, <1>3, <1>4, <1>5, <1>6, ReadingChange
<1>7. CASE UNCHANGED mem
  <2>1. \A u \in Thread \ {th} : frame'[u] = frame[u] /\ pc'[u] = pc[u]
    BY <1>1, <1>5 DEF Control, PerThread
  <2>2. \A u \in Thread \ {th} : ReadSoFar(u)'
    BY <1>1, <1>7, <2>1, OthersRead DEF Reading, mem
  <2>3. ReadSoFar(th)'
    BY <1>1, <1>2 DEF ReadSoFar
  <2>4. QED
    BY <1>4, <2>2, <2>3 DEF Reading
<1>8. QED
  BY <1>6, <1>7 DEF expandSet, resizeDim, t

\* withEmpty's result has the sizes that were read.
LEMMA withEmptyReading ==
  ASSUME Control, Data, Reading, NEW th \in Thread, withEmptyNew(th)
  PROVE  Reading'
<1> DEFINE f == frame[th]
           s == Source(th)
<1>1. pc[th] = "new" /\ f.op = "withEmpty" /\ newSized(th, f.read)
      /\ pc' = [pc EXCEPT ![th] = "done"]
  BY DEF withEmptyNew, At, Goto
<1>2. PICK r \in Tensor \ (held \cup Private) :
        /\ tensor'[r].size = f.read
        /\ \A u \in Tensor \ {r} : tensor'[u] = tensor[u]
        /\ \A u \in Thread : calm'[u] => calm[u]
        /\ frame' = [frame EXCEPT ![th].rets = <<r>>]
        /\ before' = [before EXCEPT ![th][r] = tensor'[r]]
  BY <1>1, CreateFacts
<1>3. LET g == frame'[th]
      IN  g.op = f.op /\ g.ops = f.ops /\ g.i = f.i /\ g.rets = <<r>>
  BY <1>2, WithResult
<1>4. s \in held /\ s \in Tensor /\ f.i = 1 /\ s # r
  BY <1>1, <1>2, SourceFacts
<1>5. Source(th)' = s /\ Target(th)' = r
  BY <1>3, <1>4 DEF Source, Target
<1>6. /\ PerThread(before) /\ before[th] = [u \in Tensor |-> before[th][u]]
      /\ PerThread(pc)
  BY DEF Data, Results, Control
<1>7. /\ \A u \in Thread \ {th} : before'[u] = before[u]
      /\ before'[th][s] = before[th][s] /\ pc'[th] = "done"
  BY <1>1, <1>2, <1>4, <1>6 DEF PerThread
<1>8. tensor'[s] = tensor[s]
  BY <1>2, <1>4
<1>9. calm[th] => f.read = tensor[s].size /\ tensor[s].size = before[th][s].size
  BY <1>1 DEF Reading, ReadSoFar
<1>10. Lists'
  BY createsLists DEF Reading
<1> HIDE DEF s
<1>11. ReadSoFar(th)'
  BY <1>2, <1>3, <1>5, <1>7, <1>8, <1>9 DEF ReadSoFar
<1>12. QED
  BY <1>1, <1>2, <1>7, <1>10, <1>11, ReadingCreate

LEMMA createsReading ==
  ASSUME Control, Data, Reading, NEW th \in Thread, newExpandNew(th) \/ expand2dNew(th)
  PROVE  Reading'
<1>1. frame[th].op # "withEmpty" /\ Lists'
  BY createsLists DEF newExpandNew, expand2dNew, Reading
<1>2. PICK r \in Tensor \ (held \cup Private) :
        /\ \A u \in Tensor \ {r} : tensor'[u] = tensor[u]
        /\ \A u \in Thread : calm'[u] => calm[u]
        /\ frame' = [frame EXCEPT ![th].rets = <<r>>]
        /\ \A u \in Thread \ {th} : before'[u] = before[u]
  <2>0. PerThread(before) /\ tensor = [u \in Tensor |-> tensor[u]]
    BY DEF Data, Results
  <2>1. CASE newExpandNew(th)
    <3>1. PICK r \in Tensor \ (held \cup Private) :
            /\ frame' = [frame EXCEPT ![th].rets = <<r>>]
            /\ tensor' = [tensor EXCEPT ![r] = NewTensor]
            /\ before' = [before EXCEPT ![th][r] = NewTensor]
      BY <2>1 DEF newExpandNew
    <3>2. /\ \A u \in Tensor \ {r} : tensor'[u] = tensor[u]
          /\ \A u \in Thread \ {th} : before'[u] = before[u]
      BY <2>0, <3>1 DEF PerThread
    <3>3. calm' = calm
      BY <2>1 DEF newExpandNew
    <3>4. QED
      BY <3>1, <3>2, <3>3
  <2>2. CASE expand2dNew(th)
    <3>1. PICK r \in Tensor \ (held \cup Private) :
            /\ \A u \in Tensor \ {r} : tensor'[u] = tensor[u]
            /\ \A u \in Thread : calm'[u] => calm[u]
            /\ frame' = [frame EXCEPT ![th].rets = <<r>>]
            /\ before' = [before EXCEPT ![th][r] = tensor'[r]]
      BY <2>2, CreateFacts DEF expand2dNew
    <3>2. \A u \in Thread \ {th} : before'[u] = before[u]
      BY <2>0, <3>1 DEF PerThread
    <3>3. QED
      BY <3>1, <3>2
  <2>3. QED
    BY <2>1, <2>2
<1>3. pc' = [pc EXCEPT ![th] = "check"]
  BY DEF newExpandNew, expand2dNew, Goto
<1>4. QED
  BY <1>1, <1>2, <1>3, ReadingCreate

\* A call begins with nothing read and a look at the tensors, and ends.
LEMMA BeginReading ==
  ASSUME Control, Data, Reading, NEW th \in Thread, Begin(th)
  PROVE  Reading'
<1>1. PICK c \in CallsOf[th] :
        /\ frame' = [frame EXCEPT ![th] = [Idle EXCEPT !.op = c.op, !.rets = c.rets,
                                                       !.ops = c.ops, !.want = c.want]]
        /\ pc' = [pc EXCEPT ![th] = Entry(c.op)]
  BY DEF Begin, Goto
<1> DEFINE g == [Idle EXCEPT !.op = c.op, !.rets = c.rets, !.ops = c.ops, !.want = c.want]
<1>2. g.op = c.op /\ g.read = <<>>
  BY CallFacts
<1>3. PerThread(frame) /\ PerThread(pc) /\ PerThread(calm) /\ PerThread(before)
  BY DEF Control, Data, Results
<1>4. /\ frame'[th] = g /\ before'[th] = tensor /\ pc'[th] = Entry(c.op)
      /\ \A u \in Thread \ {th} : /\ frame'[u] = frame[u] /\ pc'[u] = pc[u]
                                  /\ calm'[u] = calm[u] /\ before'[u] = before[u]
      /\ tensor' = tensor
  BY <1>1, <1>3 DEF Begin, PerThread
<1> HIDE DEF g
<1>5. c.op = "withEmpty" => Entry(c.op) = "dims"
  BY DEF Entry
<1>6. ReadSoFar(th)'
  BY <1>2, <1>4, <1>5 DEF ReadSoFar
<1>7. \A u \in Thread \ {th} : ReadSoFar(u)'
  BY <1>4, OthersRead DEF Reading
<1>8. QED
  BY <1>6, <1>7, BeginLists DEF Reading

LEMMA ReturnReading ==
  ASSUME Control, Data, Reading, NEW th \in Thread, Return(th)
  PROVE  Reading'
<1>1. /\ frame'[th] = Idle
      /\ \A u \in Thread \ {th} : frame'[u] = frame[u] /\ pc'[u] = pc[u]
      /\ UNCHANGED <<tensor, calm, before>>
  BY DEF Return, Goto, Control, PerThread, mem
<1>2. ReadSoFar(th)'
  BY <1>1 DEF ReadSoFar, Idle
<1>3. \A u \in Thread \ {th} : ReadSoFar(u)'
  BY <1>1, OthersRead DEF Reading
<1>4. QED
  BY <1>2, <1>3, ReturnLists DEF Reading

-----------------------------------------------------------------------------
LEMMA InitReading == Init => Reading
<1> SUFFICES ASSUME Init PROVE Reading
  OBVIOUS
<1>1. PICK start \in Start : tensor = start.tensor
  BY DEF Init
<1>2. \A t \in Tensor : tensor[t].size \in SizeList
  BY <1>1, StartOK DEF AllTensors
<1>3. \A t \in Tensor : tensor[t].size \in Seq(Nat)
  BY <1>2, SizeListIsList
<1>4. \A th \in Thread : frame[th] = Idle /\ pc[th] = "idle"
  BY DEF Init
<1>5. <<>> \in Seq(Nat)
  OBVIOUS
<1>6. ListsOf(Idle, "idle") /\ Idle.op = "none"
  BY <1>5 DEF ListsOf, Idle
<1>7. Lists
  BY <1>3, <1>4, <1>6 DEF Lists
<1>8. \A th \in Thread : ReadSoFar(th)
  BY <1>4, <1>6 DEF ReadSoFar
<1>9. QED
  BY <1>7, <1>8 DEF Reading

LEMMA NextReading == Control /\ Data /\ Reading /\ [Next]_vars => Reading'
<1> SUFFICES ASSUME Control, Data, Reading, [Next]_vars PROVE Reading'
  OBVIOUS
<1>1. CASE UNCHANGED vars
  BY <1>1 DEF vars, Reading, Lists, ReadSoFar, Source, Target
<1>2. ASSUME NEW th \in Thread, Begin(th) \/ Continue(th)
      PROVE  Reading'
  BY <1>2, NextCases, BeginReading, createsReading, withEmptyReading, expandReading,
     changesReading, readsReading, ReturnReading DEF Expansion
<1>3. QED
  BY <1>1, <1>2 DEF Next

\* A shape that is read with one call per dimension (getDims) is the tensor's, and
\* the result of withEmpty has it, unless another thread resized the tensor meanwhile.
THEOREM ShapeIsRead == Spec => []ReadShape
<1>1. Init => Control /\ Data /\ Reading
  BY InitControl, InitData, InitReading
<1>2. Control /\ Data /\ Reading /\ [Next]_vars => (Control /\ Data /\ Reading)'
  BY NextControl, NextData, NextReading
<1>3. Reading => ReadShape
  BY DEF Reading, ReadSoFar, ReadShape
<1>4. QED
  BY <1>1, <1>2, <1>3, PTL DEF Spec

-----------------------------------------------------------------------------
(***************************************************************************)
(* expandNd up to where it is, as long as no other thread changed its      *)
(* tensors: nothing is changed before the common sizes are found, and then *)
(* every operand can be expanded to them.  The pointers that C has are     *)
(* those of the operands, in every expand.                                 *)
(***************************************************************************)
ExpandedSoFar(th) ==
  LET f    == frame[th]
      p    == pc[th]
      Same == \A r \in Range(f.rets) : tensor[r] = before[th][r]
  IN  /\ calm[th] /\ p = "infer" => moved[th] = {}
      /\ f.op = "_expandNd" /\ calm[th] =>
           /\ p \in {"ndCheck", "ndTake", "ndInfer"} => Same /\ moved[th] = {}
           /\ p \in {"check", "rank", "geometry", "infer", "args", "set", "free"} =>
                \A t \in Range(f.ops) : Expandable(tensor[t].size, f.want)
           /\ f.failed = "infer" => p = "done" /\ Same

Expanding == PerThread(moved) /\ \A th \in Thread : ExpandedSoFar(th)

\* A size can be expanded to itself.
LEMMA ExpandableItself == \A size : Expandable(size, size)
BY DEF Expandable

\* A step of th that another thread would notice if it changed its tensors.
LEMMA ExpandingStep ==
  ASSUME Control, Data, Expanding, NEW th \in Thread,
         \A u \in Thread \ {th} :
           /\ frame'[u] = frame[u] /\ pc'[u] = pc[u] /\ before'[u] = before[u]
           /\ calm'[u] => /\ calm[u] /\ moved'[u] = moved[u]
                          /\ \A t \in Uses(u) : tensor'[t] = tensor[t],
         PerThread(moved)', ExpandedSoFar(th)'
  PROVE  Expanding'
<1>1. ASSUME NEW u \in Thread, u # th
      PROVE  ExpandedSoFar(u)'
  <2>1. ExpandedSoFar(u)
    BY DEF Expanding
  <2>2. /\ frame'[u] = frame[u] /\ pc'[u] = pc[u] /\ before'[u] = before[u]
        /\ calm'[u] => /\ calm[u] /\ moved'[u] = moved[u]
                       /\ \A t \in Range(frame[u].rets) : tensor'[t] = tensor[t]
                       /\ \A t \in Range(frame[u].ops) : tensor'[t] = tensor[t]
    BY <1>1 DEF Uses
  <2>3. QED
    BY <2>1, <2>2 DEF ExpandedSoFar
<1>2. QED
  BY <1>1 DEF Expanding

LEMMA ExpandingQuiet ==
  ASSUME Control, Data, Expanding, NEW th \in Thread, Quiet(th),
         \A u \in Thread \ {th} : moved'[u] = moved[u], PerThread(moved)',
         ExpandedSoFar(th)'
  PROVE  Expanding'
<1>1. \A u \in Thread \ {th} : frame'[u] = frame[u] /\ pc'[u] = pc[u]
  BY DEF Quiet, SameCall, Only
<1>2. UNCHANGED <<tensor, calm, before>>
  BY DEF Quiet
<1>3. QED
  BY <1>1, <1>2, ExpandingStep

\* The positions that dangle are positions of what was changed.
LEMMA ChangeMoved ==
  ASSUME Control, NEW th \in Thread, NEW t, NEW x, Change(th, t, x), PerThread(moved)
  PROVE  /\ PerThread(moved)'
         /\ \A u \in Thread : t \notin Uses(u) => moved'[u] = moved[u]
<1>1. moved' = [u \in Thread |->
                 IF pc[u] \in {"infer", "ndTake", "ndInfer"} /\ Len(x.size) # Len(tensor[t].size)
                 THEN moved[u] \cup {j \in DOMAIN frame[u].ops : frame[u].ops[j] = t}
                 ELSE moved[u]]
  BY DEF Change
<1>2. ASSUME NEW u \in Thread, t \notin Uses(u)
      PROVE  {j \in DOMAIN frame[u].ops : frame[u].ops[j] = t} = {}
  BY <1>2 DEF Uses, Range
<1>3. \A u \in Thread : t \notin Uses(u) => moved'[u] = moved[u]
  <2> SUFFICES ASSUME NEW u \in Thread, t \notin Uses(u) PROVE moved'[u] = moved[u]
    OBVIOUS
  <2> DEFINE S == {j \in DOMAIN frame[u].ops : frame[u].ops[j] = t}
  <2>1. S = {} /\ moved'[u] \in {moved[u], moved[u] \cup S}
    BY <1>1, <1>2
  <2> HIDE DEF S
  <2>2. QED
    BY <2>1
<1>4. PerThread(moved)'
  BY <1>1 DEF PerThread
<1>5. QED
  BY <1>3, <1>4

\* A step of th that changes one tensor of its call.
LEMMA ExpandingChange ==
  ASSUME Control, Data, Expanding, NEW th \in Thread, NEW t \in Tensor, NEW x, NEW p,
         Change(th, t, x), UNCHANGED <<frame, before>>, pc' = [pc EXCEPT ![th] = p],
         ExpandedSoFar(th)'
  PROVE  Expanding'
<1>1. \A u \in Thread \ {th} : frame'[u] = frame[u] /\ pc'[u] = pc[u] /\ before'[u] = before[u]
  BY DEF Control, PerThread
<1>2. /\ \A u \in Tensor \ {t} : tensor'[u] = tensor[u]
      /\ \A u \in Thread : calm'[u] => calm[u] /\ (u = th \/ t \notin Uses(u))
  BY ChangeFacts
<1>3. PerThread(moved)' /\ \A u \in Thread : t \notin Uses(u) => moved'[u] = moved[u]
  BY ChangeMoved DEF Expanding
<1>4. \A u \in Thread : Uses(u) \subseteq Tensor
  BY DEF Uses, Control, Locals, Range
<1>5. \A u \in Thread \ {th} :
        calm'[u] => /\ calm[u] /\ moved'[u] = moved[u]
                    /\ \A s \in Uses(u) : tensor'[s] = tensor[s]
  BY <1>2, <1>3, <1>4
<1>6. QED
  BY <1>1, <1>3, <1>5, ExpandingStep

\* expand, for an operand of expandNd.
LEMMA expandExpanding ==
  ASSUME Control, Data, Expanding, NEW th \in Thread, Expansion(th)
  PROVE  Expanding'
<1> DEFINE f == frame[th]
           g == frame'[th]
<1>1. /\ SameLists(f, g) /\ UNCHANGED <<tensor, calm, before>>
      /\ Locals(f, pc[th]) /\ pc[th] \in {"check", "rank", "geometry", "infer", "args", "free"}
  BY expandKeeps
<1>2. Quiet(th)
  BY expandCheckQuiet, expandReadsQuiet, expandInferQuiet, expandFreeQuiet DEF Expansion
<1>3. /\ PerThread(moved)' /\ \A u \in Thread \ {th} : moved'[u] = moved[u]
      /\ IF expandGeometry(th) THEN moved'[th] = {} ELSE moved' = moved
  <2>1. CASE expandGeometry(th)
    BY <2>1 DEF expandGeometry, Expanding, PerThread
  <2>2. CASE ~expandGeometry(th)
    BY <2>2 DEF Expansion, expandCheck, expandCheckSizes, expandInfer, expandArgs, expandFree,
                mem, Expanding
  <2>3. QED
    BY <2>1, <2>2
<1>4. ExpandedSoFar(th)'
  <2>0. calm[th] /\ pc'[th] = "infer" => moved'[th] = {}
    <3>1. AfterExpand(f) # "infer"
      BY DEF AfterExpand
    <3>2. pc'[th] = "infer" => expandGeometry(th) \/ pc[th] = "infer"
      BY <3>1, expandKeeps
    <3>3. calm[th] /\ pc[th] = "infer" => moved[th] = {}
      BY DEF Expanding, ExpandedSoFar
    <3>4. QED
      BY <1>3, <3>2, <3>3
  <2>1. CASE ~(f.op = "_expandNd" /\ calm[th])
    BY <1>1, <2>0, <2>1 DEF ExpandedSoFar, SameLists
  <2>2. CASE f.op = "_expandNd" /\ calm[th]
    <3>1. /\ f.failed # "infer" /\ (pc[th] = "infer" => moved[th] = {})
          /\ \A t \in Range(f.ops) : Expandable(tensor[t].size, f.want)
      BY <1>1, <2>2 DEF Expanding, ExpandedSoFar
    <3>2. Source(th) \in Range(f.ops)
      BY <1>1, <2>2 DEF Locals, Source, Range
    <3>3. pc[th] = "infer" => \A x \in GeometryAt(th) : Expandable(x.size, f.want)
      BY <3>1, <3>2 DEF GeometryAt
    <3>4. AfterExpand(f) \in {"check", "ndFree"}
      BY <2>2 DEF AfterExpand
    <3>5. /\ g.failed \in {f.failed, "arg"}
          /\ \/ pc'[th] \in {"check", "rank", "geometry", "args", "set", "ndFree"}
             \/ pc'[th] = "infer" /\ expandGeometry(th)
      BY <3>3, <3>4, expandKeeps
    <3>6. g.failed # "infer"
      BY <3>1, <3>5
    <3>7. QED
      BY <1>1, <2>0, <3>1, <3>5, <3>6 DEF ExpandedSoFar, SameLists
  <2>3. QED
    BY <2>1, <2>2
<1>5. QED
  BY <1>2, <1>3, <1>4, ExpandingQuiet

\* The steps of expandNd itself: when the common sizes are found, every operand
\* agrees with them.
LEMMA expandNdExpanding ==
  ASSUME Control, Data, Expanding, NEW th \in Thread,
         expandNdCheck(th) \/ expandNdTake(th) \/ expandNdInfer(th) \/ expandNdFree(th)
  PROVE  Expanding'
<1> DEFINE f == frame[th]
           Same == \A r \in Range(f.rets) : tensor[r] = before[th][r]
<1>1. /\ pc[th] \in {"ndCheck", "ndTake", "ndInfer", "ndFree"} /\ Locals(f, pc[th])
      /\ UNCHANGED <<tensor, calm, before>> /\ PerThread(frame) /\ PerThread(pc)
  BY ControlAt DEF expandNdCheck, expandNdTake, expandNdInfer, expandNdFree, mem
<1>2. f.op = "_expandNd" /\ Record(f)
  BY <1>1 DEF Locals, Place
<1>3. Quiet(th)
  BY expandNdQuiet
<1>4. frame'[th].rets = f.rets /\ frame'[th].ops = f.ops /\ frame'[th].op = f.op
  BY <1>3 DEF Quiet, SameCall
<1>5. /\ PerThread(moved)' /\ \A u \in Thread \ {th} : moved'[u] = moved[u]
      /\ moved[th] = {} => moved'[th] = {}
  <2>1. CASE expandNdTake(th)
    BY <2>1 DEF expandNdTake, Expanding, PerThread
  <2>2. CASE expandNdCheck(th) \/ expandNdInfer(th) \/ expandNdFree(th)
    BY <2>2 DEF expandNdCheck, expandNdInfer, expandNdFree, mem, Expanding, At
  <2>3. QED
    BY <2>1, <2>2
<1>6. ExpandedSoFar(th)'
  <2>1. CASE ~calm[th]
    BY <1>1, <2>1 DEF ExpandedSoFar
  <2>2. CASE calm[th]
    <3>1. /\ pc[th] \in {"ndCheck", "ndTake", "ndInfer"} => Same /\ moved[th] = {}
          /\ f.failed # "infer"
      BY <1>1, <1>2, <2>2 DEF Expanding, ExpandedSoFar
    <3>2. CASE expandNdCheck(th)
      <4> DEFINE i == NextRound(f)
                 g == [f EXCEPT !.i = i]
                 h == [g EXCEPT !.failed = "arg"]
                 p == IF f.i < Len(g.ops) THEN "ndCheck" ELSE "ndTake"
      <4>1. \/ frame' = [frame EXCEPT ![th] = g] /\ Goto(th, p)
            \/ Error(th, h, p)
        BY <3>2 DEF expandNdCheck
      <4>2. g.failed = f.failed /\ h.failed = "arg"
        <5> HIDE DEF i
        <5>1. QED
          BY <1>2 DEF Record
      <4>3. p \in {"ndCheck", "ndTake"} /\ pc[th] = "ndCheck"
        BY <3>2 DEF expandNdCheck, At
      <4> HIDE DEF g, h, p
      <4>4. frame'[th] \in {f, g, h} /\ pc'[th] \in {"ndCheck", "ndTake"}
        BY <1>1, <4>1, <4>3, ErrorStep DEF Goto, PerThread
      <4>5. frame'[th].failed # "infer"
        BY <3>1, <4>2, <4>4
      <4>6. QED
        BY <1>1, <1>4, <1>5, <3>1, <4>3, <4>4, <4>5 DEF ExpandedSoFar
    <3>3. CASE expandNdTake(th)
      <4> DEFINE i == NextRound(f)
                 read == Append(f.read, Len(tensor[Source(th)].size))
                 g == [f EXCEPT !.read = read, !.i = i]
      <4>1. frame'[th] = g /\ pc'[th] \in {"ndTake", "ndInfer"} /\ pc[th] = "ndTake"
        BY <1>1, <3>3 DEF expandNdTake, Goto, PerThread, At
      <4> HIDE DEF i, read
      <4>2. g.failed = f.failed
        BY <1>2 DEF Record
      <4> HIDE DEF g
      <4>3. QED
        BY <1>1, <1>4, <1>5, <3>1, <4>1, <4>2 DEF ExpandedSoFar
    <3>4. CASE expandNdInfer(th)
      <4>0. pc[th] = "ndInfer" /\ moved[th] = {}
        BY <3>1, <3>4 DEF expandNdInfer, At
      <4>1. PICK lists \in SizesAt(th) :
              \/ /\ Agree(lists)
                 /\ frame' = [frame EXCEPT ![th].want = CommonSize(lists), ![th].i = 1]
                 /\ pc' = [pc EXCEPT ![th] = "check"]
              \/ Error(th, [f EXCEPT !.failed = "infer"], "done")
        BY <3>4 DEF expandNdInfer, Goto
      <4>2. CASE Error(th, [f EXCEPT !.failed = "infer"], "done")
        <5> DEFINE g == [f EXCEPT !.failed = "infer"]
        <5>1. \/ frame'[th] = f /\ pc'[th] = "ndInfer"
              \/ frame'[th] = g /\ pc'[th] = "done"
          BY <1>1, <4>0, <4>2 DEF Error, Goto, PerThread
        <5>2. moved' = moved
          BY <3>4 DEF expandNdInfer, mem
        <5>3. QED
          BY <1>1, <1>4, <3>1, <4>0, <5>1, <5>2 DEF ExpandedSoFar
      <4>3. CASE /\ Agree(lists)
                 /\ frame' = [frame EXCEPT ![th].want = CommonSize(lists), ![th].i = 1]
                 /\ pc' = [pc EXCEPT ![th] = "check"]
        <5> DEFINE want == CommonSize(lists)
                   g == [f EXCEPT !.want = want, !.i = 1]
        <5>1. frame'[th] = g /\ pc'[th] = "check"
          BY <1>1, <4>3 DEF PerThread
        <5>2. ASSUME NEW t \in Range(f.ops)
              PROVE  Expandable(tensor[t].size, want)
          <6>1. PICK j \in DOMAIN f.ops : f.ops[j] = t
            BY DEF Range
          <6>2. DOMAIN lists = DOMAIN f.ops
            BY DEF SizesAt
          <6>3. j \in DOMAIN lists /\ j \notin moved[th]
            BY <4>0, <6>1, <6>2
          <6>4. lists[j] = tensor[t].size
            BY <6>1, <6>3 DEF SizesAt
          <6>5. Expandable(lists[j], want)
            BY <4>3, <6>3 DEF Agree
          <6>6. QED
            BY <6>4, <6>5
        <5> HIDE DEF want
        <5>3. g.want = want /\ g.failed = f.failed
          BY <1>2 DEF Record
        <5> HIDE DEF g
        <5>4. QED
          BY <1>1, <1>4, <3>1, <5>1, <5>2, <5>3 DEF ExpandedSoFar
      <4>4. QED
        BY <4>1, <4>2, <4>3
    <3>5. CASE expandNdFree(th)
      <4>1. frame'[th] = f /\ pc'[th] = "done"
        BY <1>1, <3>5 DEF expandNdFree, Goto, PerThread
      <4>2. QED
        BY <1>1, <3>1, <4>1 DEF ExpandedSoFar
    <3>6. QED
      BY <3>2, <3>3, <3>4, <3>5
  <2>3. QED
    BY <2>1, <2>2
<1>7. QED
  BY <1>3, <1>5, <1>6, ExpandingQuiet

\* A result may be an operand: it has the common sizes now.
LEMMA changesExpanding ==
  ASSUME Control, Data, Expanding, NEW th \in Thread, expandSet(th) \/ resizeDim(th)
  PROVE  Expanding'
<1> DEFINE f == frame[th]
           t == Target(th)
<1>1. /\ Locals(f, pc[th]) /\ UNCHANGED <<frame, before>> /\ PerThread(pc)
  BY DEF expandSet, resizeDim, Control
<1>2. CASE expandSet(th)
  <2>1. /\ pc[th] = "set" /\ Change(th, t, View(th)) /\ pc' = [pc EXCEPT ![th] = "free"]
    BY <1>2 DEF expandSet, At, Goto
  <2>2. t \in Tensor
    <3>1. f.i \in 1 .. Len(f.rets) /\ f.rets \in Seq(Tensor)
      BY <1>1, <2>1 DEF Locals, Place
    <3>2. QED
      BY <3>1 DEF Target
  <2>3. tensor'[t].size = f.want
    BY <2>1, <2>2, ChangeSize DEF View
  <2>4. /\ \A u \in Tensor \ {t} : tensor'[u] = tensor[u]
        /\ calm'[th] => calm[th]
    BY <2>1, <2>2, ChangeFacts
  <2>5. Range(f.ops) \subseteq Tensor
    BY <1>1 DEF Locals, Range
  <2>6. pc'[th] = "free"
    BY <1>1, <2>1 DEF PerThread
  <2> HIDE DEF t
  <2>7. ExpandedSoFar(th)'
    <3>1. CASE ~(f.op = "_expandNd" /\ calm'[th])
      BY <1>1, <2>6, <3>1 DEF ExpandedSoFar
    <3>2. CASE f.op = "_expandNd" /\ calm'[th]
      <4>1. /\ f.failed # "infer"
            /\ \A u \in Range(f.ops) : Expandable(tensor[u].size, f.want)
        BY <2>1, <2>4, <3>2 DEF Expanding, ExpandedSoFar
      <4>2. \A u \in Range(f.ops) : Expandable(tensor'[u].size, f.want)
        BY <2>3, <2>4, <2>5, <4>1, ExpandableItself
      <4>3. QED
        BY <1>1, <2>6, <4>1, <4>2 DEF ExpandedSoFar
    <3>3. QED
      BY <3>1, <3>2
  <2>8. QED
    BY <1>1, <2>1, <2>2, <2>7, ExpandingChange
<1>3. CASE resizeDim(th)
  <2>1. pc[th] = "resize" /\ pc' = [pc EXCEPT ![th] = "done"]
    BY <1>3 DEF resizeDim, At, Goto
  <2>2. f.op = "_resizeDim" /\ f.rets \in Seq(Tensor) /\ Len(f.rets) = 1 /\ f.i = 1
    BY <1>1, <2>1 DEF Locals, Place
  <2>3. t \in Tensor
    BY <2>2 DEF Target
  <2>4. ExpandedSoFar(th)'
    <3>1. pc'[th] = "done"
      BY <1>1, <2>1 DEF PerThread
    <3>2. QED
      BY <1>1, <2>2, <3>1 DEF ExpandedSoFar
  <2> HIDE DEF t
  <2>5. CASE \E x : Change(th, t, x)
    BY <1>1, <2>1, <2>3, <2>4, <2>5, ExpandingChange
  <2>6. CASE UNCHANGED mem
    <3>1. \A u \in Thread \ {th} : frame'[u] = frame[u] /\ pc'[u] = pc[u]
      BY <1>1, <2>1 DEF PerThread
    <3>2. QED
      BY <1>1, <2>4, <2>6, <3>1, ExpandingStep DEF mem, Expanding
  <2>7. QED
    BY <1>3, <2>5, <2>6 DEF resizeDim, t
<1>4. QED
  BY <1>2, <1>3

LEMMA createsExpanding ==
  ASSUME Control, Data, Expanding, NEW th \in Thread,
         newExpandNew(th) \/ expand2dNew(th) \/ withEmptyNew(th)
  PROVE  Expanding'
<1>0. PerThread(before) /\ PerThread(pc) /\ tensor = [u \in Tensor |-> tensor[u]]
  BY DEF Data, Results, Control
<1>1. PICK r \in Tensor \ (held \cup Private), p \in {"check", "done"} :
        /\ \A u \in Tensor \ {r} : tensor'[u] = tensor[u]
        /\ \A u \in Thread : calm'[u] => calm[u]
        /\ PerThread(moved)' /\ \A u \in Thread : r \notin Uses(u) => moved'[u] = moved[u]
        /\ frame' = [frame EXCEPT ![th].rets = <<r>>]
        /\ \A u \in Thread \ {th} : before'[u] = before[u]
        /\ pc' = [pc EXCEPT ![th] = p]
  <2>1. CASE newExpandNew(th)
    <3>1. PICK r \in Tensor \ (held \cup Private) :
            /\ frame' = [frame EXCEPT ![th].rets = <<r>>]
            /\ tensor' = [tensor EXCEPT ![r] = NewTensor]
            /\ before' = [before EXCEPT ![th][r] = NewTensor]
      BY <2>1 DEF newExpandNew
    <3>2. /\ \A u \in Tensor \ {r} : tensor'[u] = tensor[u]
          /\ \A u \in Thread \ {th} : before'[u] = before[u]
      BY <1>0, <3>1 DEF PerThread
    <3>3. UNCHANGED <<calm, moved>> /\ pc' = [pc EXCEPT ![th] = "check"]
      BY <2>1 DEF newExpandNew, Goto
    <3>4. QED
      BY <3>1, <3>2, <3>3 DEF Expanding
  <2>2. CASE expand2dNew(th) \/ withEmptyNew(th)
    <3>1. PICK size : newSized(th, size)
      BY <2>2 DEF expand2dNew, withEmptyNew
    <3>2. PICK r \in Tensor \ (held \cup Private) :
            /\ Change(th, r, Sized(size))
            /\ frame' = [frame EXCEPT ![th].rets = <<r>>]
            /\ before' = [before EXCEPT ![th][r] = tensor'[r]]
      BY <3>1 DEF newSized
    <3>3. /\ \A u \in Tensor \ {r} : tensor'[u] = tensor[u]
          /\ \A u \in Thread : calm'[u] => calm[u]
      BY <3>2, ChangeFacts
    <3>4. PerThread(moved)' /\ \A u \in Thread : r \notin Uses(u) => moved'[u] = moved[u]
      BY <3>2, ChangeMoved DEF Expanding
    <3>5. \A u \in Thread \ {th} : before'[u] = before[u]
      BY <1>0, <3>2 DEF PerThread
    <3>6. PICK p \in {"check", "done"} : pc' = [pc EXCEPT ![th] = p]
      BY <2>2 DEF expand2dNew, withEmptyNew, Goto
    <3>7. QED
      BY <3>2, <3>3, <3>4, <3>5, <3>6
  <2>3. QED
    BY <2>1, <2>2
<1>2. \A u \in Thread \ {th} : frame'[u] = frame[u] /\ pc'[u] = pc[u]
  BY <1>0, <1>1 DEF PerThread, Control
<1>3. ASSUME NEW u \in Thread
      PROVE  r \notin Uses(u) /\ \A t \in Uses(u) : tensor'[t] = tensor[t]
  <2>1. Uses(u) \subseteq Tensor
    BY DEF Uses, Control, Locals, Range
  <2>2. r \notin Uses(u)
    BY DEF Uses, Private, Data, Ownership, Owned
  <2>3. QED
    BY <1>1, <2>1, <2>2
<1>4. frame[th].op \in {"newExpand", "expand2d", "withEmpty"}
  BY DEF newExpandNew, expand2dNew, withEmptyNew
<1>5. frame'[th].op = frame[th].op
  BY <1>1, WithResult
<1>6. ExpandedSoFar(th)'
  <2>1. pc'[th] = p
    BY <1>0, <1>1 DEF PerThread
  <2>2. QED
    BY <1>4, <1>5, <2>1 DEF ExpandedSoFar
<1>7. QED
  BY <1>1, <1>2, <1>3, <1>6, ExpandingStep

\* Calls of other operations.
LEMMA othersExpanding ==
  ASSUME Control, Data, Expanding, NEW th \in Thread,
         \/ getDimListRank(th) \/ getDimListSize(th)
         \/ getStorage(th) \/ tensordataLength(th) \/ tensordataPointer(th)
         \/ tensordataPeek(th) \/ resize(th)
  PROVE  Expanding'
<1>1. /\ pc[th] \in {"dims", "size", "storage", "length", "data", "peek", "capacity"}
      /\ Locals(frame[th], pc[th]) /\ moved' = moved
  BY ControlAt DEF getDimListRank, getDimListSize, getStorage, tensordataLength,
                   tensordataPointer, tensordataPeek, resize, mem
<1>2. frame[th].op # "_expandNd"
  BY <1>1 DEF Locals, Place
<1>3. Quiet(th)
  BY readsQuiet
<1>4. ExpandedSoFar(th)'
  <2>1. pc'[th] # "infer"
    BY <1>1 DEF getDimListRank, getDimListSize, getStorage, tensordataLength,
                tensordataPointer, tensordataPeek, resize, Goto, Error, Control, PerThread
  <2>2. QED
    BY <1>2, <1>3, <2>1 DEF Quiet, SameCall, ExpandedSoFar
<1>5. QED
  BY <1>1, <1>3, <1>4, ExpandingQuiet DEF Expanding

LEMMA BeginExpanding ==
  ASSUME Control, Data, Expanding, NEW th \in Thread, Begin(th)
  PROVE  Expanding'
<1>1. PICK c \in CallsOf[th] :
        /\ frame' = [frame EXCEPT ![th] = [Idle EXCEPT !.op = c.op, !.rets = c.rets,
                                                       !.ops = c.ops, !.want = c.want]]
        /\ pc' = [pc EXCEPT ![th] = Entry(c.op)]
  BY DEF Begin, Goto
<1> DEFINE g == [Idle EXCEPT !.op = c.op, !.rets = c.rets, !.ops = c.ops, !.want = c.want]
<1>2. g.op = c.op /\ g.failed = "no"
  BY CallFacts
<1>3. PerThread(frame) /\ PerThread(pc) /\ PerThread(calm) /\ PerThread(before)
  BY DEF Control, Data, Results
<1>4. /\ frame'[th] = g /\ before'[th] = tensor /\ pc'[th] = Entry(c.op)
      /\ \A u \in Thread \ {th} : /\ frame'[u] = frame[u] /\ pc'[u] = pc[u]
                                  /\ calm'[u] = calm[u] /\ before'[u] = before[u]
      /\ tensor' = tensor /\ moved'[th] = {} /\ PerThread(moved)'
      /\ \A u \in Thread \ {th} : moved'[u] = moved[u]
  BY <1>1, <1>3 DEF Begin, PerThread, Expanding
<1> HIDE DEF g
<1>5. Entry(c.op) # "infer" /\ (c.op = "_expandNd" => Entry(c.op) = "ndCheck")
  BY CallFacts DEF Entry
<1>6. ExpandedSoFar(th)'
  BY <1>2, <1>4, <1>5 DEF ExpandedSoFar
<1>7. QED
  BY <1>4, <1>6, ExpandingStep DEF Expanding

LEMMA ReturnExpanding ==
  ASSUME Control, Data, Expanding, NEW th \in Thread, Return(th)
  PROVE  Expanding'
<1>1. /\ frame'[th] = Idle
      /\ \A u \in Thread \ {th} : frame'[u] = frame[u] /\ pc'[u] = pc[u]
      /\ UNCHANGED <<tensor, calm, before, moved>>
  BY DEF Return, Goto, Control, PerThread, mem
<1>2. ExpandedSoFar(th)'
  <2>1. pc'[th] = "idle"
    BY DEF Return, Goto, Control, PerThread
  <2>2. QED
    BY <1>1, <2>1 DEF ExpandedSoFar, Idle
<1>3. QED
  BY <1>1, <1>2, ExpandingStep DEF Expanding

-----------------------------------------------------------------------------
LEMMA InitExpanding == Init => Expanding
<1> SUFFICES ASSUME Init PROVE Expanding
  OBVIOUS
<1>1. PerThread(moved)
  BY DEF Init, PerThread
<1>2. \A th \in Thread : frame[th] = Idle /\ moved[th] = {}
  BY DEF Init
<1>3. Idle.op # "_expandNd"
  BY DEF Idle
<1>4. QED
  BY <1>1, <1>2, <1>3 DEF Expanding, ExpandedSoFar

LEMMA NextExpanding == Control /\ Data /\ Expanding /\ [Next]_vars => Expanding'
<1> SUFFICES ASSUME Control, Data, Expanding, [Next]_vars PROVE Expanding'
  OBVIOUS
<1>1. CASE UNCHANGED vars
  BY <1>1 DEF vars, Expanding, ExpandedSoFar, PerThread
<1>2. ASSUME NEW th \in Thread, Begin(th) \/ Continue(th)
      PROVE  Expanding'
  BY <1>2, NextCases, BeginExpanding, createsExpanding, expandExpanding, expandNdExpanding,
     changesExpanding, othersExpanding, ReturnExpanding DEF Expansion
<1>3. QED
  BY <1>1, <1>2 DEF Next

\* expandNd changes all of its results or none, also when results are operands: the
\* sizes that inferSizeN finds are sizes to which expand can bring every operand.
THEOREM ExpandNdAllOrNothing == Spec => []AllOrNothing
<1>1. Init => Control /\ Data /\ Expanding
  BY InitControl, InitData, InitExpanding
<1>2. Control /\ Data /\ Expanding /\ [Next]_vars => (Control /\ Data /\ Expanding)'
  BY NextControl, NextData, NextExpanding
<1>3. Expanding => AllOrNothing
  BY DEF Expanding, ExpandedSoFar, AllOrNothing, Failed
<1>4. QED
  BY <1>1, <1>2, <1>3, PTL DEF Spec
=============================================================================
