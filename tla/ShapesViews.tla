---------------------------- MODULE ShapesViews ----------------------------
(***************************************************************************)
(* Proofs about what Shapes computes with sizes and strides: the types of  *)
(* its variables, that an expand gives a view that shows its operand and   *)
(* no more, and that every loop comes to its end.                          *)
(***************************************************************************)
EXTENDS ShapesLoops, FiniteSetTheorems

-----------------------------------------------------------------------------
(***************************************************************************)
(* Sums and products over finite sets.  A fold takes the elements in an    *)
(* order of its own, Pick.                                                 *)
(***************************************************************************)
Pick(s) == CHOOSE x \in s : TRUE

LEMMA PickIn ==
  ASSUME NEW s, s # {}
  PROVE  Pick(s) \in s
BY DEF Pick

\* Among sets of elements of S there is a smallest one.
LEMMA SmallestSet ==
  ASSUME NEW S, IsFiniteSet(S), NEW Sets \in SUBSET (SUBSET S), Sets # {}
  PROVE  \E s \in Sets : \A t \in Sets : Cardinality(s) <= Cardinality(t)
<1> DEFINE Sizes == {Cardinality(s) : s \in Sets}
<1>1. \A s \in Sets : Cardinality(s) \in Nat
  BY FS_Subset, FS_CardinalityType
<1>2. PICK n \in Sizes : \A m \in Sizes : n <= m
  <2>1. Sizes \in SUBSET Nat /\ Sizes # {}
    BY <1>1
  <2> HIDE DEF Sizes
  <2>2. QED
    BY <2>1, LeastNumber
<1>3. QED
  BY <1>2

\* A set without one of its elements is smaller.
LEMMA Smaller ==
  ASSUME NEW S, IsFiniteSet(S), NEW s \in SUBSET S, NEW x \in s
  PROVE  /\ s \ {x} \in SUBSET S
         /\ Cardinality(s) \in Nat /\ Cardinality(s \ {x}) = Cardinality(s) - 1
<1>1. IsFiniteSet(s)
  BY FS_Subset
<1>2. QED
  BY <1>1, FS_RemoveElement, FS_CardinalityType

\* One step of a fold over s, from the results g for smaller sets.
Step(s, base, F, g) == IF s = {} THEN base ELSE F[Pick(s)][g[s \ {Pick(s)}]]

IsFold(g, S, V, base, F) ==
  g \in [SUBSET S -> V] /\ \A s \in SUBSET S : g[s] = Step(s, base, F, g)

\* A fold is well defined.
LEMMA FoldExists ==
  ASSUME NEW S, IsFiniteSet(S), NEW V, NEW base \in V, NEW F \in [S -> [V -> V]]
  PROVE  \E g : IsFold(g, S, V, base, F)
<1> DEFINE T(n) == {s \in SUBSET S : Cardinality(s) <= n}
           Fold(n, g) == g \in [T(n) -> V] /\ \A s \in T(n) : g[s] = Step(s, base, F, g)
           None(n) == \A g : ~ Fold(n, g)
           Nones == {n \in Nat : None(n)}
<1>1. ASSUME NEW n \in Nat, None(n) PROVE FALSE
  <2>1. PICK m \in Nones : \A k \in Nones : m <= k
    <3>1. n \in Nones
      <4> HIDE DEF None
      <4>1. QED
        BY <1>1
    <3> HIDE DEF Nones
    <3>2. Nones \in SUBSET Nat
      BY DEF Nones
    <3>3. QED
      BY <3>1, <3>2, LeastNumber
  <2>2. m \in Nat /\ None(m)
    <3> HIDE DEF None
    <3>1. QED
      OBVIOUS
  <2>3. CASE m = 0
    <3> DEFINE g == [s \in T(0) |-> base]
    <3>1. \A s \in T(0) : s = {}
      <4> TAKE s \in T(0)
      <4>1. IsFiniteSet(s) /\ Cardinality(s) \in Nat /\ Cardinality(s) <= 0
        BY FS_Subset, FS_CardinalityType
      <4>2. QED
        BY <4>1, FS_EmptySet
    <3>2. Fold(0, g)
      BY <3>1 DEF Step
    <3>3. QED
      BY <2>2, <2>3, <3>2
  <2>4. CASE m # 0
    <3> DEFINE k == m - 1
    <3>1. k \in Nat /\ k < m
      BY <2>2, <2>4
    <3>2. ~ None(k)
      <4> HIDE DEF None
      <4>1. QED
        BY <2>1, <2>2, <3>1
    <3>3. PICK h : Fold(k, h)
      BY <3>2
    <3> DEFINE g == [s \in T(m) |-> Step(s, base, F, h)]
    <3>4. \A s \in T(m) : s # {} => /\ Pick(s) \in S /\ s \ {Pick(s)} \in T(k)
      <4> TAKE s \in T(m)
      <4> HAVE s # {}
      <4>1. Pick(s) \in s
        BY PickIn
      <4>2. s \ {Pick(s)} \in SUBSET S /\ Cardinality(s) \in Nat
            /\ Cardinality(s \ {Pick(s)}) = Cardinality(s) - 1
        BY <4>1, Smaller
      <4>3. QED
        BY <2>2, <4>1, <4>2
    <3>5. \A s \in T(m) : Step(s, base, F, h) \in V
      BY <3>3, <3>4 DEF Step
    <3>6. T(k) \subseteq T(m)
      <4>1. \A s \in SUBSET S : Cardinality(s) \in Nat
        BY FS_Subset, FS_CardinalityType
      <4>2. QED
        BY <2>2, <4>1
    <3>7. \A s \in T(k) : g[s] = h[s]
      BY <3>3, <3>6
    <3>8. \A s \in T(m) : g[s] = Step(s, base, F, g)
      BY <3>4, <3>7 DEF Step
    <3>9. Fold(m, g)
      BY <3>5, <3>8
    <3>10. QED
      BY <2>2, <3>9
  <2>5. QED
    BY <2>3, <2>4
<1>2. PICK g : Fold(Cardinality(S), g)
  BY <1>1, FS_CardinalityType
<1>3. T(Cardinality(S)) = SUBSET S
  BY FS_Subset
<1>4. QED
  BY <1>2, <1>3 DEF IsFold

\* The function f gives a number to every subset of S: the sum of its elements' v.
IsSum(f, v, S) ==
  /\ f \in [SUBSET S -> Int] /\ f[{}] = 0
  /\ \A s \in SUBSET S : \A x \in s : f[s] = v[x] + f[s \ {x}]

\* The order in which the numbers are added makes no difference.
LEMMA AnyOrder ==
  ASSUME NEW S, IsFiniteSet(S), NEW v \in [S -> Int], NEW f \in [SUBSET S -> Int],
         f[{}] = 0,
         \A s \in SUBSET S : s # {} => f[s] = v[Pick(s)] + f[s \ {Pick(s)}]
  PROVE  IsSum(f, v, S)
<1> DEFINE Bad == {s \in SUBSET S : \E x \in s : f[s] # v[x] + f[s \ {x}]}
<1> SUFFICES ASSUME Bad # {} PROVE FALSE
  BY DEF IsSum
<1>1. PICK s \in Bad : \A t \in Bad : Cardinality(s) <= Cardinality(t)
  <2> HIDE DEF Bad
  <2>1. Bad \in SUBSET (SUBSET S)
    BY DEF Bad
  <2>2. QED
    BY <2>1, SmallestSet
<1>2. PICK x \in s : f[s] # v[x] + f[s \ {x}]
  OBVIOUS
<1> DEFINE c == Pick(s)
<1>3. c \in s /\ f[s] = v[c] + f[s \ {c}]
  BY PickIn
<1>4. c # x
  BY <1>2, <1>3
<1> HIDE DEF c
<1>5. /\ s \in SUBSET S /\ s \ {c} \in SUBSET S /\ s \ {x} \in SUBSET S
      /\ x \in s \ {c} /\ c \in s \ {x} /\ x \in S /\ c \in S
  BY <1>3, <1>4
<1>6. /\ Cardinality(s) \in Nat
      /\ Cardinality(s \ {c}) = Cardinality(s) - 1
      /\ Cardinality(s \ {x}) = Cardinality(s) - 1
  BY <1>3, <1>5, Smaller
<1>7. s \ {c} \notin Bad /\ s \ {x} \notin Bad
  <2> HIDE DEF Bad
  <2>1. QED
    BY <1>1, <1>6
<1>8. f[s \ {c}] = v[x] + f[(s \ {c}) \ {x}]
  BY <1>5, <1>7
<1>9. f[s \ {x}] = v[c] + f[(s \ {x}) \ {c}]
  BY <1>5, <1>7
<1>10. (s \ {c}) \ {x} = (s \ {x}) \ {c} /\ (s \ {c}) \ {x} \in SUBSET S
  BY <1>5
<1> DEFINE rest == f[(s \ {c}) \ {x}]
<1>11. v[x] \in Int /\ v[c] \in Int /\ rest \in Int
  BY <1>5, <1>10
<1>12. f[s] = v[x] + f[s \ {x}]
  <2>1. f[s] = v[c] + (v[x] + rest)
    BY <1>3, <1>8
  <2>2. f[s \ {x}] = v[c] + rest
    BY <1>9, <1>10
  <2> HIDE DEF rest
  <2>3. v[c] + (v[x] + rest) = v[x] + (v[c] + rest)
    BY <1>11
  <2>4. QED
    BY <2>1, <2>2, <2>3, Zenon
<1>13. QED
  BY <1>2, <1>12

\* The sums of SumFunction.
LEMMA SumIs ==
  ASSUME NEW S, IsFiniteSet(S), NEW v \in [S -> Int]
  PROVE  \E f : IsSum(f, v, S) /\ SumFunction(v) = f[S]
<1> DEFINE Eq(f) == f = [s \in SUBSET S |->
                          IF s = {} THEN 0 ELSE v[Pick(s)] + f[s \ {Pick(s)}]]
           F == [x \in S |-> [n \in Int |-> v[x] + n]]
           sums == CHOOSE f : Eq(f)
<1>1. PICK f \in [SUBSET S -> Int] : \A s \in SUBSET S : f[s] = Step(s, 0, F, f)
  <2>1. F \in [S -> [Int -> Int]]
    OBVIOUS
  <2> HIDE DEF F
  <2>2. 0 \in Int
    OBVIOUS
  <2>3. \E f : IsFold(f, S, Int, 0, F)
    BY <2>1, <2>2, FoldExists
  <2>4. QED
    BY <2>3 DEF IsFold
<1>2. \A s \in SUBSET S : s # {} => Pick(s) \in S /\ s \ {Pick(s)} \in SUBSET S
  BY PickIn
<1>3. \A s \in SUBSET S : f[s] = IF s = {} THEN 0 ELSE v[Pick(s)] + f[s \ {Pick(s)}]
  <2> TAKE s \in SUBSET S
  <2>1. CASE s = {}
    BY <1>1, <2>1 DEF Step
  <2>2. CASE s # {}
    <3>1. Pick(s) \in S /\ f[s \ {Pick(s)}] \in Int
      BY <1>2, <2>2
    <3>2. QED
      BY <1>1, <2>2, <3>1 DEF Step
  <2>3. QED
    BY <2>1, <2>2
<1>4. Eq(f)
  BY <1>3
<1>5. Eq(sums)
  <2> HIDE DEF Eq
  <2>1. QED
    BY <1>4
<1>6. SumFunction(v) = sums[S]
  BY DEF SumFunction, SumFunctionOnSet, FoldFunctionOnSet, MapThenFoldSet, Pick
<1> HIDE DEF sums
<1>7. /\ \A s \in SUBSET S : s # {} => sums[s] = v[Pick(s)] + sums[s \ {Pick(s)}]
      /\ sums[{}] = 0
  BY <1>5
<1>8. sums \in [SUBSET S -> Int]
  <2> DEFINE Bad == {s \in SUBSET S : sums[s] \notin Int}
  <2> SUFFICES ASSUME Bad # {} PROVE FALSE
    BY <1>5
  <2>1. PICK s \in Bad : \A t \in Bad : Cardinality(s) <= Cardinality(t)
    <3> HIDE DEF Bad
    <3>1. Bad \in SUBSET (SUBSET S)
      BY DEF Bad
    <3>2. QED
      BY <3>1, SmallestSet
  <2>2. s # {} /\ s \in SUBSET S
    <3>1. s \in SUBSET S /\ sums[s] \notin Int
      OBVIOUS
    <3>2. s # {}
      <4>1. sums[{}] = 0 /\ 0 \in Int
        BY <1>7
      <4>2. QED
        BY <3>1, <4>1, Zenon
    <3>3. QED
      BY <3>1, <3>2
  <2>3. Pick(s) \in s /\ Pick(s) \in S
    BY <2>2, PickIn
  <2>4. s \ {Pick(s)} \notin Bad
    <3>1. Cardinality(s) \in Nat /\ Cardinality(s \ {Pick(s)}) = Cardinality(s) - 1
      BY <2>2, <2>3, Smaller
    <3> HIDE DEF Bad
    <3>2. QED
      BY <2>1, <3>1
  <2>5. sums[s \ {Pick(s)}] \in Int
    BY <2>2, <2>4
  <2>6. sums[s] = v[Pick(s)] + sums[s \ {Pick(s)}] /\ v[Pick(s)] \in Int
    BY <1>7, <2>2, <2>3
  <2>7. v[Pick(s)] + sums[s \ {Pick(s)}] \in Int
    BY <2>5, <2>6
  <2>8. QED
    BY <2>6, <2>7, Zenon
<1>9. IsSum(sums, v, S)
  BY <1>7, <1>8, AnyOrder
<1>10. QED
  BY <1>6, <1>9

LEMMA SumInt ==
  ASSUME NEW S, IsFiniteSet(S), NEW v \in [S -> Int]
  PROVE  SumFunction(v) \in Int
<1>1. PICK f : IsSum(f, v, S) /\ SumFunction(v) = f[S]
  BY SumIs
<1>2. QED
  BY <1>1 DEF IsSum

\* A sum of numbers that are not negative is none.
LEMMA SumNat ==
  ASSUME NEW S, IsFiniteSet(S), NEW v \in [S -> Nat]
  PROVE  SumFunction(v) \in Nat
<1>1. v \in [S -> Int]
  OBVIOUS
<1>2. PICK f : IsSum(f, v, S) /\ SumFunction(v) = f[S]
  BY <1>1, SumIs
<1> DEFINE Bad == {s \in SUBSET S : f[s] \notin Nat}
<1> SUFFICES ASSUME Bad # {} PROVE FALSE
  BY <1>2
<1>3. PICK s \in Bad : \A t \in Bad : Cardinality(s) <= Cardinality(t)
  <2> HIDE DEF Bad
  <2>1. Bad \in SUBSET (SUBSET S)
    BY DEF Bad
  <2>2. QED
    BY <2>1, SmallestSet
<1>4. PICK x \in s : TRUE
  <2>1. s \in SUBSET S /\ f[s] \notin Nat
    OBVIOUS
  <2>2. s # {}
    <3>1. f[{}] = 0 /\ 0 \in Nat
      BY <1>2 DEF IsSum
    <3>2. QED
      BY <2>1, <3>1, Zenon
  <2>3. QED
    BY <2>2
<1>5. s \ {x} \notin Bad
  <2>1. Cardinality(s) \in Nat /\ Cardinality(s \ {x}) = Cardinality(s) - 1
    BY <1>4, Smaller
  <2> HIDE DEF Bad
  <2>2. QED
    BY <1>3, <2>1
<1>6. s \in SUBSET S /\ x \in S /\ s \ {x} \in SUBSET S
  BY <1>4
<1>7. f[s \ {x}] \in Nat
  BY <1>5, <1>6
<1>8. f[s] = v[x] + f[s \ {x}]
  BY <1>2, <1>4, <1>6 DEF IsSum
<1>9. QED
  BY <1>6, <1>7, <1>8

\* A product of numbers is one.
LEMMA ProductNat ==
  ASSUME NEW S, IsFiniteSet(S), NEW v, \A x \in S : v[x] \in Nat
  PROVE  FoldFunctionOnSet(Times, 1, v, S) \in Nat
<1> DEFINE Eq(f) == f = [s \in SUBSET S |->
                          IF s = {} THEN 1 ELSE v[Pick(s)] * f[s \ {Pick(s)}]]
           F == [x \in S |-> [n \in Nat |-> v[x] * n]]
           products == CHOOSE f : Eq(f)
<1>1. PICK f : IsFold(f, S, Nat, 1, F)
  <2>1. F \in [S -> [Nat -> Nat]]
    <3>1. \A x \in S, n \in Nat : v[x] * n \in Nat
      OBVIOUS
    <3>2. QED
      BY <3>1
  <2> HIDE DEF F
  <2>2. 1 \in Nat
    OBVIOUS
  <2>3. QED
    BY <2>1, <2>2, FoldExists
<1>2. \A s \in SUBSET S : s # {} => Pick(s) \in S /\ s \ {Pick(s)} \in SUBSET S
  BY PickIn
<1>3. \A s \in SUBSET S : f[s] = IF s = {} THEN 1 ELSE v[Pick(s)] * f[s \ {Pick(s)}]
  <2> TAKE s \in SUBSET S
  <2>1. CASE s = {}
    BY <1>1, <2>1 DEF Step, IsFold
  <2>2. CASE s # {}
    <3>1. Pick(s) \in S /\ f[s \ {Pick(s)}] \in Nat
      BY <1>1, <1>2, <2>2 DEF IsFold
    <3>2. QED
      BY <1>1, <2>2, <3>1 DEF Step, IsFold
  <2>3. QED
    BY <2>1, <2>2
<1>4. Eq(f)
  BY <1>1, <1>3 DEF IsFold
<1>5. Eq(products)
  <2> HIDE DEF Eq
  <2>1. QED
    BY <1>4
<1>6. FoldFunctionOnSet(Times, 1, v, S) = products[S]
  BY DEF FoldFunctionOnSet, MapThenFoldSet, Pick, Times
<1> HIDE DEF products
<1>7. /\ \A s \in SUBSET S : s # {} => products[s] = v[Pick(s)] * products[s \ {Pick(s)}]
      /\ products[{}] = 1
  BY <1>5
<1> DEFINE Bad == {s \in SUBSET S : products[s] \notin Nat}
<1>8. CASE Bad = {}
  BY <1>6, <1>8
<1>9. CASE Bad # {}
  <2>1. PICK s \in Bad : \A t \in Bad : Cardinality(s) <= Cardinality(t)
    <3> HIDE DEF Bad
    <3>1. Bad \in SUBSET (SUBSET S)
      BY DEF Bad
    <3>2. QED
      BY <1>9, <3>1, SmallestSet
  <2>2. s # {} /\ s \in SUBSET S
    <3>1. s \in SUBSET S /\ products[s] \notin Nat
      OBVIOUS
    <3>2. products[{}] = 1 /\ 1 \in Nat
      BY <1>7
    <3>3. s # {}
      BY <3>1, <3>2, Zenon
    <3>4. QED
      BY <3>1, <3>3
  <2>3. Pick(s) \in s /\ Pick(s) \in S
    BY <2>2, PickIn
  <2>4. s \ {Pick(s)} \notin Bad
    <3>1. Cardinality(s) \in Nat /\ Cardinality(s \ {Pick(s)}) = Cardinality(s) - 1
      BY <2>2, <2>3, Smaller
    <3> HIDE DEF Bad
    <3>2. QED
      BY <2>1, <3>1
  <2>5. products[s \ {Pick(s)}] \in Nat
    BY <2>2, <2>4
  <2>6. products[s] = v[Pick(s)] * products[s \ {Pick(s)}] /\ v[Pick(s)] \in Nat
    BY <1>7, <2>2, <2>3
  <2>7. v[Pick(s)] * products[s \ {Pick(s)}] \in Nat
    BY <2>5, <2>6
  <2>8. QED
    BY <2>6, <2>7, Zenon
<1>10. QED
  BY <1>8, <1>9

Prefixes(f, v, m) == \A k \in 1 .. m : f[1 .. k] = v[k] + f[1 .. k - 1]

\* The sums of the first k numbers.
LEMMA PrefixSum ==
  ASSUME NEW m \in Nat, NEW v, NEW f, IsSum(f, v, 1 .. m)
  PROVE  Prefixes(f, v, m)
<1> SUFFICES ASSUME NEW k \in 1 .. m PROVE f[1 .. k] = v[k] + f[1 .. k - 1]
  BY DEF Prefixes
<1>1. 1 .. k \in SUBSET (1 .. m) /\ k \in 1 .. k
  OBVIOUS
<1>2. (1 .. k) \ {k} = 1 .. k - 1
  OBVIOUS
<1>3. f[1 .. k] = v[k] + f[(1 .. k) \ {k}]
  BY <1>1 DEF IsSum
<1>4. QED
  BY <1>2, <1>3

\* v is w with as many zeros in front.
Shifted(v, w, m, n, drop) ==
  /\ m = n + drop /\ v \in [1 .. m -> Int] /\ w \in [1 .. n -> Int]
  /\ \A d \in 1 .. drop : v[d] = 0
  /\ \A d \in 1 .. n : v[d + drop] = w[d]

\* Zeros in front of the numbers w do not change their sum.
LEMMA SumShift ==
  ASSUME NEW m \in Nat, NEW n \in Nat, NEW drop \in Nat, NEW v, NEW w,
         Shifted(v, w, m, n, drop)
  PROVE  SumFunction(v) = SumFunction(w)
<1>0. m = n + drop /\ v \in [1 .. m -> Int] /\ w \in [1 .. n -> Int]
  BY DEF Shifted
<1>1. IsFiniteSet(1 .. m) /\ IsFiniteSet(1 .. n)
  BY FS_Interval
<1>2. PICK f : IsSum(f, v, 1 .. m) /\ SumFunction(v) = f[1 .. m]
  BY <1>0, <1>1, SumIs
<1>3. PICK g : IsSum(g, w, 1 .. n) /\ SumFunction(w) = g[1 .. n]
  BY <1>0, <1>1, SumIs
<1>4. f[1 .. 0] = 0 /\ g[1 .. 0] = 0
  <2>1. 1 .. 0 = {}
    OBVIOUS
  <2>2. QED
    BY <1>2, <1>3, <2>1 DEF IsSum
<1> DEFINE Same(k) == f[1 .. k] = IF k <= drop THEN 0 ELSE g[1 .. k - drop]
           Bad == {k \in 0 .. m : ~ Same(k)}
<1>5. CASE Bad = {}
  <2>1. m \in 0 .. m
    OBVIOUS
  <2>2. Same(m)
    <3> HIDE DEF Same
    <3>1. QED
      BY <1>5, <2>1
  <2>3. CASE n = 0
    BY <1>0, <1>2, <1>3, <1>4, <2>2, <2>3
  <2>4. CASE n # 0
    <3>1. ~ (m <= drop) /\ m - drop = n
      BY <1>0, <2>4
    <3>2. QED
      BY <1>2, <1>3, <2>2, <3>1
  <2>5. QED
    BY <2>3, <2>4
<1>6. CASE Bad # {}
  <2>1. PICK k \in Bad : \A j \in Bad : k <= j
    <3>1. Bad \in SUBSET Nat
      OBVIOUS
    <3> HIDE DEF Bad
    <3>2. QED
      BY <1>6, <3>1, LeastNumber
  <2>2. k \in 0 .. m /\ ~ Same(k)
    <3> HIDE DEF Same
    <3>1. QED
      OBVIOUS
  <2>3. k # 0
    <3>1. Same(0)
      BY <1>4
    <3> HIDE DEF Same
    <3>2. QED
      BY <2>2, <3>1
  <2>4. k \in 1 .. m /\ k - 1 \in 0 .. m /\ ~ (k <= k - 1)
    BY <2>2, <2>3
  <2>5. Same(k - 1)
    <3>1. k - 1 \notin Bad
      <4> HIDE DEF Bad
      <4>1. QED
        BY <2>1, <2>4
    <3> HIDE DEF Same
    <3>2. QED
      BY <2>4, <3>1
  <2>6. f[1 .. k] = v[k] + f[1 .. k - 1]
    <3>1. Prefixes(f, v, m)
      BY <1>2, PrefixSum
    <3>2. k \in 1 .. m
      BY <2>4
    <3> HIDE DEF Bad
    <3>3. QED
      BY <3>1, <3>2 DEF Prefixes
  <2>7. CASE k <= drop
    <3>1. k - 1 <= drop /\ k \in 1 .. drop
      BY <2>4, <2>7
    <3>2. f[1 .. k - 1] = 0 /\ v[k] = 0
      BY <2>5, <3>1 DEF Shifted
    <3>3. f[1 .. k] = 0
      BY <2>6, <3>2
    <3>4. QED
      BY <2>2, <2>7, <3>3
  <2>8. CASE ~ (k <= drop)
    <3> DEFINE j == k - drop
    <3>1. j \in 1 .. n /\ k = j + drop
      BY <1>0, <2>4, <2>8
    <3>2. v[k] = w[j]
      BY <3>1 DEF Shifted
    <3>3. f[1 .. k - 1] = g[1 .. j - 1]
      <4>1. CASE k - 1 <= drop
        <5>1. j - 1 = 0
          BY <2>4, <2>8, <4>1
        <5>2. f[1 .. k - 1] = 0 /\ g[1 .. j - 1] = 0
          BY <1>4, <2>5, <4>1, <5>1
        <5>3. QED
          BY <5>2
      <4>2. CASE ~ (k - 1 <= drop)
        <5>1. (k - 1) - drop = j - 1
          BY <2>4
        <5>2. QED
          BY <2>5, <4>2, <5>1
      <4>3. QED
        BY <4>1, <4>2
    <3>4. g[1 .. j] = w[j] + g[1 .. j - 1]
      <4> HIDE DEF j
      <4>1. QED
        <5>1. Prefixes(g, w, n)
          BY <1>3, PrefixSum
        <5>2. j \in 1 .. n
          BY <3>1
        <5> HIDE DEF Bad
        <5>3. QED
          BY <5>1, <5>2 DEF Prefixes
    <3>5. f[1 .. k] = g[1 .. j]
      <4> HIDE DEF j
      <4>1. QED
        BY <2>6, <3>2, <3>3, <3>4
    <3>6. QED
      BY <2>2, <2>8, <3>5
  <2>9. QED
    BY <2>7, <2>8
<1>7. QED
  BY <1>5, <1>6

-----------------------------------------------------------------------------
(***************************************************************************)
(* Strides, and what is reached with them.                                 *)
(***************************************************************************)
LEMMA ContiguousType ==
  ASSUME NEW size \in Seq(Nat)
  PROVE  Contiguous(size) \in Seq(Nat) /\ Len(Contiguous(size)) = Len(size)
<1> DEFINE n == Len(size)
           At1(d) == FoldFunctionOnSet(Times, 1, size, d + 1 .. n)
<1>1. n \in Nat /\ \A d \in 1 .. n : size[d] \in Nat
  OBVIOUS
<1>2. \A d \in 1 .. n : At1(d) \in Nat
  <2> TAKE d \in 1 .. n
  <2> DEFINE S == d + 1 .. n
  <2>1. IsFiniteSet(S)
    <3>1. d + 1 \in Int /\ n \in Int
      BY <1>1
    <3> HIDE DEF n
    <3>2. QED
      BY <3>1, FS_Interval
  <2>2. \A e \in S : size[e] \in Nat
    BY <1>1
  <2> HIDE DEF S
  <2>3. FoldFunctionOnSet(Times, 1, size, S) \in Nat
    BY <2>1, <2>2, ProductNat
  <2>4. QED
    BY <2>3 DEF S
<1> DEFINE list == [d \in 1 .. n |-> IF size[d] = 1 THEN 0 ELSE At1(d)]
<1>3. Contiguous(size) = list
  BY DEF Contiguous
<1> HIDE DEF At1, n
<1>4. list \in [1 .. n -> Nat]
  BY <1>2
<1> HIDE DEF list
<1>5. list \in Seq(Nat) /\ Len(list) = n
  BY <1>1, <1>4
<1>6. QED
  BY <1>3, <1>5 DEF n

\* The sizes and strides of x are lists of numbers, as many of one as of the other.
Strided(x) == x.size \in Seq(Nat) /\ x.stride \in Seq(Nat) /\ Len(x.stride) = Len(x.size)

LEMMA ExpandedStrideType ==
  ASSUME NEW x, Strided(x), NEW want \in Seq(Nat)
  PROVE  ExpandedStride(x, want) \in Seq(Nat) /\ Len(ExpandedStride(x, want)) = Len(want)
<1> DEFINE m == Len(want)
           n == Len(x.size)
           At1(d) == IF FromRight(x.size, m + 1 - d, 1) = 1 THEN 0
                     ELSE FromRight(x.stride, m + 1 - d, 0)
           list == [d \in 1 .. m |-> At1(d)]
<1>1. m \in Nat /\ n \in Nat /\ Len(x.stride) = n /\ \A d \in 1 .. n : x.stride[d] \in Nat
  BY DEF Strided
<1>2. \A d \in 1 .. m : At1(d) \in Nat
  <2> TAKE d \in 1 .. m
  <2> DEFINE k == m + 1 - d
  <2>1. k \in 1 .. m
    BY <1>1
  <2>2. k <= n => n + 1 - k \in 1 .. n
    <3> HIDE DEF k, n, m
    <3>1. QED
      BY <1>1, <2>1
  <2>3. FromRight(x.stride, k, 0) \in Nat
    <3>1. CASE k <= n
      <4>1. FromRight(x.stride, k, 0) = x.stride[n + 1 - k]
        BY <1>1, <3>1 DEF FromRight
      <4>2. QED
        BY <1>1, <2>2, <3>1, <4>1
    <3>2. CASE ~ (k <= n)
      BY <1>1, <3>2 DEF FromRight
    <3>3. QED
      BY <3>1, <3>2
  <2>4. QED
    BY <2>3
<1>3. ExpandedStride(x, want) = list
  BY DEF ExpandedStride
<1> HIDE DEF At1, m
<1>4. list \in Seq(Nat) /\ Len(list) = m
  BY <1>1, <1>2
<1>5. QED
  BY <1>3, <1>4 DEF m

\* The dimensions that x lacks have stride zero, as have those where it has size
\* one; the others keep theirs and their size.
LEMMA ExpandedStrideFacts ==
  ASSUME NEW x, Strided(x), NEW want \in Seq(Nat), NEW drop \in Nat,
         Len(want) = Len(x.size) + drop, Expandable(x.size, want)
  PROVE  /\ \A d \in 1 .. drop : ExpandedStride(x, want)[d] = 0
         /\ \A d \in 1 .. Len(x.size) :
              IF x.size[d] = 1 THEN ExpandedStride(x, want)[d + drop] = 0
              ELSE /\ ExpandedStride(x, want)[d + drop] = x.stride[d]
                   /\ want[d + drop] = x.size[d]
<1> DEFINE m == Len(want)
           n == Len(x.size)
<1>1. /\ m \in Nat /\ n \in Nat /\ Len(x.stride) = n /\ m = n + drop
      /\ \A d \in 1 .. n : x.size[d] \in Nat
  BY DEF Strided
<1>2. \A d \in 1 .. m : ExpandedStride(x, want)[d] =
        IF FromRight(x.size, m + 1 - d, 1) = 1 THEN 0 ELSE FromRight(x.stride, m + 1 - d, 0)
  BY DEF ExpandedStride
<1>3. \A k \in 1 .. m : FromRight(x.size, k, 1) \in {1, FromRight(want, k, 1)}
  BY DEF Expandable
<1> HIDE DEF m, n
<1>4. ASSUME NEW d \in 1 .. drop
      PROVE  ExpandedStride(x, want)[d] = 0
  <2>1. d \in 1 .. m /\ ~ (m + 1 - d <= n)
    BY <1>1
  <2>2. FromRight(x.size, m + 1 - d, 1) = 1
    BY <2>1 DEF FromRight, n
  <2>3. QED
    BY <1>2, <2>1, <2>2
<1>5. ASSUME NEW d \in 1 .. n
      PROVE  IF x.size[d] = 1 THEN ExpandedStride(x, want)[d + drop] = 0
             ELSE /\ ExpandedStride(x, want)[d + drop] = x.stride[d]
                  /\ want[d + drop] = x.size[d]
  <2> DEFINE e == d + drop
             k == m + 1 - e
  <2>1. /\ e \in 1 .. m /\ k \in 1 .. m /\ k <= n /\ k <= m
        /\ n + 1 - k = d /\ m + 1 - k = e
    BY <1>1
  <2> HIDE DEF e, k
  <2>2. /\ FromRight(x.size, k, 1) = x.size[d] /\ FromRight(x.stride, k, 0) = x.stride[d]
        /\ FromRight(want, k, 1) = want[e]
    BY <1>1, <2>1 DEF FromRight, n, m
  <2>3. ExpandedStride(x, want)[e] = IF x.size[d] = 1 THEN 0 ELSE x.stride[d]
    BY <1>2, <2>1, <2>2 DEF k
  <2>4. x.size[d] \in {1, want[e]}
    BY <1>3, <2>1, <2>2
  <2>5. QED
    BY <2>3, <2>4 DEF e
<1>6. QED
  BY <1>4, <1>5 DEF n

\* A view y that expands x.
Expands1(y, x, want) ==
  /\ y.size = want /\ y.stride = ExpandedStride(x, want)
  /\ y.storage = x.storage /\ y.offset = x.offset

LEMMA StridedNumbers ==
  ASSUME NEW x, Strided(x)
  PROVE  /\ Len(x.size) \in Nat
         /\ \A d \in 1 .. Len(x.size) : x.size[d] \in Nat /\ x.stride[d] \in Nat
<1> DEFINE size == x.size
           stride == x.stride
<1>1. size \in Seq(Nat) /\ stride \in Seq(Nat) /\ Len(stride) = Len(size)
  BY DEF Strided
<1> HIDE DEF size, stride
<1>2. Len(size) \in Nat /\ \A d \in 1 .. Len(size) : size[d] \in Nat /\ stride[d] \in Nat
  BY <1>1
<1>3. QED
  BY <1>2 DEF size, stride

\* The element of the view at a position is that of x at the position without the
\* dimensions that x lacks.
LEMMA ViewShows ==
  ASSUME NEW x, Strided(x), NEW want \in Seq(Nat), NEW y, Expands1(y, x, want),
         Len(x.size) <= Len(want), Expandable(x.size, want)
  PROVE  ShowsExpanded(y, x, want)
<1> DEFINE m == Len(want)
           n == Len(x.size)
           drop == m - n
           stride == ExpandedStride(x, want)
<1>1. /\ m \in Nat /\ n \in Nat /\ drop \in Nat /\ m = n + drop
      /\ \A d \in 1 .. n : x.size[d] \in Nat /\ x.stride[d] \in Nat
  <2>1. m \in Nat /\ n \in Nat /\ n <= m
    BY StridedNumbers
  <2>2. \A d \in 1 .. n : x.size[d] \in Nat /\ x.stride[d] \in Nat
    BY StridedNumbers
  <2> HIDE DEF m, n
  <2>3. drop \in Nat /\ m = n + drop
    BY <2>1
  <2>4. QED
    BY <2>1, <2>2, <2>3
<1>2. stride \in Seq(Nat) /\ Len(stride) = m
  BY ExpandedStrideType
<1>3. /\ \A d \in 1 .. drop : stride[d] = 0
      /\ \A d \in 1 .. n : IF x.size[d] = 1 THEN stride[d + drop] = 0
                           ELSE stride[d + drop] = x.stride[d]
  <2> HIDE DEF drop
  <2>1. QED
    BY <1>1, ExpandedStrideFacts
<1>4. ASSUME NEW pos \in Positions(want)
      PROVE  Reach(y, pos) =
               Reach(x, [d \in DOMAIN x.size |-> IF x.size[d] = 1 THEN 0 ELSE pos[d + drop]])
  <2> DEFINE at == [d \in DOMAIN x.size |-> IF x.size[d] = 1 THEN 0 ELSE pos[d + drop]]
             v == [d \in DOMAIN pos |-> pos[d] * y.stride[d]]
             w == [d \in DOMAIN at |-> at[d] * x.stride[d]]
  <2>1. /\ DOMAIN want = 1 .. m /\ DOMAIN x.size = 1 .. n
        /\ DOMAIN pos = 1 .. m /\ DOMAIN at = 1 .. n
    BY DEF Positions, Strided
  <2>2. \A d \in 1 .. m : pos[d] \in Nat
    BY <2>1 DEF Positions
  <2> HIDE DEF m, n, drop, stride
  <2>3. y.stride = stride /\ \A d \in 1 .. m : stride[d] \in Nat
    BY <1>2 DEF Expands1, stride
  <2>4. \A d \in 1 .. n : d + drop \in 1 .. m
    BY <1>1
  <2>5. \A d \in 1 .. n : at[d] \in Nat /\ at[d] = IF x.size[d] = 1 THEN 0 ELSE pos[d + drop]
    BY <2>1, <2>2, <2>4
  <2>6. v = [d \in 1 .. m |-> pos[d] * stride[d]]
    BY <2>1, <2>3
  <2> HIDE DEF at
  <2>7. w = [d \in 1 .. n |-> at[d] * x.stride[d]]
    BY <2>1
  <2> HIDE DEF v, w
  <2>8. v \in [1 .. m -> Int]
    BY <2>2, <2>3, <2>6
  <2>9. w \in [1 .. n -> Int]
    BY <1>1, <2>5, <2>7
  <2>10. \A d \in 1 .. drop : v[d] = 0
    <3> TAKE d \in 1 .. drop
    <3>1. d \in 1 .. m /\ stride[d] = 0
      BY <1>1, <1>3
    <3>2. QED
      BY <2>2, <2>6, <3>1
  <2>11. \A d \in 1 .. n : v[d + drop] = w[d]
    <3> TAKE d \in 1 .. n
    <3>1. /\ d + drop \in 1 .. m /\ pos[d + drop] \in Nat /\ x.stride[d] \in Nat
          /\ v[d + drop] = pos[d + drop] * stride[d + drop]
          /\ w[d] = at[d] * x.stride[d]
      BY <1>1, <2>2, <2>4, <2>6, <2>7
    <3>2. CASE x.size[d] = 1
      <4>1. stride[d + drop] = 0 /\ at[d] = 0
        BY <1>3, <2>5, <3>2
      <4>2. v[d + drop] = 0 /\ w[d] = 0
        BY <3>1, <4>1
      <4>3. QED
        BY <4>2
    <3>3. CASE x.size[d] # 1
      <4>1. stride[d + drop] = x.stride[d] /\ at[d] = pos[d + drop]
        BY <1>3, <2>5, <3>3
      <4>2. QED
        BY <3>1, <4>1
    <3>4. QED
      BY <3>2, <3>3
  <2>12. SumFunction(v) = SumFunction(w)
    <3>1. Shifted(v, w, m, n, drop)
      BY <1>1, <2>8, <2>9, <2>10, <2>11 DEF Shifted
    <3>2. m \in Nat /\ n \in Nat /\ drop \in Nat
      BY <1>1
    <3>3. QED
      BY <3>1, <3>2, SumShift
  <2>13. Reach(y, pos) = x.offset + SumFunction(v)
    BY DEF Reach, v, Expands1
  <2>14. Reach(x, at) = x.offset + SumFunction(w)
    BY DEF Reach, w
  <2>15. QED
    BY <2>12, <2>13, <2>14 DEF at
<1>5. QED
  BY <1>4 DEF ShowsExpanded, Expands1

\* And the view reaches no further into the storage than x.
LEMMA ViewExtent ==
  ASSUME NEW x, Strided(x), NEW want \in Seq(Nat), NEW y, Expands1(y, x, want),
         x.size # <<>>, Len(x.size) <= Len(want), Expandable(x.size, want)
  PROVE  Extent(y) = Extent(x)
<1> DEFINE m == Len(want)
           n == Len(x.size)
           drop == m - n
           stride == ExpandedStride(x, want)
           v == [d \in 1 .. m |-> (want[d] - 1) * stride[d]]
           w == [d \in 1 .. n |-> (x.size[d] - 1) * x.stride[d]]
<1>1. /\ m \in Nat /\ n \in Nat /\ drop \in Nat /\ m = n + drop /\ n # 0
      /\ \A d \in 1 .. n : x.size[d] \in Nat /\ x.stride[d] \in Nat
      /\ \A d \in 1 .. m : want[d] \in Nat
  <2>1. x.size \in Seq(Nat) /\ x.stride \in Seq(Nat) /\ Len(x.stride) = n
    BY DEF Strided
  <2>2. n \in Nat /\ n # 0 /\ m \in Nat
    BY <2>1
  <2>3. \A d \in 1 .. n : x.size[d] \in Nat /\ x.stride[d] \in Nat
    BY StridedNumbers
  <2>4. \A d \in 1 .. m : want[d] \in Nat
    OBVIOUS
  <2>5. drop \in Nat /\ m = n + drop
    BY <2>2
  <2>6. QED
    BY <2>2, <2>3, <2>4, <2>5
<1>2. stride \in Seq(Nat) /\ Len(stride) = m
  BY ExpandedStrideType
<1>3. /\ \A d \in 1 .. drop : stride[d] = 0
      /\ \A d \in 1 .. n : IF x.size[d] = 1 THEN stride[d + drop] = 0
                           ELSE stride[d + drop] = x.stride[d] /\ want[d + drop] = x.size[d]
  <2> HIDE DEF drop
  <2>1. QED
    BY <1>1, ExpandedStrideFacts
<1>4. want # <<>>
  BY <1>1
<1>5. Extent(y) = 1 + x.offset + SumFunction(v) /\ Extent(x) = 1 + x.offset + SumFunction(w)
  BY <1>4 DEF Extent, Expands1
<1>6. \A d \in 1 .. m : stride[d] \in Nat
  BY <1>2
<1> HIDE DEF m, n, drop, stride
<1>7. v \in [1 .. m -> Int] /\ w \in [1 .. n -> Int]
  <2>1. \A d \in 1 .. m : (want[d] - 1) * stride[d] \in Int
    <3> TAKE d \in 1 .. m
    <3>1. want[d] - 1 \in Int /\ stride[d] \in Int
      BY <1>1, <1>6
    <3>2. QED
      BY <3>1
  <2>2. \A d \in 1 .. n : (x.size[d] - 1) * x.stride[d] \in Int
    <3> TAKE d \in 1 .. n
    <3>1. x.size[d] - 1 \in Int /\ x.stride[d] \in Int
      BY <1>1
    <3>2. QED
      BY <3>1
  <2>3. QED
    BY <2>1, <2>2
<1>8. \A d \in 1 .. drop : v[d] = 0
  <2> TAKE d \in 1 .. drop
  <2>1. d \in 1 .. m /\ stride[d] = 0 /\ want[d] - 1 \in Int
    BY <1>1, <1>3
  <2>2. QED
    BY <2>1
<1>9. \A d \in 1 .. n : v[d + drop] = w[d]
  <2> TAKE d \in 1 .. n
  <2>1. /\ d + drop \in 1 .. m /\ want[d + drop] - 1 \in Int /\ x.stride[d] \in Nat
        /\ x.size[d] - 1 \in Int
        /\ v[d + drop] = (want[d + drop] - 1) * stride[d + drop]
        /\ w[d] = (x.size[d] - 1) * x.stride[d]
    BY <1>1
  <2> HIDE DEF v, w
  <2>2. CASE x.size[d] = 1
    <3>1. stride[d + drop] = 0 /\ x.size[d] - 1 = 0
      BY <1>3, <2>2
    <3>2. v[d + drop] = 0 /\ w[d] = 0
      BY <2>1, <3>1
    <3>3. QED
      BY <3>2
  <2>3. CASE x.size[d] # 1
    <3>1. stride[d + drop] = x.stride[d] /\ want[d + drop] = x.size[d]
      BY <1>3, <2>3
    <3>2. QED
      BY <2>1, <3>1
  <2>4. QED
    BY <2>2, <2>3
<1> HIDE DEF v, w
<1>10. SumFunction(v) = SumFunction(w)
  <2>1. Shifted(v, w, m, n, drop)
    BY <1>1, <1>7, <1>8, <1>9 DEF Shifted
  <2>2. m \in Nat /\ n \in Nat /\ drop \in Nat
    BY <1>1
  <2>3. QED
    BY <2>1, <2>2, SumShift
<1>11. QED
  BY <1>5, <1>10

-----------------------------------------------------------------------------
(***************************************************************************)
(* The types of what is computed.                                          *)
(***************************************************************************)
LEMMA SizeListFacts ==
  ASSUME NEW size \in SizeList
  PROVE  /\ size \in Seq(Nat) /\ Len(size) \in 0 .. 5
         /\ \A d \in 1 .. Len(size) : size[d] \in Nat \ {0}
<1>1. size \in Seq(Nat \ {0}) /\ Len(size) <= 5
  BY DEF SizeList
<1>2. \A d \in 1 .. Len(size) : size[d] \in Nat \ {0}
  BY <1>1
<1>3. Len(size) \in 0 .. 5
  <2> DEFINE n == Len(size)
  <2>1. n \in Nat /\ n <= 5
    BY <1>1
  <2> HIDE DEF n
  <2>2. n \in 0 .. 5
    BY <2>1
  <2>3. QED
    BY <2>2 DEF n
<1>4. QED
  BY <1>2, <1>3, SizeListIsList

LEMMA NumbersAreSizes ==
  ASSUME NEW n \in 0 .. 5, NEW size \in [1 .. n -> Nat \ {0}]
  PROVE  size \in SizeList /\ Len(size) = n
<1>1. size \in Seq(Nat \ {0}) /\ Len(size) = n
  OBVIOUS
<1>2. QED
  BY <1>1 DEF SizeList

LEMMA EmptyIsSizes == <<>> \in SizeList
<1>1. <<>> \in Seq(Nat \ {0}) /\ Len(<<>>) <= 5
  OBVIOUS
<1>2. QED
  BY <1>1 DEF SizeList

\* The common sizes of lists of sizes are such a list.
LEMMA CommonSizeList ==
  ASSUME NEW n \in Nat \ {0}, NEW lists \in [1 .. n -> SizeList]
  PROVE  CommonSize(lists) \in SizeList
<1> DEFINE ranks == {Len(lists[j]) : j \in 1 .. n}
           rank == Max(ranks)
           more(k) == {j \in 1 .. n : FromRight(lists[j], k, 1) # 1}
           FirstSize(k) == IF more(k) = {} THEN 1 ELSE FromRight(lists[Min(more(k))], k, 1)
<1>1. \A j \in 1 .. n : /\ lists[j] \in SizeList /\ Len(lists[j]) \in 0 .. 5
                        /\ \A d \in 1 .. Len(lists[j]) : lists[j][d] \in Nat \ {0}
  BY SizeListFacts
<1>2. rank \in 0 .. 5
  <2>1. ranks \subseteq 0 .. 5
    BY <1>1
  <2> HIDE DEF ranks
  <2>2. ranks \subseteq Nat /\ \A r \in ranks : r <= 5
    BY <2>1
  <2>3. ranks # {}
    <3>1. Len(lists[1]) \in ranks
      BY DEF ranks
    <3>2. QED
      BY <3>1
  <2>4. 5 \in Nat
    OBVIOUS
  <2>5. QED
    BY <2>1, <2>2, <2>3, <2>4, MaxIn
<1>3. ASSUME NEW k \in Nat \ {0}, NEW j \in 1 .. n
      PROVE  FromRight(lists[j], k, 1) \in Nat \ {0}
  <2> DEFINE size == lists[j]
  <2>0. size \in SizeList
    OBVIOUS
  <2> HIDE DEF size
  <2>1. Len(size) \in 0 .. 5 /\ \A d \in 1 .. Len(size) : size[d] \in Nat \ {0}
    BY <2>0, SizeListFacts
  <2>2. FromRight(size, k, 1) \in Nat \ {0}
    <3>1. CASE k <= Len(size)
      <4>1. Len(size) + 1 - k \in 1 .. Len(size)
        BY <2>1, <3>1
      <4>2. QED
        BY <2>1, <3>1, <4>1 DEF FromRight
    <3>2. CASE ~ (k <= Len(size))
      BY <3>2 DEF FromRight
    <3>3. QED
      BY <3>1, <3>2
  <2>3. QED
    BY <2>2 DEF size
<1>4. ASSUME NEW k \in Nat \ {0}
      PROVE  FirstSize(k) \in Nat \ {0}
  <2>1. CASE more(k) = {}
    BY <2>1
  <2>2. CASE more(k) # {}
    <3> DEFINE S == more(k)
               j == Min(S)
    <3>1. S \subseteq 1 .. n /\ S \subseteq Nat
      OBVIOUS
    <3>2. j \in S
      <4> HIDE DEF S
      <4>1. QED
        BY <2>2, <3>1, MinIn DEF S
    <3>3. j \in 1 .. n
      BY <3>1, <3>2
    <3> HIDE DEF j
    <3>4. FromRight(lists[j], k, 1) \in Nat \ {0}
      BY <1>3, <3>3
    <3>5. QED
      BY <2>2, <3>4 DEF j
  <2>3. QED
    BY <2>1, <2>2
<1>5. CommonSize(lists) = [d \in 1 .. rank |-> FirstSize(rank + 1 - d)]
  <2>1. DOMAIN lists = 1 .. n
    OBVIOUS
  <2>2. QED
    BY <2>1 DEF CommonSize
<1> HIDE DEF rank, FirstSize
<1>6. \A d \in 1 .. rank : FirstSize(rank + 1 - d) \in Nat \ {0}
  BY <1>2, <1>4
<1>7. CommonSize(lists) \in [1 .. rank -> Nat \ {0}]
  BY <1>5, <1>6
<1>8. QED
  BY <1>2, <1>7, NumbersAreSizes

\* Where x ends is beyond where it begins.
LEMMA ExtentType ==
  ASSUME NEW x, x.size \in SizeList, x.stride \in Seq(Nat), Len(x.stride) = Len(x.size),
         x.offset \in Nat
  PROVE  Extent(x) \in Nat /\ (x.size # <<>> => x.offset <= Extent(x))
<1> DEFINE n == Len(x.size)
           v == [d \in 1 .. n |-> (x.size[d] - 1) * x.stride[d]]
<1>1. n \in 0 .. 5 /\ \A d \in 1 .. n : x.size[d] \in Nat \ {0}
  BY SizeListFacts
<1>2. \A d \in 1 .. n : x.stride[d] \in Nat
  OBVIOUS
<1>3. IsFiniteSet(1 .. n)
  <2> HIDE DEF n
  <2>1. 1 \in Int /\ n \in Int
    BY <1>1
  <2>2. QED
    BY <2>1, FS_Interval
<1>4. Extent(x) = IF x.size = <<>> THEN 0 ELSE 1 + x.offset + SumFunction(v)
  BY DEF Extent
<1> HIDE DEF n
<1>5. \A d \in 1 .. n : (x.size[d] - 1) * x.stride[d] \in Nat
  <2> TAKE d \in 1 .. n
  <2>1. x.size[d] - 1 \in Nat /\ x.stride[d] \in Nat
    BY <1>1, <1>2
  <2>2. QED
    BY <2>1
<1>6. v \in [1 .. n -> Nat]
  BY <1>5
<1> HIDE DEF v
<1>7. SumFunction(v) \in Nat
  BY <1>3, <1>6, SumNat
<1>8. QED
  BY <1>4, <1>7

\* A storage of n elements with room for m is one with at least n.
LEMMA Room ==
  ASSUME NEW n \in Nat, NEW m \in Nat
  PROVE  /\ Max({n, m}) \in Nat /\ n <= Max({n, m}) /\ m <= Max({n, m})
         /\ m <= n => Max({n, m}) = n
<1>1. \E b \in {n, m} : \A a \in {n, m} : b >= a
  <2>1. CASE n <= m
    BY <2>1
  <2>2. CASE ~ (n <= m)
    BY <2>2
  <2>3. QED
    BY <2>1, <2>2
<1>2. Max({n, m}) \in {n, m} /\ \A a \in {n, m} : Max({n, m}) >= a
  BY <1>1 DEF Max
<1>3. QED
  BY <1>2

-----------------------------------------------------------------------------
(***************************************************************************)
(* The types of the variables.  The locals of a call are of the sizes that *)
(* it needs at its place.                                                  *)
(***************************************************************************)
Shaped(x) == x \in AllTensors /\ Len(x.stride) = Len(x.size)

Objects ==
  /\ cap \in [Storage -> Nat] /\ tensor \in [Tensor -> AllTensors]
  /\ \A t \in Tensor : Shaped(tensor[t])

Ghosts ==
  /\ elt \in ElementType /\ handler \in Handler /\ moved \in [Thread -> SUBSET Nat]
  /\ before \in [Thread -> [Tensor -> AllTensors]] /\ calls \in [Thread -> 0 .. MaxCalls]

\* The locals f, whatever the place.
Fields(f) ==
  /\ f.want \in SizeList /\ f.stride \in Seq(Nat) /\ f.read \in Seq(Nat) /\ f.limit \in Nat
  /\ f.storage \in Storage \cup {NoObj} /\ f.offset \in Nat
  /\ f.failed \in {"no", "arg", "infer"} /\ f.i \in Nat \ {0}
  /\ f.op = "resize" => Len(f.want) = 1

\* The lists among the locals f at the place p: no list that C or Haskell makes a
\* tensor's sizes of has more than five, and the strides are as many as the sizes.
SizesAtPlace(f, p) ==
  /\ p \in {"args", "set"} => Len(f.stride) = Len(f.want)
  /\ p = "ndCheck" => f.read = <<>>
  /\ p = "ndTake" => Len(f.read) + 1 = f.i
  /\ p = "ndInfer" => Len(f.read) = Len(f.ops)
  /\ p \in {"ndTake", "ndInfer"} => \A j \in 1 .. Len(f.read) : f.read[j] \in 0 .. 5
  /\ p = "dims" => f.read = <<>>
  /\ p = "size" => /\ \A d \in 1 .. Len(f.read) : f.read[d] \in Nat \ {0}
                   /\ Len(f.read) < f.limit /\ f.limit <= 5
  /\ p = "new" /\ f.op = "withEmpty" => f.read \in SizeList
  /\ p = "length" => f.storage \in Storage

Settled(f, p) == Fields(f) /\ SizesAtPlace(f, p)

Typed == Objects /\ Ghosts /\ \A th \in Thread : Settled(frame[th], pc[th])

\* A step of th.
LEMMA TypedStep ==
  ASSUME Typed, NEW th \in Thread, Objects', Ghosts',
         Only(th, frame, frame'), Only(th, pc, pc'), Settled(frame'[th], pc'[th])
  PROVE  Typed'
<1>1. ASSUME NEW u \in Thread
      PROVE  Settled(frame'[u], pc'[u])
  BY DEF Typed, Only
<1>2. QED
  BY <1>1 DEF Typed

\* What a step of th leaves alone that only reads.
Reads == UNCHANGED <<elt, handler, tensor, cap, before, calls>>

LEMMA ReadsKeep ==
  ASSUME Typed, Reads, moved' \in [Thread -> SUBSET Nat]
  PROVE  Objects' /\ Ghosts'
<1>1. Objects'
  BY DEF Typed, Reads, Objects, Shaped
<1>2. Ghosts'
  BY DEF Typed, Reads, Ghosts
<1>3. QED
  BY <1>1, <1>2

LEMMA TypedMove ==
  ASSUME Control, Typed, NEW th \in Thread, NEW g, NEW p, Reads,
         moved' \in [Thread -> SUBSET Nat],
         frame' = [frame EXCEPT ![th] = g], pc' = [pc EXCEPT ![th] = p], Settled(g, p)
  PROVE  Typed'
<1>1. Only(th, frame, frame') /\ frame'[th] = g /\ Only(th, pc, pc') /\ pc'[th] = p
  BY DEF Control, PerThread, Only
<1>2. Objects' /\ Ghosts'
  BY ReadsKeep
<1>3. QED
  BY <1>1, <1>2, TypedStep

LEMMA TypedPlace ==
  ASSUME Control, Typed, NEW th \in Thread, NEW p, Reads, UNCHANGED <<moved, frame>>,
         pc' = [pc EXCEPT ![th] = p], Settled(frame[th], p)
  PROVE  Typed'
<1>1. Only(th, frame, frame') /\ Only(th, pc, pc') /\ pc'[th] = p
  BY OnlyItself DEF Control, PerThread, Only
<1>2. moved' \in [Thread -> SUBSET Nat]
  BY DEF Typed, Ghosts
<1>3. Objects' /\ Ghosts'
  BY <1>2, ReadsKeep
<1>4. QED
  BY <1>1, <1>3, TypedStep

LEMMA TypedExit ==
  ASSUME Control, Typed, NEW th \in Thread, Reads, UNCHANGED <<moved, frame, pc>>
  PROVE  Typed'
BY DEF Typed, Objects, Ghosts, Reads, Shaped

LEMMA TypedError ==
  ASSUME Control, Typed, NEW th \in Thread, NEW g, NEW p, Reads, UNCHANGED moved,
         Error(th, g, p), Settled(g, p)
  PROVE  Typed'
<1>1. moved' \in [Thread -> SUBSET Nat]
  BY DEF Typed, Ghosts
<1>2. CASE UNCHANGED <<frame, pc>>
  BY <1>2, TypedExit
<1>3. CASE frame' = [frame EXCEPT ![th] = g] /\ pc' = [pc EXCEPT ![th] = p]
  BY <1>1, <1>3, TypedMove
<1>4. QED
  BY <1>2, <1>3 DEF Error, Goto

\* Places that ask nothing of the locals.
Free == {"idle", "check", "rank", "geometry", "infer", "free", "ndFree", "storage", "data",
         "peek", "capacity", "resize", "done"}

LEMMA SettledFree ==
  ASSUME NEW g, NEW p \in Free, Fields(g)
  PROVE  Settled(g, p)
BY DEF Settled, SizesAtPlace, Free

LEMMA TensorFacts ==
  ASSUME Typed, NEW t \in Tensor
  PROVE  LET x == tensor[t]
         IN  /\ x \in AllTensors /\ Shaped(x) /\ Strided(x)
             /\ x.size \in SizeList /\ x.stride \in Seq(Nat) /\ Len(x.stride) = Len(x.size)
             /\ x.offset \in Nat /\ x.storage \in Storage \cup {NoObj}
<1> DEFINE x == tensor[t]
<1>1. x \in AllTensors /\ Shaped(x)
  BY DEF Typed, Objects
<1> HIDE DEF x
<1>2. /\ x.size \in SizeList /\ x.stride \in Seq(Nat) /\ x.offset \in Nat
      /\ x.storage \in Storage \cup {NoObj}
  BY <1>1 DEF AllTensors
<1>3. Len(x.stride) = Len(x.size)
  BY <1>1 DEF Shaped
<1>4. Strided(x)
  BY <1>2, <1>3, SizeListIsList DEF Strided
<1>5. QED
  BY <1>1, <1>2, <1>3, <1>4 DEF x

\* The operand that expand is at.
LEMMA OperandFacts ==
  ASSUME Control, NEW th \in Thread, frame[th].op \notin {"none", "_resizeDim"}
  PROVE  /\ Source(th) \in Tensor /\ Source(th) \in Range(frame[th].ops)
         /\ frame[th].i \in 1 .. Len(frame[th].ops)
<1> DEFINE f == frame[th]
<1>1. f.ops \in Seq(Tensor) /\ f.i \in 1 .. Len(f.ops)
  BY DEF Control, Locals
<1>2. QED
  BY <1>1 DEF Source, Range

\* Whatever inferExpandGeometry finds, it has as many strides as sizes.
LEMMA GeometryFound ==
  ASSUME Control, Typed, NEW th \in Thread, frame[th].op \notin {"none", "_resizeDim"},
         NEW x \in GeometryAt(th)
  PROVE  Strided(x)
<1> DEFINE f == frame[th]
           y == tensor[Source(th)]
<1>1. f.limit \in Nat
  BY DEF Typed, Settled, Fields
<1>2. Strided(y)
  BY OperandFacts, TensorFacts
<1>3. CASE f.i \in moved[th]
  <2>1. x.size \in [1 .. f.limit -> Junk] /\ x.stride \in [1 .. f.limit -> Junk]
    BY <1>3 DEF GeometryAt
  <2>2. x.size \in [1 .. f.limit -> Nat] /\ x.stride \in [1 .. f.limit -> Nat]
    BY <2>1, ConstantsOK
  <2>3. /\ x.size \in Seq(Nat) /\ Len(x.size) = f.limit
        /\ x.stride \in Seq(Nat) /\ Len(x.stride) = f.limit
    <3> DEFINE n == f.limit
               a == x.size
               b == x.stride
    <3>1. n \in Nat /\ a \in [1 .. n -> Nat] /\ b \in [1 .. n -> Nat]
      BY <1>1, <2>2
    <3> HIDE DEF n, a, b
    <3>2. a \in Seq(Nat) /\ b \in Seq(Nat)
      BY <3>1, NumbersAreList
    <3>3. DOMAIN a = 1 .. n /\ DOMAIN b = 1 .. n
      BY <3>1
    <3>4. Len(a) = n /\ Len(b) = n
      BY <3>1, <3>2, <3>3
    <3>5. QED
      BY <3>2, <3>4 DEF n, a, b
  <2>4. QED
    BY <2>3 DEF Strided
<1>4. CASE f.i \notin moved[th]
  <2>1. x = [size |-> y.size, stride |-> y.stride]
    BY <1>4 DEF GeometryAt
  <2> HIDE DEF y
  <2>2. QED
    BY <1>2, <2>1 DEF Strided
<1>5. QED
  BY <1>3, <1>4

LEMMA expandTyped ==
  ASSUME Control, Typed, NEW th \in Thread, Expansion(th)
  PROVE  Typed'
<1> DEFINE f == frame[th]
           y == tensor[Source(th)]
           p == AfterExpand(f)
<1>1. /\ Locals(f, pc[th]) /\ pc[th] \in {"check", "rank", "geometry", "infer", "args", "free"}
      /\ Reads /\ moved \in [Thread -> SUBSET Nat] /\ moved' \in [Thread -> SUBSET Nat]
      /\ Fields(f) /\ SizesAtPlace(f, pc[th])
  <2>1. moved \in [Thread -> SUBSET Nat] /\ Fields(f) /\ SizesAtPlace(f, pc[th])
    BY DEF Typed, Ghosts, Settled
  <2>2. moved' = moved \/ moved' = [moved EXCEPT ![th] = {}]
    BY DEF Expansion, expandCheck, expandCheckSizes, expandGeometry, expandInfer, expandArgs,
           expandFree, mem
  <2>3. /\ Locals(f, pc[th]) /\ Reads
        /\ pc[th] \in {"check", "rank", "geometry", "infer", "args", "free"}
    BY ControlAt DEF Expansion, expandCheck, expandCheckSizes, expandGeometry, expandInfer,
                     expandArgs, expandFree, mem, Reads
  <2>4. QED
    BY <2>1, <2>2, <2>3
<1>2. Record(f) /\ f.op \in {"newExpand", "expand2d", "_expand", "_expandNd"}
  BY <1>1 DEF Locals, Place
<1>3. p \in Free /\ NextOp(f) \in Nat \ {0}
  BY <1>1 DEF AfterExpand, Free, NextOp, Fields
<1>4. /\ y.size \in SizeList /\ y.offset \in Nat /\ y.storage \in Storage \cup {NoObj}
  BY <1>2, OperandFacts, TensorFacts
<1>5. CASE expandCheck(th) \/ expandCheckSizes(th)
  <2> DEFINE g == [f EXCEPT !.failed = "arg"]
  <2>1. PICK q \in {"rank", "geometry"} :
          (UNCHANGED frame /\ pc' = [pc EXCEPT ![th] = q]) \/ Error(th, g, q)
    BY <1>5 DEF expandCheck, expandCheckSizes, Goto
  <2>2. Fields(g) /\ UNCHANGED moved
    BY <1>1, <1>2, <1>5 DEF Record, Fields, expandCheck, expandCheckSizes, mem
  <2> HIDE DEF g
  <2>3. Settled(f, q) /\ Settled(g, q)
    BY <1>1, <2>2, SettledFree DEF Free
  <2>4. QED
    BY <1>1, <2>1, <2>2, <2>3, TypedPlace, TypedError
<1>6. CASE expandGeometry(th)
  <2> DEFINE limit == Len(y.size)
             g == [f EXCEPT !.limit = limit]
  <2>1. frame' = [frame EXCEPT ![th] = g] /\ pc' = [pc EXCEPT ![th] = "infer"]
    BY <1>6 DEF expandGeometry, Goto
  <2>2. limit \in Nat
    BY <1>4, SizeListFacts
  <2> HIDE DEF limit
  <2>3. Fields(g)
    BY <1>1, <1>2, <2>2 DEF Record, Fields
  <2> HIDE DEF g
  <2>4. Settled(g, "infer")
    BY <2>3, SettledFree DEF Free
  <2>5. QED
    BY <1>1, <2>1, <2>4, TypedMove
<1>7. CASE expandInfer(th)
  <2>0. PICK x \in GeometryAt(th) :
          IF Expandable(x.size, f.want)
          THEN /\ frame' = [frame EXCEPT ![th].stride = ExpandedStride(x, f.want)]
               /\ pc' = [pc EXCEPT ![th] = "args"]
          ELSE Error(th, [f EXCEPT !.failed = "infer", !.i = NextOp(f)], p)
    BY <1>7 DEF expandInfer, Goto
  <2>1. CASE Expandable(x.size, f.want)
    <3> DEFINE stride == ExpandedStride(x, f.want)
               g == [f EXCEPT !.stride = stride]
    <3>1. frame' = [frame EXCEPT ![th] = g] /\ pc' = [pc EXCEPT ![th] = "args"]
      BY <2>0, <2>1
    <3>2. stride \in Seq(Nat) /\ Len(stride) = Len(f.want)
      <4>1. Strided(x)
        BY <1>2, GeometryFound
      <4>2. f.want \in Seq(Nat)
        BY <1>1, SizeListIsList DEF Fields
      <4>3. QED
        BY <4>1, <4>2, ExpandedStrideType
    <3> HIDE DEF stride
    <3>3. Fields(g) /\ g.stride = stride /\ g.want = f.want
      BY <1>1, <1>2, <3>2 DEF Record, Fields
    <3> HIDE DEF g
    <3>4. Settled(g, "args")
      BY <3>2, <3>3 DEF Settled, SizesAtPlace
    <3>5. QED
      BY <1>1, <3>1, <3>4, TypedMove
  <2>2. CASE ~Expandable(x.size, f.want)
    <3> DEFINE i == NextOp(f)
               g == [f EXCEPT !.failed = "infer", !.i = i]
    <3>1. Error(th, g, p) /\ UNCHANGED moved
      BY <1>7, <2>0, <2>2 DEF expandInfer, mem
    <3>2. i \in Nat \ {0}
      BY <1>3
    <3> HIDE DEF i
    <3>3. Fields(g)
      BY <1>1, <1>2, <3>2 DEF Record, Fields
    <3> HIDE DEF g, p
    <3>4. Settled(g, p)
      BY <1>3, <3>3, SettledFree
    <3>5. QED
      BY <1>1, <3>1, <3>4, TypedError
  <2>3. QED
    BY <2>1, <2>2
<1>8. CASE expandArgs(th)
  <2> DEFINE storage == y.storage
             offset == y.offset
             g == [f EXCEPT !.storage = storage, !.offset = offset]
  <2>1. frame' = [frame EXCEPT ![th] = g] /\ pc' = [pc EXCEPT ![th] = "set"] /\ pc[th] = "args"
    BY <1>8 DEF expandArgs, Goto, At
  <2>2. storage \in Storage \cup {NoObj} /\ offset \in Nat
    BY <1>4
  <2> HIDE DEF storage, offset
  <2>3. Fields(g) /\ g.stride = f.stride /\ g.want = f.want
    BY <1>1, <1>2, <2>2 DEF Record, Fields
  <2> HIDE DEF g
  <2>4. Settled(g, "set")
    BY <1>1, <2>1, <2>3 DEF Settled, SizesAtPlace
  <2>5. QED
    BY <1>1, <2>1, <2>4, TypedMove
<1>9. CASE expandFree(th)
  <2> DEFINE i == NextOp(f)
             g == [f EXCEPT !.i = i]
  <2>1. frame' = [frame EXCEPT ![th] = g] /\ pc' = [pc EXCEPT ![th] = p]
    BY <1>9 DEF expandFree, Goto
  <2>2. i \in Nat \ {0}
    BY <1>3
  <2> HIDE DEF i
  <2>3. Fields(g)
    BY <1>1, <1>2, <2>2 DEF Record, Fields
  <2> HIDE DEF g, p
  <2>4. Settled(g, p)
    BY <1>3, <2>3, SettledFree
  <2>5. QED
    BY <1>1, <2>1, <2>4, TypedMove
<1>10. QED
  BY <1>5, <1>6, <1>7, <1>8, <1>9 DEF Expansion

\* What expandNd finds at the copied pointers are lists of sizes.
LEMMA SizesFound ==
  ASSUME Control, Typed, NEW th \in Thread, pc[th] = "ndInfer", NEW lists \in SizesAt(th)
  PROVE  /\ Len(frame[th].ops) \in Nat \ {0}
         /\ lists \in [1 .. Len(frame[th].ops) -> SizeList]
<1> DEFINE f == frame[th]
           n == Len(f.ops)
<1>1. f.op = "_expandNd" /\ f.ops \in Seq(Tensor) /\ n \in Nat \ {0}
  BY DEF Control, Locals, Place
<1>2. \A j \in 1 .. n : f.read[j] \in 0 .. 5 /\ f.ops[j] \in Tensor
  <2>1. Len(f.read) = n /\ \A j \in 1 .. Len(f.read) : f.read[j] \in 0 .. 5
    BY DEF Typed, Settled, SizesAtPlace
  <2>2. QED
    BY <1>1, <2>1
<1>3. DOMAIN lists = 1 .. n /\ lists = [j \in 1 .. n |-> lists[j]]
  BY <1>1 DEF SizesAt
<1>4. ASSUME NEW j \in 1 .. n
      PROVE  lists[j] \in SizeList
  <2>1. CASE j \in moved[th]
    <3>1. lists[j] \in [1 .. f.read[j] -> Junk]
      BY <1>3, <2>1 DEF SizesAt
    <3>2. Junk \subseteq Nat \ {0}
      BY ConstantsOK
    <3>3. lists[j] \in [1 .. f.read[j] -> Nat \ {0}]
      BY <3>1, <3>2
    <3>4. QED
      BY <1>2, <3>3, NumbersAreSizes
  <2>2. CASE j \notin moved[th]
    <3>1. lists[j] = tensor[f.ops[j]].size
      BY <1>3, <2>2 DEF SizesAt
    <3>2. QED
      BY <1>2, <3>1, TensorFacts
  <2>3. QED
    BY <2>1, <2>2
<1>5. QED
  BY <1>1, <1>3, <1>4

LEMMA expandNdTyped ==
  ASSUME Control, Typed, NEW th \in Thread,
         expandNdCheck(th) \/ expandNdTake(th) \/ expandNdInfer(th) \/ expandNdFree(th)
  PROVE  Typed'
<1> DEFINE f == frame[th]
           n == Len(f.ops)
<1>1. /\ Locals(f, pc[th]) /\ pc[th] \in {"ndCheck", "ndTake", "ndInfer", "ndFree"} /\ Reads
      /\ moved \in [Thread -> SUBSET Nat] /\ Fields(f) /\ SizesAtPlace(f, pc[th])
  BY ControlAt DEF expandNdCheck, expandNdTake, expandNdInfer, expandNdFree, mem, Reads, Typed,
                   Ghosts, Settled
<1>2. /\ Record(f) /\ f.op = "_expandNd" /\ f.ops \in Seq(Tensor) /\ n \in Nat
      /\ DOMAIN f.ops = 1 .. n
  BY <1>1 DEF Locals, Place
<1>3. NextRound(f) = (IF f.i < n THEN f.i + 1 ELSE 1) /\ NextRound(f) \in Nat \ {0}
  BY <1>1, <1>2 DEF NextRound, Fields
<1>4. CASE expandNdCheck(th)
  <2> DEFINE i == NextRound(f)
             g == [f EXCEPT !.i = i]
             h == [g EXCEPT !.failed = "arg"]
             p == IF f.i < n THEN "ndCheck" ELSE "ndTake"
  <2>0. pc[th] = "ndCheck"
    BY <1>4 DEF expandNdCheck, At
  <2>1. /\ (frame' = [frame EXCEPT ![th] = g] /\ pc' = [pc EXCEPT ![th] = p])
             \/ Error(th, h, IF f.i < Len(g.ops) THEN "ndCheck" ELSE "ndTake")
        /\ Len(g.ops) = n
        /\ UNCHANGED moved
    BY <1>2, <1>4 DEF expandNdCheck, Goto, mem, Record
  <2>2. i = (IF f.i < n THEN f.i + 1 ELSE 1) /\ i \in Nat \ {0}
    BY <1>3
  <2> HIDE DEF i
  <2>3. /\ Fields(g) /\ g.read = f.read /\ g.i = i
        /\ Fields(h) /\ h.read = f.read /\ h.i = i
    BY <1>1, <1>2, <2>2 DEF Record, Fields
  <2> HIDE DEF g, h
  <2>4. f.read = <<>>
    BY <1>1, <2>0 DEF SizesAtPlace
  <2>5. Settled(g, p) /\ Settled(h, p)
    <3>1. Len(<<>>) = 0
      OBVIOUS
    <3>2. QED
      BY <2>2, <2>3, <2>4, <3>1 DEF Settled, SizesAtPlace
  <2>6. Error(th, h, IF f.i < Len(g.ops) THEN "ndCheck" ELSE "ndTake") => Error(th, h, p)
    BY <2>1
  <2> HIDE DEF p
  <2>7. moved' \in [Thread -> SUBSET Nat]
    BY <1>1, <2>1
  <2>8. QED
    BY <1>1, <2>1, <2>5, <2>6, <2>7, TypedMove, TypedError DEF p
<1>5. CASE expandNdTake(th)
  <2> DEFINE i == NextRound(f)
             rank == Len(tensor[Source(th)].size)
             read == Append(f.read, rank)
             g == [f EXCEPT !.read = read, !.i = i]
             p == IF f.i < n THEN "ndTake" ELSE "ndInfer"
  <2>0. pc[th] = "ndTake" /\ moved' = [moved EXCEPT ![th] = @ \ {f.i}]
    BY <1>5 DEF expandNdTake, At
  <2>1. frame' = [frame EXCEPT ![th] = g] /\ pc' = [pc EXCEPT ![th] = p]
    BY <1>5 DEF expandNdTake, Goto
  <2>2. rank \in 0 .. 5
    BY <1>2, OperandFacts, TensorFacts, SizeListFacts
  <2>3. i = (IF f.i < n THEN f.i + 1 ELSE 1) /\ i \in Nat \ {0}
    BY <1>3
  <2>4. /\ f.read \in Seq(Nat) /\ Len(f.read) + 1 = f.i
        /\ \A j \in 1 .. Len(f.read) : f.read[j] \in 0 .. 5
    BY <1>1, <2>0 DEF Fields, SizesAtPlace
  <2> HIDE DEF rank, i
  <2>5. /\ read \in Seq(Nat) /\ Len(read) = f.i
        /\ \A j \in 1 .. Len(read) : read[j] \in 0 .. 5
    BY <2>2, <2>4
  <2> HIDE DEF read
  <2>6. Fields(g) /\ g.read = read /\ g.ops = f.ops /\ g.i = i
    BY <1>1, <1>2, <2>3, <2>5 DEF Record, Fields
  <2> HIDE DEF g
  <2>7. f.i \in 1 .. n
    BY <1>2, OperandFacts
  <2>8. Settled(g, p)
    <3>1. CASE f.i < n
      BY <2>3, <2>5, <2>6, <2>7, <3>1 DEF Settled, SizesAtPlace
    <3>2. CASE ~(f.i < n)
      <4>1. f.i = n
        BY <1>2, <2>7, <3>2
      <4>2. QED
        BY <2>5, <2>6, <3>2, <4>1 DEF Settled, SizesAtPlace
    <3>3. QED
      BY <3>1, <3>2
  <2>9. moved' \in [Thread -> SUBSET Nat]
    BY <1>1, <2>0
  <2> HIDE DEF p
  <2>10. QED
    BY <1>1, <2>1, <2>8, <2>9, TypedMove
<1>6. CASE expandNdInfer(th)
  <2>1. pc[th] = "ndInfer" /\ UNCHANGED moved
    BY <1>6 DEF expandNdInfer, At, mem
  <2>2. PICK lists \in SizesAt(th) :
          \/ /\ frame' = [frame EXCEPT ![th].want = CommonSize(lists), ![th].i = 1]
             /\ pc' = [pc EXCEPT ![th] = "check"]
          \/ Error(th, [f EXCEPT !.failed = "infer"], "done")
    BY <1>6 DEF expandNdInfer, Goto
  <2> DEFINE want == CommonSize(lists)
             g == [f EXCEPT !.want = want, !.i = 1]
             h == [f EXCEPT !.failed = "infer"]
  <2>3. want \in SizeList
    BY <2>1, SizesFound, CommonSizeList
  <2>4. (frame' = [frame EXCEPT ![th] = g] /\ pc' = [pc EXCEPT ![th] = "check"])
          \/ Error(th, h, "done")
    BY <2>2
  <2> HIDE DEF want
  <2>5. Fields(g) /\ Fields(h)
    BY <1>1, <1>2, <2>3 DEF Record, Fields
  <2> HIDE DEF g, h
  <2>6. Settled(g, "check") /\ Settled(h, "done")
    BY <1>2, <2>5, SettledFree DEF Free
  <2>7. QED
    BY <1>1, <2>1, <2>4, <2>6, TypedMove, TypedError
<1>7. CASE expandNdFree(th)
  <2>1. Settled(f, "done")
    BY <1>1, <1>2, SettledFree DEF Free
  <2>2. UNCHANGED <<moved, frame>> /\ pc' = [pc EXCEPT ![th] = "done"]
    BY <1>7 DEF expandNdFree, Goto, mem
  <2>3. QED
    BY <1>1, <2>1, <2>2, TypedPlace
<1>8. QED
  BY <1>4, <1>5, <1>6, <1>7

\* One more size is read, of the tensor or, after an error, any.
LEMMA NextSizeTyped ==
  ASSUME NEW f, Record(f), Fields(f), SizesAtPlace(f, "size"), f.op = "withEmpty",
         NEW n \in Nat \ {0}, NEW g, Record(g), g.read = Append(f.read, n), g.op = f.op,
         g.limit = f.limit, Fields(g), 
         NEW p, p = IF Len(f.read) + 1 = f.limit THEN "new" ELSE "size"
  PROVE  Settled(g, p)
<1> DEFINE a == f.read
           b == g.read
<1>1. /\ a \in Seq(Nat) /\ \A d \in 1 .. Len(a) : a[d] \in Nat \ {0}
      /\ Len(a) < f.limit /\ f.limit <= 5 /\ f.limit \in Nat /\ b = Append(a, n)
  BY DEF Fields, SizesAtPlace
<1> HIDE DEF a, b
<1>2. Len(a) \in Nat /\ Len(b) = Len(a) + 1 /\ b \in [1 .. Len(a) + 1 -> Nat \ {0}]
  <2>1. Len(a) \in Nat /\ Len(b) = Len(a) + 1 /\ DOMAIN b = 1 .. Len(a) + 1 /\ b \in Seq(Nat)
    BY <1>1
  <2>2. \A d \in 1 .. Len(a) + 1 : b[d] \in Nat \ {0}
    <3> TAKE d \in 1 .. Len(a) + 1
    <3>1. CASE d = Len(a) + 1
      BY <1>1, <2>1, <3>1
    <3>2. CASE d # Len(a) + 1
      <4>1. d \in 1 .. Len(a)
        BY <2>1, <3>2
      <4>2. QED
        BY <1>1, <4>1
    <3>3. QED
      BY <3>1, <3>2
  <2>3. b = [d \in 1 .. Len(a) + 1 |-> b[d]]
    BY <2>1
  <2>4. QED
    BY <2>1, <2>2, <2>3
<1>3. CASE Len(a) + 1 = f.limit
  <2>1. Len(a) + 1 \in 0 .. 5 /\ p = "new"
    BY <1>1, <1>2, <1>3 DEF a
  <2>2. b \in SizeList
    BY <1>2, <2>1, NumbersAreSizes
  <2>3. QED
    BY <2>1, <2>2 DEF Settled, SizesAtPlace, b
<1>4. CASE Len(a) + 1 # f.limit
  <2>1. Len(b) < g.limit /\ g.limit <= 5 /\ p = "size"
    BY <1>1, <1>2, <1>4 DEF a
  <2>2. \A d \in 1 .. Len(b) : b[d] \in Nat \ {0}
    BY <1>2
  <2>3. QED
    BY <2>1, <2>2 DEF Settled, SizesAtPlace, b
<1>5. QED
  BY <1>3, <1>4

LEMMA getDimListTyped ==
  ASSUME Control, Typed, NEW th \in Thread, getDimListRank(th) \/ getDimListSize(th)
  PROVE  Typed'
<1> DEFINE f == frame[th]
           x == tensor[Source(th)]
<1>1. /\ Locals(f, pc[th]) /\ pc[th] \in {"dims", "size"} /\ Reads /\ UNCHANGED moved
      /\ moved \in [Thread -> SUBSET Nat] /\ Fields(f) /\ SizesAtPlace(f, pc[th])
  BY ControlAt DEF getDimListRank, getDimListSize, mem, Reads, Typed, Ghosts, Settled
<1>2. Record(f) /\ f.op = "withEmpty"
  BY <1>1 DEF Locals, Place
<1>3. x.size \in SizeList
  BY <1>2, OperandFacts, TensorFacts
<1> DEFINE size == x.size
           rank == Len(size)
<1>4. rank \in 0 .. 5 /\ \A d \in 1 .. rank : size[d] \in Nat \ {0}
  BY <1>3, SizeListFacts
<1>5. CASE getDimListRank(th)
  <2> DEFINE g == [f EXCEPT !.limit = rank]
             p == IF rank = 0 THEN "new" ELSE "size"
  <2>1. frame' = [frame EXCEPT ![th] = g] /\ pc' = [pc EXCEPT ![th] = p] /\ pc[th] = "dims"
    BY <1>5 DEF getDimListRank, Goto, Rank, At
  <2> HIDE DEF rank
  <2>2. rank \in Nat /\ rank <= 5
    BY <1>4
  <2>3. Fields(g) /\ g.op = f.op /\ g.read = f.read /\ g.limit = rank
    BY <1>1, <1>2, <2>2 DEF Record, Fields
  <2> HIDE DEF g
  <2>4. g.read = <<>>
    BY <1>1, <2>1, <2>3 DEF SizesAtPlace
  <2>5. Len(<<>>) = 0 /\ <<>> \in SizeList
    BY EmptyIsSizes
  <2>6. Settled(g, p)
    <3>1. CASE rank = 0
      BY <1>2, <2>3, <2>4, <2>5, <3>1 DEF Settled, SizesAtPlace
    <3>2. CASE rank # 0
      <4>1. Len(g.read) < g.limit /\ g.limit <= 5 /\ \A d \in 1 .. Len(g.read) : FALSE
        BY <2>2, <2>3, <2>4, <2>5, <3>2
      <4>2. QED
        BY <1>2, <2>3, <3>2, <4>1 DEF Settled, SizesAtPlace
    <3>3. QED
      BY <3>1, <3>2
  <2>7. QED
    BY <1>1, <2>1, <2>6, TypedMove
<1>6. CASE getDimListSize(th)
  <2> DEFINE d == Len(f.read) + 1
             p == IF d = f.limit THEN "new" ELSE "size"
  <2>0. pc[th] = "size" /\ f.read \in Seq(Nat)
    BY <1>1, <1>6 DEF getDimListSize, At, Fields
  <2>1. ASSUME NEW n \in Nat \ {0}, NEW y \in {"no", "arg", "infer"},
               NEW g, g = [f EXCEPT !.read = Append(f.read, n), !.failed = y]
        PROVE  Settled(g, p)
    <3> DEFINE read == Append(f.read, n)
    <3>1. read \in Seq(Nat)
      BY <2>0
    <3>2. g = [f EXCEPT !.read = read, !.failed = y]
      BY <2>1
    <3> HIDE DEF read
    <3>3. Record(g) /\ Fields(g) /\ g.op = f.op /\ g.limit = f.limit /\ g.read = read
      BY <1>1, <1>2, <3>1, <3>2 DEF Record, Fields
    <3>4. g.read = Append(f.read, n)
      BY <3>3 DEF read
    <3> HIDE DEF p
    <3>5. p = IF Len(f.read) + 1 = f.limit THEN "new" ELSE "size"
      BY DEF p
    <3>6. QED
      BY <1>1, <1>2, <2>0, <3>3, <3>4, <3>5, NextSizeTyped
  <2>2. CASE d <= rank
    <3> DEFINE n == size[d]
               g == [f EXCEPT !.read = Append(f.read, n)]
    <3>1. frame' = [frame EXCEPT ![th] = g] /\ pc' = [pc EXCEPT ![th] = p]
      BY <1>6, <2>2 DEF getDimListSize, Goto
    <3>2. n \in Nat \ {0}
      <4>1. Len(f.read) \in Nat
        BY <2>0
      <4> HIDE DEF size, rank
      <4>2. d \in 1 .. rank
        BY <1>4, <2>2, <4>1
      <4>3. QED
        BY <1>4, <4>2
    <3> HIDE DEF n
    <3>3. f.failed \in {"no", "arg", "infer"}
      BY <1>1 DEF Fields
    <3>4. g = [f EXCEPT !.read = Append(f.read, n), !.failed = f.failed]
      BY <1>2 DEF Record
    <3> HIDE DEF g, p
    <3>5. Settled(g, p)
      BY <2>1, <3>2, <3>3, <3>4
    <3>6. QED
      BY <1>1, <3>1, <3>5, TypedMove
  <2>3. CASE ~(d <= rank)
    <3>1. PICK n \in Junk : Error(th, [f EXCEPT !.read = Append(f.read, n), !.failed = "arg"], p)
      BY <1>6, <2>3 DEF getDimListSize
    <3> DEFINE g == [f EXCEPT !.read = Append(f.read, n), !.failed = "arg"]
    <3>2. n \in Nat \ {0}
      BY ConstantsOK
    <3>3. Settled(g, p)
      BY <2>1, <3>2
    <3> HIDE DEF g, p
    <3>4. Error(th, g, p)
      BY <3>1 DEF g
    <3>5. QED
      BY <1>1, <3>3, <3>4, TypedError
  <2>4. QED
    BY <2>2, <2>3
<1>7. QED
  BY <1>5, <1>6

LEMMA readsTyped ==
  ASSUME Control, Typed, NEW th \in Thread,
         getStorage(th) \/ tensordataLength(th) \/ tensordataPointer(th) \/ tensordataPeek(th)
  PROVE  Typed'
<1> DEFINE f == frame[th]
           x == tensor[Source(th)]
           s == x.storage
           y == x.offset
<1>1. /\ Locals(f, pc[th]) /\ pc[th] \in {"storage", "length", "data", "peek"} /\ Reads
      /\ UNCHANGED moved /\ moved' \in [Thread -> SUBSET Nat] /\ Fields(f)
      /\ SizesAtPlace(f, pc[th])
  BY ControlAt DEF getStorage, tensordataLength, tensordataPointer, tensordataPeek, mem, Reads,
                   Typed, Ghosts, Settled
<1>2. Record(f) /\ f.op \in {"tensordata", "resize"}
  BY <1>1 DEF Locals, Place
<1>3. s \in Storage \cup {NoObj} /\ y \in Nat
  BY <1>2, OperandFacts, TensorFacts
<1>4. CASE getStorage(th)
  <2>1. CASE s = NoObj
    BY <1>1, <1>4, <2>1, TypedExit DEF getStorage
  <2>2. CASE s # NoObj
    <3> DEFINE g == [f EXCEPT !.storage = s]
               p == IF f.op = "resize" THEN "capacity" ELSE "length"
    <3>1. frame' = [frame EXCEPT ![th] = g] /\ pc' = [pc EXCEPT ![th] = p]
      BY <1>4, <2>2 DEF getStorage, Goto
    <3>2. s \in Storage
      BY <1>3, <2>2
    <3> HIDE DEF s
    <3>3. Fields(g) /\ g.storage = s
      BY <1>1, <1>2, <3>2 DEF Record, Fields
    <3> HIDE DEF g
    <3>4. Settled(g, p)
      BY <3>2, <3>3 DEF Settled, SizesAtPlace
    <3> HIDE DEF p
    <3>5. QED
      BY <1>1, <3>1, <3>4, TypedMove
  <2>3. QED
    BY <2>1, <2>2
<1>5. CASE tensordataLength(th)
  <2> DEFINE read == <<cap[f.storage]>>
             g == [f EXCEPT !.read = read]
  <2>1. frame' = [frame EXCEPT ![th] = g] /\ pc' = [pc EXCEPT ![th] = "data"] /\ pc[th] = "length"
    BY <1>5 DEF tensordataLength, Goto, At
  <2>2. cap[f.storage] \in Nat
    BY <1>1, <2>1 DEF SizesAtPlace, Typed, Objects
  <2>3. read \in Seq(Nat)
    BY <2>2
  <2> HIDE DEF read
  <2>4. Fields(g)
    BY <1>1, <1>2, <2>3 DEF Record, Fields
  <2> HIDE DEF g
  <2>5. Settled(g, "data")
    BY <2>4, SettledFree DEF Free
  <2>6. QED
    BY <1>1, <2>1, <2>5, TypedMove
<1>6. CASE tensordataPointer(th)
  <2> DEFINE g == [f EXCEPT !.storage = s, !.offset = y]
  <2>1. frame' = [frame EXCEPT ![th] = g] /\ pc' = [pc EXCEPT ![th] = "peek"]
    BY <1>6 DEF tensordataPointer, Goto
  <2> HIDE DEF s, y
  <2>2. Fields(g)
    BY <1>1, <1>2, <1>3 DEF Record, Fields
  <2> HIDE DEF g
  <2>3. Settled(g, "peek")
    BY <2>2, SettledFree DEF Free
  <2>4. QED
    BY <1>1, <2>1, <2>3, TypedMove
<1>7. CASE tensordataPeek(th)
  <2>1. UNCHANGED <<moved, frame>> /\ pc' = [pc EXCEPT ![th] = "done"]
    BY <1>1, <1>7 DEF tensordataPeek, Goto
  <2>2. Settled(f, "done")
    BY <1>1, SettledFree DEF Free
  <2>3. QED
    BY <1>1, <2>1, <2>2, TypedPlace
<1>8. QED
  BY <1>4, <1>5, <1>6, <1>7

\* Whatever tensors are on it, a storage gets the room that the program says.
LEMMA resizeTyped ==
  ASSUME Control, Typed, NEW th \in Thread, resize(th)
  PROVE  Typed'
<1> DEFINE f == frame[th]
           n == f.want[1]
<1>1. /\ Locals(f, "capacity") /\ PerThread(frame) /\ PerThread(pc) /\ Fields(f)
      /\ UNCHANGED <<elt, handler, frame, tensor, moved, before, calls>>
      /\ pc' = [pc EXCEPT ![th] = "done"] /\ cap' = [cap EXCEPT ![f.storage] = n]
  BY ControlAt DEF resize, Goto, Typed, Settled
<1>2. Only(th, frame, frame') /\ Only(th, pc, pc') /\ pc'[th] = "done" /\ frame'[th] = f
  BY <1>1, OnlyItself DEF PerThread, Only
<1>3. n \in Nat
  <2>1. f.want \in SizeList /\ Len(f.want) = 1
    BY <1>1 DEF Locals, Place, Fields
  <2>2. QED
    BY <2>1, SizeListIsList
<1> HIDE DEF n
<1>4. Objects'
  BY <1>1, <1>3 DEF Typed, Objects, Shaped
<1>5. Ghosts'
  BY <1>1 DEF Typed, Ghosts
<1>6. Settled(f, "done")
  BY <1>1, SettledFree DEF Free
<1>7. QED
  BY <1>2, <1>4, <1>5, <1>6, TypedStep

\* x with the storage s, of which it needs the first Extent(x) elements.
LEMMA Placed ==
  ASSUME NEW x \in AllTensors, NEW s \in Storage
  PROVE  LET y == [x EXCEPT !.storage = s]
         IN  /\ y \in AllTensors /\ y.size = x.size /\ y.stride = x.stride
             /\ y.offset = x.offset /\ y.storage = s
             /\ x.storage = s => y = x
BY DEF AllTensors

\* C's change of a tensor leaves it inside its storage, and the others in theirs.
LEMMA ChangeTyped ==
  ASSUME Control, Typed, NEW th \in Thread, NEW t \in Tensor, NEW x, Shaped(x),
         Change(th, t, x)
  PROVE  Objects' /\ moved' \in [Thread -> SUBSET Nat] /\ tensor'[t] \in AllTensors
<1>1. x \in AllTensors /\ Len(x.stride) = Len(x.size)
  BY DEF Shaped
<1>2. /\ x.size \in SizeList /\ x.stride \in Seq(Nat) /\ x.offset \in Nat
      /\ x.storage \in Storage \cup {NoObj}
  BY <1>1 DEF AllTensors
<1>3. /\ cap \in [Storage -> Nat] /\ tensor \in [Tensor -> AllTensors]
      /\ moved \in [Thread -> SUBSET Nat] /\ \A u \in Tensor : Shaped(tensor[u])
  BY DEF Typed, Objects, Ghosts
<1>4. moved' \in [Thread -> SUBSET Nat]
  <2>1. \A u \in Thread : {j \in DOMAIN frame[u].ops : frame[u].ops[j] = t} \subseteq Nat
    <3> TAKE u \in Thread
    <3>1. frame[u].ops \in Seq(Tensor)
      BY DEF Control, Locals
    <3>2. DOMAIN frame[u].ops \subseteq Nat
      BY <3>1
    <3>3. QED
      BY <3>2
  <2>2. moved' = [u \in Thread |->
                   IF /\ pc[u] \in {"infer", "ndTake", "ndInfer"}
                      /\ Len(x.size) # Len(tensor[t].size)
                   THEN moved[u] \cup {j \in DOMAIN frame[u].ops : frame[u].ops[j] = t}
                   ELSE moved[u]]
    BY DEF Change
  <2>3. ASSUME NEW u \in Thread
        PROVE  moved'[u] \in SUBSET Nat
    <3> DEFINE S == {j \in DOMAIN frame[u].ops : frame[u].ops[j] = t}
    <3>1. moved'[u] \in {moved[u], moved[u] \cup S}
      BY <2>2
    <3>2. S \subseteq Nat
      BY <2>1
    <3> HIDE DEF S
    <3>3. QED
      BY <1>3, <3>1, <3>2
  <2>4. moved' = [u \in Thread |-> moved'[u]]
    BY <2>2
  <2>5. QED
    BY <2>3, <2>4
<1>5. CASE tensor' = [tensor EXCEPT ![t] = x] /\ UNCHANGED cap
  <2>1. tensor' \in [Tensor -> AllTensors] /\ tensor'[t] = x
    BY <1>1, <1>3, <1>5
  <2>2. \A u \in Tensor : Shaped(tensor'[u])
    BY <1>3, <1>5
  <2>3. Objects'
    BY <1>3, <1>5, <2>1, <2>2 DEF Objects
  <2>4. QED
    BY <1>1, <1>4, <2>1, <2>3
<1>6. ASSUME NEW s \in Storage, tensor' = [tensor EXCEPT ![t] = [x EXCEPT !.storage = s]],
             cap' = [cap EXCEPT ![s] = Max({cap[s], Extent(x)})], x.size # <<>>
      PROVE  Objects' /\ tensor'[t] \in AllTensors
  <2> DEFINE y == [x EXCEPT !.storage = s]
             n == Extent(x)
             m == Max({cap[s], n})
  <2>1. n \in Nat
    BY <1>1, <1>2, <1>6, ExtentType
  <2>2. y \in AllTensors /\ y.size = x.size /\ y.stride = x.stride
    BY <1>1, Placed
  <2>3. cap[s] \in Nat
    BY <1>3
  <2>4. tensor' = [tensor EXCEPT ![t] = y] /\ cap' = [cap EXCEPT ![s] = m]
    BY <1>6
  <2> HIDE DEF y, n
  <2>5. m \in Nat
    BY <2>1, <2>3, Room
  <2> HIDE DEF m
  <2>6. /\ cap' \in [Storage -> Nat] /\ tensor' \in [Tensor -> AllTensors]
        /\ tensor'[t] = y /\ \A u \in Tensor \ {t} : tensor'[u] = tensor[u]
    BY <1>3, <2>2, <2>4, <2>5
  <2>7. Shaped(y)
    BY <1>1, <2>2 DEF Shaped
  <2>8. \A u \in Tensor : Shaped(tensor'[u])
    BY <1>3, <2>6, <2>7
  <2>9. QED
    BY <2>2, <2>6, <2>8 DEF Objects
<1>7. CASE /\ x.size # <<>>
           /\ x.storage = NoObj => \E unused \in Storage : cap[unused] = 0
           /\ LET s == IF x.storage # NoObj THEN x.storage ELSE FreshStorage
              IN  /\ tensor' = [tensor EXCEPT ![t] = [x EXCEPT !.storage = s]]
                  /\ cap' = [cap EXCEPT ![s] = Max({@, Extent(x)})]
  <2> DEFINE s == IF x.storage # NoObj THEN x.storage ELSE FreshStorage
  <2>1. s \in Storage
    <3>1. (\E unused \in Storage : cap[unused] = 0) => FreshStorage \in Storage
      BY DEF FreshStorage
    <3>2. QED
      BY <1>2, <1>7, <3>1
  <2>2. /\ tensor' = [tensor EXCEPT ![t] = [x EXCEPT !.storage = s]]
        /\ cap' = [cap EXCEPT ![s] = Max({cap[s], Extent(x)})]
    BY <1>3, <1>7
  <2> HIDE DEF s
  <2>3. QED
    BY <1>4, <1>6, <1>7, <2>1, <2>2
<1>8. QED
  BY <1>5, <1>7 DEF Change

\* A step of th that changes the tensor t of its call.
LEMMA changesTyped ==
  ASSUME Control, Typed, NEW th \in Thread, expandSet(th) \/ resizeDim(th)
  PROVE  Typed'
<1> DEFINE f == frame[th]
           t == Target(th)
<1>1. /\ Locals(f, pc[th]) /\ pc[th] \in {"set", "resize"} /\ Fields(f)
      /\ SizesAtPlace(f, pc[th]) /\ UNCHANGED <<elt, handler, frame, before, calls>>
      /\ PerThread(frame) /\ PerThread(pc)
  BY ControlAt DEF expandSet, resizeDim, Typed, Settled
<1>2. f.rets \in Seq(Tensor) /\ t \in Tensor
  <2>1. /\ f.rets \in Seq(Tensor)
        /\ f.i \in 1 .. Len(f.rets) \/ (f.i = 1 /\ Len(f.rets) = 1)
    BY <1>1 DEF Locals, Place
  <2>2. QED
    BY <2>1 DEF Target
<1>3. /\ f.want \in SizeList /\ f.want \in Seq(Nat) /\ f.stride \in Seq(Nat)
      /\ f.storage \in Storage \cup {NoObj} /\ f.offset \in Nat
  BY <1>1, SizeListIsList DEF Fields
<1>4. ASSUME NEW p \in Free, pc' = [pc EXCEPT ![th] = p],
             Objects', moved' \in [Thread -> SUBSET Nat]
      PROVE  Typed'
  <2>1. Only(th, frame, frame') /\ Only(th, pc, pc') /\ pc'[th] = p
    BY <1>1, <1>4, OnlyItself DEF PerThread, Only
  <2>2. Settled(frame'[th], p)
    BY <1>1, <1>2, SettledFree
  <2>3. Ghosts'
    BY <1>1, <1>4 DEF Typed, Ghosts
  <2>4. QED
    BY <1>4, <2>1, <2>2, <2>3, TypedStep
<1> HIDE DEF t
<1>5. CASE expandSet(th)
  <2> DEFINE x == View(th)
  <2>1. /\ Change(th, t, x) /\ pc' = [pc EXCEPT ![th] = "free"] /\ pc[th] = "set"
    BY <1>5 DEF expandSet, Goto, At, t
  <2>2. /\ x = [size |-> f.want, stride |-> f.stride, storage |-> f.storage,
                offset |-> f.offset]
        /\ Len(f.stride) = Len(f.want)
    BY <1>1, <2>1 DEF View, SizesAtPlace
  <2>3. Shaped(x)
    BY <1>3, <2>2 DEF Shaped, AllTensors
  <2> HIDE DEF x
  <2>4. Objects' /\ moved' \in [Thread -> SUBSET Nat]
    BY <1>2, <2>1, <2>3, ChangeTyped
  <2>5. QED
    BY <1>4, <2>1, <2>4 DEF Free
<1>6. CASE resizeDim(th)
  <2> DEFINE y == tensor[t]
             stride == Contiguous(f.want)
             x == [y EXCEPT !.size = f.want, !.stride = stride]
  <2>1. pc' = [pc EXCEPT ![th] = "done"]
    BY <1>6 DEF resizeDim, Goto
  <2>2. CASE UNCHANGED mem
    <3>1. Objects' /\ moved' \in [Thread -> SUBSET Nat]
      BY <2>2 DEF mem, Typed, Ghosts, Objects, Shaped
    <3>2. QED
      BY <1>4, <2>1, <3>1 DEF Free
  <2>3. CASE Change(th, t, x)
    <3>1. stride \in Seq(Nat) /\ Len(stride) = Len(f.want)
      BY <1>3, ContiguousType
    <3> HIDE DEF stride
    <3>2. y \in AllTensors
      BY <1>2, TensorFacts
    <3> HIDE DEF y
    <3>3. Shaped(x)
      BY <1>3, <3>1, <3>2 DEF Shaped, AllTensors
    <3> HIDE DEF x
    <3>4. Objects' /\ moved' \in [Thread -> SUBSET Nat]
      BY <1>2, <2>3, <3>3, ChangeTyped
    <3>5. QED
      BY <1>4, <2>1, <3>4 DEF Free
  <2>4. QED
    BY <1>6, <2>2, <2>3 DEF resizeDim, t
<1>7. QED
  BY <1>5, <1>6

\* The look at the tensors with a result r that is new.
LEMMA BeforeTyped ==
  ASSUME Typed, NEW th \in Thread, NEW r \in Tensor, NEW x \in AllTensors,
         before' = [before EXCEPT ![th][r] = x],
         UNCHANGED <<elt, handler, calls>>, moved' \in [Thread -> SUBSET Nat]
  PROVE  Ghosts'
<1>1. before \in [Thread -> [Tensor -> AllTensors]]
  BY DEF Typed, Ghosts
<1> DEFINE look == [before[th] EXCEPT ![r] = x]
<1>2. look \in [Tensor -> AllTensors] /\ before' = [before EXCEPT ![th] = look]
  BY <1>1
<1> HIDE DEF look
<1>3. before' \in [Thread -> [Tensor -> AllTensors]]
  BY <1>1, <1>2
<1>4. QED
  BY <1>3 DEF Typed, Ghosts

LEMMA createsTyped ==
  ASSUME Control, Data, Typed, NEW th \in Thread,
         newExpandNew(th) \/ expand2dNew(th) \/ withEmptyNew(th)
  PROVE  Typed'
<1> DEFINE f == frame[th]
<1>1. /\ pc[th] = "new" /\ Record(f) /\ Fields(f) /\ SizesAtPlace(f, "new")
      /\ UNCHANGED <<elt, handler, calls>> /\ moved \in [Thread -> SUBSET Nat]
  BY DEF newExpandNew, expand2dNew, withEmptyNew, At, Typed, Settled, Ghosts, Control, Locals
<1>2. f.op \in {"newExpand", "expand2d", "withEmpty"}
  BY DEF newExpandNew, expand2dNew, withEmptyNew
<1>3. PICK r \in Tensor, p \in Free :
        /\ Objects' /\ Ghosts'
        /\ frame' = [frame EXCEPT ![th].rets = <<r>>] /\ pc' = [pc EXCEPT ![th] = p]
  <2>1. CASE newExpandNew(th)
    <3>1. PICK r \in Tensor :
            /\ frame' = [frame EXCEPT ![th].rets = <<r>>]
            /\ tensor' = [tensor EXCEPT ![r] = NewTensor]
            /\ before' = [before EXCEPT ![th][r] = NewTensor]
      BY <2>1 DEF newExpandNew
    <3>2. pc' = [pc EXCEPT ![th] = "check"] /\ UNCHANGED <<cap, moved>>
      BY <2>1 DEF newExpandNew, Goto
    <3>3. <<>> \in SizeList /\ <<>> \in Seq(Nat)
      BY EmptyIsSizes
    <3>4. Shaped(NewTensor) /\ NewTensor \in AllTensors
      BY <3>3 DEF Shaped, NewTensor, AllTensors
    <3>5. Objects'
      BY <3>1, <3>2, <3>4 DEF Typed, Objects
    <3>6. moved' \in [Thread -> SUBSET Nat]
      BY <1>1, <3>2
    <3>7. Ghosts'
      BY <1>1, <3>1, <3>4, <3>6, BeforeTyped
    <3>8. QED
      BY <3>1, <3>2, <3>5, <3>7 DEF Free
  <2>2. ASSUME NEW size \in SizeList, newSized(th, size)
        PROVE  \E r \in Tensor : /\ Objects' /\ Ghosts'
                                 /\ frame' = [frame EXCEPT ![th].rets = <<r>>]
    <3>1. PICK r \in Tensor : /\ Change(th, r, Sized(size))
                              /\ frame' = [frame EXCEPT ![th].rets = <<r>>]
                              /\ before' = [before EXCEPT ![th][r] = tensor'[r]]
      BY <2>2 DEF newSized
    <3> DEFINE stride == Contiguous(size)
               x == Sized(size)
    <3>2. stride \in Seq(Nat) /\ Len(stride) = Len(size)
      BY SizeListIsList, ContiguousType
    <3>3. x = [size |-> size, stride |-> stride, storage |-> NoObj, offset |-> 0]
      BY DEF Sized
    <3> HIDE DEF stride
    <3>4. Shaped(x)
      BY <3>2, <3>3 DEF Shaped, AllTensors
    <3> HIDE DEF x
    <3>5. Objects' /\ moved' \in [Thread -> SUBSET Nat] /\ tensor'[r] \in AllTensors
      BY <3>1, <3>4, ChangeTyped DEF x
    <3>6. Ghosts'
      BY <1>1, <3>1, <3>5, BeforeTyped
    <3>7. QED
      BY <3>1, <3>5, <3>6
  <2>3. CASE expand2dNew(th)
    <3>1. newSized(th, f.want) /\ pc' = [pc EXCEPT ![th] = "check"]
      BY <2>3 DEF expand2dNew, Goto
    <3>2. f.want \in SizeList /\ "check" \in Free
      BY <1>1 DEF Fields, Free
    <3>3. QED
      BY <2>2, <3>1, <3>2
  <2>4. CASE withEmptyNew(th)
    <3>1. newSized(th, f.read) /\ pc' = [pc EXCEPT ![th] = "done"] /\ f.op = "withEmpty"
      BY <2>4 DEF withEmptyNew, Goto
    <3>2. f.read \in SizeList /\ "done" \in Free
      BY <1>1, <3>1 DEF SizesAtPlace, Free
    <3>3. QED
      BY <2>2, <3>1, <3>2
  <2>5. QED
    BY <2>1, <2>3, <2>4
<1> DEFINE g == [f EXCEPT !.rets = <<r>>]
<1>4. Only(th, frame, frame') /\ frame'[th] = g /\ Only(th, pc, pc') /\ pc'[th] = p
  BY <1>3 DEF Control, PerThread, Only
<1>5. Fields(g)
  BY <1>1 DEF Record, Fields
<1> HIDE DEF g
<1>6. Settled(g, p)
  BY <1>5, SettledFree
<1>7. QED
  BY <1>3, <1>4, <1>6, TypedStep

LEMMA BeginTyped ==
  ASSUME Control, Typed, NEW th \in Thread, Begin(th)
  PROVE  Typed'
<1>1. PICK c \in CallsOf[th] :
        /\ frame' = [frame EXCEPT ![th] = [Idle EXCEPT !.op = c.op, !.rets = c.rets,
                                                       !.ops = c.ops, !.want = c.want]]
        /\ pc' = [pc EXCEPT ![th] = Entry(c.op)]
  BY DEF Begin, Goto
<1> DEFINE g == [Idle EXCEPT !.op = c.op, !.rets = c.rets, !.ops = c.ops, !.want = c.want]
           p == Entry(c.op)
<1>2. /\ g.op = c.op /\ g.want = c.want /\ g.read = <<>> /\ g.stride = <<>> /\ g.limit = 0
      /\ g.storage = NoObj /\ g.offset = 0 /\ g.failed = "no" /\ g.i = 1
  BY DEF Idle
<1>3. Only(th, frame, frame') /\ frame'[th] = g /\ Only(th, pc, pc') /\ pc'[th] = p
  BY <1>1 DEF Control, PerThread, Only
<1>4. /\ p \in {"new", "ndCheck", "dims", "storage", "resize", "check"}
      /\ p = "new" => c.op # "withEmpty"
  <2>1. c.op = "withEmpty" => p = "dims"
    BY DEF Entry
  <2>2. QED
    BY <2>1, CallFacts
<1>5. c.want \in SizeList /\ (c.op = "resize" => Len(c.want) = 1)
  <2>1. c \in Call
    BY ConstantsOK
  <2>2. ASSUME NEW S, NEW R, NEW O, NEW W,
               c \in [op : S, rets : R, ops : O, want : W]
        PROVE  c.op \in S /\ c.want \in W
    BY <2>2
  <2> DEFINE Size1 == {w \in SizeList : Len(w) = 1}
             Size2 == {w \in SizeList : Len(w) = 2}
  <2>3. \/ c \in [op : {"newExpand"}, rets : {<<>>}, ops : One, want : SizeList]
        \/ c \in [op : {"_expand"}, rets : One, ops : One, want : SizeList]
        \/ c \in [op : {"expand2d"}, rets : {<<>>}, ops : One, want : Size2]
        \/ c \in [op : {"_expandNd"}, rets : Seq(Tensor), ops : Seq(Tensor), want : {<<>>}]
        \/ c \in [op : {"withEmpty"}, rets : {<<>>}, ops : One, want : {<<>>}]
        \/ c \in [op : {"tensordata"}, rets : {<<>>}, ops : One, want : {<<>>}]
        \/ c \in [op : {"_resizeDim"}, rets : One, ops : {<<>>}, want : SizeList]
        \/ c \in [op : {"resize"}, rets : {<<>>}, ops : One, want : Size1]
    BY <2>1 DEF Call
  <2>4. \/ c.op \in {"resize"} /\ c.want \in Size1
        \/ /\ c.op \in {"newExpand", "_expand", "expand2d", "_expandNd", "withEmpty",
                        "tensordata", "_resizeDim"}
           /\ \/ c.want \in SizeList \/ c.want \in Size2 \/ c.want \in {<<>>}
    <3> HIDE DEF Size1, Size2
    <3>1. QED
      BY <2>2, <2>3
  <2>5. QED
    BY <2>4, EmptyIsSizes
<1>6. <<>> \in Seq(Nat) /\ 0 \in Nat
  OBVIOUS
<1> HIDE DEF g, p
<1>7. Fields(g)
  BY <1>2, <1>5, <1>6 DEF Fields
<1>8. Settled(g, p)
  BY <1>2, <1>4, <1>7 DEF Settled, SizesAtPlace
<1>9. Ghosts'
  <2>1. /\ UNCHANGED <<elt, handler>> /\ calls[th] < MaxCalls
        /\ moved' = [moved EXCEPT ![th] = {}]
        /\ calls' = [calls EXCEPT ![th] = @ + 1] /\ before' = [before EXCEPT ![th] = tensor]
    BY DEF Begin
  <2>2. /\ moved \in [Thread -> SUBSET Nat]
        /\ calls \in [Thread -> 0 .. MaxCalls] /\ before \in [Thread -> [Tensor -> AllTensors]]
        /\ tensor \in [Tensor -> AllTensors] /\ MaxCalls \in Nat
    BY ConstantsOK DEF Typed, Ghosts, Objects
  <2>3. calls[th] + 1 \in 0 .. MaxCalls
    BY <2>1, <2>2
  <2>4. calls' \in [Thread -> 0 .. MaxCalls]
    BY <2>1, <2>2, <2>3
  <2>5. before' \in [Thread -> [Tensor -> AllTensors]] /\ moved' \in [Thread -> SUBSET Nat]
    BY <2>1, <2>2
  <2>6. QED
    BY <2>1, <2>4, <2>5 DEF Typed, Ghosts
<1>10. Objects'
  BY DEF Begin, Typed, Objects, Shaped
<1>11. QED
  BY <1>3, <1>8, <1>9, <1>10, TypedStep

LEMMA IdleSettled == Settled(Idle, "idle")
<1>1. <<>> \in Seq(Nat) /\ <<>> \in SizeList
  BY EmptyIsSizes
<1>2. Fields(Idle)
  BY <1>1 DEF Fields, Idle
<1>3. QED
  BY <1>2, SettledFree DEF Free

LEMMA ReturnTyped ==
  ASSUME Control, Typed, NEW th \in Thread, Return(th)
  PROVE  Typed'
<1>1. /\ frame' = [frame EXCEPT ![th] = Idle] /\ pc' = [pc EXCEPT ![th] = "idle"]
      /\ Reads /\ UNCHANGED moved
  BY DEF Return, Goto, mem, Reads
<1>2. moved' \in [Thread -> SUBSET Nat]
  BY <1>1 DEF Typed, Ghosts
<1>3. QED
  BY <1>1, <1>2, IdleSettled, TypedMove

LEMMA InitTyped == Init => Typed
<1> SUFFICES ASSUME Init PROVE Typed
  OBVIOUS
<1>1. PICK start \in Start : /\ elt = start.elt /\ handler = start.handler
                             /\ tensor = start.tensor /\ cap = start.cap
  BY DEF Init
<1>2. Objects
  BY <1>1, StartOK DEF Objects, Shaped
<1>3. Ghosts
  <2>1. 0 \in 0 .. MaxCalls
    BY ConstantsOK
  <2>2. QED
    BY <1>1, <1>2, <2>1, StartOK DEF Init, Ghosts, Objects
<1>4. \A th \in Thread : Settled(frame[th], pc[th])
  BY IdleSettled DEF Init
<1>5. QED
  BY <1>2, <1>3, <1>4 DEF Typed

LEMMA NextTyped == Control /\ Data /\ Typed /\ [Next]_vars => Typed'
<1> SUFFICES ASSUME Control, Data, Typed, [Next]_vars PROVE Typed'
  OBVIOUS
<1>1. CASE UNCHANGED vars
  BY <1>1 DEF vars, Typed, Objects, Ghosts, Shaped
<1>2. ASSUME NEW th \in Thread, Begin(th) \/ Continue(th)
      PROVE  Typed'
  BY <1>2, NextCases, BeginTyped, createsTyped, expandTyped, expandNdTyped, changesTyped,
     getDimListTyped, readsTyped, resizeTyped, ReturnTyped DEF Expansion
<1>3. QED
  BY <1>1, <1>2 DEF Next

LEMMA TypedTypes == Control /\ Data /\ Typed => TypeOK
<1> SUFFICES ASSUME Control, Data, Typed PROVE TypeOK
  OBVIOUS
<1>1. ASSUME NEW th \in Thread
      PROVE  /\ pc[th] \in PC /\ frame[th] \in Frames /\ temp[th] \in [Temp -> {0, 1}]
             /\ calm[th] \in BOOLEAN
  <2> DEFINE f == frame[th]
             p == pc[th]
  <2>1. Record(f) /\ Place(f.op, p) /\ f.rets \in Seq(Tensor) /\ f.ops \in Seq(Tensor)
    BY DEF Control, Locals
  <2>2. Fields(f)
    BY DEF Typed, Settled
  <2> HIDE DEF f, p
  <2>3. /\ f.op \in {"none", "newExpand", "_expand", "expand2d", "_expandNd", "withEmpty",
                     "tensordata", "resize", "_resizeDim"}
        /\ p \in PC
    BY <2>1 DEF Place, PC
  <2>4. f \in Frames
    BY <2>1, <2>2, <2>3 DEF Record, Fields, Frames
  <2>5. temp[th] \in [Temp -> {0, 1}] /\ calm[th] \in BOOLEAN
    BY DEF Control, TempsOf, Data, Results
  <2>6. QED
    BY <2>3, <2>4, <2>5 DEF f, p
<1>2. /\ pc \in [Thread -> PC] /\ frame \in [Thread -> Frames]
      /\ temp \in [Thread -> [Temp -> {0, 1}]] /\ calm \in [Thread -> BOOLEAN]
  BY <1>1 DEF Control, Data, Results, PerThread
<1>3. exited \in BOOLEAN /\ held \subseteq Tensor
  BY DEF Control, Data, Ownership
<1>4. QED
  BY <1>2, <1>3 DEF TypeOK, Typed, Objects, Ghosts, Shaped

LEMMA InitAll == Init => Control /\ Data /\ Typed
BY InitControl, InitData, InitTyped

LEMMA NextAll == Control /\ Data /\ Typed /\ [Next]_vars => (Control /\ Data /\ Typed)'
BY NextControl, NextData, NextTyped

\* The variables have their types: no list of sizes that C or Haskell makes is longer
\* than five or has a zero, the common sizes of expandNd and sizes read from a freed
\* array included, and every tensor has as many strides as sizes.
THEOREM TypesHold == Spec => []TypeOK
<1>1. Init => Control /\ Data /\ Typed
  BY InitAll
<1>2. Control /\ Data /\ Typed /\ [Next]_vars => (Control /\ Data /\ Typed)'
  BY NextAll
<1>3. QED
  BY <1>1, <1>2, TypedTypes, PTL DEF Spec

-----------------------------------------------------------------------------
(***************************************************************************)
(* The views that a call has made so far, as long as no check failed and   *)
(* no other thread changed the tensors of the call.  Tensors it has not    *)
(* set yet are as they were when it began.                                 *)
(***************************************************************************)
Shows == {"newExpand", "_expand", "expand2d", "_expandNd"}

Undisturbed(th) == frame[th].op \in Shows /\ calm[th] /\ frame[th].failed = "no"

\* The operands whose results are set.
Finished(f, p) ==
  CASE p \in {"check", "rank", "geometry", "infer", "args", "set"} -> 1 .. f.i - 1
    [] p = "free" -> 1 .. f.i
    [] p \in {"ndFree", "done"} -> DOMAIN f.ops
    [] OTHER -> {}

\* What expand has found out about its operand x.
ReadyWith(f, p, x) ==
  /\ p \in {"rank", "geometry", "infer", "args", "set"} => x.size # <<>>
  /\ p \in {"geometry", "infer", "args", "set"} => Len(x.size) <= Len(f.want)
  /\ p \in {"args", "set"} =>
       Expandable(x.size, f.want) /\ f.stride = ExpandedStride(x, f.want)
  /\ p = "set" => f.storage = x.storage /\ f.offset = x.offset

\* The result of operand j: a view of it, unless the operand had no storage or was a
\* result before, or the result is set for another operand too.
ViewAt(f, done, j, now, then) ==
  \/ then[f.ops[j]].storage = NoObj
  \/ \E k \in 1 .. j - 1 : f.rets[k] = f.ops[j]
  \/ \E k \in done : k > j /\ f.rets[k] = f.rets[j]
  \/ ShowsExpanded(now[f.rets[j]], then[f.ops[j]], f.want)

\* The tensors now, and those then, when the call began.
ViewsOf(f, p, now, then) ==
  LET done == Finished(f, p)
  IN  /\ ReadyWith(f, p, now[f.ops[f.i]])
      /\ \A t \in Range(f.rets) \cup Range(f.ops) :
           t \notin {f.rets[k] : k \in done} => now[t] = then[t]
      /\ \A j \in done : ViewAt(f, done, j, now, then)

ViewsSoFar(th) == Undisturbed(th) => ViewsOf(frame[th], pc[th], tensor, before[th])

Views == \A th \in Thread : ViewsSoFar(th)

\* Where the locals f of an expand are at p, these are positions of its tensors.
Indexed(f, p) ==
  /\ f.i \in DOMAIN f.ops /\ Finished(f, p) \subseteq DOMAIN f.ops
  /\ Finished(f, p) \subseteq DOMAIN f.rets

\* Other tensors may change.
LEMMA ViewsSame ==
  ASSUME NEW f, NEW p, NEW now, NEW then, NEW later, Indexed(f, p), ViewsOf(f, p, now, then),
         \A t \in Range(f.rets) \cup Range(f.ops) : later[t] = now[t]
  PROVE  ViewsOf(f, p, later, then)
<1> DEFINE done == Finished(f, p)
<1>1. ReadyWith(f, p, later[f.ops[f.i]])
  <2>1. f.ops[f.i] \in Range(f.ops)
    BY DEF Indexed, Range
  <2>2. QED
    BY <2>1 DEF ViewsOf
<1>2. \A t \in Range(f.rets) \cup Range(f.ops) :
        t \notin {f.rets[k] : k \in done} => later[t] = then[t]
  BY DEF ViewsOf
<1>3. ASSUME NEW j \in done
      PROVE  ViewAt(f, done, j, later, then)
  <2>1. f.rets[j] \in Range(f.rets)
    BY DEF Indexed, Range
  <2>2. later[f.rets[j]] = now[f.rets[j]]
    BY <2>1
  <2>3. ViewAt(f, done, j, now, then)
    BY DEF ViewsOf
  <2>4. QED
    BY <2>2, <2>3 DEF ViewAt
<1>4. QED
  BY <1>1, <1>2, <1>3 DEF ViewsOf

\* And other locals.
LEMMA ViewsMove ==
  ASSUME NEW f, NEW p, NEW g, NEW q, NEW now, NEW then, ViewsOf(f, p, now, then),
         g.rets = f.rets, g.ops = f.ops, Finished(g, q) = Finished(f, p),
         g.want = f.want \/ Finished(f, p) = {}, ReadyWith(g, q, now[g.ops[g.i]])
  PROVE  ViewsOf(g, q, now, then)
<1> DEFINE done == Finished(f, p)
<1>1. ASSUME NEW j \in done
      PROVE  ViewAt(g, done, j, now, then)
  <2>1. ViewAt(f, done, j, now, then)
    BY DEF ViewsOf
  <2>2. QED
    BY <2>1 DEF ViewAt
<1>2. QED
  BY <1>1 DEF ViewsOf

\* Nothing is set yet.
LEMMA ViewsBegin ==
  ASSUME NEW f, NEW p, NEW now, NEW then, Finished(f, p) = {},
         p \notin {"rank", "geometry", "infer", "args", "set"},
         \A t \in Range(f.rets) \cup Range(f.ops) : now[t] = then[t]
  PROVE  ViewsOf(f, p, now, then)
BY DEF ViewsOf, ReadyWith

\* The result at position i is set.
LEMMA ViewsSet ==
  ASSUME NEW f, NEW now, NEW then, NEW later, Indexed(f, "free"), f.ops \in Seq(Tensor),
         f.rets \in Seq(Tensor), ViewsOf(f, "set", now, then),
         \A t \in Tensor \ {f.rets[f.i]} : later[t] = now[t],
         \/ then[f.ops[f.i]].storage = NoObj
         \/ \E k \in 1 .. f.i - 1 : f.rets[k] = f.ops[f.i]
         \/ ShowsExpanded(later[f.rets[f.i]], then[f.ops[f.i]], f.want)
  PROVE  ViewsOf(f, "free", later, then)
<1> DEFINE before1 == Finished(f, "set")
           done == Finished(f, "free")
<1>1. before1 = 1 .. f.i - 1 /\ done = 1 .. f.i
  BY DEF Finished
<1>2. f.i \in Nat \ {0} /\ f.i \in done /\ done \subseteq DOMAIN f.rets
  BY <1>1 DEF Indexed
<1>3. before1 \subseteq done /\ \A j \in done : j = f.i \/ (j \in before1 /\ f.i > j)
  BY <1>1, <1>2
<1>4. Range(f.rets) \cup Range(f.ops) \subseteq Tensor
  BY DEF Range
<1> HIDE DEF before1, done
<1>5. ASSUME NEW t \in Range(f.rets) \cup Range(f.ops), t \notin {f.rets[k] : k \in done}
      PROVE  later[t] = then[t]
  <2>1. t # f.rets[f.i] /\ t \notin {f.rets[k] : k \in before1}
    BY <1>2, <1>3, <1>5
  <2>2. now[t] = then[t]
    BY <2>1 DEF ViewsOf, before1
  <2>3. QED
    BY <1>4, <2>1, <2>2
<1>6. ASSUME NEW j \in done
      PROVE  ViewAt(f, done, j, later, then)
  <2>1. CASE j = f.i
    BY <2>1 DEF ViewAt
  <2>2. CASE j # f.i
    <3>1. j \in before1 /\ f.i > j
      BY <1>3, <2>2
    <3>2. ViewAt(f, before1, j, now, then)
      BY <3>1 DEF ViewsOf, before1
    <3>3. CASE f.rets[j] = f.rets[f.i]
      BY <1>2, <3>1, <3>3 DEF ViewAt
    <3>4. CASE f.rets[j] # f.rets[f.i]
      <4>1. f.rets[j] \in Tensor
        BY <1>2
      <4>2. later[f.rets[j]] = now[f.rets[j]]
        BY <3>4, <4>1
      <4>3. QED
        BY <1>3, <3>2, <4>2 DEF ViewAt
    <3>5. QED
      BY <3>3, <3>4
  <2>3. QED
    BY <2>1, <2>2
<1>7. QED
  BY <1>5, <1>6 DEF ViewsOf, ReadyWith, done

LEMMA Positioned ==
  ASSUME Control, NEW th \in Thread, frame[th].op \in Shows
  PROVE  /\ Indexed(frame[th], pc[th])
         /\ pc[th] # "new" => Len(frame[th].rets) = Len(frame[th].ops)
<1> DEFINE f == frame[th]
           p == pc[th]
<1>1. /\ Place(f.op, p) /\ f.rets \in Seq(Tensor) /\ f.ops \in Seq(Tensor)
      /\ f.i \in 1 .. Len(f.ops)
      /\ f.op # "_expandNd" => Len(f.ops) = 1
      /\ f.op \in {"_expand", "_expandNd"} => Len(f.rets) = Len(f.ops)
      /\ f.op \in {"newExpand", "expand2d"} /\ p # "new" => Len(f.rets) = 1
  BY DEF Control, Locals, Shows
<1>2. p # "new" => Len(f.rets) = Len(f.ops)
  BY <1>1 DEF Shows
<1> HIDE DEF f, p
<1>3. Finished(f, p) \subseteq DOMAIN f.ops /\ (p = "new" => Finished(f, p) = {})
  BY <1>1 DEF Finished
<1>4. Indexed(f, p)
  BY <1>1, <1>2, <1>3 DEF Indexed
<1>5. QED
  BY <1>2, <1>4 DEF f, p

\* A step of th that another thread would notice if it changed its tensors.
LEMMA ViewsStep ==
  ASSUME Control, Views, NEW th \in Thread,
         \A u \in Thread \ {th} :
           /\ frame'[u] = frame[u] /\ pc'[u] = pc[u] /\ before'[u] = before[u]
           /\ calm'[u] => calm[u] /\ \A t \in Uses(u) : tensor'[t] = tensor[t],
         ViewsSoFar(th)'
  PROVE  Views'
<1>1. ASSUME NEW u \in Thread \ {th}, Undisturbed(u)'
      PROVE  ViewsOf(frame'[u], pc'[u], tensor', before'[u])
  <2> DEFINE f == frame[u]
  <2>1. /\ frame'[u] = f /\ pc'[u] = pc[u] /\ before'[u] = before[u]
        /\ calm[u] /\ \A t \in Range(f.rets) \cup Range(f.ops) : tensor'[t] = tensor[t]
    BY <1>1 DEF Undisturbed, Uses
  <2>2. ViewsOf(f, pc[u], tensor, before[u]) /\ Indexed(f, pc[u])
    BY <1>1, <2>1, Positioned DEF Views, ViewsSoFar, Undisturbed
  <2>3. ViewsOf(f, pc[u], tensor', before[u])
    BY <2>1, <2>2, ViewsSame
  <2>4. QED
    BY <2>1, <2>3
<1>2. \A u \in Thread \ {th} : ViewsSoFar(u)'
  BY <1>1 DEF ViewsSoFar
<1>3. QED
  BY <1>2 DEF Views

LEMMA ViewsQuiet ==
  ASSUME Control, Views, NEW th \in Thread, Quiet(th), ViewsSoFar(th)'
  PROVE  Views'
<1>1. \A u \in Thread \ {th} : frame'[u] = frame[u] /\ pc'[u] = pc[u]
  BY DEF Quiet, SameCall, Only
<1>2. UNCHANGED <<tensor, calm, before>>
  BY DEF Quiet
<1>3. QED
  BY <1>1, <1>2, ViewsStep

\* A step of th to the locals g at q, which leaves the tensors alone.
LEMMA ViewsGo ==
  ASSUME Control, Views, NEW th \in Thread, NEW g, NEW q, Quiet(th),
         frame'[th] = g, pc'[th] = q, g.failed = "no" => frame[th].failed = "no",
         Undisturbed(th) /\ g.failed = "no" =>
           /\ Finished(g, q) = Finished(frame[th], pc[th])
           /\ g.want = frame[th].want \/ Finished(g, q) = {}
           /\ ReadyWith(g, q, tensor[g.ops[g.i]])
  PROVE  Views'
<1>1. /\ g.op = frame[th].op /\ g.rets = frame[th].rets /\ g.ops = frame[th].ops
      /\ UNCHANGED <<tensor, calm, before>>
  BY DEF Quiet, SameCall
<1>2. ViewsSoFar(th)'
  BY <1>1, ViewsMove DEF Views, ViewsSoFar, Undisturbed
<1>3. QED
  BY <1>2, ViewsQuiet

\* The process ended.
LEMMA ViewsExit ==
  ASSUME Views, UNCHANGED <<frame, pc, tensor, calm, before>>
  PROVE  Views'
BY DEF Views, ViewsSoFar, Undisturbed

LEMMA ViewsFail ==
  ASSUME Control, Views, NEW th \in Thread, NEW g, NEW q, Quiet(th), Error(th, g, q),
         g.failed # "no"
  PROVE  Views'
<1>1. UNCHANGED <<tensor, calm, before>>
  BY DEF Quiet
<1>2. CASE UNCHANGED <<frame, pc>>
  BY <1>1, <1>2, ViewsExit
<1>3. CASE frame' = [frame EXCEPT ![th] = g] /\ pc' = [pc EXCEPT ![th] = q]
  <2>1. frame'[th] = g /\ pc'[th] = q
    BY <1>3 DEF Control, PerThread
  <2>2. QED
    BY <2>1, ViewsGo
<1>4. QED
  BY <1>2, <1>3 DEF Error, Goto

\* A check of expand lets th go on to q, or fails.
LEMMA ViewsCheck ==
  ASSUME Control, Views, NEW th \in Thread, NEW q, Quiet(th),
         pc[th] \in {"check", "rank"}, q \in {"rank", "geometry"},
         \/ /\ frame' = frame /\ Goto(th, q)
            /\ Undisturbed(th) => ReadyWith(frame[th], q, tensor[Source(th)])
         \/ Error(th, [frame[th] EXCEPT !.failed = "arg"], q)
  PROVE  Views'
<1> DEFINE f == frame[th]
           g == [f EXCEPT !.failed = "arg"]
<1>1. Locals(f, pc[th]) /\ Record(f) /\ PerThread(frame) /\ PerThread(pc)
  BY DEF Control, Locals
<1>2. CASE Error(th, g, q)
  <2>1. g.failed # "no"
    BY <1>1 DEF Record
  <2> HIDE DEF g
  <2>2. QED
    BY <1>2, <2>1, ViewsFail
<1>3. CASE /\ frame' = frame /\ Goto(th, q)
           /\ Undisturbed(th) => ReadyWith(f, q, tensor[Source(th)])
  <2>1. frame'[th] = f /\ pc'[th] = q
    BY <1>1, <1>3 DEF Goto, PerThread
  <2>2. Finished(f, q) = Finished(f, pc[th])
    BY DEF Finished
  <2>3. Undisturbed(th) => ReadyWith(f, q, tensor[f.ops[f.i]])
    BY <1>3 DEF Source
  <2> HIDE DEF f
  <2>4. QED
    BY <2>1, <2>2, <2>3, ViewsGo DEF f
<1>4. QED
  BY <1>2, <1>3

LEMMA expandCheckViews ==
  ASSUME Control, Data, Views, NEW th \in Thread, expandCheck(th) \/ expandCheckSizes(th)
  PROVE  Views'
<1> DEFINE f == frame[th]
           x == tensor[Source(th)]
<1>1. Quiet(th)
  BY expandCheckQuiet
<1>2. CASE expandCheck(th)
  <2>1. pc[th] = "check"
    BY <1>2 DEF expandCheck, At
  <2>2. x.size # <<>> => ReadyWith(f, "rank", x)
    BY DEF ReadyWith
  <2>3. QED
    BY <1>1, <1>2, <2>1, <2>2, ViewsCheck DEF expandCheck
<1>3. CASE expandCheckSizes(th)
  <2>1. pc[th] = "rank"
    BY <1>3 DEF expandCheckSizes, At
  <2>2. Undisturbed(th) => x.size # <<>>
    BY <2>1 DEF Views, ViewsSoFar, ViewsOf, ReadyWith, Source
  <2>3. Undisturbed(th) /\ Len(f.want) >= Len(x.size) => ReadyWith(f, "geometry", x)
    <3> DEFINE m == Len(x.size)
               n == Len(f.want)
    <3>1. n >= m <=> m <= n
      OBVIOUS
    <3> HIDE DEF m, n
    <3>2. QED
      BY <2>2, <3>1 DEF ReadyWith, m, n
  <2>4. QED
    BY <1>1, <1>3, <2>1, <2>3, ViewsCheck DEF expandCheckSizes
<1>4. QED
  BY <1>2, <1>3

\* What expand reads of its operand for the calls to come.
LEMMA expandReadsViews ==
  ASSUME Control, Data, Views, NEW th \in Thread, expandGeometry(th) \/ expandArgs(th)
  PROVE  Views'
<1> DEFINE f == frame[th]
           x == tensor[Source(th)]
<1>1. /\ Quiet(th) /\ PerThread(frame) /\ PerThread(pc) /\ Record(f)
      /\ x = tensor[f.ops[f.i]]
  BY expandReadsQuiet DEF Control, Locals, Source
<1>2. Undisturbed(th) => ReadyWith(f, pc[th], x)
  BY <1>1 DEF Views, ViewsSoFar, ViewsOf
<1>3. CASE expandGeometry(th)
  <2> DEFINE limit == Len(x.size)
             g == [f EXCEPT !.limit = limit]
  <2>1. frame'[th] = g /\ pc'[th] = "infer" /\ pc[th] = "geometry"
    BY <1>1, <1>3 DEF expandGeometry, Goto, PerThread, At
  <2> HIDE DEF limit
  <2>2. g.failed = f.failed /\ g.want = f.want /\ g.i = f.i /\ g.ops = f.ops
    BY <1>1 DEF Record
  <2> HIDE DEF g
  <2>3. Finished(g, "infer") = Finished(f, pc[th])
    BY <2>1, <2>2 DEF Finished
  <2>4. Undisturbed(th) => ReadyWith(g, "infer", x)
    BY <1>2, <2>1, <2>2 DEF ReadyWith
  <2> HIDE DEF x
  <2>5. QED
    BY <1>1, <2>1, <2>2, <2>3, <2>4, ViewsGo
<1>4. CASE expandArgs(th)
  <2> DEFINE storage == x.storage
             offset == x.offset
             g == [f EXCEPT !.storage = storage, !.offset = offset]
  <2>1. frame'[th] = g /\ pc'[th] = "set" /\ pc[th] = "args"
    BY <1>1, <1>4 DEF expandArgs, Goto, PerThread, At
  <2> HIDE DEF storage, offset
  <2>2. /\ g.failed = f.failed /\ g.want = f.want /\ g.i = f.i /\ g.ops = f.ops
        /\ g.stride = f.stride /\ g.storage = storage /\ g.offset = offset
    BY <1>1 DEF Record
  <2> HIDE DEF g
  <2>3. Finished(g, "set") = Finished(f, pc[th])
    BY <2>1, <2>2 DEF Finished
  <2>4. Undisturbed(th) => ReadyWith(g, "set", x)
    BY <1>2, <2>1, <2>2 DEF ReadyWith, storage, offset
  <2> HIDE DEF x
  <2>5. QED
    BY <1>1, <2>1, <2>2, <2>3, <2>4, ViewsGo
<1>5. QED
  BY <1>3, <1>4

LEMMA expandInferViews ==
  ASSUME Control, Data, Expanding, Views, NEW th \in Thread, expandInfer(th)
  PROVE  Views'
<1> DEFINE f == frame[th]
           x == tensor[Source(th)]
<1>1. /\ pc[th] = "infer" /\ Locals(f, "infer") /\ Quiet(th)
      /\ PerThread(frame) /\ PerThread(pc)
  BY ControlAt, expandInferQuiet DEF expandInfer
<1>2. Record(f)
  BY <1>1 DEF Locals
<1>3. PICK y \in GeometryAt(th) :
        IF Expandable(y.size, f.want)
        THEN /\ frame' = [frame EXCEPT ![th].stride = ExpandedStride(y, f.want)]
             /\ Goto(th, "args")
        ELSE Error(th, [f EXCEPT !.failed = "infer", !.i = NextOp(f)], AfterExpand(f))
  BY DEF expandInfer
<1>4. CASE ~Expandable(y.size, f.want)
  <2> DEFINE i == NextOp(f)
             g == [f EXCEPT !.failed = "infer", !.i = i]
  <2>1. Error(th, g, AfterExpand(f))
    BY <1>3, <1>4
  <2> HIDE DEF i
  <2>2. g.failed # "no"
    BY <1>2 DEF Record
  <2> HIDE DEF g
  <2>3. QED
    BY <1>1, <2>1, <2>2, ViewsFail
<1>5. CASE Expandable(y.size, f.want)
  <2> DEFINE stride == ExpandedStride(y, f.want)
             g == [f EXCEPT !.stride = stride]
  <2>1. frame'[th] = g /\ pc'[th] = "args"
    BY <1>1, <1>3, <1>5 DEF Goto, PerThread
  <2> HIDE DEF stride
  <2>2. /\ g.failed = f.failed /\ g.want = f.want /\ g.i = f.i /\ g.ops = f.ops
        /\ g.stride = stride
    BY <1>2 DEF Record
  <2> HIDE DEF g
  <2>3. Finished(g, "args") = Finished(f, pc[th])
    BY <1>1, <2>2 DEF Finished
  <2>4. x = tensor[f.ops[f.i]]
    BY DEF Source
  <2>5. Undisturbed(th) => ReadyWith(f, "infer", x)
    BY <1>1, <2>4 DEF Views, ViewsSoFar, ViewsOf
  <2>6. Undisturbed(th) => y.size = x.size /\ y.stride = x.stride
    <3> SUFFICES ASSUME Undisturbed(th) PROVE y.size = x.size /\ y.stride = x.stride
      OBVIOUS
    <3>1. moved[th] = {}
      BY <1>1 DEF Undisturbed, Expanding, ExpandedSoFar
    <3>2. y = [size |-> x.size, stride |-> x.stride]
      BY <3>1 DEF GeometryAt
    <3> HIDE DEF x
    <3>3. QED
      BY <3>2
  <2>7. Undisturbed(th) => stride = ExpandedStride(x, f.want) /\ Expandable(x.size, f.want)
    BY <1>5, <2>6 DEF stride, ExpandedStride
  <2>8. Undisturbed(th) => ReadyWith(g, "args", x)
    BY <2>2, <2>5, <2>7 DEF ReadyWith
  <2> HIDE DEF x
  <2>9. QED
    BY <1>1, <2>1, <2>2, <2>3, <2>4, <2>8, ViewsGo
<1>6. QED
  BY <1>4, <1>5

LEMMA expandFreeViews ==
  ASSUME Control, Data, Views, NEW th \in Thread, expandFree(th)
  PROVE  Views'
<1> DEFINE f == frame[th]
           i == NextOp(f)
           g == [f EXCEPT !.i = i]
           q == AfterExpand(f)
<1>1. /\ pc[th] = "free" /\ Locals(f, "free") /\ Quiet(th)
      /\ PerThread(frame) /\ PerThread(pc)
  BY ControlAt, expandFreeQuiet DEF expandFree
<1>2. /\ Record(f) /\ f.i \in 1 .. Len(f.ops) /\ f.ops \in Seq(Tensor)
      /\ f.op # "_expandNd" => Len(f.ops) = 1
  BY <1>1 DEF Locals, Place
<1>3. frame'[th] = g /\ pc'[th] = q
  BY <1>1 DEF expandFree, Goto, PerThread
<1>4. /\ q = "check" => i = f.i + 1
      /\ q # "check" => q \in {"done", "ndFree"} /\ f.i = Len(f.ops)
  <2>1. CASE f.op = "_expandNd" /\ f.i < Len(f.ops)
    BY <2>1 DEF AfterExpand, NextOp
  <2>2. CASE ~(f.op = "_expandNd" /\ f.i < Len(f.ops))
    <3>1. f.i = Len(f.ops)
      <4> DEFINE n == Len(f.ops)
      <4>1. n \in Nat /\ f.i \in 1 .. n /\ (n = 1 \/ ~ (f.i < n))
        BY <1>2, <2>2
      <4> HIDE DEF n
      <4>2. f.i = n
        BY <4>1
      <4>3. QED
        BY <4>2 DEF n
    <3>2. q \in {"done", "ndFree"}
      BY <2>2 DEF AfterExpand
    <3>3. QED
      BY <3>1, <3>2
  <2>3. QED
    BY <2>1, <2>2
<1> HIDE DEF i
<1>5. g.failed = f.failed /\ g.want = f.want /\ g.ops = f.ops /\ g.i = i
  BY <1>2 DEF Record
<1> HIDE DEF g, q
<1>6. Finished(g, q) = Finished(f, "free")
  <2>1. CASE q = "check"
    BY <1>2, <1>4, <1>5, <2>1 DEF Finished
  <2>2. CASE q # "check"
    BY <1>2, <1>4, <1>5, <2>2 DEF Finished
  <2>3. QED
    BY <2>1, <2>2
<1>7. ReadyWith(g, q, tensor[g.ops[g.i]])
  BY <1>4 DEF ReadyWith
<1>8. QED
  BY <1>1, <1>3, <1>5, <1>6, <1>7, ViewsGo

\* The steps of expandNd itself: before the loop nothing is set.
LEMMA expandNdViews ==
  ASSUME Control, Data, Views, NEW th \in Thread,
         expandNdCheck(th) \/ expandNdTake(th) \/ expandNdInfer(th) \/ expandNdFree(th)
  PROVE  Views'
<1> DEFINE f == frame[th]
<1>1. /\ pc[th] \in {"ndCheck", "ndTake", "ndInfer", "ndFree"} /\ Locals(f, pc[th])
      /\ PerThread(frame) /\ PerThread(pc) /\ Quiet(th)
  BY ControlAt, expandNdQuiet DEF expandNdCheck, expandNdTake, expandNdInfer, expandNdFree
<1>2. Record(f)
  BY <1>1 DEF Locals
<1>3. ASSUME NEW q \in {"ndCheck", "ndTake", "ndInfer", "done"}, NEW g, frame'[th] = g, pc'[th] = q,
             g.failed = f.failed, g.ops = f.ops, g.want = f.want,
             q = "done" <=> pc[th] = "ndFree"
      PROVE  Views'
  <2>1. Finished(g, q) = Finished(f, pc[th]) /\ ReadyWith(g, q, tensor[g.ops[g.i]])
    BY <1>1, <1>3 DEF Finished, ReadyWith
  <2>2. QED
    BY <1>1, <1>3, <2>1, ViewsGo
<1>4. ASSUME NEW x \in {"arg", "infer"}, NEW q, Error(th, [f EXCEPT !.failed = x], q)
      PROVE  Views'
  <2> DEFINE g == [f EXCEPT !.failed = x]
  <2>1. g.failed # "no"
    BY <1>2 DEF Record
  <2>2. Error(th, g, q)
    BY <1>4
  <2> HIDE DEF g
  <2>3. QED
    BY <1>1, <2>1, <2>2, ViewsFail
<1>5. CASE expandNdCheck(th)
  <2> DEFINE i == NextRound(f)
             g == [f EXCEPT !.i = i]
             h == [g EXCEPT !.failed = "arg"]
             q == IF f.i < Len(g.ops) THEN "ndCheck" ELSE "ndTake"
  <2>1. /\ pc[th] = "ndCheck"
        /\ \/ frame'[th] = g /\ pc'[th] = q
           \/ Error(th, h, q)
    BY <1>1, <1>5 DEF expandNdCheck, Goto, PerThread, At
  <2> HIDE DEF i
  <2>2. g.failed = f.failed /\ g.ops = f.ops /\ g.want = f.want /\ h.failed # "no"
    BY <1>2 DEF Record
  <2>3. q \in {"ndCheck", "ndTake"}
    OBVIOUS
  <2> HIDE DEF g, h, q
  <2>4. CASE Error(th, h, q)
    BY <1>1, <2>2, <2>4, ViewsFail
  <2>5. CASE frame'[th] = g /\ pc'[th] = q
    BY <1>3, <2>1, <2>2, <2>3, <2>5
  <2>6. QED
    BY <2>1, <2>4, <2>5
<1>6. CASE expandNdTake(th)
  <2> DEFINE i == NextRound(f)
             read == Append(f.read, Len(tensor[Source(th)].size))
             g == [f EXCEPT !.read = read, !.i = i]
  <2>1. frame'[th] = g /\ pc'[th] \in {"ndTake", "ndInfer"} /\ pc[th] = "ndTake"
    BY <1>1, <1>6 DEF expandNdTake, Goto, PerThread, At
  <2> HIDE DEF i, read
  <2>2. g.failed = f.failed /\ g.ops = f.ops /\ g.want = f.want
    BY <1>2 DEF Record
  <2> HIDE DEF g
  <2>3. QED
    BY <1>3, <2>1, <2>2
<1>7. CASE expandNdInfer(th)
  <2>1. PICK lists \in SizesAt(th) :
          \/ Error(th, [f EXCEPT !.failed = "infer"], "done")
          \/ /\ frame' = [frame EXCEPT ![th].want = CommonSize(lists), ![th].i = 1]
             /\ pc' = [pc EXCEPT ![th] = "check"]
    BY <1>7 DEF expandNdInfer, Goto
  <2>2. pc[th] = "ndInfer"
    BY <1>7 DEF expandNdInfer, At
  <2>3. CASE /\ frame' = [frame EXCEPT ![th].want = CommonSize(lists), ![th].i = 1]
             /\ pc' = [pc EXCEPT ![th] = "check"]
    <3> DEFINE want == CommonSize(lists)
               g == [f EXCEPT !.want = want, !.i = 1]
    <3>1. frame'[th] = g /\ pc'[th] = "check"
      BY <1>1, <2>3 DEF PerThread
    <3> HIDE DEF want
    <3>2. g.failed = f.failed /\ g.ops = f.ops /\ g.i = 1
      BY <1>2 DEF Record
    <3> HIDE DEF g
    <3>3. 1 .. g.i - 1 = {}
      BY <3>2
    <3>4. /\ Finished(g, "check") = {} /\ Finished(f, pc[th]) = {}
          /\ ReadyWith(g, "check", tensor[g.ops[g.i]])
      BY <2>2, <3>3 DEF Finished, ReadyWith
    <3>5. QED
      BY <1>1, <3>1, <3>2, <3>4, ViewsGo
  <2>4. QED
    BY <1>4, <2>1, <2>3
<1>8. CASE expandNdFree(th)
  <2>1. frame'[th] = f /\ pc'[th] = "done" /\ pc[th] = "ndFree"
    BY <1>1, <1>8 DEF expandNdFree, Goto, PerThread, At
  <2>2. QED
    BY <1>3, <2>1
<1>9. QED
  BY <1>5, <1>6, <1>7, <1>8

\* The storage s gets room for x if it gets any.
RoomFor(s, x) == cap' \in {cap, [cap EXCEPT ![s] = Max({cap[s], Extent(x)})]}

\* C changes the tensor t to x, which has a storage of its own.
LEMMA ChangeStored ==
  ASSUME Typed, NEW th \in Thread, NEW t \in Tensor, NEW x \in AllTensors, x.storage # NoObj,
         Change(th, t, x)
  PROVE  tensor'[t] = x /\ RoomFor(x.storage, x)
<1> DEFINE s == x.storage
           y == [x EXCEPT !.storage = s]
<1>1. tensor \in [Tensor -> AllTensors] /\ cap \in [Storage -> Nat]
  BY DEF Typed, Objects
<1>2. s \in Storage
  BY DEF AllTensors
<1>3. y = x
  BY <1>2, Placed
<1>4. \/ tensor' = [tensor EXCEPT ![t] = x] /\ cap' = cap
      \/ /\ tensor' = [tensor EXCEPT ![t] = y]
         /\ cap' = [cap EXCEPT ![s] = Max({cap[s], Extent(x)})]
  BY DEF Change
<1> HIDE DEF y
<1>5. tensor'[t] = x
  BY <1>1, <1>3, <1>4
<1>6. RoomFor(s, x)
  BY <1>4 DEF RoomFor
<1>7. QED
  BY <1>5, <1>6

\* The steps of other calls, which show nothing.
LEMMA ViewsOther ==
  ASSUME NEW th \in Thread, frame'[th].op \notin Shows
  PROVE  ViewsSoFar(th)'
BY DEF ViewsSoFar, Undisturbed

\* A step of th that changes the tensor t of its call.
LEMMA ViewsChange ==
  ASSUME Control, Data, Views, NEW th \in Thread, NEW t \in Tensor, NEW x, NEW p,
         Change(th, t, x), UNCHANGED <<frame, before>>, pc' = [pc EXCEPT ![th] = p],
         ViewsSoFar(th)'
  PROVE  Views'
<1>1. \A u \in Thread \ {th} : frame'[u] = frame[u] /\ pc'[u] = pc[u] /\ before'[u] = before[u]
  BY DEF Control, PerThread
<1>2. /\ \A u \in Tensor \ {t} : tensor'[u] = tensor[u]
      /\ \A u \in Thread : calm'[u] => calm[u] /\ (u = th \/ t \notin Uses(u))
  BY ChangeFacts
<1>3. \A u \in Thread : Uses(u) \subseteq Tensor
  BY DEF Uses, Control, Locals, Range
<1>4. \A u \in Thread \ {th} : calm'[u] => calm[u] /\ \A s \in Uses(u) : tensor'[s] = tensor[s]
  BY <1>2, <1>3
<1>5. QED
  BY <1>1, <1>4, ViewsStep

\* What expand sets its result to, if no check failed, expands its operand.
LEMMA SetFacts ==
  ASSUME Control, Typed, Views, NEW th \in Thread, expandSet(th), Undisturbed(th)
  PROVE  LET f == frame[th]
             x == tensor[Source(th)]
         IN  /\ Strided(x) /\ f.want \in Seq(Nat) /\ View(th) \in AllTensors
             /\ x.size # <<>> /\ Len(x.size) <= Len(f.want) /\ Expandable(x.size, f.want)
             /\ Expands1(View(th), x, f.want)
<1> DEFINE f == frame[th]
           x == tensor[Source(th)]
<1>1. pc[th] = "set" /\ f.op \in Shows
  BY DEF expandSet, At, Undisturbed
<1>2. Source(th) \in Tensor
  BY <1>1, OperandFacts DEF Shows
<1>3. /\ x \in AllTensors /\ Strided(x) /\ x.offset \in Nat /\ x.storage \in Storage \cup {NoObj}
  BY <1>2, TensorFacts
<1>4. f.want \in SizeList /\ f.want \in Seq(Nat) /\ f.stride \in Seq(Nat)
  BY SizeListIsList DEF Typed, Settled, Fields
<1>5. ReadyWith(f, "set", x)
  BY <1>1 DEF Views, ViewsSoFar, ViewsOf, Source
<1>6. View(th) = [size |-> f.want, stride |-> f.stride, storage |-> x.storage,
                  offset |-> x.offset]
  BY <1>5 DEF View, ReadyWith
<1> HIDE DEF f, x
<1>7. View(th) \in AllTensors
  BY <1>3, <1>4, <1>6 DEF AllTensors
<1>8. Expands1(View(th), x, f.want)
  BY <1>5, <1>6 DEF Expands1, ReadyWith
<1>9. QED
  BY <1>3, <1>4, <1>5, <1>7, <1>8 DEF f, x, ReadyWith

LEMMA expandSetViews ==
  ASSUME Control, Data, Typed, Views, NEW th \in Thread, expandSet(th)
  PROVE  Views'
<1> DEFINE f == frame[th]
           s == Source(th)
           t == Target(th)
           x == tensor[s]
<1>1. /\ pc[th] = "set" /\ Locals(f, "set") /\ UNCHANGED <<frame, before>>
      /\ pc' = [pc EXCEPT ![th] = "free"] /\ PerThread(pc) /\ Change(th, t, View(th))
  BY ControlAt DEF expandSet, Goto
<1>2. /\ f.op \in Shows /\ f.rets \in Seq(Tensor) /\ f.ops \in Seq(Tensor)
      /\ f.i \in 1 .. Len(f.ops) /\ Len(f.rets) = Len(f.ops)
  BY <1>1, Positioned DEF Locals, Place, Shows
<1>3. /\ t \in Tensor /\ s \in Tensor /\ s \in Range(f.ops)
      /\ t = f.rets[f.i] /\ s = f.ops[f.i]
  BY <1>2 DEF Target, Source, Range
<1>4. /\ \A u \in Tensor \ {t} : tensor'[u] = tensor[u]
      /\ calm'[th] => calm[th]
  BY <1>1, <1>3, ChangeFacts
<1>5. pc'[th] = "free" /\ frame'[th] = f /\ before'[th] = before[th]
  BY <1>1 DEF PerThread
<1>6. Indexed(f, "free")
  BY <1>2 DEF Indexed, Finished
<1> HIDE DEF s, t
<1>7. ASSUME Undisturbed(th)
      PROVE  ViewsOf(f, "free", tensor', before[th])
  <2> DEFINE then == before[th]
             done == Finished(f, "set")
  <2>1. ViewsOf(f, "set", tensor, then)
    BY <1>1, <1>7 DEF Views, ViewsSoFar
  <2>2. done = 1 .. f.i - 1
    BY DEF Finished
  <2>3. \/ then[s].storage = NoObj
        \/ \E k \in 1 .. f.i - 1 : f.rets[k] = s
        \/ ShowsExpanded(tensor'[t], then[s], f.want)
    <3> SUFFICES ASSUME then[s].storage # NoObj, ~ \E k \in 1 .. f.i - 1 : f.rets[k] = s
                 PROVE  ShowsExpanded(tensor'[t], then[s], f.want)
      OBVIOUS
    <3>1. x = then[s]
      <4>1. s \notin {f.rets[k] : k \in done}
        BY <2>2
      <4>2. \A u \in Range(f.rets) \cup Range(f.ops) :
              u \notin {f.rets[k] : k \in done} => tensor[u] = then[u]
        BY <2>1 DEF ViewsOf
      <4> HIDE DEF done, then, f
      <4>3. QED
        BY <1>3, <4>1, <4>2
    <3>2. /\ Strided(x) /\ f.want \in Seq(Nat) /\ View(th) \in AllTensors
          /\ Len(x.size) <= Len(f.want) /\ Expandable(x.size, f.want)
          /\ Expands1(View(th), x, f.want)
      BY <1>7, SetFacts DEF s
    <3> HIDE DEF then, x
    <3>3. tensor'[t] = View(th)
      <4>1. View(th).storage # NoObj
        BY <3>1, <3>2 DEF Expands1
      <4> DEFINE v == View(th)
      <4>2. v \in AllTensors /\ v.storage # NoObj /\ Change(th, t, v)
        BY <1>1, <3>2, <4>1
      <4> HIDE DEF v
      <4>3. tensor'[t] = v
        BY <1>3, <4>2, ChangeStored
      <4>4. QED
        BY <4>3 DEF v
    <3>4. ShowsExpanded(View(th), x, f.want)
      BY <3>2, ViewShows
    <3>5. QED
      BY <3>1, <3>3, <3>4
  <2> HIDE DEF then
  <2>4. QED
    BY <1>2, <1>3, <1>4, <1>6, <2>1, <2>3, ViewsSet DEF then
<1>8. ViewsSoFar(th)'
  BY <1>4, <1>5, <1>7 DEF ViewsSoFar, Undisturbed
<1>9. QED
  BY <1>1, <1>3, <1>8, ViewsChange

LEMMA resizeDimViews ==
  ASSUME Control, Data, Views, NEW th \in Thread, resizeDim(th)
  PROVE  Views'
<1> DEFINE f == frame[th]
           t == Target(th)
<1>1. /\ pc[th] = "resize" /\ Locals(f, "resize") /\ UNCHANGED <<frame, before>>
      /\ pc' = [pc EXCEPT ![th] = "done"] /\ PerThread(pc)
  BY ControlAt DEF resizeDim, Goto
<1>2. f.op \notin Shows /\ t \in Tensor
  <2>1. f.op = "_resizeDim" /\ f.rets \in Seq(Tensor) /\ Len(f.rets) = 1 /\ f.i = 1
    BY <1>1 DEF Locals, Place
  <2>2. QED
    BY <2>1 DEF Shows, Target
<1>3. ViewsSoFar(th)'
  BY <1>1, <1>2, ViewsOther
<1> HIDE DEF t
<1>4. CASE \E x : Change(th, t, x)
  BY <1>1, <1>2, <1>3, <1>4, ViewsChange
<1>5. CASE UNCHANGED mem
  <2>1. \A u \in Thread \ {th} : frame'[u] = frame[u] /\ pc'[u] = pc[u]
    BY <1>1 DEF PerThread
  <2>2. QED
    BY <1>1, <1>3, <1>5, <2>1, ViewsStep DEF mem
<1>6. QED
  BY <1>4, <1>5 DEF resizeDim, t

\* A result that is new was made when the call looked at it.
LEMMA createsViews ==
  ASSUME Control, Data, Views, NEW th \in Thread,
         newExpandNew(th) \/ expand2dNew(th) \/ withEmptyNew(th)
  PROVE  Views'
<1> DEFINE f == frame[th]
<1>0. /\ PerThread(before) /\ PerThread(pc) /\ tensor = [u \in Tensor |-> tensor[u]]
      /\ before[th] = [t \in Tensor |-> before[th][t]]
  BY DEF Data, Results, Control
<1>1. PICK r \in Tensor \ (held \cup Private), p \in {"check", "done"} :
        /\ \A u \in Tensor \ {r} : tensor'[u] = tensor[u]
        /\ \A u \in Thread : calm'[u] => calm[u]
        /\ frame' = [frame EXCEPT ![th].rets = <<r>>]
        /\ before' = [before EXCEPT ![th][r] = tensor'[r]]
        /\ pc' = [pc EXCEPT ![th] = p]
        /\ p = "done" => f.op = "withEmpty"
  <2>1. CASE newExpandNew(th)
    <3>1. PICK r \in Tensor \ (held \cup Private) :
            /\ frame' = [frame EXCEPT ![th].rets = <<r>>]
            /\ tensor' = [tensor EXCEPT ![r] = NewTensor]
            /\ before' = [before EXCEPT ![th][r] = NewTensor]
      BY <2>1 DEF newExpandNew
    <3>2. tensor'[r] = NewTensor /\ \A u \in Tensor \ {r} : tensor'[u] = tensor[u]
      BY <1>0, <3>1
    <3>3. calm' = calm /\ pc' = [pc EXCEPT ![th] = "check"]
      BY <2>1 DEF newExpandNew, Goto
    <3>4. QED
      BY <3>1, <3>2, <3>3
  <2>2. CASE expand2dNew(th)
    <3>1. newSized(th, f.want) /\ pc' = [pc EXCEPT ![th] = "check"]
      BY <2>2 DEF expand2dNew, Goto
    <3>2. QED
      BY <3>1, CreateFacts
  <2>3. CASE withEmptyNew(th)
    <3>1. newSized(th, f.read) /\ pc' = [pc EXCEPT ![th] = "done"] /\ f.op = "withEmpty"
      BY <2>3 DEF withEmptyNew, Goto
    <3>2. QED
      BY <3>1, CreateFacts
  <2>4. QED
    BY <2>1, <2>2, <2>3
<1>2. /\ \A u \in Thread \ {th} : /\ frame'[u] = frame[u] /\ pc'[u] = pc[u]
                                  /\ before'[u] = before[u]
      /\ pc'[th] = p /\ before'[th][r] = tensor'[r]
      /\ \A t \in Tensor \ {r} : before'[th][t] = before[th][t]
  <2>1. \A u \in Thread \ {th} : frame'[u] = frame[u]
    BY <1>1, WithResult DEF Only, Control, PerThread
  <2>2. \A u \in Thread \ {th} : before'[u] = before[u] /\ pc'[u] = pc[u]
    BY <1>0, <1>1 DEF PerThread
  <2>3. pc'[th] = p /\ before'[th] = [before[th] EXCEPT ![r] = tensor'[r]]
    BY <1>0, <1>1 DEF PerThread
  <2>4. QED
    BY <1>0, <2>1, <2>2, <2>3
<1>3. ASSUME NEW u \in Thread
      PROVE  Uses(u) \subseteq Tensor /\ r \notin Uses(u)
  <2>1. Uses(u) \subseteq Tensor
    BY DEF Uses, Control, Locals, Range
  <2>2. r \notin Uses(u)
    BY DEF Uses, Private, Data, Ownership, Owned
  <2>3. QED
    BY <2>1, <2>2
<1>4. /\ frame'[th].op = f.op /\ frame'[th].ops = f.ops /\ frame'[th].rets = <<r>>
      /\ frame'[th].i = f.i /\ frame'[th].failed = f.failed
  <2> DEFINE g == [f EXCEPT !.rets = <<r>>]
  <2>1. frame'[th] = g
    BY <1>1 DEF Control, PerThread
  <2>2. Record(f)
    BY DEF Control, Locals
  <2>3. g.op = f.op /\ g.ops = f.ops /\ g.rets = <<r>> /\ g.i = f.i /\ g.failed = f.failed
    BY <2>2 DEF Record
  <2> HIDE DEF g
  <2>4. QED
    BY <2>1, <2>3
<1>5. ASSUME Undisturbed(th)'
      PROVE  ViewsOf(frame'[th], pc'[th], tensor', before'[th])
  <2>1. pc[th] = "new" /\ f.op \in {"newExpand", "expand2d"} /\ p = "check"
    BY <1>1, <1>4, <1>5 DEF newExpandNew, expand2dNew, withEmptyNew, At, Undisturbed, Shows
  <2>2. f.i = 1
    <3>1. f.i \in 1 .. Len(f.ops) /\ Len(f.ops) = 1
      BY <2>1 DEF Control, Locals
    <3>2. QED
      BY <3>1
  <2>3. Finished(frame'[th], "check") = {}
    BY <1>4, <2>2 DEF Finished
  <2>4. ViewsOf(f, "new", tensor, before[th])
    BY <1>1, <1>4, <1>5, <2>1 DEF Views, ViewsSoFar, Undisturbed
  <2>5. \A t \in Range(f.ops) : tensor[t] = before[th][t]
    BY <2>4 DEF ViewsOf, Finished
  <2>6. \A t \in Range(f.ops) : t \in Tensor /\ t # r
    BY <1>3 DEF Uses
  <2>7. \A t \in Range(f.ops) : tensor'[t] = before'[th][t]
    BY <1>1, <1>2, <2>5, <2>6
  <2>8. Range(<<r>>) = {r}
    BY DEF Range
  <2>9. \A t \in Range(frame'[th].rets) \cup Range(frame'[th].ops) : tensor'[t] = before'[th][t]
    BY <1>2, <1>4, <2>7, <2>8
  <2>10. QED
    BY <1>2, <2>1, <2>3, <2>9, ViewsBegin
<1>6. ViewsSoFar(th)'
  BY <1>5 DEF ViewsSoFar
<1>7. \A u \in Thread \ {th} : calm'[u] => calm[u] /\ \A t \in Uses(u) : tensor'[t] = tensor[t]
  BY <1>1, <1>3
<1>8. QED
  BY <1>2, <1>6, <1>7, ViewsStep

LEMMA readsViews ==
  ASSUME Control, Data, Views, NEW th \in Thread,
         \/ getDimListRank(th) \/ getDimListSize(th)
         \/ getStorage(th) \/ tensordataLength(th) \/ tensordataPointer(th)
         \/ tensordataPeek(th) \/ resize(th)
  PROVE  Views'
<1>1. /\ pc[th] \in {"dims", "size", "storage", "length", "data", "peek", "capacity"}
      /\ Locals(frame[th], pc[th])
  BY ControlAt DEF getDimListRank, getDimListSize, getStorage, tensordataLength,
                   tensordataPointer, tensordataPeek, resize
<1>2. frame[th].op \notin Shows
  BY <1>1 DEF Locals, Place, Shows
<1>3. Quiet(th)
  BY readsQuiet
<1>4. ViewsSoFar(th)'
  BY <1>2, <1>3, ViewsOther DEF Quiet, SameCall
<1>5. QED
  BY <1>3, <1>4, ViewsQuiet

LEMMA BeginViews ==
  ASSUME Control, Data, Views, NEW th \in Thread, Begin(th)
  PROVE  Views'
<1>1. PerThread(frame) /\ PerThread(pc) /\ PerThread(calm) /\ PerThread(before)
  BY DEF Control, Data, Results
<1>2. PICK c \in CallsOf[th] :
        /\ frame' = [frame EXCEPT ![th] = [Idle EXCEPT !.op = c.op, !.rets = c.rets,
                                                       !.ops = c.ops, !.want = c.want]]
        /\ pc' = [pc EXCEPT ![th] = Entry(c.op)]
  BY DEF Begin, Goto
<1> DEFINE g == [Idle EXCEPT !.op = c.op, !.rets = c.rets, !.ops = c.ops, !.want = c.want]
<1>3. g.op = c.op /\ g.i = 1
  BY CallFacts DEF Idle
<1>4. /\ frame'[th] = g /\ before'[th] = tensor /\ pc'[th] = Entry(c.op)
      /\ \A u \in Thread \ {th} : /\ frame'[u] = frame[u] /\ pc'[u] = pc[u]
                                  /\ calm'[u] = calm[u] /\ before'[u] = before[u]
      /\ tensor' = tensor
  BY <1>1, <1>2 DEF Begin, PerThread
<1> HIDE DEF g
<1>5. ASSUME c.op \in Shows
      PROVE  ViewsOf(g, Entry(c.op), tensor, tensor)
  <2>1. Entry(c.op) \in {"new", "check", "ndCheck"}
    BY <1>5 DEF Entry, Shows
  <2>2. Finished(g, Entry(c.op)) = {}
    BY <1>3, <2>1 DEF Finished
  <2>3. QED
    BY <2>1, <2>2, ViewsBegin
<1>6. ViewsSoFar(th)'
  BY <1>3, <1>4, <1>5 DEF ViewsSoFar, Undisturbed
<1>7. QED
  BY <1>4, <1>6, ViewsStep

LEMMA ReturnViews ==
  ASSUME Control, Data, Views, NEW th \in Thread, Return(th)
  PROVE  Views'
<1>1. /\ frame'[th] = Idle
      /\ \A u \in Thread \ {th} : frame'[u] = frame[u] /\ pc'[u] = pc[u]
      /\ UNCHANGED <<tensor, calm, before>>
  BY DEF Return, Goto, Control, PerThread, mem
<1>2. ViewsSoFar(th)'
  BY <1>1, ViewsOther DEF Idle, Shows
<1>3. QED
  BY <1>1, <1>2, ViewsStep

-----------------------------------------------------------------------------
LEMMA InitViews == Init => Views
<1> SUFFICES ASSUME Init PROVE Views
  OBVIOUS
<1>1. \A th \in Thread : frame[th].op \notin Shows
  BY DEF Init, Idle, Shows
<1>2. QED
  BY <1>1 DEF Views, ViewsSoFar, Undisturbed

LEMMA NextViews == Control /\ Data /\ Typed /\ Expanding /\ Views /\ [Next]_vars => Views'
<1> SUFFICES ASSUME Control, Data, Typed, Expanding, Views, [Next]_vars PROVE Views'
  OBVIOUS
<1>1. CASE UNCHANGED vars
  BY <1>1, ViewsExit DEF vars
<1>2. ASSUME NEW th \in Thread, Begin(th) \/ Continue(th)
      PROVE  Views'
  BY <1>2, NextCases, BeginViews, createsViews, expandCheckViews, expandReadsViews,
     expandInferViews, expandSetViews, expandFreeViews, expandNdViews, resizeDimViews,
     readsViews, ReturnViews
<1>3. QED
  BY <1>1, <1>2 DEF Next

LEMMA ViewsShown ==
  ASSUME Control, Views
  PROVE  ExpandedView
<1> SUFFICES ASSUME NEW th \in Thread, pc[th] = "done", Undisturbed(th),
                    NEW j \in DOMAIN frame[th].ops
             PROVE  LET f == frame[th]
                    IN  \/ before[th][f.ops[j]].storage = NoObj
                        \/ \E k \in 1 .. j - 1 : f.rets[k] = f.ops[j]
                        \/ \E k \in j + 1 .. Len(f.ops) : f.rets[k] = f.rets[j]
                        \/ ShowsExpanded(tensor[f.rets[j]], before[th][f.ops[j]], f.want)
  BY DEF ExpandedView, Undisturbed, Shows
<1> DEFINE f == frame[th]
<1>1. Finished(f, "done") = DOMAIN f.ops
  BY DEF Finished
<1>2. ViewAt(f, DOMAIN f.ops, j, tensor, before[th])
  BY <1>1 DEF Views, ViewsSoFar, ViewsOf
<1>3. f.ops \in Seq(Tensor)
  BY DEF Control, Locals
<1>4. \A k \in DOMAIN f.ops : k > j => k \in j + 1 .. Len(f.ops)
  BY <1>3
<1>5. QED
  BY <1>2, <1>4 DEF ViewAt

\* What expand, newExpand, expand2d and expandNd give back shows every operand with
\* the wanted sizes: the strides that inferExpandGeometry computes reach the element of
\* the operand for every position, whatever the rank and also when results are operands.
THEOREM ViewsAreShown == Spec => []ExpandedView
<1>1. Init => Control /\ Data /\ Typed /\ Expanding /\ Views
  BY InitAll, InitExpanding, InitViews
<1>2. Control /\ Data /\ Typed /\ Expanding /\ Views /\ [Next]_vars =>
        (Control /\ Data /\ Typed /\ Expanding /\ Views)'
  BY NextAll, NextExpanding, NextViews
<1>3. Control /\ Views => ExpandedView
  BY ViewsShown
<1>4. QED
  BY <1>1, <1>2, <1>3, PTL DEF Spec

\* A step from "set" to "free" is setStorageNd.
LEMMA SetStep ==
  ASSUME Control, [Next]_vars, NEW th \in Thread, pc[th] = "set", pc'[th] = "free"
  PROVE  expandSet(th)
<1>1. ~ UNCHANGED vars
  BY DEF vars
<1>2. PICK u \in Thread : Begin(u) \/ Continue(u)
  BY <1>1 DEF Next
<1>3. PICK p : pc' = [pc EXCEPT ![u] = p] \/ pc' = pc
  BY <1>2, NextCases DEF Begin, newExpandNew, expandCheck, expandCheckSizes, expandGeometry,
     expandInfer, expandArgs, expandSet, expandFree, expandNdCheck, expandNdTake, expandNdInfer,
     expandNdFree, expand2dNew, getDimListRank, getDimListSize, withEmptyNew, getStorage,
     tensordataLength, tensordataPointer, tensordataPeek, resize, resizeDim, Return, Goto, Error
<1>4. u = th
  BY <1>3 DEF Control, PerThread
<1>5. QED
  BY <1>2, <1>4, NextCases DEF Begin, newExpandNew, expandCheck, expandCheckSizes,
     expandGeometry, expandInfer, expandArgs, expandFree, expandNdCheck, expandNdTake,
     expandNdInfer, expandNdFree, expand2dNew, getDimListRank, getDimListSize, withEmptyNew,
     getStorage, tensordataLength, tensordataPointer, tensordataPeek, resize, resizeDim,
     Return, At

LEMMA SetOnlyViews ==
  ASSUME Control, Typed, Views, NEW th \in Thread, expandSet(th), Undisturbed(th),
         InStorage(tensor[Source(th)])
  PROVE  cap' = cap
<1> DEFINE f == frame[th]
           x == tensor[Source(th)]
           y == View(th)
           t == Target(th)
           s == x.storage
<1>1. /\ Strided(x) /\ f.want \in Seq(Nat) /\ y \in AllTensors
      /\ x.size # <<>> /\ Len(x.size) <= Len(f.want) /\ Expandable(x.size, f.want)
      /\ Expands1(y, x, f.want)
  BY SetFacts
<1>2. Change(th, t, y)
  BY DEF expandSet
<1>3. t \in Tensor /\ Source(th) \in Tensor
  <2>1. f.op \in Shows /\ pc[th] = "set"
    BY DEF Undisturbed, expandSet, At
  <2>2. f.rets \in Seq(Tensor) /\ f.i \in 1 .. Len(f.rets)
    BY <2>1, Positioned DEF Control, Locals, Shows
  <2>3. QED
    BY <2>1, <2>2, OperandFacts DEF Target, Shows
<1>4. /\ s \in Storage /\ s # NoObj /\ Extent(x) <= cap[s] /\ x.size \in SizeList
      /\ x.stride \in Seq(Nat) /\ Len(x.stride) = Len(x.size) /\ x.offset \in Nat
  BY <1>3, TensorFacts DEF InStorage
<1>5. cap \in [Storage -> Nat]
  BY DEF Typed, Objects
<1> HIDE DEF x, y, t, s
<1>6. Extent(y) = Extent(x)
  BY <1>1, ViewExtent
<1>7. y.storage = s
  BY <1>1 DEF Expands1, s
<1>8. RoomFor(s, y)
  BY <1>1, <1>2, <1>3, <1>4, <1>7, ChangeStored
<1>9. Extent(x) \in Nat /\ cap[s] \in Nat
  BY <1>4, <1>5, ExtentType
<1>10. Max({cap[s], Extent(y)}) = cap[s]
  BY <1>4, <1>6, <1>9, Room
<1>11. [cap EXCEPT ![s] = cap[s]] = cap
  BY <1>5
<1>12. QED
  BY <1>8, <1>10, <1>11 DEF RoomFor

\* An expand whose operand lies inside its storage gives a view of that storage and
\* never makes it grow: the strides of the view reach no further than the operand's.
THEOREM ViewsOnly == Spec => ViewOnly
<1>1. Init => Control /\ Data /\ Typed /\ Expanding /\ Views
  BY InitAll, InitExpanding, InitViews
<1>2. Control /\ Data /\ Typed /\ Expanding /\ Views /\ [Next]_vars =>
        (Control /\ Data /\ Typed /\ Expanding /\ Views)'
  BY NextAll, NextExpanding, NextViews
<1>3. ASSUME Control, Data, Typed, Views, [Next]_vars
      PROVE  \A th \in Thread : pc[th] = "set" /\ pc'[th] = "free" /\ calm[th]
                                  /\ frame[th].failed = "no" /\ InStorage(tensor[Source(th)])
                                  => cap' = cap
  <2> SUFFICES ASSUME NEW th \in Thread, pc[th] = "set", pc'[th] = "free", calm[th],
                      frame[th].failed = "no", InStorage(tensor[Source(th)])
               PROVE  cap' = cap
    OBVIOUS
  <2>1. expandSet(th)
    BY <1>3, SetStep
  <2>2. Undisturbed(th)
    BY <1>3 DEF Control, Locals, Place, Undisturbed, Shows
  <2>3. QED
    BY <1>3, <2>1, <2>2, SetOnlyViews
<1>4. QED
  BY <1>1, <1>2, <1>3, PTL DEF Spec, ViewOnly

-----------------------------------------------------------------------------
(***************************************************************************)
(* Calls come to their end.                                                *)
(***************************************************************************)

\* A step of th brings its call nearer to its end, or leaves it where it is.
Closer(th) ==
  \/ StepsFrom(frame'[th], pc'[th]) \in 0 .. StepsFrom(frame[th], pc[th]) - 1
  \/ UNCHANGED <<frame, pc>>

LEMMA CloserMove ==
  ASSUME Control, NEW th \in Thread, NEW g, NEW p,
         StepsFrom(g, p) \in 0 .. StepsFrom(frame[th], pc[th]) - 1,
         frame' = [frame EXCEPT ![th] = g], pc' = [pc EXCEPT ![th] = p]
  PROVE  Closer(th)
<1>1. frame'[th] = g /\ pc'[th] = p
  BY DEF Control, PerThread
<1>2. QED
  BY <1>1 DEF Closer

LEMMA CloserPlace ==
  ASSUME Control, NEW th \in Thread, NEW p,
         StepsFrom(frame[th], p) \in 0 .. StepsFrom(frame[th], pc[th]) - 1,
         frame' = frame, pc' = [pc EXCEPT ![th] = p]
  PROVE  Closer(th)
<1>1. frame'[th] = frame[th] /\ pc'[th] = p
  BY DEF Control, PerThread
<1>2. QED
  BY <1>1 DEF Closer

LEMMA CloserError ==
  ASSUME Control, NEW th \in Thread, NEW g, NEW p, Error(th, g, p),
         StepsFrom(g, p) \in 0 .. StepsFrom(frame[th], pc[th]) - 1
  PROVE  Closer(th)
<1>1. CASE UNCHANGED <<frame, pc>>
  BY <1>1 DEF Closer
<1>2. CASE frame' = [frame EXCEPT ![th] = g] /\ pc' = [pc EXCEPT ![th] = p]
  BY <1>2, CloserMove
<1>3. QED
  BY <1>1, <1>2 DEF Error, Goto

\* What is left of the loop of expandNd after the expand that it is at.
Later(f) == IF f.op = "_expandNd" THEN 7 * (Len(f.ops) - f.i) ELSE 0

\* The steps from the places of expand and expandNd.
LEMMA StepsOfExpand ==
  ASSUME NEW f
  PROVE  /\ StepsFrom(f, "done") = 1 /\ StepsFrom(f, "ndFree") = 2
         /\ StepsFrom(f, "free") = Later(f) + 3 /\ StepsFrom(f, "set") = Later(f) + 4
         /\ StepsFrom(f, "args") = Later(f) + 5 /\ StepsFrom(f, "infer") = Later(f) + 6
         /\ StepsFrom(f, "geometry") = Later(f) + 7 /\ StepsFrom(f, "rank") = Later(f) + 8
         /\ StepsFrom(f, "check") = Later(f) + 9
         /\ StepsFrom(f, "ndInfer") = 7 * Len(f.ops) + 3
         /\ StepsFrom(f, "ndTake") = 7 * Len(f.ops) + 3 + (Len(f.ops) + 1 - f.i)
         /\ StepsFrom(f, "ndCheck") = 8 * Len(f.ops) + 3 + (Len(f.ops) + 1 - f.i)
BY DEF StepsFrom, Later

LEMMA LaterNat ==
  ASSUME NEW f, NEW p, Locals(f, p), f.op \notin {"none", "_resizeDim"}
  PROVE  Later(f) \in Nat /\ Len(f.ops) \in Nat /\ f.i \in 1 .. Len(f.ops)
<1>1. f.ops \in Seq(Tensor) /\ f.i \in 1 .. Len(f.ops)
  BY DEF Locals
<1> DEFINE n == Len(f.ops)
<1>2. n \in Nat /\ f.i \in 1 .. n
  BY <1>1
<1> HIDE DEF n
<1>3. 7 * (n - f.i) \in Nat
  BY <1>2
<1>4. QED
  BY <1>2, <1>3 DEF Later, n

\* After its return expand is nearer to the end than it was when it freed, or failed.
LEMMA AfterExpandCloser ==
  ASSUME NEW f, NEW p \in {"infer", "free"}, Locals(f, p),
         NEW g, g.op = f.op, g.ops = f.ops, g.i = NextOp(f)
  PROVE  StepsFrom(g, AfterExpand(f)) \in 0 .. StepsFrom(f, p) - 1
<1>1. /\ f.op \in {"newExpand", "expand2d", "_expand", "_expandNd"} /\ Record(f)
      /\ Later(f) \in Nat /\ Len(f.ops) \in Nat /\ f.i \in 1 .. Len(f.ops)
  BY LaterNat DEF Locals, Place
<1> DEFINE n == Len(f.ops)
<1>2. StepsFrom(f, p) \in {Later(f) + 3, Later(f) + 6}
  <2>1. StepsFrom(f, "free") = Later(f) + 3 /\ StepsFrom(f, "infer") = Later(f) + 6
    BY StepsOfExpand
  <2>2. QED
    BY <2>1
<1> HIDE DEF n
<1>3. CASE f.op # "_expandNd"
  <2>1. AfterExpand(f) = "done"
    BY <1>3 DEF AfterExpand
  <2>2. StepsFrom(g, "done") = 1
    BY StepsOfExpand
  <2>3. QED
    BY <1>1, <1>2, <2>1, <2>2
<1>4. CASE f.op = "_expandNd" /\ f.i < n
  <2>1. AfterExpand(f) = "check" /\ g.i = f.i + 1
    BY <1>4 DEF AfterExpand, NextOp, n
  <2>2. StepsFrom(g, "check") = Later(g) + 9
    BY StepsOfExpand
  <2>3. Later(g) = 7 * (n - (f.i + 1)) /\ Later(f) = 7 * (n - f.i)
    BY <1>4, <2>1 DEF Later, n
  <2>4. n \in Nat /\ f.i \in 1 .. n
    BY <1>1 DEF n
  <2>5. Later(g) + 9 = Later(f) + 2
    BY <2>3, <2>4
  <2>6. QED
    BY <1>1, <1>2, <2>1, <2>2, <2>5
<1>5. CASE f.op = "_expandNd" /\ ~(f.i < n)
  <2>1. AfterExpand(f) = "ndFree"
    BY <1>5 DEF AfterExpand, n
  <2>2. StepsFrom(g, "ndFree") = 2
    BY StepsOfExpand
  <2>3. QED
    BY <1>1, <1>2, <2>1, <2>2
<1>6. QED
  BY <1>3, <1>4, <1>5

LEMMA expandCloser ==
  ASSUME Control, NEW th \in Thread, Expansion(th) \/ expandSet(th)
  PROVE  Closer(th)
<1> DEFINE f == frame[th]
<1>1. /\ Locals(f, pc[th]) /\ PerThread(frame)
      /\ pc[th] \in {"check", "rank", "geometry", "infer", "args", "set", "free"}
      /\ f.op \in {"newExpand", "expand2d", "_expand", "_expandNd"} /\ Record(f)
  BY ControlAt DEF Expansion, expandCheck, expandCheckSizes, expandGeometry, expandInfer,
                   expandArgs, expandSet, expandFree, Locals, Place
<1>2. Later(f) \in Nat
  BY <1>1, LaterNat
<1> HIDE DEF f
<1>3. ASSUME NEW g, g.op = f.op, g.ops = f.ops, g.i = f.i
      PROVE  Later(g) = Later(f)
  BY <1>3 DEF Later
\* From one of these places to the next.
<1>4. ASSUME NEW p, NEW q, NEW g, pc[th] = p, g.op = f.op, g.ops = f.ops, g.i = f.i,
             <<p, q>> \in {<<"check", "rank">>, <<"rank", "geometry">>,
                          <<"geometry", "infer">>, <<"infer", "args">>, <<"args", "set">>,
                          <<"set", "free">>}
      PROVE  StepsFrom(g, q) \in 0 .. StepsFrom(frame[th], pc[th]) - 1
  <2>1. Later(g) = Later(f)
    BY <1>4, <1>3
  <2>2. StepsFrom(f, p) = StepsFrom(g, q) + 1 /\ StepsFrom(g, q) \in Nat
    <3>1. /\ StepsFrom(g, "free") = Later(f) + 3 /\ StepsFrom(g, "set") = Later(f) + 4
          /\ StepsFrom(g, "args") = Later(f) + 5 /\ StepsFrom(g, "infer") = Later(f) + 6
          /\ StepsFrom(g, "geometry") = Later(f) + 7 /\ StepsFrom(g, "rank") = Later(f) + 8
      BY <2>1, StepsOfExpand
    <3>2. /\ StepsFrom(f, "set") = Later(f) + 4 /\ StepsFrom(f, "args") = Later(f) + 5
          /\ StepsFrom(f, "infer") = Later(f) + 6 /\ StepsFrom(f, "geometry") = Later(f) + 7
          /\ StepsFrom(f, "rank") = Later(f) + 8 /\ StepsFrom(f, "check") = Later(f) + 9
      BY StepsOfExpand
    <3>3. QED
      BY <1>4, <1>2, <3>1, <3>2
  <2>3. QED
    BY <1>4, <2>2 DEF f
<1>5. ASSUME NEW p, NEW q, pc[th] = p,
             <<p, q>> \in {<<"check", "rank">>, <<"rank", "geometry">>},
             \/ frame' = frame /\ Goto(th, q)
             \/ Error(th, [f EXCEPT !.failed = "arg"], q)
      PROVE  Closer(th)
  <2> DEFINE g == [f EXCEPT !.failed = "arg"]
  <2>1. g.op = f.op /\ g.ops = f.ops /\ g.i = f.i
    BY <1>1 DEF Record
  <2> HIDE DEF g
  <2>2. /\ StepsFrom(g, q) \in 0 .. StepsFrom(frame[th], pc[th]) - 1
        /\ StepsFrom(frame[th], q) \in 0 .. StepsFrom(frame[th], pc[th]) - 1
    BY <1>4, <1>5, <2>1 DEF f
  <2>3. CASE frame' = frame /\ Goto(th, q)
    BY <2>2, <2>3, CloserPlace DEF Goto
  <2>4. CASE Error(th, g, q)
    BY <2>2, <2>4, CloserError
  <2>5. QED
    BY <1>5, <2>3, <2>4 DEF g
<1>6. CASE expandCheck(th)
  BY <1>5, <1>6 DEF expandCheck, At, f
<1>7. CASE expandCheckSizes(th)
  BY <1>5, <1>7 DEF expandCheckSizes, At, f
<1>8. CASE expandGeometry(th)
  <2> DEFINE limit == Len(tensor[Source(th)].size)
             g == [f EXCEPT !.limit = limit]
  <2>1. /\ pc[th] = "geometry" /\ frame' = [frame EXCEPT ![th] = g]
        /\ pc' = [pc EXCEPT ![th] = "infer"]
    BY <1>8 DEF expandGeometry, At, Goto, f
  <2> HIDE DEF limit
  <2>2. g.op = f.op /\ g.ops = f.ops /\ g.i = f.i
    BY <1>1 DEF Record
  <2> HIDE DEF g
  <2>3. QED
    BY <1>4, <2>1, <2>2, CloserMove
<1>9. CASE expandArgs(th)
  <2> DEFINE storage == tensor[Source(th)].storage
             offset == tensor[Source(th)].offset
             g == [f EXCEPT !.storage = storage, !.offset = offset]
  <2>1. pc[th] = "args" /\ frame'[th] = g /\ pc'[th] = "set"
    BY <1>1, <1>9 DEF expandArgs, At, Goto, f, Control, PerThread
  <2> HIDE DEF storage, offset
  <2>2. g.op = f.op /\ g.ops = f.ops /\ g.i = f.i
    BY <1>1 DEF Record
  <2> HIDE DEF g
  <2>3. QED
    BY <1>4, <2>1, <2>2 DEF Closer
<1>10. CASE expandInfer(th)
  <2>1. PICK x \in GeometryAt(th) :
          \/ /\ frame' = [frame EXCEPT ![th].stride = ExpandedStride(x, f.want)]
             /\ pc' = [pc EXCEPT ![th] = "args"]
          \/ Error(th, [f EXCEPT !.failed = "infer", !.i = NextOp(f)], AfterExpand(f))
    BY <1>10 DEF expandInfer, Goto, f
  <2> DEFINE g == [f EXCEPT !.stride = ExpandedStride(x, f.want)]
             h == [f EXCEPT !.failed = "infer", !.i = NextOp(f)]
  <2>2. /\ pc[th] = "infer"
        /\ \/ frame' = [frame EXCEPT ![th] = g] /\ pc' = [pc EXCEPT ![th] = "args"]
           \/ Error(th, h, AfterExpand(f))
    BY <1>10, <2>1 DEF expandInfer, At, f
  <2>3. g.op = f.op /\ g.ops = f.ops /\ g.i = f.i
    BY <1>1 DEF Record
  <2>4. Locals(f, "infer")
    BY <1>1, <2>2
  <2>5. h.op = f.op /\ h.ops = f.ops /\ h.i = NextOp(f)
    BY <1>1 DEF Record
  <2> HIDE DEF g, h
  <2>6. StepsFrom(h, AfterExpand(f)) \in 0 .. StepsFrom(f, "infer") - 1
    BY <2>4, <2>5, AfterExpandCloser
  <2>7. /\ StepsFrom(g, "args") \in 0 .. StepsFrom(frame[th], pc[th]) - 1
        /\ StepsFrom(h, AfterExpand(f)) \in 0 .. StepsFrom(frame[th], pc[th]) - 1
    BY <1>4, <2>2, <2>3, <2>6 DEF f
  <2>8. CASE frame' = [frame EXCEPT ![th] = g] /\ pc' = [pc EXCEPT ![th] = "args"]
    BY <2>7, <2>8, CloserMove
  <2>9. CASE Error(th, h, AfterExpand(f))
    BY <2>7, <2>9, CloserError
  <2>10. QED
    BY <2>2, <2>8, <2>9
<1>11. CASE expandSet(th)
  <2>1. pc[th] = "set" /\ pc' = [pc EXCEPT ![th] = "free"] /\ frame' = frame
    BY <1>11 DEF expandSet, At, Goto
  <2>2. StepsFrom(frame[th], "free") \in 0 .. StepsFrom(frame[th], pc[th]) - 1
    BY <1>4, <2>1 DEF f
  <2>3. QED
    BY <2>1, <2>2, CloserPlace
<1>12. CASE expandFree(th)
  <2> DEFINE g == [f EXCEPT !.i = NextOp(f)]
  <2>1. pc[th] = "free" /\ frame' = [frame EXCEPT ![th] = g] /\ pc' = [pc EXCEPT ![th] = AfterExpand(f)]
    BY <1>12 DEF expandFree, At, Goto, f
  <2>2. Locals(f, "free")
    BY <1>1, <2>1
  <2>3. g.op = f.op /\ g.ops = f.ops /\ g.i = NextOp(f)
    BY <1>1 DEF Record
  <2> HIDE DEF g
  <2>4. StepsFrom(g, AfterExpand(f)) \in 0 .. StepsFrom(f, "free") - 1
    BY <2>2, <2>3, AfterExpandCloser
  <2>5. StepsFrom(g, AfterExpand(f)) \in 0 .. StepsFrom(frame[th], pc[th]) - 1
    BY <2>1, <2>4 DEF f
  <2>6. QED
    BY <2>1, <2>5, CloserMove
<1>13. QED
  BY <1>6, <1>7, <1>8, <1>9, <1>10, <1>11, <1>12 DEF Expansion

LEMMA expandNdInferCloser ==
  ASSUME Control, NEW th \in Thread, expandNdInfer(th)
  PROVE  Closer(th)
<1> DEFINE f == frame[th]
           n == Len(f.ops)
<1>1. pc[th] = "ndInfer" /\ Locals(f, "ndInfer")
  BY ControlAt DEF expandNdInfer
<1>2. f.op = "_expandNd" /\ Record(f)
  BY <1>1 DEF Locals, Place
<1>3. n \in Nat /\ n >= 1
  BY <1>1, <1>2, LaterNat
<1>4. StepsFrom(f, pc[th]) = 7 * n + 3
  BY <1>1, StepsOfExpand
<1>5. PICK lists \in SizesAt(th) :
        \/ /\ frame' = [frame EXCEPT ![th].want = CommonSize(lists), ![th].i = 1]
           /\ pc' = [pc EXCEPT ![th] = "check"]
        \/ Error(th, [f EXCEPT !.failed = "infer"], "done")
  BY Zenon DEF expandNdInfer, Goto
<1> DEFINE want == CommonSize(lists)
<1>6. ASSUME pc' = [pc EXCEPT ![th] = "check"],
             frame' = [frame EXCEPT ![th].want = want, ![th].i = 1]
      PROVE  Closer(th)
  <2> DEFINE g == frame'[th]
  <2> HIDE DEF want
  <2>1. g.op = "_expandNd" /\ g.ops = f.ops /\ g.i = 1 /\ pc'[th] = "check"
    BY <1>2, <1>6 DEF Record, Control, PerThread
  <2> HIDE DEF g
  <2>2. StepsFrom(g, "check") = 7 * (n - 1) + 9
    BY <2>1, StepsOfExpand DEF Later
  <2> HIDE DEF n
  <2>3. StepsFrom(g, "check") \in 0 .. StepsFrom(f, pc[th]) - 1
    BY <1>3, <1>4, <2>2
  <2>4. QED
    BY <2>1, <2>3 DEF Closer, g
<1>7. ASSUME Error(th, [f EXCEPT !.failed = "infer"], "done")
      PROVE  Closer(th)
  <2> DEFINE g == [f EXCEPT !.failed = "infer"]
  <2>1. StepsFrom(g, "done") = 1
    BY StepsOfExpand
  <2> HIDE DEF g, n
  <2>2. StepsFrom(g, "done") \in 0 .. StepsFrom(f, pc[th]) - 1
    BY <1>3, <1>4, <2>1
  <2>3. QED
    BY <1>7, <2>2, CloserError DEF g
<1>8. QED
  BY <1>5, <1>6, <1>7, Zenon

LEMMA expandNdCloser ==
  ASSUME Control, NEW th \in Thread,
         expandNdCheck(th) \/ expandNdTake(th) \/ expandNdInfer(th) \/ expandNdFree(th)
  PROVE  Closer(th)
<1> DEFINE f == frame[th]
<1>1. /\ Locals(f, pc[th]) /\ pc[th] \in {"ndCheck", "ndTake", "ndInfer", "ndFree"}
      /\ f.op = "_expandNd" /\ Record(f)
  <2>1. pc[th] \in {"ndCheck", "ndTake", "ndInfer", "ndFree"}
    BY Zenon DEF expandNdCheck, expandNdTake, expandNdInfer, expandNdFree, At
  <2>2. Locals(f, pc[th])
    BY DEF Control
  <2>3. QED
    BY <2>1, <2>2 DEF Locals, Place
<1> DEFINE n == Len(f.ops)
<1>2. n \in Nat /\ n >= 1
  BY <1>1, LaterNat
<1> HIDE DEF n, f
<1>3. n \in Nat /\ f.i \in 1 .. n
  BY <1>1, LaterNat DEF n
<1>4. CASE expandNdCheck(th)
  <2> DEFINE i == NextRound(f)
             g == [f EXCEPT !.i = i]
             h == [g EXCEPT !.failed = "arg"]
             q == IF f.i < n THEN "ndCheck" ELSE "ndTake"
  <2>1. /\ pc[th] = "ndCheck" /\ g.ops = f.ops /\ h.ops = f.ops /\ g.i = i /\ h.i = i
        /\ i = IF f.i < n THEN f.i + 1 ELSE 1
    <3>1. pc[th] = "ndCheck" /\ i = IF f.i < n THEN f.i + 1 ELSE 1
      BY <1>4 DEF expandNdCheck, At, NextRound, n
    <3> HIDE DEF i
    <3>2. QED
      BY <1>1, <3>1 DEF Record
  <2>2. \/ frame' = [frame EXCEPT ![th] = g] /\ Goto(th, q)
        \/ Error(th, h, q)
    <3>1. Len(g.ops) = n
      BY <2>1 DEF n
    <3>2. QED
      BY <1>4, <3>1 DEF expandNdCheck, f
  <2>3. ASSUME NEW k, k.ops = f.ops, k.i = i
        PROVE  StepsFrom(k, q) \in 0 .. StepsFrom(frame[th], pc[th]) - 1
    <3>1. /\ StepsFrom(k, "ndTake") = 7 * n + 3 + (n + 1 - i)
          /\ StepsFrom(k, "ndCheck") = 8 * n + 3 + (n + 1 - i)
          /\ StepsFrom(f, "ndCheck") = 8 * n + 3 + (n + 1 - f.i)
      BY <2>3, StepsOfExpand DEF n
    <3> HIDE DEF i
    <3>2. QED
      BY <1>3, <2>1, <3>1 DEF f
  <2> HIDE DEF g, h, i, q
  <2>4. QED
    BY <2>1, <2>2, <2>3, CloserMove, CloserError DEF Goto
<1>5. CASE expandNdTake(th)
  <2> DEFINE i == NextRound(f)
             read == Append(f.read, Len(tensor[Source(th)].size))
             g == [f EXCEPT !.read = read, !.i = i]
             q == IF f.i < n THEN "ndTake" ELSE "ndInfer"
  <2>1. pc[th] = "ndTake" /\ frame'[th] = g /\ pc'[th] = q
    BY <1>1, <1>5 DEF expandNdTake, At, Goto, Control, PerThread, f, n
  <2>2. i = IF f.i < n THEN f.i + 1 ELSE 1
    BY DEF NextRound, n
  <2> HIDE DEF i, read
  <2>3. g.ops = f.ops /\ g.i = i
    BY <1>1 DEF Record
  <2> HIDE DEF g
  <2>4. /\ StepsFrom(g, "ndTake") = 7 * n + 3 + (n + 1 - i)
        /\ StepsFrom(g, "ndInfer") = 7 * n + 3
        /\ StepsFrom(f, "ndTake") = 7 * n + 3 + (n + 1 - f.i)
    BY <2>3, StepsOfExpand DEF n
  <2>5. StepsFrom(g, q) \in 0 .. StepsFrom(f, "ndTake") - 1
    BY <1>3, <2>2, <2>4
  <2> HIDE DEF q
  <2>6. QED
    BY <2>1, <2>5 DEF Closer, f
<1>6. CASE expandNdInfer(th)
  BY <1>6, expandNdInferCloser
<1>7. CASE expandNdFree(th)
  <2>1. pc[th] = "ndFree" /\ pc' = [pc EXCEPT ![th] = "done"] /\ frame' = frame
    BY <1>7 DEF expandNdFree, At, Goto
  <2>2. StepsFrom(f, "done") = 1 /\ StepsFrom(f, "ndFree") = 2
    BY StepsOfExpand
  <2>3. StepsFrom(frame[th], "done") \in 0 .. StepsFrom(frame[th], pc[th]) - 1
    BY <2>1, <2>2 DEF f
  <2>4. QED
    BY <2>1, <2>3, CloserPlace
<1>8. QED
  BY <1>4, <1>5, <1>6, <1>7

\* The steps from the places of the calls that Haskell makes of several.
LEMMA StepsOfReads ==
  ASSUME NEW f
  PROVE  /\ StepsFrom(f, "idle") = 0 /\ StepsFrom(f, "done") = 1
         /\ StepsFrom(f, "peek") = 2 /\ StepsFrom(f, "resize") = 2
         /\ StepsFrom(f, "capacity") = 2 /\ StepsFrom(f, "data") = 3
         /\ StepsFrom(f, "length") = 4 /\ StepsFrom(f, "storage") = 5
         /\ StepsFrom(f, "new") = 10 /\ StepsFrom(f, "dims") = 16
         /\ StepsFrom(f, "size") = 10 + f.limit - Len(f.read)
BY DEF StepsFrom

\* The loop of getDims makes as many rounds as the rank that it has read:
LEMMA getDimListRankCloser ==
  ASSUME Control, Typed, NEW th \in Thread, getDimListRank(th)
  PROVE  Closer(th)
<1> DEFINE f == frame[th]
           x == tensor[Source(th)]
           rank == Len(x.size)
           g == [f EXCEPT !.limit = rank]
           p == IF rank = 0 THEN "new" ELSE "size"
<1>1. pc[th] = "dims" /\ Locals(f, "dims")
  BY ControlAt DEF getDimListRank
<1>2. Record(f) /\ f.op = "withEmpty" /\ f.read = <<>>
  BY <1>1 DEF Locals, Place, Typed, Settled, SizesAtPlace
<1>3. rank \in 0 .. 5
  BY <1>2, OperandFacts, TensorFacts, SizeListFacts
<1>4. frame' = [frame EXCEPT ![th] = g] /\ pc' = [pc EXCEPT ![th] = p]
  BY DEF getDimListRank, Goto, Rank
<1>5. g.limit = rank /\ Len(g.read) = 0
  BY <1>2 DEF Record
<1>6. StepsFrom(f, pc[th]) = 16
  BY <1>1, StepsOfReads
<1> HIDE DEF rank, g
<1>7. StepsFrom(g, p) \in {10, 10 + rank - 0}
  BY <1>5, StepsOfReads
<1> HIDE DEF p
<1>8. StepsFrom(g, p) \in 0 .. StepsFrom(f, pc[th]) - 1
  BY <1>3, <1>6, <1>7
<1>9. QED
  BY <1>4, <1>8, CloserMove

\* every call for a size, also one that fails, brings it nearer to that.
LEMMA getDimListSizeCloser ==
  ASSUME Control, Typed, NEW th \in Thread, getDimListSize(th)
  PROVE  Closer(th)
<1> DEFINE f == frame[th]
           k == Len(f.read)
           p == IF k + 1 = f.limit THEN "new" ELSE "size"
<1>0. At(th, "size")
  BY Zenon DEF getDimListSize
<1>1. pc[th] = "size" /\ Locals(f, "size")
  BY <1>0, ControlAt
<1>2. Record(f)
  BY <1>1 DEF Locals
<1>3. f.read \in Seq(Nat) /\ k \in Nat /\ f.limit \in Nat /\ k < f.limit
  <2>1. f.read \in Seq(Nat) /\ f.limit \in Nat /\ SizesAtPlace(f, "size")
    BY <1>1 DEF Typed, Settled, Fields
  <2>2. k < f.limit
    BY <2>1 DEF SizesAtPlace
  <2>3. QED
    BY <2>1, <2>2
<1>4. StepsFrom(f, pc[th]) = 10 + f.limit - k
  BY <1>1, StepsOfReads
<1>5. ASSUME NEW n, NEW g, g.read = Append(f.read, n), g.limit = f.limit
      PROVE  StepsFrom(g, p) \in 0 .. StepsFrom(f, pc[th]) - 1
  <2>1. Len(g.read) = k + 1
    BY <1>3, <1>5
  <2> DEFINE m == f.limit
  <2>2. StepsFrom(g, "new") = 10 /\ StepsFrom(g, "size") = 10 + m - (k + 1)
    BY <1>5, <2>1, StepsOfReads
  <2>3. k \in Nat /\ m \in Nat /\ k < m /\ StepsFrom(f, pc[th]) = 10 + m - k
    BY <1>3, <1>4
  <2>4. p = IF k + 1 = m THEN "new" ELSE "size"
    OBVIOUS
  <2> HIDE DEF k, m, p
  <2>5. QED
    BY <2>2, <2>3, <2>4
<1>6. ASSUME NEW n, frame' = [frame EXCEPT ![th] = [f EXCEPT !.read = Append(f.read, n)]],
             pc' = [pc EXCEPT ![th] = p]
      PROVE  Closer(th)
  <2> DEFINE g == [f EXCEPT !.read = Append(f.read, n)]
  <2>1. g.read = Append(f.read, n) /\ g.limit = f.limit
    BY <1>2 DEF Record
  <2> HIDE DEF g, p
  <2>2. StepsFrom(g, p) \in 0 .. StepsFrom(f, pc[th]) - 1
    BY <1>5, <2>1
  <2>3. QED
    BY <1>6, <2>2, CloserMove DEF g
<1>7. ASSUME NEW n, Error(th, [f EXCEPT !.read = Append(f.read, n), !.failed = "arg"], p)
      PROVE  Closer(th)
  <2> DEFINE g == [f EXCEPT !.read = Append(f.read, n), !.failed = "arg"]
  <2>1. g.read = Append(f.read, n) /\ g.limit = f.limit
    BY <1>2 DEF Record
  <2>2. Error(th, g, p)
    BY <1>7
  <2> HIDE DEF g, p
  <2>3. StepsFrom(g, p) \in 0 .. StepsFrom(f, pc[th]) - 1
    BY <1>5, <2>1
  <2>4. QED
    BY <2>2, <2>3, CloserError
<1>8. QED
  BY <1>6, <1>7, Zenon DEF getDimListSize, Goto

\* The calls that make a tensor.
LEMMA createsCloser ==
  ASSUME Control, NEW th \in Thread, newExpandNew(th) \/ expand2dNew(th) \/ withEmptyNew(th)
  PROVE  Closer(th)
<1> DEFINE f == frame[th]
<1>1. /\ pc[th] = "new" /\ Record(f) /\ f.op \in {"newExpand", "expand2d", "withEmpty"}
  BY ControlAt DEF newExpandNew, expand2dNew, withEmptyNew, Locals, Place
<1>2. StepsFrom(f, pc[th]) = 10
  BY <1>1, StepsOfReads
<1>3. ASSUME NEW r, NEW p, frame' = [frame EXCEPT ![th] = [f EXCEPT !.rets = <<r>>]],
             pc' = [pc EXCEPT ![th] = p],
             (p = "check" /\ f.op # "withEmpty") \/ p = "done"
      PROVE  Closer(th)
  <2> DEFINE g == [f EXCEPT !.rets = <<r>>]
  <2>1. g.op = f.op
    BY <1>1 DEF Record
  <2> HIDE DEF g
  <2>2. StepsFrom(g, "check") = Later(g) + 9 /\ StepsFrom(g, "done") = 1
    BY StepsOfExpand
  <2>3. p = "check" => Later(g) = 0
    BY <1>1, <1>3, <2>1 DEF Later
  <2>4. StepsFrom(g, p) \in 0 .. StepsFrom(f, pc[th]) - 1
    BY <1>2, <1>3, <2>2, <2>3
  <2>5. QED
    BY <1>3, <2>4, CloserMove DEF g
<1>4. CASE newExpandNew(th)
  <2>1. PICK r : frame' = [frame EXCEPT ![th] = [f EXCEPT !.rets = <<r>>]]
    BY <1>4 DEF newExpandNew
  <2>2. pc' = [pc EXCEPT ![th] = "check"] /\ f.op = "newExpand"
    BY <1>4 DEF newExpandNew, Goto
  <2>3. QED
    BY <1>3, <2>1, <2>2
<1>5. CASE expand2dNew(th)
  <2>1. PICK r : frame' = [frame EXCEPT ![th] = [f EXCEPT !.rets = <<r>>]]
    BY <1>5 DEF expand2dNew, newSized
  <2>2. pc' = [pc EXCEPT ![th] = "check"] /\ f.op = "expand2d"
    BY <1>5 DEF expand2dNew, Goto
  <2>3. QED
    BY <1>3, <2>1, <2>2
<1>6. CASE withEmptyNew(th)
  <2>1. PICK r : frame' = [frame EXCEPT ![th] = [f EXCEPT !.rets = <<r>>]]
    BY <1>6 DEF withEmptyNew, newSized
  <2>2. pc' = [pc EXCEPT ![th] = "done"]
    BY <1>6 DEF withEmptyNew, Goto
  <2>3. QED
    BY <1>3, <2>1, <2>2
<1>7. QED
  BY <1>4, <1>5, <1>6

\* The other steps.
LEMMA othersCloser ==
  ASSUME Control, NEW th \in Thread,
         getStorage(th) \/ tensordataLength(th) \/ tensordataPointer(th)
           \/ tensordataPeek(th) \/ resize(th) \/ resizeDim(th) \/ Return(th)
  PROVE  Closer(th)
<1>1. ASSUME NEW p, pc' = [pc EXCEPT ![th] = p],
             \A g : StepsFrom(g, p) \in 0 .. StepsFrom(frame[th], pc[th]) - 1
      PROVE  Closer(th)
  <2>1. pc'[th] = p
    BY <1>1 DEF Control, PerThread
  <2>2. QED
    BY <1>1, <2>1 DEF Closer
<1>2. CASE getStorage(th)
  <2>1. pc[th] = "storage"
    BY <1>2, Zenon DEF getStorage, At
  <2>2. \/ UNCHANGED <<pc, frame>>
        \/ pc' = [pc EXCEPT ![th] = IF frame[th].op = "resize" THEN "capacity" ELSE "length"]
    BY <1>2, Zenon DEF getStorage, Goto
  <2>3. \A g : /\ StepsFrom(g, "length") \in 0 .. StepsFrom(frame[th], pc[th]) - 1
               /\ StepsFrom(g, "capacity") \in 0 .. StepsFrom(frame[th], pc[th]) - 1
    BY <2>1, StepsOfReads
  <2>4. QED
    BY <1>1, <2>2, <2>3 DEF Closer
<1>3. CASE tensordataLength(th)
  <2>1. pc[th] = "length" /\ pc' = [pc EXCEPT ![th] = "data"]
    BY <1>3, Zenon DEF tensordataLength, At, Goto
  <2>2. \A g : StepsFrom(g, "data") \in 0 .. StepsFrom(frame[th], pc[th]) - 1
    BY <2>1, StepsOfReads
  <2>3. QED
    BY <1>1, <2>1, <2>2
<1>4. CASE tensordataPointer(th)
  <2>1. pc[th] = "data" /\ pc' = [pc EXCEPT ![th] = "peek"]
    BY <1>4, Zenon DEF tensordataPointer, At, Goto
  <2>2. \A g : StepsFrom(g, "peek") \in 0 .. StepsFrom(frame[th], pc[th]) - 1
    BY <2>1, StepsOfReads
  <2>3. QED
    BY <1>1, <2>1, <2>2
<1>5. CASE tensordataPeek(th) \/ resize(th) \/ resizeDim(th)
  <2>1. pc[th] \in {"peek", "capacity", "resize"} /\ pc' = [pc EXCEPT ![th] = "done"]
    BY <1>5 DEF tensordataPeek, resize, resizeDim, At, Goto
  <2>2. \A g : StepsFrom(g, "done") \in 0 .. StepsFrom(frame[th], pc[th]) - 1
    BY <2>1, StepsOfReads
  <2>3. QED
    BY <1>1, <2>1, <2>2
<1>6. CASE Return(th)
  <2>1. pc[th] = "done" /\ pc' = [pc EXCEPT ![th] = "idle"]
    BY <1>6 DEF Return, At, Goto
  <2>2. \A g : StepsFrom(g, "idle") \in 0 .. StepsFrom(frame[th], pc[th]) - 1
    BY <2>1, StepsOfReads
  <2>3. QED
    BY <1>1, <2>1, <2>2
<1>7. QED
  BY <1>2, <1>3, <1>4, <1>5, <1>6

LEMMA NextCloser ==
  ASSUME Control, Typed, NEW th \in Thread, pc[th] # "idle", Begin(th) \/ Continue(th)
  PROVE  Closer(th)
<1>1. ~ Begin(th)
  BY Zenon DEF Begin, At
<1>2. CASE Expansion(th) \/ expandSet(th)
  BY <1>2, expandCloser
<1>3. CASE expandNdCheck(th) \/ expandNdTake(th) \/ expandNdInfer(th) \/ expandNdFree(th)
  BY <1>3, expandNdCloser
<1>4. CASE getDimListRank(th)
  BY <1>4, getDimListRankCloser
<1>5. CASE getDimListSize(th)
  BY <1>5, getDimListSizeCloser
<1>6. CASE newExpandNew(th) \/ expand2dNew(th) \/ withEmptyNew(th)
  BY <1>6, createsCloser
<1>7. CASE getStorage(th) \/ tensordataLength(th) \/ tensordataPointer(th)
             \/ tensordataPeek(th) \/ resize(th) \/ resizeDim(th) \/ Return(th)
  BY <1>7, othersCloser
<1>8. QED
  BY <1>1, <1>2, <1>3, <1>4, <1>5, <1>6, <1>7, NextCases, Zenon DEF Expansion

\* A step of th is at most at one place, and with one frame, other than before.
Alone(th) ==
  \E p, g, h : /\ pc' = [pc EXCEPT ![th] = p] \/ pc' = pc
               /\ \/ frame' = [frame EXCEPT ![th] = g] \/ frame' = frame
                  \/ frame' = [[frame EXCEPT ![th] = g] EXCEPT ![th] = h]

LEMMA StepAlone ==
  ASSUME NEW th \in Thread, Begin(th) \/ Continue(th)
  PROVE  Alone(th)
<1>1. CASE Begin(th) \/ Return(th)
  BY <1>1, Zenon DEF Begin, Return, Goto, Alone
<1>2. CASE newExpandNew(th) \/ expand2dNew(th) \/ withEmptyNew(th)
  BY <1>2, Zenon DEF newExpandNew, expand2dNew, withEmptyNew, newSized, Goto, Alone
<1>3. CASE expandCheck(th) \/ expandCheckSizes(th) \/ expandSet(th) \/ expandFree(th)
  BY <1>3, Zenon DEF expandCheck, expandCheckSizes, expandSet, expandFree, Error, Goto, Alone
<1>4. CASE expandInfer(th)
  BY <1>4, Zenon DEF expandInfer, Error, Goto, Alone
<1>5. CASE expandNdCheck(th) \/ expandNdFree(th)
  BY <1>5, Zenon DEF expandNdCheck, expandNdFree, Error, Goto, Alone
<1>6. CASE expandNdTake(th)
  <2>1. \E p : pc' = [pc EXCEPT ![th] = p]
    BY <1>6, Zenon DEF expandNdTake, Goto
  <2>2. \E g, h : frame' = [[frame EXCEPT ![th] = g] EXCEPT ![th] = h]
    BY <1>6, Zenon DEF expandNdTake
  <2>3. QED
    BY <2>1, <2>2, Zenon DEF Alone
<1>7. CASE expandNdInfer(th)
  BY <1>7, Zenon DEF expandNdInfer, Error, Goto, Alone
<1>8. CASE getDimListRank(th)
  BY <1>8, Zenon DEF getDimListRank, Goto, Alone
<1>9. CASE getDimListSize(th)
  BY <1>9, Zenon DEF getDimListSize, Error, Goto, Alone
<1>10. CASE getStorage(th) \/ tensordataLength(th) \/ tensordataPointer(th)
             \/ tensordataPeek(th)
  BY <1>10, Zenon DEF getStorage, tensordataLength, tensordataPointer, tensordataPeek, Goto, Alone
<1>11. CASE resize(th) \/ resizeDim(th)
  BY <1>11, Zenon DEF resize, resizeDim, Goto, Alone
<1>12. CASE expandGeometry(th) \/ expandArgs(th)
  BY <1>12, Zenon DEF expandGeometry, expandArgs, Goto, Alone
<1>13. QED
  BY <1>1, <1>2, <1>3, <1>4, <1>5, <1>6, <1>7, <1>8, <1>9, <1>10, <1>11, <1>12, NextCases, Zenon

LEMMA OthersStay ==
  ASSUME Control, NEW u \in Thread, Begin(u) \/ Continue(u), NEW th \in Thread \ {u}
  PROVE  pc'[th] = pc[th] /\ frame'[th] = frame[th]
BY StepAlone DEF Alone, Control, PerThread

\* Every call is over after the steps that were to come when it began at most: no
\* resize by another thread, and no failed check, gives a loop more rounds.
THEOREM CallsEnd == Spec => Nearer
<1>1. ASSUME Control, Typed, [Next]_vars, NEW th \in Thread, pc[th] # "idle"
      PROVE  \/ StepsLeft(th)' \in 0 .. StepsLeft(th) - 1
             \/ pc'[th] = pc[th] /\ frame'[th] = frame[th]
  <2>1. CASE UNCHANGED vars
    BY <2>1 DEF vars
  <2>2. ASSUME NEW u \in Thread, Begin(u) \/ Continue(u), u # th
        PROVE  pc'[th] = pc[th] /\ frame'[th] = frame[th]
    BY <1>1, <2>2, OthersStay
  <2>3. ASSUME Begin(th) \/ Continue(th)
        PROVE  Closer(th)
    BY <1>1, <2>3, NextCloser
  <2>4. QED
    BY <1>1, <2>1, <2>2, <2>3 DEF Next, Closer, StepsLeft
<1>2. ASSUME Control, Typed, [Next]_vars
      PROVE  \A th \in Thread : pc[th] # "idle" =>
               \/ StepsLeft(th)' \in 0 .. StepsLeft(th) - 1
               \/ pc'[th] = pc[th] /\ frame'[th] = frame[th]
  BY <1>1, <1>2
<1>3. Init => Control /\ Data /\ Typed
  BY InitAll
<1>4. Control /\ Data /\ Typed /\ [Next]_vars => (Control /\ Data /\ Typed)'
  BY NextAll
<1>5. QED
  BY <1>2, <1>3, <1>4, PTL DEF Spec, Nearer
=============================================================================
