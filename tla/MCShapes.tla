------------------------------ MODULE MCShapes ------------------------------
(***************************************************************************)
(* A small instance of Shapes.                                             *)
(***************************************************************************)
EXTENDS Shapes

CONSTANTS main, other, t1, t2, t3, t4, s1, s2, s3, s4, s5

\* A vector, a row, the last row of a matrix (which starts inside the storage),
\* and an empty tensor.
Vector(n, s) == [Sized(<<n>>) EXCEPT !.storage = s]
Row(n, s)    == [Sized(<<1, n>>) EXCEPT !.storage = s]
Column(n, s) == [Sized(<<n, 1>>) EXCEPT !.storage = s]
LastRow(s)   == [Vector(2, s) EXCEPT !.offset = 2]

\* The program starts with t1 on s1 and t2 on s2 or on s1 as well; t3 is empty,
\* and t4 is for results.
StartWith(e, h, x, y) ==
  [elt |-> e, handler |-> h, held |-> {t1, t2, t3},
   tensor |-> [t \in Tensor |-> CASE t = t1 -> x [] t = t2 -> y [] OTHER -> NewTensor],
   cap |-> [s \in Storage |-> IF s \in {s1, s2} THEN 4 ELSE 0]]

\* The copy for Double from every start, the others from one.  A tensor with sizes
\* and no storage is what expand leaves that went on after a failed check.
MCStart ==
  {StartWith("Double", h, x, y) :
     h \in Handler, x \in {Vector(2, s1), Row(2, s1), LastRow(s1), NewTensor},
     y \in {Vector(3, s2), Column(2, s2)}}
    \cup
  {StartWith("Double", h, Row(2, s1), Vector(2, s1)) : h \in Handler}
    \cup
  {StartWith("Double", "return", Sized(<<1>>), Column(2, s2))}
    \cup
  {StartWith(e, "return", Row(2, s1), Column(2, s2)) : e \in ElementType}

Wanted == {<<2>>, <<2, 2>>, <<1, 3>>}

MainCalls ==
  [op : {"newExpand"}, rets : {<<>>}, ops : {<<t1>>}, want : Wanted]
    \cup
  [op : {"_expand"}, rets : {<<t1>>, <<t2>>, <<t3>>}, ops : {<<t1>>}, want : Wanted]
    \cup
  [op : {"expand2d"}, rets : {<<>>}, ops : {<<t1>>}, want : {<<2, 2>>, <<3, 2>>}]
    \cup
  [op : {"_expandNd"}, rets : {<<t3, t1>>, <<t2, t1>>, <<t3, t3>>}, ops : {<<t1, t2>>},
   want : {<<>>}]
    \cup
  [op : {"withEmpty", "tensordata"}, rets : {<<>>}, ops : {<<t1>>, <<t3>>}, want : {<<>>}]

OtherCalls ==
  [op : {"_resizeDim"}, rets : {<<t1>>}, ops : {<<>>}, want : {<<>>, <<2>>, <<2, 3>>, <<2, 1>>}]
    \cup
  [op : {"_resizeDim"}, rets : {<<t2>>}, ops : {<<>>}, want : {<<2, 3>>}]

OtherResizes == [op : {"resize"}, rets : {<<>>}, ops : {<<t1>>}, want : {<<1>>}]

MCCallsOf == [th \in Thread |-> IF th = main THEN MainCalls ELSE OtherCalls \cup OtherResizes]

\* One thread that calls expand2d of a vector.
VectorStart == {StartWith("Double", "exit", Vector(2, s1), Vector(3, s2))}

Expand2dCalls ==
  [th \in Thread |-> [op : {"expand2d"}, rets : {<<>>}, ops : {<<t1>>}, want : {<<2, 2>>}]]
=============================================================================
