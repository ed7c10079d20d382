---------------------------- MODULE ShapesProofs ----------------------------
(***************************************************************************)
(* Proofs about Shapes, for any number of threads, tensors and calls.      *)
(***************************************************************************)
EXTENDS Shapes, TLAPS

\* The locals f at the place p.  What strides and sizes are is left open.
Record(f) ==
  f \in [op : {f.op}, rets : {f.rets}, ops : {f.ops}, want : {f.want}, i : {f.i},
         stride : {f.stride}, read : {f.read}, limit : {f.limit}, storage : {f.storage},
         offset : {f.offset}, failed : {f.failed}]

Place(op, p) ==
  \/ op = "none" /\ p = "idle"
  \/ op \in {"newExpand", "expand2d"} /\ p = "new"
  \/ op \in {"newExpand", "expand2d", "_expand", "_expandNd"}
       /\ p \in {"check", "rank", "geometry", "infer", "args", "set", "free", "done"}
  \/ op = "_expandNd" /\ p \in {"ndCheck", "ndTake", "ndInfer", "ndFree"}
  \/ op = "withEmpty" /\ p \in {"dims", "size", "new", "done"}
  \/ op = "tensordata" /\ p \in {"storage", "length", "data", "peek", "done"}
  \/ op = "resize" /\ p \in {"storage", "capacity", "done"}
  \/ op = "_resizeDim" /\ p \in {"resize", "done"}

Locals(f, p) ==
  /\ Record(f) /\ Place(f.op, p)
  /\ f.rets \in Seq(Tensor) /\ f.ops \in Seq(Tensor)
  /\ f.op \notin {"none", "_resizeDim"} => f.i \in 1 .. Len(f.ops)
  /\ f.op \notin {"none", "_resizeDim", "_expandNd"} => Len(f.ops) = 1
  /\ f.op \in {"_expand", "_expandNd"} => Len(f.rets) = Len(f.ops)
  /\ f.op \in {"newExpand", "expand2d"} /\ p # "new" => Len(f.rets) = 1
  /\ f.op = "_resizeDim" => Len(f.rets) = 1 /\ f.i = 1

\* The temporaries x that C owns at p.
Owns(f, p, x) ==
  IF x = "sizes"
  THEN /\ f.op = "_expandNd"
       /\ p \in {"ndInfer", "check", "rank", "geometry", "infer", "args", "set", "free",
                  "ndFree"}
  ELSE p \in {"args", "set", "free"}

TempsOf(f, p, owned) ==
  /\ owned \in [Temp -> {0, 1}]
  /\ ~exited => \A x \in Temp : owned[x] = 1 <=> Owns(f, p, x)

\* The function v has a value for every thread.
PerThread(v) == v = [u \in Thread |-> v[u]]

\* The values w are those of v but for th's.
Only(th, v, w) == w = [u \in Thread |-> IF u = th THEN w[th] ELSE v[u]]

Control ==
  /\ exited \in BOOLEAN /\ PerThread(pc) /\ PerThread(frame) /\ PerThread(temp)
  /\ \A th \in Thread : Locals(frame[th], pc[th]) /\ TempsOf(frame[th], pc[th], temp[th])

LEMMA OnlyItself ==
  ASSUME NEW th \in Thread, NEW v, PerThread(v)
  PROVE  Only(th, v, v)
BY DEF PerThread, Only

\* A step of th alone.
LEMMA ControlStep ==
  ASSUME Control, NEW th \in Thread,
         Only(th, frame, frame'), Only(th, pc, pc'), Only(th, temp, temp'),
         exited' \in BOOLEAN, exited => exited',
         Locals(frame'[th], pc'[th]), TempsOf(frame[th], pc[th], temp[th])'
  PROVE  Control'
<1>1. PerThread(frame)' /\ PerThread(pc)' /\ PerThread(temp)'
  BY DEF PerThread, Only
<1>2. \A u \in Thread \ {th} : frame'[u] = frame[u] /\ pc'[u] = pc[u] /\ temp'[u] = temp[u]
  BY DEF Only
<1>3. \A u \in Thread : Locals(frame'[u], pc'[u])
  BY <1>2 DEF Control
<1>4. \A u \in Thread : TempsOf(frame[u], pc[u], temp[u])'
  <2> TAKE u \in Thread
  <2>1. CASE u # th
    BY <2>1, <1>2 DEF Control, TempsOf, Owns
  <2>2. QED
    BY <2>1
<1>5. QED
  BY <1>1, <1>3, <1>4 DEF Control

\* The process ends in a step of th, which changes no more than its temporaries.
LEMMA ControlExit ==
  ASSUME Control, NEW th \in Thread, UNCHANGED <<frame, pc>>, exited' = TRUE,
         Only(th, temp, temp'), temp'[th] \in [Temp -> {0, 1}]
  PROVE  Control'
<1>1. Only(th, frame, frame') /\ Only(th, pc, pc')
  BY OnlyItself DEF Control
<1>2. Locals(frame'[th], pc'[th])
  BY DEF Control
<1>3. TempsOf(frame[th], pc[th], temp[th])'
  BY DEF TempsOf
<1>4. QED
  BY <1>1, <1>2, <1>3, ControlStep

\* A step of th to p that changes neither its operation nor its temporaries.
LEMMA ControlMove ==
  ASSUME Control, NEW th \in Thread, NEW p, ~exited, UNCHANGED <<temp, exited>>,
         Only(th, frame, frame'), pc' = [pc EXCEPT ![th] = p],
         Locals(frame'[th], p), frame'[th].op = frame[th].op,
         \A x \in Temp : Owns(frame[th], p, x) <=> Owns(frame[th], pc[th], x)
  PROVE  Control'
<1>1. Only(th, pc, pc') /\ Only(th, temp, temp') /\ pc'[th] = p
  BY DEF Control, PerThread, Only
<1>2. TempsOf(frame[th], pc[th], temp[th])
  BY DEF Control
<1>3. TempsOf(frame[th], pc[th], temp[th])'
  BY <1>1, <1>2 DEF TempsOf, Owns
<1>4. QED
  BY <1>1, <1>3, ControlStep DEF Control

\* What every step of th starts from.
LEMMA ControlAt ==
  ASSUME Control, NEW th \in Thread, NEW p, At(th, p)
  PROVE  /\ ~exited /\ exited \in BOOLEAN /\ pc[th] = p
         /\ Locals(frame[th], p) /\ TempsOf(frame[th], p, temp[th])
         /\ PerThread(frame) /\ PerThread(pc) /\ PerThread(temp)
BY DEF Control, At

\* A failed check: the error handler ends the process or th goes on at p.
LEMMA ControlError ==
  ASSUME Control, NEW th \in Thread, NEW p, NEW f, ~exited, temp' = temp, Error(th, f, p),
         Locals(f, p), f.op = frame[th].op,
         \A x \in Temp : Owns(frame[th], p, x) <=> Owns(frame[th], pc[th], x)
  PROVE  Control'
<1>1. temp[th] \in [Temp -> {0, 1}] /\ PerThread(frame) /\ PerThread(temp)
  BY DEF Control, TempsOf
<1>2. CASE exited' = TRUE /\ UNCHANGED <<pc, frame>>
  BY <1>1, <1>2, ControlExit, OnlyItself
<1>3. CASE exited' = exited /\ pc' = [pc EXCEPT ![th] = p] /\ frame' = [frame EXCEPT ![th] = f]
  <2>1. Only(th, frame, frame') /\ frame'[th] = f
    BY <1>1, <1>3 DEF PerThread, Only
  <2>2. QED
    BY <1>3, <2>1, ControlMove
<1>4. QED
  BY <1>2, <1>3 DEF Error, Goto

\* A check of the arguments of expand, at q, after which it goes on at p.
LEMMA CheckControl ==
  ASSUME Control, NEW th \in Thread, NEW q \in {"check", "rank"}, At(th, q), temp' = temp,
         NEW p \in {"rank", "geometry"},
         \/ Goto(th, p) /\ UNCHANGED <<frame, exited>>
         \/ Error(th, [frame[th] EXCEPT !.failed = "arg"], p)
  PROVE  Control'
<1> DEFINE f == frame[th]
           g == [f EXCEPT !.failed = "arg"]
<1>1. /\ ~exited /\ pc[th] = q /\ Locals(f, q) /\ PerThread(frame) /\ PerThread(pc)
  BY ControlAt
<1>2. \A x \in Temp : Owns(f, p, x) <=> Owns(f, q, x)
  BY DEF Owns
<1>3. CASE pc' = [pc EXCEPT ![th] = p] /\ UNCHANGED <<frame, exited>>
  <2>1. Locals(f, p)
    BY <1>1 DEF Locals, Place
  <2>2. QED
    BY <1>1, <1>2, <1>3, <2>1, ControlMove, OnlyItself
<1>4. CASE Error(th, g, p)
  <2>1. Locals(g, p) /\ g.op = f.op
    BY <1>1 DEF Locals, Record, Place
  <2>2. QED
    BY <1>1, <1>2, <1>4, <2>1, ControlError
<1>5. QED
  BY <1>3, <1>4 DEF Goto

LEMMA expandCheckControl ==
  ASSUME Control, NEW th \in Thread, expandCheck(th) \/ expandCheckSizes(th)
  PROVE  Control'
<1>1. CASE expandCheck(th)
  BY <1>1, CheckControl DEF expandCheck
<1>2. CASE expandCheckSizes(th)
  BY <1>2, CheckControl DEF expandCheckSizes
<1>3. QED
  BY <1>1, <1>2

\* The arguments of a C call are read, into the locals.
LEMMA expandReadsControl ==
  ASSUME Control, NEW th \in Thread, expandGeometry(th) \/ expandArgs(th)
  PROVE  Control'
<1> DEFINE f == frame[th]
           x == tensor[Source(th)]
<1>1. CASE expandGeometry(th)
  <2> DEFINE limit == Len(x.size)
             g == [f EXCEPT !.limit = limit]
  <2>1. /\ ~exited /\ pc[th] = "geometry" /\ Locals(f, "geometry") /\ UNCHANGED <<temp, exited>>
        /\ PerThread(frame) /\ pc' = [pc EXCEPT ![th] = "infer"]
        /\ frame' = [frame EXCEPT ![th] = g]
    BY <1>1, ControlAt DEF expandGeometry, Goto
  <2> HIDE DEF limit
  <2>2. Locals(g, "infer") /\ g.op = f.op
    BY <2>1 DEF Locals, Record, Place
  <2>3. Only(th, frame, frame') /\ frame'[th] = g
    BY <2>1 DEF PerThread, Only
  <2>4. \A y \in Temp : Owns(f, "infer", y) <=> Owns(f, "geometry", y)
    BY DEF Owns
  <2> HIDE DEF g
  <2>5. QED
    BY <2>1, <2>2, <2>3, <2>4, ControlMove
<1>2. CASE expandArgs(th)
  <2> DEFINE storage == x.storage
             offset == x.offset
             g == [f EXCEPT !.storage = storage, !.offset = offset]
  <2>1. /\ ~exited /\ pc[th] = "args" /\ Locals(f, "args") /\ UNCHANGED <<temp, exited>>
        /\ PerThread(frame) /\ pc' = [pc EXCEPT ![th] = "set"]
    BY <1>2, ControlAt DEF expandArgs, Goto
  <2>2. Only(th, frame, frame') /\ frame'[th] = g
    BY <1>2, <2>1 DEF expandArgs, PerThread, Only
  <2> HIDE DEF storage, offset
  <2>3. Locals(g, "set") /\ g.op = f.op
    BY <2>1 DEF Locals, Record, Place
  <2>4. \A y \in Temp : Owns(f, "set", y) <=> Owns(f, "args", y)
    BY DEF Owns
  <2> HIDE DEF g
  <2>5. QED
    BY <2>1, <2>2, <2>3, <2>4, ControlMove
<1>3. QED
  BY <1>1, <1>2

\* The place after expand, and the locals there.
LEMMA AfterExpandFacts ==
  ASSUME NEW f, NEW p \in {"infer", "free"}, Locals(f, p),
         NEW g, g = [f EXCEPT !.i = NextOp(f)] \/ g = [f EXCEPT !.i = NextOp(f), !.failed = "infer"]
  PROVE  /\ Locals(g, AfterExpand(f)) /\ g.op = f.op
         /\ \A x \in Temp : Owns(f, AfterExpand(f), x) <=> Owns(f, "infer", x)
<1>1. /\ f.op \in {"newExpand", "expand2d", "_expand", "_expandNd"} /\ Record(f)
      /\ f.i \in 1 .. Len(f.ops) /\ f.ops \in Seq(Tensor) /\ Len(f.ops) \in Nat
  BY DEF Locals, Place
<1>2. NextOp(f) \in 1 .. Len(f.ops)
  BY <1>1 DEF NextOp
<1>3. /\ Record(g) /\ g.op = f.op /\ g.rets = f.rets /\ g.ops = f.ops /\ g.i = NextOp(f)
  BY <1>1 DEF Record
<1>4. /\ AfterExpand(f) \in {"done", "check", "ndFree"}
      /\ AfterExpand(f) = "ndFree" => f.op = "_expandNd"
      /\ AfterExpand(f) = "done" => f.op # "_expandNd"
  BY DEF AfterExpand
<1>5. Locals(g, AfterExpand(f))
  BY <1>1, <1>2, <1>3, <1>4 DEF Locals, Place
<1>6. \A x \in Temp : Owns(f, AfterExpand(f), x) <=> Owns(f, "infer", x)
  BY <1>4 DEF Owns
<1>7. QED
  BY <1>3, <1>5, <1>6

\* A step of th to p that changes its temporaries to those it owns there.
LEMMA ControlTemps ==
  ASSUME Control, NEW th \in Thread, NEW p, ~exited, UNCHANGED exited,
         Only(th, frame, frame'), pc' = [pc EXCEPT ![th] = p], Only(th, temp, temp'),
         Locals(frame'[th], p), frame'[th].op = frame[th].op,
         temp'[th] \in [Temp -> {0, 1}],
         \A x \in Temp : temp'[th][x] = 1 <=> Owns(frame[th], p, x)
  PROVE  Control'
<1>1. Only(th, pc, pc') /\ pc'[th] = p
  BY DEF Control, PerThread, Only
<1>2. TempsOf(frame[th], pc[th], temp[th])'
  BY <1>1 DEF TempsOf, Owns
<1>3. QED
  BY <1>1, <1>2, ControlStep DEF Control

LEMMA newExpandNewControl ==
  ASSUME Control, NEW th \in Thread, newExpandNew(th)
  PROVE  Control'
<1> DEFINE f == frame[th]
<1>1. /\ ~exited /\ pc[th] = "new" /\ Locals(f, "new") /\ UNCHANGED <<temp, exited>>
      /\ f.op = "newExpand" /\ PerThread(frame) /\ PerThread(pc)
      /\ pc' = [pc EXCEPT ![th] = "check"]
  BY ControlAt DEF newExpandNew, Goto
<1>2. PICK r \in Tensor : frame' = [frame EXCEPT ![th] = [f EXCEPT !.rets = <<r>>]]
  BY DEF newExpandNew
<1> DEFINE g == [f EXCEPT !.rets = <<r>>]
<1>3. Only(th, frame, frame') /\ frame'[th] = g
  BY <1>1, <1>2 DEF PerThread, Only
<1>4. Locals(g, "check") /\ g.op = f.op
  BY <1>1 DEF Locals, Record, Place
<1>5. \A x \in Temp : Owns(f, "check", x) <=> Owns(f, "new", x)
  BY <1>1 DEF Owns
<1> HIDE DEF g
<1>6. QED
  BY <1>1, <1>3, <1>4, <1>5, ControlMove

LEMMA expandInferControl ==
  ASSUME Control, NEW th \in Thread, expandInfer(th)
  PROVE  Control'
<1> DEFINE f == frame[th]
<1>1. /\ ~exited /\ pc[th] = "infer" /\ Locals(f, "infer") /\ TempsOf(f, "infer", temp[th])
      /\ PerThread(frame) /\ PerThread(pc) /\ PerThread(temp)
  BY ControlAt DEF expandInfer
<1>0. PICK x \in GeometryAt(th) :
        IF Expandable(x.size, f.want)
        THEN /\ frame' = [frame EXCEPT ![th].stride = ExpandedStride(x, f.want)]
             /\ temp' = [temp EXCEPT ![th].expandedSizes = @ + 1, ![th].expandedStrides = @ + 1]
             /\ Goto(th, "args") /\ UNCHANGED exited
        ELSE /\ Error(th, [f EXCEPT !.failed = "infer", !.i = NextOp(f)], AfterExpand(f))
             /\ UNCHANGED temp
  BY DEF expandInfer
<1>2. CASE Expandable(x.size, f.want)
  <2> DEFINE stride == ExpandedStride(x, f.want)
             g == [f EXCEPT !.stride = stride]
  <2>1. /\ frame' = [frame EXCEPT ![th] = g] /\ UNCHANGED exited
        /\ pc' = [pc EXCEPT ![th] = "args"]
        /\ temp' = [temp EXCEPT ![th].expandedSizes = @ + 1, ![th].expandedStrides = @ + 1]
    BY <1>0, <1>2 DEF Goto
  <2> HIDE DEF stride
  <2>2. Locals(g, "args") /\ g.op = f.op
    BY <1>1 DEF Locals, Record, Place
  <2>3. Only(th, frame, frame') /\ frame'[th] = g /\ Only(th, temp, temp')
    BY <1>1, <2>1 DEF PerThread, Only
  <2>4. /\ temp[th] \in [Temp -> {0, 1}]
        /\ temp[th]["expandedSizes"] = 0 /\ temp[th]["expandedStrides"] = 0
        /\ temp[th]["sizes"] = 1 <=> f.op = "_expandNd"
    BY <1>1 DEF TempsOf, Owns, Temp
  <2>5. temp'[th] = [y \in Temp |-> IF y = "sizes" THEN temp[th][y] ELSE 1]
    <3>1. /\ temp'[th] = [y \in Temp |-> temp'[th][y]]
          /\ temp'[th]["sizes"] = temp[th]["sizes"]
          /\ temp'[th]["expandedSizes"] = temp[th]["expandedSizes"] + 1
          /\ temp'[th]["expandedStrides"] = temp[th]["expandedStrides"] + 1
      BY <1>1, <2>1, <2>4 DEF PerThread, Temp
    <3>2. QED
      BY <2>4, <3>1 DEF Temp
  <2>6. temp'[th] \in [Temp -> {0, 1}]
    BY <2>4, <2>5 DEF Temp
  <2>7. \A y \in Temp : temp'[th][y] = 1 <=> Owns(f, "args", y)
    BY <2>4, <2>5 DEF Temp, Owns
  <2> HIDE DEF g
  <2>8. QED
    <3>1. pc' = [pc EXCEPT ![th] = "args"] /\ UNCHANGED exited
      BY <2>1
    <3>2. /\ Only(th, frame, frame') /\ Only(th, temp, temp') /\ temp'[th] \in [Temp -> {0, 1}]
          /\ Locals(frame'[th], "args") /\ frame'[th].op = frame[th].op
      BY <2>2, <2>3, <2>6
    <3>4. QED
      BY <1>1, <3>1, <3>2, <2>7, ControlTemps
<1>3. CASE ~Expandable(x.size, f.want)
  <2> DEFINE g == [f EXCEPT !.failed = "infer", !.i = NextOp(f)]
  <2>1. temp' = temp /\ Error(th, g, AfterExpand(f))
    BY <1>0, <1>3
  <2>2. g = [f EXCEPT !.i = NextOp(f), !.failed = "infer"]
    BY <1>1 DEF Locals, Record
  <2> HIDE DEF g
  <2>3. /\ Locals(g, AfterExpand(f)) /\ g.op = f.op
        /\ \A y \in Temp : Owns(f, AfterExpand(f), y) <=> Owns(f, "infer", y)
    BY <1>1, <2>2, AfterExpandFacts
  <2>4. QED
    BY <1>1, <2>1, <2>3, ControlError
<1>4. QED
  BY <1>2, <1>3

LEMMA expandSetControl ==
  ASSUME Control, NEW th \in Thread, expandSet(th)
  PROVE  Control'
<1> DEFINE f == frame[th]
<1>1. /\ ~exited /\ pc[th] = "set" /\ Locals(f, "set") /\ UNCHANGED <<temp, exited, frame>>
      /\ PerThread(frame) /\ pc' = [pc EXCEPT ![th] = "free"]
  BY ControlAt DEF expandSet, Goto
<1>2. Locals(f, "free")
  BY <1>1 DEF Locals, Place
<1>3. \A x \in Temp : Owns(f, "free", x) <=> Owns(f, "set", x)
  BY <1>1 DEF Owns
<1>4. QED
  BY <1>1, <1>2, <1>3, ControlMove, OnlyItself

LEMMA expandFreeControl ==
  ASSUME Control, NEW th \in Thread, expandFree(th)
  PROVE  Control'
<1> DEFINE f == frame[th]
           g == [f EXCEPT !.i = NextOp(f)]
           p == AfterExpand(f)
<1>1. /\ ~exited /\ pc[th] = "free" /\ Locals(f, "free") /\ TempsOf(f, "free", temp[th])
      /\ PerThread(frame) /\ PerThread(pc) /\ PerThread(temp) /\ UNCHANGED exited
      /\ pc' = [pc EXCEPT ![th] = p] /\ frame' = [frame EXCEPT ![th] = g]
      /\ temp' = [temp EXCEPT ![th].expandedSizes = @ - 1, ![th].expandedStrides = @ - 1]
  BY ControlAt DEF expandFree, Goto
<1>2. /\ Locals(g, p) /\ g.op = f.op
      /\ \A x \in Temp : Owns(f, p, x) <=> Owns(f, "infer", x)
  BY <1>1, AfterExpandFacts
<1>3. Only(th, frame, frame') /\ frame'[th] = g /\ Only(th, temp, temp')
  BY <1>1 DEF PerThread, Only
<1>4. /\ temp[th] \in [Temp -> {0, 1}]
      /\ temp[th]["expandedSizes"] = 1 /\ temp[th]["expandedStrides"] = 1
      /\ temp[th]["sizes"] = 1 <=> f.op = "_expandNd"
  BY <1>1 DEF TempsOf, Owns, Temp
<1>5. temp'[th] = [x \in Temp |-> IF x = "sizes" THEN temp[th][x] ELSE 0]
  <2>1. /\ temp'[th] = [x \in Temp |-> temp'[th][x]]
        /\ temp'[th]["sizes"] = temp[th]["sizes"]
        /\ temp'[th]["expandedSizes"] = temp[th]["expandedSizes"] - 1
        /\ temp'[th]["expandedStrides"] = temp[th]["expandedStrides"] - 1
    BY <1>1, <1>4 DEF PerThread, Temp
  <2>2. QED
    BY <1>4, <2>1 DEF Temp
<1>6. temp'[th] \in [Temp -> {0, 1}]
  BY <1>4, <1>5 DEF Temp
<1>7. \A x \in Temp : temp'[th][x] = 1 <=> Owns(f, "infer", x)
  BY <1>4, <1>5 DEF Temp, Owns
<1> HIDE DEF g, p
<1>8. /\ Only(th, frame, frame') /\ Only(th, temp, temp') /\ temp'[th] \in [Temp -> {0, 1}]
      /\ Locals(frame'[th], p) /\ frame'[th].op = frame[th].op
      /\ \A x \in Temp : temp'[th][x] = 1 <=> Owns(f, p, x)
  BY <1>2, <1>3, <1>6, <1>7
<1>9. QED
  BY <1>1, <1>8, ControlTemps

\* expandNd.
\* The next round of a loop over the operands.
LEMMA NextRoundFacts ==
  ASSUME NEW f, NEW p \in {"ndCheck", "ndTake"}, Locals(f, p)
  PROVE  /\ NextRound(f) \in 1 .. Len(f.ops) /\ Record(f) /\ f.op = "_expandNd"
         /\ f.i \in 1 .. Len(f.ops) /\ Len(f.ops) \in Nat
         /\ NextRound(f) = IF f.i < Len(f.ops) THEN f.i + 1 ELSE 1
<1>1. /\ f.op = "_expandNd" /\ Record(f) /\ f.i \in 1 .. Len(f.ops) /\ f.ops \in Seq(Tensor)
      /\ Len(f.ops) \in Nat
  BY DEF Locals, Place
<1>2. QED
  BY <1>1 DEF NextRound

LEMMA expandNdCheckControl ==
  ASSUME Control, NEW th \in Thread, expandNdCheck(th)
  PROVE  Control'
<1> DEFINE f == frame[th]
           i == NextRound(f)
           g == [f EXCEPT !.i = i]
           h == [g EXCEPT !.failed = "arg"]
           p == IF f.i < Len(f.ops) THEN "ndCheck" ELSE "ndTake"
<1>1. /\ ~exited /\ pc[th] = "ndCheck" /\ Locals(f, "ndCheck") /\ temp' = temp
      /\ PerThread(frame) /\ PerThread(pc)
  BY ControlAt DEF expandNdCheck
<1>2. /\ i \in 1 .. Len(f.ops) /\ Record(f) /\ f.op = "_expandNd" /\ p \in {"ndCheck", "ndTake"}
  BY <1>1, NextRoundFacts
<1>3. \/ frame' = [frame EXCEPT ![th] = g] /\ pc' = [pc EXCEPT ![th] = p] /\ UNCHANGED exited
      \/ Error(th, h, p)
  <2>1. g.ops = f.ops
    BY <1>2 DEF Record
  <2>2. QED
    BY <2>1 DEF expandNdCheck, Goto
<1> HIDE DEF i, p
<1>4. \A x \in Temp : Owns(f, p, x) <=> Owns(f, "ndCheck", x)
  BY <1>2 DEF Owns
<1>5. /\ Record(g) /\ g.op = f.op /\ g.rets = f.rets /\ g.ops = f.ops /\ g.i = i
      /\ Record(h) /\ h.op = f.op /\ h.rets = f.rets /\ h.ops = f.ops /\ h.i = i
  BY <1>2 DEF Record
<1> HIDE DEF g, h
<1>6. Locals(g, p) /\ Locals(h, p)
  BY <1>1, <1>2, <1>5 DEF Locals, Place
<1>7. CASE frame' = [frame EXCEPT ![th] = g] /\ pc' = [pc EXCEPT ![th] = p] /\ UNCHANGED exited
  <2>1. Only(th, frame, frame') /\ frame'[th] = g
    BY <1>1, <1>7 DEF PerThread, Only
  <2>2. /\ Locals(frame'[th], p) /\ frame'[th].op = frame[th].op
        /\ \A x \in Temp : Owns(frame[th], p, x) <=> Owns(frame[th], pc[th], x)
    BY <1>1, <1>4, <1>5, <1>6, <2>1
  <2>3. UNCHANGED <<temp, exited>> /\ pc' = [pc EXCEPT ![th] = p]
    BY <1>1, <1>7
  <2>4. QED
    BY <1>1, <2>1, <2>2, <2>3, ControlMove
<1>8. CASE Error(th, h, p)
  BY <1>1, <1>4, <1>5, <1>6, <1>8, ControlError
<1>9. QED
  BY <1>3, <1>7, <1>8

LEMMA expandNdTakeControl ==
  ASSUME Control, NEW th \in Thread, expandNdTake(th)
  PROVE  Control'
<1> DEFINE f == frame[th]
           i == NextRound(f)
           read == Append(f.read, Len(tensor[Source(th)].size))
           g == [f EXCEPT !.read = read, !.i = i]
<1>1. /\ ~exited /\ pc[th] = "ndTake" /\ Locals(f, "ndTake") /\ TempsOf(f, "ndTake", temp[th])
      /\ PerThread(frame) /\ PerThread(pc) /\ PerThread(temp) /\ UNCHANGED exited
  BY ControlAt DEF expandNdTake
<1>2. i \in 1 .. Len(f.ops) /\ Record(f) /\ f.op = "_expandNd"
  BY <1>1, NextRoundFacts
<1>3. Only(th, frame, frame') /\ frame'[th] = g
  BY <1>1 DEF expandNdTake, PerThread, Only
<1>4. \/ pc' = [pc EXCEPT ![th] = "ndTake"] /\ temp' = temp
      \/ pc' = [pc EXCEPT ![th] = "ndInfer"] /\ temp' = [temp EXCEPT ![th].sizes = @ + 1]
  BY DEF expandNdTake, Goto
<1> HIDE DEF i, read
<1>5. /\ Record(g) /\ g.op = f.op /\ g.rets = f.rets /\ g.ops = f.ops /\ g.i = i
  BY <1>2 DEF Record
<1> HIDE DEF g
<1>6. Locals(g, "ndTake") /\ Locals(g, "ndInfer")
  BY <1>1, <1>2, <1>5 DEF Locals, Place
<1>7. CASE pc' = [pc EXCEPT ![th] = "ndTake"] /\ temp' = temp
  BY <1>1, <1>3, <1>5, <1>6, <1>7, ControlMove
<1>8. CASE pc' = [pc EXCEPT ![th] = "ndInfer"] /\ temp' = [temp EXCEPT ![th].sizes = @ + 1]
  <2>1. Only(th, temp, temp')
    BY <1>1, <1>8 DEF PerThread, Only
  <2>2. temp[th] \in [Temp -> {0, 1}] /\ \A x \in Temp : temp[th][x] = 0
    BY <1>1 DEF TempsOf, Owns
  <2>3. temp'[th] = [x \in Temp |-> IF x = "sizes" THEN 1 ELSE 0]
    BY <1>1, <1>8, <2>2 DEF PerThread, Temp
  <2>4. /\ temp'[th] \in [Temp -> {0, 1}]
        /\ \A x \in Temp : temp'[th][x] = 1 <=> Owns(f, "ndInfer", x)
    BY <1>2, <2>3 DEF Temp, Owns
  <2>5. QED
    BY <1>1, <1>3, <1>5, <1>6, <1>8, <2>1, <2>4, ControlTemps
<1>9. QED
  BY <1>4, <1>7, <1>8

\* The temporary of expandNd is freed.
LEMMA FreeSizes ==
  ASSUME Control, NEW th \in Thread, pc[th] \in {"ndInfer", "ndFree"}, ~exited,
         temp' = [temp EXCEPT ![th].sizes = @ - 1]
  PROVE  /\ Only(th, temp, temp') /\ temp'[th] \in [Temp -> {0, 1}]
         /\ \A x \in Temp : temp'[th][x] = 1 <=> Owns(frame[th], "done", x)
<1>1. PerThread(temp) /\ Locals(frame[th], pc[th]) /\ TempsOf(frame[th], pc[th], temp[th])
  BY DEF Control
<1>2. frame[th].op = "_expandNd"
  BY <1>1 DEF Locals, Place
<1>3. /\ temp[th] \in [Temp -> {0, 1}] /\ temp[th]["sizes"] = 1
      /\ \A x \in Temp \ {"sizes"} : temp[th][x] = 0
  BY <1>1, <1>2 DEF TempsOf, Owns, Temp
<1>4. temp'[th] = [x \in Temp |-> 0]
  <2>1. /\ temp'[th] = [x \in Temp |-> temp'[th][x]]
        /\ temp'[th]["sizes"] = temp[th]["sizes"] - 1
        /\ \A x \in Temp \ {"sizes"} : temp'[th][x] = temp[th][x]
    BY <1>1, <1>3 DEF PerThread, Temp
  <2>2. QED
    BY <1>3, <2>1
<1>5. Only(th, temp, temp')
  BY <1>1 DEF PerThread, Only
<1>6. QED
  BY <1>4, <1>5 DEF Owns

LEMMA expandNdInferControl ==
  ASSUME Control, NEW th \in Thread, expandNdInfer(th)
  PROVE  Control'
<1> DEFINE f == frame[th]
<1>1. /\ ~exited /\ exited \in BOOLEAN /\ pc[th] = "ndInfer" /\ Locals(f, "ndInfer")
      /\ PerThread(frame) /\ PerThread(pc) /\ PerThread(temp)
  BY ControlAt DEF expandNdInfer
<1>2. f.op = "_expandNd"
  BY <1>1 DEF Locals, Place
<1>3. ASSUME NEW want, temp' = temp, exited' = exited, pc' = [pc EXCEPT ![th] = "check"],
             frame' = [frame EXCEPT ![th] = [f EXCEPT !.want = want, !.i = 1]]
      PROVE  Control'
  <2> DEFINE g == [f EXCEPT !.want = want, !.i = 1]
  <2>0. f.ops \in Seq(Tensor) /\ 1 \in 1 .. Len(f.ops)
    BY <1>1, <1>2 DEF Locals
  <2>1. Locals(g, "check") /\ g.op = f.op
    <3>1. /\ Record(g) /\ g.op = f.op /\ g.rets = f.rets /\ g.ops = f.ops /\ g.i = 1
      BY <1>1 DEF Locals, Record
    <3>2. QED
      BY <1>1, <1>2, <2>0, <3>1 DEF Locals, Place
  <2>2. Only(th, frame, frame') /\ frame'[th] = g
    BY <1>1, <1>3 DEF PerThread, Only
  <2>3. \A x \in Temp : Owns(f, "check", x) <=> Owns(f, "ndInfer", x)
    BY DEF Owns
  <2> HIDE DEF g
  <2>4. QED
    BY <1>1, <1>3, <2>1, <2>2, <2>3, ControlMove
<1>4. ASSUME temp' = [temp EXCEPT ![th].sizes = @ - 1],
             Error(th, [f EXCEPT !.failed = "infer"], "done")
      PROVE  Control'
  <2> DEFINE g == [f EXCEPT !.failed = "infer"]
  <2>1. Locals(g, "done") /\ g.op = f.op
    BY <1>1, <1>2 DEF Locals, Record, Place
  <2>2. /\ Only(th, temp, temp') /\ temp'[th] \in [Temp -> {0, 1}]
        /\ \A x \in Temp : temp'[th][x] = 1 <=> Owns(f, "done", x)
    BY <1>1, <1>4, FreeSizes
  <2>3. CASE exited' = TRUE /\ UNCHANGED <<pc, frame>>
    BY <2>2, <2>3, ControlExit
  <2>4. CASE /\ exited' = exited /\ pc' = [pc EXCEPT ![th] = "done"]
             /\ frame' = [frame EXCEPT ![th] = g]
    <3>1. Only(th, frame, frame') /\ frame'[th] = g
      BY <1>1, <2>4 DEF PerThread, Only
    <3> HIDE DEF g
    <3>2. Locals(frame'[th], "done") /\ frame'[th].op = frame[th].op
      BY <2>1, <3>1
    <3>3. QED
      BY <1>1, <2>2, <2>4, <3>1, <3>2, ControlTemps
  <2>5. QED
    BY <1>4, <2>3, <2>4 DEF Error, Goto
<1>5. QED
  BY <1>3, <1>4 DEF expandNdInfer, Goto

LEMMA expandNdFreeControl ==
  ASSUME Control, NEW th \in Thread, expandNdFree(th)
  PROVE  Control'
<1> DEFINE f == frame[th]
<1>1. /\ ~exited /\ pc[th] = "ndFree" /\ Locals(f, "ndFree") /\ UNCHANGED <<exited, frame>>
      /\ PerThread(frame) /\ pc' = [pc EXCEPT ![th] = "done"]
      /\ temp' = [temp EXCEPT ![th].sizes = @ - 1]
  BY ControlAt DEF expandNdFree, Goto
<1>2. Locals(f, "done")
  BY <1>1 DEF Locals, Place
<1>3. /\ Only(th, temp, temp') /\ temp'[th] \in [Temp -> {0, 1}]
      /\ \A x \in Temp : temp'[th][x] = 1 <=> Owns(f, "done", x)
  BY <1>1, FreeSizes
<1>4. Only(th, frame, frame') /\ Locals(frame'[th], "done") /\ frame'[th].op = frame[th].op
  BY <1>1, <1>2, OnlyItself
<1>5. QED
  BY <1>1, <1>3, <1>4, ControlTemps

\* The calls of the Haskell side.
LEMMA newSizedControl ==
  ASSUME Control, NEW th \in Thread, NEW p \in {"check", "done"}, NEW size, At(th, "new"),
         newSized(th, size), pc' = [pc EXCEPT ![th] = p], UNCHANGED <<exited, temp>>,
         frame[th].op = IF p = "check" THEN "expand2d" ELSE "withEmpty"
  PROVE  Control'
<1> DEFINE f == frame[th]
<1>1. /\ ~exited /\ pc[th] = "new" /\ Locals(f, "new") /\ PerThread(frame) /\ PerThread(pc)
  BY ControlAt
<1>2. PICK r \in Tensor : frame' = [frame EXCEPT ![th] = [f EXCEPT !.rets = <<r>>]]
  BY DEF newSized
<1> DEFINE g == [f EXCEPT !.rets = <<r>>]
<1>3. Only(th, frame, frame') /\ frame'[th] = g
  BY <1>1, <1>2 DEF PerThread, Only
<1>4. Locals(g, p) /\ g.op = f.op
  BY <1>1 DEF Locals, Record, Place
<1>5. \A x \in Temp : Owns(f, p, x) <=> Owns(f, "new", x)
  BY <1>1 DEF Owns
<1> HIDE DEF g
<1>6. QED
  BY <1>1, <1>3, <1>4, <1>5, ControlMove

LEMMA expand2dNewControl ==
  ASSUME Control, NEW th \in Thread, expand2dNew(th)
  PROVE  Control'
BY newSizedControl DEF expand2dNew, Goto

LEMMA withEmptyNewControl ==
  ASSUME Control, NEW th \in Thread, withEmptyNew(th)
  PROVE  Control'
BY newSizedControl DEF withEmptyNew, Goto

LEMMA getDimListRankControl ==
  ASSUME Control, NEW th \in Thread, getDimListRank(th)
  PROVE  Control'
<1> DEFINE f == frame[th]
           rank == Rank(tensor[Source(th)])
           g == [f EXCEPT !.limit = rank]
           p == IF rank = 0 THEN "new" ELSE "size"
<1>1. /\ ~exited /\ pc[th] = "dims" /\ Locals(f, "dims") /\ UNCHANGED <<exited, temp>>
      /\ PerThread(frame) /\ PerThread(pc) /\ pc' = [pc EXCEPT ![th] = p]
      /\ frame' = [frame EXCEPT ![th] = g]
  BY ControlAt DEF getDimListRank, Goto
<1> HIDE DEF rank
<1>2. f.op = "withEmpty" /\ Locals(g, p) /\ g.op = f.op
  BY <1>1 DEF Locals, Record, Place
<1>3. Only(th, frame, frame') /\ frame'[th] = g
  BY <1>1 DEF PerThread, Only
<1>4. \A x \in Temp : Owns(f, p, x) <=> Owns(f, "dims", x)
  BY <1>2 DEF Owns
<1> HIDE DEF g, p
<1>5. QED
  BY <1>1, <1>2, <1>3, <1>4, ControlMove

LEMMA getDimListSizeControl ==
  ASSUME Control, NEW th \in Thread, getDimListSize(th)
  PROVE  Control'
<1> DEFINE f == frame[th]
           size == tensor[Source(th)].size
           d == Len(f.read) + 1
           p == IF d = f.limit THEN "new" ELSE "size"
<1>1. /\ ~exited /\ pc[th] = "size" /\ Locals(f, "size") /\ temp' = temp
      /\ PerThread(frame) /\ PerThread(pc)
  BY ControlAt DEF getDimListSize
<1>2. \A x \in Temp : Owns(f, p, x) <=> Owns(f, "size", x)
  BY <1>1 DEF Owns, Locals, Place
<1>3. ASSUME NEW read, NEW g, \/ g = [f EXCEPT !.read = read]
                              \/ g = [f EXCEPT !.read = read, !.failed = "arg"]
      PROVE  Locals(g, p) /\ g.op = f.op
  <2>1. /\ Record(g) /\ g.op = f.op /\ g.rets = f.rets /\ g.ops = f.ops /\ g.i = f.i
    BY <1>1, <1>3 DEF Locals, Record
  <2>2. p \in {"new", "size"}
    OBVIOUS
  <2> HIDE DEF p
  <2>3. QED
    BY <1>1, <2>1, <2>2 DEF Locals, Place
<1>4. CASE d <= Len(size)
  <2> DEFINE read == Append(f.read, size[d])
             g == [f EXCEPT !.read = read]
  <2>1. /\ frame' = [frame EXCEPT ![th] = g] /\ pc' = [pc EXCEPT ![th] = p]
        /\ UNCHANGED exited
    BY <1>4 DEF getDimListSize, Goto
  <2>2. Only(th, frame, frame') /\ frame'[th] = g
    BY <1>1, <2>1 DEF PerThread, Only
  <2> HIDE DEF p, read
  <2>3. Locals(g, p) /\ g.op = f.op
    BY <1>3
  <2> HIDE DEF g
  <2>4. QED
    BY <1>1, <1>2, <2>1, <2>2, <2>3, ControlMove
<1>5. CASE ~(d <= Len(size))
  <2>1. PICK n \in Junk : Error(th, [f EXCEPT !.read = Append(f.read, n), !.failed = "arg"], p)
    BY <1>5 DEF getDimListSize
  <2> DEFINE read == Append(f.read, n)
             g == [f EXCEPT !.read = read, !.failed = "arg"]
  <2> HIDE DEF p
  <2>2. Error(th, g, p)
    BY <2>1
  <2> HIDE DEF read
  <2>3. Locals(g, p) /\ g.op = f.op
    BY <1>3
  <2> HIDE DEF g
  <2>4. QED
    BY <1>1, <1>2, <2>2, <2>3, ControlError
<1>6. QED
  BY <1>4, <1>5

LEMMA getStorageControl ==
  ASSUME Control, NEW th \in Thread, getStorage(th)
  PROVE  Control'
<1> DEFINE f == frame[th]
           s == tensor[Source(th)].storage
           p == IF f.op = "resize" THEN "capacity" ELSE "length"
           g == [f EXCEPT !.storage = s]
<1>1. /\ ~exited /\ pc[th] = "storage" /\ Locals(f, "storage") /\ temp' = temp
      /\ PerThread(frame) /\ PerThread(pc) /\ PerThread(temp)
      /\ temp[th] \in [Temp -> {0, 1}]
  BY ControlAt DEF getStorage, TempsOf
<1>2. CASE exited' = TRUE /\ UNCHANGED <<pc, frame>>
  BY <1>1, <1>2, ControlExit, OnlyItself
<1>3. CASE /\ exited' = exited /\ pc' = [pc EXCEPT ![th] = p]
           /\ frame' = [frame EXCEPT ![th] = g]
  <2> HIDE DEF s
  <2>1. Only(th, frame, frame') /\ frame'[th] = g
    BY <1>1, <1>3 DEF PerThread, Only
  <2>2. Locals(g, p) /\ g.op = f.op
    BY <1>1 DEF Locals, Record, Place
  <2>3. \A x \in Temp : Owns(f, p, x) <=> Owns(f, "storage", x)
    BY DEF Owns
  <2> HIDE DEF g, p
  <2>4. QED
    BY <1>1, <1>3, <2>1, <2>2, <2>3, ControlMove
<1>4. QED
  BY <1>2, <1>3 DEF getStorage, Goto

LEMMA tensordataLengthControl ==
  ASSUME Control, NEW th \in Thread, tensordataLength(th)
  PROVE  Control'
<1> DEFINE f == frame[th]
           read == <<cap[f.storage]>>
           g == [f EXCEPT !.read = read]
<1>1. /\ ~exited /\ pc[th] = "length" /\ Locals(f, "length") /\ UNCHANGED <<exited, temp>>
      /\ PerThread(frame) /\ PerThread(pc) /\ pc' = [pc EXCEPT ![th] = "data"]
      /\ frame' = [frame EXCEPT ![th] = g]
  BY ControlAt DEF tensordataLength, Goto
<1>2. Only(th, frame, frame') /\ frame'[th] = g
  BY <1>1 DEF PerThread, Only
<1> HIDE DEF read
<1>3. Locals(g, "data") /\ g.op = f.op
  BY <1>1 DEF Locals, Record, Place
<1>4. \A x \in Temp : Owns(f, "data", x) <=> Owns(f, "length", x)
  BY DEF Owns
<1> HIDE DEF g
<1>5. QED
  BY <1>1, <1>2, <1>3, <1>4, ControlMove

LEMMA tensordataPointerControl ==
  ASSUME Control, NEW th \in Thread, tensordataPointer(th)
  PROVE  Control'
<1> DEFINE f == frame[th]
           x == tensor[Source(th)]
           storage == x.storage
           offset == x.offset
           g == [f EXCEPT !.storage = storage, !.offset = offset]
<1>1. /\ ~exited /\ pc[th] = "data" /\ Locals(f, "data") /\ UNCHANGED <<exited, temp>>
      /\ PerThread(frame) /\ PerThread(pc) /\ pc' = [pc EXCEPT ![th] = "peek"]
  BY ControlAt DEF tensordataPointer, Goto
<1>2. Only(th, frame, frame') /\ frame'[th] = g
  BY <1>1 DEF PerThread, Only, tensordataPointer
<1> HIDE DEF storage, offset
<1>3. Locals(g, "peek") /\ g.op = f.op
  BY <1>1 DEF Locals, Record, Place
<1>4. \A y \in Temp : Owns(f, "peek", y) <=> Owns(f, "data", y)
  BY DEF Owns
<1> HIDE DEF g
<1>5. QED
  BY <1>1, <1>2, <1>3, <1>4, ControlMove

LEMMA endsControl ==
  ASSUME Control, NEW th \in Thread, tensordataPeek(th) \/ resize(th)
  PROVE  Control'
<1> DEFINE f == frame[th]
<1>1. /\ ~exited /\ pc[th] \in {"peek", "capacity"} /\ Locals(f, pc[th])
      /\ UNCHANGED <<exited, temp, frame>>
      /\ PerThread(frame) /\ pc' = [pc EXCEPT ![th] = "done"]
  BY ControlAt DEF tensordataPeek, resize, Goto
<1>2. Locals(f, "done")
  BY <1>1 DEF Locals, Place
<1>3. \A x \in Temp : Owns(f, "done", x) <=> Owns(f, pc[th], x)
  BY <1>1 DEF Owns, Locals, Place
<1>4. QED
  BY <1>1, <1>2, <1>3, ControlMove, OnlyItself

LEMMA resizeDimControl ==
  ASSUME Control, NEW th \in Thread, resizeDim(th)
  PROVE  Control'
<1> DEFINE f == frame[th]
<1>1. /\ ~exited /\ pc[th] = "resize" /\ Locals(f, "resize") /\ UNCHANGED <<exited, temp, frame>>
      /\ PerThread(frame) /\ pc' = [pc EXCEPT ![th] = "done"]
  BY ControlAt DEF resizeDim, Goto
<1>2. Locals(f, "done")
  BY <1>1 DEF Locals, Place
<1>3. \A x \in Temp : Owns(f, "done", x) <=> Owns(f, "resize", x)
  BY <1>1 DEF Owns, Locals, Place
<1>4. QED
  BY <1>1, <1>2, <1>3, ControlMove, OnlyItself

LEMMA OneFacts ==
  ASSUME NEW list \in One
  PROVE  list \in Seq(Tensor) /\ Len(list) = 1
<1>1. PICK t \in Tensor : list = <<t>>
  BY DEF One
<1>2. QED
  BY <1>1

\* Idle with the operation, the tensors and the sizes of a call.
LEMMA CallFacts ==
  ASSUME NEW th \in Thread, NEW c \in CallsOf[th],
         NEW g, g = [Idle EXCEPT !.op = c.op, !.rets = c.rets, !.ops = c.ops, !.want = c.want]
  PROVE  /\ Locals(g, Entry(c.op))
         /\ Entry(c.op) \in {"new", "ndCheck", "dims", "storage", "resize"}
              \/ (c.op = "_expand" /\ Entry(c.op) = "check")
         /\ g.op = c.op /\ g.rets = c.rets /\ g.ops = c.ops /\ g.want = c.want
         /\ g.failed = "no" /\ g.read = <<>>
         /\ c.op \in {"newExpand", "expand2d", "withEmpty"} => c.rets = <<>>
<1>1. c \in Call
  BY ConstantsOK
<1>2. /\ Record(g) /\ g.op = c.op /\ g.rets = c.rets /\ g.ops = c.ops /\ g.want = c.want
      /\ g.i = 1 /\ g.failed = "no" /\ g.read = <<>>
  BY DEF Idle, Record
<1>3. ASSUME c \in [op : {"newExpand"}, rets : {<<>>}, ops : One, want : SizeList]
                     \cup [op : {"expand2d"}, rets : {<<>>}, ops : One,
                           want : {w \in SizeList : Len(w) = 2}]
                     \cup [op : {"withEmpty"}, rets : {<<>>}, ops : One, want : {<<>>}]
                     \cup [op : {"tensordata"}, rets : {<<>>}, ops : One, want : {<<>>}]
                     \cup [op : {"resize"}, rets : {<<>>}, ops : One,
                           want : {w \in SizeList : Len(w) = 1}]
      PROVE  /\ c.op \in {"newExpand", "expand2d", "withEmpty", "tensordata", "resize"}
             /\ c.rets = <<>> /\ c.ops \in Seq(Tensor) /\ Len(c.ops) = 1
  <2>1. c.op \in {"newExpand", "expand2d", "withEmpty", "tensordata", "resize"} /\ c.rets = <<>>
        /\ c.ops \in One
    BY <1>3
  <2>2. QED
    BY <2>1, OneFacts
<1>4. ASSUME c \in [op : {"_expand"}, rets : One, ops : One, want : SizeList]
      PROVE  /\ c.op = "_expand" /\ c.rets \in Seq(Tensor) /\ Len(c.rets) = 1
             /\ c.ops \in Seq(Tensor) /\ Len(c.ops) = 1
  <2>1. c.op = "_expand" /\ c.rets \in One /\ c.ops \in One
    BY <1>4
  <2>2. QED
    BY <2>1, OneFacts
<1>5. ASSUME c \in [op : {"_expandNd"}, rets : Seq(Tensor), ops : Seq(Tensor), want : {<<>>}],
             Len(c.rets) = Len(c.ops), c.ops # <<>>
      PROVE  /\ c.op = "_expandNd" /\ c.rets \in Seq(Tensor) /\ c.ops \in Seq(Tensor)
             /\ Len(c.rets) = Len(c.ops) /\ 1 \in 1 .. Len(c.ops)
  BY <1>5
<1>6. ASSUME c \in [op : {"_resizeDim"}, rets : One, ops : {<<>>}, want : SizeList]
      PROVE  /\ c.op = "_resizeDim" /\ c.rets \in Seq(Tensor) /\ Len(c.rets) = 1
             /\ c.ops \in Seq(Tensor)
  <2>1. c.op = "_resizeDim" /\ c.rets \in One /\ c.ops = <<>>
    BY <1>6
  <2>2. QED
    BY <2>1, OneFacts
<1>7. \/ /\ c.op \in {"newExpand", "expand2d", "withEmpty", "tensordata", "resize"}
         /\ c.rets = <<>> /\ c.ops \in Seq(Tensor) /\ Len(c.ops) = 1
      \/ /\ c.op = "_expand" /\ c.rets \in Seq(Tensor) /\ Len(c.rets) = 1
         /\ c.ops \in Seq(Tensor) /\ Len(c.ops) = 1
      \/ /\ c.op = "_expandNd" /\ c.rets \in Seq(Tensor) /\ c.ops \in Seq(Tensor)
         /\ Len(c.rets) = Len(c.ops) /\ 1 \in 1 .. Len(c.ops)
      \/ /\ c.op = "_resizeDim" /\ c.rets \in Seq(Tensor) /\ Len(c.rets) = 1
         /\ c.ops \in Seq(Tensor)
  BY <1>1, <1>3, <1>4, <1>5, <1>6 DEF Call
<1>8. Entry(c.op) =
        IF c.op \in {"newExpand", "expand2d"} THEN "new"
        ELSE IF c.op = "_expand" THEN "check" ELSE IF c.op = "_expandNd" THEN "ndCheck"
        ELSE IF c.op = "withEmpty" THEN "dims"
        ELSE IF c.op \in {"tensordata", "resize"} THEN "storage" ELSE "resize"
  BY <1>7 DEF Entry
<1>9. Place(c.op, Entry(c.op))
  BY <1>7, <1>8 DEF Place
<1>10. /\ Entry(c.op) \in {"new", "ndCheck", "dims", "storage", "resize"}
             \/ (c.op = "_expand" /\ Entry(c.op) = "check")
       /\ c.op \in {"newExpand", "expand2d"} => Entry(c.op) = "new"
  <2>1. Entry(c.op) \in {"new", "ndCheck", "dims", "storage", "resize"}
          \/ (c.op = "_expand" /\ Entry(c.op) = "check")
    BY <1>7, <1>8
  <2>2. c.op \in {"newExpand", "expand2d"} => Entry(c.op) = "new"
    BY <1>8
  <2>3. QED
    BY <2>1, <2>2
<1> DEFINE p == Entry(c.op)
<1> HIDE DEF p
<1>11. Locals(g, p)
  <2>0. Place(g.op, p)
    BY <1>2, <1>9 DEF p
  <2>1. Record(g) /\ g.rets \in Seq(Tensor) /\ g.ops \in Seq(Tensor)
    <3>0. <<>> \in Seq(Tensor)
      OBVIOUS
    <3>1. c.rets \in Seq(Tensor) /\ c.ops \in Seq(Tensor)
      BY <1>7, <3>0
    <3>2. QED
      BY <1>2, <3>1
  <2>2. g.op \notin {"none", "_resizeDim"} => g.i \in 1 .. Len(g.ops)
    BY <1>2, <1>7
  <2>3. g.op \notin {"none", "_resizeDim", "_expandNd"} => Len(g.ops) = 1
    BY <1>2, <1>7
  <2>4. g.op \in {"_expand", "_expandNd"} => Len(g.rets) = Len(g.ops)
    BY <1>2, <1>7
  <2>5. g.op \in {"newExpand", "expand2d"} /\ p # "new" => Len(g.rets) = 1
    BY <1>2, <1>10 DEF p
  <2>6. g.op = "_resizeDim" => Len(g.rets) = 1 /\ g.i = 1
    BY <1>2, <1>7
  <2>7. QED
    BY <2>0, <2>1, <2>2, <2>3, <2>4, <2>5, <2>6 DEF Locals
<1>12. c.op \in {"newExpand", "expand2d", "withEmpty"} => c.rets = <<>>
  BY <1>7
<1>13. QED
  BY <1>2, <1>10, <1>11, <1>12 DEF p

LEMMA BeginControl ==
  ASSUME Control, NEW th \in Thread, Begin(th)
  PROVE  Control'
<1>1. /\ ~exited /\ pc[th] = "idle" /\ Locals(frame[th], "idle")
      /\ TempsOf(frame[th], "idle", temp[th]) /\ UNCHANGED <<exited, temp>>
      /\ PerThread(frame) /\ PerThread(pc) /\ PerThread(temp)
  BY ControlAt DEF Begin
<1>2. PICK c \in CallsOf[th] :
        /\ frame' = [frame EXCEPT ![th] = [Idle EXCEPT !.op = c.op, !.rets = c.rets,
                                                       !.ops = c.ops, !.want = c.want]]
        /\ pc' = [pc EXCEPT ![th] = Entry(c.op)]
  BY DEF Begin, Goto
<1> DEFINE g == [Idle EXCEPT !.op = c.op, !.rets = c.rets, !.ops = c.ops, !.want = c.want]
           p == Entry(c.op)
<1>3. /\ Locals(g, p) /\ g.op = c.op
      /\ \/ p \in {"new", "ndCheck", "dims", "storage", "resize"}
         \/ (c.op = "_expand" /\ p = "check")
  BY CallFacts
<1>4. /\ Only(th, frame, frame') /\ frame'[th] = g /\ Only(th, pc, pc') /\ pc'[th] = p
      /\ Only(th, temp, temp')
  BY <1>1, <1>2, OnlyItself DEF PerThread, Only
<1> HIDE DEF g, p
<1>5. \A x \in Temp : temp[th][x] = 0
  BY <1>1 DEF TempsOf, Owns
<1>6. \A x \in Temp : ~Owns(g, p, x)
  BY <1>3 DEF Owns
<1>7. temp[th] \in [Temp -> {0, 1}]
  BY <1>1 DEF TempsOf
<1>8. TempsOf(frame[th], pc[th], temp[th])'
  BY <1>1, <1>4, <1>5, <1>6, <1>7 DEF TempsOf, Owns
<1>9. QED
  BY <1>1, <1>3, <1>4, <1>8, ControlStep DEF Control

LEMMA ReturnControl ==
  ASSUME Control, NEW th \in Thread, Return(th)
  PROVE  Control'
<1>1. /\ ~exited /\ pc[th] = "done" /\ Locals(frame[th], "done")
      /\ TempsOf(frame[th], "done", temp[th]) /\ UNCHANGED <<exited, temp>>
      /\ PerThread(frame) /\ PerThread(pc) /\ PerThread(temp)
      /\ frame' = [frame EXCEPT ![th] = Idle] /\ pc' = [pc EXCEPT ![th] = "idle"]
  BY ControlAt DEF Return, Goto
<1>2. /\ Only(th, frame, frame') /\ frame'[th] = Idle /\ Only(th, pc, pc') /\ pc'[th] = "idle"
      /\ Only(th, temp, temp')
  BY <1>1, OnlyItself DEF PerThread, Only
<1>3. Locals(Idle, "idle")
  BY DEF Locals, Record, Place, Idle
<1>4. TempsOf(frame[th], pc[th], temp[th])'
  BY <1>1, <1>2 DEF TempsOf, Owns
<1>5. QED
  BY <1>1, <1>2, <1>3, <1>4, ControlStep DEF Control

LEMMA InitControl == Init => Control
<1> SUFFICES ASSUME Init PROVE Control
  OBVIOUS
<1>1. PerThread(pc) /\ PerThread(frame) /\ PerThread(temp)
  BY DEF Init, PerThread
<1>2. ASSUME NEW th \in Thread
      PROVE  Locals(frame[th], pc[th]) /\ TempsOf(frame[th], pc[th], temp[th])
  <2>1. frame[th] = Idle /\ pc[th] = "idle" /\ temp[th] = [x \in Temp |-> 0]
    BY DEF Init
  <2>2. Locals(Idle, "idle")
    BY DEF Locals, Record, Place, Idle
  <2>3. QED
    BY <2>1, <2>2 DEF TempsOf, Owns
<1>3. QED
  BY <1>1, <1>2 DEF Control, Init

\* The parts of Next.
LEMMA NextCases ==
  ASSUME NEW th \in Thread, Begin(th) \/ Continue(th)
  PROVE  \/ Begin(th) \/ newExpandNew(th)
         \/ expandCheck(th) \/ expandCheckSizes(th) \/ expandGeometry(th) \/ expandInfer(th)
         \/ expandArgs(th) \/ expandSet(th) \/ expandFree(th)
         \/ expandNdCheck(th) \/ expandNdTake(th) \/ expandNdInfer(th) \/ expandNdFree(th)
         \/ expand2dNew(th) \/ getDimListRank(th) \/ getDimListSize(th) \/ withEmptyNew(th)
         \/ getStorage(th) \/ tensordataLength(th) \/ tensordataPointer(th)
         \/ tensordataPeek(th) \/ resize(th) \/ resizeDim(th) \/ Return(th)
<1>1. Polyfill(th) =>
        \/ newExpandNew(th) \/ expandCheck(th) \/ expandCheckSizes(th) \/ expandGeometry(th)
        \/ expandInfer(th) \/ expandArgs(th) \/ expandSet(th)
        \/ expandFree(th) \/ expandNdCheck(th) \/ expandNdTake(th) \/ expandNdInfer(th)
        \/ expandNdFree(th)
  BY DEF Polyfill, expandSteps, expandNdSteps
<1>2. Tensors(th) => Polyfill(th)
  BY DEF Tensors, ByteTensor, CharTensor, ShortTensor, IntTensor, LongTensor, HalfTensor,
         FloatTensor, DoubleTensor, CudaTensor
<1>3. QED
  BY <1>1, <1>2 DEF Continue

LEMMA NextControl == Control /\ [Next]_vars => Control'
<1> SUFFICES ASSUME Control, [Next]_vars PROVE Control'
  OBVIOUS
<1>1. CASE UNCHANGED vars
  BY <1>1 DEF vars, Control, PerThread, TempsOf, Owns
<1>2. ASSUME NEW th \in Thread, Begin(th) \/ Continue(th)
      PROVE  Control'
  BY <1>2, NextCases, BeginControl, newExpandNewControl, expandCheckControl,
     expandReadsControl, expandInferControl, expandSetControl, expandFreeControl, expandNdCheckControl,
     expandNdTakeControl, expandNdInferControl, expandNdFreeControl, expand2dNewControl,
     getDimListRankControl, getDimListSizeControl, withEmptyNewControl,
     getStorageControl, tensordataLengthControl, tensordataPointerControl, endsControl,
     resizeDimControl, ReturnControl
<1>3. QED
  BY <1>1, <1>2 DEF Next

\* Every thread is at a place of its call, with the locals that it needs there.
THEOREM ControlInvariant == Spec => []Control
BY InitControl, NextControl, PTL DEF Spec

\* No path through the C code of the polyfill, those after an error included,
\* leaks one of its arrays or frees it twice, for any threads and calls.
THEOREM TemporariesFreed == Spec => []Temporaries
<1>1. Control => Temporaries
  BY DEF Control, TempsOf, Owns, Temporaries
<1>2. QED
  BY <1>1, ControlInvariant, PTL

-----------------------------------------------------------------------------
\* The results of th are new, and no other call has them.
Creates(f) == f.op \in {"newExpand", "expand2d", "withEmpty"}

Owned(th) ==
  /\ Range(frame[th].ops) \subseteq held
  /\ ~Creates(frame[th]) => Range(frame[th].rets) \subseteq held
  /\ Creates(frame[th]) => Range(frame[th].rets) \cap held = {}

Apart(th, u) ==
  Creates(frame[th]) /\ Creates(frame[u]) =>
    Range(frame[th].rets) \cap Range(frame[u].rets) = {}

Ownership ==
  /\ held \subseteq Tensor
  /\ \A th \in Thread : Owned(th)
  /\ \A th, u \in Thread : th # u => Apart(th, u)

\* An expand that may still fail, or has failed, has not changed its result.
Expands(f) == f.op \in {"newExpand", "_expand", "expand2d"}

MayFail(f, p) ==
  /\ Expands(f)
  /\ \/ p \in {"check", "rank", "geometry", "infer"}
     \/ (p = "done" /\ f.failed = "infer")

Fine(f, p) ==
  /\ Expands(f) /\ p \in {"new", "check", "rank", "geometry", "infer", "args", "set", "free"} =>
       f.failed # "infer"
  /\ ~Expands(f) /\ f.op # "_expandNd" => f.failed # "infer"

Kept(th) ==
  calm[th] /\ MayFail(frame[th], pc[th]) =>
    \A r \in Range(frame[th].rets) : tensor[r] = before[th][r]

Results ==
  /\ tensor = [t \in Tensor |-> tensor[t]]
  /\ PerThread(before) /\ PerThread(calm)
  /\ \A th \in Thread : /\ before[th] = [t \in Tensor |-> before[th][t]]
                        /\ calm[th] \in BOOLEAN
                        /\ Fine(frame[th], pc[th]) /\ Kept(th)

Data == Ownership /\ StaticShape /\ Results

\* What th calls, with which tensors, stays the same.
SameCall(th) ==
  /\ Only(th, frame, frame')
  /\ frame'[th].op = frame[th].op
  /\ frame'[th].rets = frame[th].rets /\ frame'[th].ops = frame[th].ops
  /\ frame[th].op = "expand2d" => frame'[th].want = frame[th].want

\* Steps of th that leave the tensors alone.
Quiet(th) ==
  /\ SameCall(th) /\ Only(th, pc, pc')
  /\ UNCHANGED <<tensor, held, calm, before>>
  /\ MayFail(frame'[th], pc'[th]) => MayFail(frame[th], pc[th])
  /\ Fine(frame'[th], pc'[th])

LEMMA SameCallOwnership ==
  ASSUME Ownership, NEW th \in Thread, SameCall(th), held' = held
  PROVE  Ownership'
<1>1. \A u \in Thread : /\ frame'[u].op = frame[u].op /\ frame'[u].rets = frame[u].rets
                        /\ frame'[u].ops = frame[u].ops
  BY DEF SameCall, Only
<1>2. \A u \in Thread : Creates(frame'[u]) <=> Creates(frame[u])
  BY <1>1 DEF Creates
<1>3. \A u \in Thread : Owned(u)'
  BY <1>1, <1>2 DEF Ownership, Owned
<1>4. \A u, v \in Thread : u # v => Apart(u, v)'
  BY <1>1, <1>2 DEF Ownership, Apart
<1>5. QED
  BY <1>3, <1>4 DEF Ownership

LEMMA QuietData ==
  ASSUME Data, NEW th \in Thread, Quiet(th)
  PROVE  Data'
<1>1. Ownership'
  BY SameCallOwnership DEF Data, Quiet
<1>2. \A u \in Thread : /\ frame'[u].op = frame[u].op /\ frame'[u].rets = frame[u].rets
                        /\ frame[u].op = "expand2d" => frame'[u].want = frame[u].want
                        /\ u # th => frame'[u] = frame[u] /\ pc'[u] = pc[u]
  BY DEF Quiet, SameCall, Only
<1>3. StaticShape'
  BY <1>2 DEF Data, StaticShape, Quiet
<1>4. \A u \in Thread : Fine(frame'[u], pc'[u]) /\ Kept(u)'
  <2> TAKE u \in Thread
  <2>1. Fine(frame'[u], pc'[u])
    BY <1>2 DEF Quiet, Data, Results
  <2>2. MayFail(frame'[u], pc'[u]) => MayFail(frame[u], pc[u])
    BY <1>2 DEF Quiet
  <2>3. Kept(u)
    BY DEF Data, Results
  <2>4. Kept(u)'
    BY <1>2, <2>2, <2>3 DEF Kept, Quiet
  <2>5. QED
    BY <2>1, <2>4
<1>5. Results'
  BY <1>4 DEF Data, Results, Quiet, PerThread
<1>6. QED
  BY <1>1, <1>3, <1>5 DEF Data

\* The locals g after a step of th are of the same call as those before.
Resumes(f, g) ==
  /\ g.op = f.op /\ g.rets = f.rets /\ g.ops = f.ops
  /\ f.op = "expand2d" => g.want = f.want

LEMMA QuietStep ==
  ASSUME Control, NEW th \in Thread, NEW g, NEW p,
         frame' = [frame EXCEPT ![th] = g], pc' = [pc EXCEPT ![th] = p],
         UNCHANGED <<tensor, held, calm, before>>, Resumes(frame[th], g),
         MayFail(g, p) => MayFail(frame[th], pc[th]), Fine(g, p)
  PROVE  Quiet(th)
<1>1. Only(th, frame, frame') /\ frame'[th] = g /\ Only(th, pc, pc') /\ pc'[th] = p
  BY DEF Control, PerThread, Only
<1>2. QED
  BY <1>1 DEF Quiet, SameCall, Resumes

LEMMA QuietPlace ==
  ASSUME Control, NEW th \in Thread, NEW p, frame' = frame, pc' = [pc EXCEPT ![th] = p],
         UNCHANGED <<tensor, held, calm, before>>,
         MayFail(frame[th], p) => MayFail(frame[th], pc[th]), Fine(frame[th], p)
  PROVE  Quiet(th)
<1>1. Only(th, frame, frame') /\ Only(th, pc, pc') /\ pc'[th] = p
  BY OnlyItself DEF Control, PerThread, Only
<1>2. QED
  BY <1>1 DEF Quiet, SameCall

LEMMA QuietExit ==
  ASSUME Control, Data, NEW th \in Thread, UNCHANGED <<frame, pc>>,
         UNCHANGED <<tensor, held, calm, before>>
  PROVE  Quiet(th)
<1>1. Only(th, frame, frame') /\ Only(th, pc, pc') /\ Fine(frame[th], pc[th])
  BY OnlyItself DEF Control, Data, Results
<1>2. QED
  BY <1>1 DEF Quiet, SameCall

LEMMA QuietError ==
  ASSUME Control, Data, NEW th \in Thread, NEW g, NEW p, Error(th, g, p),
         UNCHANGED <<tensor, held, calm, before>>, Resumes(frame[th], g),
         MayFail(g, p) => MayFail(frame[th], pc[th]), Fine(g, p)
  PROVE  Quiet(th)
BY QuietStep, QuietExit DEF Error, Goto

LEMMA CheckQuiet ==
  ASSUME Control, Data, NEW th \in Thread, NEW q \in {"check", "rank"}, At(th, q),
         UNCHANGED <<tensor, held, calm, before>>, NEW p \in {"rank", "geometry"},
         \/ Goto(th, p) /\ UNCHANGED <<frame, exited>>
         \/ Error(th, [frame[th] EXCEPT !.failed = "arg"], p)
  PROVE  Quiet(th)
<1> DEFINE f == frame[th]
           g == [f EXCEPT !.failed = "arg"]
<1>1. pc[th] = q /\ Locals(f, q) /\ Fine(f, q)
  BY ControlAt DEF Data, Results
<1>2. Fine(f, p) /\ (MayFail(f, p) => MayFail(f, q))
  BY <1>1 DEF Fine, MayFail
<1>3. CASE pc' = [pc EXCEPT ![th] = p] /\ UNCHANGED <<frame, exited>>
  BY <1>1, <1>2, <1>3, QuietPlace
<1>4. CASE Error(th, g, p)
  <2>1. Resumes(f, g) /\ g.failed = "arg"
    BY <1>1 DEF Locals, Record, Resumes
  <2>2. Fine(g, p) /\ (MayFail(g, p) => MayFail(f, q))
    BY <1>1, <2>1 DEF Fine, MayFail, Expands, Resumes
  <2> HIDE DEF g
  <2>3. QED
    BY <1>1, <1>4, <2>1, <2>2, QuietError
<1>5. QED
  BY <1>3, <1>4 DEF Goto

LEMMA expandCheckQuiet ==
  ASSUME Control, Data, NEW th \in Thread, expandCheck(th) \/ expandCheckSizes(th)
  PROVE  Quiet(th)
<1>1. CASE expandCheck(th)
  BY <1>1, CheckQuiet DEF expandCheck, mem
<1>2. CASE expandCheckSizes(th)
  BY <1>2, CheckQuiet DEF expandCheckSizes, mem
<1>3. QED
  BY <1>1, <1>2

LEMMA expandReadsQuiet ==
  ASSUME Control, Data, NEW th \in Thread, expandGeometry(th) \/ expandArgs(th)
  PROVE  Quiet(th)
<1> DEFINE f == frame[th]
           x == tensor[Source(th)]
<1>1. CASE expandGeometry(th)
  <2> DEFINE limit == Len(x.size)
             g == [f EXCEPT !.limit = limit]
  <2>1. /\ pc[th] = "geometry" /\ Locals(f, "geometry") /\ Fine(f, "geometry")
        /\ UNCHANGED <<tensor, held, calm, before>>
        /\ frame' = [frame EXCEPT ![th] = g] /\ pc' = [pc EXCEPT ![th] = "infer"]
    BY <1>1, ControlAt DEF expandGeometry, Goto, Data, Results
  <2> HIDE DEF limit
  <2>2. Resumes(f, g) /\ g.failed = f.failed
    BY <2>1 DEF Locals, Record, Resumes
  <2>3. Fine(g, "infer") /\ (MayFail(g, "infer") => MayFail(f, "geometry"))
    BY <2>1, <2>2 DEF Fine, MayFail, Expands, Resumes
  <2> HIDE DEF g
  <2>4. QED
    BY <2>1, <2>2, <2>3, QuietStep
<1>2. CASE expandArgs(th)
  <2> DEFINE storage == x.storage
             offset == x.offset
             g == [f EXCEPT !.storage = storage, !.offset = offset]
  <2>1. /\ pc[th] = "args" /\ Locals(f, "args") /\ Fine(f, "args")
        /\ UNCHANGED <<tensor, held, calm, before>> /\ pc' = [pc EXCEPT ![th] = "set"]
    BY <1>2, ControlAt DEF expandArgs, Goto, mem, Data, Results
  <2>2. frame' = [frame EXCEPT ![th] = g]
    BY <1>2 DEF expandArgs, Control, PerThread
  <2> HIDE DEF storage, offset
  <2>3. Resumes(f, g) /\ g.failed = f.failed
    BY <2>1 DEF Locals, Record, Resumes
  <2>4. Fine(g, "set") /\ ~MayFail(g, "set")
    BY <2>1, <2>3 DEF Fine, MayFail, Expands, Resumes
  <2> HIDE DEF g
  <2>5. QED
    BY <2>1, <2>2, <2>3, <2>4, QuietStep
<1>3. QED
  BY <1>1, <1>2

LEMMA expandInferQuiet ==
  ASSUME Control, Data, NEW th \in Thread, expandInfer(th)
  PROVE  Quiet(th)
<1> DEFINE f == frame[th]
<1>1. /\ pc[th] = "infer" /\ Locals(f, "infer") /\ Fine(f, "infer")
      /\ UNCHANGED <<tensor, held, calm, before>>
  BY ControlAt DEF expandInfer, mem, Data, Results
<1>0. PICK x \in GeometryAt(th) :
        IF Expandable(x.size, f.want)
        THEN /\ frame' = [frame EXCEPT ![th].stride = ExpandedStride(x, f.want)]
             /\ Goto(th, "args")
        ELSE Error(th, [f EXCEPT !.failed = "infer", !.i = NextOp(f)], AfterExpand(f))
  BY DEF expandInfer
<1>2. CASE Expandable(x.size, f.want)
  <2> DEFINE stride == ExpandedStride(x, f.want)
             g == [f EXCEPT !.stride = stride]
  <2>1. frame' = [frame EXCEPT ![th] = g] /\ pc' = [pc EXCEPT ![th] = "args"]
    BY <1>0, <1>2 DEF Goto
  <2> HIDE DEF stride
  <2>2. Resumes(f, g) /\ g.failed = f.failed
    BY <1>1 DEF Locals, Record, Resumes
  <2>3. Fine(g, "args") /\ ~MayFail(g, "args")
    BY <1>1, <2>2 DEF Fine, MayFail, Expands, Resumes
  <2> HIDE DEF g
  <2>4. QED
    BY <1>1, <2>1, <2>2, <2>3, QuietStep
<1>3. CASE ~Expandable(x.size, f.want)
  <2> DEFINE g == [f EXCEPT !.failed = "infer", !.i = NextOp(f)]
             p == AfterExpand(f)
  <2>1. Error(th, g, p)
    BY <1>0, <1>3
  <2>2. Resumes(f, g)
    BY <1>1 DEF Locals, Record, Resumes
  <2>3. (Expands(f) => p = "done") /\ (Expands(f) \/ f.op = "_expandNd")
    BY <1>1 DEF Expands, AfterExpand, Locals, Place
  <2>4. Fine(g, p) /\ (MayFail(g, p) => MayFail(f, "infer"))
    BY <2>2, <2>3 DEF Fine, MayFail, Expands, Resumes
  <2> HIDE DEF g, p
  <2>5. QED
    BY <1>1, <2>1, <2>2, <2>4, QuietError
<1>4. QED
  BY <1>2, <1>3

LEMMA expandFreeQuiet ==
  ASSUME Control, Data, NEW th \in Thread, expandFree(th)
  PROVE  Quiet(th)
<1> DEFINE f == frame[th]
           g == [f EXCEPT !.i = NextOp(f)]
           p == AfterExpand(f)
<1>1. /\ pc[th] = "free" /\ Locals(f, "free") /\ Fine(f, "free")
      /\ UNCHANGED <<tensor, held, calm, before>>
      /\ pc' = [pc EXCEPT ![th] = p] /\ frame' = [frame EXCEPT ![th] = g]
  BY ControlAt DEF expandFree, Goto, mem, Data, Results
<1>2. Resumes(f, g) /\ g.failed = f.failed
  BY <1>1 DEF Locals, Record, Resumes
<1>3. Expands(f) => p = "done"
  BY DEF Expands, AfterExpand
<1>4. Fine(g, p) /\ ~MayFail(g, p)
  BY <1>1, <1>2, <1>3 DEF Fine, MayFail, Expands, Resumes
<1> HIDE DEF g, p
<1>5. QED
  BY <1>1, <1>2, <1>4, QuietStep

\* Steps of calls that are no expand.
LEMMA OtherQuiet ==
  ASSUME Control, Data, NEW th \in Thread, NEW g, NEW p, Locals(frame[th], pc[th]),
         ~Expands(frame[th]), Resumes(frame[th], g),
         frame[th].op = "_expandNd" \/ g.failed \in {frame[th].failed, "arg"},
         UNCHANGED <<tensor, held, calm, before>>,
         \/ frame' = [frame EXCEPT ![th] = g] /\ pc' = [pc EXCEPT ![th] = p]
         \/ Error(th, g, p)
  PROVE  Quiet(th)
<1>1. ~MayFail(g, p) /\ Fine(g, p)
  BY DEF MayFail, Fine, Expands, Resumes, Data, Results
<1>2. QED
  BY <1>1, QuietStep, QuietError

LEMMA OtherQuietPlace ==
  ASSUME Control, Data, NEW th \in Thread, NEW p, ~Expands(frame[th]),
         UNCHANGED <<frame, tensor, held, calm, before>>, pc' = [pc EXCEPT ![th] = p]
  PROVE  Quiet(th)
<1>1. ~MayFail(frame[th], p) /\ Fine(frame[th], p)
  BY DEF MayFail, Fine, Data, Results
<1>2. QED
  BY <1>1, QuietPlace

LEMMA expandNdQuiet ==
  ASSUME Control, Data, NEW th \in Thread,
         \/ expandNdCheck(th) \/ expandNdTake(th) \/ expandNdInfer(th) \/ expandNdFree(th)
  PROVE  Quiet(th)
<1> DEFINE f == frame[th]
<1>1. /\ Locals(f, pc[th]) /\ pc[th] \in {"ndCheck", "ndTake", "ndInfer", "ndFree"}
      /\ UNCHANGED <<tensor, held, calm, before>>
  BY ControlAt DEF expandNdCheck, expandNdTake, expandNdInfer, expandNdFree, mem
<1>2. f.op = "_expandNd" /\ ~Expands(f) /\ Record(f)
  BY <1>1 DEF Locals, Place, Expands
<1>3. ASSUME NEW g, \/ \E x : g = [f EXCEPT !.failed = x]
                    \/ \E x : g = [f EXCEPT !.want = x, !.i = 1]
      PROVE  Resumes(f, g)
  BY <1>2, <1>3 DEF Record, Resumes
<1>4. CASE expandNdCheck(th)
  <2> DEFINE i == NextRound(f)
             g == [f EXCEPT !.i = i]
             h == [f EXCEPT !.i = i, !.failed = "arg"]
             p == IF f.i < Len(f.ops) THEN "ndCheck" ELSE "ndTake"
  <2>1. Resumes(f, g) /\ Resumes(f, h)
    <3> HIDE DEF i
    <3>1. QED
      BY <1>2 DEF Record, Resumes
  <2>2. g.ops = f.ops /\ p = IF f.i < Len(g.ops) THEN "ndCheck" ELSE "ndTake"
    BY <1>2 DEF Record
  <2>3. h = [g EXCEPT !.failed = "arg"]
    OBVIOUS
  <2>5. \/ frame' = [frame EXCEPT ![th] = g] /\ Goto(th, p)
        \/ Error(th, [g EXCEPT !.failed = "arg"], p)
    <3> HIDE DEF p, h
    <3>1. QED
      BY <1>4, <2>2 DEF expandNdCheck
  <2>6. \/ frame' = [frame EXCEPT ![th] = g] /\ pc' = [pc EXCEPT ![th] = p]
        \/ Error(th, h, p)
    <3> HIDE DEF g, h, p
    <3>1. QED
      BY <2>3, <2>5 DEF Goto
  <2> HIDE DEF g, h, p
  <2>4. QED
    BY <1>1, <1>2, <2>1, <2>6, OtherQuiet
<1>5. CASE expandNdTake(th)
  <2> DEFINE i == NextRound(f)
             read == Append(f.read, Len(tensor[Source(th)].size))
             g == [f EXCEPT !.read = read, !.i = i]
  <2>1. Resumes(f, g)
    <3> HIDE DEF i, read
    <3>1. QED
      BY <1>2 DEF Record, Resumes
  <2>2. frame' = [frame EXCEPT ![th] = g]
    BY <1>5 DEF expandNdTake, Control, PerThread
  <2>3. PICK p : pc' = [pc EXCEPT ![th] = p]
    BY <1>5 DEF expandNdTake, Goto
  <2> HIDE DEF g
  <2>4. QED
    BY <1>1, <1>2, <2>1, <2>2, <2>3, OtherQuiet
<1>6. CASE expandNdInfer(th)
  <2>1. ASSUME NEW want, frame' = [frame EXCEPT ![th].want = want, ![th].i = 1],
               pc' = [pc EXCEPT ![th] = "check"]
        PROVE  Quiet(th)
    <3> DEFINE g == [f EXCEPT !.want = want, !.i = 1]
    <3>1. Resumes(f, g)
      BY <1>3
    <3>2. frame' = [frame EXCEPT ![th] = g]
      BY <2>1 DEF Control, PerThread
    <3> HIDE DEF g
    <3>3. QED
      BY <1>1, <1>2, <2>1, <3>1, <3>2, OtherQuiet
  <2>2. ASSUME Error(th, [f EXCEPT !.failed = "infer"], "done")
        PROVE  Quiet(th)
    <3> DEFINE g == [f EXCEPT !.failed = "infer"]
    <3>1. Resumes(f, g) /\ Error(th, g, "done")
      BY <1>3, <2>2
    <3> HIDE DEF g
    <3>2. QED
      BY <1>1, <1>2, <3>1, OtherQuiet
  <2>3. QED
    BY <1>6, <2>1, <2>2 DEF expandNdInfer, Goto
<1>7. CASE expandNdFree(th)
  BY <1>1, <1>2, <1>7, OtherQuietPlace DEF expandNdFree, Goto
<1>8. QED
  BY <1>4, <1>5, <1>6, <1>7

LEMMA readsQuiet ==
  ASSUME Control, Data, NEW th \in Thread,
         \/ getDimListRank(th) \/ getDimListSize(th)
         \/ getStorage(th) \/ tensordataLength(th) \/ tensordataPointer(th)
         \/ tensordataPeek(th) \/ resize(th)
  PROVE  Quiet(th)
<1> DEFINE f == frame[th]
           x == tensor[Source(th)]
<1>1. /\ Locals(f, pc[th])
      /\ pc[th] \in {"dims", "size", "storage", "length", "data", "peek", "capacity"}
      /\ UNCHANGED <<tensor, held, calm, before>>
  BY ControlAt DEF getDimListRank, getDimListSize, getStorage, tensordataLength,
                   tensordataPointer, tensordataPeek, resize, mem
<1>2. ~Expands(f) /\ Record(f)
  BY <1>1 DEF Locals, Place, Expands
<1>3. ASSUME NEW g, \/ \E e : g = [f EXCEPT !.limit = e]
                    \/ \E e : g = [f EXCEPT !.read = e]
                    \/ \E e : g = [f EXCEPT !.storage = e]
                    \/ \E d, e : g = [f EXCEPT !.storage = d, !.offset = e]
      PROVE  Resumes(f, g) /\ g.failed = f.failed
  BY <1>2, <1>3 DEF Record, Resumes
<1>4. CASE getDimListRank(th)
  <2> DEFINE rank == Rank(x)
             g == [f EXCEPT !.limit = rank]
             p == IF rank = 0 THEN "new" ELSE "size"
  <2>1. Resumes(f, g) /\ g.failed = f.failed
    BY <1>3
  <2>2. frame' = [frame EXCEPT ![th] = g] /\ pc' = [pc EXCEPT ![th] = p]
    BY <1>4 DEF getDimListRank, Goto
  <2> HIDE DEF g, p
  <2>3. QED
    BY <1>1, <1>2, <2>1, <2>2, OtherQuiet
<1>5. CASE getDimListSize(th)
  <2> DEFINE d == Len(f.read) + 1
             p == IF d = f.limit THEN "new" ELSE "size"
  <2>1. CASE d <= Len(x.size)
    <3> DEFINE read == Append(f.read, x.size[d])
               g == [f EXCEPT !.read = read]
    <3>1. Resumes(f, g) /\ g.failed = f.failed
      BY <1>3
    <3>2. frame' = [frame EXCEPT ![th] = g] /\ pc' = [pc EXCEPT ![th] = p]
      BY <1>5, <2>1 DEF getDimListSize, Goto
    <3> HIDE DEF g, p
    <3>3. QED
      BY <1>1, <1>2, <3>1, <3>2, OtherQuiet
  <2>2. CASE ~(d <= Len(x.size))
    <3>1. PICK n \in Junk : Error(th, [f EXCEPT !.read = Append(f.read, n), !.failed = "arg"], p)
      BY <1>5, <2>2 DEF getDimListSize
    <3> DEFINE read == Append(f.read, n)
               g == [f EXCEPT !.read = read, !.failed = "arg"]
    <3> HIDE DEF p
    <3>3. Error(th, g, p)
      BY <3>1
    <3> HIDE DEF read
    <3>2. Resumes(f, g) /\ g.failed = "arg"
      BY <1>2 DEF Record, Resumes
    <3> HIDE DEF g
    <3>4. QED
      BY <1>1, <1>2, <3>2, <3>3, OtherQuiet
  <2>3. QED
    BY <2>1, <2>2
<1>6. CASE getStorage(th)
  <2> DEFINE s == x.storage
             g == [f EXCEPT !.storage = s]
             p == IF f.op = "resize" THEN "capacity" ELSE "length"
  <2>1. \/ UNCHANGED <<pc, frame>>
        \/ frame' = [frame EXCEPT ![th] = g] /\ pc' = [pc EXCEPT ![th] = p]
    BY <1>6 DEF getStorage, Goto
  <2>2. Resumes(f, g) /\ g.failed = f.failed
    BY <1>3
  <2> HIDE DEF g, p
  <2>3. QED
    BY <1>1, <1>2, <2>1, <2>2, QuietExit, OtherQuiet
<1>7. CASE tensordataLength(th)
  <2> DEFINE read == <<cap[f.storage]>>
             g == [f EXCEPT !.read = read]
  <2>1. Resumes(f, g) /\ g.failed = f.failed
    BY <1>3
  <2>2. frame' = [frame EXCEPT ![th] = g] /\ pc' = [pc EXCEPT ![th] = "data"]
    BY <1>7 DEF tensordataLength, Goto
  <2> HIDE DEF g
  <2>3. QED
    BY <1>1, <1>2, <2>1, <2>2, OtherQuiet
<1>8. CASE tensordataPointer(th)
  <2> DEFINE storage == x.storage
             offset == x.offset
             g == [f EXCEPT !.storage = storage, !.offset = offset]
  <2>1. Resumes(f, g) /\ g.failed = f.failed
    BY <1>3
  <2>2. frame' = [frame EXCEPT ![th] = g] /\ pc' = [pc EXCEPT ![th] = "peek"]
    BY <1>8 DEF tensordataPointer, Goto, Control, PerThread
  <2> HIDE DEF g
  <2>3. QED
    BY <1>1, <1>2, <2>1, <2>2, OtherQuiet
<1>9. CASE tensordataPeek(th)
  BY <1>1, <1>2, <1>9, OtherQuietPlace DEF tensordataPeek, Goto
<1>10. CASE resize(th)
  BY <1>1, <1>2, <1>10, OtherQuietPlace DEF resize, Goto
<1>11. QED
  BY <1>4, <1>5, <1>6, <1>7, <1>8, <1>9, <1>10

\* C's change of the tensor t to x, by th.
LEMMA ChangeFacts ==
  ASSUME Data, NEW th \in Thread, NEW t \in Tensor, NEW x, Change(th, t, x)
  PROVE  /\ tensor' = [u \in Tensor |-> tensor'[u]]
         /\ \A u \in Tensor \ {t} : tensor'[u] = tensor[u]
         /\ PerThread(calm)'
         /\ \A u \in Thread : calm'[u] \in BOOLEAN
         /\ \A u \in Thread : calm'[u] => calm[u] /\ (u = th \/ t \notin Uses(u))
<1>1. tensor = [u \in Tensor |-> tensor[u]] /\ \A u \in Thread : calm[u] \in BOOLEAN
  BY DEF Data, Results
<1>2. calm' = [u \in Thread |-> calm[u] /\ (u = th \/ t \notin Uses(u))]
  BY DEF Change
<1>3. PerThread(calm)' /\ \A u \in Thread : calm'[u] \in BOOLEAN
  BY <1>1, <1>2 DEF PerThread
<1>4. \A u \in Thread : calm'[u] => calm[u] /\ (u = th \/ t \notin Uses(u))
  BY <1>2
<1>5. PICK y : tensor' = [tensor EXCEPT ![t] = y]
  BY DEF Change
<1>6. /\ tensor' = [u \in Tensor |-> tensor'[u]]
      /\ \A u \in Tensor \ {t} : tensor'[u] = tensor[u]
  BY <1>1, <1>5
<1>7. QED
  BY <1>3, <1>4, <1>6

LEMMA ChangeSize ==
  ASSUME Data, NEW th \in Thread, NEW t \in Tensor, NEW size, NEW stride, NEW storage, NEW offset,
         Change(th, t, [size |-> size, stride |-> stride, storage |-> storage, offset |-> offset])
  PROVE  tensor'[t].size = size
<1> DEFINE x == [size |-> size, stride |-> stride, storage |-> storage, offset |-> offset]
<1>1. tensor = [u \in Tensor |-> tensor[u]]
  BY DEF Data, Results
<1>2. \A s : [x EXCEPT !.storage = s].size = size
  OBVIOUS
<1>3. x.size = size
  OBVIOUS
<1> HIDE DEF x
<1>4. PICK y : tensor' = [tensor EXCEPT ![t] = y] /\ y.size = size
  BY <1>2, <1>3 DEF Change, x
<1>5. QED
  BY <1>1, <1>4

\* A step of th that changes the tensor t among its results.
LEMMA ChangeData ==
  ASSUME Control, Data, NEW th \in Thread, NEW t \in Range(frame[th].rets), NEW x, NEW p,
         Change(th, t, x), UNCHANGED <<frame, held, before>>, pc' = [pc EXCEPT ![th] = p],
         ~MayFail(frame[th], p), Fine(frame[th], p),
         frame[th].op = "expand2d" => tensor'[t].size = frame[th].want
  PROVE  Data'
<1>1. \A u \in Thread : Range(frame[u].rets) \subseteq Tensor
  BY DEF Control, Locals, Range
<1>2. t \in Tensor
  BY <1>1
<1>3. /\ tensor' = [u \in Tensor |-> tensor'[u]]
      /\ \A u \in Tensor \ {t} : tensor'[u] = tensor[u]
      /\ PerThread(calm)' /\ \A u \in Thread : calm'[u] \in BOOLEAN
      /\ \A u \in Thread : calm'[u] => calm[u] /\ (u = th \/ t \notin Uses(u))
  BY <1>2, ChangeFacts
<1>4. Only(th, frame, frame') /\ Only(th, pc, pc') /\ pc'[th] = p
  BY OnlyItself DEF Control, PerThread, Only
<1>5. Ownership'
  BY <1>4, SameCallOwnership DEF SameCall, Data
<1>6. StaticShape'
  <2> SUFFICES ASSUME NEW u \in Thread, frame[u].op = "expand2d", NEW r \in Range(frame[u].rets)
               PROVE  tensor'[r].size = frame[u].want
    BY DEF StaticShape
  <2>1. r \in Tensor
    BY <1>1
  <2>2. tensor[r].size = frame[u].want
    BY DEF Data, StaticShape
  <2>3. CASE r # t
    BY <1>3, <2>1, <2>2, <2>3
  <2>4. CASE r = t /\ u # th
    <3>1. Creates(frame[u]) /\ r \notin held
      BY DEF Data, Ownership, Owned, Creates
    <3>2. CASE Creates(frame[th])
      BY <2>4, <3>1, <3>2 DEF Data, Ownership, Apart
    <3>3. CASE ~Creates(frame[th])
      BY <2>4, <3>1, <3>3 DEF Data, Ownership, Owned
    <3>4. QED
      BY <3>2, <3>3
  <2>5. QED
    BY <2>3, <2>4
<1>7. \A u \in Thread : Fine(frame'[u], pc'[u]) /\ Kept(u)'
  <2> TAKE u \in Thread
  <2>1. CASE u = th
    BY <1>4, <2>1 DEF Kept
  <2>2. CASE u # th
    <3>1. frame'[u] = frame[u] /\ pc'[u] = pc[u] /\ Fine(frame[u], pc[u]) /\ Kept(u)
      BY <1>4, <2>2 DEF Only, Data, Results
    <3>2. calm'[u] => \A r \in Range(frame[u].rets) : tensor'[r] = tensor[r]
      BY <1>1, <1>3, <2>2 DEF Uses
    <3>3. QED
      BY <1>3, <3>1, <3>2 DEF Kept
  <2>3. QED
    BY <2>1, <2>2
<1>8. Results'
  BY <1>3, <1>7 DEF Data, Results, PerThread
<1>9. QED
  BY <1>5, <1>6, <1>8 DEF Data

LEMMA expandSetData ==
  ASSUME Control, Data, NEW th \in Thread, expandSet(th)
  PROVE  Data'
<1> DEFINE f == frame[th]
           t == Target(th)
<1>1. /\ pc[th] = "set" /\ Locals(f, "set") /\ Fine(f, "set") /\ UNCHANGED <<frame, held, before>>
      /\ pc' = [pc EXCEPT ![th] = "free"] /\ Change(th, t, View(th))
  BY ControlAt DEF expandSet, Goto, Data, Results
<1>2. t \in Range(f.rets) /\ t \in Tensor
  <2>1. f.i \in 1 .. Len(f.rets) /\ f.rets \in Seq(Tensor)
    BY <1>1 DEF Locals, Place
  <2>2. QED
    BY <2>1 DEF Target, Range
<1>3. tensor'[t].size = f.want
  BY <1>1, <1>2, ChangeSize DEF View
<1>4. ~MayFail(f, "free") /\ Fine(f, "free")
  BY <1>1 DEF MayFail, Fine
<1> HIDE DEF t
<1>5. QED
  BY <1>1, <1>2, <1>3, <1>4, ChangeData

LEMMA resizeDimData ==
  ASSUME Control, Data, NEW th \in Thread, resizeDim(th)
  PROVE  Data'
<1> DEFINE f == frame[th]
           t == Target(th)
           x == [tensor[t] EXCEPT !.size = f.want, !.stride = Contiguous(f.want)]
<1>1. /\ pc[th] = "resize" /\ Locals(f, "resize") /\ UNCHANGED <<frame, held, before>>
      /\ pc' = [pc EXCEPT ![th] = "done"]
  BY ControlAt DEF resizeDim, Goto
<1>2. f.op = "_resizeDim" /\ t \in Range(f.rets)
  <2>0. f.op = "_resizeDim"
    BY <1>1 DEF Locals, Place
  <2>1. f.rets \in Seq(Tensor) /\ f.i \in 1 .. Len(f.rets)
    <3>1. f.rets \in Seq(Tensor) /\ f.i = 1 /\ Len(f.rets) = 1
      BY <1>1, <2>0 DEF Locals
    <3>2. QED
      BY <3>1
  <2>2. QED
    BY <2>0, <2>1 DEF Target, Range
<1>3. ~MayFail(f, "done") /\ Fine(f, "done") /\ ~Expands(f)
  BY <1>2 DEF MayFail, Fine, Expands, Data, Results
<1>4. CASE UNCHANGED mem
  <2>1. Quiet(th)
    BY <1>1, <1>3, <1>4, OtherQuietPlace DEF mem
  <2>2. QED
    BY <2>1, QuietData
<1>5. CASE Change(th, t, x)
  <2> HIDE DEF t, x
  <2>1. QED
    BY <1>1, <1>2, <1>3, <1>5, ChangeData
<1>6. QED
  BY <1>4, <1>5 DEF resizeDim

\* A step of th that makes the result r of its call.
LEMMA CreateData ==
  ASSUME Control, Data, NEW th \in Thread, NEW r \in Tensor \ (held \cup Private), NEW p,
         Creates(frame[th]), frame' = [frame EXCEPT ![th].rets = <<r>>], held' = held,
         pc' = [pc EXCEPT ![th] = p], Fine(frame[th], p),
         before' = [before EXCEPT ![th][r] = tensor'[r]],
         tensor' = [u \in Tensor |-> tensor'[u]],
         \A u \in Tensor \ {r} : tensor'[u] = tensor[u],
         PerThread(calm)', \A u \in Thread : calm'[u] \in BOOLEAN /\ (calm'[u] => calm[u]),
         frame[th].op = "expand2d" => tensor'[r].size = frame[th].want
  PROVE  Data'
<1> DEFINE f == frame[th]
           g == [f EXCEPT !.rets = <<r>>]
<1>1. PerThread(frame) /\ PerThread(pc) /\ Locals(f, pc[th])
  BY DEF Control
<1>2. Only(th, frame, frame') /\ frame'[th] = g /\ Only(th, pc, pc') /\ pc'[th] = p
  BY <1>1 DEF PerThread, Only
<1>3. /\ g.op = f.op /\ g.ops = f.ops /\ g.want = f.want /\ g.failed = f.failed
      /\ g.rets = <<r>>
  BY <1>1 DEF Locals, Record
<1>4. \A u \in Thread \ {th} : frame'[u] = frame[u] /\ pc'[u] = pc[u]
  BY <1>2 DEF Only
<1> HIDE DEF g
<1>5. Range(g.rets) = {r}
  BY <1>3 DEF Range
<1>6. /\ \A u \in Thread : Range(frame[u].rets) \subseteq Tensor
      /\ \A u \in Thread : r \notin Range(frame[u].rets)
  BY DEF Control, Locals, Range, Private
<1>7. Ownership'
  <2>1. \A u \in Thread : Owned(u)'
    <3> TAKE u \in Thread
    <3>1. CASE u = th
      BY <3>1, <1>2, <1>3, <1>5 DEF Data, Ownership, Owned, Creates
    <3>2. CASE u # th
      BY <3>2, <1>4 DEF Data, Ownership, Owned, Creates
    <3>3. QED
      BY <3>1, <3>2
  <2>2. \A u, v \in Thread : u # v => Apart(u, v)'
    <3> SUFFICES ASSUME NEW u \in Thread, NEW v \in Thread, u # v
                 PROVE  Apart(u, v)'
      OBVIOUS
    <3>1. CASE u # th /\ v # th
      BY <3>1, <1>4 DEF Data, Ownership, Apart, Creates
    <3>2. CASE u = th
      BY <3>2, <1>2, <1>4, <1>5, <1>6 DEF Apart
    <3>3. CASE v = th
      BY <3>3, <1>2, <1>4, <1>5, <1>6 DEF Apart
    <3>4. QED
      BY <3>1, <3>2, <3>3
  <2>3. QED
    BY <2>1, <2>2 DEF Data, Ownership
<1>8. StaticShape'
  <2> SUFFICES ASSUME NEW u \in Thread, frame'[u].op = "expand2d", NEW y \in Range(frame'[u].rets)
               PROVE  tensor'[y].size = frame'[u].want
    BY DEF StaticShape
  <2>1. CASE u = th
    BY <2>1, <1>2, <1>3, <1>5
  <2>2. CASE u # th
    <3>1. /\ frame[u].op = "expand2d" /\ y \in Range(frame[u].rets) /\ y \in Tensor \ {r}
          /\ frame'[u].want = frame[u].want
      BY <2>2, <1>4, <1>6
    <3>2. tensor'[y] = tensor[y]
      BY <3>1
    <3>3. QED
      BY <3>1, <3>2 DEF Data, StaticShape
  <2>3. QED
    BY <2>1, <2>2
<1>9. /\ PerThread(before)' /\ \A u \in Thread : before'[u] = [x \in Tensor |-> before'[u][x]]
      /\ \A u \in Thread \ {th} : before'[u] = before[u]
      /\ before'[th][r] = tensor'[r]
  BY DEF Data, Results, PerThread
<1>10. \A u \in Thread : Fine(frame'[u], pc'[u]) /\ Kept(u)'
  <2> TAKE u \in Thread
  <2>1. CASE u = th
    BY <2>1, <1>2, <1>3, <1>5, <1>9 DEF Kept, Fine, Expands
  <2>2. CASE u # th
    <3>1. frame'[u] = frame[u] /\ pc'[u] = pc[u] /\ before'[u] = before[u]
      BY <2>2, <1>4, <1>9
    <3>2. Fine(frame[u], pc[u]) /\ Kept(u)
      BY DEF Data, Results
    <3>3. \A x \in Range(frame[u].rets) : tensor'[x] = tensor[x]
      BY <1>6
    <3>4. QED
      BY <3>1, <3>2, <3>3 DEF Kept
  <2>3. QED
    BY <2>1, <2>2
<1>11. QED
  BY <1>7, <1>8, <1>9, <1>10 DEF Data, Results

LEMMA newExpandNewData ==
  ASSUME Control, Data, NEW th \in Thread, newExpandNew(th)
  PROVE  Data'
<1> DEFINE f == frame[th]
<1>1. /\ pc[th] = "new" /\ f.op = "newExpand" /\ Fine(f, "new")
      /\ UNCHANGED <<held, calm>> /\ pc' = [pc EXCEPT ![th] = "check"]
  BY ControlAt DEF newExpandNew, Goto, Data, Results
<1>2. PICK r \in Tensor \ (held \cup Private) :
        /\ frame' = [frame EXCEPT ![th].rets = <<r>>]
        /\ tensor' = [tensor EXCEPT ![r] = NewTensor]
        /\ before' = [before EXCEPT ![th][r] = NewTensor]
  BY DEF newExpandNew
<1>3. tensor = [u \in Tensor |-> tensor[u]]
  BY DEF Data, Results
<1>4. /\ tensor' = [u \in Tensor |-> tensor'[u]] /\ tensor'[r] = NewTensor
      /\ \A u \in Tensor \ {r} : tensor'[u] = tensor[u]
  BY <1>2, <1>3
<1>5. PerThread(calm)' /\ \A u \in Thread : calm'[u] \in BOOLEAN /\ (calm'[u] => calm[u])
  BY <1>1 DEF Data, Results, PerThread
<1>6. before' = [before EXCEPT ![th][r] = tensor'[r]]
  BY <1>2, <1>4
<1>7. Creates(f) /\ f.op # "expand2d" /\ Fine(f, "check")
  BY <1>1 DEF Creates, Fine
<1>8. QED
  BY <1>1, <1>2, <1>4, <1>5, <1>6, <1>7, CreateData

LEMMA newSizedData ==
  ASSUME Control, Data, NEW th \in Thread, NEW size, NEW p, Creates(frame[th]),
         newSized(th, size), pc' = [pc EXCEPT ![th] = p], held' = held, Fine(frame[th], p),
         frame[th].op = "expand2d" => size = frame[th].want
  PROVE  Data'
<1>1. PICK r \in Tensor \ (held \cup Private) :
        /\ Change(th, r, Sized(size))
        /\ frame' = [frame EXCEPT ![th].rets = <<r>>]
        /\ before' = [before EXCEPT ![th][r] = tensor'[r]]
  BY DEF newSized
<1>2. /\ tensor' = [u \in Tensor |-> tensor'[u]]
      /\ \A u \in Tensor \ {r} : tensor'[u] = tensor[u]
      /\ PerThread(calm)' /\ \A u \in Thread : calm'[u] \in BOOLEAN /\ (calm'[u] => calm[u])
  BY <1>1, ChangeFacts
<1>3. Sized(size) = [size |-> size, stride |-> Contiguous(size), storage |-> NoObj, offset |-> 0]
  BY DEF Sized
<1>4. tensor'[r].size = size
  <2> DEFINE stride == Contiguous(size)
  <2> HIDE DEF stride
  <2>1. Change(th, r, [size |-> size, stride |-> stride, storage |-> NoObj, offset |-> 0])
    BY <1>1, <1>3 DEF stride
  <2>2. QED
    BY <2>1, ChangeSize
<1>5. QED
  BY <1>1, <1>2, <1>4, CreateData

LEMMA createsData ==
  ASSUME Control, Data, NEW th \in Thread, expand2dNew(th) \/ withEmptyNew(th)
  PROVE  Data'
<1> DEFINE f == frame[th]
<1>1. pc[th] = "new" /\ Fine(f, "new") /\ held' = held
  BY ControlAt DEF expand2dNew, withEmptyNew, Data, Results
<1>2. CASE expand2dNew(th)
  <2>1. /\ f.op = "expand2d" /\ newSized(th, f.want) /\ pc' = [pc EXCEPT ![th] = "check"]
    BY <1>2 DEF expand2dNew, Goto
  <2>2. Creates(f) /\ Fine(f, "check")
    BY <1>1, <2>1 DEF Creates, Fine
  <2>3. QED
    BY <1>1, <2>1, <2>2, newSizedData
<1>3. CASE withEmptyNew(th)
  <2>1. /\ f.op = "withEmpty" /\ newSized(th, f.read) /\ pc' = [pc EXCEPT ![th] = "done"]
    BY <1>3 DEF withEmptyNew, Goto
  <2>2. Creates(f) /\ Fine(f, "done") /\ f.op # "expand2d"
    BY <1>1, <2>1 DEF Creates, Fine, Expands
  <2>3. QED
    BY <1>1, <2>1, <2>2, newSizedData
<1>4. QED
  BY <1>2, <1>3

LEMMA BeginData ==
  ASSUME Control, Data, NEW th \in Thread, Begin(th)
  PROVE  Data'
<1>1. PICK c \in CallsOf[th] :
        /\ Range(c.rets) \cup Range(c.ops) \subseteq held
        /\ frame' = [frame EXCEPT ![th] = [Idle EXCEPT !.op = c.op, !.rets = c.rets,
                                                       !.ops = c.ops, !.want = c.want]]
        /\ pc' = [pc EXCEPT ![th] = Entry(c.op)]
  BY DEF Begin, Goto
<1> DEFINE g == [Idle EXCEPT !.op = c.op, !.rets = c.rets, !.ops = c.ops, !.want = c.want]
<1>2. /\ g.op = c.op /\ g.rets = c.rets /\ g.ops = c.ops /\ g.want = c.want /\ g.failed = "no"
      /\ c.op \in {"newExpand", "expand2d", "withEmpty"} => c.rets = <<>>
  BY CallFacts
<1>3. PerThread(frame) /\ PerThread(pc) /\ PerThread(calm) /\ PerThread(before)
  BY DEF Control, Data, Results
<1>4. /\ frame'[th] = g /\ before'[th] = tensor /\ calm'[th] = TRUE
      /\ \A u \in Thread \ {th} : /\ frame'[u] = frame[u] /\ pc'[u] = pc[u]
                                  /\ calm'[u] = calm[u] /\ before'[u] = before[u]
      /\ PerThread(calm)' /\ PerThread(before)'
      /\ UNCHANGED <<tensor, held>>
  BY <1>1, <1>3 DEF Begin, PerThread
<1> HIDE DEF g
<1>5. Creates(g) => Range(g.rets) = {}
  BY <1>2 DEF Creates, Range
<1>6. Ownership'
  <2>1. \A u \in Thread : Owned(u)'
    <3> TAKE u \in Thread
    <3>1. CASE u = th
      BY <3>1, <1>1, <1>2, <1>4, <1>5 DEF Owned
    <3>2. CASE u # th
      BY <3>2, <1>4 DEF Data, Ownership, Owned, Creates
    <3>3. QED
      BY <3>1, <3>2
  <2>2. \A u, v \in Thread : u # v => Apart(u, v)'
    <3> SUFFICES ASSUME NEW u \in Thread, NEW v \in Thread, u # v
                 PROVE  Apart(u, v)'
      OBVIOUS
    <3>1. CASE u # th /\ v # th
      BY <3>1, <1>4 DEF Data, Ownership, Apart, Creates
    <3>2. CASE u = th \/ v = th
      BY <3>2, <1>4, <1>5 DEF Apart
    <3>3. QED
      BY <3>1, <3>2
  <2>3. QED
    BY <2>1, <2>2, <1>4 DEF Data, Ownership
<1>7. StaticShape'
  <2> SUFFICES ASSUME NEW u \in Thread, frame'[u].op = "expand2d", NEW y \in Range(frame'[u].rets)
               PROVE  tensor'[y].size = frame'[u].want
    BY DEF StaticShape
  <2>1. u # th
    BY <1>4, <1>5 DEF Creates
  <2>2. QED
    BY <2>1, <1>4 DEF Data, StaticShape
<1>8. Results'
  <2>1. \A u \in Thread : Fine(frame'[u], pc'[u]) /\ Kept(u)'
    <3> TAKE u \in Thread
    <3>1. CASE u = th
      BY <3>1, <1>2, <1>4 DEF Kept, Fine
    <3>2. CASE u # th
      <4>1. /\ frame'[u] = frame[u] /\ pc'[u] = pc[u] /\ calm'[u] = calm[u]
            /\ before'[u] = before[u] /\ tensor' = tensor
        BY <3>2, <1>4
      <4>2. Fine(frame[u], pc[u]) /\ Kept(u)
        BY DEF Data, Results
      <4>3. QED
        BY <4>1, <4>2 DEF Kept
    <3>3. QED
      BY <3>1, <3>2
  <2>2. \A u \in Thread : /\ before'[u] = [x \in Tensor |-> before'[u][x]]
                          /\ calm'[u] \in BOOLEAN
    BY <1>4 DEF Data, Results
  <2>3. QED
    BY <1>4, <2>1, <2>2 DEF Data, Results
<1>9. QED
  BY <1>6, <1>7, <1>8 DEF Data

LEMMA ReturnData ==
  ASSUME Control, Data, NEW th \in Thread, Return(th)
  PROVE  Data'
<1>1. PerThread(frame) /\ PerThread(pc)
  BY DEF Control
<1>2. /\ frame'[th] = Idle
      /\ \A u \in Thread \ {th} : frame'[u] = frame[u] /\ pc'[u] = pc[u]
      /\ UNCHANGED <<tensor, calm, before>>
      /\ held' = held \cup Range(frame[th].rets)
  BY <1>1 DEF Return, Goto, PerThread, mem
<1>3. /\ Range(Idle.rets) = {} /\ Range(Idle.ops) = {} /\ Idle.op = "none" /\ Idle.failed = "no"
  BY DEF Idle, Range
<1>4. Range(frame[th].rets) \subseteq Tensor
  BY DEF Control, Locals, Range
<1>5. Ownership'
  <2>1. \A u \in Thread : Owned(u)'
    <3> TAKE u \in Thread
    <3>1. CASE u = th
      BY <3>1, <1>2, <1>3 DEF Owned
    <3>2. CASE u # th
      <4>1. Owned(u) /\ Owned(th) /\ Apart(u, th)
        BY <3>2 DEF Data, Ownership
      <4>2. frame'[u] = frame[u]
        BY <3>2, <1>2
      <4>3. CASE Creates(frame[th])
        BY <4>1, <4>2, <4>3, <1>2 DEF Owned, Apart, Creates
      <4>4. CASE ~Creates(frame[th])
        BY <4>1, <4>2, <4>4, <1>2 DEF Owned, Creates
      <4>5. QED
        BY <4>3, <4>4
    <3>3. QED
      BY <3>1, <3>2
  <2>2. \A u, v \in Thread : u # v => Apart(u, v)'
    <3> SUFFICES ASSUME NEW u \in Thread, NEW v \in Thread, u # v
                 PROVE  Apart(u, v)'
      OBVIOUS
    <3>1. CASE u # th /\ v # th
      BY <3>1, <1>2 DEF Data, Ownership, Apart, Creates
    <3>2. CASE u = th \/ v = th
      BY <3>2, <1>2, <1>3 DEF Apart
    <3>3. QED
      BY <3>1, <3>2
  <2>3. QED
    BY <2>1, <2>2, <1>2, <1>4 DEF Data, Ownership
<1>6. StaticShape'
  BY <1>2, <1>3 DEF Data, StaticShape
<1>7. Results'
  <2>1. \A u \in Thread : Fine(frame'[u], pc'[u]) /\ Kept(u)'
    <3> TAKE u \in Thread
    <3>1. CASE u = th
      BY <3>1, <1>2, <1>3 DEF Kept, Fine, MayFail, Expands
    <3>2. CASE u # th
      BY <3>2, <1>2 DEF Kept, Data, Results
    <3>3. QED
      BY <3>1, <3>2
  <2>2. QED
    BY <1>2, <2>1 DEF Data, Results, PerThread
<1>8. QED
  BY <1>5, <1>6, <1>7 DEF Data

LEMMA InitData == Init => Data
<1> SUFFICES ASSUME Init PROVE Data
  OBVIOUS
<1>1. tensor \in [Tensor -> AllTensors] /\ held \subseteq Tensor
  BY StartOK DEF Init
<1>2. \A th \in Thread : /\ frame[th] = Idle /\ before[th] = tensor /\ calm[th] = TRUE
                         /\ Idle.op = "none" /\ Idle.failed = "no" /\ Range(Idle.rets) = {} /\ Range(Idle.ops) = {}
  BY DEF Init, Idle, Range
<1>3. Ownership /\ StaticShape
  BY <1>1, <1>2 DEF Ownership, Owned, Apart, Creates, StaticShape
<1>4. PerThread(before) /\ PerThread(calm)
  BY DEF Init, PerThread
<1>5. Results
  BY <1>1, <1>2, <1>4 DEF Results, Kept, Fine, MayFail, Expands
<1>6. QED
  BY <1>3, <1>5 DEF Data

LEMMA NextData == Control /\ Data /\ [Next]_vars => Data'
<1> SUFFICES ASSUME Control, Data, [Next]_vars PROVE Data'
  OBVIOUS
<1>1. CASE UNCHANGED vars
  BY <1>1 DEF vars, Data, Ownership, Owned, Apart, Creates, StaticShape, Results, PerThread,
              Kept, MayFail, Fine, Expands
<1>2. ASSUME NEW th \in Thread, Begin(th) \/ Continue(th)
      PROVE  Data'
  BY <1>2, NextCases, BeginData, newExpandNewData, expandCheckQuiet, expandReadsQuiet,
     expandInferQuiet,
     expandSetData, expandFreeQuiet, expandNdQuiet, createsData, readsQuiet, resizeDimData,
     ReturnData, QuietData
<1>3. QED
  BY <1>1, <1>2 DEF Next

\* Nobody but a creating call has its result, and no call changes another's
\* tensors unnoticed.
THEOREM DataInvariant == Spec => []Data
<1>1. Init => Control /\ Data
  BY InitControl, InitData
<1>2. Control /\ Data /\ [Next]_vars => (Control /\ Data)'
  BY NextControl, NextData
<1>3. QED
  BY <1>1, <1>2, PTL DEF Spec

\* The result of expand2d has its static sizes from its beginning, for any
\* number of threads that resize what they hold meanwhile.
THEOREM StaticShapeHolds == Spec => []StaticShape
<1>1. Data => StaticShape
  BY DEF Data
<1>2. QED
  BY <1>1, DataInvariant, PTL

\* A failed expand leaves its result as it was.
THEOREM ErrorPathHolds == Spec => []ErrorPath
<1>1. Control /\ Data => ErrorPath
  <2> SUFFICES ASSUME Control, Data, NEW th \in Thread, Failed(th), frame[th].op # "_expandNd",
                      calm[th], NEW r \in Range(frame[th].rets)
               PROVE  tensor[r] = before[th][r]
    BY DEF ErrorPath
  <2>1. CASE Expands(frame[th])
    BY <2>1 DEF Data, Results, Kept, MayFail, Failed
  <2>2. CASE ~Expands(frame[th])
    BY <2>2 DEF Data, Results, Fine, Failed
  <2>3. QED
    BY <2>1, <2>2
<1>2. QED
  BY <1>1, ControlInvariant, DataInvariant, PTL
=============================================================================
