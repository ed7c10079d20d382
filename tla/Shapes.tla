------------------------------- MODULE Shapes -------------------------------
(***************************************************************************)
(* The sizes of tensors: how calls read them, and the views with other     *)
(* sizes that expand makes.                                                *)
(*                                                                         *)
(* raw/th/cbits/expand_polyfill.c adds newExpand, expand and expandNd to   *)
(* the C library, once per element type from one template; elt is the type *)
(* whose copy the program uses.  raw/thc/cbits/expand_template.c is the    *)
(* copy for CUDA.                                                          *)
(*                                                                         *)
(* The C functions are not atomic.  Sizes live in an array that a tensor   *)
(* points to; the calls are safe foreign calls, so another thread may      *)
(* resize the tensor between the steps that read them, and when its rank   *)
(* changes the array moves.  What is read as arguments of one call of the  *)
(* C library is read in one step, each round of a loop is a step.  A       *)
(* failed check calls an error handler: the C library's own ends the       *)
(* process; the one of vendor/error_handler.cpp prints and returns, and C  *)
(* goes on.                                                                *)
(*                                                                         *)
(* Tensors are never freed here: TensorMemory is about that.               *)
(***************************************************************************)
EXTENDS Integers, Sequences, Functions, FiniteSetsExt

CONSTANTS
  Thread,    \* Haskell threads
  Tensor,    \* C tensors; bound: how many a run has
  Storage,   \* C storages; bound: likewise
  NoObj,     \* no storage: the null pointer
  Start,     \* how the program may start: element type, handler, its tensors
  CallsOf,   \* per thread: the calls that it may make
  MaxCalls,  \* bound: how many a thread makes
  Junk       \* bound: the sizes that a read of a freed array gives

\* The element types of the copies, in the order of the source.
ElementType == {"Byte", "Char", "Short", "Int", "Long", "Half", "Float",
                "Double", "Cuda"}

Handler == {"exit", "return"}

\* Lists of sizes; bound: five dimensions, where Haskell's new and resize end.
SizeList == {size \in Seq(Nat \ {0}) : Len(size) <= 5}

One == {<<t>> : t \in Tensor}

\* The operations, with the tensors they write, those they read, and the sizes
\* they are given.
Call ==
  [op : {"newExpand"}, rets : {<<>>}, ops : One, want : SizeList]
    \cup
  [op : {"_expand"}, rets : One, ops : One, want : SizeList]
    \cup
  [op : {"expand2d"}, rets : {<<>>}, ops : One, want : {w \in SizeList : Len(w) = 2}]
    \cup
  {c \in [op : {"_expandNd"}, rets : Seq(Tensor), ops : Seq(Tensor), want : {<<>>}] :
     Len(c.rets) = Len(c.ops) /\ c.ops # <<>>}
    \cup
  [op : {"withEmpty"}, rets : {<<>>}, ops : One, want : {<<>>}]
    \cup
  [op : {"tensordata"}, rets : {<<>>}, ops : One, want : {<<>>}]
    \cup
  [op : {"_resizeDim"}, rets : One, ops : {<<>>}, want : SizeList]
    \cup
  [op : {"resize"}, rets : {<<>>}, ops : One, want : {w \in SizeList : Len(w) = 1}]

\* What expand and expandNd allocate besides tensors.
Temp == {"sizes", "expandedSizes", "expandedStrides"}

AllTensors ==
  [size : SizeList, stride : Seq(Nat), storage : Storage \cup {NoObj}, offset : Nat]

ASSUME StartOK ==
  \A start \in Start :
    /\ start.elt \in ElementType /\ start.handler \in Handler
    /\ start.tensor \in [Tensor -> AllTensors] /\ start.held \subseteq Tensor
    /\ start.cap \in [Storage -> Nat]
    /\ \A t \in Tensor : Len(start.tensor[t].stride) = Len(start.tensor[t].size)

ASSUME ConstantsOK ==
  /\ \A th \in Thread : CallsOf[th] \subseteq Call
  /\ MaxCalls \in Nat
  /\ Junk \subseteq Nat \ {0}
  /\ NoObj \notin Storage

VARIABLES
  elt,      \* the element type of the program
  handler,  \* what C's error handlers do
  exited,   \* the process has ended
  tensor,   \* per tensor: sizes, strides, storage and offset
  cap,      \* per storage: the elements it has room for, 0 before it is made
  held,     \* the tensors that the program has
  pc,       \* per thread: where it is in its call
  frame,    \* per thread: the locals of that call
  temp,     \* per thread: how often it owns each temporary of C
  moved,    \* per thread: positions of operands to whose sizes its pointer dangles
  calm,     \* per thread: no other thread has changed the tensors of its call
  before,   \* per thread: the tensors when its call began, or when it made them
  calls     \* per thread: the calls it has begun

mem  == <<tensor, cap, calm, moved>>
vars == <<elt, handler, exited, tensor, cap, held, pc, frame, temp, moved,
          calm, before, calls>>

PC == {"idle", "new", "check", "rank", "geometry", "infer", "args", "set", "free",
       "ndCheck", "ndTake", "ndInfer", "ndFree", "dims", "size",
       "storage", "length", "data", "peek", "capacity", "resize", "done"}

-----------------------------------------------------------------------------
(***************************************************************************)
(* Sizes and strides.  A dimension of size one has stride zero here: its   *)
(* stride reaches nothing.                                                 *)
(***************************************************************************)
Times(m, n) == m * n

Contiguous(size) ==
  [d \in 1 .. Len(size) |->
     IF size[d] = 1 THEN 0 ELSE FoldFunctionOnSet(Times, 1, size, d + 1 .. Len(size))]

\* One more than the last element of the storage that x reaches.
Extent(x) ==
  IF x.size = <<>> THEN 0
  ELSE 1 + x.offset + SumFunction([d \in 1 .. Len(x.size) |-> (x.size[d] - 1) * x.stride[d]])

\* The k-th entry from the right, and e beyond the left end.
FromRight(list, k, e) == IF k <= Len(list) THEN list[Len(list) + 1 - k] ELSE e

\* inferExpandGeometry: every size is the wanted one, or one and repeated.
Expandable(size, want) ==
  \A k \in 1 .. Len(want) : FromRight(size, k, 1) \in {1, FromRight(want, k, 1)}

ExpandedStride(x, want) ==
  [d \in 1 .. Len(want) |->
     LET k == Len(want) + 1 - d
     IN  IF FromRight(x.size, k, 1) = 1 THEN 0 ELSE FromRight(x.stride, k, 0)]

\* inferSizeN: in every dimension the size of the first list that has more than one
\* there, with which those of the others must agree.
CommonSize(lists) ==
  LET rank == Max({Len(lists[j]) : j \in DOMAIN lists})
      FirstSize(k) == LET more == {j \in DOMAIN lists : FromRight(lists[j], k, 1) # 1}
                      IN  IF more = {} THEN 1 ELSE FromRight(lists[Min(more)], k, 1)
  IN  [d \in 1 .. rank |-> FirstSize(rank + 1 - d)]

\* Seeded fault: the last list is not looked at.
AgreeButLast(lists) ==
  \A j \in DOMAIN lists : j < Len(lists) => Expandable(lists[j], CommonSize(lists))

Agree(lists) == \A j \in DOMAIN lists : Expandable(lists[j], CommonSize(lists))

NewTensor == [size |-> <<>>, stride |-> <<>>, storage |-> NoObj, offset |-> 0]

Sized(size) ==
  [size |-> size, stride |-> Contiguous(size), storage |-> NoObj, offset |-> 0]

-----------------------------------------------------------------------------
Idle == [op |-> "none", rets |-> <<>>, ops |-> <<>>, want |-> <<>>, i |-> 1,
         stride |-> <<>>, read |-> <<>>, limit |-> 0, storage |-> NoObj, offset |-> 0,
         failed |-> "no"]

Init ==
  /\ \E start \in Start :
       /\ elt = start.elt
       /\ handler = start.handler
       /\ tensor = start.tensor
       /\ cap = start.cap
       /\ held = start.held
  /\ exited = FALSE
  /\ pc = [th \in Thread |-> "idle"]
  /\ frame = [th \in Thread |-> Idle]
  /\ temp = [th \in Thread |-> [x \in Temp |-> 0]]
  /\ moved = [th \in Thread |-> {}]
  /\ calm = [th \in Thread |-> TRUE]
  /\ before = [th \in Thread |-> tensor]
  /\ calls = [th \in Thread |-> 0]

At(th, p) == ~exited /\ pc[th] = p

Goto(th, p) == pc' = [pc EXCEPT ![th] = p]

Uses(th) == Range(frame[th].rets) \cup Range(frame[th].ops)

\* Tensors that calls have made and not yet returned.
Private == UNION {Range(frame[th].rets) : th \in Thread}

\* Which of the unused storages is allocated does not matter.
FreshStorage == CHOOSE s \in Storage : cap[s] = 0

\* C changes the tensor t to x.  When sizes or strides are new to t it makes sure
\* of a storage with room for them (bound: as long as one is unused).  A change of
\* its rank reallocates the array of its sizes.
Change(th, t, x) ==
  /\ IF x.size # <<>> /\ <<x.size, x.stride>> # <<tensor[t].size, tensor[t].stride>>
     THEN LET s == IF x.storage # NoObj THEN x.storage ELSE FreshStorage
          IN  /\ x.storage = NoObj => \E unused \in Storage : cap[unused] = 0
              /\ tensor' = [tensor EXCEPT ![t] = [x EXCEPT !.storage = s]]
              /\ cap' = [cap EXCEPT ![s] = Max({@, Extent(x)})]
     ELSE tensor' = [tensor EXCEPT ![t] = x] /\ UNCHANGED cap
  /\ calm' = [u \in Thread |-> calm[u] /\ (u = th \/ t \notin Uses(u))]
  /\ moved' = [u \in Thread |->
                 IF pc[u] \in {"infer", "ndTake", "ndInfer"} /\ Len(x.size) # Len(tensor[t].size)
                 THEN moved[u] \cup {j \in DOMAIN frame[u].ops : frame[u].ops[j] = t}
                 ELSE moved[u]]

\* A check that failed reports to the handler, which ends the process or returns
\* to the function f in which it failed, at p.
Error(th, f, p) ==
  IF handler = "exit"
  THEN exited' = TRUE /\ UNCHANGED <<pc, frame>>
  ELSE frame' = [frame EXCEPT ![th] = f] /\ Goto(th, p) /\ UNCHANGED exited

-----------------------------------------------------------------------------
(***************************************************************************)
(* The C functions of expand_polyfill.c, here in the copy for Byte.        *)
(***************************************************************************)

\* newExpand: the result begins as an empty tensor.
newExpandNew(th) ==
  /\ At(th, "new") /\ frame[th].op = "newExpand"
  /\ \E r \in Tensor \ (held \cup Private) :
       /\ frame' = [frame EXCEPT ![th].rets = <<r>>]
       /\ tensor' = [tensor EXCEPT ![r] = NewTensor]
       /\ before' = [before EXCEPT ![th][r] = NewTensor]
  /\ Goto(th, "check")
  /\ UNCHANGED <<elt, handler, exited, cap, held, temp, moved, calm, calls>>

\* The tensor that expand is at, and the frame and place after it returns: the
\* loop of expandNd goes on with the next one.
Source(th) == frame[th].ops[frame[th].i]
Target(th) == frame[th].rets[frame[th].i]

\* Seeded faults: after its return, expand frees again; expandNd does not free.
AfterExpandFreesAgain(f) ==
  IF f.op # "_expandNd" THEN "free" ELSE IF f.i < Len(f.ops) THEN "check" ELSE "ndFree"
AfterExpandNoFree(f) == IF f.op = "_expandNd" /\ f.i < Len(f.ops) THEN "check" ELSE "done"

AfterExpand(f) ==
  IF f.op # "_expandNd" THEN "done"
  ELSE IF f.i < Len(f.ops) THEN "check" ELSE "ndFree"

\* Seeded fault: the loop does not advance.
NextOpSame(f) == f.i

NextOp(f) == IF f.op = "_expandNd" /\ f.i < Len(f.ops) THEN f.i + 1 ELSE f.i

\* expand: the first check of the arguments,
expandCheck(th) ==
  /\ At(th, "check")
  /\ IF tensor[Source(th)].size # <<>>
     THEN Goto(th, "rank") /\ UNCHANGED <<frame, exited>>
     ELSE Error(th, [frame[th] EXCEPT !.failed = "arg"], "rank")
  /\ UNCHANGED <<mem, elt, handler, held, temp, before, calls>>

\* and the second, which asks for the rank again.
expandCheckSizes(th) ==
  /\ At(th, "rank")
  /\ IF Len(frame[th].want) >= Len(tensor[Source(th)].size)
     THEN Goto(th, "geometry") /\ UNCHANGED <<frame, exited>>
     ELSE Error(th, [frame[th] EXCEPT !.failed = "arg"], "geometry")
  /\ UNCHANGED <<mem, elt, handler, held, temp, before, calls>>

\* expand: inferExpandGeometry gets pointers to the sizes and strides, and the rank.
expandGeometry(th) ==
  /\ At(th, "geometry")
  /\ frame' = [frame EXCEPT ![th].limit = Len(tensor[Source(th)].size)]
  /\ moved' = [moved EXCEPT ![th] = {}]
  /\ Goto(th, "infer")
  /\ UNCHANGED <<elt, handler, exited, tensor, cap, held, temp, calm, before, calls>>

\* What it finds at these pointers.
GeometryAt(th) ==
  LET x == tensor[Source(th)]
  IN  IF frame[th].i \in moved[th]
      THEN [size : [1 .. frame[th].limit -> Junk], stride : [1 .. frame[th].limit -> Junk]]
      ELSE {[size |-> x.size, stride |-> x.stride]}

\* Seeded fault: expand goes on after the error.
expandInferNoReturn(th) ==
  /\ At(th, "infer")
  /\ \E x \in GeometryAt(th) :
       /\ temp' = [temp EXCEPT ![th].expandedSizes = @ + 1, ![th].expandedStrides = @ + 1]
       /\ Error(th, [frame[th] EXCEPT !.failed = "infer",
                                      !.stride = ExpandedStride(x, frame[th].want)], "args")
  /\ UNCHANGED <<mem, elt, handler, held, before, calls>>

\* expand: inferExpandGeometry allocates the new sizes and strides, or frees them
\* again and fails, and then expand returns.
expandInfer(th) ==
  /\ At(th, "infer")
  /\ LET f == frame[th]
     IN  \E x \in GeometryAt(th) :
           IF Expandable(x.size, f.want)
           THEN /\ frame' = [frame EXCEPT ![th].stride = ExpandedStride(x, f.want)]
                /\ temp' = [temp EXCEPT ![th].expandedSizes = @ + 1,
                                        ![th].expandedStrides = @ + 1]
                /\ Goto(th, "args") /\ UNCHANGED exited
           ELSE /\ Error(th, [f EXCEPT !.failed = "infer", !.i = NextOp(f)], AfterExpand(f))
                /\ UNCHANGED temp
  /\ UNCHANGED <<mem, elt, handler, held, before, calls>>

\* expand: setStorageNd gets the storage and the offset that the tensor has by now.
expandArgs(th) ==
  /\ At(th, "args")
  /\ LET x == tensor[Source(th)]
     IN  frame' = [frame EXCEPT ![th].storage = x.storage, ![th].offset = x.offset]
  /\ Goto(th, "set")
  /\ UNCHANGED <<mem, elt, handler, exited, held, temp, before, calls>>

\* The tensor that setStorageNd makes of the result.
\* Seeded faults: no offset; no strides.
ViewNoOffset(th) ==
  [size |-> frame[th].want, stride |-> frame[th].stride,
   storage |-> frame[th].storage, offset |-> 0]
ViewNoStrides(th) ==
  [size |-> frame[th].want, stride |-> Contiguous(frame[th].want),
   storage |-> frame[th].storage, offset |-> frame[th].offset]

View(th) ==
  [size |-> frame[th].want, stride |-> frame[th].stride,
   storage |-> frame[th].storage, offset |-> frame[th].offset]

\* expand: the result becomes a view of the tensor's storage.
expandSet(th) ==
  /\ At(th, "set")
  /\ Change(th, Target(th), View(th))
  /\ Goto(th, "free")
  /\ UNCHANGED <<elt, handler, exited, held, frame, temp, before, calls>>

expandFree(th) ==
  /\ At(th, "free")
  /\ temp' = [temp EXCEPT ![th].expandedSizes = @ - 1, ![th].expandedStrides = @ - 1]
  /\ frame' = [frame EXCEPT ![th].i = NextOp(frame[th])]
  /\ Goto(th, AfterExpand(frame[th]))
  /\ UNCHANGED <<mem, elt, handler, exited, held, before, calls>>

\* The loops of expandNd before its last: the operand of the next round.
NextRound(f) == IF f.i < Len(f.ops) THEN f.i + 1 ELSE 1

\* expandNd: no tensor may be empty.
expandNdCheck(th) ==
  /\ At(th, "ndCheck")
  /\ LET f == [frame[th] EXCEPT !.i = NextRound(frame[th])]
         p == IF frame[th].i < Len(f.ops) THEN "ndCheck" ELSE "ndTake"
     IN  IF tensor[Source(th)].size # <<>>
         THEN frame' = [frame EXCEPT ![th] = f] /\ Goto(th, p) /\ UNCHANGED exited
         ELSE Error(th, [f EXCEPT !.failed = "arg"], p)
  /\ UNCHANGED <<mem, elt, handler, held, temp, before, calls>>

\* expandNd: the pointer to the sizes and the rank of each are copied; after the
\* last one the common sizes are allocated.
expandNdTake(th) ==
  /\ At(th, "ndTake")
  /\ LET f == frame[th]
     IN  /\ frame' = [frame EXCEPT ![th].read = Append(@, Len(tensor[Source(th)].size)),
                                   ![th].i = NextRound(f)]
         /\ moved' = [moved EXCEPT ![th] = @ \ {f.i}]
         /\ IF f.i < Len(f.ops) THEN Goto(th, "ndTake") /\ UNCHANGED temp
            ELSE Goto(th, "ndInfer") /\ temp' = [temp EXCEPT ![th].sizes = @ + 1]
  /\ UNCHANGED <<elt, handler, exited, tensor, cap, held, calm, before, calls>>

\* What expandNd finds at the copied pointers.
SizesAt(th) ==
  {lists \in [DOMAIN frame[th].ops -> {tensor[t].size : t \in Range(frame[th].ops)}
                                        \cup UNION {[1 .. n -> Junk] : n \in Range(frame[th].read)}] :
     \A j \in DOMAIN lists :
       IF j \in moved[th] THEN lists[j] \in [1 .. frame[th].read[j] -> Junk]
       ELSE lists[j] = tensor[frame[th].ops[j]].size}

\* expandNd: inferSizeN finds the common sizes, or expandNd frees and returns.
expandNdInfer(th) ==
  /\ At(th, "ndInfer")
  /\ \E lists \in SizesAt(th) :
       IF Agree(lists)
       THEN /\ frame' = [frame EXCEPT ![th].want = CommonSize(lists), ![th].i = 1]
            /\ Goto(th, "check")
            /\ UNCHANGED <<exited, temp>>
       ELSE /\ temp' = [temp EXCEPT ![th].sizes = @ - 1]
            /\ Error(th, [frame[th] EXCEPT !.failed = "infer"], "done")
  /\ UNCHANGED <<mem, elt, handler, held, before, calls>>

expandNdFree(th) ==
  /\ At(th, "ndFree")
  /\ temp' = [temp EXCEPT ![th].sizes = @ - 1]
  /\ Goto(th, "done")
  /\ UNCHANGED <<mem, elt, handler, exited, held, frame, before, calls>>

expandSteps(th) ==
  \/ expandCheck(th) \/ expandCheckSizes(th) \/ expandGeometry(th) \/ expandInfer(th)
  \/ expandArgs(th) \/ expandSet(th) \/ expandFree(th)

expandNdSteps(th) ==
  expandNdCheck(th) \/ expandNdTake(th) \/ expandNdInfer(th) \/ expandNdFree(th)

Polyfill(th) == newExpandNew(th) \/ expandSteps(th) \/ expandNdSteps(th)

\* The copies for the element types.
ByteTensor(th)   == elt = "Byte" /\ Polyfill(th)
CharTensor(th)   == elt = "Char" /\ Polyfill(th)
ShortTensor(th)  == elt = "Short" /\ Polyfill(th)
IntTensor(th)    == elt = "Int" /\ Polyfill(th)
LongTensor(th)   == elt = "Long" /\ Polyfill(th)
HalfTensor(th)   == elt = "Half" /\ Polyfill(th)
FloatTensor(th)  == elt = "Float" /\ Polyfill(th)
DoubleTensor(th) == elt = "Double" /\ Polyfill(th)
CudaTensor(th)   == elt = "Cuda" /\ Polyfill(th)

-----------------------------------------------------------------------------
(***************************************************************************)
(* The Haskell side of the calls.                                          *)
(***************************************************************************)
Entry(op) ==
  CASE op \in {"newExpand", "expand2d"} -> "new"
    [] op = "_expand"    -> "check"
    [] op = "_expandNd"  -> "ndCheck"
    [] op = "withEmpty"  -> "dims"
    [] op \in {"tensordata", "resize"} -> "storage"
    [] op = "_resizeDim" -> "resize"

Begin(th) ==
  /\ At(th, "idle") /\ calls[th] < MaxCalls
  /\ \E c \in CallsOf[th] :
       /\ Range(c.rets) \cup Range(c.ops) \subseteq held
       /\ frame' = [frame EXCEPT ![th] = [Idle EXCEPT !.op = c.op, !.rets = c.rets,
                                                      !.ops = c.ops, !.want = c.want]]
       /\ Goto(th, Entry(c.op))
  /\ calls' = [calls EXCEPT ![th] = @ + 1]
  /\ calm' = [calm EXCEPT ![th] = TRUE]
  /\ before' = [before EXCEPT ![th] = tensor]
  /\ moved' = [moved EXCEPT ![th] = {}]
  /\ UNCHANGED <<elt, handler, exited, tensor, cap, held, temp>>

\* new: a result with these sizes, and a storage of its own if there are any.
newSized(th, size) ==
  \E r \in Tensor \ (held \cup Private) :
    /\ Change(th, r, Sized(size))
    /\ frame' = [frame EXCEPT ![th].rets = <<r>>]
    /\ before' = [before EXCEPT ![th][r] = tensor'[r]]

\* Seeded fault: the result is made empty.
expand2dNewEmpty(th) ==
  /\ At(th, "new") /\ frame[th].op = "expand2d"
  /\ newSized(th, <<>>)
  /\ Goto(th, "check")
  /\ UNCHANGED <<elt, handler, exited, held, temp, calls>>

\* expand2d: the result has its static sizes before _expand is called.
expand2dNew(th) ==
  /\ At(th, "new") /\ frame[th].op = "expand2d"
  /\ newSized(th, frame[th].want)
  /\ Goto(th, "check")
  /\ UNCHANGED <<elt, handler, exited, held, temp, calls>>

\* Seeded fault: the dimensions are 0 .. nd.
RankNd(x) == Len(x.size) + 1

Rank(x) == Len(x.size)

\* getDims: the rank is read first,
getDimListRank(th) ==
  /\ At(th, "dims")
  /\ LET rank == Rank(tensor[Source(th)])
     IN  /\ frame' = [frame EXCEPT ![th].limit = rank]
         /\ Goto(th, IF rank = 0 THEN "new" ELSE "size")
  /\ UNCHANGED <<mem, elt, handler, exited, held, temp, before, calls>>

\* and then every size with a call of its own, which checks the dimension.
getDimListSize(th) ==
  /\ At(th, "size")
  /\ LET f    == frame[th]
         d    == Len(f.read) + 1
         size == tensor[Source(th)].size
         p    == IF d = f.limit THEN "new" ELSE "size"
     IN  IF d <= Len(size)
         THEN /\ frame' = [frame EXCEPT ![th].read = Append(@, size[d])]
              /\ Goto(th, p) /\ UNCHANGED exited
         ELSE \E n \in Junk :
                Error(th, [f EXCEPT !.read = Append(@, n), !.failed = "arg"], p)
  /\ UNCHANGED <<mem, elt, handler, held, temp, before, calls>>

\* withEmpty: the result is made with the sizes that were read.
withEmptyNew(th) ==
  /\ At(th, "new") /\ frame[th].op = "withEmpty"
  /\ newSized(th, frame[th].read)
  /\ Goto(th, "done")
  /\ UNCHANGED <<elt, handler, exited, held, temp, calls>>

\* The tensor's storage, by c_storage: of tensordata, or of the program that calls
\* storage and then resize.  An empty tensor has none, and the process ends at the
\* null pointer.
getStorage(th) ==
  /\ At(th, "storage")
  /\ LET s == tensor[Source(th)].storage
     IN  IF s = NoObj THEN exited' = TRUE /\ UNCHANGED <<pc, frame>>
         ELSE /\ frame' = [frame EXCEPT ![th].storage = s]
              /\ Goto(th, IF frame[th].op = "resize" THEN "capacity" ELSE "length")
              /\ UNCHANGED exited
  /\ UNCHANGED <<mem, elt, handler, held, temp, before, calls>>

\* tensordata: the length is that of the storage,
tensordataLength(th) ==
  /\ At(th, "length")
  /\ frame' = [frame EXCEPT ![th].read = <<cap[frame[th].storage]>>]
  /\ Goto(th, "data")
  /\ UNCHANGED <<mem, elt, handler, exited, held, temp, before, calls>>

\* the pointer comes after it, from the tensor and at its offset,
tensordataPointer(th) ==
  /\ At(th, "data")
  /\ LET x == tensor[Source(th)]
     IN  frame' = [frame EXCEPT ![th].storage = x.storage, ![th].offset = x.offset]
  /\ Goto(th, "peek")
  /\ UNCHANGED <<mem, elt, handler, exited, held, temp, before, calls>>

\* and what is there is read, whether it is inside the storage or not.
tensordataPeek(th) ==
  /\ At(th, "peek")
  /\ Goto(th, "done")
  /\ UNCHANGED <<mem, elt, handler, exited, held, frame, temp, before, calls>>

\* resize of a Storage: larger or smaller, whatever tensors are on it.
resize(th) ==
  /\ At(th, "capacity")
  /\ cap' = [cap EXCEPT ![frame[th].storage] = frame[th].want[1]]
  /\ Goto(th, "done")
  /\ UNCHANGED <<elt, handler, exited, tensor, held, frame, temp, moved, calm, before, calls>>

\* _resizeDim: Haskell throws for no sizes; C does nothing for those it has, and
\* otherwise makes the tensor contiguous on its storage.
resizeDim(th) ==
  /\ At(th, "resize")
  /\ LET x    == tensor[Target(th)]
         want == frame[th].want
     IN  IF want \in {<<>>, x.size} THEN UNCHANGED mem
         ELSE Change(th, Target(th), [x EXCEPT !.size = want, !.stride = Contiguous(want)])
  /\ Goto(th, "done")
  /\ UNCHANGED <<elt, handler, exited, held, frame, temp, before, calls>>

Return(th) ==
  /\ At(th, "done")
  /\ held' = held \cup Range(frame[th].rets)
  /\ frame' = [frame EXCEPT ![th] = Idle]
  /\ Goto(th, "idle")
  /\ UNCHANGED <<mem, elt, handler, exited, temp, before, calls>>

Tensors(th) ==
  \/ ByteTensor(th) \/ CharTensor(th) \/ ShortTensor(th) \/ IntTensor(th)
  \/ LongTensor(th) \/ HalfTensor(th) \/ FloatTensor(th) \/ DoubleTensor(th)
  \/ CudaTensor(th)

Continue(th) ==
  \/ Tensors(th) \/ expand2dNew(th)
  \/ getDimListRank(th) \/ getDimListSize(th) \/ withEmptyNew(th)
  \/ getStorage(th) \/ tensordataLength(th) \/ tensordataPointer(th) \/ tensordataPeek(th)
  \/ resize(th) \/ resizeDim(th) \/ Return(th)

Next == \E th \in Thread : Begin(th) \/ Continue(th)

\* C runs every call to its end, and the runtime schedules every thread.
Fairness == \A th \in Thread : WF_vars(Continue(th))

Spec == Init /\ [][Next]_vars /\ Fairness

-----------------------------------------------------------------------------
(***************************************************************************)
(* Properties.                                                             *)
(***************************************************************************)
Frames ==
  [op : {"none", "newExpand", "_expand", "expand2d", "_expandNd", "withEmpty",
         "tensordata", "resize", "_resizeDim"},
   rets : Seq(Tensor), ops : Seq(Tensor), want : SizeList, i : Nat \ {0},
   stride : Seq(Nat), read : Seq(Nat), limit : Nat, storage : Storage \cup {NoObj},
   offset : Nat,
   failed : {"no", "arg", "infer"}]

\* The variables have their types, and a tensor has a stride per size.
TypeOK ==
  /\ elt \in ElementType /\ handler \in Handler /\ exited \in BOOLEAN
  /\ tensor \in [Tensor -> AllTensors] /\ held \subseteq Tensor
  /\ \A t \in Tensor : Len(tensor[t].stride) = Len(tensor[t].size)
  /\ cap \in [Storage -> Nat]
  /\ pc \in [Thread -> PC] /\ frame \in [Thread -> Frames]
  /\ temp \in [Thread -> [Temp -> {0, 1}]]
  /\ moved \in [Thread -> SUBSET Nat] /\ calm \in [Thread -> BOOLEAN]
  /\ before \in [Thread -> [Tensor -> AllTensors]] /\ calls \in [Thread -> 0 .. MaxCalls]

\* Every path through expand and expandNd, those of failed checks included, frees
\* exactly what it has allocated, and has it for as long as C uses it (until the
\* process ends).
Temporaries ==
  ~exited => \A th \in Thread : \A x \in Temp :
    temp[th][x] = 1 <=> IF x = "sizes"
                        THEN /\ frame[th].op = "_expandNd"
                             /\ pc[th] \in {"ndInfer", "check", "rank", "geometry", "infer",
                                            "args", "set", "free", "ndFree"}
                        ELSE pc[th] \in {"args", "set", "free"}

Failed(th) == pc[th] = "done" /\ frame[th].failed = "infer"

\* An expand that failed and returned has left its result as it was, for newExpand
\* the empty tensor: what another thread shares with it is not half changed.
ErrorPath ==
  \A th \in Thread :
    Failed(th) /\ frame[th].op # "_expandNd" /\ calm[th] =>
      \A r \in Range(frame[th].rets) : tensor[r] = before[th][r]

\* expandNd changes all of its results or none: once the common sizes are found,
\* no expand of its loop fails, even when results are among the operands.
AllOrNothing ==
  \A th \in Thread :
    Failed(th) /\ frame[th].op = "_expandNd" /\ calm[th] =>
      \A r \in Range(frame[th].rets) : tensor[r] = before[th][r]

\* Where the storage has the element of x at a position, counted from 0.
Reach(x, pos) == x.offset + SumFunction([d \in DOMAIN pos |-> pos[d] * x.stride[d]])

Positions(size) ==
  {pos \in [DOMAIN size -> 0 .. Max(Range(size) \cup {0})] : \A d \in DOMAIN size : pos[d] < size[d]}

\* y shows x with the sizes want: its element at pos is x's at the position that
\* drops the dimensions x lacks and stays at 0 where x has one element.
ShowsExpanded(y, x, want) ==
  LET drop == Len(want) - Len(x.size)
  IN  /\ y.size = want /\ y.storage = x.storage
      /\ \A pos \in Positions(want) :
           Reach(y, pos) =
             Reach(x, [d \in DOMAIN x.size |-> IF x.size[d] = 1 THEN 0 ELSE pos[d + drop]])

\* What expand and its kin give back, when no check failed and no other thread
\* resized the tensors meanwhile, is a view that shows every operand expanded
\* (but for operands that were results before their turn, results set twice, and
\* operands to which an earlier call, after a failed check, gave sizes and no storage).
\* expand2d's too, although its comment speaks of a copy: see Expand2dCopies.
ExpandedView ==
  \A th \in Thread :
    LET f == frame[th]
    IN  pc[th] = "done" /\ f.failed = "no" /\ calm[th]
          /\ f.op \in {"newExpand", "_expand", "expand2d", "_expandNd"} =>
        \A j \in DOMAIN f.ops :
          \/ before[th][f.ops[j]].storage = NoObj
          \/ \E k \in 1 .. j - 1 : f.rets[k] = f.ops[j]
          \/ \E k \in j + 1 .. Len(f.ops) : f.rets[k] = f.rets[j]
          \/ ShowsExpanded(tensor[f.rets[j]], before[th][f.ops[j]], f.want)

\* Every element of x is in its storage.
InStorage(x) == x.storage # NoObj /\ Extent(x) <= cap[x.storage]

\* expand makes views: as long as no check failed and no thread interfered, no
\* storage grows to make room for what is shown of an operand that has its own.
ViewOnly ==
  [][\A th \in Thread : pc[th] = "set" /\ pc'[th] = "free" /\ calm[th]
                          /\ frame[th].failed = "no" /\ InStorage(tensor[Source(th)])
                          => cap' = cap]_vars

\* The type of expand2d's result tells the truth from when it is made: whatever
\* fails in between, and whatever other threads resize, it has these sizes.
StaticShape ==
  \A th \in Thread : frame[th].op = "expand2d" =>
    \A r \in Range(frame[th].rets) : tensor[r].size = frame[th].want

\* getDims reads a shape that the tensor has had: if no other thread resized the
\* operand, withEmpty's result has its sizes.
ReadShape ==
  \A th \in Thread : pc[th] = "done" /\ frame[th].op = "withEmpty" /\ calm[th] =>
    tensor[Target(th)].size = before[th][Source(th)].size

\* What the comment on expand2d says (classes/src/Torch/Class/Tensor/Static.hs:273):
\* it expands a vector by copying, so that its result is not on the vector's storage.
Expand2dCopies ==
  \A th \in Thread :
    pc[th] = "done" /\ frame[th].op = "expand2d" /\ frame[th].failed = "no" /\ calm[th] =>
      tensor[Target(th)].storage # before[th][Source(th)].storage

\* How many steps a call at p has before it at most: seven per expand, one per dimension.
StepsFrom(f, p) ==
  LET later == IF f.op = "_expandNd" THEN 7 * (Len(f.ops) - f.i) ELSE 0
      round == Len(f.ops) + 1 - f.i
  IN  CASE p = "idle"     -> 0
        [] p = "done"     -> 1
        [] p \in {"ndFree", "peek", "capacity", "resize"} -> 2
        [] p = "free"     -> later + 3
        [] p = "set"      -> later + 4
        [] p = "args"     -> later + 5
        [] p = "infer"    -> later + 6
        [] p = "geometry" -> later + 7
        [] p = "rank"     -> later + 8
        [] p = "check"    -> later + 9
        [] p = "ndInfer"  -> 7 * Len(f.ops) + 3
        [] p = "ndTake"   -> 7 * Len(f.ops) + 3 + round
        [] p = "ndCheck"  -> 8 * Len(f.ops) + 3 + round
        [] p = "data"     -> 3
        [] p = "length"   -> 4
        [] p = "storage"  -> 5
        [] p = "new"      -> 10
        [] p = "size"     -> 10 + f.limit - Len(f.read)
        [] p = "dims"     -> 16

StepsLeft(th) == StepsFrom(frame[th], pc[th])

\* Every step of a call brings it nearer to its end, and no step of another thread
\* puts it back: whatever others resize, loops over dimensions and over operands
\* make no more rounds than were to come when they began.
Nearer ==
  [][\A th \in Thread : pc[th] # "idle" =>
       \/ StepsLeft(th)' \in 0 .. StepsLeft(th) - 1
       \/ pc'[th] = pc[th] /\ frame'[th] = frame[th]]_vars

\* Every call comes back, unless the process ends.
Returns == \A th \in Thread : pc[th] # "idle" ~> (pc[th] = "idle" \/ exited)
=============================================================================
