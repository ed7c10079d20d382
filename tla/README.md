# hasktorch in TLA+

Hasktorch wraps the C tensor libraries TH and THC for Haskell. Numerics are C's
business; hasktorch's own is to say who owns C memory and when it may be used,
which memory an operation writes, and what a Haskell type says about a tensor
that C can change. That is what is modelled, checked and proved here.

## The system

| Part | Where | State | Operations | Hard because |
| --- | --- | --- | --- | --- |
| Managed handles | `indef/types`, `types/th`, `raw/th/cbits` | a ForeignPtr per handle, whose finalizer gives back one C reference | `mkDynamic`, `mkStorage`, the `with...` scopes | finalizers run in another thread, in any order, once the last use of the handle is over |
| Dynamic tensors, storages | `indef/unsigned` | C tensors and storages with reference counts; several tensors on one storage | make, view, clone, `_set`, `_setStorage`, `_resize`, `retain`, `_free` | every operation is two or three steps; counts must match owners across all of them |
| Operations on elements | `classes` | the elements | `f` pure, `f_` in place, `_f` C, `^+^` by `unsafePerformIO` | views share memory, threads share tensors, nothing locks, thunks run late |
| Shapes | `classes`, `dimensions` | sizes, kept by C | `getDims`, `new`, `resizeDim` | read one dimension per C call; resized in place |
| Static tensors | `classes`, `indef` | a type-level shape over a dynamic tensor | `getElem2d`, `getRow`, in-place operations | the type does not change when the tensor does |
| Generators | `core` | a C generator per handle | draws, `seed`, `copy` | shared without a lock; `copy` makes a second owner |
| CUDA state | `raw/thc`, `types/thc` | one THCState under many handles | `manageState` per handle | each handle's finalizer frees it |
| Expand, error handlers | `raw/th`, `raw/thc`, `vendor` | what C allocates during a call | `newExpand`, `expand`, `expandNd` | error handlers may return, and C goes on |
| Struct bindings | `types` | the generator's table of fields; the instances it printed once | `starttype`, `field`, `array_field`, `stoptype`; `poke` | one static table for all structs; layouts committed by hand |
| Code generator | `codegen` | none | headers to bindings | parse errors are silent |

A Haskell program calls `classes`; the instances in `indef` open scopes with
`indef/types` and call the generated bindings in `raw`. The garbage collector
calls the finalizers. `PROJECT.json` lists every part with its files, and every
hazard with its line and the properties that watch it.

## Modules

| Module | What it is |
| --- | --- |
| `ManagedHeap` | the promise: objects exist exactly as long as somebody can get at them |
| `TensorMemory` | handles, scopes, C's counts and finalizers, one action per operation |
| `TensorMemoryProofs` | its invariant, what follows, and that scopes cover raw pointers, for all constants |
| `TensorMemoryRefinement` | proof that it implements `ManagedHeap`, for all constants |
| `TensorValues` | loops over elements: pure, in-place and deferred operations on views |
| `TensorValuesProofs` | its invariant and what follows, for all constants |
| `TensorValuesLoops` | proofs about what its loops compute, for all constants |
| `Shapes` | sizes: how calls read and change them step by step, expand with its error paths |
| `ShapesProofs` | its invariants and what follows, for all constants |
| `ShapesLoops` | proofs about its two loops, over dimensions and over operands |
| `ShapesViews` | proofs about its arithmetic: types, the views that expand makes, the end of calls |
| `StructBindings` | the generator of Storable instances, and the poke of an instance |
| `StructHeaders` | the struct declarations of the headers, and the committed instances, as data |
| `StructBindingsProofs` | the generator's invariant and what follows, for any headers |
| `MCTensorMemory`, `MCTensorValues`, `MCShapes`, `MCStructBindings` | sets of operations, starting states, headers and symmetries for the runs |

The four models meet in the tensor. `TensorMemory` has its count and no sizes,
`TensorValues` its elements at fixed sizes, `Shapes` its sizes and no count: an
operation of one appears in the others as far as it matters there (`newExpand`
is `newX`, a view that retains its storage, in `TensorMemory`). What each takes
from another as given, another shows: that the pointers a call of `Shapes` works
on are not freed under it is `NoUseAfterFree`. The offsets at which Haskell reads
C's tensor and storage are those of `StructBindings`.

### TensorMemory

An address of C is in `Tensor` or `Storage`; `rc` is the count C keeps for it.
`ref` says what points to what: a handle (ForeignPtr) to its object, a tensor to
its storage, and a thread to an object that C has just returned to it. `live` are
the handles whose finalizer has not run, `reach` those the program still has,
`frame` the operation a thread is in with the raw pointers it took, `held` the
handles that its open `withForeignPtr` scopes keep alive, `retained` the
references taken by hand with `retain`.

An operation begins with the action named after the combinator that opens its
scope (`withDynamicState`, `with2DynamicState`, `withStorageState`,
`withDynamicStateAndStorage`, `mkDynamicIO`; `catArrayBegin` for `_catArray`,
which opens scopes and leaves them at once). The C call is the next step, and
wrapping its result, `mkDynamic`, a third. `Forget` and `Finalize` come between
at will. An operation's name stands for its family, as the comments on the sets
of operations say; `with3DynamicState` and the operations on more tensors open
further scopes of the same kind. `_catArray` has one operand where the code has
a list.

What C does to the counts is external and is taken to be atomic, as TH's atomic
counts are: a call that makes, retains or frees is one step. `THTensor_free`
gives the storage's reference back at 0, `newContiguous` of a contiguous tensor
retains and returns it, the storage accessor retains nothing, `setStorageNd`
swaps storages, a resize makes a storage only when there is none. A TH handle's
`CState` is the null pointer with a finalizer that does nothing, so it is left
out. Freed addresses are reused.

`_free` and `_freeCopyTo` are enabled only for references that the program has
retained by hand. The code demands no such thing, but a program that breaks the
rule frees twice whatever the library does: the rule is the caller's part of the
contract, and the properties of `MemoryByHand` assume it.

`ManagedHeap` has no count, scope or finalizer. `TensorMemory` implements it
(`ImplementsHeap`): every step of the detailed module is one that the abstract
one allows, with *exists* meaning that C's count is positive. No object that can
be got at is freed, and none that cannot exists. The abstract operations take what the
program or a thread can get at, or an address that is not in use. What only
forgotten handles keep is waiting for their finalizers; it cannot be taken up
again. `StaysGarbage` says the same of the detailed module, and `Collectable`
that such an object waits for finalizers alone: a dropped handle that no scope
holds owns it, or a tensor on it.

### TensorValues

`view` places a tensor in a storage, `data` has the elements, `frame` the C loop
that a thread runs. `Load` and `Store` are the loop's two halves, so that other
threads come in between. `withEmpty`, `twice`, `fromList1d` and `newNarrow` are
the code's helpers; `Dst` and `Src` say what each operation passes to C as
destination and sources. `^+^` is two actions: `defer` builds the thunk, `force`
runs `cadd` on the operands, with what they then contain. `before`, in a frame
or a thunk, is a history: what the operands held when the operation was called,
or the operator applied, dropped when something writes to them.

Sizes do not change, and the operands of an operation have one size. `new`
itself, which returns uninitialized memory by design, is not an operation of the
program here, only a part of others.

### Shapes

`tensor` has the sizes, strides, storage and offset of each C tensor, `cap` the
room of each storage, `held` the tensors that the program has. A thread runs one
call at a time: `pc` and `frame` are its place and its locals, `temp` counts each
thing that C has allocated for the call. All calls are safe foreign calls, and
another thread may resize in between. So each statement is a step, and each round of
a loop; a statement that calls the C library takes two where that matters: it reads
its arguments from the tensor (`expandGeometry`, `expandArgs`), then the call does
its work. The arguments of one call are read in one step, and what the library does
inside one call is one step.

`newExpandNew`, `expandCheck` .. `expandFree` and `expandNdCheck` ..
`expandNdFree` are the statements of the C functions in their order; `expandNdCheck`
and `expandNdTake` are at one operand each time. The nine
copies of that code (`ByteTensor` .. `DoubleTensor` in `expand_polyfill.c`,
`CudaTensor` in `expand_template.c`, which no cabal file compiles) are the same
steps, and `elt` says which the program runs. `StepsFrom` bounds the steps a call still
has before it, and `Nearer` says that each of them counts. `Error` is a failed check: the C
library's handler ends the process, that of `vendor/error_handler.cpp` prints and
returns. Hasktorch installs none at present (the imports in
`core/src/Torch/Core/Exceptions.hs` are commented out), so both are possible
starts. After it has returned, `THArgCheck` goes on with the next statement and
`expand` returns, as the code says.

`op_sizes` of `expandNd` holds pointers into tensors, and so do the arguments of
`inferExpandGeometry`. `moved` is the set of those that a change of rank has left
dangling; `SizesAt` and `GeometryAt` then give any sizes and strides made of
`Junk`. `expand2dNew`, `getDimListRank`, `getDimListSize`, `withEmptyNew`,
`getStorage`, `tensordataLength` .. `tensordataPeek`, `resize` and `resizeDim` are
the Haskell side. `resize` is that of a Storage, which may make it smaller than the
tensors on it. No property says that `tensordata` stays inside the storage: it does
not, for a view that begins inside its storage, or when the storage is made smaller
between its calls, and no document says that it would.
`calm` and `before` are histories: whether another thread has changed the tensors
of the call, and what they were when it began.

The C library's own `setStorageNd`, `inferExpandGeometry` and `inferSizeN` are
external. A dimension of size one has stride 0, where C keeps a number that
reaches nothing. A tensor gets a storage of its own only while one is unused (the
bound on storages). `cap` is the room of a storage; that its buffer moves when the
room changes is not a state.

### StructBindings

One half is the C program that the macros of `bindings.dsl.h` make of a header.
`bc_fielddata` is its static table: `starttype` sets `n` back, `field` and
`array_field` fill a row, `stoptype` prints an instance from the rows, and
`nextStruct` goes on. C's layout (`Padding`) advances with the members. The rows
of earlier structs stay in the table beyond `n`, as they do in the code. The
other half is the instance: `poke` and then `pokeByteOff` per member, with lists
that may be shorter or longer than the array (`given`). `mem` says of each
member what a `peek` would now find.

`StructHeaders` has the 42 structs of the four headers with C's sizes and
alignments, and the offsets in the four `Structs.hs`. The two copies of
`bindings.dsl.h`, under `th` and `thc`, are the same file.

## Runs

| Run | Instance | Question | Result |
| --- | --- | --- | --- |
| `MemoryShared` | 2 threads, 3 handles, 2 tensors, 2 storages | are counts, scopes and raw pointers right, is it a managed heap, and does what is lost stay so and wait for finalizers only? | yes (about 52,000 states) |
| `MemoryByHand` | 1 thread, 2 handles, retain and free, at most 1 per object, finalizers at the end | are counts right with references taken by hand, and does all memory come back when the program ends? | yes (132,000) |
| `MemoryScopes` | 2 threads, 2 handles, with `storage` and `copyType` | do scopes cover the raw pointers whatever the counts? | yes (9,600) |
| `MemoryStorage` | 1 thread, `storage` | does no handle point to freed memory? | no: `storage` takes a reference that C never counted |
| `MemoryCatArray` | 1 thread, `_catArray` | are raw pointers valid when C gets them? | no: the scopes end too early |
| `MemoryFailedCopy` | 1 thread, `copyType` | has every object an owner? | no: the target is lost when it throws |
| `ValuesShared` | 2 threads, 3 tensors on 3 storages of 2 elements | are pure functions pure, in-place ones in place? | yes (1,220,000) |
| `ShapesExpand` | 2 threads, 4 tensors, 5 storages, both handlers, every element type | does every path free what it took, leave results whole and come nearer to its return, and are the sizes read true? | yes (227,000) |
| `StructLayouts` | all headers | are the printed layouts C's, does poke stay in its members, is the repository up to date? | yes (2,400) |
| `ShapesExpand2d` | 1 thread, `expand2d` | is its result a copy? | no: a view of the vector's storage |
| `ValuesCopy` | 1 thread, `copy` | is `copy` pure? | no: it overwrites its operand |
| `ValuesAddmm` | 1 thread, `addmm_` | does `addmm_` mutate its first tensor? | no: its second |

The six that fail are disagreements between the code and its own documents;
`PROJECT.json` "findings" has the line and the quotation of each.

Why the bounds are enough. An error with counts needs two owners of one object:
two handles of one tensor, a tensor and a storage handle, two tensors on a
storage, or a handle and a result not yet wrapped. Three handles and two of
everything else give all of these together with the reuse of an address and of a
handle; in `MemoryByHand` the reference taken by hand is the third owner, so two
handles do. Every object has at most one reference by hand (`MaxRetain`), which is
one more than the handles' own. Two elements per storage give views that overlap
in part and loops that are overtaken in the middle; three tensors give two
operands and a result, or an operand, its view and a result; values modulo 2
are enough to tell old from new. One thunk (`TensorValues`) may wait at a time.

In `ShapesExpand` the main thread makes one call of any kind and the other one
`_resizeDim`, or a Storage's `resize` to less than the tensor needs, between any two
of its steps: a step reads one tensor (but for `inferSizeN`), so one change is
enough to make any pair of reads disagree. The starting tensors are a
vector, a row, a column, a view that begins inside its storage, two tensors on
one storage, an empty one, and one with sizes and no storage, the wanted sizes ones that fit, that fail and that
have too few dimensions. `_expandNd` gets two operands, also one of its results
as an operand, and one result twice. The copy for Double runs from every start,
the others from one, as they are the same steps. `Junk` has a size that agrees
(1) and one that does not (3).

`StructLayouts` has no bound: its instance is every struct there is.

Deadlock is not checked (`CHECK_DEADLOCK FALSE`): in a bounded heap a program
whose threads wait for an address that never becomes free is out of memory,
and one that has made all its tensors may stop.

Fairness. `FairSpec` has weak fairness of `Finalize`, and that only from the end of
the program on (`Ended`: it reaches no handle any more and runs no operation), when GHC
runs the C finalizers that are left. Before that finalizers may run or not. So
`Reclaimed` says that at the end all that was not retained by hand comes back, in
whatever order the finalizers run, and nothing of a program that goes on. The
repository's own experience is that more cannot be said: `core/tests/MemorySpec.hs`
notes of one loop that makes, reads and drops tensors "Leaks memory" (line 30), and
of another with the same code "Releases memory on OSX (but not consistently on
linux)" (line 40). C's memory is not counted as Haskell's heap, so dropping large
tensors does not by itself make the collector run. Threads need not go on and the
program need not forget anything. `Reclaimed` is `Collectable` (a finalizer may
run), `StaysGarbage` (nothing undoes it) and this fairness together.

`Shapes` assumes weak fairness of each thread's `Continue`: a C call that has
begun runs on, and GHC schedules every thread that can run. Nothing makes a
thread begin a call. `Returns` then says that every call comes back or the
process ends: the loops over dimensions and operands end, though what they read
may change. It is `Nearer` and this fairness together.

Exceptions to the properties, each stated at its definition. `ErrorPath`,
`AllOrNothing`, `ExpandedView`, `ViewOnly` and `ReadShape` speak of calls whose
tensors no other thread changed: the code promises nothing for others, and the
model goes on through them. `ExpandedView` leaves out operands without a storage,
and `ViewOnly` operands that are not inside theirs (`InStorage`). Handlers that
return bring such tensors about: after a failed check in `_expand` of an empty
tensor, `setStorageNd` takes the storage from the result, which keeps its sizes and
strides, and a later expand of that one allocates where it should make a view.
`ExpandedView` says of `expand2d` too
that its result is a view, though its comment speaks of copying: that is the finding of
`ShapesExpand2d`. `InBounds` and `RoundTrip` leave out `THCStream`, whose member is empty in
the header and a pointer in `Torch.Types.THC.Internal`.

The definitions headed *Seeded fault* are deliberate mistakes, one for each
property of the passing runs (`PROJECT.json` "mutants"): put in place of the
definition they follow, each makes TLC find its property violated. They are no
part of the specification.

## Proofs

`TensorMemoryProofs` proves, for any sets of handles, threads and addresses
(finite, disjoint) and any `MaxRetain`:

| Theorem | Statement |
| --- | --- |
| `Invariance` | `Spec => []Inv`, when `Ops` is a subset of `CountedOps` |
| `Typing`, `Counting` | its parts `TypeOK` and `RefCount` |
| `Handles` | no handle, result or tensor points to freed memory |
| `RawPointers` | nor does any raw pointer passed to C, when `Ops` is a subset of `ManagedOps` |
| `Refinement` | `Spec => ImplementsHeap`, when `Ops` is a subset of `CountedOps` |
| `NoResurrection` | `Spec => StaysGarbage`, for the same operations |
| `GarbageHasFinalizers` | `Spec => []Collectable`, for the same operations |
| `ScopesCover` | `Spec => []Scoped`, whatever `Ops` is |

`CountedOps` leaves out `storage` and `copyType`, `ManagedOps` also `_catArray`:
the three operations that the failing runs convict.

The argument. `RefCount` alone is not inductive: a free is right only if the
object's last owner is gone, and the storage that a dying tensor releases must
be released by nobody else. The inductive invariant `IInv` has two parts.
`HeapOK` adds to the counts that a freed tensor points nowhere and that what is
not in use (finalized handles, idle threads) points nowhere, so that no stale
pointer is counted when an address is reused. `ThreadOK` says of each thread
that its raw pointers are those of the handles it holds, and that these are
live; a held handle's object has an owner, hence a positive count, hence C has
not freed it. The counting lemmas (`MoveOne`, `MoveTwo`) say how the number of
owners changes when one or two pointers move; each C primitive has a lemma that
it keeps `HeapOK`, each action one that it keeps `IInv`. `IInv` implies `Inv`.

`Refinement` (module `TensorMemoryRefinement`) needs one fact more,
`CountedReached`: where the counts are right, the objects with a positive count
are those that holders reach, because what keeps a storage is a tensor and what
keeps a tensor is no tensor. So any step after which C's counts are right settles
the abstract heap (`Settled`), and each action of the code has its counterpart:
scopes that open or close and calls on elements forget, the C constructors create
or obtain, `_set` and `_resize` repoint, `mkDynamic` passes a thread's reference
to a handle, `_free` and finalizers let go. That an operation takes only what
the abstract one may take (`Usable`) is shown with it: an operand is held by the
thread, so it and its storage are wanted.

`NoResurrection` goes through the actions in the same way, on C's counts: an
operation moves pointers only to what its thread has or to what was free, and
`mkDynamic` makes a handle known whose object the thread had before.
`GarbageHasFinalizers` is a consequence of the invariant: a positive count has an
owner, and when no thread, scope, known handle or hand-taken reference is one, it
is a dropped handle, of the object or of a tensor on it.

`ScopesCover` does without counts, which `storage`
and `copyType` break. Held handles are live, and a C call moves the pointers of
tensors and threads only, so what a held handle points to stays the raw pointer
that its scope took; finalizers and `mkDynamic` touch no handle that is held.

`TensorValuesProofs` proves, for any sets of threads, tensors and storages and
any sizes, when `Ops` is a subset of `SoundOps` (all but `copy` and `addmm_`):

| Theorem | Statement |
| --- | --- |
| `FreshResults` | what a pure operation is making is unknown to the program and shares its storage with nothing |
| `PureFunctions` | `Purity`: no step of a pure operation changes a tensor that the program has |
| `InPlaceFunctions` | `MutatesFirst`: an in-place operation writes its first tensor only |
| `ResultsInitialized` | `Spec => []Initialized` |
| `ResultsOfOperands` | `Spec => []Snapshot` |
| `ValuesTyped` | `Spec => []TypeOK` |

The argument. A running operation writes only the tensor that it will return
(`FrameOK`); for a pure one that is a tensor made in `New` on an unused storage,
and neither views (`newNarrow` takes them of known tensors only) nor other
threads' results (`Distinct`) can come to share that storage before `Return`.

The last three (module `TensorValuesLoops`) need to know how far each loop has
come. `LoopOK` says that the cells of a pure result before the loop's place are
computed from what the operands held, and that `before` is what they hold now until
somebody writes to them. A store changes one cell, which is the next one of its
own loop and, by `Fresh` and `Distinct`, in nobody else's result. `Shown` says that
the program sees values only: when a loop ends, all its cells are computed.

`ShapesProofs` proves, for any sets of threads, tensors and storages, any starts,
calls and `Junk`:

| Theorem | Statement |
| --- | --- |
| `ControlInvariant` | each thread's place fits its operation, and it owns the temporaries that its place says |
| `TemporariesFreed` | `Spec => []Temporaries` |
| `DataInvariant` | results in the making are nobody else's, and are as before until an expand can no longer fail |
| `StaticShapeHolds` | `Spec => []StaticShape` |
| `ErrorPathHolds` | `Spec => []ErrorPath` |
| `ShapeIsRead` | `Spec => []ReadShape` |
| `ExpandNdAllOrNothing` | `Spec => []AllOrNothing` |
| `TypesHold` | `Spec => []TypeOK` |
| `ViewsAreShown` | `Spec => []ExpandedView` |
| `ViewsOnly` | `Spec => ViewOnly` |
| `CallsEnd` | `Spec => Nearer` |

The argument. `Temporaries` is inductive once `pc` is tied to the operation:
`Control` says which places an operation can be at, and that `expandNd` comes
back from `expand` with an operand left or to `ndFree`. For the other two,
`Ownership` says that a call which makes its result has it to itself (no other
call uses it, the program does not know it) and that others' tensors are held, so
a resize by another thread cannot meet the former and clears `calm` when it meets
the latter; `Results` says that up to `set` a result is what it was before.

`ShapeIsRead` and `ExpandNdAllOrNothing` are in `ShapesLoops`. `ReadSoFar` says that while nobody else has
changed the operand what has been read is a prefix of its sizes. `ExpandedSoFar`
says that in a quiet call no pointer to sizes dangles and nothing has changed until the
common sizes are found, and that from then on every operand can be brought to them, an operand that is a result
already expanded included, since sizes expand to themselves: no later `expand` of
the loop can fail. Both rest on `Lists`, which says that all sizes are lists of
numbers, whose common size (a maximum) therefore exists.

The last four are in `ShapesViews`. Where an element lies, and how far a tensor
reaches, are sums over dimensions, which the model writes as folds over sets. What
a fold is worth needs no induction over data: of the finite sets for which a
statement fails take a smallest (`SmallestSet`), and remove one element. So a sum
exists, does not depend on the order (`AnyOrder`), splits at a dimension
(`PrefixSum`) and survives a shift of its indices (`SumShift`), by which the
dimensions that the operand lacks drop out. `ViewShows` and `ViewExtent` follow: a
tensor with the strides of `inferExpandGeometry` shows the operand and reaches no
further.

The invariant `Typed` says that every tensor has a list of sizes and as many strides,
whatever is read from a freed array. The invariant `Views` says
of an undisturbed call which operands it is done with and that each of them is
shown, that other tensors are as before, and, from the check to `set`, that the
sizes and strides held in C's locals are those of operand and result, so that `set`
adds one view and disturbs none.

`CallsEnd` takes `StepsFrom` as the rank of a call: seven steps for every operand
that `expandNd` has yet to expand, one for each round of its two loops before that, one for every dimension that `getDims` has yet
to read, and those of the straight part that follows. `Control` keeps the loop's
index within the operands and `Typed` the dimensions read below the rank that was
read first, at most five, so the rank is a number. A step of a thread lowers its own
(`Closer`, a lemma per action) and touches no other thread's place or locals, since
loop bounds are read once: a resize meanwhile changes what is read, not how often.

`StructBindingsProofs` proves, for any headers that satisfy `HeadersOK` and any
`Capacity`:

| Theorem | Statement |
| --- | --- |
| `Invariance` | the inductive invariant of the generator and of `poke` |
| `TypeCorrect`, `TableIsOwn` | `TypeOK`, with `n` within the capacity, and `OwnRows` |
| `LayoutIsC` | `WellLaidOut`: the exact layout of C, padding included |
| `NoOtherLayout` | the instance that is printed is the only one that obeys C's rules (`OnlyLayout`) |
| `PokeInBounds`, `PokePeek` | `InBounds` and `RoundTrip` |

The argument. While a struct's fields come in, the rows up to `n` are its members
at offsets where C has them, the last of which ends at `size` (`Generating`);
`stoptype` carries this to the instance (`Printed`). Rows are apart and a write is
no longer than its member, so it hits no other row, and the members before `k`
keep what they got. `Following` adds that no field lies further from the one before
than its alignment asks, and that the alignment is that of some member; `Followed`
carries this to the instance.

`LaidOut` states the rules of C's layout without computing one. `OneLayout` shows
that they leave one: of the members at which two layouts differ take the least; the
members before it end at the same place, and only one multiple of an alignment lies
less than that alignment behind it (`OneFirst`). `NoOtherLayout` applies this to the
instance that is printed: it obeys the rules (`LayoutIsC`), so every other one breaks
one of them. That is what gives `UpToDate` its weight: an instance in `Structs.hs`
that differs from the printed one is not another choice that a compiler might make,
it is wrong. That those committed do not differ is a fact about data, which the run
shows of every struct and no theorem can.

Only model-checked: `UpToDate`, which is about the repository's own data, and
`Reclaimed` and `Returns`. These two are liveness, and their proofs
would need ENABLED of the fair actions, which is beyond the prover; the safety they
rest on (`StaysGarbage`, `Collectable`, `Nearer`) is proved. Every other invariant
and every action property of the passing runs is a theorem.

## Not modelled

- The numerics. Operations that only read or write elements are one action
  (`math`), and so are the neural network layer and the reductions, indexing,
  convolutions and Lapack calls of `indef`: one C call in a scope each.
- Exceptions between a C call and the wrapping of its result, C arrays leaked by
  `newArray`, and the memory that `newWithData` hands to C: the first would add to
  every constructor the loss that `MemoryFailedCopy` shows for one.
- Element access by rank (`getDim`, `setDim`) and the bounds of `getElem2d`,
  `getRow` and `getColumn`, which are sequential and end in a check of C's that is
  not in this repository. Of the static tensors only `expand2d` is modelled.
- Random generators and the CUDA state. Their C is not here, and what goes wrong
  in the Haskell around it is what `MemoryStorage` shows of storages: two owners
  for one count. `PROJECT.json` lists the lines.
- The macros of `bindings.dsl.h` for unions, flexible array members, callbacks,
  numbers and enums, which keep no state or which no header uses, and `c2hsc`,
  which reads the headers.
- The code generator (`codegen`): a sequential parser and printer without state
  whose correctness is its wording. The generated bindings and the examples have
  no state of their own.
