\* Two threads that share handles: three handles, two tensors, two storages.
CONSTANTS
  Handle = {h1, h2, h3}
  Thread = {th1, th2}
  Tensor = {t1, t2}
  Storage = {s1, s2}
  NoObj = NoObj
  Ops <- SharedOps
  MaxRetain = 0
SPECIFICATION Spec
SYMMETRY Symmetry
INVARIANTS TypeOK Inv NoUseAfterFree Collectable
PROPERTIES ImplementsHeap StaysGarbage
\* A program that exhausts the addresses stops, as one out of memory does.
CHECK_DEADLOCK FALSE
