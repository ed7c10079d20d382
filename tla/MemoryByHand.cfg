\* One thread that uses every operation that keeps the counts, those that take and
\* free references by hand included; when the program ends its finalizers run.
CONSTANTS
  Handle = {h1, h2}
  Thread = {th1}
  Tensor = {t1, t2}
  Storage = {s1, s2}
  NoObj = NoObj
  Ops <- CountedOps
  MaxRetain = 1
SPECIFICATION FairSpec
INVARIANTS RefCount NoDangling
PROPERTIES ImplementsHeap Reclaimed
\* A program that exhausts the addresses stops, as one out of memory does.
CHECK_DEADLOCK FALSE
