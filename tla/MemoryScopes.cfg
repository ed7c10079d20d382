\* Two threads; the operations that free too early or leak are in use.
CONSTANTS
  Handle = {h1, h2}
  Thread = {th1, th2}
  Tensor = {t1, t2}
  Storage = {s1, s2}
  NoObj = NoObj
  Ops <- UnsoundOps
  MaxRetain = 0
SPECIFICATION Spec
SYMMETRY Symmetry
INVARIANTS Scoped
\* A program that exhausts the addresses stops, as one out of memory does.
CHECK_DEADLOCK FALSE
