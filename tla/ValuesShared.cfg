\* Two threads on three tensors of up to two elements, with every operation
\* that keeps to the naming convention.
CONSTANTS
  Thread = {th1, th2}
  Tensor = {t1, t2, t3}
  Storage = {s1, s2, s3}
  NoObj = NoObj
  Junk = Junk
  Width = 2
  Mod = 2
  Ops <- SoundOps
SPECIFICATION Spec
SYMMETRY Symmetry
INVARIANTS TypeOK Fresh Snapshot Initialized
PROPERTIES Purity MutatesFirst
\* A program that has made all the tensors of the bound may stop.
CHECK_DEADLOCK FALSE
