CONSTANTS
  Handle = {h1, h2}
  Thread = {th1}
  Tensor = {t1, t2}
  Storage = {s1, s2}
  NoObj = NoObj
  Ops = {"newWithSize", "storage"}
  MaxRetain = 0
SPECIFICATION Spec
INVARIANT NoDangling
CHECK_DEADLOCK FALSE
