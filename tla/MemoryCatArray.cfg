CONSTANTS
  Handle = {h1, h2}
  Thread = {th1}
  Tensor = {t1, t2}
  Storage = {s1, s2}
  NoObj = NoObj
  Ops = {"newWithSize", "_catArray"}
  MaxRetain = 0
SPECIFICATION Spec
INVARIANT NoUseAfterFree
CHECK_DEADLOCK FALSE
