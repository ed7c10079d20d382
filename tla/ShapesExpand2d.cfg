\* expand2d of a vector, by one thread.
CONSTANTS
  main = main
  other = other
  t1 = t1  t2 = t2  t3 = t3  t4 = t4
  s1 = s1  s2 = s2  s3 = s3  s4 = s4  s5 = s5
  Thread = {main}
  Tensor = {t1, t2, t3, t4}
  Storage = {s1, s2, s3, s4, s5}
  NoObj = NoObj
  Start <- VectorStart
  CallsOf <- Expand2dCalls
  MaxCalls = 1
  Junk = {1, 3}
SPECIFICATION Spec
INVARIANT Expand2dCopies
CHECK_DEADLOCK FALSE
