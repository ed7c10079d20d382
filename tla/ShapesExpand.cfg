\* One thread makes one call of any kind, while another resizes one of its operands.
CONSTANTS
  main = main
  other = other
  t1 = t1  t2 = t2  t3 = t3  t4 = t4
  s1 = s1  s2 = s2  s3 = s3  s4 = s4  s5 = s5
  Thread = {main, other}
  Tensor = {t1, t2, t3, t4}
  Storage = {s1, s2, s3, s4, s5}
  NoObj = NoObj
  Start <- MCStart
  CallsOf <- MCCallsOf
  MaxCalls = 1
  Junk = {1, 3}
SPECIFICATION Spec
INVARIANTS TypeOK Temporaries ErrorPath AllOrNothing ExpandedView StaticShape ReadShape
PROPERTIES ViewOnly Nearer Returns
\* A program whose threads have made their calls may stop.
CHECK_DEADLOCK FALSE
