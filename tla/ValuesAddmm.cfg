CONSTANTS
  Thread = {th1}
  Tensor = {t1, t2, t3}
  Storage = {s1, s2, s3}
  NoObj = NoObj
  Junk = Junk
  Width = 1
  Mod = 2
  Ops = {"fromList1d", "addmm_"}
SPECIFICATION Spec
PROPERTY MutatesFirst
CHECK_DEADLOCK FALSE
