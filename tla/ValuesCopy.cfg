CONSTANTS
  Thread = {th1}
  Tensor = {t1, t2, t3}
  Storage = {s1, s2, s3}
  NoObj = NoObj
  Junk = Junk
  Width = 1
  Mod = 2
  Ops = {"fromList1d", "copy"}
SPECIFICATION Spec
PROPERTY Purity
CHECK_DEADLOCK FALSE
