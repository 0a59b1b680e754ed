SPECIFICATION MCSpec
CONSTANTS
  t1 = t1
  t2 = t2
  t3 = t3
  t4 = t4
  d1 = d1
  d2 = d2
  r = r
  x = x
  y = y
  NoKernel = NoKernel
  Thread <- MCThread
  Limit = 2
  Cache = {d1, d2, r}
  Key = {1, 2, 3}
  SizeT = 16
  Context = {x, y}
  Needs <- MCNeeds
  MaxOps = 5
INVARIANTS TaskTypeOK NoLostWakeup Consistent LeastRecentlyUsed OneMaker GradRestored
PROPERTIES ImplementsLimiter BodiesDone
