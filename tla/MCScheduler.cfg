SPECIFICATION Spec
CONSTANTS
  w1 = w1
  w2 = w2
  o1 = o1
  t1 = t1
  t2 = t2
  t3 = t3
  t4 = t4
  Workers = {w1, w2}
  Outsiders = {o1}
  Tasks = {t1, t2, t3, t4}
  Slots = 2
  MaxBatch = 2
  CheckPeriod = 2
  Null = Null
SYMMETRY Symmetry
INVARIANTS
  TypeOK
  EnqueuedOnce
  NoSleepOnGlobal
  BacklogNoticed
  GlobalNotStarved
  StopWakesAll
CHECK_DEADLOCK FALSE
