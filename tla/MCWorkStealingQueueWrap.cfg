SPECIFICATION Spec
CONSTANTS
  h1 = h1
  h2 = h2
  t1 = t1
  t2 = t2
  t3 = t3
  t4 = t4
  t5 = t5
  Thieves = {h1, h2}
  Tasks = {t1, t2, t3, t4, t5}
  N = 2
  Width = 3
  Null = Null
PROPERTY PopEmptyWhenEmpty
CHECK_DEADLOCK FALSE
