SPECIFICATION FairSpec
CONSTANTS
  s1 = s1
  s2 = s2
  w1 = w1
  w2 = w2
  m1 = m1
  m2 = m2
  stop = stop
  Senders = {s1, s2}
  Workers = {w1, w2}
  Messages = {m1, m2, stop}
  Stops = {stop}
  Capacity = 2
  Null = Null
  MaxDiscarded = 1
INVARIANTS
  TypeOK
  OneRunner
  ScheduledOnce
  NoLostWakeup
  HandleAlive
PROPERTIES
  SentIsReceived
CHECK_DEADLOCK FALSE
