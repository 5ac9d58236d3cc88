SPECIFICATION FairSpec
CONSTANTS
  p1 = p1
  p2 = p2
  m1 = m1
  m2 = m2
  m3 = m3
  m4 = m4
  Producers = {p1, p2}
  Messages = {m1, m2, m3, m4}
  Size = 2
  Null = Null
INVARIANTS
  TypeOK
  DeliveredInOrder
  SlotExclusive
PROPERTIES
  RefusedOnlyWhenFull
  ImplementsChannel
  TicketsAreDelivered
CHECK_DEADLOCK FALSE
