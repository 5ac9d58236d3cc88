CONSTANTS
  Clients = {c1, c2, c3}
  Stops = {c1}
  Long = {c3}
  Handlers = {h1, h2}
  Inodes = {i1, i2, i3}
  MaxStarts = 2
  MaxHangUps = 1
  Empty = Empty
  Garbled = Garbled
  Cut = Cut
  Null = Null
SPECIFICATION FairSpec
INVARIANTS TypeOK ServedOnce FailedNotServed WholeCommands
PROPERTY AloneIsServed
CHECK_DEADLOCK FALSE
