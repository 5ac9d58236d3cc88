CONSTANTS
  Threads = {h1, h2}
  Manager = manager
  Boxes = {b1, b2}
  Types = {stop}
  Messages = {m1, m2}
  Capacity = 1
  MaxVersion = 3
  Null = Null
SPECIFICATION FairSpec
INVARIANTS TypeOK RefExact CopyMatchesVersion OwnChangesRouted
PROPERTY MessagesGo
CHECK_DEADLOCK FALSE
