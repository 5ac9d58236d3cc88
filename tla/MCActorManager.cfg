SPECIFICATION Spec
CONSTANTS
  a = a
  b = b
  All = All
  Names = {a, b}
  Configs <- AnySubset
  Libraries <- AnySubset
  Commands <- AnyCommand
  AlwaysThrows = FALSE
  MailCapacity = 3
  MaxCommands = 2
  MaxId = 3
SYMMETRY Symmetry
INVARIANTS
  TypeOK
  SingleInstance
  PendingConsistent
  DoneMeansQuiet
PROPERTY NoneLeftBehind
CHECK_DEADLOCK FALSE
