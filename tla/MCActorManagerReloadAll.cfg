SPECIFICATION Spec
CONSTANTS
  a = a
  b = b
  All = All
  Names = {a, b}
  Configs <- Unchanging
  Libraries <- Unchanging
  Commands <- ReloadAny
  AlwaysThrows = TRUE
  MailCapacity = 8
  MaxCommands = 2
  MaxId = 3
INVARIANT GracefulEnd
CHECK_DEADLOCK FALSE
