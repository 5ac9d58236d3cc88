SPECIFICATION FairSpec
CONSTANTS
  a = a
  b = b
  All = All
  Names = {a, b}
  Configs <- Unchanging
  Libraries <- Unchanging
  Commands <- NamedCommand
  AlwaysThrows = TRUE
  MailCapacity = 8
  MaxCommands = 2
  MaxId = 3
PROPERTY RemoveCompletes
CHECK_DEADLOCK FALSE
