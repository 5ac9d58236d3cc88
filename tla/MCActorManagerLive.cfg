SPECIFICATION FairSpec
CONSTANTS
  a = a
  b = b
  All = All
  Names = {a, b}
  Configs <- Unchanging
  Libraries <- Unchanging
  Commands <- ReloadOne
  AlwaysThrows = TRUE
  MailCapacity = 8
  MaxCommands = 2
  MaxId = 3
INVARIANT RestartOwed
PROPERTIES
  ShutdownCompletes
  CrashIsRestarted
CHECK_DEADLOCK FALSE
