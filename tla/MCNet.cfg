CONSTANTS
  Hosts = {h1, h2}
  Servers = {s1}
  Count = 2
  MaxCommands = 2
  NULL = NULL
SPECIFICATION LiveSpec
INVARIANTS Inv PingMatched
PROPERTIES ReaderAlone CommandsEnd
CHECK_DEADLOCK FALSE
