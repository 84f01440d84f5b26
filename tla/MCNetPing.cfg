CONSTANTS
  Hosts = {h1, h2}
  Servers = {s1}
  Count = 2
  MaxCommands = 2
  NULL = NULL
SPECIFICATION Spec
INVARIANTS PingHonest
CHECK_DEADLOCK FALSE
