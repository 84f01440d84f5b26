CONSTANTS
  Callers = {shell, bot}
  Describers = {shell}
  Models = {stories15M, stories260K, unknown}
  Booted = {stories15M, stories260K}
  NumSlots = 2
  NULL = NULL
SPECIFICATION LlmLiveSpec
INVARIANTS LlmInv RoomForEveryModel
PROPERTIES BusyEnds
