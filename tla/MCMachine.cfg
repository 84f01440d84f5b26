CONSTANTS
  Machines <- MCMachines
  PER_PAGE = 10
  HEAP_MAX = 4
  HEAP_MIN = 2
  RX_DESC_COUNT = 2
  TX_DESC_COUNT = 4
  NULL = NULL
  rows = 2
  cols = 4
  Typed = {"s", "l", " "}
  Programs <- MCPrograms
  Unknown <- MCUnknown
  PROMPT <- MCPROMPT
  LINE_MAX = 3
  HISTORY_MAX = 2
  max_x = 3
  max_y = 2
  BYTE = 4
  Start <- MCStart
  CAPACITY = 3
  MaxSnake = 5
  Vocabularies <- MCVocabularies
  Texts <- MCTexts
  BYTES = 5
  Continues = {4}
  CP_MAX = 2
  WHOLE = 100
  Dists <- MCDists
  TopPs = {0, 50, 75}
  Coins = 5
  SnakeWord <- MCSnakeWord
  LlmWord <- MCLlmWord
  Story <- MCStory
SPECIFICATION Spec
INVARIANTS Inv BootTruth SnakeWhole TokenRoundTrip NucleusExact
CHECK_DEADLOCK FALSE
