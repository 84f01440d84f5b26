CONSTANTS
  NUM_CHANNELS = 2
  InputMax = 1
  TextMax = 1
  MaxPieces = 2
  Workers = {w1, w2}
SPECIFICATION LiveSpec
INVARIANTS Inv OwnMessage NoLostUpdate
PROPERTIES BotComesBack
