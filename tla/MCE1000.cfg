CONSTANTS
  TX_DESC_COUNT = 2
  RX_DESC_COUNT = 3
  Frames = {f1, f2}
  MaxRaced = 1
  NULL = NULL
SPECIFICATION Spec
INVARIANTS Inv TxExact
PROPERTIES RefusedOnlyWhenFull Implements
