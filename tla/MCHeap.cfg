CONSTANTS
  Threads = {t1, t2}
  Isr = isr
  NULL = NULL
  Size = 20
  HDR_SIZE = 2
  ALIGNMENT = 2
  MaxRequest = 5
SPECIFICATION Spec
SYMMETRY Symmetry
INVARIANTS Inv Accounting
PROPERTIES FirstFit Implements
