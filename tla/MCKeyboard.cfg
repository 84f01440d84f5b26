CONSTANTS
  Shifts = {lshift}
  Ctrls = {lctrl, rctrl}
  Alts = {}
  CapsLock = caps
  Chars = {a}
  Arrows = {}
  Pads = {}
  Extended = {rctrl}
  EVENT_QUEUE_SIZE = 3
  None = None
SPECIFICATION Spec
INVARIANTS Inv
PROPERTIES DropOnlyWhenFull Implements
