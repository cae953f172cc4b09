SPECIFICATION Spec
CONSTANTS
  h1 = h1 h2 = h2 h3 = h3
  Handles = {h1, h2}  Sizes = {1, 2}  Size = 6  Word = 100
  MaxDrift = 2  LowZero = {}  None = None
INVARIANTS DataIsOk
CHECK_DEADLOCK FALSE
