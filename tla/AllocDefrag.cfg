SPECIFICATION Spec
CONSTANTS
  h1 = h1 h2 = h2 h3 = h3
  Handles = {h1, h2, h3}  Sizes = {1}  Size = 9  Word = 100
  MaxDrift = 1  LowZero = {}  None = None
PROPERTIES DefragMakesRoom
CHECK_DEADLOCK FALSE
