SPECIFICATION CarefulSpec
CONSTANTS
  h1 = h1 h2 = h2 h3 = h3
  Handles = {h1, h2, h3}  Sizes = {1, 2}  Size = 9  Word = 100
  MaxDrift = 1  LowZero = {5}  None = None
INVARIANTS TypeOK BlocksApart
PROPERTIES TotalsFollow ImplementsHeap
CHECK_DEADLOCK FALSE
SYMMETRY Symmetry
