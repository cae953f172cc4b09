SPECIFICATION Spec
CONSTANTS
  k1 = k1 k2 = k2 k3 = k3 v1 = v1 v2 = v2 w1 = w1 w2 = w2
  Workers = {w1, w2}  GC = gc  Mortal = {}  None = None
  Keys = {k1, k2}  Vals = {v1}  LongKeys = {}  LongVals = {}
  MaxTTL = 0  N = 2  MaxValue = 4  Word <- WordSize  Hash <- Homes
INVARIANTS CellAtomic
CHECK_DEADLOCK FALSE
