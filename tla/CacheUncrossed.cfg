SPECIFICATION UncrossedSpec
CONSTANTS
  k1 = k1 k2 = k2 k3 = k3 v1 = v1 v2 = v2 w1 = w1 w2 = w2
  Workers = {w1, w2}  GC = gc  Mortal = {w1}  None = None
  Keys = {k1, k2, k3}  Vals = {v1}  LongKeys = {k3}  LongVals = {}
  MaxTTL = 1  N = 2  MaxValue = 4  Word = 5  Hash <- Homes
INVARIANTS CellAtomic EntryCurrent AnswerOfKey
PROPERTIES ImplementsAtomicCells
CHECK_DEADLOCK FALSE
