SPECIFICATION FairSpec
CONSTANTS
  c1 = c1 c2 = c2 c3 = c3
  Clients = {c1, c2, c3}  Pieces <- Segments  Setters = {c1}  Closers = {c2}  Resetters = {c3}
  W = 2  Parent = parent  Mortal = {0, parent}  Misread = {0}  QueueMax = 1  N_RECORDS = 3000  SEMOPM = 3000  SemId = 1
  None = None
INVARIANTS TypeOK OwnRequest ExclusiveService HoldersExclude UnlockedOnlyOrphaned
PROPERTIES Served
CHECK_DEADLOCK FALSE
