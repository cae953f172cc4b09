SPECIFICATION FairSpec
CONSTANTS
  c1 = c1 c2 = c2
  Apis <- AllApis  Clients = {c1, c2}  Master = master  Leavers = {c2}
  SndBuf <- Rooms  MaxSaid = 3  BufMax = 2  PollSize = 2
INVARIANTS TypeOK WatchedOpen EchoExact
PROPERTIES Echoed LeaversClosed
CHECK_DEADLOCK FALSE
