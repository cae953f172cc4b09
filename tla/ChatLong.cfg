SPECIFICATION Spec
CONSTANTS
  p1 = p1 p2 = p2 p3 = p3
  Slow = {}  Leavers = {}
  Peers = {p1, p2}  Typed <- LongTalk  MaxFd = 2  RecvMax = 2  PartMax = 1  SndBuf = 6  None = None
INVARIANTS SameConversation
CHECK_DEADLOCK FALSE
