SPECIFICATION Spec
CONSTANTS
  p1 = p1 p2 = p2 p3 = p3
  Slow = {p2}  Leavers = {p3}
  Peers = {p1, p2, p3}  Typed <- Talk  MaxFd = 3  RecvMax = 2  PartMax = 1  SndBuf = 2  None = None
INVARIANTS TypeOK RegisteredOpen EdgesKept LinesInOrder SameConversation
CHECK_DEADLOCK FALSE
