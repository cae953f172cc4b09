SPECIFICATION FairSpec
CONSTANTS
  Clients <- MCClients  Text <- MCText  Ended <- Long  Partial <- Short
  Leavers <- Restless  Deaf = {"big"}  Files <- Present  MaxConnects = 2  None = None
INVARIANTS TypeOK RightAnswer PostsStored
PROPERTIES Served
CHECK_DEADLOCK FALSE
