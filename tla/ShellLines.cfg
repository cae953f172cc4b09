SPECIFICATION FairSpec
CONSTANTS
  Scripts <- Pairs  MaxLines = 2  MaxInts = 1  MaxHit = 1
INVARIANTS TypeOK RightResult NothingLeft EndsReported
PROPERTIES LinesEnd
CHECK_DEADLOCK FALSE
