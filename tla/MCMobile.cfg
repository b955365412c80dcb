SPECIFICATION FairSpec
CONSTANTS
  Nothing = Nothing
  MaxActs = 3
  MaxPackets = 1
  MaxFails = 1
INVARIANT AfterDestroy
PROPERTIES StopEnds Published Settles
CHECK_DEADLOCK FALSE
