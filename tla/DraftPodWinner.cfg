SPECIFICATION DSpec
CONSTANTS
  MaxPod = 3
  Kinds <- MatchKinds
  Timers = {1, 2, 3}
  Nobody = Nobody
PROPERTIES RightWinner
CHECK_DEADLOCK FALSE
