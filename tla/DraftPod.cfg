SPECIFICATION DFairSpec
CONSTANTS
  MaxPod = 4
  Kinds <- MCKinds
  Timers = {1, 2, 3}
  Nobody = Nobody
INVARIANTS FairPools OneTimer TimerCovers RoundRobin
PROPERTIES DraftEnds
CHECK_DEADLOCK FALSE
