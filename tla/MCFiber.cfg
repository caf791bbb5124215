SPECIFICATION FairSpec
CONSTANTS
  FIBER_MAX = 3
  Blocks = {b1, b2, b3}
  RootStack = RootStack
  NULL = NULL
INVARIANTS
  NoWildSwitch
  CurrentOwnsTheCpu
  EveryBlockHasOneOwner
PROPERTIES
  DamagedNeverResumed
  NoOvertaking
  EveryReadyFiberRuns
  JoinReturns
