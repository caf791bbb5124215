SPECIFICATION FaultSpec
CONSTANTS
  root = root
  ui = ui
  skippable = skippable
  other = other
  NULL = NULL
  Fibers = {root, ui}
  ArmerSets = {{root}, {root, ui}}
  Rips = {skippable}
  Image = {skippable}
  StepFix <- MCStepFix
  Plans <- OnePlan
  FAULT_GUARD_DEPTH_MAX = 2
  FAULT_ESCAPE_MAX = 1
  FAULT_RING_SIZE = 2
  FAULT_REFAULT_MAX = 1
  FAULT_PLAN_USES_MAX = 2
  FRAMES_MAX = 2
  FAULTS_MAX = 3
INVARIANTS
  CpuStaysHome
  RingIsHistory
  RecoveryLoopEnds
PROPERTIES
  GuardedActionNeverHalts
  EscapeLandsOnLiveCall
