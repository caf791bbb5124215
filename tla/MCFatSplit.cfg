SPECIFICATION Spec
CONSTANTS
  FileNames = {"f", "g"}
  DirNames = {"d"}
  Width <- MCWidth
  UNITS = 2
  CLUSTERS = 5
  MAX_SIZE = 3
  Devices <- MCSplit
  Volumes <- MCTwoFiles
  Flaky = {}
  MaxOps = 2
  MaxFaults = 1
  Writes <- MCWrites
  Sizes = {0, 1, 3}
INVARIANT NoSharedClusters
CHECK_DEADLOCK FALSE
