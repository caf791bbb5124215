SPECIFICATION Spec
CONSTANTS
  FileNames = {"f", "g"}
  DirNames = {"d"}
  Width <- MCWidth
  UNITS = 2
  CLUSTERS = 5
  MAX_SIZE = 3
  Devices <- MCDevices
  Volumes <- MCVolumes
  Flaky = {"create", "mkdir", "write", "truncate"}
  MaxOps = 2
  MaxFaults = 1
  Writes <- MCWrites
  Sizes = {0, 1, 3}
INVARIANTS ChainsSound NoLeak
PROPERTY FilesPromise
CHECK_DEADLOCK FALSE
