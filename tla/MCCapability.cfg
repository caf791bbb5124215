SPECIFICATION Spec
CONSTANTS
  a = a
  b = b
  Caps = {a, b}
  Texts <- MCTexts
  CAP_MAX = 2
  VERSIONS = 3
  MaxErrors = 1
  MaxOps = 4
  MaxCrashes = 2
  MaxRot = 1
INVARIANTS RegistryIsStored CallRunsRegistered
PROPERTIES BootKeepsVersions StepsResolve
CHECK_DEADLOCK FALSE
