SPECIFICATION Spec
CONSTANTS
  SIZE_T = 128
  ALIGN = 2
  HDR = 4
  MIN_PAYLOAD = 2
  BASE = 8
  ARENA = 32
  REQUESTS = {0, 6, 65, 127}
  RESIZES = {2, 10, 126}
  COUNTS = {2}
  ALIGNS = {4, 8}
INVARIANTS HeapChecks OwnersHaveTheirMemory
CHECK_DEADLOCK FALSE
