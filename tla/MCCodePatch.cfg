SPECIFICATION Spec
CONSTANTS
  Text <- MCText
  Bytes = {"a", "L"}
  Long = "L"
  Exported = {1, 2}
  FAULT_PATCH_SLOTS = 2
  FAULT_PATCH_MAX_BYTES = 2
  STATE_PATCH_MAX_SLOTS = 1
  STATE_PATCH_MAX_BYTES = 2
INVARIANT LinkedPlusLive
PROPERTY RevertOnlyOwnBytes
