SPECIFICATION ChatSpec
CONSTANTS
  Text <- MCText
  Bytes = {"a", "L"}
  Long = "L"
  Exported = {}
  FAULT_PATCH_SLOTS = 2
  FAULT_PATCH_MAX_BYTES = 1
  STATE_PATCH_MAX_SLOTS = 0
  STATE_PATCH_MAX_BYTES = 0
  FAULTCHAT_MAX_DIAGNOSES = 3
  FAULTCHAT_MAX_PATCHES = 1
  FAULTCHAT_MAX_PER_RIP = 2
  FAULTCHAT_RIP_SLOTS = 3
  FAULTS = 4
INVARIANT UnattendedBounded
PROPERTIES AnswerForThisMachine FaultIsClaimed
