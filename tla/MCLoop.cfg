SPECIFICATION LoopLiveSpec
CONSTANTS
  HISTORY_BYTES = 6
  HISTORY_MSGS = 4
  MAX_ROUNDS = 2
  MAX_TOOL_CALLS = 1
  SEND_RETRIES = 0
  JOURNAL_ENTRIES = 2
  EPOCHS = 65536
  SIZES = {1}
  REQ_ROOMS = {6}
  ASKS = {1}
  MAXTURNS = 2
  CHATS = {1, 2}
  ESCAPES = 1
INVARIANTS ReplyGoesToAsker OperatorNotRefused
PROPERTIES GuardComesDown
CHECK_DEADLOCK FALSE
