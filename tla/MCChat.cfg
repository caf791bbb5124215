SPECIFICATION LiveSpec
CONSTANTS
  HISTORY_BYTES = 5
  HISTORY_MSGS = 4
  MAX_ROUNDS = 3
  MAX_TOOL_CALLS = 1
  SEND_RETRIES = 2
  JOURNAL_ENTRIES = 2
  EPOCHS = 65536
  SIZES = {1, 5}
  REQ_ROOMS = {2, 5}
  ASKS = {1, 2}
  MAXTURNS = 2
INVARIANTS EntriesTileTheArena EveryRequestAcceptable JournalKeepsLatest OnlyFinishedTurnsRemembered
PROPERTIES FailureUndoesItselfOnly RunsOnlyWhatIsRemembered TurnEnds
CHECK_DEADLOCK FALSE
