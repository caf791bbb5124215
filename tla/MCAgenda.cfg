SPECIFICATION Spec
CONSTANTS
  Names = {"a", "b"}
  Whens = {"boot", "every", "once"}
  MaxRuns = {2}
  AGENDA_MAX_ITEMS = 2
  AGENDA_MAX_FAILURES = 2
  AGENDA_MAX_RUNS_TOTAL = 2
  Stored <- NothingStored
  Operator = {"save", "enable", "run_now"}
  BodyEdits = {"enable"}
PROPERTIES NoSecondKill InnocentNotRetired StoppedStaysStopped
