SPECIFICATION LiveSpec
CONSTANTS
  Names = {"a", "b", "c"}
  Whens = {"every", "once"}
  MaxRuns = {1, 2}
  AGENDA_MAX_ITEMS = 3
  AGENDA_MAX_FAILURES = 2
  AGENDA_MAX_RUNS_TOTAL = 2
  Stored <- Mixed
  Operator = {"switch", "remove"}
  BodyEdits = {}
PROPERTY DueIsServed
