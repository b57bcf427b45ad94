SPECIFICATION FairSpec
CONSTANTS
  None = None
  Configs = {c1}
  Exact = {c1}
  LastDay = 1
  YearLength = 2
  Offset <- MCFixed
  Uploads = {}
  Refused = {}
  Regens = {"regen1", "regen2"}
  Requests = {}
  Faults = {"spawn"}
  c1 = c1
  c2 = c2
INVARIANTS FlagBacked
PROPERTIES KeyCatchesUp
CHECK_DEADLOCK FALSE
