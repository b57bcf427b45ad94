SPECIFICATION Spec
CONSTANTS
  None = None
  Configs = {c1, c2}
  Exact = {c1}
  LastDay = 2
  YearLength = 2
  Offset <- MCOffset
  Uploads <- MCUploads
  Refused <- MCRefused
  Regens = {"regen"}
  Requests = {"config", "regenerate", "delete", "upload"}
  Faults = {"spawn", "flash", "full", "heap", "setter", "reset"}
  c1 = c1
  c2 = c2
INVARIANTS QuietIsRight NoTornFile
PROPERTIES UserFileKept
CONSTRAINT Fed
ACTION_CONSTRAINT Orderly
CHECK_DEADLOCK FALSE
