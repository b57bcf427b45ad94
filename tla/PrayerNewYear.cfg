SPECIFICATION Spec
CONSTANTS
  None = None
  Places <- MCPlaces
  Configs <- MCConfigs
  Uploads = {}
INVARIANTS LastYearNeverServes
