SPECIFICATION Spec
CONSTANTS
  None = None
  Places <- MCPlaces
  Configs <- MCConfigs
  Uploads <- MCUploads
INVARIANTS TypeOK  TableAgrees TomorrowKept NotBeforeAdhan
