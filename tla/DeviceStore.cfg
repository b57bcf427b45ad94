SPECIFICATION FairSpec
CONSTANTS
  None = None
  NoCall = NoCall
  Limit = 2
  Width = 4
  MaxCalls = 2
  MaxFaults = 1
  Slots = {app0, app1}
  MaxResets = 1
INVARIANTS TypeOK AckedSurvives TornIsOldOrNew FallbackExists RevertsUnproven RequestHonoured
PROPERTY ComesToRest
CHECK_DEADLOCK FALSE
