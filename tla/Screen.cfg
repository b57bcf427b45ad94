SPECIFICATION FairSpec
CONSTANTS
  Width = 320
  Height = 480
  QueueDepth = 3
  MaxClock = 2
  MaxFlips = 1
  Faults = {"queue", "core1"}
INVARIANTS BelievedIsComing OneFaceSeen
PROPERTY PanelCatchesUp
CHECK_DEADLOCK FALSE
