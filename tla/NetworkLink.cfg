SPECIFICATION LinkFairSpec
CONSTANTS
  MaxRetries = 3
  BackoffMin = 1
  BackoffMax = 30
  MaxUps = 3
  MaxEvents = 9
  Faults = {"init", "connect", "timer", "ap", "late_ip"}
INVARIANTS NeverStranded LinkIsTrue TimeKnowsLink
PROPERTY GetsSomewhere
CHECK_DEADLOCK FALSE
