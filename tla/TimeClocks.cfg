SPECIFICATION Spec
CONSTANTS
  Tasks = {"worker", "daily"}
  MailboxLen = 1
  Steps = 1
  Faults = {"no_rtc", "rtc_read", "rtc_write", "lock", "reset"}
INVARIANTS ShownIsTrue FlagIsHonest
