SPECIFICATION Spec
CONSTANTS
  Tasks = {"worker", "timer", "manual"}
  MailboxLen = 1
  Steps = 2
  Faults = {"no_rtc"}
INVARIANTS BuffersQuiet BackoffRestarts RetryPending SyncsSpaced
