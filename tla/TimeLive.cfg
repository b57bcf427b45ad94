SPECIFICATION FairSpec
CONSTANTS
  Tasks = {"worker", "timer"}
  MailboxLen = 1
  Steps = 1
  Faults = {}
PROPERTIES WorkerReturns FailureMadeGood
