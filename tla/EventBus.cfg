SPECIFICATION FairSpec
CONSTANTS
  Publishers = {p1, p2}
  m1 = m1
  m2 = m2
  t1 = t1
  t2 = t2
  None = None
  Mailboxes = {m1, m2}
  Types = {t1, t2}
  Rules <- MCRules
  Slots = 2
  QueueLen = 2
  MailboxLen = 1
  MaxPublish = 2
INVARIANTS InOrderOnce EvictsOldestFirst
PROPERTIES FanoutComplete FanoutSpec NobodyWaits
CHECK_DEADLOCK FALSE
