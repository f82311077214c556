SPECIFICATION FairSpec
CONSTANTS
  a1 = a1
  a2 = a2
  a3 = a3
  b1 = b1
  b2 = b2
  m1 = m1
  m2 = m2
  s1 = s1
  s2 = s2
  Attempts <- RaceAttempts
  Mailboxes = {b1, b2}
  Members = {m1}
  Sessions = {s1}
  RequestIds = {1, 2}
  Digests = {1}
  MailboxOf <- RaceMailboxOf
  SessionOf <- RaceSessionOf
  RequestOf <- PairRequestOf
  DigestOf <- RaceDigestOf
  MemberOf <- QueueMemberOf
  ModeOf <- QueueModeOf
  InitialLevel <- QueueLevel
  MaxActive = 4
  MaxRevision = 0
  MaxInterruptions = 1
  MaxRetries = 1
  MaxSlowAppends = 0
CHECK_DEADLOCK FALSE
INVARIANTS
  RowsHaveWorkers
PROPERTIES
  QueuedIsSettled
