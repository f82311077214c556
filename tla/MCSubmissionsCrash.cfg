SPECIFICATION Spec
CONSTANTS
  a1 = a1
  a2 = a2
  a3 = a3
  b1 = b1
  b2 = b2
  m1 = m1
  m2 = m2
  s1 = s1
  s2 = s2
  Attempts <- OneAttempt
  Mailboxes = {b1}
  Members = {m1, m2}
  Sessions = {s1, s2}
  RequestIds = {1}
  Digests = {1}
  MailboxOf <- OneMailboxOf
  SessionOf <- OneSessionOf
  RequestOf <- OneRequestOf
  DigestOf <- OneDigestOf
  MemberOf <- RaceMemberOf
  ModeOf <- OneModeOf
  InitialLevel <- RaceLevel
  MaxActive = 4
  MaxRevision = 1
  MaxInterruptions = 2
  MaxRetries = 2
  MaxSlowAppends = 1
CHECK_DEADLOCK FALSE
INVARIANTS
  TypeOK
  ReportsAreTrue
  FoldersAsReported
PROPERTIES
  DraftsRemovedOnlyWhenFiled
  SMTPResultFinal
