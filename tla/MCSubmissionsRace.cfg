SPECIFICATION Spec
CONSTANTS
  a1 = a1
  a2 = a2
  a3 = a3
  b1 = b1
  b2 = b2
  m1 = m1
  m2 = m2
  s1 = s1
  s2 = s2
  Attempts <- RaceAttempts
  Mailboxes = {b1}
  Members = {m1, m2}
  Sessions = {s1, s2}
  RequestIds = {1}
  Digests = {1}
  MailboxOf <- RaceMailboxOf
  SessionOf <- RaceSessionOf
  RequestOf <- RaceRequestOf
  DigestOf <- RaceDigestOf
  MemberOf <- RaceMemberOf
  ModeOf <- RaceModeOf
  InitialLevel <- RaceLevel
  MaxActive = 4
  MaxRevision = 1
  MaxInterruptions = 1
  MaxRetries = 0
  MaxSlowAppends = 0
CHECK_DEADLOCK FALSE
INVARIANTS
  RequestTakenAtMostOnce
PROPERTIES
  HandOffAuthorised
  FulfilsOutbox
SYMMETRY RaceSymmetry
