CONSTANTS
  o1 = o1
  o2 = o2
  None = None
  Ops = {o1, o2}
  Protocols = {"imap", "smtp"}
  IMAP = "imap"
  MaxKeys = 6
  MaxCreds = 4
  MaxTrouble = 2
  MaxForeign = 1
  MaxChanges = 1
  Initially <- Mailboxes
SPECIFICATION Spec
INVARIANTS TypeOK NothingForgotten RevokedIsRefused ServiceContinues PasswordIsKnown
CHECK_DEADLOCK FALSE
