CONSTANTS
  m1 = m1
  m2 = m2
  m3 = m3
  b1 = b1
  b2 = b2
  b3 = b3
  b4 = b4
  c1 = c1
  o1 = o1
  o2 = o2
  o3 = o3
  o4 = o4
  None = None
  Members <- MCMembers
  Mailboxes <- MCMailboxes
  Connections = {c1}
  Groups = {1, 2, 3}
  Rules = {1, 2, 3, 4}
  ConnectionOf <- OneConnection
  Passwordless = {m3}
  External = {2}
  Ops = {o1, o2, o3, o4}
  RequestsOf <- Requests
  Initially <- Organisations
  MaxTrouble = 1
  MaxForeign = 1
  MaxReads = 2
SPECIFICATION Spec
INVARIANTS TypeOK SyncedAsDesired GroupFollowsTeam NoMailboxLeftBehind
PROPERTIES CompletedIsApplied
CHECK_DEADLOCK FALSE
