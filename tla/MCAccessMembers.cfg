SPECIFICATION Spec
CONSTANTS
  ann = ann
  bob = bob
  eve = eve
  s1 = s1
  s2 = s2
  b1 = b1
  r1 = r1
  r2 = r2
  c1 = c1
  c2 = c2
  i1 = i1
  i2 = i2
  NoOne = NoOne
  Founder = ann
  Members = {ann, bob}
  Mailboxes = {}
  Sessions = {s1}
  Invites = {i1}
  Requests = {}
  Calls = {c1, c2}
  MaxChanges = 2
  MaxViewTokens = 1
  Kinds = {"login", "accept", "status", "offboard", "role", "transfer"}
  GrantLevels = {}
CHECK_DEADLOCK FALSE
INVARIANTS
  TypeOK
  SessionsFollowStatus
  OneOwner
  StatusMatchesPassword
SYMMETRY MemberSymmetry
