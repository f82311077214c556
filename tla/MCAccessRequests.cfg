SPECIFICATION Spec
CONSTANTS
  ann = ann
  bob = bob
  eve = eve
  s1 = s1
  s2 = s2
  b1 = b1
  r1 = r1
  r2 = r2
  c1 = c1
  c2 = c2
  i1 = i1
  i2 = i2
  NoOne = NoOne
  Founder = ann
  Members = {ann, bob}
  Mailboxes = {b1}
  Sessions = {s1, s2}
  Invites = {}
  Requests = {r1}
  Calls = {c1}
  MaxChanges = 2
  MaxViewTokens = 1
  Kinds = {"login", "password", "offboard"}
  GrantLevels = {"read", "full"}
CHECK_DEADLOCK FALSE
INVARIANTS
  ServingIsAuthorised
SYMMETRY RequestSymmetry
