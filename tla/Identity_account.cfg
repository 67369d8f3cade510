SPECIFICATION IdentitySpec
CONSTANTS
  Devices = {d1, d2}
  Approvers = {d1, d2}
  Mobiles = {d1, d2}
  d1 = d1
  d2 = d2
  NoDevice = NoDevice
  Challenges = {h1, h2}
  h1 = h1
  h2 = h2
  Logins = {l1}
  l1 = l1
  Callers = {c1, c2}
  c1 = c1
  c2 = c2
  RecoveriesPerDay = 1
  MaxSessions = 2
  MaxRevision = 2
  MaxRequests = 2
SYMMETRY AccountSymmetry
CHECK_DEADLOCK FALSE
INVARIANTS
    CredentialsAreCounted
PROPERTIES
    DecisionsHold
