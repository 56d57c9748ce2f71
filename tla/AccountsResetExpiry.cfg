SPECIFICATION Spec
CONSTANTS
  Emails = {e1}
  Passwords = {p1, p2}
  Clients = {c1}
  MaxResends = 1
  MaxMinted = 3
  MaxRequests = 3
CHECK_DEADLOCK FALSE
INVARIANTS
  ResetLinkLastsAsMailed
