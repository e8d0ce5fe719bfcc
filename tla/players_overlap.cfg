CONSTANTS
  Clients = {c1, c2, c3, c4}
  Handles = {h1, h2, h3}
  Sessions = {s1}
  None = None
  Methods = {"OPTIONS", "DESCRIBE", "SETUP", "PLAY", "TEARDOWN"}
  MaxRequests = 1
  MaxLeaves = 2
SPECIFICATION Spec
SYMMETRY Symmetric
CHECK_DEADLOCK FALSE
INVARIANTS NewestIsInService
