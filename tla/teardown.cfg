CONSTANTS
  Clients = {c1, c2}
  Handles = {h1, h2}
  Sessions = {s1}
  None = None
  Methods = {"OPTIONS", "DESCRIBE", "SETUP", "PLAY", "TEARDOWN"}
  MaxRequests = 1
  MaxLeaves = 1
SPECIFICATION Spec
CHECK_DEADLOCK FALSE
INVARIANT NoHandlerTraps
