CONSTANTS
  Clients = {c1, c2, c3}
  Handles = {h1, h2}
  Sessions = {s1}
  None = None
  Methods = {"DESCRIBE"}
  MaxRequests = 2
  MaxLeaves = 1
SPECIFICATION Spec
CHECK_DEADLOCK FALSE
INVARIANTS PlayersInv
PROPERTIES NewestIsAnswered LeftAreLetGo
