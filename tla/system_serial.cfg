CONSTANTS
  Clients = {c1, c2}
  Handles = {h1, h2}
  Sessions = {s1, s2}
  None = None
  Overlap = FALSE
SPECIFICATION Spec
CHECK_DEADLOCK FALSE
INVARIANTS SerialInv PlayIsSetUp
PROPERTIES ImplementsRequestReply SessionStable ClosesOnlyTheLeft NoHang LeftAreLetGo
