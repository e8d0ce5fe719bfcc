CONSTANTS
  Clients = {c1, c2}
  Handles = {h1, h2}
  Sessions = {s1}
  None = None
  Overlap = TRUE
SPECIFICATION Spec
CHECK_DEADLOCK FALSE
INVARIANT HandlerGetsItsParameter
