CONSTANTS
  Clients = {c1, c2, c3}
  Handles = {h1, h2}
  Sessions = {s1}
  None = None
  Overlap = TRUE
SPECIFICATION Spec
SYMMETRY Symmetric
CONSTRAINTS OneKilled ServerRuns
CHECK_DEADLOCK FALSE
INVARIANTS IInv SlotIsRecent HandlerNeverOlder HeldInv OrphansWereSuperseded AnswersFlowForward
