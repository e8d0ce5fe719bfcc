CONSTANTS
  Shapes <- MCShapes
  Mss = 2
  Chunk = 3
  Lockstep = FALSE
  MaxMessages = 4
SPECIFICATION Spec
CHECK_DEADLOCK FALSE
INVARIANTS PipelinedInv NothingLostOrReordered FirstIsWhole NeverStuckAtAMessage
