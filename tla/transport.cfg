CONSTANTS
  Shapes <- MCShapes
  Mss = 2
  Chunk = 3
  Lockstep = TRUE
  MaxMessages = 4
SPECIFICATION Spec
CHECK_DEADLOCK FALSE
INVARIANTS StreamInv
PROPERTIES ImplementsMessageStream AllTaken
