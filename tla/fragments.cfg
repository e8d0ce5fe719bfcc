CONSTANTS
  MaxPayload = 6
  SeqSpace = 3
  MaxSize = 12
  UnitSizes <- MCUnitSizes
  MaxUnits = 2
  MaxPosted = 2
SPECIFICATION Spec
CHECK_DEADLOCK FALSE
INVARIANT FragmentsRebuildTheUnit
