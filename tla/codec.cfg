CONSTANTS
  MaxHeader = 3
  MaxBody = 4
  MaxMedia = 2
  BufferSize = 64
  WordLen <- MCWordLen
  Messages <- MCMessages
  Texts <- MCTexts
  Descriptions <- MCDescriptions
SPECIFICATION Spec
CHECK_DEADLOCK FALSE
INVARIANTS MediaMatch TrapsForAReason AttributesReadBack SizesAreExact
INVARIANTS OwnMessagesSurvive DescriptionReadBack
