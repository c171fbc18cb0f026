CONSTANTS
  W = 4
  SIZE = 3
  FILELEN = 5
  Sizes = {0, 1, 3, 8, 15}
  WRITES = {FALSE, TRUE}
SPECIFICATION Spec
INVARIANT TypeOK
PROPERTY PeekInBuffer
PROPERTY AnswerConsumed
PROPERTY LockedStays
