CONSTANTS
  W = 4
  SIZE = 3
  FILELEN = 5
  Sizes = {0, 2, 4}
  WRITES = {FALSE, TRUE}
SPECIFICATION Spec
PROPERTY PeekInBuffer
