CONSTANTS
  ALIGN = 16
  S_TINY = 2
  S_CACHE = 3
  COMPACT = 1
  Slots <- MCSlots
  SLOTCAP = 192
  INCR0 = 64
  PAGE = 32
  Req <- RszReq
  MAXHELD = 3
  Ops <- RszOps
  RszTypes <- RszMoving
  Aligns <- MCAligns
  UserWords <- MCUserWords
  Provider <- RszProvider
SPECIFICATION Spec
INVARIANT ResizeSawWanted
INVARIANT ContentsKept
INVARIANT HeapAudit
PROPERTY RefinesAllocator
