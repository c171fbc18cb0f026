CONSTANTS
  ALIGN = 16
  S_TINY = 2
  S_CACHE = 3
  COMPACT = 1
  Slots <- AlnSlots
  SLOTCAP = 192
  INCR0 = 64
  PAGE = 32
  Req <- AlnReq
  MAXHELD = 2
  Ops <- AlnOps
  RszTypes <- MCRszTypes
  Aligns <- AlnAligns
  UserWords <- MCUserWords
  Provider <- OneSlotProvider
SPECIFICATION Spec
INVARIANT HeapAudit
PROPERTY RefinesAllocator
