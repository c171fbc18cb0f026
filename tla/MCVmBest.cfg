CONSTANTS
  ALIGN = 16
  S_TINY = 2
  S_CACHE = 3
  COMPACT = 1
  Slots <- MCSlots
  SLOTCAP = 128
  INCR0 = 64
  PAGE = 32
  Req <- MCReq
  MAXHELD = 2
  Ops <- MCOps
  RszTypes <- MCRszTypes
  Aligns <- MCAligns
  UserWords <- MCUserWords
  Provider <- OneSlotProvider
SPECIFICATION Spec
INVARIANT TypeOK
INVARIANT Tiling
INVARIANT HeapAudit
INVARIANT AddrCheck
INVARIANT OneHome
