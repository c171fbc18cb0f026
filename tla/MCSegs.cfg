CONSTANTS
  ALIGN = 16
  S_TINY = 2
  S_CACHE = 3
  COMPACT = 1
  Slots <- TwoSlots
  SLOTCAP = 128
  INCR0 = 64
  PAGE = 32
  Req <- SegReq
  MAXHELD = 2
  Ops <- MCOps
  RszTypes <- MCRszTypes
  Aligns <- MCAligns
  UserWords <- MCUserWords
  Provider <- UniformShrinkProvider
SPECIFICATION Spec
INVARIANT Tiling
INVARIANT AddrCheck
INVARIANT WildInBottom
INVARIANT OneHome
