CONSTANTS
  ALIGN = 16
  S_TINY = 2
  S_CACHE = 3
  COMPACT = 1
  Slots <- MCSlots
  SLOTCAP = 128
  INCR0 = 64
  PAGE = 32
  Req <- InpReq
  MAXHELD = 2
  Ops <- InpOps
  RszTypes <- RszInPlace
  Aligns <- MCAligns
  UserWords <- MCUserWords
  Provider <- RszProvider
SPECIFICATION Spec
INVARIANT ContentsKept
INVARIANT AddrCheck
INVARIANT OneHome
