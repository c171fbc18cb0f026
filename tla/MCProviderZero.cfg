\* the default order: /dev/zero mappings first, sbrk as the fallback
CONSTANTS
  W = 4
  HEAP0 = 2
  MMAPBASE = 8
  PAGE = 2
  BREAK = FALSE
  ZEROMAP = TRUE
  FAULTS = TRUE
  Sizes = {2, 4, 14}
  Deltas = {2}
  MAXSEGS = 2
SPECIFICATION Spec
INVARIANT OwnedOnce NoLeak
