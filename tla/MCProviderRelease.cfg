\* the default order with anonymous mappings: a release of break memory
CONSTANTS
  W = 4
  HEAP0 = 2
  MMAPBASE = 8
  PAGE = 2
  BREAK = FALSE
  ZEROMAP = FALSE
  FAULTS = TRUE
  Sizes = {2, 4, 14}
  Deltas = {2}
  MAXSEGS = 2
SPECIFICATION Spec
INVARIANT BreakBacked
