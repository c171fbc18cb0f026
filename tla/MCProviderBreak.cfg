\* VM_break set: sbrk first, then anonymous mappings; the probe may fault
CONSTANTS
  W = 4
  HEAP0 = 2
  MMAPBASE = 8
  PAGE = 2
  BREAK = TRUE
  ZEROMAP = FALSE
  FAULTS = TRUE
  Sizes = {2, 4, 14}
  Deltas = {2}
  MAXSEGS = 2
SPECIFICATION Spec
INVARIANT TypeOK OwnedOnce NoLeak
