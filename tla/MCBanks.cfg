SPECIFICATION Spec
CONSTANTS
  c1 = c1
  c2 = c2
  b0 = b0
  b1 = b1
  CORE = {c1, c2}
  BANK = {b0, b1}
  NONE = NONE
  KINDS = {"wb", "evict", "ws"}
  MAX_WRITES = 2
  LINE_BEATS = 1
  WS_DEPTH = 1
  WNS_DEPTH = 1
  SID_DEPTH = 2
  CD_DEPTH = 0
  CDD_DEPTH = 1
  WDEPTH = 2
  SEL_DEPTH = 2
  WOQ_DEPTH = 1
  WDQ_DEPTH = 1
  MAX_BAR = 0
INVARIANTS WdSelRoom HeadsMeet
SYMMETRY Perms
