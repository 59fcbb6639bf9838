SPECIFICATION FairSpec
CONSTANTS
  c1 = c1
  c2 = c2
  b0 = b0
  b1 = b1
  CORE = {c1}
  BANK = {b0}
  NONE = NONE
  KINDS = {"wb", "ws"}
  MAX_WRITES = 4
  LINE_BEATS = 2
  WS_DEPTH = 2
  WNS_DEPTH = 1
  SID_DEPTH = 1
  CD_DEPTH = 1
  CDD_DEPTH = 1
  WDEPTH = 2
  SEL_DEPTH = 2
  WOQ_DEPTH = 1
  WDQ_DEPTH = 1
  MAX_BAR = 0
INVARIANT WOrderRoom
PROPERTY DataArrives
