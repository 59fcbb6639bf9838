SPECIFICATION Spec
CONSTANTS
  c1 = c1
  c2 = c2
  b0 = b0
  b1 = b1
  CORE = {c1}
  BANK = {b0}
  NONE = NONE
  KINDS = {"wb", "evict", "ws", "bar", "nc"}
  MAX_WRITES = 3
  LINE_BEATS = 2
  WS_DEPTH = 2
  WNS_DEPTH = 1
  SID_DEPTH = 1
  CD_DEPTH = 1
  CDD_DEPTH = 1
  WDEPTH = 2
  SEL_DEPTH = 2
  WOQ_DEPTH = 2
  WDQ_DEPTH = 1
  MAX_BAR = 1
INVARIANTS StreamMoves DataMeetsRequest VictimSlot
