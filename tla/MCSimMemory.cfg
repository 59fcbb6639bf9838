CONSTANTS
  w1 = w1
  w2 = w2
  WORDS = {w1, w2}
  RIDS = {r1, r2}
  WIDS = {x1, x2}
  READS <- Line
  WRITES <- LineOrWord
  BANK <- TwoBanks
  NONE = NONE
  UNREAD = UNREAD
  WCMAX = 1
  TRANS_QUEUE = 2
  READ_DELAY = 1
  CMD_QUEUE = 1
  DRAIN = 1
  OUTSTANDING = 2
SPECIFICATION Spec
INVARIANTS PendingIsQueued NoneForgotten
PROPERTIES  TickProgress
SYMMETRY Perms
