CONSTANTS
  c1 = c1
  c2 = c2
  CORE = {c1, c2}
  NONE = NONE
  BUDGETS <- Budgets
  AR_DEPTH = 2
  AC_DEPTH = 2
  RSPQ = 3
  REQQ = 2
  RESPQ = 4
  CTCQ = 1
  SNQ = 1
  RSAB = 1
  WSAB = 2
  NCQ_DEPTH = 1
  BMB_DEPTH = 2
SPECIFICATION FairSpec
CHECK_DEADLOCK FALSE
INVARIANTS FenceCovers PairsMeet BarRoom NoStaleLine
PROPERTY AllSettles
