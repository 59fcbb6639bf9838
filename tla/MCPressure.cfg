SPECIFICATION FairSpec
CONSTANTS
  c1 = c1
  c2 = c2
  a = a
  b = b
  d = d
  CORE = {c1, c2}
  LINE = {a, b}
  NONE = NONE
  READS = {"ru"}
  RDEPTH = 2
  RESERVED = 1
  WDEPTH = 1
  WAYS = 1
INVARIANT SnpL2HasEntry
PROPERTIES ReadsAnswered VictimsLeave
