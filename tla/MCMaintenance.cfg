SPECIFICATION Spec
CONSTANTS
  c1 = c1
  c2 = c2
  a = a
  b = b
  d = d
  CORE = {c1, c2}
  LINE = {a}
  NONE = NONE
  READS = {"ru", "ci", "csl1", "csl2"}
  RDEPTH = 4
  RESERVED = 2
  WDEPTH = 2
  WAYS = 1
SYMMETRY Perms
INVARIANTS CmoDone MemOneAtATime
