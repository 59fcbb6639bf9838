SPECIFICATION Spec
CONSTANTS
  c1 = c1
  c2 = c2
  a = a
  b = b
  d = d
  CORE = {c1}
  LINE = {a, b, d}
  NONE = NONE
  READS = {"ru", "irs", "ro"}
  RDEPTH = 2
  RESERVED = 1
  WDEPTH = 1
  WAYS = 2
SYMMETRY Perms
INVARIANTS RefillHasWay
