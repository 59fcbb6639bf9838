SPECIFICATION Spec
CONSTANTS
  c1 = c1
  c2 = c2
  a = a
  b = b
  d = d
  CORE = {c1, c2}
  LINE = {a, b}
  NONE = NONE
  READS = {"rs", "ru", "cu"}
  RDEPTH = 4
  RESERVED = 2
  WDEPTH = 2
  WAYS = 1
SYMMETRY Perms
INVARIANTS SWMR DataValue NoLostStore SnoopFilter NoCircularWait
