CONSTANTS
  Data = {d1, d2, d3}
  NoData = NoData
  DEPTH = 4
SPECIFICATION Spec
INVARIANT Contiguous
PROPERTY ImplementsFifo
