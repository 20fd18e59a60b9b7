CONSTANTS
  c1 = c1
  c2 = c2
  c3 = c3
  Clients <- MCClients
  HEAP_BEGIN = 64
  HEAP_SIZE = 116
  UINT32 = 256
  Sizes = {0, 9, 24}
  Aligns = {4, 32}
SPECIFICATION Spec
INVARIANTS HeapWellFormed PointersGood UsageExact
SYMMETRY Symmetry
CHECK_DEADLOCK FALSE
