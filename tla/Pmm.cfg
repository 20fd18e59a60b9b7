CONSTANTS
  c1 = c1
  c2 = c2
  Clients <- MCClients
  BootInfos <- MCBootInfos
  WORD_BITS = 4
  BITMAP_WORDS = 4
  PMM_BLOCK_SIZE = 4
  LARGE_BLOCKS = 2
  PageCounts = {0, 1, 2, 3}
SPECIFICATION Spec
INVARIANTS HeldDisjoint Accounting NeverAborts
PROPERTY ImplementsPageAllocator
SYMMETRY Symmetry
CHECK_DEADLOCK FALSE
