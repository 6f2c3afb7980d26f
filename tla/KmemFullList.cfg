\* A sub-heap of 4 chunks: two blocks of the largest slab size can both fill.
CONSTANTS
    CHUNK_SIZE = 16
    SLABHEAP_MIN_SIZE = 8
    SLABHEAP_COUNT = 2
    SLABHEAP_BLOCK_SIZE = 32
    PAGE_SIZE = 32
    BEST_FIT_THRESHOLD = 2
    SLABBLOCK_HDR = 0
    HEAP_BASE = 32
    HEAP_SIZE = 80
    Requests <- MCRequestsLargestSlab
SPECIFICATION Spec
CHECK_DEADLOCK FALSE
INVARIANT SlabListsWellFormed
