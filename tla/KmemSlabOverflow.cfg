\* sizeof(slabblock_t) in front of the chunks, 4 sub-heap chunks.
CONSTANTS
    CHUNK_SIZE = 16
    SLABHEAP_MIN_SIZE = 8
    SLABHEAP_COUNT = 2
    SLABHEAP_BLOCK_SIZE = 32
    PAGE_SIZE = 32
    BEST_FIT_THRESHOLD = 2
    SLABBLOCK_HDR = 8
    HEAP_BASE = 32
    HEAP_SIZE = 80
    Requests <- MCRequests
SPECIFICATION Spec
CHECK_DEADLOCK FALSE
INVARIANT RegionsDisjoint
