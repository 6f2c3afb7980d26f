\* A 1-chunk region from the sub-heap, aligned past every slab size, freed.
CONSTANTS
    CHUNK_SIZE = 16
    SLABHEAP_MIN_SIZE = 8
    SLABHEAP_COUNT = 2
    SLABHEAP_BLOCK_SIZE = 32
    PAGE_SIZE = 32
    BEST_FIT_THRESHOLD = 2
    SLABBLOCK_HDR = 0
    HEAP_BASE = 32
    HEAP_SIZE = 64
    Requests <- MCRequestsOverAligned
SPECIFICATION Spec
CHECK_DEADLOCK FALSE
INVARIANT NoFault
