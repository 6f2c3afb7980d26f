\* One sub-heap of 3 chunks: room for one slab block and heap regions.
\* kmem_expand panics when memory runs out, which ends the process: those
\* states have no successor.
CONSTANTS
    CHUNK_SIZE = 16
    SLABHEAP_MIN_SIZE = 8
    SLABHEAP_COUNT = 2
    SLABHEAP_BLOCK_SIZE = 32
    PAGE_SIZE = 32
    BEST_FIT_THRESHOLD = 3
    SLABBLOCK_HDR = 0
    HEAP_BASE = 32
    HEAP_SIZE = 64
    Requests <- MCRequests
SPECIFICATION Spec
CHECK_DEADLOCK FALSE
INVARIANTS
    TypeOK
    NoFault
    RegionsDisjoint
    HeapAccounting
    SlabChunksAccounted
    SlabListsWellFormed
    RegionAligned
