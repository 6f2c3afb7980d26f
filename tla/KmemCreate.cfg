\* kmem_allocator_create layout at the real constants
CONSTANTS
    PAGE_SIZE = 4096
    CHUNK_SIZE = 64
    SLABHEAP_BLOCK_SIZE = 65536
    SUBHEAP_ALIGN = 8
    BASE = 16777216
    AllocatorSizes <- MCAllocatorSizes
    SubheapSizes <- MCSubheapSizes
    InitMems <- MCInitMems
    StartPages <- MCStartPages
    Blocks <- MCBlocks
SPECIFICATION Spec
\* one creation, then at most one free: the final states have no successor
CHECK_DEADLOCK FALSE
INVARIANTS
    TypeOK
    LayoutDisjoint
    HeapBitsetFits
