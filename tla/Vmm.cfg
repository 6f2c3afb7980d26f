\* One thread over a page directory with tables cleared on creation
\* (VM_ZERO_PAGES), sharing a 5-page PMM with other callers.  The walk's
\* out-of-memory, range and misalignment panics end the process.
CONSTANTS
    PAGE_SIZE_BITS = 2
    VM_ADDR_BITS = 4
    VM_ADDR_MAX = 15
    VM_PTAB_LEVELS = 2
    VM_PTAB_BITS = 1
    VM_CACHE_LEN = 2
    WORD_BITS = 8
    HOST_BASE = 1
    NHOST = 5
    LINK = 200
    ZERO_PAGES = TRUE
    OTHER_MAX = 1
    Threads <- MCThreads
    VAddrs <- MCVAddrs
    Sizes = {1, 2}
    Values = {1, 2}
SPECIFICATION Spec
CHECK_DEADLOCK FALSE
INVARIANTS
    TypeOK
    PageTree
    CacheAgrees
    MemoryAgrees
    AccessSound
